CONSTANTS
  Task <- NapTask
  Artifact <- NapArtifact
  Mode <- NapMode
  Program <- NapProgram
  Depends <- NapDepends
  LinksInputs = TRUE
  Decision = "decision"
  Approval = "approval"
  MaxCrashes = 1

SPECIFICATION Spec

INVARIANTS
  InputsNeverMissing
  JudgedOnDelivery
  BuiltOnAccepted
  EdgesComplete

PROPERTIES
  RerunChangesNothing
  ImplementsLedger
