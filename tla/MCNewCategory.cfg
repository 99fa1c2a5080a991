CONSTANTS
  Task <- DeskTask
  Artifact <- DeskArtifact
  Mode <- DeskMode
  Program <- DeskProgram
  Depends <- DeskDepends
  LinksInputs = FALSE
  Decision = "decision"
  Approval = "approval"
  MaxCrashes = 3

SPECIFICATION DeskSpec

INVARIANTS
  RefusedOnlyBehindStuck
  AcceptedDecisionIsApproved

PROPERTIES
  EndsUnlessStuck
  ImplementsBoard
