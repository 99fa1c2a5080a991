CONSTANTS
  p1 = p1
  p2 = p2
  market = market
  supply = supply
  revision = revision
  TaskId <- MCTaskId
  Key <- MCKey
  Agent <- MCAgent
  RevisionKey <- MCRevisionKey
  Process = {p1, p2}
  Actor <- MCGate
  Target <- MCTarget
  Request <- MCRaceRequest
  Successor <- MCNoSuccessor
  MayFail = TRUE

SPECIFICATION Spec

INVARIANTS
  OneTaskPerKey
  StartedAfterDependencies

SYMMETRY MCSymmetry
