CONSTANTS
  p1 = p1
  p2 = p2
  market = market
  supply = supply
  revision = revision
  TaskId <- MCTaskId
  Key <- MCKey
  Agent <- MCAgent
  RevisionKey <- MCRevisionKey
  Process = {p1, p2}
  Actor <- MCWriter
  Target <- MCTarget
  Request <- MCWritten
  Successor <- MCNoSuccessor
  MayFail = FALSE

SPECIFICATION Spec

PROPERTIES
  JudgedIsFinal
