CONSTANTS
  p1 = p1
  p2 = p2
  market = market
  supply = supply
  revision = revision
  TaskId <- MCTaskId
  Key <- MCKey
  Agent <- MCAgent
  RevisionKey <- MCRevisionKey
  Process = {p1}
  Actor <- MCActor
  Target <- MCAllTarget
  Request <- MCRequest
  Successor <- MCSuccessor
  MayFail = FALSE

SPECIFICATION Spec

INVARIANTS
  DependenciesStand
  EventsExplainState

PROPERTIES
  JudgedIsFinal
  ImplementsBoard
