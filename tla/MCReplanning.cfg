CONSTANTS
  Artifact <- MCArtifact
  Listed = {"evidence", "capability", "assessment"}
  Stored = {"evidence", "capability", "economics"}
  Type <- MCArtifact
  TypeOf <- MCTypeOf
  Impact <- MCImpact
  MarketTypes = {"evidence"}
  RoleOf <- MCRoleOf
  PossibleEdges <- MCEdges
  Others = {"capability", "assessment"}
  MaxVersion = 2

SPECIFICATION Spec

INVARIANTS
  PlanIsReachability
  UnaffectedKept
  AffectedMarked

PROPERTIES
  Returns

CHECK_DEADLOCK FALSE
