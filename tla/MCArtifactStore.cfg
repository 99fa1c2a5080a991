CONSTANTS
  c1 = c1
  c2 = c2
  prompt = prompt
  render = render
  quote = quote
  p1 = p1
  p2 = p2
  Client <- MCClient
  ArtifactId <- MCArtifactId
  Project <- MCProject
  Key <- MCKey
  Call <- MCCall
  MaxVersion = 2

SPECIFICATION Spec

INVARIANTS
  LatestIsNewest
  ReferencesResolve
  OnceAndSameAnswer

PROPERTIES
  CommitsOnWhatItSaw
  ImplementsLedger

SYMMETRY MCSymmetry
