CONSTANTS
  t1 = t1
  t2 = t2
  w1 = w1
  w2 = w2
  r1 = r1
  r2 = r2
  None = None
  Torn = Torn
  Terminal <- MCTerminal
  Worker <- MCWorker
  Run <- MCRun
  Call <- MCCall
  Window = 2
  MaxEvents = 3
  MaxSecond = 1

SPECIFICATION Spec

INVARIANTS
  EndToEndMeansHandedOff
  CertifiedByOwnRun
  MissesOnlyUnlisted

SYMMETRY MCSymmetry
