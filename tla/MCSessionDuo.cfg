SPECIFICATION Spec
CONSTANTS
  d1 = d1
  d2 = d2
  r1 = r1
  r2 = r2
  r3 = r3
  s1 = s1
  a1 = a1
  a2 = a2
  b1 = b1
  b2 = b2
  e1 = e1
  e2 = e2
  NoInstance = NoInstance
  NoRun = NoRun
  Instance <- DuoInstance
  Run <- MCRun
  Session <- MCSession
  Call <- DuoCall
  InstanceOf <- DuoInstanceOf
  SessionOf <- MCSessionOf
  DriverOf <- MCDriverOf
  IdentityOf <- DuoIdentityOf
  RunOf <- DuoRunOf
  LateCalls = TRUE
  TTL = 1
  MaxTime = 2
INVARIANTS ReleasedMeansEnded ReapAccounted
PROPERTY ImplementsStore
CHECK_DEADLOCK FALSE
