SPECIFICATION FairSpec
CONSTANTS
  d1 = d1
  d2 = d2
  r1 = r1
  r2 = r2
  r3 = r3
  s1 = s1
  a1 = a1
  a2 = a2
  b1 = b1
  b2 = b2
  e1 = e1
  e2 = e2
  NoInstance = NoInstance
  NoRun = NoRun
  Instance <- SoloInstance
  Run <- MCRun
  Session <- MCSession
  Call <- SoloCall
  InstanceOf <- SoloInstanceOf
  SessionOf <- MCSessionOf
  DriverOf <- MCDriverOf
  IdentityOf <- MCIdentityOf
  RunOf <- SoloRunOf
  LateCalls = TRUE
  TTL = 1
  MaxTime = 0
INVARIANTS TypeOK EndedIsComplete RefusedStartsNothing
PROPERTIES MediatedLeavesNoSandbox RunSettles
CHECK_DEADLOCK FALSE
