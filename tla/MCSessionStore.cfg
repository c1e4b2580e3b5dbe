SPECIFICATION Spec
CONSTANTS
  d1 = d1
  d2 = d2
  r1 = r1
  r2 = r2
  r3 = r3
  s1 = s1
  NoInstance = NoInstance
  NoRun = NoRun
  Instance <- MCInstance
  Run <- MCRun
  Session <- MCSession
  SessionOf <- MCSessionOf
  InstanceOf <- MCInstanceOf
  TTL = 2
  MaxTime = 5
  MaxToken = 4
INVARIANTS TypeOK SupersededIsFenced
PROPERTIES FencedForever LiveLeaseKept
CHECK_DEADLOCK FALSE
