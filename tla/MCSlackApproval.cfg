SPECIFICATION FairSpec
CONSTANTS
  c1 = c1
  c2 = c2
  Call <- MCCall
  ModeOf <- MCModeOf
  NonceTTL = 1
  AwaitTime = 1
  MaxTime = 1
  MaxClicks = 2
INVARIANTS GrantedByHuman AwaitIsHeld
PROPERTIES EveryPromptEnds
CHECK_DEADLOCK FALSE
