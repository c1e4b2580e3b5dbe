SPECIFICATION FairSpec
CONSTANTS
  c1 = c1
  c2 = c2
  c3 = c3
  Call <- MCCall
  ModeOf <- MCModeOf
INVARIANTS WriteAhead OneStory ToldMatchesJournal
PROPERTIES EveryCallSettles
CHECK_DEADLOCK FALSE
