SPECIFICATION FairSpec
CONSTANTS
  MaxRuns = 3
  MaxKeys = 3
  MaxInterrupts = 2
  MaxMishaps = 2
  Environment <- MCEnvironment
INVARIANTS OutboxKeeps RepeatIsExcused VerifiesWithItsKey
PROPERTY DrainEnds
CHECK_DEADLOCK FALSE
