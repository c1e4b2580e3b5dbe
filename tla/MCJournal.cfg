SPECIFICATION Spec
CONSTANTS
  w1 = w1
  w2 = w2
  Writer <- MCWriter
  MaxSeals = 4
  Resume = FALSE
INVARIANTS NothingLostSilently VerifiedMeansKept
PROPERTIES AppendHeals ImplementsLog
CHECK_DEADLOCK FALSE
