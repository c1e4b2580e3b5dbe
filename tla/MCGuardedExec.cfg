SPECIFICATION Spec
CONSTANTS
  Absent = Absent
  Mark = "***"
  MaxOutput = 3
  Letters <- MCLetters
  Names <- MCNames
  Dangerous <- MCDangerous
  Rules <- MCRules
  Scenarios <- MCScenarios
INVARIANTS StrictestWins LintSeesDangerousAllow
INVARIANTS JournalHoldsNoSecret DeliveredHoldsNoUsedSecret
CHECK_DEADLOCK FALSE
