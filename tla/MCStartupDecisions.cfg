SPECIFICATION Spec
CONSTANTS
  Values = {"1", "0"}
  MaxPatterns = 2
INVARIANT
  OptOutHonoured
