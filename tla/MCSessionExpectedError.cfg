SPECIFICATION Spec
CONSTANTS
  Cases <- MCCases
  MaxCases = 1
INVARIANT
  CountsUnsatisfied
