SPECIFICATION Spec
CONSTANTS
  Extra = {"extra"}
  MaxArgs = 2
INVARIANTS
  TypeOK
  ExitTellsVerdict
  NothingSkipped
