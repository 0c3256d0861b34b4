SPECIFICATION Spec
CONSTANTS
  Runs = 2
  ReadyWait = 3
  StartupWait = 3
INVARIANT
  ReadyIsOwn
