SPECIFICATION FairSpec
CONSTANTS
  Runs = 3
  ReadyWait = 3
  StartupWait = 0
INVARIANTS
  TypeOK
  LeavesOnlyWhenNotReady
  AttemptsBounded
PROPERTIES
  WaitEnds
  ClosedIsFreed
