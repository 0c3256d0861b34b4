SPECIFICATION Spec
CONSTANTS
  r1 = r1
  r2 = r2
  Requests <- MCRequests
  Endpoints <- MCEndpoints
  Burst = 1
  MaxErrors = 2
  MaxTicks = 2
INVARIANTS
  TypeOK
  AuthBeforeCost
  CallsArePaid
  BrokenSpendsNothing
  PreflightPasses
