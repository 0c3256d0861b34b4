SPECIFICATION Spec
CONSTANTS
  Cases <- MCCases
  MaxCases = 3
INVARIANTS
  TypeOK
  OnlyErrorsMissed
  NothingHidden
  GatewayTakenDown
  BodiesClosed
