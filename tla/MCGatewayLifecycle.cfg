SPECIFICATION FairSpec
CONSTANTS
  Agents = {a1, a2}
  MaxSignals = 2
INVARIANTS
  TypeOK
  ExitAfterGroup
  SequentialOrder
  RefusedConfigStartsNothing
  StopHasCause
  CloserClosedLast
PROPERTIES
  ImplementsServiceGroup
  ToleratedFaultServes
  SignalStops
  AgentFailureStops
  RouterEndStops
