SPECIFICATION Spec
CONSTANTS
  Agents = {a1}
  MaxSignals = 1
INVARIANT
  TelemetryClosed
