\* The batches: small ones, and one that makes the timer overflow more than
\* once and ends more than one line.
CONSTANTS
  Batches = {1, 3, 7}
  Period <- MCPeriod
  TimaRange = 3
  DivCycles = 2
  DivRange = 2
  LineCycles = 4
  BlockCycles = 2
  Lengths = {0, 1}
  Settings <- AllSettings
SPECIFICATION Spec
INVARIANTS BatchesExact LoopEnds
PROPERTIES WakesInTime TimerWakes
