\* HALT_CYCLES is -1 and there is no DMA.
CONSTANTS
  Batches = {1, 3}
  Period <- MCPeriod
  TimaRange = 3
  DivCycles = 2
  DivRange = 2
  LineCycles = 4
  BlockCycles = 2
  Lengths = {}
  Settings <- Skips
SPECIFICATION Spec
PROPERTIES WakesOnTime
