\* Frames of three lines of seven cycles; the timer overflows about once in a
\* line, and a transfer of two blocks takes four cycles.
CONSTANTS
  Programs <- MCPrograms
  AddrCount = 15
  VectorBase = 6
  VectorStep = 3
  Slots = 3
  BlockCycles = 3
  CycleBound = 12
  LineCycles = 7
  Visible = 2
  LineCount = 3
  DmaCycles = 2
  TimerDiv = 4
  TimaRange = 2
  None = None
SPECIFICATION Spec
INVARIANTS ServedOnce StackBalanced
PROPERTIES LoopRefined HandlersRun
