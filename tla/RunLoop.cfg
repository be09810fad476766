\* Two sources, four addresses and a stack of two words.
CONSTANTS
  Sources = {0, 1}
  Raisable = {0, 1}
  AddrCount = 4
  VectorBase = 2
  VectorStep = 1
  Slots = 2
  BlockCycles = 2
  CycleBound = 3
  None = None
SPECIFICATION Spec
INVARIANTS HaltAwake OwedEntered CyclesAccounted
PROPERTIES HaltIsFinal IrqContractHolds EnabledServed
