\* sbc a,(hl) with (hl) in memory that faults.
CONSTANTS
  Half = 4
  Forms <- SbcFault
  None = None
SPECIFICATION Spec
INVARIANTS Transparent
CHECK_DEADLOCK FALSE
