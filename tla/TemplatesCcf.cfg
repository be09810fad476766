\* ccf.
CONSTANTS
  Half = 4
  Forms <- Ccf
  None = None
SPECIFICATION Spec
INVARIANTS GuestInstruction
CHECK_DEADLOCK FALSE
