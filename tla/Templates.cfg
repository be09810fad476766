\* Bytes of four bits.  Every template but those of the two findings.
CONSTANTS
  Half = 4
  Forms <- MCForms
  None = None
SPECIFICATION Spec
INVARIANTS GuestInstruction Transparent
CHECK_DEADLOCK FALSE
