\* rlc a, rrc a, rl a, rr a of the second table.
CONSTANTS
  Half = 4
  Forms <- RotateCbA
  None = None
SPECIFICATION Spec
INVARIANTS GuestInstruction
CHECK_DEADLOCK FALSE
