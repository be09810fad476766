----------------------------- MODULE MCMachine -----------------------------
(***************************************************************************)
(* Three guests of 15 instructions, with the handlers of VBlank, STAT and  *)
(* timer at 6, 9 and 12.                                                   *)
(***************************************************************************)
EXTENDS Machine, Sequences

I(op) == [op |-> op]
Store(r, v) == [op |-> "store", r |-> r, v |-> v]
Jump(to) == [op |-> "jump", to |-> to]

Handlers == <<I("push"), I("pop"), I("reti"), I("nop"), I("nop"), I("reti"),
              I("push"), I("pop"), I("reti")>>
Guest(main) == LET code == main \o Handlers IN [a \in Addr |-> code[a + 1]]

MCPrograms ==
  { \* Waits in HALT, computes and transfers two blocks at HBlank.
    Guest(<<Store("IE", {VBLANK, TIMER}), I("ei"), I("halt"),
            Store("HDMA5_HBLANK", 1), Jump({2, 4}), Jump({2})>>),
    \* Computes for any time and transfers two blocks at once, or stops or
    \* resizes a transfer.
    Guest(<<Store("IE", Sources), I("ei"), Store("HDMA5_NOW", 1),
            Jump({2, 3, 4}), Store("HDMA5_HBLANK", 2), Jump({2, 4})>>),
    \* Requests interrupts itself, waits for some and leaves others alone.
    Guest(<<Store("IE", {STAT, VBLANK}), Store("IF", {STAT}), I("ei"), I("halt"),
            Store("IF", {TIMER}), Jump({1, 3})>>) }

\* They meet the premises of the theorems about VBlank and the stack.
ASSUME GuestsEntered == \A p \in MCPrograms : EnteredByInterrupt(p)
ASSUME GuestsBalanced == \A p \in MCPrograms : Balanced(p)
============================================================================
