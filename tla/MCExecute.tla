----------------------------- MODULE MCExecute -----------------------------
(***************************************************************************)
(* dynarec() and the caches in one run: the builder runs to its end before *)
(* the first block is entered, and the caches live on from there.  Every   *)
(* sequence of instructions is a behaviour of that first call, so the      *)
(* later ones, which begin in the same way, are not followed again.        *)
(***************************************************************************)
EXTENDS Translator, BlockCache, TLC

----------------------------------------------------------------------------
(* The shapes of the default build (REGISTER_EQUIVALENCE, flags always     *)
(* updated), read off dynarec/ops.c and the tables of dynarec/op-info.c.   *)

S(b, c) == [bytes |-> b, cycles |-> c]

\* One entry per pair of size and cycle count that some opcode has.
MCStraight ==
  { \* ops.c: nop, ld, alu, inc/dec, rotations of A, flags, DI and EI
    S(1, 1), S(2, 1), S(7, 1), S(8, 1), S(10, 1),
    S(2, 2), S(4, 2), S(6, 2), S(10, 2), S(17, 2), S(23, 2),
    S(2, 3), S(3, 3), S(4, 3), S(10, 3), S(12, 3), S(23, 3), S(5, 4),
    S(10, 4), S(26, 4), S(7, 5),
    \* jumps and calls that are followed, conditional ones with their exit
    S(0, 3), S(0, 4), S(12, 4), S(12, 6), S(32, 2), S(35, 3),
    \* the CB prefix
    S(5, 2), S(7, 2), S(18, 2), S(19, 2), S(5, 3), S(19, 3),
    S(7, 4), S(11, 4), S(19, 4) }

MCFinal ==
  { S(30, 4), S(37, 4),  \* ret, reti
    S(19, 1),            \* jp (hl)
    S(21, 0) }           \* left to the run loop: HALT, E0, E2, F0, F2

\* The table meets the premise of the theorem about the buffer.
ASSUME TableDense == Dense(16, 21, 6)

----------------------------------------------------------------------------
(* Two slots, so that blocks of one cache collide by address and by bank.  *)

CONSTANTS b1, b2, w1, w2, w3, r1, s1, s2

MCSlot == (b1 :> s1) @@ (b2 :> s1) @@ (w1 :> s1) @@ (w2 :> s1) @@ (w3 :> s2) @@ (r1 :> s2)

----------------------------------------------------------------------------

\* The builder's counters are gone when dynarec() has returned.
Returned == st = "done" /\ dri' = Prologue /\ dr_cycle_counter' = 0 /\ UNCHANGED <<st, open>>

ExecuteInit == Init /\ BuildInit

ExecuteNext ==
  \/ BuildNext /\ UNCHANGED vars
  \/ Next /\ Returned

ExecuteSpec ==
  ExecuteInit /\ [][ExecuteNext]_<<build, vars>> /\ WF_build(BuildNext)
=============================================================================
