---------------------------- MODULE IrqContract ----------------------------
(***************************************************************************)
(* What the guest is promised about interrupts, whatever executes it: a    *)
(* processor with one program counter and one stack pointer, on which an   *)
(* interrupt is accepted between two instructions.  RunLoop, which keeps   *)
(* these registers in two places, is shown to implement this module.       *)
(***************************************************************************)
EXTENDS Integers

CONSTANTS Sources, Raisable, AddrCount, VectorBase, VectorStep, Slots,
          None  \* the program counter while several instructions run at once

Addr == 0 .. AddrCount - 1
Slot == 0 .. Slots - 1

VARIABLES ime, req, ena, ip, sp, mem, asleep
vars == <<ime, req, ena, ip, sp, mem, asleep>>

Init ==
  /\ ime = FALSE /\ req = {} /\ ena = {}
  /\ ip = 0 /\ sp = Slots - 1 /\ mem = [s \in Slot |-> 0]
  /\ asleep = FALSE

\* The processor runs on: it may push or pop a word, move on and change the
\* master enable, but requests and enables stay.
Execute ==
  /\ ~asleep
  /\ ip' \in Addr \cup {None}
  /\ ime' \in BOOLEAN
  /\ \/ UNCHANGED <<sp, mem>>
     \/ sp' = (sp + 1) % Slots /\ UNCHANGED mem
     \/ /\ sp' = (sp - 1) % Slots
        /\ \E a \in Addr : mem' = [mem EXCEPT ![sp'] = a]
  /\ UNCHANGED <<req, ena, asleep>>

\* Raised sources are added to flag.  If one is enabled the one of highest
\* priority is accepted at at: its request goes, at is pushed, the processor
\* jumps and is awake.  If none is, it goes on at at, asleep or not.
Deliver(flag, en, at, sleep) ==
  /\ at \in Addr
  /\ ena' = en
  /\ \E raised, later \in SUBSET Raisable :
       LET open == (flag \cup raised) \cap en IN
       \/ /\ ~(ime /\ open # {})
          /\ req' = flag \cup raised /\ ip' = at /\ asleep' = sleep
          /\ UNCHANGED <<ime, sp, mem>>
       \/ /\ ime
          /\ \E i \in open :
               /\ \A j \in open : i <= j
               /\ req' = ((flag \cup raised) \ {i}) \cup later
               /\ ip' = VectorBase + VectorStep * i
          /\ ime' = FALSE /\ asleep' = FALSE
          /\ sp' = (sp - 1) % Slots
          /\ mem' = [mem EXCEPT ![sp'] = at]

\* Time passes at an instruction boundary.
Poll == Deliver(req, ena, ip, asleep)

\* The guest stores to a register of the interrupt system, or halts.
Store ==
  /\ ~asleep
  /\ \E f, e \in SUBSET Sources, at \in Addr :
       /\ f = req \/ e = ena
       /\ Deliver(f, e, at, FALSE)

Halt == ~asleep /\ \E at \in Addr : Deliver(req, ena, at, TRUE)

Next == Execute \/ Poll \/ Store \/ Halt

Spec == Init /\ [][Next]_vars
============================================================================
