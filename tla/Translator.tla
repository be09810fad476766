---------------------------- MODULE Translator ----------------------------
(***************************************************************************)
(* dynarec() (execute.c) as a builder of one block: which instruction      *)
(* follows which is up to the guest's program, so every sequence of shapes *)
(* of instructions is a behaviour.  A shape says how many bytes of host    *)
(* code an instruction becomes and how many guest cycles it is worth; the  *)
(* builder counts both and decides after every instruction whether the     *)
(* block ends.  The host code of an instruction is not modelled.           *)
(***************************************************************************)
EXTENDS Integers

CONSTANTS
  Straight,    \* shapes after which the translation goes on
  Final,       \* shapes after which it stops (break_on), exit included
  MaxCycles,   \* MAX_CYCLES
  Prologue,    \* bytes that load the registers
  ExitBytes,   \* bytes of exit_vm
  CodeExitI,   \* CODE_EXITI: where the block's common exit code starts
  ExitCode,    \* bytes of that exit code
  CodeBufSz    \* CODE_BUFSZ: bytes of a block's buffer

Shape == [bytes : Nat, cycles : Nat]

ASSUME ShapeAssumption == Straight \subseteq Shape /\ Final \subseteq Shape
ASSUME SizeAssumption ==
  /\ MaxCycles \in Nat /\ Prologue \in Nat /\ ExitBytes \in Nat
  /\ CodeExitI \in Nat /\ ExitCode \in Nat /\ CodeBufSz \in Nat

VARIABLES
  st,    \* "emit": in the loop; "done"; "dead": an unknown opcode was met
  dri,   \* bytes of host code emitted
  dr_cycle_counter,
  open   \* does the emitted code run off its end?

build == <<st, dri, dr_cycle_counter, open>>

BuildTypeOK ==
  /\ st \in {"emit", "done", "dead"}
  /\ dri \in Nat /\ dr_cycle_counter \in Nat /\ open \in BOOLEAN

BuildInit ==
  /\ st = "emit" /\ dri = Prologue /\ dr_cycle_counter = 0 /\ open = TRUE

\* Faulty: the cycles are counted and not compared.
BugAppendUnlimited(s, final) ==
  /\ st = "emit"
  /\ dr_cycle_counter' = dr_cycle_counter + s.cycles
  /\ dri' = dri + s.bytes /\ open' = ~final
  /\ st' = IF final THEN "done" ELSE "emit"

\* Faulty: the limit ends the block without an exit.
BugAppendNoExit(s, final) ==
  LET count == dr_cycle_counter + s.cycles IN
  /\ st = "emit"
  /\ dr_cycle_counter' = count /\ dri' = dri + s.bytes /\ open' = ~final
  /\ st' = IF final \/ count >= MaxCycles THEN "done" ELSE "emit"

\* Faulty: a jump that is followed restarts the count.
BugAppendRestart(s, final) ==
  LET count == IF s.bytes = 0 THEN s.cycles ELSE dr_cycle_counter + s.cycles IN
  /\ st = "emit"
  /\ dr_cycle_counter' = count
  /\ \/ /\ count < MaxCycles
        /\ dri' = dri + s.bytes /\ open' = ~final
        /\ st' = IF final THEN "done" ELSE "emit"
     \/ dri' = dri + s.bytes + ExitBytes /\ open' = FALSE /\ st' = "done"

\* An instruction is appended.  Its cycles count even if it ends the block,
\* except for the instructions the run loop executes itself, whose shape has
\* none.  If the limit is reached, or the guest's program counter has left
\* the 16 KiB area the block started in, an exit follows, after a final
\* instruction too, where it is never reached.
Append(s, final) ==
  LET size == dri + s.bytes
      count == dr_cycle_counter + s.cycles
  IN
  /\ st = "emit"
  /\ dr_cycle_counter' = count
  /\ \/ /\ count < MaxCycles
        /\ dri' = size /\ open' = ~final
        /\ st' = IF final THEN "done" ELSE "emit"
     \/ \* count >= MaxCycles, or the area was left
        /\ dri' = size + ExitBytes /\ open' = FALSE
        /\ st' = "done"

\* insert_const_insn: no translation of the opcode is known.
Unknown ==
  /\ st = "emit"
  /\ st' = "dead"
  /\ UNCHANGED <<dri, dr_cycle_counter, open>>

BuildNext ==
  \/ \E s \in Straight : Append(s, FALSE)
  \/ \E s \in Final : Append(s, TRUE)
  \/ Unknown

\* dynarec() is called and runs to its end.
BuildSpec == BuildInit /\ [][BuildNext]_build /\ WF_build(BuildNext)

----------------------------------------------------------------------------
(* Properties                                                               *)

\* CODE_BUFSZ "ought to be enough" (xgbc.h:16): no sequence of instructions
\* makes the code run into the exit code at CODE_EXITI, which was emitted
\* before, and that fits its place.
BufferSafe == dri <= CodeExitI /\ CodeExitI + ExitCode <= CodeBufSz

\* The cycles of a block fit the byte that exit_vm stores to cycles_gone.
CyclesFitByte == dr_cycle_counter <= 255

\* A finished block cannot be run off its end.
Closed == st = "done" => ~open

\* Every translation ends, although jumps are followed, backwards too.
Finishes == <>(st # "emit")

\* What makes the buffer large enough: no shape has more than d bytes per
\* cycle, f more if it is final, or more than l cycles, and the buffer holds
\* a block of the greatest length at that density.
Dense(d, f, l) ==
  /\ \A s \in Straight : s.bytes <= d * s.cycles /\ s.cycles <= l
  /\ \A s \in Final : s.bytes <= d * s.cycles + f /\ s.cycles <= l
  /\ Prologue + d * (MaxCycles + l) + f + ExitBytes <= CodeExitI
  /\ CodeExitI + ExitCode <= CodeBufSz /\ MaxCycles > 0

\* The inductive invariant behind BufferSafe and CyclesFitByte.
BlockInv(d, f, l) ==
  /\ BuildTypeOK
  /\ st # "done" => dri <= Prologue + d * dr_cycle_counter /\ dr_cycle_counter < MaxCycles
  /\ dr_cycle_counter <= MaxCycles + l
  /\ dri <= Prologue + d * dr_cycle_counter + f + ExitBytes
============================================================================
