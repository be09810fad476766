----------------------------- MODULE MCMemory -----------------------------
(***************************************************************************)
(* The registers behind the guest's addresses in one run: those of the     *)
(* controllers and banks, and P1.  They share no state, so a behaviour in  *)
(* which both change shows no more than one in which one of them changes;  *)
(* the other stays at its start.                                           *)
(***************************************************************************)
EXTENDS Regions, Joypad

MemoryInit == Init /\ JoypadInit

MemoryNext ==
  \/ Next /\ JoypadInit /\ UNCHANGED joypadVars
  \/ JoypadNext /\ Init /\ UNCHANGED vars

MemorySpec == MemoryInit /\ [][MemoryNext]_<<vars, joypadVars>>
=============================================================================
