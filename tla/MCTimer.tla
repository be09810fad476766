------------------------------ MODULE MCTimer ------------------------------
(***************************************************************************)
(* A timer of three values and four modes whose periods keep the order of  *)
(* the real ones.                                                          *)
(***************************************************************************)
EXTENDS Timer, TLC

MCPeriod == (0 :> 6) @@ (1 :> 1) @@ (2 :> 2) @@ (3 :> 3)
AllSettings == {1, 3, -1}
Skips == {-1}
============================================================================
