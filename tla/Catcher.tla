------------------------------ MODULE Catcher ------------------------------
(***************************************************************************)
(* x86_execute (catcher.c): a translated instruction that touches memory   *)
(* which is not mapped (registers, external RAM, ROM to be written) faults *)
(* and is executed by the signal handler, on the saved registers, with     *)
(* flags it computes by hand.  These are its formulas; Templates runs them *)
(* against the processor's.                                                *)
(*                                                                         *)
(* A state s has the accumulator al, the byte mem at [EDX] and the flags;  *)
(* v is that byte and n the immediate.                                     *)
(***************************************************************************)
EXTENDS X86

\* The forms with [EDX] the handler knows.  At any other it gives up
\* ("Unbekannter Befehl") and the emulator ends.
Known == {"add", "or", "sbb", "sub", "cmp",
          "and_imm", "or_imm", "cmp_imm", "test_imm",
          "ror", "rcr", "shr", "inc", "dec"}

\* regs[EFL] &= ~cleared; regs[EFL] |= set; the result goes to AL or memory.
Flagged(s, cleared, set) == [s EXCEPT !.flags = (@ \ cleared) \cup set]
Loaded(s, result, cleared, set) == [Flagged(s, cleared, set) EXCEPT !.al = result]
Stored(s, result, cleared, set) == [Flagged(s, cleared, set) EXCEPT !.mem = result]

Add(s, v) ==
  LET sum == s.al + v IN
  Loaded(s, sum % B, Flags, If(sum % B = 0, ZF) \cup If(sum \div B = 1, CF)
                              \cup If(Low(s.al) + Low(v) >= Half, AF))

OrAl(s, v) == Loaded(s, Or(s.al, v), {ZF, CF}, If(Or(s.al, v) = 0, ZF))

Sbb(s, v) ==
  LET cf == IF CF \in s.flags THEN 1 ELSE 0
      result == (s.al - v - cf) % B
  IN Loaded(s, result, Flags, If(result = 0, ZF) \cup If(v > s.al, CF)
                                \cup If(Low(s.al) < Low(v + cf), AF))

Compared(s, v) == If(s.al = v, ZF) \cup If(v > s.al, CF) \cup If(Low(s.al) < Low(v), AF)

Cmp(s, v) == Flagged(s, Flags, Compared(s, v))
Sub(s, v) == Loaded(s, (s.al - v) % B, Flags, Compared(s, v))

AndImm(s, v, n)  == Stored(s, And(v, n), {ZF, CF}, If(And(v, n) = 0, ZF))
OrImm(s, v, n)   == Stored(s, Or(v, n), {ZF, CF}, If(Or(v, n) = 0, ZF))
CmpImm(s, v, n)  == Flagged(s, {ZF, CF}, If(v = n, ZF) \cup If(v < n, CF))
TestImm(s, v, n) == Flagged(s, {ZF, CF}, If(And(v, n) = 0, ZF))

Shifted(s, v, in) ==
  LET result == v \div 2 + in * (B \div 2) IN
  Stored(s, result, {ZF, CF}, If(result = 0, ZF) \cup If(v % 2 = 1, CF))

Ror(s, v) == Shifted(s, v, v % 2)
Rcr(s, v) == Shifted(s, v, IF CF \in s.flags THEN 1 ELSE 0)
Shr(s, v) == Shifted(s, v, 0)

Inc(s, v) ==
  LET result == (v + 1) % B IN
  Stored(s, result, {ZF, AF}, If(result = 0, ZF) \cup If(Low(result) = 0, AF))

\* Faulty: AF is taken from the result.
BugDec(s, v) ==
  LET result == (v - 1) % B IN
  Stored(s, result, {ZF, AF}, If(result = 0, ZF) \cup If(Low(result) = 0, AF))

Dec(s, v) ==
  LET result == (v - 1) % B IN
  Stored(s, result, {ZF, AF}, If(result = 0, ZF) \cup If(Low(v) = 0, AF))

Handler(o, s, v, n) ==
  CASE o = "add" -> Add(s, v)       [] o = "or" -> OrAl(s, v)
    [] o = "sbb" -> Sbb(s, v)       [] o = "sub" -> Sub(s, v)
    [] o = "cmp" -> Cmp(s, v)
    [] o = "and_imm" -> AndImm(s, v, n) [] o = "or_imm" -> OrImm(s, v, n)
    [] o = "cmp_imm" -> CmpImm(s, v, n) [] o = "test_imm" -> TestImm(s, v, n)
    [] o = "ror" -> Ror(s, v)       [] o = "rcr" -> Rcr(s, v)
    [] o = "shr" -> Shr(s, v)
    [] o = "inc" -> Inc(s, v)       [] o = "dec" -> Dec(s, v)
============================================================================
