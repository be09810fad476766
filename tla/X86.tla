-------------------------------- MODULE X86 --------------------------------
(***************************************************************************)
(* The host processor, as far as translated code relies on it: results and *)
(* flags of the instructions that stand in the templates of ops.c.  It is  *)
(* the reference for the fault handler (Catcher) and the machine on which  *)
(* Templates runs its templates.                                           *)
(*                                                                         *)
(* A sum or a difference is computed on integers, its carries are          *)
(* overflows out of the byte and out of its lower half; a bitwise result   *)
(* is the number whose bits a set operation gives.                         *)
(***************************************************************************)
EXTENDS Integers

CONSTANT Half  \* values of half a byte (16)

\* A byte has two, four, six or eight bits.
ASSUME HalfAssumption == Half \in {2, 4, 8, 16}

B == Half * Half
Byte == 0 .. B - 1
Low(v) == v % Half

\* The bit b of v; the bits that are 1 of a number that has up to eight of
\* them; and the number whose bits these are.
Bit(v, b) == (v \div 2^b) % 2 = 1
Bits(v) == {b \in 0 .. 7 : Bit(v, b)}
Number(bits) ==
  LET weight(b) == IF b \in bits THEN 2^b ELSE 0
  IN weight(0) + weight(1) + weight(2) + weight(3)
       + weight(4) + weight(5) + weight(6) + weight(7)

\* The bits of a byte.
ByteBits == {b \in 0 .. 7 : 2^b < B}
Top == CHOOSE b \in ByteBits : b + 1 \notin ByteBits

\* Bitwise operations on registers.
And(v, w) == Number(Bits(v) \cap Bits(w))
Or(v, w)  == Number(Bits(v) \cup Bits(w))
Xor(v, w) == Number((Bits(v) \cup Bits(w)) \ (Bits(v) \cap Bits(w)))

\* The flags are sets of the bits that are 1, in EFLAGS as in AH.
CF == 0
AF == 4
ZF == 6
Flags == {CF, AF, ZF}
If(condition, b) == IF condition THEN {b} ELSE {}

----------------------------------------------------------------------------
\* The forms: op al,operand; op operand,n; op operand.
WithAl   == {"add", "adc", "sub", "sbb", "cmp", "and", "or", "xor"}
WithImm  == {"and_imm", "or_imm", "cmp_imm", "test_imm"}
InPlace  == {"ror", "rcr", "shr", "inc", "dec", "rol", "rcl", "sal", "sar",
             "rol_half", "not"}
Compares == {"cmp", "cmp_imm", "test_imm", "test_self"}
Additive == {"add", "adc", "sub", "sbb", "cmp", "cmp_imm", "inc", "dec"}
Rotates  == {"ror", "rcr", "rol", "rcl"}
Shifts   == {"shr", "sal", "sar"}

Sum(o, s, v, n) ==
  LET carry == IF CF \in s.flags THEN 1 ELSE 0
      sum(a, b, sign, in) ==
        LET r == (a + sign * (b + in)) % B IN
        [result |-> r,
         flags |-> If(r = 0, ZF) \cup If(a + sign * (b + in) \notin Byte, CF)
                     \cup If(Low(a) + sign * (Low(b) + in) \notin 0 .. Half - 1, AF)]
  IN CASE o = "add" -> sum(s.al, v, 1, 0)
       [] o = "adc" -> sum(s.al, v, 1, carry)
       [] o \in {"sub", "cmp"} -> sum(s.al, v, -1, 0)
       [] o = "sbb" -> sum(s.al, v, -1, carry)
       [] o = "cmp_imm" -> sum(v, n, -1, 0)
       [] o = "inc" -> sum(v, 1, 1, 0)
       [] o = "dec" -> sum(v, 1, -1, 0)

\* The bits of v, each moved by one.
Right(v) == {b \in ByteBits : b + 1 \in Bits(v)}
Left(v)  == {b \in ByteBits : b - 1 \in Bits(v)}

\* The processor executes o with the operand v and the immediate n.
Result(o, s, v, n) ==
  CASE o \in Additive -> Sum(o, s, v, n).result
    [] o = "and" -> And(v, s.al)
    [] o = "or"  -> Or(v, s.al)
    [] o = "xor" -> Xor(v, s.al)
    [] o = "or_imm" -> Or(v, n)
    [] o \in {"and_imm", "test_imm"} -> And(v, n)
    [] o = "test_self" -> v
    [] o = "not" -> Number(ByteBits \ Bits(v))
    [] o = "ror" -> Number(Right(v) \cup If(0 \in Bits(v), Top))
    [] o = "rcr" -> Number(Right(v) \cup If(CF \in s.flags, Top))
    [] o = "shr" -> Number(Right(v))
    [] o = "sar" -> Number(Right(v) \cup If(Top \in Bits(v), Top))
    [] o = "rol" -> Number(Left(v) \cup If(Top \in Bits(v), 0))
    [] o = "rcl" -> Number(Left(v) \cup If(CF \in s.flags, 0))
    [] o = "sal" -> Number(Left(v))
    [] o = "rol_half" -> Low(v) * Half + v \div Half

\* The bit that a shift or a rotation by one drops or carries around.
Out(o, v) == IF o \in {"rol", "rcl", "sal"} THEN Top \in Bits(v) ELSE 0 \in Bits(v)

\* Flags that the instruction leaves undefined are taken from junk.
FlagsOf(o, s, v, n, junk) ==
  LET r == Result(o, s, v, n) IN
  CASE o \in Additive \ {"inc", "dec"} -> Sum(o, s, v, n).flags
    [] o \in {"inc", "dec"} -> (Sum(o, s, v, n).flags \ {CF}) \cup (s.flags \cap {CF})
    [] o \in Rotates -> (s.flags \ {CF}) \cup If(Out(o, v), CF)
    [] o = "rol_half" -> (s.flags \ {CF}) \cup If(0 \in Bits(r), CF)
    [] o = "not" -> s.flags
    [] o \in Shifts -> If(r = 0, ZF) \cup If(Out(o, v), CF) \cup (junk \cap {AF})
    [] OTHER -> If(r = 0, ZF) \cup (junk \cap {AF})
============================================================================
