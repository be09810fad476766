----------------------------- MODULE Templates -----------------------------
(***************************************************************************)
(* The templates of ops.c: one guest instruction becomes a few x86         *)
(* instructions.  The guest's A is AL and its flags Z, C and H are the     *)
(* host's ZF, CF and AF, so a template has to undo what x86 does to flags  *)
(* the guest instruction leaves alone, with LAHF, SAHF and the host's      *)
(* stack as its only scratch memory, and AL among its operands.            *)
(*                                                                         *)
(* A form is a guest instruction and the place of its operand: another     *)
(* register or an immediate ("reg"), A itself ("al"), the byte at HL in    *)
(* mapped memory ("mapped") or in memory that faults ("fault"), where      *)
(* Catcher takes over for single instructions of the template.             *)
(*                                                                         *)
(* Exact flags (the default build).  Words are not modelled: what an       *)
(* addition to a 16-bit register does to the flags is arbitrary.           *)
(***************************************************************************)
EXTENDS Catcher, Sequences

CONSTANTS
  Forms,  \* the pairs <<instruction, place>> that are executed
  None    \* no instruction

Arith   == {"add", "adc", "sub", "sbc", "cp", "inc", "dec"}
Logic   == {"and", "xor", "or"}
RotateA == {"rlca", "rrca", "rla", "rra"}
Rotate  == {"rlc", "rrc", "rl", "rr"}
Shift   == {"sla", "sra", "srl"}
BitOps  == {"bit", "res", "set"}
Words   == {"add_hl", "inc_rr", "ld_hl_sp", "push", "ret"}
AllForms ==
  ((Arith \cup Logic \cup Rotate \cup Shift \cup BitOps \cup {"swap"})
     \X {"reg", "al", "mapped", "fault"})
  \cup ((RotateA \cup {"cpl"}) \X {"al"})
  \cup ((Words \cup {"scf", "ccf", "push_af", "pop_af"}) \X {"reg"})

\* The forms that are wrong: sbc a,(hl) if (hl) faults, the rotates of the
\* second table on A, and ccf.
SbcFault == {<<"sbc", "fault">>}
RotateCbA == Rotate \X {"al"}
Ccf == {<<"ccf", "reg">>}
WrongFlags == RotateCbA \cup Ccf
Sound == AllForms \ (SbcFault \cup WrongFlags)

ASSUME FormsAssumption == Forms \subseteq AllForms

VARIABLES
  cpu,   \* A and the flags between two guest instructions
  step   \* history: the instruction just executed, and its effects

vars == <<cpu, step>>

Init ==
  /\ cpu \in [al : Byte, flags : SUBSET Flags]
  /\ step = None

----------------------------------------------------------------------------
(* helper.c: the flags of x86's AH as the guest's F, and back.              *)

FlagTable(h) ==
  Number(If(CF \in Bits(h), 4) \cup If(AF \in Bits(h), 5) \cup If(ZF \in Bits(h), 7))

ReverseFlagTable(f) ==
  Number({1} \cup If(4 \in Bits(f), CF) \cup If(5 \in Bits(f), AF) \cup If(7 \in Bits(f), ZF))

----------------------------------------------------------------------------
(* The templates, as sequences of <<x86 instruction, immediate>>.           *)

\* The masks, named as they are written in ops.c.
H01 == 1
H10 == 16
H2B == 43
H3B == 59
H40 == 64
H6A == 106
HBF == 191
HEF == 239
HFE == 254

Lahf == <<"lahf", 0>>
Sahf == <<"sahf", 0>>
PushEax == <<"push", 0>>
PopEax == <<"pop", 0>>
MovAlAh == <<"mov_al_ah", 0>>
AndAh(n) == <<"and_ah", n>>
AndAl(n) == <<"and_al", n>>
OrAh(n) == <<"or_ah", n>>
OrAlImm(n) == <<"or_al", n>>
OrAhAl == <<"or_ah_al", 0>>

Mnemonic ==
  [add |-> "add", adc |-> "adc", sub |-> "sub", sbc |-> "sbb", cp |-> "cmp",
   and |-> "and", xor |-> "xor", or |-> "or", inc |-> "inc", dec |-> "dec",
   rlca |-> "rol", rrca |-> "ror", rla |-> "rcl", rra |-> "rcr",
   rlc |-> "rol", rrc |-> "ror", rl |-> "rcl", rr |-> "rcr",
   sla |-> "sal", sra |-> "sar", srl |-> "shr", swap |-> "rol_half",
   cpl |-> "not", bit |-> "test_imm", res |-> "and_imm", set |-> "or_imm"]

\* Sets ZF by the operand.
TestOperand(at) ==
  IF at \in {"mapped", "fault"} THEN <<"cmp_imm", 0>> ELSE <<"test_self", 0>>

\* Faulty: the carry is not brought over the test.
BugRotateCb(i, at) ==
  <<<<Mnemonic[i], 0>>, PushEax, TestOperand(at), Lahf, AndAh(H6A), Sahf, PopEax>>

ArithTemplate(i)   == <<<<Mnemonic[i], 0>>>>
LogicTemplate(i)   == <<<<Mnemonic[i], 0>>, Lahf, AndAh(H6A), OrAh(H10), Sahf>>
RotateATemplate(i) == <<<<Mnemonic[i], 0>>, Lahf, AndAh(H2B), Sahf>>
RotateCb(i, at) ==
  <<<<Mnemonic[i], 0>>, PushEax, Lahf, MovAlAh, AndAl(H01), TestOperand(at),
    Lahf, AndAh(H6A), OrAhAl, Sahf, PopEax>>
ShiftCb(i) == <<<<Mnemonic[i], 0>>, Lahf, AndAh(HEF), Sahf>>
SwapCb(at) == <<<<"rol_half", 0>>, TestOperand(at), Lahf, AndAh(H40), Sahf>>
BitCb(mask) ==
  <<Lahf, <<"test_imm", mask>>, PushEax, MovAlAh, Lahf, AndAl(H01),
    AndAh(HFE), OrAlImm(H10), OrAhAl, Sahf, PopEax>>
ResCb(mask) == <<Lahf, <<"and_imm", B - 1 - mask>>, Sahf>>
SetCb(mask) == <<Lahf, <<"or_imm", mask>>, Sahf>>
CplTemplate == <<<<"not", 0>>, Lahf, OrAh(H10), Sahf>>
ScfTemplate == <<Lahf, AndAh(H6A), OrAh(H01), Sahf>>
CcfTemplate == <<Lahf, AndAh(H6A), <<"xor_ah", H01>>, Sahf>>
AddHl == <<Lahf, PushEax, MovAlAh, AndAl(H40), <<"add_word", 0>>, Lahf,
           AndAh(HBF), OrAhAl, Sahf, PopEax>>
IncWord == <<Lahf, <<"inc_word", 0>>, Sahf>>
LdHlSp == <<<<"add_word", 0>>, Lahf, AndAh(H3B), Sahf>>
MoveSp == <<Lahf, <<"add_word", 0>>, Sahf>>
Ret == <<Lahf, PushEax, <<"mov_ax_word", 0>>, <<"add_word", 0>>, PopEax, Sahf>>
PushAf == <<PushEax, Lahf, PushEax, <<"movzx_eax_ah", 0>>, <<"flag_table", 0>>,
            <<"mov_ah_top", 0>>, <<"add_word", 0>>, <<"mov_word_ax", 0>>,
            PopEax, Sahf, PopEax>>
PopAf == <<<<"movzx_eax_word", 0>>, <<"reverse_flag_table", 0>>,
           <<"mov_al_word", 0>>, <<"add_word", 0>>, Sahf>>

Template(i, at, n) ==
  CASE i \in Arith -> ArithTemplate(i)   [] i \in Logic -> LogicTemplate(i)
    [] i \in RotateA -> RotateATemplate(i) [] i \in Rotate -> RotateCb(i, at)
    [] i \in Shift -> ShiftCb(i)         [] i = "swap" -> SwapCb(at)
    [] i = "bit" -> BitCb(2^n)           [] i = "res" -> ResCb(2^n)
    [] i = "set" -> SetCb(2^n)           [] i = "cpl" -> CplTemplate
    [] i = "scf" -> ScfTemplate          [] i = "ccf" -> CcfTemplate
    [] i = "add_hl" -> AddHl             [] i = "inc_rr" -> IncWord
    [] i = "ld_hl_sp" -> LdHlSp          [] i = "push" -> MoveSp
    [] i = "ret" -> Ret
    [] i = "push_af" -> PushAf           [] i = "pop_af" -> PopAf

----------------------------------------------------------------------------
(* Execution of one x86 instruction u on the state s.                       *)

\* The accumulator, the flags and the scratch memory.
Scratch(u, s, junk) ==
  LET n == u[2] IN
  CASE u[1] = "lahf" -> [s EXCEPT !.ah = Number({1} \cup s.flags)]
    [] u[1] = "sahf" -> [s EXCEPT !.flags = Bits(s.ah) \cap Flags]
    [] u[1] = "push" -> [s EXCEPT !.stack = <<[al |-> s.al, ah |-> s.ah]>> \o @]
    [] u[1] = "pop" ->
         [s EXCEPT !.al = Head(s.stack).al, !.ah = Head(s.stack).ah, !.stack = Tail(@)]
    [] u[1] = "mov_al_ah" -> [s EXCEPT !.al = s.ah]
    [] u[1] = "and_ah" -> [s EXCEPT !.ah = And(@, n)]
    [] u[1] = "or_ah"  -> [s EXCEPT !.ah = Or(@, n)]
    [] u[1] = "xor_ah" -> [s EXCEPT !.ah = Xor(@, n)]
    [] u[1] = "and_al" -> [s EXCEPT !.al = And(@, n)]
    [] u[1] = "or_al"  -> [s EXCEPT !.al = Or(@, n)]
    [] u[1] = "or_ah_al" -> [s EXCEPT !.ah = Or(@, s.al)]
    [] u[1] = "add_word" -> [s EXCEPT !.flags = junk]
    [] u[1] = "inc_word" -> [s EXCEPT !.flags = (junk \ {CF}) \cup (@ \cap {CF})]
    [] u[1] = "mov_ax_word" -> [s EXCEPT !.al = s.word[1], !.ah = s.word[2]]
    [] u[1] = "mov_word_ax" -> [s EXCEPT !.word = <<s.al, s.ah>>]
    [] u[1] = "mov_al_word" -> [s EXCEPT !.al = s.word[2]]
    [] u[1] = "movzx_eax_ah" -> [s EXCEPT !.al = s.ah, !.ah = 0]
    [] u[1] = "movzx_eax_word" -> [s EXCEPT !.al = s.word[1], !.ah = 0]
    [] u[1] = "mov_ah_top" -> [s EXCEPT !.ah = Head(s.stack).al]
    [] u[1] = "flag_table" -> [s EXCEPT !.al = FlagTable(s.al)]
    [] u[1] = "reverse_flag_table" -> [s EXCEPT !.ah = ReverseFlagTable(s.al)]

\* An instruction with the operand: the processor writes its destination.
Native(u, s, at, junk) ==
  LET v == IF at = "al" THEN s.al ELSE s.mem
      r == Result(u[1], s, v, u[2])
      t == [s EXCEPT !.flags = FlagsOf(u[1], s, v, u[2], junk)]
  IN CASE u[1] \in Compares -> t
       [] u[1] \in WithAl \ Compares -> [t EXCEPT !.al = r]
       [] OTHER -> IF at = "al" THEN [t EXCEPT !.al = r] ELSE [t EXCEPT !.mem = r]

\* The signal handler, if the operand faults.
Faulting(u, s) ==
  IF u[1] \in Known THEN Handler(u[1], s, s.mem, u[2]) ELSE [s EXCEPT !.dead = TRUE]

Exec(u, s, at, junk) ==
  CASE s.dead -> s
    [] ~s.dead /\ u[1] \notin WithAl \cup WithImm \cup InPlace \cup Compares ->
         Scratch(u, s, junk)
    [] ~s.dead /\ u[1] \in WithAl \cup WithImm \cup InPlace \cup Compares ->
         IF at = "fault" THEN Faulting(u, s) ELSE Native(u, s, at, junk)

\* The state after all of the template t.
Run(t, s, at, junk) ==
  LET after[k \in 0 .. Len(t)] ==
        IF k = 0 THEN s ELSE Exec(t[k], after[k - 1], at, junk)
  IN after[Len(t)]

----------------------------------------------------------------------------
(* The guest instruction, from the comments of ops.c.                       *)

GuestResult(i, s, v, n) ==
  CASE i = "res" -> Number(Bits(v) \ {n})
    [] i = "set" -> Number(Bits(v) \cup {n})
    [] OTHER -> Result(Mnemonic[i], s, v, n)

\* "ZF must stay unchanged", "keep old CF", "set AF", "clear AF", "keep AF
\* and CF"; "CF" or "ZF" beside a mask is the flag that is not cleared.
GuestFlags(i, s, v, n, junk) ==
  LET r == GuestResult(i, s, v, n) IN
  CASE i \in Arith \ {"inc", "dec"} -> Sum(Mnemonic[i], s, v, n).flags
    [] i \in {"inc", "dec"} -> (Sum(i, s, v, n).flags \ {CF}) \cup (s.flags \cap {CF})
    [] i \in Logic -> If(r = 0, ZF) \cup {AF}
    [] i \in RotateA -> If(Out(Mnemonic[i], v), CF)
    [] i \in Rotate \cup Shift -> If(r = 0, ZF) \cup If(Out(Mnemonic[i], v), CF)
    [] i = "swap" -> If(r = 0, ZF)
    [] i = "bit" -> If(n \notin Bits(v), ZF) \cup (s.flags \cap {CF}) \cup {AF}
    [] i = "cpl" -> s.flags \cup {AF}
    [] i = "scf" -> (s.flags \cap {ZF}) \cup {CF}
    [] i = "ccf" -> (s.flags \cap {ZF}) \cup ({CF} \ s.flags)
    [] i = "add_hl" -> (s.flags \cap {ZF}) \cup (junk \ {ZF})
    [] i = "ld_hl_sp" -> junk \ {ZF}
    [] i = "pop_af" -> LET f == Bits(s.word[1])
                       IN If(7 \in f, ZF) \cup If(5 \in f, AF) \cup If(4 \in f, CF)
    [] OTHER -> s.flags

\* F with the flags of s: Z, H and C in bits 7, 5 and 4.
F(s) == Number(If(ZF \in s.flags, 7) \cup If(AF \in s.flags, 5) \cup If(CF \in s.flags, 4))

Guest(i, s, at, n, junk) ==
  LET v == IF at = "al" THEN s.al ELSE s.mem
      t == [s EXCEPT !.flags = GuestFlags(i, s, v, n, junk)]
  IN CASE i \in (Arith \ {"cp", "inc", "dec"}) \cup Logic ->
            [t EXCEPT !.al = GuestResult(i, s, v, n)]
       [] i \in Rotate \cup RotateA \cup Shift \cup {"inc", "dec", "swap", "cpl", "res", "set"} ->
            IF at = "al" THEN [t EXCEPT !.al = GuestResult(i, s, v, n)]
                         ELSE [t EXCEPT !.mem = GuestResult(i, s, v, n)]
       [] i = "push_af" -> [t EXCEPT !.word = <<F(s), s.al>>]
       [] i = "pop_af" -> [t EXCEPT !.al = s.word[2]]
       [] OTHER -> t

----------------------------------------------------------------------------
\* What the templates of these instructions depend on beside A, the flags
\* and the operand: a bit number, or what the processor leaves undefined or
\* the model leaves out.
BitNumbers(i) == IF i \in BitOps THEN {n \in 0 .. 7 : 2^n < B} ELSE {0}
Junk(i) == IF i \in Words \cup {"push_af", "pop_af"}
           THEN SUBSET Flags ELSE SUBSET {AF}
Operands(i, at) == IF at = "al" \/ i \in Words \cup {"scf", "ccf"} THEN {0} ELSE Byte
LowBytes(i) == IF i = "pop_af" THEN {16 * k + l : k \in 0 .. 15, l \in {0, 15}} ELSE {0}

Observed(s) == [s EXCEPT !.ah = 0]

Execute(i, at, v, n, low, junk) ==
  LET s == [al |-> cpu.al, ah |-> 0, flags |-> cpu.flags, mem |-> v,
            word |-> <<low, v>>, stack |-> <<>>, dead |-> FALSE]
      out == Run(Template(i, at, n), s, at, junk)
  IN /\ step = None
     /\ cpu' = [al |-> out.al, flags |-> out.flags]
     /\ step' = [insn |-> i, at |-> at, out |-> Observed(out),
                 guest |-> Observed(Guest(i, s, at, n, junk)),
                 mapped |-> IF at = "fault"
                            THEN Observed(Run(Template(i, at, n), s, "mapped", junk))
                            ELSE Observed(out)]

\* The next instruction of the block, or none if the emulator has ended.
Continue ==
  /\ step # None /\ ~step.out.dead
  /\ step' = None
  /\ UNCHANGED cpu

Next ==
  \/ \E f \in Forms :
       \E v \in Operands(f[1], f[2]), n \in BitNumbers(f[1]),
          low \in LowBytes(f[1]), junk \in Junk(f[1]) :
         Execute(f[1], f[2], v, n, low, junk)
  \/ Continue

Spec == Init /\ [][Next]_vars

----------------------------------------------------------------------------
(* Properties                                                               *)

\* Every template does what its guest instruction does, and nothing else: to
\* A, to the operand and to the three flags, wherever the operand is, with
\* the host's stack back where it was.
GuestInstruction ==
  step # None /\ step.at # "fault" => step.out = step.guest

\* A fault makes no difference: if the handler knows the x86 instructions of
\* the template, A, memory and flags are what they are with mapped memory
\* ("ZF, CF, AF setzen, den Rest brauche ich nicht"; the flags of which it
\* says "kann es nicht schaden" do no harm).
Transparent ==
  step # None /\ ~step.out.dead => step.out = step.mapped
============================================================================
