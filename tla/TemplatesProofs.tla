--------------------------- MODULE TemplatesProofs ---------------------------
(***************************************************************************)
(* Proofs about module Templates, for bytes of two, four, six and eight    *)
(* bits: every template does what its guest instruction does, and a fault  *)
(* of the operand makes no difference.                                     *)
(***************************************************************************)
EXTENDS Templates, Numbers

----------------------------------------------------------------------------
(* Numbers and their bits                                                   *)

\* The powers of two that the model uses.
LEMMA Powers ==
  /\ 2^0 = 1 /\ 2^1 = 2 /\ 2^2 = 4 /\ 2^3 = 8 /\ 2^4 = 16 /\ 2^5 = 32
  /\ 2^6 = 64 /\ 2^7 = 128
OBVIOUS

\* A register holds the number of its bits.
LEMMA NumberBits ==
  ASSUME NEW v \in 0 .. 255
  PROVE  Number(Bits(v)) = v
<1>1. v = (v % 2) + 2 * ((v \div 2) % 2) + 4 * ((v \div 4) % 2) + 8 * ((v \div 8) % 2)
          + 16 * ((v \div 16) % 2) + 32 * ((v \div 32) % 2)
          + 64 * ((v \div 64) % 2) + 128 * ((v \div 128) % 2)
  BY SMTT(60)
<1> QED  BY <1>1, Powers, SMTT(60) DEF Number, Bits, Bit

\* Eight binary digits, and the number that they make.
LEMMA Digits ==
  ASSUME NEW d \in [0 .. 7 -> {0, 1}], NEW n,
         n = d[0] + 2 * d[1] + 4 * d[2] + 8 * d[3] + 16 * d[4] + 32 * d[5] + 64 * d[6] + 128 * d[7]
  PROVE  /\ n \in 0 .. 255
         /\ (n \div 1) % 2 = d[0] /\ (n \div 2) % 2 = d[1] /\ (n \div 4) % 2 = d[2]
         /\ (n \div 8) % 2 = d[3] /\ (n \div 16) % 2 = d[4] /\ (n \div 32) % 2 = d[5]
         /\ (n \div 64) % 2 = d[6] /\ (n \div 128) % 2 = d[7]
<1>0. /\ d[0] \in {0, 1} /\ d[1] \in {0, 1} /\ d[2] \in {0, 1} /\ d[3] \in {0, 1}
      /\ d[4] \in {0, 1} /\ d[5] \in {0, 1} /\ d[6] \in {0, 1} /\ d[7] \in {0, 1}
  OBVIOUS
<1>1. n \in 0 .. 255  BY <1>0, SMTT(30)
<1>2. (n \div 1) % 2 = d[0]  BY <1>0, SMTT(30)
<1>3. (n \div 2) % 2 = d[1]  BY <1>0, SMTT(30)
<1>4. (n \div 4) % 2 = d[2]  BY <1>0, SMTT(30)
<1>5. (n \div 8) % 2 = d[3]  BY <1>0, SMTT(30)
<1>6. (n \div 16) % 2 = d[4]  BY <1>0, SMTT(30)
<1>7. (n \div 32) % 2 = d[5]  BY <1>0, SMTT(30)
<1>8. (n \div 64) % 2 = d[6]  BY <1>0, SMTT(30)
<1>9. (n \div 128) % 2 = d[7]  BY <1>0, SMTT(30)
<1> QED  BY <1>1, <1>2, <1>3, <1>4, <1>5, <1>6, <1>7, <1>8, <1>9, Zenon

\* And these are the bits it was made of.
LEMMA BitsNumber ==
  ASSUME NEW bits \in SUBSET (0 .. 7)
  PROVE  Bits(Number(bits)) = bits /\ Number(bits) \in 0 .. 255
<1> DEFINE d == [b \in 0 .. 7 |-> IF b \in bits THEN 1 ELSE 0]
           n == Number(bits)
<1>1. n = d[0] + 2 * d[1] + 4 * d[2] + 8 * d[3] + 16 * d[4] + 32 * d[5] + 64 * d[6]
            + 128 * d[7]
  BY Powers, SMTT(30) DEF Number
<1>2. d \in [0 .. 7 -> {0, 1}] /\ \A b \in 0 .. 7 : d[b] = 1 <=> b \in bits  OBVIOUS
<1> HIDE DEF d, n
<1>3. /\ n \in 0 .. 255
      /\ (n \div 1) % 2 = d[0] /\ (n \div 2) % 2 = d[1] /\ (n \div 4) % 2 = d[2]
      /\ (n \div 8) % 2 = d[3] /\ (n \div 16) % 2 = d[4] /\ (n \div 32) % 2 = d[5]
      /\ (n \div 64) % 2 = d[6] /\ (n \div 128) % 2 = d[7]
  BY <1>1, <1>2, Digits
<1>4. \A b \in 0 .. 7 : (n \div 2^b) % 2 = d[b]
  <2> SUFFICES ASSUME NEW b \in 0 .. 7 PROVE (n \div 2^b) % 2 = d[b]
    OBVIOUS
  <2>0. CASE b = 0  BY <1>3, <2>0, Powers, Zenon
  <2>1. CASE b = 1  BY <1>3, <2>1, Powers, Zenon
  <2>2. CASE b = 2  BY <1>3, <2>2, Powers, Zenon
  <2>3. CASE b = 3  BY <1>3, <2>3, Powers, Zenon
  <2>4. CASE b = 4  BY <1>3, <2>4, Powers, Zenon
  <2>5. CASE b = 5  BY <1>3, <2>5, Powers, Zenon
  <2>6. CASE b = 6  BY <1>3, <2>6, Powers, Zenon
  <2>7. CASE b = 7  BY <1>3, <2>7, Powers, Zenon
  <2> QED  BY <2>0, <2>1, <2>2, <2>3, <2>4, <2>5, <2>6, <2>7
<1>5. Bits(n) = bits  BY <1>2, <1>4 DEF Bits, Bit
<1> QED  BY <1>3, <1>5 DEF n

\* Bitwise operations, by bits.
LEMMA Bitwise ==
  ASSUME NEW v, NEW w
  PROVE  /\ Bits(And(v, w)) = Bits(v) \cap Bits(w) /\ And(v, w) \in 0 .. 255
         /\ Bits(Or(v, w)) = Bits(v) \cup Bits(w) /\ Or(v, w) \in 0 .. 255
         /\ Bits(Xor(v, w)) = (Bits(v) \cup Bits(w)) \ (Bits(v) \cap Bits(w))
         /\ Xor(v, w) \in 0 .. 255
<1>1. Bits(v) \in SUBSET (0 .. 7) /\ Bits(w) \in SUBSET (0 .. 7)  BY DEF Bits
<1> QED  BY <1>1, BitsNumber DEF And, Or, Xor

\* The bits of the masks in ops.c.
LEMMA Masks ==
  /\ Bits(H01) = {0} /\ Bits(H10) = {4} /\ Bits(H2B) = {0, 1, 3, 5}
  /\ Bits(H3B) = {0, 1, 3, 4, 5} /\ Bits(H40) = {6} /\ Bits(H6A) = {1, 3, 5, 6}
  /\ Bits(HBF) = {0, 1, 2, 3, 4, 5, 7} /\ Bits(HEF) = {0, 1, 2, 3, 5, 6, 7}
  /\ Bits(HFE) = {1, 2, 3, 4, 5, 6, 7}
<1>1. /\ H01 = Number({0}) /\ H10 = Number({4}) /\ H2B = Number({0, 1, 3, 5})
      /\ H3B = Number({0, 1, 3, 4, 5}) /\ H40 = Number({6})
      /\ H6A = Number({1, 3, 5, 6}) /\ HBF = Number({0, 1, 2, 3, 4, 5, 7})
      /\ HEF = Number({0, 1, 2, 3, 5, 6, 7}) /\ HFE = Number({1, 2, 3, 4, 5, 6, 7})
  BY Powers DEF Number, H01, H10, H2B, H3B, H40, H6A, HBF, HEF, HFE
<1> QED  BY <1>1, BitsNumber

\* AH after lahf.
Saved(g) == Number({1} \cup g)

\* The bits of AH after lahf: bit 1, which is always set, and the flags.
LEMMA SavedBits ==
  ASSUME NEW g \in SUBSET Flags
  PROVE  Bits(Saved(g)) = {1} \cup g /\ Saved(g) \in 0 .. 255
<1>1. {1} \cup g \in SUBSET (0 .. 7)  BY DEF Flags, CF, AF, ZF
<1> QED  BY <1>1, BitsNumber DEF Saved

----------------------------------------------------------------------------
(* Execution of a template                                                  *)

\* Run goes through states f, one after each instruction of the template.
Runs(f, t, n, s, at, junk) ==
  /\ f[0] = s
  /\ \A k \in 1 .. n : f[k] = Exec(t[k], f[k - 1], at, junk)
  /\ Run(t, s, at, junk) = f[n]

\* There are such states.
LEMMA RunThrough ==
  ASSUME NEW t, NEW n \in Nat, Len(t) = n, NEW s, NEW at, NEW junk
  PROVE  \E f : Runs(f, t, n, s, at, junk)
<1> DEFINE Body(f, k) == IF k = 0 THEN s ELSE Exec(t[k], f[k - 1], at, junk)
           Solves(f, m) == f = [k \in 0 .. m |-> Body(f, k)]
           P == {m \in Nat : \E f : Solves(f, m)}
<1>1. 0 \in P
  <2>1. Solves([k \in 0 .. 0 |-> s], 0)  OBVIOUS
  <2> QED  BY <2>1
<1>2. ASSUME NEW m \in Nat, m \in P PROVE m + 1 \in P
  <2>1. PICK f : Solves(f, m)  BY <1>2
  <2> DEFINE g == [k \in 0 .. m + 1 |-> IF k = m + 1 THEN Body(f, k) ELSE f[k]]
  <2>2. ASSUME NEW k \in 0 .. m + 1 PROVE g[k] = Body(g, k)
    <3>1. CASE k = 0  BY <2>1, <3>1
    <3>2. CASE k # 0
      <4>1. k - 1 \in 0 .. m + 1 /\ k - 1 # m + 1  BY <3>2
      <4>2. g[k - 1] = f[k - 1]  BY <4>1
      <4>3. g[k] = Body(f, k)  BY <2>1, <4>1
      <4> QED  BY <4>2, <4>3, <3>2
    <3> QED  BY <3>1, <3>2
  <2>3. Solves(g, m + 1)
    <3>1. g = [k \in 0 .. m + 1 |-> g[k]]  OBVIOUS
    <3> HIDE DEF g, Body
    <3> QED  BY <2>2, <3>1
  <2>4. m + 1 \in Nat  OBVIOUS
  <2> QED  BY <2>3, <2>4
<1>3. n \in P
  <2> HIDE DEF P
  <2> QED  BY <1>1, <1>2, Induction
<1> DEFINE f == CHOOSE f : Solves(f, n)
<1>4. Solves(f, n)  BY <1>3
<1>5. Run(t, s, at, junk) = f[n]  BY DEF Run
<1> HIDE DEF f
<1>6. \A k \in 0 .. n : f[k] = Body(f, k)  BY <1>4
<1>7. f[0] = s /\ \A k \in 1 .. n : f[k] = Exec(t[k], f[k - 1], at, junk)
  BY <1>6
<1> QED  BY <1>5, <1>7 DEF Runs

\* The processor within a template: A and AH, the flags, the byte and the
\* word in memory, and the stack.
State(al, ah, g, v, w, k) ==
  [al |-> al, ah |-> ah, flags |-> g, mem |-> v, word |-> w, stack |-> k, dead |-> FALSE]

\* It is given by its parts.
Only(al, ah, g, v, w, k) ==
  [al : {al}, ah : {ah}, flags : {g}, mem : {v}, word : {w}, stack : {k}, dead : {FALSE}]

\* State makes the only record with these parts.
LEMMA IsState ==
  ASSUME NEW al, NEW ah, NEW g, NEW v, NEW w, NEW k, NEW s,
         s \in Only(al, ah, g, v, w, k)
  PROVE  s = State(al, ah, g, v, w, k)
BY DEF State, Only

\* The parts of a state that State makes.
LEMMA Parts ==
  ASSUME NEW al, NEW ah, NEW g, NEW v, NEW w, NEW k
  PROVE  LET s == State(al, ah, g, v, w, k)
         IN s.al = al /\ s.ah = ah /\ s.flags = g /\ s.mem = v /\ s.word = w
            /\ s.stack = k /\ ~s.dead
BY DEF State

\* What is compared of a state is all of it but AH.
LEMMA Seen ==
  ASSUME NEW al, NEW ah, NEW g, NEW v, NEW w, NEW k
  PROVE  Observed(State(al, ah, g, v, w, k)) = State(al, 0, g, v, w, k)
<1>1. Observed(State(al, ah, g, v, w, k)) \in Only(al, 0, g, v, w, k)
  BY DEF Observed, State, Only
<1> QED  BY <1>1, IsState

\* The instructions with the operand.
Operations == WithAl \cup WithImm \cup InPlace \cup Compares

\* Instructions without the operand are executed by Scratch.
LEMMA Aside ==
  ASSUME NEW u, u[1] \notin Operations, NEW al, NEW ah, NEW g, NEW v, NEW w,
         NEW k, NEW at, NEW junk
  PROVE  Exec(u, State(al, ah, g, v, w, k), at, junk)
           = Scratch(u, State(al, ah, g, v, w, k), junk)
BY DEF Exec, State, Operations

\* lahf saves the flags in AH.
LEMMA LahfStep ==
  ASSUME NEW al, NEW ah, NEW g, NEW v, NEW w, NEW k, NEW at, NEW junk
  PROVE  Exec(Lahf, State(al, ah, g, v, w, k), at, junk) = State(al, Saved(g), g, v, w, k)
<1> DEFINE s == State(al, ah, g, v, w, k)
<1>1. Lahf[1] \notin Operations
  BY DEF Lahf, Operations, WithAl, WithImm, InPlace, Compares
<1>2. Scratch(Lahf, s, junk) \in Only(al, Saved(g), g, v, w, k)
  BY DEF Scratch, Lahf, State, Only, Saved
<1> HIDE DEF s
<1> QED  BY <1>1, <1>2, Aside, IsState DEF s

\* sahf takes them from AH.
LEMMA SahfStep ==
  ASSUME NEW al, NEW ah, NEW g, NEW v, NEW w, NEW k, NEW at, NEW junk
  PROVE  Exec(Sahf, State(al, ah, g, v, w, k), at, junk)
           = State(al, ah, Bits(ah) \cap Flags, v, w, k)
<1> DEFINE s == State(al, ah, g, v, w, k)
<1>1. Sahf[1] \notin Operations
  BY DEF Sahf, Operations, WithAl, WithImm, InPlace, Compares
<1>2. Scratch(Sahf, s, junk) \in Only(al, ah, Bits(ah) \cap Flags, v, w, k)
  BY DEF Scratch, Sahf, State, Only
<1> HIDE DEF s
<1> QED  BY <1>1, <1>2, Aside, IsState DEF s

\* and ah,n clears bits of AH.
LEMMA AndAhStep ==
  ASSUME NEW al, NEW ah, NEW g, NEW v, NEW w, NEW k, NEW at, NEW junk, NEW n
  PROVE  Exec(AndAh(n), State(al, ah, g, v, w, k), at, junk)
           = State(al, And(ah, n), g, v, w, k)
<1> DEFINE s == State(al, ah, g, v, w, k)
<1>1. AndAh(n)[1] \notin Operations
  BY DEF AndAh, Operations, WithAl, WithImm, InPlace, Compares
<1>2. Scratch(AndAh(n), s, junk) \in Only(al, And(ah, n), g, v, w, k)
  BY DEF Scratch, AndAh, State, Only
<1> HIDE DEF s
<1> QED  BY <1>1, <1>2, Aside, IsState DEF s

\* or ah,n sets bits of AH.
LEMMA OrAhStep ==
  ASSUME NEW al, NEW ah, NEW g, NEW v, NEW w, NEW k, NEW at, NEW junk, NEW n
  PROVE  Exec(OrAh(n), State(al, ah, g, v, w, k), at, junk)
           = State(al, Or(ah, n), g, v, w, k)
<1> DEFINE s == State(al, ah, g, v, w, k)
<1>1. OrAh(n)[1] \notin Operations
  BY DEF OrAh, Operations, WithAl, WithImm, InPlace, Compares
<1>2. Scratch(OrAh(n), s, junk) \in Only(al, Or(ah, n), g, v, w, k)
  BY DEF Scratch, OrAh, State, Only
<1> HIDE DEF s
<1> QED  BY <1>1, <1>2, Aside, IsState DEF s

\* and al,n clears bits of AL.
LEMMA AndAlStep ==
  ASSUME NEW al, NEW ah, NEW g, NEW v, NEW w, NEW k, NEW at, NEW junk, NEW n
  PROVE  Exec(AndAl(n), State(al, ah, g, v, w, k), at, junk)
           = State(And(al, n), ah, g, v, w, k)
<1> DEFINE s == State(al, ah, g, v, w, k)
<1>1. AndAl(n)[1] \notin Operations
  BY DEF AndAl, Operations, WithAl, WithImm, InPlace, Compares
<1>2. Scratch(AndAl(n), s, junk) \in Only(And(al, n), ah, g, v, w, k)
  BY DEF Scratch, AndAl, State, Only
<1> HIDE DEF s
<1> QED  BY <1>1, <1>2, Aside, IsState DEF s

\* or al,n sets bits of AL.
LEMMA OrAlStep ==
  ASSUME NEW al, NEW ah, NEW g, NEW v, NEW w, NEW k, NEW at, NEW junk, NEW n
  PROVE  Exec(OrAlImm(n), State(al, ah, g, v, w, k), at, junk)
           = State(Or(al, n), ah, g, v, w, k)
<1> DEFINE s == State(al, ah, g, v, w, k)
<1>1. OrAlImm(n)[1] \notin Operations
  BY DEF OrAlImm, Operations, WithAl, WithImm, InPlace, Compares
<1>2. Scratch(OrAlImm(n), s, junk) \in Only(Or(al, n), ah, g, v, w, k)
  BY DEF Scratch, OrAlImm, State, Only
<1> HIDE DEF s
<1> QED  BY <1>1, <1>2, Aside, IsState DEF s

\* or ah,al puts together what the two hold.
LEMMA OrAhAlStep ==
  ASSUME NEW al, NEW ah, NEW g, NEW v, NEW w, NEW k, NEW at, NEW junk
  PROVE  Exec(OrAhAl, State(al, ah, g, v, w, k), at, junk)
           = State(al, Or(ah, al), g, v, w, k)
<1> DEFINE s == State(al, ah, g, v, w, k)
<1>1. OrAhAl[1] \notin Operations
  BY DEF OrAhAl, Operations, WithAl, WithImm, InPlace, Compares
<1>2. Scratch(OrAhAl, s, junk) \in Only(al, Or(ah, al), g, v, w, k)
  BY DEF Scratch, OrAhAl, State, Only
<1> HIDE DEF s
<1> QED  BY <1>1, <1>2, Aside, IsState DEF s

\* mov al,ah copies AH to AL.
LEMMA MovAlAhStep ==
  ASSUME NEW al, NEW ah, NEW g, NEW v, NEW w, NEW k, NEW at, NEW junk
  PROVE  Exec(MovAlAh, State(al, ah, g, v, w, k), at, junk)
           = State(ah, ah, g, v, w, k)
<1> DEFINE s == State(al, ah, g, v, w, k)
<1>1. MovAlAh[1] \notin Operations
  BY DEF MovAlAh, Operations, WithAl, WithImm, InPlace, Compares
<1>2. Scratch(MovAlAh, s, junk) \in Only(ah, ah, g, v, w, k)
  BY DEF Scratch, MovAlAh, State, Only
<1> HIDE DEF s
<1> QED  BY <1>1, <1>2, Aside, IsState DEF s

\* What is on the stack.
Cells == [al : 0 .. 255, ah : 0 .. 255]
OnStack(al, ah, k) == <<[al |-> al, ah |-> ah]>> \o k

\* p is k and on top of it A and AH.
OnTop(p, al, ah, k) ==
  p \in Seq(Cells) /\ Head(p).al = al /\ Head(p).ah = ah /\ Tail(p) = k

\* OnStack puts them there.
LEMMA TopOfStack ==
  ASSUME NEW al \in 0 .. 255, NEW ah \in 0 .. 255, NEW k \in Seq(Cells)
  PROVE  OnTop(OnStack(al, ah, k), al, ah, k)
<1> DEFINE cell == [al |-> al, ah |-> ah]
<1>1. cell \in Cells  BY DEF Cells
<1>2. cell.al = al /\ cell.ah = ah  OBVIOUS
<1> HIDE DEF cell
<1>3. OnStack(al, ah, k) \in Seq(Cells) /\ Head(OnStack(al, ah, k)) = cell
      /\ Tail(OnStack(al, ah, k)) = k
  BY <1>1 DEF OnStack, cell
<1> QED  BY <1>2, <1>3 DEF OnTop

\* push eax puts AL and AH on the stack.
LEMMA PushStep ==
  ASSUME NEW al, NEW ah, NEW g, NEW v, NEW w, NEW k, NEW at, NEW junk
  PROVE  Exec(PushEax, State(al, ah, g, v, w, k), at, junk)
           = State(al, ah, g, v, w, OnStack(al, ah, k))
<1> DEFINE s == State(al, ah, g, v, w, k)
<1>1. PushEax[1] \notin Operations
  BY DEF PushEax, Operations, WithAl, WithImm, InPlace, Compares
<1>2. Scratch(PushEax, s, junk) \in Only(al, ah, g, v, w, OnStack(al, ah, k))
  BY DEF Scratch, PushEax, State, Only, OnStack
<1> HIDE DEF s
<1> QED  BY <1>1, <1>2, Aside, IsState DEF s

\* pop eax takes what is on top of it.
LEMMA PopStep ==
  ASSUME NEW al, NEW ah, NEW g, NEW v, NEW w, NEW k, NEW at, NEW junk, NEW x, NEW y,
         NEW p, OnTop(p, al, ah, k)
  PROVE  Exec(PopEax, State(x, y, g, v, w, p), at, junk) = State(al, ah, g, v, w, k)
<1> DEFINE s == State(x, y, g, v, w, p)
<1>1. PopEax[1] \notin Operations
  BY DEF PopEax, Operations, WithAl, WithImm, InPlace, Compares
<1>2. Scratch(PopEax, s, junk)
        = [s EXCEPT !.al = Head(s.stack).al, !.ah = Head(s.stack).ah, !.stack = Tail(s.stack)]
  BY DEF Scratch, PopEax
<1>3. s.stack = p  BY DEF State
<1>4. [s EXCEPT !.al = al, !.ah = ah, !.stack = k] \in Only(al, ah, g, v, w, k)
  BY DEF State, Only
<1> HIDE DEF s
<1>5. Scratch(PopEax, s, junk) \in Only(al, ah, g, v, w, k)
  BY <1>2, <1>3, <1>4 DEF OnTop
<1> QED  BY <1>1, <1>5, Aside, IsState DEF s

\* An addition to a word leaves flags that are in junk.
LEMMA AddWordStep ==
  ASSUME NEW al, NEW ah, NEW g, NEW v, NEW w, NEW k, NEW at, NEW junk
  PROVE  Exec(<<"add_word", 0>>, State(al, ah, g, v, w, k), at, junk)
           = State(al, ah, junk, v, w, k)
<1> DEFINE s == State(al, ah, g, v, w, k)
<1>1. <<"add_word", 0>>[1] \notin Operations
  BY DEF Operations, WithAl, WithImm, InPlace, Compares
<1>2. Scratch(<<"add_word", 0>>, s, junk) \in Only(al, ah, junk, v, w, k)
  BY DEF Scratch, State, Only
<1> HIDE DEF s
<1> QED  BY <1>1, <1>2, Aside, IsState DEF s

\* An increment of a word does too, but keeps CF.
LEMMA IncWordStep ==
  ASSUME NEW al, NEW ah, NEW g, NEW v, NEW w, NEW k, NEW at, NEW junk
  PROVE  Exec(<<"inc_word", 0>>, State(al, ah, g, v, w, k), at, junk)
           = State(al, ah, (junk \ {CF}) \cup (g \cap {CF}), v, w, k)
<1> DEFINE s == State(al, ah, g, v, w, k)
<1>1. <<"inc_word", 0>>[1] \notin Operations
  BY DEF Operations, WithAl, WithImm, InPlace, Compares
<1>2. Scratch(<<"inc_word", 0>>, s, junk) \in Only(al, ah, (junk \ {CF}) \cup (g \cap {CF}), v, w, k)
  BY DEF Scratch, State, Only
<1> HIDE DEF s
<1> QED  BY <1>1, <1>2, Aside, IsState DEF s

\* mov ax,word loads AL with the low byte and AH with the high one.
LEMMA LoadWordStep ==
  ASSUME NEW al, NEW ah, NEW g, NEW v, NEW w, NEW k, NEW at, NEW junk
  PROVE  Exec(<<"mov_ax_word", 0>>, State(al, ah, g, v, w, k), at, junk)
           = State(w[1], w[2], g, v, w, k)
<1> DEFINE s == State(al, ah, g, v, w, k)
<1>1. <<"mov_ax_word", 0>>[1] \notin Operations
  BY DEF Operations, WithAl, WithImm, InPlace, Compares
<1>2. Scratch(<<"mov_ax_word", 0>>, s, junk) \in Only(w[1], w[2], g, v, w, k)
  BY DEF Scratch, State, Only
<1> HIDE DEF s
<1> QED  BY <1>1, <1>2, Aside, IsState DEF s

\* mov word,ax stores them.
LEMMA StoreWordStep ==
  ASSUME NEW al, NEW ah, NEW g, NEW v, NEW w, NEW k, NEW at, NEW junk
  PROVE  Exec(<<"mov_word_ax", 0>>, State(al, ah, g, v, w, k), at, junk)
           = State(al, ah, g, v, <<al, ah>>, k)
<1> DEFINE s == State(al, ah, g, v, w, k)
<1>1. <<"mov_word_ax", 0>>[1] \notin Operations
  BY DEF Operations, WithAl, WithImm, InPlace, Compares
<1>2. Scratch(<<"mov_word_ax", 0>>, s, junk) \in Only(al, ah, g, v, <<al, ah>>, k)
  BY DEF Scratch, State, Only
<1> HIDE DEF s
<1> QED  BY <1>1, <1>2, Aside, IsState DEF s

\* mov al,[.. + 1] loads AL with the high byte.
LEMMA HighByteStep ==
  ASSUME NEW al, NEW ah, NEW g, NEW v, NEW w, NEW k, NEW at, NEW junk
  PROVE  Exec(<<"mov_al_word", 0>>, State(al, ah, g, v, w, k), at, junk)
           = State(w[2], ah, g, v, w, k)
<1> DEFINE s == State(al, ah, g, v, w, k)
<1>1. <<"mov_al_word", 0>>[1] \notin Operations
  BY DEF Operations, WithAl, WithImm, InPlace, Compares
<1>2. Scratch(<<"mov_al_word", 0>>, s, junk) \in Only(w[2], ah, g, v, w, k)
  BY DEF Scratch, State, Only
<1> HIDE DEF s
<1> QED  BY <1>1, <1>2, Aside, IsState DEF s

\* movzx eax,ah moves AH to AL and clears it.
LEMMA SavedByteStep ==
  ASSUME NEW al, NEW ah, NEW g, NEW v, NEW w, NEW k, NEW at, NEW junk
  PROVE  Exec(<<"movzx_eax_ah", 0>>, State(al, ah, g, v, w, k), at, junk)
           = State(ah, 0, g, v, w, k)
<1> DEFINE s == State(al, ah, g, v, w, k)
<1>1. <<"movzx_eax_ah", 0>>[1] \notin Operations
  BY DEF Operations, WithAl, WithImm, InPlace, Compares
<1>2. Scratch(<<"movzx_eax_ah", 0>>, s, junk) \in Only(ah, 0, g, v, w, k)
  BY DEF Scratch, State, Only
<1> HIDE DEF s
<1> QED  BY <1>1, <1>2, Aside, IsState DEF s

\* movzx eax,[..] loads AL with the low byte and clears AH.
LEMMA LowByteStep ==
  ASSUME NEW al, NEW ah, NEW g, NEW v, NEW w, NEW k, NEW at, NEW junk
  PROVE  Exec(<<"movzx_eax_word", 0>>, State(al, ah, g, v, w, k), at, junk)
           = State(w[1], 0, g, v, w, k)
<1> DEFINE s == State(al, ah, g, v, w, k)
<1>1. <<"movzx_eax_word", 0>>[1] \notin Operations
  BY DEF Operations, WithAl, WithImm, InPlace, Compares
<1>2. Scratch(<<"movzx_eax_word", 0>>, s, junk) \in Only(w[1], 0, g, v, w, k)
  BY DEF Scratch, State, Only
<1> HIDE DEF s
<1> QED  BY <1>1, <1>2, Aside, IsState DEF s

\* mov al,[flag_table + eax] makes F of the flags in AL.
LEMMA FlagTableStep ==
  ASSUME NEW al, NEW ah, NEW g, NEW v, NEW w, NEW k, NEW at, NEW junk
  PROVE  Exec(<<"flag_table", 0>>, State(al, ah, g, v, w, k), at, junk)
           = State(FlagTable(al), ah, g, v, w, k)
<1> DEFINE s == State(al, ah, g, v, w, k)
<1>1. <<"flag_table", 0>>[1] \notin Operations
  BY DEF Operations, WithAl, WithImm, InPlace, Compares
<1>2. Scratch(<<"flag_table", 0>>, s, junk) \in Only(FlagTable(al), ah, g, v, w, k)
  BY DEF Scratch, State, Only
<1> HIDE DEF s
<1> QED  BY <1>1, <1>2, Aside, IsState DEF s

\* mov ah,[reverse_flag_table + eax] makes flags for sahf of the F in AL.
LEMMA ReverseStep ==
  ASSUME NEW al, NEW ah, NEW g, NEW v, NEW w, NEW k, NEW at, NEW junk
  PROVE  Exec(<<"reverse_flag_table", 0>>, State(al, ah, g, v, w, k), at, junk)
           = State(al, ReverseFlagTable(al), g, v, w, k)
<1> DEFINE s == State(al, ah, g, v, w, k)
<1>1. <<"reverse_flag_table", 0>>[1] \notin Operations
  BY DEF Operations, WithAl, WithImm, InPlace, Compares
<1>2. Scratch(<<"reverse_flag_table", 0>>, s, junk) \in Only(al, ReverseFlagTable(al), g, v, w, k)
  BY DEF Scratch, State, Only
<1> HIDE DEF s
<1> QED  BY <1>1, <1>2, Aside, IsState DEF s

\* mov ah,[esp + ..] loads AH with the saved AL.
LEMMA TopStep ==
  ASSUME NEW al, NEW ah, NEW g, NEW v, NEW w, NEW k, NEW at, NEW junk, NEW x, NEW y,
         NEW p, OnTop(p, al, ah, k)
  PROVE  Exec(<<"mov_ah_top", 0>>, State(x, y, g, v, w, p), at, junk)
           = State(x, al, g, v, w, p)
<1> DEFINE s == State(x, y, g, v, w, p)
<1>1. <<"mov_ah_top", 0>>[1] \notin Operations
  BY DEF Operations, WithAl, WithImm, InPlace, Compares
<1>2. Scratch(<<"mov_ah_top", 0>>, s, junk) = [s EXCEPT !.ah = Head(s.stack).al]
  BY DEF Scratch
<1>3. s.stack = p  BY DEF State
<1>4. [s EXCEPT !.ah = al] \in Only(x, al, g, v, w, p)
  BY DEF State, Only
<1> HIDE DEF s
<1>5. Scratch(<<"mov_ah_top", 0>>, s, junk) \in Only(x, al, g, v, w, p)
  BY <1>2, <1>3, <1>4 DEF OnTop
<1> QED  BY <1>1, <1>5, Aside, IsState DEF s

----------------------------------------------------------------------------
(* Instructions with the operand                                            *)

\* The places of an operand, and where in the state it is.
Places == {"reg", "al", "mapped", "fault"}
Operand(at, al, v) == IF at = "al" THEN al ELSE v

\* Where the operation o leaves its result r: in A, or where its operand is,
\* or nowhere.  Its flags are h.
LeftAl(o, at, r, al) == IF o \notin Compares /\ (o \in WithAl \/ at = "al") THEN r ELSE al
LeftMem(o, at, r, v) == IF o \notin Compares \cup WithAl /\ at # "al" THEN r ELSE v
Done(o, at, r, al, ah, h, v, w, k) ==
  State(LeftAl(o, at, r, al), ah, h, LeftMem(o, at, r, v), w, k)

\* The processor executes an instruction with the operand: it leaves its result
\* and its flags as Done says.
LEMMA NativeStep ==
  ASSUME NEW al, NEW ah, NEW g, NEW v, NEW w, NEW k, NEW junk, NEW n,
         NEW at, at # "fault", NEW o \in Operations, NEW x, x = Operand(at, al, v),
         NEW s, s = State(al, ah, g, v, w, k)
  PROVE  Exec(<<o, n>>, s, at, junk)
           = Done(o, at, Result(o, s, x, n), al, ah, FlagsOf(o, s, x, n, junk), v, w, k)
<1> DEFINE h == FlagsOf(o, s, x, n, junk)
           r == Result(o, s, x, n)
           t == [s EXCEPT !.flags = h]
<1>1. Exec(<<o, n>>, s, at, junk) = Native(<<o, n>>, s, at, junk)
  BY Parts DEF Exec, Operations
<1>2. t = State(al, ah, h, v, w, k)
  <2> HIDE DEF h
  <2>1. t \in Only(al, ah, h, v, w, k)  BY DEF State, Only
  <2> QED  BY <2>1, IsState
<1>3. x = IF at = "al" THEN s.al ELSE s.mem  BY Parts DEF Operand
<1>4. Native(<<o, n>>, s, at, junk)
        = CASE o \in Compares -> t
            [] o \in WithAl \ Compares -> [t EXCEPT !.al = r]
            [] OTHER -> IF at = "al" THEN [t EXCEPT !.al = r] ELSE [t EXCEPT !.mem = r]
  BY <1>3 DEF Native
<1> HIDE DEF t, h, r
<1>5. /\ [t EXCEPT !.al = r] \in Only(r, ah, h, v, w, k)
      /\ [t EXCEPT !.mem = r] \in Only(al, ah, h, r, w, k)
  BY <1>2 DEF State, Only
<1>6. /\ [t EXCEPT !.al = r] = State(r, ah, h, v, w, k)
      /\ [t EXCEPT !.mem = r] = State(al, ah, h, r, w, k)
  BY <1>5, IsState
<1>7. CASE o \in Compares
  <2>1. Exec(<<o, n>>, s, at, junk) = t  BY <1>1, <1>4, <1>7
  <2> QED  BY <1>2, <1>7, <2>1 DEF Done, LeftAl, LeftMem, h, r
<1>8. CASE o \in WithAl \ Compares
  <2>1. Exec(<<o, n>>, s, at, junk) = [t EXCEPT !.al = r]  BY <1>1, <1>4, <1>8
  <2> QED  BY <1>6, <1>8, <2>1 DEF Done, LeftAl, LeftMem, h, r
<1>9. CASE o \notin Compares /\ o \notin WithAl
  <2>1. Exec(<<o, n>>, s, at, junk)
          = IF at = "al" THEN [t EXCEPT !.al = r] ELSE [t EXCEPT !.mem = r]
    BY <1>1, <1>4, <1>9
  <2> QED  BY <1>6, <1>9, <2>1 DEF Done, LeftAl, LeftMem, h, r
<1> QED  BY <1>7, <1>8, <1>9

\* What a sum or a difference, exact and of the low halves, does to the flags.
Carries(exact, low) ==
  If(exact % B = 0, ZF) \cup If(exact \notin Byte, CF) \cup If(low \notin 0 .. Half - 1, AF)

\* Every sum and difference is one of a and b with a carry.
Carried(s) == IF CF \in s.flags THEN 1 ELSE 0
Summed(a, b, sign, in) ==
  [result |-> (a + sign * (b + in)) % B,
   flags |-> Carries(a + sign * (b + in), Low(a) + sign * (Low(b) + in))]

\* Sum adds or subtracts for each of the operations what the processor does.
LEMMA SumOf ==
  ASSUME NEW s, NEW v, NEW n, NEW al, al = s.al
  PROVE  /\ Sum("add", s, v, n) = Summed(al, v, 1, 0)
         /\ Sum("adc", s, v, n) = Summed(al, v, 1, Carried(s))
         /\ Sum("sub", s, v, n) = Summed(al, v, -1, 0)
         /\ Sum("cmp", s, v, n) = Summed(al, v, -1, 0)
         /\ Sum("sbb", s, v, n) = Summed(al, v, -1, Carried(s))
         /\ Sum("cmp_imm", s, v, n) = Summed(v, n, -1, 0)
         /\ Sum("inc", s, v, n) = Summed(v, 1, 1, 0)
         /\ Sum("dec", s, v, n) = Summed(v, 1, -1, 0)
BY Zenon DEF Sum, Summed, Carries, Carried

\* The sums and differences that the handler knows are without a carry.
LEMMA Plain ==
  ASSUME NEW a \in Int, NEW b \in Int
  PROVE  /\ Summed(a, b, 1, 0).result = (a + b) % B
         /\ Summed(a, b, 1, 0).flags = Carries(a + b, Low(a) + Low(b))
         /\ Summed(a, b, -1, 0).result = (a - b) % B
         /\ Summed(a, b, -1, 0).flags = Carries(a - b, Low(a) - Low(b))
<1>1. Low(a) \in Int /\ Low(b) \in Int  BY HalfAssumption DEF Low
<1>2. /\ a + 1 * (b + 0) = a + b /\ a + (-1) * (b + 0) = a - b
      /\ Low(a) + 1 * (Low(b) + 0) = Low(a) + Low(b)
      /\ Low(a) + (-1) * (Low(b) + 0) = Low(a) - Low(b)
  BY <1>1
<1> QED  BY <1>2, Zenon DEF Summed

\* The overflows of a byte and of half a byte are the comparisons with which
\* the handler finds them.
LEMMA HandCarries ==
  ASSUME NEW a \in Byte, NEW b \in Byte
  PROVE  /\ (a + b) \div B = 1 <=> a + b \notin Byte
         /\ Low(a) + Low(b) >= Half <=> Low(a) + Low(b) \notin 0 .. Half - 1
         /\ a = b <=> (a - b) % B = 0
         /\ b > a <=> a - b \notin Byte
         /\ Low(a) < Low(b) <=> Low(a) - Low(b) \notin 0 .. Half - 1
         /\ Low((a + 1) % B) = 0 <=> Low(a) + Low(1) \notin 0 .. Half - 1
         /\ Low(a) = 0 <=> Low(a) - Low(1) \notin 0 .. Half - 1
<1>1. CASE Half = 2   BY <1>1, SMTT(30) DEF Byte, B, Low
<1>2. CASE Half = 4   BY <1>2, SMTT(30) DEF Byte, B, Low
<1>3. CASE Half = 8   BY <1>3, SMTT(30) DEF Byte, B, Low
<1>4. CASE Half = 16  BY <1>4, SMTT(30) DEF Byte, B, Low
<1> QED  BY <1>1, <1>2, <1>3, <1>4, HalfAssumption

\* What the handler does to a state if it changes flags only.
LEMMA FlaggedByHand ==
  ASSUME NEW al, NEW ah, NEW g, NEW v, NEW w, NEW k, NEW cleared, NEW set
  PROVE  Flagged(State(al, ah, g, v, w, k), cleared, set)
           = State(al, ah, (g \ cleared) \cup set, v, w, k)
<1> DEFINE s == State(al, ah, g, v, w, k)
           h == (g \ cleared) \cup set
<1>1. Flagged(s, cleared, set) = [s EXCEPT !.flags = h]
  <2>1. s.flags = g  BY Parts
  <2> HIDE DEF s
  <2> QED  BY <2>1 DEF Flagged
<1> HIDE DEF h
<1>2. [s EXCEPT !.flags = h] \in Only(al, ah, h, v, w, k)  BY DEF State, Only
<1> QED  BY <1>1, <1>2, IsState DEF h

\* What it does to a state if it changes flags and A.
LEMMA LoadedByHand ==
  ASSUME NEW al, NEW ah, NEW g, NEW v, NEW w, NEW k, NEW cleared, NEW set, NEW r
  PROVE  Loaded(State(al, ah, g, v, w, k), r, cleared, set)
           = State(r, ah, (g \ cleared) \cup set, v, w, k)
<1> DEFINE s == State(al, ah, g, v, w, k)
           h == (g \ cleared) \cup set
           t == State(al, ah, h, v, w, k)
<1>1. Flagged(s, cleared, set) = t  BY FlaggedByHand
<1> HIDE DEF s, h
<1>2. [t EXCEPT !.al = r] \in Only(r, ah, h, v, w, k)
  BY DEF State, Only
<1> HIDE DEF t
<1>3. Loaded(s, r, cleared, set) = [t EXCEPT !.al = r]  BY <1>1 DEF Loaded
<1> QED  BY <1>2, <1>3, IsState DEF s, h

\* What it does to a state if it changes flags and the operand.
LEMMA StoredByHand ==
  ASSUME NEW al, NEW ah, NEW g, NEW v, NEW w, NEW k, NEW cleared, NEW set, NEW r
  PROVE  Stored(State(al, ah, g, v, w, k), r, cleared, set)
           = State(al, ah, (g \ cleared) \cup set, r, w, k)
<1> DEFINE s == State(al, ah, g, v, w, k)
           h == (g \ cleared) \cup set
           t == State(al, ah, h, v, w, k)
<1>1. Flagged(s, cleared, set) = t  BY FlaggedByHand
<1> HIDE DEF s, h
<1>2. [t EXCEPT !.mem = r] \in Only(al, ah, h, r, w, k)
  BY DEF State, Only
<1> HIDE DEF t
<1>3. Stored(s, r, cleared, set) = [t EXCEPT !.mem = r]  BY <1>1 DEF Stored
<1> QED  BY <1>2, <1>3, IsState DEF s, h

\* The bits of a byte, for each width.
LEMMA Widths ==
  /\ Half = 2 => B = 4 /\ ByteBits = 0 .. 1 /\ Top = 1
  /\ Half = 4 => B = 16 /\ ByteBits = 0 .. 3 /\ Top = 3
  /\ Half = 8 => B = 64 /\ ByteBits = 0 .. 5 /\ Top = 5
  /\ Half = 16 => B = 256 /\ ByteBits = 0 .. 7 /\ Top = 7
<1>1. /\ \A b \in ByteBits : b \in 0 .. 7
      /\ (0 \in ByteBits <=> 1 < B) /\ (1 \in ByteBits <=> 2 < B)
      /\ (2 \in ByteBits <=> 4 < B) /\ (3 \in ByteBits <=> 8 < B)
      /\ (4 \in ByteBits <=> 16 < B) /\ (5 \in ByteBits <=> 32 < B)
      /\ (6 \in ByteBits <=> 64 < B) /\ (7 \in ByteBits <=> 128 < B)
  BY Powers DEF ByteBits
<1>2. ASSUME NEW t \in Nat, ByteBits = 0 .. t PROVE Top = t
  <2>1. t \in ByteBits /\ t + 1 \notin ByteBits  BY <1>2
  <2>2. \A b \in ByteBits : b + 1 \notin ByteBits => b = t  BY <1>2
  <2> QED  BY <2>1, <2>2 DEF Top
<1>3. CASE Half = 2
  <2>1. B = 4  BY <1>3 DEF B
  <2>2. ByteBits = 0 .. 1
    <3>1. \A b \in 0 .. 7 : b \in ByteBits <=> b <= 1  BY <1>1, <2>1
    <3> QED  BY <1>1, <3>1
  <2> QED  BY <1>2, <1>3, <2>1, <2>2
<1>4. CASE Half = 4
  <2>1. B = 16  BY <1>4 DEF B
  <2>2. ByteBits = 0 .. 3
    <3>1. \A b \in 0 .. 7 : b \in ByteBits <=> b <= 3  BY <1>1, <2>1
    <3> QED  BY <1>1, <3>1
  <2> QED  BY <1>2, <1>4, <2>1, <2>2
<1>5. CASE Half = 8
  <2>1. B = 64  BY <1>5 DEF B
  <2>2. ByteBits = 0 .. 5
    <3>1. \A b \in 0 .. 7 : b \in ByteBits <=> b <= 5  BY <1>1, <2>1
    <3> QED  BY <1>1, <3>1
  <2> QED  BY <1>2, <1>5, <2>1, <2>2
<1>6. CASE Half = 16
  <2>1. B = 256  BY <1>6 DEF B
  <2>2. ByteBits = 0 .. 7
    <3>1. \A b \in 0 .. 7 : b \in ByteBits <=> b <= 7  BY <1>1, <2>1
    <3> QED  BY <1>1, <3>1
  <2> QED  BY <1>2, <1>6, <2>1, <2>2
<1> QED  BY <1>3, <1>4, <1>5, <1>6, HalfAssumption

\* A number grows by the weight of a bit that is added to it.
LEMMA BitAdded ==
  ASSUME NEW bits \in SUBSET (0 .. 7), NEW b \in 0 .. 7, b \notin bits
  PROVE  Number(bits \cup {b}) = Number(bits) + 2^b
<1>1. \A c \in 0 .. 7 : c # b => (c \in bits \cup {b} <=> c \in bits)  OBVIOUS
<1>2. CASE b = 0  BY <1>2, Powers DEF Number
<1>3. CASE b = 1  BY <1>3, Powers DEF Number
<1>4. CASE b = 2  BY <1>4, Powers DEF Number
<1>5. CASE b = 3  BY <1>5, Powers DEF Number
<1>6. CASE b = 4  BY <1>6, Powers DEF Number
<1>7. CASE b = 5  BY <1>7, Powers DEF Number
<1>8. CASE b = 6  BY <1>8, Powers DEF Number
<1>9. CASE b = 7  BY <1>9, Powers DEF Number
<1> QED  BY <1>2, <1>3, <1>4, <1>5, <1>6, <1>7, <1>8, <1>9

\* Bytes are the numbers of sets of their bits.
LEMMA ByteOfBits ==
  /\ Byte \subseteq 0 .. 255 /\ ByteBits \subseteq 0 .. 7 /\ Top \in ByteBits
  /\ \A v \in Byte : Bits(v) \subseteq ByteBits
  /\ \A bits \in SUBSET ByteBits : Number(bits) \in Byte
<1>1. \A v : /\ (2 \in Bits(v) => (v \div 4) % 2 = 1) /\ (3 \in Bits(v) => (v \div 8) % 2 = 1)
             /\ (4 \in Bits(v) => (v \div 16) % 2 = 1) /\ (5 \in Bits(v) => (v \div 32) % 2 = 1)
             /\ (6 \in Bits(v) => (v \div 64) % 2 = 1) /\ (7 \in Bits(v) => (v \div 128) % 2 = 1)
  BY Powers DEF Bits, Bit
<1>2. \A v : Bits(v) \subseteq 0 .. 7  BY DEF Bits
<1>3. CASE Half = 2
  <2>1. B = 4 /\ ByteBits = 0 .. 1 /\ Top = 1  BY <1>3, Widths
  <2>2. \A v \in 0 .. 3, b \in 2 .. 7 : b \notin Bits(v)  BY <1>1, SMTT(30)
  <2>3. ASSUME NEW bits \in SUBSET (0 .. 1) PROVE Number(bits) \in 0 .. 3
    BY Powers DEF Number
  <2> QED  BY <1>2, <2>1, <2>2, <2>3 DEF Byte
<1>4. CASE Half = 4
  <2>1. B = 16 /\ ByteBits = 0 .. 3 /\ Top = 3  BY <1>4, Widths
  <2>2. \A v \in 0 .. 15, b \in 4 .. 7 : b \notin Bits(v)  BY <1>1, SMTT(30)
  <2>3. ASSUME NEW bits \in SUBSET (0 .. 3) PROVE Number(bits) \in 0 .. 15
    BY Powers DEF Number
  <2> QED  BY <1>2, <2>1, <2>2, <2>3 DEF Byte
<1>5. CASE Half = 8
  <2>1. B = 64 /\ ByteBits = 0 .. 5 /\ Top = 5  BY <1>5, Widths
  <2>2. \A v \in 0 .. 63, b \in 6 .. 7 : b \notin Bits(v)  BY <1>1, SMTT(30)
  <2>3. ASSUME NEW bits \in SUBSET (0 .. 5) PROVE Number(bits) \in 0 .. 63
    BY Powers DEF Number
  <2> QED  BY <1>2, <2>1, <2>2, <2>3 DEF Byte
<1>6. CASE Half = 16
  <2>1. B = 256 /\ ByteBits = 0 .. 7 /\ Top = 7  BY <1>6, Widths
  <2> QED  BY <1>2, <2>1, BitsNumber DEF Byte
<1> QED  BY <1>3, <1>4, <1>5, <1>6, HalfAssumption

\* The bits of a byte run up to the top one.
LEMMA BitsInRow ==
  /\ ByteBits = 0 .. Top /\ Top \in 0 .. 7 /\ 2^Top = B \div 2 /\ B \in 0 .. 256
<1>1. CASE Half = 2   BY <1>1, Widths, Powers
<1>2. CASE Half = 4   BY <1>2, Widths, Powers
<1>3. CASE Half = 8   BY <1>3, Widths, Powers
<1>4. CASE Half = 16  BY <1>4, Widths, Powers
<1> QED  BY <1>1, <1>2, <1>3, <1>4, HalfAssumption

\* To move the bits to the right is to divide by two.
LEMMA RightHalf ==
  ASSUME NEW v \in Byte
  PROVE  /\ Number(Right(v)) = v \div 2
         /\ Number(Right(v) \cup {Top}) = v \div 2 + B \div 2
         /\ 0 \in Bits(v) <=> v % 2 = 1
<1>1. v \in 0 .. 255 /\ v \div 2 \in 0 .. 255  BY ByteOfBits
<1>2. /\ (0 \in Bits(v \div 2) <=> 1 \in Bits(v)) /\ (1 \in Bits(v \div 2) <=> 2 \in Bits(v))
      /\ (2 \in Bits(v \div 2) <=> 3 \in Bits(v)) /\ (3 \in Bits(v \div 2) <=> 4 \in Bits(v))
      /\ (4 \in Bits(v \div 2) <=> 5 \in Bits(v)) /\ (5 \in Bits(v \div 2) <=> 6 \in Bits(v))
      /\ (6 \in Bits(v \div 2) <=> 7 \in Bits(v)) /\ 7 \notin Bits(v \div 2)
  BY <1>1, Powers, SMTT(60) DEF Bits, Bit
<1>3. \A b : b \in Bits(v) => b \in 0 .. Top  BY ByteOfBits, BitsInRow
<1>4. \A b \in 0 .. 7 : b \in Bits(v \div 2) <=> b + 1 \in Bits(v)
  BY <1>2, <1>3, BitsInRow
<1>5. \A b \in Bits(v \div 2) : b \in 0 .. 7  BY DEF Bits
<1>6. \A b \in 0 .. 7 : b \in Right(v) <=> b \in Bits(v \div 2)
  BY <1>3, <1>4, BitsInRow DEF Right
<1>7. \A b \in Right(v) : b \in 0 .. 7  BY BitsInRow DEF Right
<1>8. Right(v) = Bits(v \div 2)  BY <1>5, <1>6, <1>7
<1>9. Top \notin Right(v)  BY <1>3, BitsInRow DEF Right
<1>10. Right(v) \in SUBSET (0 .. 7)  BY <1>7
<1>11. 0 \in Bits(v) <=> v % 2 = 1  BY <1>1, Powers DEF Bits, Bit
<1>12. Number(Right(v)) = v \div 2  BY <1>1, <1>8, NumberBits
<1>13. Number(Right(v) \cup {Top}) = Number(Right(v)) + 2^Top
  BY <1>9, <1>10, BitsInRow, BitAdded
<1> QED  BY <1>11, <1>12, <1>13, BitsInRow

\* The flags of a sum or a difference are those that Sum computes.
LEMMA SumFlags ==
  ASSUME NEW o \in Additive \ {"inc", "dec"}, NEW s, NEW v, NEW n, NEW junk
  PROVE  /\ FlagsOf(o, s, v, n, junk) = Sum(o, s, v, n).flags
         /\ Result(o, s, v, n) = Sum(o, s, v, n).result
<1>1. FlagsOf(o, s, v, n, junk) = Sum(o, s, v, n).flags
  BY DEF FlagsOf, Additive, Rotates, Shifts
<1>2. Result(o, s, v, n) = Sum(o, s, v, n).result  BY DEF Result, Additive
<1> QED  BY <1>1, <1>2

\* An increment or a decrement keeps CF.
LEMMA StepFlags ==
  ASSUME NEW o \in {"inc", "dec"}, NEW s, NEW v, NEW n, NEW junk
  PROVE  /\ FlagsOf(o, s, v, n, junk) = (Sum(o, s, v, n).flags \ {CF}) \cup (s.flags \cap {CF})
         /\ Result(o, s, v, n) = Sum(o, s, v, n).result
<1>1. FlagsOf(o, s, v, n, junk) = (Sum(o, s, v, n).flags \ {CF}) \cup (s.flags \cap {CF})
  BY DEF FlagsOf, Additive, Rotates, Shifts
<1>2. Result(o, s, v, n) = Sum(o, s, v, n).result  BY DEF Result, Additive
<1> QED  BY <1>1, <1>2

\* A rotation changes CF only, to the bit that it carries around.
LEMMA RotateFlags ==
  ASSUME NEW o \in Rotates, NEW s, NEW v, NEW n, NEW junk
  PROVE  FlagsOf(o, s, v, n, junk) = (s.flags \ {CF}) \cup If(Out(o, v), CF)
BY DEF FlagsOf, Additive, Rotates, Shifts

\* A shift sets ZF by its result and CF by the bit that it drops.
LEMMA ShiftFlags ==
  ASSUME NEW o \in Shifts, NEW s, NEW v, NEW n, NEW junk
  PROVE  FlagsOf(o, s, v, n, junk)
           = If(Result(o, s, v, n) = 0, ZF) \cup If(Out(o, v), CF) \cup (junk \cap {AF})
BY DEF FlagsOf, Additive, Rotates, Shifts

\* A rotation by half a byte changes CF only, and not changes no flag.
LEMMA OtherFlags ==
  ASSUME NEW s, NEW v, NEW n, NEW junk
  PROVE  /\ FlagsOf("rol_half", s, v, n, junk)
              = (s.flags \ {CF}) \cup If(0 \in Bits(Result("rol_half", s, v, n)), CF)
         /\ FlagsOf("not", s, v, n, junk) = s.flags
<1>1. FlagsOf("rol_half", s, v, n, junk)
        = (s.flags \ {CF}) \cup If(0 \in Bits(Result("rol_half", s, v, n)), CF)
  BY DEF FlagsOf, Additive, Rotates, Shifts
<1>2. FlagsOf("not", s, v, n, junk) = s.flags
  BY DEF FlagsOf, Additive, Rotates, Shifts
<1> QED  BY <1>1, <1>2

\* The operations whose flags the result alone gives.
Bitwises == {"and", "or", "xor", "and_imm", "or_imm", "test_imm", "test_self"}

\* A bitwise operation clears CF and sets ZF by its result.
LEMMA BitwiseFlags ==
  ASSUME NEW o \in Bitwises, NEW s, NEW v, NEW n, NEW junk
  PROVE  FlagsOf(o, s, v, n, junk) = If(Result(o, s, v, n) = 0, ZF) \cup (junk \cap {AF})
BY DEF FlagsOf, Additive, Rotates, Shifts, Bitwises

\* The flags that an operation defines, on the processor and in the handler.
Defined(o) ==
  IF o \in (Additive \ {"cmp_imm"}) \cup {"rol_half", "not"} THEN Flags
  ELSE IF o \in Rotates THEN {CF} ELSE {CF, ZF}

\* Flags h that it may leave.
Leaves(h, o, s, v, n) ==
  h \in SUBSET Flags /\ h \cap Defined(o) = FlagsOf(o, s, v, n, {}) \cap Defined(o)

\* The handler's add, sub and cmp are the processor's, flags included.
LEMMA AdditiveByHand ==
  ASSUME NEW al \in Byte, NEW ah, NEW g \in SUBSET Flags, NEW v \in Byte, NEW w, NEW k,
         NEW s, s = State(al, ah, g, v, w, k), NEW o \in {"add", "sub", "cmp"}, NEW n
  PROVE  \E h : /\ Handler(o, s, v, n) = Done(o, "fault", Result(o, s, v, n), al, ah, h, v, w, k)
                /\ Leaves(h, o, s, v, n)
<1>1. s.al = al /\ al \in Int /\ v \in Int  BY Parts, ByteOfBits
<1>2. /\ Sum("add", s, v, n) = Summed(al, v, 1, 0)
      /\ Sum("sub", s, v, n) = Summed(al, v, -1, 0)
      /\ Sum("cmp", s, v, n) = Summed(al, v, -1, 0)
  BY <1>1, SumOf
<1>3. Result(o, s, v, n) = Sum(o, s, v, n).result /\ FlagsOf(o, s, v, n, {}) = Sum(o, s, v, n).flags
  <2>1. o \in Additive \ {"inc", "dec"}  BY DEF Additive
  <2> QED  BY <2>1, SumFlags
<1>4. \A c \in SUBSET Flags : c = (g \ Flags) \cup c  OBVIOUS
<1>5. \A x, y, z : If(x, ZF) \cup If(y, CF) \cup If(z, AF) \in SUBSET Flags  BY DEF If, Flags
<1>6. CASE o = "add"
  <2> DEFINE c == If((al + v) % B = 0, ZF) \cup If((al + v) \div B = 1, CF)
                    \cup If(Low(al) + Low(v) >= Half, AF)
             r == (al + v) % B
  <2>1. /\ Sum(o, s, v, n).result = (al + v) % B
        /\ Sum(o, s, v, n).flags = Carries(al + v, Low(al) + Low(v))
    BY <1>1, <1>2, <1>6, Plain
  <2>2. c = Carries(al + v, Low(al) + Low(v))  BY HandCarries DEF Carries, If
  <2>3. c \in SUBSET Flags  BY <1>5
  <2>4. Handler(o, s, v, n) = Loaded(s, r, Flags, c)
    BY <1>1, <1>6 DEF Handler, Add
  <2> HIDE DEF c, r
  <2>5. Handler(o, s, v, n) = State(r, ah, c, v, w, k)
    <3>1. (g \ Flags) \cup c = c  BY <1>4, <2>3
    <3> QED  BY <2>4, <3>1, LoadedByHand
  <2> QED  BY <1>3, <1>6, <2>1, <2>2, <2>3, <2>5 DEF r, Done, LeftAl, LeftMem, Leaves, Compares, WithAl
<1> DEFINE d == Compared(s, v)
<1>7. d = Carries(al - v, Low(al) - Low(v)) /\ d \in SUBSET Flags
  <2>1. d = If(al = v, ZF) \cup If(v > al, CF) \cup If(Low(al) < Low(v), AF)
    BY <1>1 DEF Compared
  <2>2. d \in SUBSET Flags  BY <1>5, <2>1
  <2> HIDE DEF d
  <2> QED  BY <2>1, <2>2, HandCarries DEF Carries, If
<1> HIDE DEF d
<1>8. (g \ Flags) \cup d = d  BY <1>4, <1>7
<1>9. CASE o = "sub"
  <2> DEFINE r == (al - v) % B
  <2>1. /\ Sum(o, s, v, n).result = (al - v) % B
        /\ Sum(o, s, v, n).flags = Carries(al - v, Low(al) - Low(v))
    BY <1>1, <1>2, <1>9, Plain
  <2>2. Handler(o, s, v, n) = Loaded(s, r, Flags, d)
    BY <1>1, <1>9 DEF Handler, Sub, d
  <2> HIDE DEF r
  <2>3. Handler(o, s, v, n) = State(r, ah, d, v, w, k)
    BY <1>8, <2>2, LoadedByHand
  <2> QED  BY <1>3, <1>7, <1>9, <2>1, <2>3 DEF r, Done, LeftAl, LeftMem, Leaves, Compares, WithAl
<1>10. CASE o = "cmp"
  <2>1. Sum(o, s, v, n).flags = Carries(al - v, Low(al) - Low(v))
    BY <1>1, <1>2, <1>10, Plain
  <2>2. Handler(o, s, v, n) = Flagged(s, Flags, d)  BY <1>10 DEF Handler, Cmp, d
  <2>3. Handler(o, s, v, n) = State(al, ah, d, v, w, k)  BY <1>8, <2>2, FlaggedByHand
  <2> QED  BY <1>3, <1>7, <1>10, <2>1, <2>3 DEF Done, LeftAl, LeftMem, Leaves, Compares, WithAl
<1> QED  BY <1>6, <1>9, <1>10

\* To clear and set ZF and AF is to keep CF.
LEMMA KeptCarry ==
  ASSUME NEW g \in SUBSET Flags, NEW d \in SUBSET Flags
  PROVE  (g \ {ZF, AF}) \cup (d \ {CF}) = (d \ {CF}) \cup (g \cap {CF})
<1>1. \A b : (b \in g => b \in Flags) /\ (b \in d => b \in Flags)  OBVIOUS
<1> QED  BY <1>1 DEF Flags, CF, AF, ZF

\* The handler's inc and dec are the processor's: CF is kept.
LEMMA StepByHand ==
  ASSUME NEW al, NEW ah, NEW g \in SUBSET Flags, NEW v \in Byte, NEW w, NEW k,
         NEW s, s = State(al, ah, g, v, w, k), NEW o \in {"inc", "dec"}, NEW n \in Int
  PROVE  \E h : /\ Handler(o, s, v, n) = Done(o, "fault", Result(o, s, v, n), al, ah, h, v, w, k)
                /\ Leaves(h, o, s, v, n)
<1>1. s.flags = g /\ v \in Int /\ 1 \in Byte
  <2>1. 1 \in Byte  BY HalfAssumption DEF Byte, B
  <2> QED  BY <2>1, Parts, ByteOfBits
<1>2. Result(o, s, v, n) = Sum(o, s, v, n).result
      /\ FlagsOf(o, s, v, n, {}) = (Sum(o, s, v, n).flags \ {CF}) \cup (g \cap {CF})
  <2>1. FlagsOf(o, s, v, n, {}) = (Sum(o, s, v, n).flags \ {CF}) \cup (s.flags \cap {CF})
    BY StepFlags
  <2> QED  BY <1>1, <2>1, StepFlags
<1>3. Defined(o) = Flags  BY DEF Defined, Additive
<1>4. o \in InPlace /\ o \notin WithAl /\ o \notin Compares  BY DEF InPlace, WithAl, Compares
<1> DEFINE r == IF o = "inc" THEN (v + 1) % B ELSE (v - 1) % B
           c == If(r = 0, ZF) \cup If(IF o = "inc" THEN Low(r) = 0 ELSE Low(v) = 0, AF)
           h == (g \ {ZF, AF}) \cup c
<1>5. Sum(o, s, v, n).result = r
      /\ Sum(o, s, v, n).flags = IF o = "inc" THEN Carries(v + 1, Low(v) + Low(1))
                                 ELSE Carries(v - 1, Low(v) - Low(1))
  <2>1. Sum("inc", s, v, n) = Summed(v, 1, 1, 0) /\ Sum("dec", s, v, n) = Summed(v, 1, -1, 0)
    BY SumOf
  <2>2. /\ Summed(v, 1, 1, 0).result = (v + 1) % B
        /\ Summed(v, 1, 1, 0).flags = Carries(v + 1, Low(v) + Low(1))
        /\ Summed(v, 1, -1, 0).result = (v - 1) % B
        /\ Summed(v, 1, -1, 0).flags = Carries(v - 1, Low(v) - Low(1))
    BY <1>1, Plain
  <2>3. CASE o = "inc"  BY <2>1, <2>2, <2>3, Zenon
  <2>4. CASE o = "dec"
    <3>1. o # "inc"  BY <2>4
    <3> QED  BY <2>1, <2>2, <2>4, <3>1, Zenon
  <2> QED  BY <2>3, <2>4
<1>6. Handler(o, s, v, n) = Stored(s, r, {ZF, AF}, c)
  <2>1. CASE o = "inc"  BY <2>1 DEF Handler, Inc
  <2>2. CASE o = "dec"  BY <2>2 DEF Handler, Dec
  <2> QED  BY <2>1, <2>2
<1>9. \A d : d \in SUBSET Flags =>
        (g \ {ZF, AF}) \cup (d \ {CF}) = (d \ {CF}) \cup (g \cap {CF})
  BY KeptCarry
<1>10. \A x, y : Carries(x, y) \in SUBSET Flags  BY DEF Carries, If, Flags
<1>7. h = FlagsOf(o, s, v, n, {}) /\ h \in SUBSET Flags
  <2>1. CASE o = "inc"
    <3>1. c = Carries(v + 1, Low(v) + Low(1)) \ {CF}
      BY <2>1, HandCarries DEF Carries, If, CF, AF, ZF
    <3> HIDE DEF c
    <3>2. Sum(o, s, v, n).flags = Carries(v + 1, Low(v) + Low(1))  BY <1>5, <2>1
    <3>3. c \in SUBSET Flags  BY <3>1 DEF Carries, If, Flags
    <3>4. (g \ {ZF, AF}) \cup c = (Sum(o, s, v, n).flags \ {CF}) \cup (g \cap {CF})
      BY <1>9, <1>10, <3>1, <3>2, Zenon
    <3> QED  BY <1>2, <3>3, <3>4 DEF h
  <2>2. CASE o = "dec"
    <3>1. c = Carries(v - 1, Low(v) - Low(1)) \ {CF}
      BY <2>2, HandCarries DEF Carries, If, CF, AF, ZF
    <3> HIDE DEF c
    <3>2. Sum(o, s, v, n).flags = Carries(v - 1, Low(v) - Low(1))  BY <1>5, <2>2
    <3>3. c \in SUBSET Flags  BY <3>1 DEF Carries, If, Flags
    <3>4. (g \ {ZF, AF}) \cup c = (Sum(o, s, v, n).flags \ {CF}) \cup (g \cap {CF})
      BY <1>9, <1>10, <3>1, <3>2, Zenon
    <3> QED  BY <1>2, <3>3, <3>4 DEF h
  <2> QED  BY <2>1, <2>2
<1> HIDE DEF r, c
<1>8. Handler(o, s, v, n) = State(al, ah, h, r, w, k)
  <2> DEFINE cleared == {ZF, AF}
  <2> HIDE DEF cleared
  <2>1. Stored(State(al, ah, g, v, w, k), r, cleared, c)
          = State(al, ah, (g \ cleared) \cup c, r, w, k)
    BY StoredByHand
  <2> HIDE DEF h
  <2> QED  BY <1>6, <2>1, Zenon DEF cleared, h
<1> HIDE DEF h
<1> QED  BY <1>2, <1>3, <1>4, <1>5, <1>7, <1>8 DEF Done, LeftAl, LeftMem, Leaves

\* The handler's ror, rcr and shr are the processor's, but for flags that the
\* templates do not look at.
LEMMA RightByHand ==
  ASSUME NEW al, NEW ah, NEW g \in SUBSET Flags, NEW v \in Byte, NEW w, NEW k,
         NEW s, s = State(al, ah, g, v, w, k), NEW o \in {"ror", "rcr", "shr"}, NEW n
  PROVE  \E h : /\ Handler(o, s, v, n) = Done(o, "fault", Result(o, s, v, n), al, ah, h, v, w, k)
                /\ Leaves(h, o, s, v, n)
<1>1. s.flags = g /\ v \in 0 .. 255  BY Parts, ByteOfBits
<1>2. PICK in \in {0, 1} : /\ in = CASE o = "ror" -> v % 2
                                    [] o = "rcr" -> IF CF \in s.flags THEN 1 ELSE 0
                                    [] o = "shr" -> 0
                           /\ Handler(o, s, v, n) = Shifted(s, v, in)
  <2>1. v % 2 \in {0, 1}  BY <1>1
  <2>2. CASE o = "ror"  BY <2>1, <2>2 DEF Handler, Ror
  <2>3. CASE o = "rcr"  BY <2>3 DEF Handler, Rcr
  <2>4. CASE o = "shr"  BY <2>4 DEF Handler, Shr
  <2> QED  BY <2>2, <2>3, <2>4
<1>3. Result(o, s, v, n) = Number(Right(v) \cup If(in = 1, Top))
  <2>1. CASE o = "ror"
    <3>1. in = 1 <=> 0 \in Bits(v)  BY <1>2, <2>1, RightHalf
    <3>2. Result(o, s, v, n) = Number(Right(v) \cup If(0 \in Bits(v), Top))
      BY <2>1 DEF Result, Additive
    <3> QED  BY <3>1, <3>2 DEF If
  <2>2. CASE o = "rcr"
    <3>1. in = 1 <=> CF \in s.flags  BY <1>2, <2>2
    <3>2. Result(o, s, v, n) = Number(Right(v) \cup If(CF \in s.flags, Top))
      BY <2>2 DEF Result, Additive
    <3> QED  BY <3>1, <3>2 DEF If
  <2>3. CASE o = "shr"
    <3>1. in = 0  BY <1>2, <2>3
    <3>2. Result(o, s, v, n) = Number(Right(v))  BY <2>3 DEF Result, Additive
    <3>3. Right(v) \cup If(in = 1, Top) = Right(v)  BY <3>1 DEF If
    <3> QED  BY <3>2, <3>3
  <2> QED  BY <2>1, <2>2, <2>3
<1> DEFINE r == v \div 2 + in * (B \div 2)
           c == If(r = 0, ZF) \cup If(v % 2 = 1, CF)
           h == (g \ {ZF, CF}) \cup c
<1>4. r = Result(o, s, v, n)
  <2>1. B \div 2 \in Int /\ v \div 2 \in Int  BY <1>1, BitsInRow
  <2>2. CASE in = 0
    <3>1. Right(v) \cup If(in = 1, Top) = Right(v)  BY <2>2 DEF If
    <3>2. r = v \div 2  BY <2>1, <2>2
    <3> HIDE DEF r
    <3> QED  BY <1>3, <3>1, <3>2, RightHalf
  <2>3. CASE in = 1
    <3>1. Right(v) \cup If(in = 1, Top) = Right(v) \cup {Top}  BY <2>3 DEF If
    <3>2. r = v \div 2 + B \div 2  BY <2>1, <2>3
    <3> HIDE DEF r
    <3> QED  BY <1>3, <3>1, <3>2, RightHalf
  <2> QED  BY <2>2, <2>3
<1>5. Handler(o, s, v, n) = Stored(s, r, {ZF, CF}, c)  BY <1>2 DEF Shifted
<1> HIDE DEF r
<1>6. Handler(o, s, v, n) = State(al, ah, h, r, w, k)
  <2> HIDE DEF c
  <2> DEFINE cleared == {ZF, CF}
  <2> HIDE DEF cleared
  <2>1. Stored(State(al, ah, g, v, w, k), r, cleared, c)
          = State(al, ah, (g \ cleared) \cup c, r, w, k)
    BY StoredByHand
  <2> HIDE DEF h
  <2> QED  BY <1>5, <2>1, Zenon DEF cleared, h
<1>7. h \in SUBSET Flags  BY DEF If, Flags
<1>8. Out(o, v) <=> v % 2 = 1
  <2>1. o \notin {"rol", "rcl", "sal"}  OBVIOUS
  <2> QED  BY <2>1, RightHalf DEF Out
<1>9. h \cap Defined(o) = FlagsOf(o, s, v, n, {}) \cap Defined(o)
  <2>1. CASE o \in {"ror", "rcr"}
    <3>1. o \in Rotates /\ Defined(o) = {CF}
      BY <2>1 DEF Rotates, Defined, Additive
    <3>2. FlagsOf(o, s, v, n, {}) = (g \ {CF}) \cup If(Out(o, v), CF)
      BY <1>1, <3>1, RotateFlags
    <3> QED  BY <1>8, <3>1, <3>2 DEF If, CF, ZF
  <2>2. CASE o = "shr"
    <3>1. o \in Shifts /\ Defined(o) = {CF, ZF}
      BY <2>2 DEF Rotates, Shifts, Defined, Additive
    <3>2. FlagsOf(o, s, v, n, {}) = If(r = 0, ZF) \cup If(Out(o, v), CF) \cup ({} \cap {AF})
      BY <1>4, <3>1, ShiftFlags
    <3> QED  BY <1>8, <3>1, <3>2 DEF If, CF, ZF
  <2> QED  BY <2>1, <2>2
<1>10. o \in InPlace /\ o \notin WithAl /\ o \notin Compares  BY DEF InPlace, WithAl, Compares
<1> HIDE DEF h
<1> QED  BY <1>4, <1>6, <1>7, <1>9, <1>10 DEF Done, LeftAl, LeftMem, Leaves

\* The handler's bitwise operations are the processor's, but for AF.
LEMMA BitwiseByHand ==
  ASSUME NEW al, NEW ah, NEW g \in SUBSET Flags, NEW v, NEW w, NEW k,
         NEW s, s = State(al, ah, g, v, w, k),
         NEW o \in {"or", "and_imm", "or_imm", "test_imm"}, NEW n
  PROVE  \E h : /\ Handler(o, s, v, n) = Done(o, "fault", Result(o, s, v, n), al, ah, h, v, w, k)
                /\ Leaves(h, o, s, v, n)
<1> DEFINE r == Result(o, s, v, n)
           c == If(r = 0, ZF)
           cleared == {ZF, CF}
           h == (g \ cleared) \cup c
<1>1. s.al = al  BY Parts
<1>2. Or(al, v) = Or(v, al)
  <2>1. Bits(al) \cup Bits(v) = Bits(v) \cup Bits(al)  OBVIOUS
  <2> QED  BY <2>1, Zenon DEF Or
<1>3. r = CASE o = "or" -> Or(al, v) [] o = "or_imm" -> Or(v, n)
            [] o \in {"and_imm", "test_imm"} -> And(v, n)
  BY <1>1, <1>2 DEF Result, Additive
<1>4. FlagsOf(o, s, v, n, {}) = c /\ Defined(o) = {CF, ZF}
  <2>1. o \in Bitwises  BY DEF Bitwises
  <2>2. FlagsOf(o, s, v, n, {}) = c \cup ({} \cap {AF})  BY <2>1, BitwiseFlags
  <2> HIDE DEF c
  <2>3. Defined(o) = {CF, ZF}  BY DEF Defined, Additive, Rotates
  <2> QED  BY <2>2, <2>3
<1>5. h \in SUBSET Flags /\ h \cap {CF, ZF} = c \cap {CF, ZF}
  <2> HIDE DEF r
  <2>1. h \in SUBSET Flags  BY DEF If, Flags
  <2>2. \A b \in {CF, ZF} : b \in h <=> b \in c  BY DEF If
  <2> QED  BY <2>1, <2>2
<1>6. Handler(o, s, v, n) = IF o = "or" THEN Loaded(s, r, cleared, c)
                            ELSE IF o = "test_imm" THEN Flagged(s, cleared, c)
                                 ELSE Stored(s, r, cleared, c)
  <2>1. CASE o = "or"
    <3>1. r = Or(al, v)  BY <1>3, <2>1
    <3>2. Handler(o, s, v, n) = Loaded(s, r, cleared, If(r = 0, ZF))
      BY <1>1, <2>1, <3>1 DEF Handler, OrAl
    <3> QED  BY <2>1, <3>2, Zenon
  <2>2. CASE o = "test_imm"
    <3>1. r = And(v, n) /\ o # "or"  BY <1>3, <2>2
    <3>2. Handler(o, s, v, n) = Flagged(s, cleared, If(r = 0, ZF))
      BY <2>2, <3>1 DEF Handler, TestImm
    <3> QED  BY <2>2, <3>1, <3>2, Zenon
  <2>3. CASE o = "and_imm"
    <3>1. r = And(v, n) /\ o # "or" /\ o # "test_imm"  BY <1>3, <2>3
    <3>2. Handler(o, s, v, n) = Stored(s, r, cleared, If(r = 0, ZF))
      BY <2>3, <3>1 DEF Handler, AndImm
    <3> QED  BY <2>3, <3>1, <3>2, Zenon
  <2>4. CASE o = "or_imm"
    <3>1. r = Or(v, n) /\ o # "or" /\ o # "test_imm"  BY <1>3, <2>4
    <3>2. Handler(o, s, v, n) = Stored(s, r, cleared, If(r = 0, ZF))
      BY <2>4, <3>1 DEF Handler, OrImm
    <3> QED  BY <2>4, <3>1, <3>2, Zenon
  <2> QED  BY <2>1, <2>2, <2>3, <2>4
<1> HIDE DEF r, c, cleared
<1>7. /\ Loaded(s, r, cleared, c) = State(r, ah, h, v, w, k)
      /\ Stored(s, r, cleared, c) = State(al, ah, h, r, w, k)
      /\ Flagged(s, cleared, c) = State(al, ah, h, v, w, k)
  BY LoadedByHand, StoredByHand, FlaggedByHand
<1> HIDE DEF h
<1>8. Handler(o, s, v, n) = Done(o, "fault", r, al, ah, h, v, w, k)
  BY <1>6, <1>7 DEF Done, LeftAl, LeftMem, Compares, WithAl
<1> QED  BY <1>4, <1>5, <1>8 DEF r, Leaves

\* The handler's comparison with an immediate is the processor's, but for AF.
LEMMA ImmediateByHand ==
  ASSUME NEW al, NEW ah, NEW g \in SUBSET Flags, NEW v \in Byte, NEW w, NEW k,
         NEW s, s = State(al, ah, g, v, w, k), NEW n \in Byte
  PROVE  \E h : /\ Handler("cmp_imm", s, v, n)
                     = Done("cmp_imm", "fault", Result("cmp_imm", s, v, n), al, ah, h, v, w, k)
                /\ Leaves(h, "cmp_imm", s, v, n)
<1> DEFINE c == If(v = n, ZF) \cup If(v < n, CF)
           cleared == {ZF, CF}
           h == (g \ cleared) \cup c
<1>1. v \in Int /\ n \in Int  BY ByteOfBits
<1>2. FlagsOf("cmp_imm", s, v, n, {}) = Carries(v - n, Low(v) - Low(n))
  <2>1. "cmp_imm" \in Additive \ {"inc", "dec"}  BY DEF Additive
  <2>2. FlagsOf("cmp_imm", s, v, n, {}) = Sum("cmp_imm", s, v, n).flags  BY <2>1, SumFlags
  <2>3. Sum("cmp_imm", s, v, n) = Summed(v, n, -1, 0)  BY SumOf
  <2> QED  BY <1>1, <2>2, <2>3, Plain
<1>3. Defined("cmp_imm") = {CF, ZF}  BY DEF Defined, Additive, Rotates
<1>4. h \in SUBSET Flags  BY DEF If, Flags
<1>5. \A b \in {CF, ZF} : b \in h <=> b \in Carries(v - n, Low(v) - Low(n))
  <2>1. (v = n <=> (v - n) % B = 0) /\ (v < n <=> v - n \notin Byte)
    BY <1>1, HandCarries
  <2> QED  BY <2>1 DEF Carries, If, CF, AF, ZF
<1>6. Handler("cmp_imm", s, v, n) = Flagged(s, cleared, c)  BY DEF Handler, CmpImm
<1> HIDE DEF c, cleared
<1>7. Handler("cmp_imm", s, v, n) = State(al, ah, h, v, w, k)  BY <1>6, FlaggedByHand
<1> HIDE DEF h
<1>8. Handler("cmp_imm", s, v, n)
        = Done("cmp_imm", "fault", Result("cmp_imm", s, v, n), al, ah, h, v, w, k)
  BY <1>7 DEF Done, LeftAl, LeftMem, Compares
<1>9. h \cap {CF, ZF} = Carries(v - n, Low(v) - Low(n)) \cap {CF, ZF}
  BY <1>5
<1> QED  BY <1>2, <1>3, <1>4, <1>8, <1>9 DEF Leaves

\* The handler executes the instructions it knows, except one, as the processor
\* would, up to flags that the processor leaves undefined or that no template
\* looks at.
LEMMA HandStep ==
  ASSUME NEW al \in Byte, NEW ah, NEW g \in SUBSET Flags, NEW v \in Byte, NEW w, NEW k,
         NEW s, s = State(al, ah, g, v, w, k), NEW o \in Known \ {"sbb"}, NEW n \in Byte,
         NEW junk
  PROVE  \E h : /\ Exec(<<o, n>>, s, "fault", junk)
                     = Done(o, "fault", Result(o, s, v, n), al, ah, h, v, w, k)
                /\ Leaves(h, o, s, v, n)
<1>1. o \in Operations /\ o \in Known
  BY DEF Known, Operations, WithAl, WithImm, InPlace
<1>2. ~s.dead /\ s.mem = v  BY Parts
<1>3. Exec(<<o, n>>, s, "fault", junk) = Handler(o, s, v, n)
  BY <1>1, <1>2 DEF Exec, Faulting, Operations
<1>4. n \in Int  BY ByteOfBits
<1>5. CASE o \in {"add", "sub", "cmp"}  BY <1>3, <1>5, AdditiveByHand
<1>6. CASE o \in {"inc", "dec"}  BY <1>3, <1>4, <1>6, StepByHand
<1>7. CASE o \in {"ror", "rcr", "shr"}  BY <1>3, <1>7, RightByHand
<1>8. CASE o \in {"or", "and_imm", "or_imm", "test_imm"}  BY <1>3, <1>8, BitwiseByHand
<1>9. CASE o = "cmp_imm"  BY <1>3, <1>9, ImmediateByHand
<1> QED  BY <1>5, <1>6, <1>7, <1>8, <1>9 DEF Known

\* Sums and differences leave flags.
LEMMA SumLeaves ==
  ASSUME NEW o \in Additive, NEW s, NEW v, NEW n
  PROVE  Sum(o, s, v, n).flags \in SUBSET Flags
<1>1. \A x, y : Carries(x, y) \in SUBSET Flags  BY DEF Carries, If, Flags
<1>2. \A a, b, sign, in : Summed(a, b, sign, in).flags \in SUBSET Flags
  BY <1>1 DEF Summed
<1>3. \E a, b, sign, in : Sum(o, s, v, n) = Summed(a, b, sign, in)
  BY SumOf DEF Additive
<1> QED  BY <1>2, <1>3

\* The processor leaves flags, and those that o defines do not depend on junk.
LEMMA FlagsDefined ==
  ASSUME NEW o \in Operations, NEW s, s.flags \in SUBSET Flags, NEW v, NEW n, NEW junk
  PROVE  Leaves(FlagsOf(o, s, v, n, junk), o, s, v, n)
<1> DEFINE h == FlagsOf(o, s, v, n, junk)
           d == FlagsOf(o, s, v, n, {})
<1>1. CASE o \in Additive
  <2>1. Sum(o, s, v, n).flags \in SUBSET Flags  BY <1>1, SumLeaves
  <2>2. h = d
    <3>1. CASE o \in {"inc", "dec"}
      <4>1. \A j : FlagsOf(o, s, v, n, j) = (Sum(o, s, v, n).flags \ {CF}) \cup (s.flags \cap {CF})
        BY <3>1, StepFlags
      <4> QED  BY <4>1, Zenon
    <3>2. CASE o \in Additive \ {"inc", "dec"}  BY <3>2, SumFlags
    <3> QED  BY <1>1, <3>1, <3>2
  <2>3. h \in SUBSET Flags
    <3>1. CASE o \in {"inc", "dec"}
      <4>1. h = (Sum(o, s, v, n).flags \ {CF}) \cup (s.flags \cap {CF})
        BY <3>1, StepFlags
      <4> HIDE DEF h
      <4> QED  BY <2>1, <4>1
    <3>2. CASE o \in Additive \ {"inc", "dec"}
      <4>1. h = Sum(o, s, v, n).flags  BY <3>2, SumFlags
      <4> HIDE DEF h
      <4> QED  BY <2>1, <4>1
    <3> QED  BY <1>1, <3>1, <3>2
  <2> QED  BY <2>2, <2>3 DEF Leaves
<1>2. CASE o \in Rotates
  <2>1. h = (s.flags \ {CF}) \cup If(Out(o, v), CF) /\ d = (s.flags \ {CF}) \cup If(Out(o, v), CF)
    BY <1>2, RotateFlags
  <2>2. (s.flags \ {CF}) \cup If(Out(o, v), CF) \in SUBSET Flags  BY DEF If, Flags
  <2> QED  BY <2>1, <2>2 DEF Leaves
<1>3. CASE o \in Shifts
  <2> DEFINE c == If(Result(o, s, v, n) = 0, ZF) \cup If(Out(o, v), CF)
  <2>1. h = c \cup (junk \cap {AF}) /\ d = c \cup ({} \cap {AF})
    BY <1>3, ShiftFlags
  <2>2. c \in SUBSET Flags  BY DEF If, Flags
  <2>3. Defined(o) = {CF, ZF}  BY <1>3 DEF Defined, Shifts, Additive, Rotates
  <2> HIDE DEF c, h, d
  <2>4. h \in SUBSET Flags  BY <2>1, <2>2 DEF Flags
  <2>5. h \cap {CF, ZF} = d \cap {CF, ZF}  BY <2>1 DEF CF, AF, ZF
  <2> QED  BY <2>3, <2>4, <2>5 DEF Leaves, h, d
<1>4. CASE o \in Bitwises
  <2> DEFINE c == If(Result(o, s, v, n) = 0, ZF)
  <2>1. h = c \cup (junk \cap {AF}) /\ d = c \cup ({} \cap {AF})
    BY <1>4, BitwiseFlags
  <2>2. c \in SUBSET Flags  BY DEF If, Flags
  <2>3. Defined(o) = {CF, ZF}  BY <1>4 DEF Defined, Bitwises, Additive, Rotates
  <2> HIDE DEF c, h, d
  <2>4. h \in SUBSET Flags  BY <2>1, <2>2 DEF Flags
  <2>5. h \cap {CF, ZF} = d \cap {CF, ZF}  BY <2>1 DEF CF, AF, ZF
  <2> QED  BY <2>3, <2>4, <2>5 DEF Leaves, h, d
<1>5. CASE o = "rol_half"
  <2> DEFINE c == (s.flags \ {CF}) \cup If(0 \in Bits(Result(o, s, v, n)), CF)
  <2>1. h = c /\ d = c  BY <1>5, OtherFlags
  <2>2. c \in SUBSET Flags  BY DEF If, Flags
  <2> QED  BY <2>1, <2>2 DEF Leaves
<1>6. CASE o = "not"
  <2>1. h = s.flags /\ d = s.flags  BY <1>6, OtherFlags
  <2> QED  BY <2>1 DEF Leaves
<1>7. o \in Additive \cup Rotates \cup Shifts \cup Bitwises \cup {"rol_half", "not"}
  BY DEF Operations, WithAl, WithImm, InPlace, Compares, Additive, Rotates, Shifts, Bitwises
<1> QED  BY <1>1, <1>2, <1>3, <1>4, <1>5, <1>6, <1>7

\* After o on the operand x: its result, and flags that it may leave.
Performed(after, o, n, at, s, x, al, ah, v, w, k) ==
  \E h : /\ after = Done(o, at, Result(o, s, x, n), al, ah, h, v, w, k)
         /\ Leaves(h, o, s, x, n)

\* An instruction with the operand, wherever that is.
LEMMA OperandStep ==
  ASSUME NEW al \in Byte, NEW ah, NEW g \in SUBSET Flags, NEW v \in Byte, NEW w, NEW k,
         NEW s, s = State(al, ah, g, v, w, k), NEW o \in Operations, NEW n \in Byte,
         NEW at \in Places, at = "fault" => o \in Known \ {"sbb"}, NEW junk,
         NEW x, x = Operand(at, al, v)
  PROVE  Performed(Exec(<<o, n>>, s, at, junk), o, n, at, s, x, al, ah, v, w, k)
<1>1. CASE at = "fault"
  <2>1. x = v  BY <1>1 DEF Operand
  <2> QED  BY <1>1, <2>1, HandStep DEF Performed
<1>2. CASE at # "fault"
  <2>2. Exec(<<o, n>>, s, at, junk)
          = Done(o, at, Result(o, s, x, n), al, ah, FlagsOf(o, s, x, n, junk), v, w, k)
    BY <1>2, NativeStep
  <2>3. s.flags \in SUBSET Flags  BY Parts
  <2>4. Leaves(FlagsOf(o, s, x, n, junk), o, s, x, n)  BY <2>3, FlagsDefined
  <2> QED  BY <2>2, <2>4 DEF Performed
<1> QED  BY <1>1, <1>2

----------------------------------------------------------------------------
(* The guest's instructions                                                 *)

\* The x86 instructions that stand for the guest's.
LEMMA Mnemonics ==
  /\ Mnemonic["add"] = "add" /\ Mnemonic["adc"] = "adc" /\ Mnemonic["sub"] = "sub"
  /\ Mnemonic["sbc"] = "sbb" /\ Mnemonic["cp"] = "cmp" /\ Mnemonic["and"] = "and"
  /\ Mnemonic["xor"] = "xor" /\ Mnemonic["or"] = "or" /\ Mnemonic["inc"] = "inc"
  /\ Mnemonic["dec"] = "dec" /\ Mnemonic["rlca"] = "rol" /\ Mnemonic["rrca"] = "ror"
  /\ Mnemonic["rla"] = "rcl" /\ Mnemonic["rra"] = "rcr" /\ Mnemonic["rlc"] = "rol"
  /\ Mnemonic["rrc"] = "ror" /\ Mnemonic["rl"] = "rcl" /\ Mnemonic["rr"] = "rcr"
  /\ Mnemonic["sla"] = "sal" /\ Mnemonic["sra"] = "sar" /\ Mnemonic["srl"] = "shr"
  /\ Mnemonic["swap"] = "rol_half" /\ Mnemonic["cpl"] = "not"
  /\ Mnemonic["bit"] = "test_imm" /\ Mnemonic["res"] = "and_imm" /\ Mnemonic["set"] = "or_imm"
BY DEF Mnemonic

\* The guest's instructions that one x86 instruction executes but for flags.
Operated == Arith \cup Logic \cup RotateA \cup Rotate \cup Shift \cup BitOps \cup {"swap", "cpl"}

\* A guest instruction leaves its result where the x86 instruction does.
LEMMA GuestDone ==
  ASSUME NEW al, NEW ah, NEW g, NEW v, NEW w, NEW k, NEW s, s = State(al, ah, g, v, w, k),
         NEW i \in Operated, NEW at, NEW n, NEW junk, NEW x, x = Operand(at, al, v)
  PROVE  Observed(Guest(i, s, at, n, junk))
           = Done(Mnemonic[i], at, GuestResult(i, s, x, n), al, 0,
                  GuestFlags(i, s, x, n, junk), v, w, k)
<1> DEFINE h == GuestFlags(i, s, x, n, junk)
           r == GuestResult(i, s, x, n)
           t == [s EXCEPT !.flags = h]
           o == Mnemonic[i]
           toAl == [t EXCEPT !.al = r]
           toMem == [t EXCEPT !.mem = r]
           pushed == [t EXCEPT !.word = <<F(s), s.al>>]
           popped == [t EXCEPT !.al = s.word[2]]
<1>1. x = IF at = "al" THEN s.al ELSE s.mem  BY Parts DEF Operand
<1>2. Guest(i, s, at, n, junk) =
        CASE i \in (Arith \ {"cp", "inc", "dec"}) \cup Logic -> toAl
          [] i \in Rotate \cup RotateA \cup Shift \cup {"inc", "dec", "swap", "cpl", "res", "set"} ->
               IF at = "al" THEN toAl ELSE toMem
          [] i = "push_af" -> pushed [] i = "pop_af" -> popped [] OTHER -> t
  BY <1>1 DEF Guest
<1> HIDE DEF h, r
<1>3. t = State(al, ah, h, v, w, k)
  <2>1. t \in Only(al, ah, h, v, w, k)  BY DEF State, Only
  <2> QED  BY <2>1, IsState
<1> HIDE DEF t, pushed, popped
<1>4. toAl = State(r, ah, h, v, w, k) /\ toMem = State(al, ah, h, r, w, k)
  <2>1. /\ [t EXCEPT !.al = r] \in Only(r, ah, h, v, w, k)
        /\ [t EXCEPT !.mem = r] \in Only(al, ah, h, r, w, k)
    BY <1>3 DEF State, Only
  <2> QED  BY <2>1, IsState
<1> HIDE DEF o, toAl, toMem
<1>5. CASE i \in (Arith \ {"cp", "inc", "dec"}) \cup Logic
  <2>1. Guest(i, s, at, n, junk) = State(r, ah, h, v, w, k)
    <3>1. Guest(i, s, at, n, junk) = toAl  BY <1>2, <1>5 DEF Arith, Logic, Rotate, RotateA, Shift
    <3> QED  BY <1>4, <3>1
  <2>2. o \in WithAl /\ o \notin Compares
    BY <1>5, Mnemonics DEF o, WithAl, Compares, Arith, Logic
  <2> QED  BY <2>1, <2>2, Seen DEF Done, LeftAl, LeftMem, h, r, o
<1>6. CASE i \in Rotate \cup RotateA \cup Shift \cup {"inc", "dec", "swap", "cpl", "res", "set"}
  <2>1. i \notin (Arith \ {"cp", "inc", "dec"}) \cup Logic
    BY <1>6 DEF Arith, Logic, Rotate, RotateA, Shift
  <2>2. Guest(i, s, at, n, junk) = State(IF at = "al" THEN r ELSE al, ah, h,
                                         IF at = "al" THEN v ELSE r, w, k)
    <3>1. Guest(i, s, at, n, junk) = IF at = "al" THEN toAl ELSE toMem
      BY <1>2, <1>6, <2>1 DEF Rotate, RotateA, Shift
    <3> QED  BY <1>4, <3>1
  <2>3. o \notin WithAl /\ o \notin Compares
    BY <1>6, Mnemonics DEF o, WithAl, Compares, Rotate, RotateA, Shift
  <2>4. Observed(Guest(i, s, at, n, junk)) = State(IF at = "al" THEN r ELSE al, 0, h,
                                                   IF at = "al" THEN v ELSE r, w, k)
    BY <2>2, Seen
  <2> QED  BY <2>3, <2>4 DEF Done, LeftAl, LeftMem, h, r, o
<1>7. CASE i \in {"cp", "bit"}
  <2>1. /\ i \notin (Arith \ {"cp", "inc", "dec"}) \cup Logic
        /\ i \notin Rotate \cup RotateA \cup Shift \cup {"inc", "dec", "swap", "cpl", "res", "set"}
    BY <1>7 DEF Arith, Logic, Rotate, RotateA, Shift
  <2>2. Guest(i, s, at, n, junk) = t  BY <1>2, <1>7, <2>1
  <2>3. o \in Compares  BY <1>7, Mnemonics DEF o, Compares
  <2> QED  BY <1>3, <2>2, <2>3, Seen DEF Done, LeftAl, LeftMem, h, r, o
<1> QED  BY <1>5, <1>6, <1>7 DEF Operated, Arith, BitOps

----------------------------------------------------------------------------
(* Results and flags                                                        *)

\* The result of every x86 instruction with an operand is a byte.
LEMMA ResultByte ==
  ASSUME NEW s, s.al \in Byte, NEW v \in Byte, NEW n \in Byte, NEW o \in Operations
  PROVE  Result(o, s, v, n) \in Byte
<1>1. /\ Bits(s.al) \subseteq ByteBits /\ Bits(v) \subseteq ByteBits
      /\ Bits(n) \subseteq ByteBits
      /\ 0 \in ByteBits /\ Top \in ByteBits
      /\ \A bits \in SUBSET ByteBits : Number(bits) \in Byte
  <2>1. 0 \in ByteBits  BY BitsInRow
  <2> QED  BY <2>1, ByteOfBits, Zenon
<1>2. CASE o \in Additive
  <2>1. \A e \in Int : e % B \in Byte
    <3>1. B \in Nat \ {0}  BY HalfAssumption DEF B
    <3> QED  BY <3>1 DEF Byte
  <2>2. \A a \in Byte, b \in Byte, c \in {0, 1} :
          Summed(a, b, 1, c).result \in Byte /\ Summed(a, b, -1, c).result \in Byte
    <3> SUFFICES ASSUME NEW a \in Byte, NEW b \in Byte, NEW c \in {0, 1}
                 PROVE  Summed(a, b, 1, c).result \in Byte /\ Summed(a, b, -1, c).result \in Byte
      OBVIOUS
    <3>1. a + 1 * (b + c) \in Int /\ a + (-1) * (b + c) \in Int
      BY ByteOfBits
    <3> QED  BY <2>1, <3>1 DEF Summed
  <2>3. Carried(s) \in {0, 1} /\ 0 \in {0, 1}  BY DEF Carried
  <2>4. 1 \in Byte  BY HalfAssumption DEF Byte, B
  <2>5. Sum(o, s, v, n).result \in Byte
    <3> DEFINE a == s.al
    <3>1. /\ Sum("add", s, v, n) = Summed(a, v, 1, 0)
          /\ Sum("adc", s, v, n) = Summed(a, v, 1, Carried(s))
          /\ Sum("sub", s, v, n) = Summed(a, v, -1, 0)
          /\ Sum("cmp", s, v, n) = Summed(a, v, -1, 0)
          /\ Sum("sbb", s, v, n) = Summed(a, v, -1, Carried(s))
          /\ Sum("cmp_imm", s, v, n) = Summed(v, n, -1, 0)
          /\ Sum("inc", s, v, n) = Summed(v, 1, 1, 0)
          /\ Sum("dec", s, v, n) = Summed(v, 1, -1, 0)
      BY SumOf
    <3>2. a \in Byte  OBVIOUS
    <3> HIDE DEF a
    <3>3. o \in {"add", "adc", "sub", "sbb", "cmp", "cmp_imm", "inc", "dec"}
      BY <1>2 DEF Additive
    <3>4. \E y \in Byte, z \in Byte, c \in {0, 1} :
            Sum(o, s, v, n) \in {Summed(y, z, 1, c), Summed(y, z, -1, c)}
      BY <2>3, <2>4, <3>1, <3>2, <3>3
    <3> QED  BY <2>2, <3>4
  <2>6. Result(o, s, v, n) = Sum(o, s, v, n).result
    <3>1. CASE o \in {"inc", "dec"}  BY <3>1, StepFlags
    <3>2. CASE o \in Additive \ {"inc", "dec"}  BY <3>2, SumFlags
    <3> QED  BY <1>2, <3>1, <3>2
  <2> QED  BY <2>5, <2>6
<1>3. CASE o = "rol_half"
  <2>1. Result(o, s, v, n) = Low(v) * Half + v \div Half
    BY <1>3 DEF Result, Additive
  <2>2. CASE Half = 2   BY <2>1, <2>2, SMTT(30) DEF Byte, B, Low
  <2>3. CASE Half = 4   BY <2>1, <2>3, SMTT(30) DEF Byte, B, Low
  <2>4. CASE Half = 8   BY <2>1, <2>4, SMTT(30) DEF Byte, B, Low
  <2>5. CASE Half = 16  BY <2>1, <2>5, SMTT(30) DEF Byte, B, Low
  <2> QED  BY <2>2, <2>3, <2>4, <2>5, HalfAssumption
<1>4. CASE o = "test_self"  BY <1>4 DEF Result, Additive
<1>5. CASE o \in Operations \ (Additive \cup {"rol_half", "test_self"})
  <2>1. /\ Right(v) \in SUBSET ByteBits /\ Left(v) \in SUBSET ByteBits
        /\ ByteBits \ Bits(v) \in SUBSET ByteBits
    BY DEF Right, Left
  <2>2. \A y : If(y, Top) \in SUBSET ByteBits /\ If(y, 0) \in SUBSET ByteBits
    BY <1>1 DEF If
  <2>3. \A y : /\ Right(v) \cup If(y, Top) \in SUBSET ByteBits
               /\ Left(v) \cup If(y, 0) \in SUBSET ByteBits
    BY <2>1, <2>2
  <2>4. \A y, z : Bits(y) \subseteq ByteBits /\ Bits(z) \subseteq ByteBits =>
                    And(y, z) \in Byte /\ Or(y, z) \in Byte /\ Xor(y, z) \in Byte
    BY <1>1 DEF And, Or, Xor
  <2>5. \E bits \in SUBSET ByteBits : Result(o, s, v, n) = Number(bits) \/ Result(o, s, v, n) \in Byte
    <3>1. CASE o \in {"and", "or", "xor", "or_imm", "and_imm", "test_imm"}
      <4>1. Result(o, s, v, n) \in {And(v, s.al), Or(v, s.al), Xor(v, s.al), Or(v, n), And(v, n)}
        BY <3>1 DEF Result, Additive
      <4>2. Result(o, s, v, n) \in Byte  BY <1>1, <2>4, <4>1
      <4> QED  BY <2>1, <4>2
    <3>2. CASE o \in {"ror", "rcr", "sar", "rol", "rcl"}
      <4>1. \E y : Result(o, s, v, n) = Number(Right(v) \cup If(y, Top))
                   \/ Result(o, s, v, n) = Number(Left(v) \cup If(y, 0))
        BY <3>2 DEF Result, Additive
      <4> QED  BY <2>3, <4>1
    <3>3. CASE o \in {"shr", "sal", "not"}
      <4>1. Result(o, s, v, n) \in {Number(Right(v)), Number(Left(v)), Number(ByteBits \ Bits(v))}
        BY <3>3 DEF Result, Additive
      <4> QED  BY <2>1, <4>1
    <3> QED  BY <1>5, <3>1, <3>2, <3>3
         DEF Operations, WithAl, WithImm, InPlace, Compares, Additive
  <2> QED  BY <1>1, <2>5
<1> QED  BY <1>2, <1>3, <1>4, <1>5

\* What is in A and in memory after an operation.
LEMMA DoneParts ==
  ASSUME NEW o, NEW at, NEW r \in Byte, NEW al \in Byte, NEW v \in Byte
  PROVE  /\ LeftAl(o, at, r, al) \in Byte /\ LeftMem(o, at, r, v) \in Byte
         /\ o \notin WithAl \cup Compares =>
              Operand(at, LeftAl(o, at, r, al), LeftMem(o, at, r, v)) = r
         /\ at # "al" /\ o \notin WithAl => LeftAl(o, at, r, al) = al
BY DEF LeftAl, LeftMem, Operand

\* What the templates' masks make of flags that lahf has saved, once sahf takes
\* them back.
LEMMA Masked ==
  ASSUME NEW g \in SUBSET Flags
  PROVE  /\ Bits(Saved(g)) \cap Flags = g
         /\ Bits(And(Saved(g), H2B)) \cap Flags = g \cap {CF}
         /\ Bits(And(Saved(g), H3B)) \cap Flags = g \cap {CF, AF}
         /\ Bits(And(Saved(g), H40)) \cap Flags = g \cap {ZF}
         /\ Bits(And(Saved(g), H6A)) \cap Flags = g \cap {ZF}
         /\ Bits(And(Saved(g), HEF)) \cap Flags = g \cap {CF, ZF}
         /\ Bits(Or(Saved(g), H10)) \cap Flags = g \cup {AF}
         /\ Bits(Or(And(Saved(g), H6A), H10)) \cap Flags = (g \cap {ZF}) \cup {AF}
         /\ Bits(Or(And(Saved(g), H6A), H01)) \cap Flags = (g \cap {ZF}) \cup {CF}
<1>1. Bits(Saved(g)) = {1} \cup g  BY SavedBits
<1>2. \A b \in g : b \in {CF, AF, ZF}  BY DEF Flags
<1>0. /\ \A y, z : Bits(And(y, z)) = Bits(y) \cap Bits(z)
      /\ \A y, z : Bits(Or(y, z)) = Bits(y) \cup Bits(z)
  BY Bitwise
<1>3. /\ Bits(And(Saved(g), H2B)) = ({1} \cup g) \cap {0, 1, 3, 5}
      /\ Bits(And(Saved(g), H3B)) = ({1} \cup g) \cap {0, 1, 3, 4, 5}
      /\ Bits(And(Saved(g), H40)) = ({1} \cup g) \cap {6}
      /\ Bits(And(Saved(g), H6A)) = ({1} \cup g) \cap {1, 3, 5, 6}
      /\ Bits(And(Saved(g), HEF)) = ({1} \cup g) \cap {0, 1, 2, 3, 5, 6, 7}
      /\ Bits(Or(Saved(g), H10)) = {1} \cup g \cup {4}
  <2>1. /\ Bits(H10) = {4} /\ Bits(H2B) = {0, 1, 3, 5} /\ Bits(H3B) = {0, 1, 3, 4, 5}
        /\ Bits(H40) = {6} /\ Bits(H6A) = {1, 3, 5, 6}
        /\ Bits(HEF) = {0, 1, 2, 3, 5, 6, 7}
    BY Masks
  <2>2. Bits(And(Saved(g), H2B)) = ({1} \cup g) \cap {0, 1, 3, 5}  BY <1>0, <1>1, <2>1
  <2>3. Bits(And(Saved(g), H3B)) = ({1} \cup g) \cap {0, 1, 3, 4, 5}  BY <1>0, <1>1, <2>1
  <2>4. Bits(And(Saved(g), H40)) = ({1} \cup g) \cap {6}  BY <1>0, <1>1, <2>1
  <2>5. Bits(And(Saved(g), H6A)) = ({1} \cup g) \cap {1, 3, 5, 6}  BY <1>0, <1>1, <2>1
  <2>6. Bits(And(Saved(g), HEF)) = ({1} \cup g) \cap {0, 1, 2, 3, 5, 6, 7}
    BY <1>0, <1>1, <2>1
  <2>7. Bits(Or(Saved(g), H10)) = {1} \cup g \cup {4}  BY <1>0, <1>1, <2>1
  <2> QED  BY <2>2, <2>3, <2>4, <2>5, <2>6, <2>7, Zenon
<1>4. /\ Bits(Or(And(Saved(g), H6A), H10)) = (({1} \cup g) \cap {1, 3, 5, 6}) \cup {4}
      /\ Bits(Or(And(Saved(g), H6A), H01)) = (({1} \cup g) \cap {1, 3, 5, 6}) \cup {0}
  <2>1. Bits(And(Saved(g), H6A)) = ({1} \cup g) \cap {1, 3, 5, 6}  BY <1>3
  <2>2. Bits(H01) = {0} /\ Bits(H10) = {4}  BY Masks
  <2>3. /\ Bits(Or(And(Saved(g), H6A), H10)) = Bits(And(Saved(g), H6A)) \cup Bits(H10)
        /\ Bits(Or(And(Saved(g), H6A), H01)) = Bits(And(Saved(g), H6A)) \cup Bits(H01)
    BY <1>0
  <2> QED  BY <2>1, <2>2, <2>3, Zenon
<1>5. ({1} \cup g) \cap Flags = g
  <2>1. \A b \in {1} \cup g : b \in Flags <=> b \in g  BY DEF Flags, CF, AF, ZF
  <2> QED  BY <2>1
<1>6. ({1} \cup g) \cap {0, 1, 3, 5} \cap Flags = g \cap {CF}  BY <1>2 DEF Flags, CF, AF, ZF
<1>7. ({1} \cup g) \cap {0, 1, 3, 4, 5} \cap Flags = g \cap {CF, AF}  BY <1>2 DEF Flags, CF, AF, ZF
<1>8. ({1} \cup g) \cap {6} \cap Flags = g \cap {ZF}  BY <1>2 DEF Flags, CF, AF, ZF
<1>9. ({1} \cup g) \cap {1, 3, 5, 6} \cap Flags = g \cap {ZF}  BY <1>2 DEF Flags, CF, AF, ZF
<1>10. ({1} \cup g) \cap {0, 1, 2, 3, 5, 6, 7} \cap Flags = g \cap {CF, ZF}
  BY <1>2 DEF Flags, CF, AF, ZF
<1>11. ({1} \cup g \cup {4}) \cap Flags = g \cup {AF}
  <2>1. \A b \in {1} \cup g \cup {4} : b \in Flags <=> b \in g \cup {AF}
    BY DEF Flags, CF, AF, ZF
  <2>2. \A b \in g \cup {AF} : b \in Flags  BY DEF Flags
  <2> QED  BY <2>1, <2>2 DEF AF
<1>12. ((({1} \cup g) \cap {1, 3, 5, 6}) \cup {4}) \cap Flags = (g \cap {ZF}) \cup {AF}
  BY <1>2 DEF Flags, CF, AF, ZF
<1>13. ((({1} \cup g) \cap {1, 3, 5, 6}) \cup {0}) \cap Flags = (g \cap {ZF}) \cup {CF}
  BY <1>2 DEF Flags, CF, AF, ZF
<1> QED
  BY <1>1, <1>3, <1>4, <1>5, <1>6, <1>7, <1>8, <1>9, <1>10, <1>11, <1>12, <1>13, Zenon

\* What they make of flags that were saved before and after another operation.
LEMMA MaskedTwice ==
  ASSUME NEW g \in SUBSET Flags, NEW h \in SUBSET Flags
  PROVE  /\ Bits(Or(And(Saved(h), H6A), And(Saved(g), H01))) \cap Flags
              = (h \cap {ZF}) \cup (g \cap {CF})
         /\ Bits(Or(And(Saved(h), HFE), Or(And(Saved(g), H01), H10))) \cap Flags
              = (h \cap {ZF}) \cup (g \cap {CF}) \cup {AF}
         /\ Bits(Or(And(Saved(h), HBF), And(Saved(g), H40))) \cap Flags
              = (h \ {ZF}) \cup (g \cap {ZF})
<1>1. Bits(Saved(g)) = {1} \cup g /\ Bits(Saved(h)) = {1} \cup h  BY SavedBits
<1>2. /\ \A b \in g : b \in {CF, AF, ZF}
      /\ \A b \in h : b \in {CF, AF, ZF}
  BY DEF Flags
<1>3. /\ \A y, z : Bits(And(y, z)) = Bits(y) \cap Bits(z)
      /\ \A y, z : Bits(Or(y, z)) = Bits(y) \cup Bits(z)
  BY Bitwise
<1>4. /\ Bits(H01) = {0} /\ Bits(H10) = {4} /\ Bits(H40) = {6} /\ Bits(H6A) = {1, 3, 5, 6}
      /\ Bits(HBF) = {0, 1, 2, 3, 4, 5, 7} /\ Bits(HFE) = {1, 2, 3, 4, 5, 6, 7}
  BY Masks
<1>5. Bits(Or(And(Saved(h), H6A), And(Saved(g), H01))) \cap Flags
        = (h \cap {ZF}) \cup (g \cap {CF})
  <2>1. Bits(Or(And(Saved(h), H6A), And(Saved(g), H01)))
          = (Bits(Saved(h)) \cap Bits(H6A)) \cup (Bits(Saved(g)) \cap Bits(H01))
    BY <1>3
  <2>2. Bits(Or(And(Saved(h), H6A), And(Saved(g), H01)))
          = (({1} \cup h) \cap {1, 3, 5, 6}) \cup (({1} \cup g) \cap {0})
    BY <1>1, <1>4, <2>1, Zenon
  <2>3. ((({1} \cup h) \cap {1, 3, 5, 6}) \cup (({1} \cup g) \cap {0})) \cap Flags
          = (h \cap {ZF}) \cup (g \cap {CF})
    BY <1>2 DEF Flags, CF, AF, ZF
  <2> QED  BY <2>2, <2>3, Zenon
<1>6. Bits(Or(And(Saved(h), HFE), Or(And(Saved(g), H01), H10))) \cap Flags
        = (h \cap {ZF}) \cup (g \cap {CF}) \cup {AF}
  <2>1. Bits(Or(And(Saved(h), HFE), Or(And(Saved(g), H01), H10)))
          = (Bits(Saved(h)) \cap Bits(HFE)) \cup ((Bits(Saved(g)) \cap Bits(H01)) \cup Bits(H10))
    BY <1>3
  <2>2. Bits(Or(And(Saved(h), HFE), Or(And(Saved(g), H01), H10)))
          = (({1} \cup h) \cap {1, 2, 3, 4, 5, 6, 7}) \cup ((({1} \cup g) \cap {0}) \cup {4})
    BY <1>1, <1>4, <2>1, Zenon
  <2>3. ((({1} \cup h) \cap {1, 2, 3, 4, 5, 6, 7}) \cup ((({1} \cup g) \cap {0}) \cup {4})) \cap Flags
          = (h \cap {ZF}) \cup (g \cap {CF}) \cup {AF}
    BY <1>2 DEF Flags, CF, AF, ZF
  <2> QED  BY <2>2, <2>3, Zenon
<1>7. Bits(Or(And(Saved(h), HBF), And(Saved(g), H40))) \cap Flags
        = (h \ {ZF}) \cup (g \cap {ZF})
  <2>1. Bits(Or(And(Saved(h), HBF), And(Saved(g), H40)))
          = (Bits(Saved(h)) \cap Bits(HBF)) \cup (Bits(Saved(g)) \cap Bits(H40))
    BY <1>3
  <2>2. Bits(Or(And(Saved(h), HBF), And(Saved(g), H40)))
          = (({1} \cup h) \cap {0, 1, 2, 3, 4, 5, 7}) \cup (({1} \cup g) \cap {6})
    BY <1>1, <1>4, <2>1, Zenon
  <2>3. ((({1} \cup h) \cap {0, 1, 2, 3, 4, 5, 7}) \cup (({1} \cup g) \cap {6})) \cap Flags
          = (h \ {ZF}) \cup (g \cap {ZF})
    <3> DEFINE d == (({1} \cup h) \cap {0, 1, 2, 3, 4, 5, 7}) \cup (({1} \cup g) \cap {6})
    <3>1. \A b \in {CF, AF, ZF} : b \in d <=> b \in (h \ {ZF}) \cup (g \cap {ZF})
      BY DEF CF, AF, ZF
    <3>2. \A b \in (h \ {ZF}) \cup (g \cap {ZF}) : b \in {CF, AF, ZF}  BY <1>2
    <3> HIDE DEF d
    <3>3. d \cap Flags = (h \ {ZF}) \cup (g \cap {ZF})  BY <3>1, <3>2 DEF Flags
    <3> QED  BY <3>3 DEF d
  <2> QED  BY <2>2, <2>3, Zenon
<1> QED  BY <1>5, <1>6, <1>7

\* What a sum or a difference leaves of the flags is all of Sum's.
LEMMA SumsLeave ==
  ASSUME NEW o \in Additive \ {"inc", "dec", "cmp_imm"}, NEW s, NEW v, NEW n, NEW h, Leaves(h, o, s, v, n)
  PROVE  h = Sum(o, s, v, n).flags
<1>1. Defined(o) = Flags  BY DEF Defined
<1>2. FlagsOf(o, s, v, n, {}) = Sum(o, s, v, n).flags  BY SumFlags
<1>3. Sum(o, s, v, n).flags \in SUBSET Flags  BY SumLeaves
<1> QED  BY <1>1, <1>2, <1>3 DEF Leaves

\* An increment or a decrement leaves Sum's flags but CF.
LEMMA StepsLeave ==
  ASSUME NEW o \in {"inc", "dec"}, NEW s, NEW v, NEW n, NEW h, Leaves(h, o, s, v, n)
  PROVE  h = (Sum(o, s, v, n).flags \ {CF}) \cup (s.flags \cap {CF})
<1>1. Defined(o) = Flags  BY DEF Defined, Additive
<1>2. FlagsOf(o, s, v, n, {}) = (Sum(o, s, v, n).flags \ {CF}) \cup (s.flags \cap {CF})
  BY StepFlags
<1>3. Sum(o, s, v, n).flags \in SUBSET Flags  BY SumLeaves DEF Additive
<1> DEFINE d == (Sum(o, s, v, n).flags \ {CF}) \cup (s.flags \cap {CF})
<1>4. d \in SUBSET Flags  BY <1>3 DEF Flags
<1> HIDE DEF d
<1> QED  BY <1>1, <1>2, <1>4 DEF Leaves, d

\* Of a rotation's flags CF is defined.
LEMMA RotatesLeave ==
  ASSUME NEW o \in Rotates, NEW s, NEW v, NEW n, NEW h, Leaves(h, o, s, v, n)
  PROVE  h \cap {CF} = If(Out(o, v), CF)
<1>1. Defined(o) = {CF}  BY DEF Defined, Rotates, Additive
<1>2. FlagsOf(o, s, v, n, {}) = (s.flags \ {CF}) \cup If(Out(o, v), CF)
  BY RotateFlags
<1>3. h \cap {CF} = ((s.flags \ {CF}) \cup If(Out(o, v), CF)) \cap {CF}
  BY <1>1, <1>2 DEF Leaves
<1> QED  BY <1>3 DEF If

\* Of a shift's flags CF and ZF are defined.
LEMMA ShiftsLeave ==
  ASSUME NEW o \in Shifts, NEW s, NEW v, NEW n, NEW h, Leaves(h, o, s, v, n)
  PROVE  h \cap {CF, ZF} = If(Result(o, s, v, n) = 0, ZF) \cup If(Out(o, v), CF)
<1> DEFINE d == If(Result(o, s, v, n) = 0, ZF) \cup If(Out(o, v), CF)
<1>1. Defined(o) = {CF, ZF}  BY DEF Defined, Rotates, Shifts, Additive
<1>2. FlagsOf(o, s, v, n, {}) = d \cup ({} \cap {AF})
  BY ShiftFlags
<1>3. d \in SUBSET {CF, ZF}  BY DEF If
<1> HIDE DEF d
<1>4. (d \cup ({} \cap {AF})) \cap {CF, ZF} = d  BY <1>3
<1> QED  BY <1>1, <1>2, <1>4, Zenon DEF Leaves, d

\* Of a bitwise operation's flags ZF is defined.
LEMMA BitwisesLeave ==
  ASSUME NEW o \in Bitwises, NEW s, NEW v, NEW n, NEW h, Leaves(h, o, s, v, n)
  PROVE  h \cap {ZF} = If(Result(o, s, v, n) = 0, ZF)
<1> DEFINE d == If(Result(o, s, v, n) = 0, ZF)
<1>1. Defined(o) = {CF, ZF}  BY DEF Defined, Bitwises, Rotates, Additive
<1>2. FlagsOf(o, s, v, n, {}) = d \cup ({} \cap {AF})
  BY BitwiseFlags
<1>3. d \in SUBSET {ZF}  BY DEF If
<1>4. h \cap {CF, ZF} = FlagsOf(o, s, v, n, {}) \cap {CF, ZF}  BY <1>1 DEF Leaves
<1> HIDE DEF d
<1>5. h \cap {ZF} = (d \cup ({} \cap {AF})) \cap {ZF}  BY <1>2, <1>4
<1> QED  BY <1>3, <1>5 DEF d

\* A comparison with zero sets ZF if the operand is zero, also by hand.
LEMMA ZeroLeaves ==
  ASSUME NEW s, NEW v \in Byte, NEW h, Leaves(h, "cmp_imm", s, v, 0)
  PROVE  h \cap {ZF} = If(v = 0, ZF)
<1>1. Defined("cmp_imm") = {CF, ZF}  BY DEF Defined, Additive, Rotates
<1>2. FlagsOf("cmp_imm", s, v, 0, {}) = Carries(v - 0, Low(v) - Low(0))
  <2>1. "cmp_imm" \in Additive \ {"inc", "dec"}  BY DEF Additive
  <2>2. FlagsOf("cmp_imm", s, v, 0, {}) = Sum("cmp_imm", s, v, 0).flags  BY <2>1, SumFlags
  <2>3. Sum("cmp_imm", s, v, 0) = Summed(v, 0, -1, 0)  BY SumOf
  <2>4. Summed(v, 0, -1, 0).flags = Carries(v - 0, Low(v) - Low(0))
    <3>1. v \in Int /\ 0 \in Int  BY ByteOfBits
    <3> QED  BY <3>1, Plain
  <2> QED  BY <2>2, <2>3, <2>4, Zenon
<1>3. 0 \in Byte  BY HalfAssumption DEF Byte, B
<1>4. v = 0 <=> (v - 0) % B = 0  BY <1>3, HandCarries
<1>5. h \cap {CF, ZF} = Carries(v - 0, Low(v) - Low(0)) \cap {CF, ZF}
  BY <1>1, <1>2 DEF Leaves
<1> QED  BY <1>4, <1>5 DEF Carries, If, CF, AF, ZF

----------------------------------------------------------------------------
(* The templates, one by one, do what their guest instructions do           *)

\* The translation of add, adc, sub, sbc, cp, inc and dec, a single x86
\* instruction, does what the guest instruction does.
LEMMA ArithDone ==
  ASSUME NEW al \in Byte, NEW g \in SUBSET Flags, NEW v \in Byte, NEW w,
         NEW s, s = State(al, 0, g, v, w, <<>>),
         NEW i \in Arith, NEW at \in Places, at = "fault" => Mnemonic[i] \in Known \ {"sbb"},
         NEW junk
  PROVE  Observed(Run(ArithTemplate(i), s, at, junk)) = Observed(Guest(i, s, at, 0, junk))
<1> DEFINE t == ArithTemplate(i)
           o == Mnemonic[i]
           x == Operand(at, al, v)
           r == Result(o, s, x, 0)
<1>0. o \in Operations /\ o \in Additive \ {"cmp_imm"} /\ (o \in {"inc", "dec"} <=> i \in {"inc", "dec"})
      /\ (i \in {"inc", "dec"} => o = i) /\ i \in Operated
  BY Mnemonics DEF Arith, Operations, WithAl, InPlace, Additive, Operated
<1>1. Len(t) = 1 /\ t[1] = <<o, 0>>  BY DEF ArithTemplate
<1> HIDE DEF t
<1>2. PICK f : Runs(f, t, 1, s, at, junk)  BY <1>1, RunThrough
<1>3. Run(t, s, at, junk) = Exec(<<o, 0>>, s, at, junk)  BY <1>1, <1>2 DEF Runs
<1>4. 0 \in Byte  BY HalfAssumption DEF Byte, B
<1> HIDE DEF o, x
<1>5. PICK h : /\ Exec(<<o, 0>>, s, at, junk) = Done(o, at, r, al, 0, h, v, w, <<>>)
               /\ Leaves(h, o, s, x, 0)
  <2>1. x = Operand(at, al, v) /\ (at = "fault" => o \in Known \ {"sbb"})  BY DEF o, x
  <2>2. Performed(Exec(<<o, 0>>, s, at, junk), o, 0, at, s, x, al, 0, v, w, <<>>)
    BY <1>0, <1>4, <2>1, OperandStep
  <2> QED  BY <2>2 DEF Performed
<1>6. h = GuestFlags(i, s, x, 0, junk)
  <2>1. CASE i \in {"inc", "dec"}
    <3>1. h = (Sum(i, s, x, 0).flags \ {CF}) \cup (s.flags \cap {CF})
      BY <1>0, <1>5, <2>1, StepsLeave
    <3>2. GuestFlags(i, s, x, 0, junk) = (Sum(i, s, x, 0).flags \ {CF}) \cup (s.flags \cap {CF})
      BY <2>1 DEF GuestFlags, Arith, Logic, RotateA, Rotate, Shift
    <3> QED  BY <3>1, <3>2, Zenon
  <2>2. CASE i \notin {"inc", "dec"}
    <3>1. h = Sum(o, s, x, 0).flags
      BY <1>0, <1>5, <2>2, SumsLeave
    <3>2. GuestFlags(i, s, x, 0, junk) = Sum(o, s, x, 0).flags
      BY <2>2 DEF GuestFlags, Arith, Logic, RotateA, Rotate, Shift, o
    <3> QED  BY <3>1, <3>2, Zenon
  <2> QED  BY <2>1, <2>2
<1>7. r = GuestResult(i, s, x, 0)  BY DEF GuestResult, Arith, o
<1>8. Observed(Guest(i, s, at, 0, junk)) = Done(o, at, r, al, 0, h, v, w, <<>>)
  BY <1>0, <1>6, <1>7, GuestDone DEF o, x
<1>9. Observed(Done(o, at, r, al, 0, h, v, w, <<>>)) = Done(o, at, r, al, 0, h, v, w, <<>>)
  BY Seen DEF Done, LeftAl, LeftMem
<1> QED  BY <1>3, <1>5, <1>8, <1>9 DEF t

\* The translation of and, xor and or does what the guest instruction does:
\* it sets AF.
LEMMA LogicDone ==
  ASSUME NEW al \in Byte, NEW g \in SUBSET Flags, NEW v \in Byte, NEW w,
         NEW s, s = State(al, 0, g, v, w, <<>>),
         NEW i \in Logic, NEW at \in Places, at = "fault" => Mnemonic[i] \in Known \ {"sbb"},
         NEW junk
  PROVE  Observed(Run(LogicTemplate(i), s, at, junk)) = Observed(Guest(i, s, at, 0, junk))
<1> DEFINE t == LogicTemplate(i)
           o == Mnemonic[i]
           x == Operand(at, al, v)
           r == Result(o, s, x, 0)
           a == LeftAl(o, at, r, al)
           m == LeftMem(o, at, r, v)
<1>1. /\ o \in Operations /\ o \in Bitwises /\ i \in Operated
      /\ at = "fault" => o \in Known \ {"sbb"}
  BY Mnemonics DEF Logic, Operations, WithAl, Bitwises, Operated
<1>2. Len(t) = 5 /\ t[1] = <<o, 0>> /\ t[2] = Lahf /\ t[3] = AndAh(H6A) /\ t[4] = OrAh(H10)
      /\ t[5] = Sahf
  BY DEF LogicTemplate
<1> HIDE DEF t, o, a, m
<1>3. PICK f : Runs(f, t, 5, s, at, junk)  BY <1>2, RunThrough
<1>4. /\ f[1] = Exec(<<o, 0>>, s, at, junk)      /\ f[2] = Exec(Lahf, f[1], at, junk)
      /\ f[3] = Exec(AndAh(H6A), f[2], at, junk) /\ f[4] = Exec(OrAh(H10), f[3], at, junk)
      /\ f[5] = Exec(Sahf, f[4], at, junk)       /\ Run(t, s, at, junk) = f[5]
  BY <1>2, <1>3 DEF Runs
<1>5. PICK h : /\ Exec(<<o, 0>>, s, at, junk) = Done(o, at, r, al, 0, h, v, w, <<>>)
               /\ Leaves(h, o, s, x, 0)
  <2>1. 0 \in Byte  BY HalfAssumption DEF Byte, B
  <2>2. x = Operand(at, al, v)  OBVIOUS
  <2> HIDE DEF x
  <2>3. Performed(Exec(<<o, 0>>, s, at, junk), o, 0, at, s, x, al, 0, v, w, <<>>)
    BY <1>1, <2>1, <2>2, OperandStep
  <2> QED  BY <2>3 DEF Performed
<1> DEFINE e == (h \cap {ZF}) \cup {AF}
           q == Or(And(Saved(h), H6A), H10)
<1>6. e = GuestFlags(i, s, x, 0, junk) /\ r = GuestResult(i, s, x, 0)
  <2> HIDE DEF x
  <2>1. h \cap {ZF} = If(r = 0, ZF)  BY <1>1, <1>5, BitwisesLeave
  <2>2. r = GuestResult(i, s, x, 0)  BY DEF GuestResult, Logic, o
  <2>3. GuestFlags(i, s, x, 0, junk) = If(GuestResult(i, s, x, 0) = 0, ZF) \cup {AF}
    BY DEF GuestFlags, Arith, Logic, RotateA, Rotate, Shift
  <2> QED  BY <2>1, <2>2, <2>3, Zenon
<1>7. Observed(Guest(i, s, at, 0, junk)) = State(a, 0, e, m, w, <<>>)
  <2> HIDE DEF e, r
  <2> QED  BY <1>1, <1>6, GuestDone DEF o, Done, a, m
<1> HIDE DEF r, x
<1>8. h \in SUBSET Flags  BY <1>5 DEF Leaves
<1>9. Bits(q) \cap Flags = e  BY <1>8, Masked
<1> HIDE DEF e
<1>10. f[5] = State(a, q, e, m, w, <<>>)
  <2>1. f[1] = State(a, 0, h, m, w, <<>>)  BY <1>4, <1>5 DEF Done, a, m
  <2>2. f[2] = State(a, Saved(h), h, m, w, <<>>)  BY <1>4, <2>1, LahfStep
  <2>3. f[3] = State(a, And(Saved(h), H6A), h, m, w, <<>>)  BY <1>4, <2>2, AndAhStep
  <2>4. f[4] = State(a, q, h, m, w, <<>>)  BY <1>4, <2>3, OrAhStep
  <2>5. f[5] = State(a, q, Bits(q) \cap Flags, m, w, <<>>)  BY <1>4, <2>4, SahfStep
  <2> QED  BY <1>9, <2>5, Zenon
<1> HIDE DEF q
<1> QED  BY <1>4, <1>7, <1>10, Seen DEF t

\* The translation of rlca, rrca, rla and rra does what the guest instruction
\* does: it clears ZF and AF.
LEMMA RotateADone ==
  ASSUME NEW al \in Byte, NEW g \in SUBSET Flags, NEW v \in Byte, NEW w,
         NEW s, s = State(al, 0, g, v, w, <<>>), NEW junk,
         NEW i \in RotateA, NEW at, at = "al"
  PROVE  Observed(Run(RotateATemplate(i), s, at, junk)) = Observed(Guest(i, s, at, 0, junk))
<1> DEFINE t == RotateATemplate(i)
           o == Mnemonic[i]
           x == Operand(at, al, v)
           r == Result(o, s, x, 0)
           a == LeftAl(o, at, r, al)
           m == LeftMem(o, at, r, v)
<1>1. /\ o \in Operations /\ o \in Rotates /\ i \in Operated /\ at \in Places
      /\ at = "fault" => o \in Known \ {"sbb"}
  BY Mnemonics DEF RotateA, Operations, InPlace, Rotates, Operated, Places
<1>2. Len(t) = 4 /\ t[1] = <<o, 0>> /\ t[2] = Lahf /\ t[3] = AndAh(H2B) /\ t[4] = Sahf
  BY DEF RotateATemplate
<1> HIDE DEF t, o, a, m
<1>3. PICK f : Runs(f, t, 4, s, at, junk)  BY <1>2, RunThrough
<1>4. /\ f[1] = Exec(<<o, 0>>, s, at, junk)  /\ f[2] = Exec(Lahf, f[1], at, junk)
      /\ f[3] = Exec(AndAh(H2B), f[2], at, junk) /\ f[4] = Exec(Sahf, f[3], at, junk)
      /\ Run(t, s, at, junk) = f[4]
  BY <1>2, <1>3 DEF Runs
<1>5. PICK h : /\ Exec(<<o, 0>>, s, at, junk) = Done(o, at, r, al, 0, h, v, w, <<>>)
               /\ Leaves(h, o, s, x, 0)
  <2>1. 0 \in Byte  BY HalfAssumption DEF Byte, B
  <2>2. x = Operand(at, al, v)  OBVIOUS
  <2> HIDE DEF x
  <2>3. Performed(Exec(<<o, 0>>, s, at, junk), o, 0, at, s, x, al, 0, v, w, <<>>)
    BY <1>1, <2>1, <2>2, OperandStep
  <2> QED  BY <2>3 DEF Performed
<1> DEFINE e == h \cap {CF}
           q == And(Saved(h), H2B)
<1>6. e = GuestFlags(i, s, x, 0, junk) /\ r = GuestResult(i, s, x, 0)
  <2> HIDE DEF x
  <2>1. e = If(Out(o, x), CF)  BY <1>1, <1>5, RotatesLeave
  <2>2. r = GuestResult(i, s, x, 0)  BY DEF GuestResult, RotateA, o
  <2>3. GuestFlags(i, s, x, 0, junk) = If(Out(o, x), CF)
    BY DEF GuestFlags, Arith, Logic, RotateA, Rotate, Shift, o
  <2> QED  BY <2>1, <2>2, <2>3, Zenon
<1>7. Observed(Guest(i, s, at, 0, junk)) = State(a, 0, e, m, w, <<>>)
  <2> HIDE DEF e, r
  <2> QED  BY <1>1, <1>6, GuestDone DEF o, Done, a, m
<1> HIDE DEF r, x
<1>8. h \in SUBSET Flags  BY <1>5 DEF Leaves
<1>9. Bits(q) \cap Flags = e  BY <1>8, Masked
<1> HIDE DEF e
<1>10. f[4] = State(a, q, e, m, w, <<>>)
  <2>1. f[1] = State(a, 0, h, m, w, <<>>)  BY <1>4, <1>5 DEF Done, a, m
  <2>2. f[2] = State(a, Saved(h), h, m, w, <<>>)  BY <1>4, <2>1, LahfStep
  <2>3. f[3] = State(a, q, h, m, w, <<>>)  BY <1>4, <2>2, AndAhStep
  <2>4. f[4] = State(a, q, Bits(q) \cap Flags, m, w, <<>>)  BY <1>4, <2>3, SahfStep
  <2> QED  BY <1>9, <2>4, Zenon
<1> HIDE DEF q
<1> QED  BY <1>4, <1>7, <1>10, Seen DEF t

\* The translation of sla, sra and srl does what the guest instruction does: it
\* clears AF, which x86 leaves undefined.
LEMMA ShiftDone ==
  ASSUME NEW al \in Byte, NEW g \in SUBSET Flags, NEW v \in Byte, NEW w,
         NEW s, s = State(al, 0, g, v, w, <<>>), NEW junk,
         NEW i \in Shift, NEW at \in Places,
         at = "fault" => Mnemonic[i] \in Known \ {"sbb"}
  PROVE  Observed(Run(ShiftCb(i), s, at, junk)) = Observed(Guest(i, s, at, 0, junk))
<1> DEFINE t == ShiftCb(i)
           o == Mnemonic[i]
           x == Operand(at, al, v)
           r == Result(o, s, x, 0)
           a == LeftAl(o, at, r, al)
           m == LeftMem(o, at, r, v)
<1>1. /\ o \in Operations /\ o \in Shifts /\ i \in Operated /\ at \in Places
      /\ at = "fault" => o \in Known \ {"sbb"}
  BY Mnemonics DEF Shift, Operations, InPlace, Shifts, Operated, Places
<1>2. Len(t) = 4 /\ t[1] = <<o, 0>> /\ t[2] = Lahf /\ t[3] = AndAh(HEF) /\ t[4] = Sahf
  BY DEF ShiftCb
<1> HIDE DEF t, o, a, m
<1>3. PICK f : Runs(f, t, 4, s, at, junk)  BY <1>2, RunThrough
<1>4. /\ f[1] = Exec(<<o, 0>>, s, at, junk)  /\ f[2] = Exec(Lahf, f[1], at, junk)
      /\ f[3] = Exec(AndAh(HEF), f[2], at, junk) /\ f[4] = Exec(Sahf, f[3], at, junk)
      /\ Run(t, s, at, junk) = f[4]
  BY <1>2, <1>3 DEF Runs
<1>5. PICK h : /\ Exec(<<o, 0>>, s, at, junk) = Done(o, at, r, al, 0, h, v, w, <<>>)
               /\ Leaves(h, o, s, x, 0)
  <2>1. 0 \in Byte  BY HalfAssumption DEF Byte, B
  <2>2. x = Operand(at, al, v)  OBVIOUS
  <2> HIDE DEF x
  <2>3. Performed(Exec(<<o, 0>>, s, at, junk), o, 0, at, s, x, al, 0, v, w, <<>>)
    BY <1>1, <2>1, <2>2, OperandStep
  <2> QED  BY <2>3 DEF Performed
<1> DEFINE e == h \cap {CF, ZF}
           q == And(Saved(h), HEF)
<1>6. e = GuestFlags(i, s, x, 0, junk) /\ r = GuestResult(i, s, x, 0)
  <2> HIDE DEF x
  <2>1. e = If(r = 0, ZF) \cup If(Out(o, x), CF)  BY <1>1, <1>5, ShiftsLeave
  <2>2. r = GuestResult(i, s, x, 0)  BY DEF GuestResult, Shift, o
  <2>3. GuestFlags(i, s, x, 0, junk) = If(GuestResult(i, s, x, 0) = 0, ZF) \cup If(Out(o, x), CF)
    BY DEF GuestFlags, Arith, Logic, RotateA, Rotate, Shift, o
  <2> QED  BY <2>1, <2>2, <2>3, Zenon
<1>7. Observed(Guest(i, s, at, 0, junk)) = State(a, 0, e, m, w, <<>>)
  <2> HIDE DEF e, r
  <2> QED  BY <1>1, <1>6, GuestDone DEF o, Done, a, m
<1> HIDE DEF r, x
<1>8. h \in SUBSET Flags  BY <1>5 DEF Leaves
<1>9. Bits(q) \cap Flags = e  BY <1>8, Masked
<1> HIDE DEF e
<1>10. f[4] = State(a, q, e, m, w, <<>>)
  <2>1. f[1] = State(a, 0, h, m, w, <<>>)  BY <1>4, <1>5 DEF Done, a, m
  <2>2. f[2] = State(a, Saved(h), h, m, w, <<>>)  BY <1>4, <2>1, LahfStep
  <2>3. f[3] = State(a, q, h, m, w, <<>>)  BY <1>4, <2>2, AndAhStep
  <2>4. f[4] = State(a, q, Bits(q) \cap Flags, m, w, <<>>)  BY <1>4, <2>3, SahfStep
  <2> QED  BY <1>9, <2>4, Zenon
<1> HIDE DEF q
<1> QED  BY <1>4, <1>7, <1>10, Seen DEF t

\* The test of an operand finds whether it is zero.
Tested(after, at, a, ah, m, w, k) ==
  \E h : /\ after = State(a, ah, h, m, w, k) /\ h \in SUBSET Flags
         /\ h \cap {ZF} = If(Operand(at, a, m) = 0, ZF)

\* TestOperand sets ZF by the operand, wherever it is, and changes flags only.
LEMMA TestStep ==
  ASSUME NEW a \in Byte, NEW ah, NEW h \in SUBSET Flags, NEW m \in Byte, NEW w, NEW k,
         NEW at \in Places, NEW junk
  PROVE  Tested(Exec(TestOperand(at), State(a, ah, h, m, w, k), at, junk), at, a, ah, m, w, k)
<1> DEFINE o == IF at \in {"mapped", "fault"} THEN "cmp_imm" ELSE "test_self"
           x == Operand(at, a, m)
           s == State(a, ah, h, m, w, k)
<1>1. TestOperand(at) = <<o, 0>>  BY DEF TestOperand
<1>2. o \in {"cmp_imm", "test_self"}  OBVIOUS
<1>3. at = "fault" => o \in Known \ {"sbb"}  BY DEF Known
<1>4. 0 \in Byte /\ x \in Byte  BY HalfAssumption DEF Byte, B, Operand
<1>5. s = State(a, ah, h, m, w, k) /\ x = Operand(at, a, m)  OBVIOUS
<1> HIDE DEF o, x, s
<1>6. o \in Operations /\ o \in Compares  BY <1>2 DEF Operations, WithImm, Compares
<1>7. Performed(Exec(<<o, 0>>, s, at, junk), o, 0, at, s, x, a, ah, m, w, k)
  BY <1>3, <1>4, <1>5, <1>6, OperandStep
<1>8. PICK d : /\ Exec(<<o, 0>>, s, at, junk)
                    = Done(o, at, Result(o, s, x, 0), a, ah, d, m, w, k)
               /\ Leaves(d, o, s, x, 0)
  BY <1>7 DEF Performed
<1>9. Exec(<<o, 0>>, s, at, junk) = State(a, ah, d, m, w, k)
  BY <1>6, <1>8 DEF Done, LeftAl, LeftMem
<1>10. d \in SUBSET Flags  BY <1>8 DEF Leaves
<1>11. d \cap {ZF} = If(x = 0, ZF)
  <2>1. CASE o = "cmp_imm"  BY <1>4, <1>8, <2>1, ZeroLeaves
  <2>2. CASE o = "test_self"
    <3>1. o \in Bitwises  BY <2>2 DEF Bitwises
    <3>2. Result(o, s, x, 0) = x  BY <2>2 DEF Result, Additive
    <3>3. d \cap {ZF} = If(Result(o, s, x, 0) = 0, ZF)  BY <1>8, <3>1, BitwisesLeave
    <3> QED  BY <3>2, <3>3
  <2> QED  BY <1>2, <2>1, <2>2
<1> QED  BY <1>1, <1>5, <1>9, <1>10, <1>11 DEF Tested

\* The translation of swap does what the guest instruction does: ZF is set by
\* the result, the other flags are cleared.
LEMMA SwapDone ==
  ASSUME NEW al \in Byte, NEW g \in SUBSET Flags, NEW v \in Byte, NEW w,
         NEW s, s = State(al, 0, g, v, w, <<>>), NEW junk,
         NEW at \in Places, at # "fault"
  PROVE  Observed(Run(SwapCb(at), s, at, junk)) = Observed(Guest("swap", s, at, 0, junk))
<1> DEFINE t == SwapCb(at)
           o == "rol_half"
           x == Operand(at, al, v)
           r == Result(o, s, x, 0)
           a == LeftAl(o, at, r, al)
           m == LeftMem(o, at, r, v)
<1>1. /\ o \in Operations /\ o \notin WithAl \cup Compares /\ "swap" \in Operated
      /\ Mnemonic["swap"] = o
  BY Mnemonics DEF Operations, InPlace, WithAl, Compares, Operated
<1>2. Len(t) = 5 /\ t[1] = <<o, 0>> /\ t[2] = TestOperand(at) /\ t[3] = Lahf
      /\ t[4] = AndAh(H40) /\ t[5] = Sahf
  BY DEF SwapCb
<1>3. 0 \in Byte /\ x \in Byte  BY HalfAssumption DEF Byte, B, Operand
<1>4. x = Operand(at, al, v)  OBVIOUS
<1> HIDE DEF t, o, x, r, a, m
<1>5. r \in Byte
  <2>1. s.al \in Byte  BY Parts
  <2> QED  BY <1>1, <1>3, <2>1, ResultByte DEF r
<1>6. a \in Byte /\ m \in Byte /\ Operand(at, a, m) = r
  BY <1>1, <1>5, DoneParts DEF a, m
<1>7. PICK f : Runs(f, t, 5, s, at, junk)  BY <1>2, RunThrough
<1>8. /\ f[1] = Exec(<<o, 0>>, s, at, junk)  /\ f[2] = Exec(TestOperand(at), f[1], at, junk)
      /\ f[3] = Exec(Lahf, f[2], at, junk) /\ f[4] = Exec(AndAh(H40), f[3], at, junk)
      /\ f[5] = Exec(Sahf, f[4], at, junk) /\ Run(t, s, at, junk) = f[5]
  BY <1>2, <1>7 DEF Runs
<1>9. PICK h : /\ Exec(<<o, 0>>, s, at, junk) = Done(o, at, r, al, 0, h, v, w, <<>>)
               /\ Leaves(h, o, s, x, 0)
  <2>1. Performed(Exec(<<o, 0>>, s, at, junk), o, 0, at, s, x, al, 0, v, w, <<>>)
    BY <1>1, <1>3, <1>4, OperandStep
  <2> QED  BY <2>1 DEF Performed, r
<1>10. f[1] = State(a, 0, h, m, w, <<>>) /\ h \in SUBSET Flags
  BY <1>8, <1>9 DEF Done, a, m, Leaves
<1>11. Tested(f[2], at, a, 0, m, w, <<>>)  BY <1>6, <1>8, <1>10, TestStep
<1>12. PICK d : f[2] = State(a, 0, d, m, w, <<>>) /\ d \in SUBSET Flags /\ d \cap {ZF} = If(r = 0, ZF)
  BY <1>6, <1>11 DEF Tested
<1> DEFINE e == If(r = 0, ZF)
           q == And(Saved(d), H40)
<1>13. Bits(q) \cap Flags = e  BY <1>12, Masked
<1>14. r = GuestResult("swap", s, x, 0)  BY <1>1 DEF GuestResult, r
<1>15. GuestFlags("swap", s, x, 0, junk) = If(GuestResult("swap", s, x, 0) = 0, ZF)
  BY DEF GuestFlags, Arith, Logic, RotateA, Rotate, Shift
<1>16. Observed(Guest("swap", s, at, 0, junk)) = State(a, 0, e, m, w, <<>>)
  <2>1. Observed(Guest("swap", s, at, 0, junk))
          = Done(o, at, GuestResult("swap", s, x, 0), al, 0, GuestFlags("swap", s, x, 0, junk), v, w, <<>>)
    BY <1>1, <1>4, GuestDone
  <2> QED  BY <1>14, <1>15, <2>1 DEF Done, a, m
<1> HIDE DEF e
<1>17. f[5] = State(a, q, e, m, w, <<>>)
  <2>1. f[3] = State(a, Saved(d), d, m, w, <<>>)  BY <1>8, <1>12, LahfStep
  <2>2. f[4] = State(a, q, d, m, w, <<>>)  BY <1>8, <2>1, AndAhStep
  <2>3. f[5] = State(a, q, Bits(q) \cap Flags, m, w, <<>>)  BY <1>8, <2>2, SahfStep
  <2> QED  BY <1>13, <2>3, Zenon
<1> HIDE DEF q
<1> QED  BY <1>8, <1>16, <1>17, Seen DEF t

\* The carry that a template keeps in AL is a byte.
LEMMA CarryByte ==
  ASSUME NEW g \in SUBSET Flags
  PROVE  And(Saved(g), H01) \in Byte
<1>1. Bits(Saved(g)) \cap Bits(H01) \in SUBSET {0}  BY Masks
<1>2. \A bits \in SUBSET {0} : bits \in SUBSET ByteBits  BY BitsInRow
<1> QED  BY <1>1, <1>2, ByteOfBits DEF And

\* The translation of rlc, rrc, rl and rr does what the guest instruction does:
\* it sets ZF by the result and brings CF over that test.
LEMMA RotateDone ==
  ASSUME NEW al \in Byte, NEW g \in SUBSET Flags, NEW v \in Byte, NEW w,
         NEW s, s = State(al, 0, g, v, w, <<>>), NEW junk,
         NEW i \in Rotate, NEW at \in Places, at # "al",
         at = "fault" => Mnemonic[i] \in Known \ {"sbb"}
  PROVE  Observed(Run(RotateCb(i, at), s, at, junk)) = Observed(Guest(i, s, at, 0, junk))
<1> DEFINE t == RotateCb(i, at)
           o == Mnemonic[i]
           x == Operand(at, al, v)
           r == Result(o, s, x, 0)
           a == LeftAl(o, at, r, al)
           m == LeftMem(o, at, r, v)
<1>1. /\ o \in Operations /\ o \in Rotates /\ o \notin WithAl \cup Compares /\ i \in Operated
      /\ at = "fault" => o \in Known \ {"sbb"}
  BY Mnemonics DEF Rotate, Rotates, Operations, InPlace, WithAl, Compares, Operated
<1>2. Len(t) = 11 /\ t[1] = <<o, 0>> /\ t[2] = PushEax /\ t[3] = Lahf /\ t[4] = MovAlAh
      /\ t[5] = AndAl(H01) /\ t[6] = TestOperand(at) /\ t[7] = Lahf /\ t[8] = AndAh(H6A)
      /\ t[9] = OrAhAl /\ t[10] = Sahf /\ t[11] = PopEax
  BY DEF RotateCb
<1>3. 0 \in Byte /\ x \in Byte  BY HalfAssumption DEF Byte, B, Operand
<1>4. x = Operand(at, al, v)  OBVIOUS
<1> HIDE DEF t, o, x, r, a, m
<1>5. r \in Byte
  <2>1. s.al \in Byte  BY Parts
  <2> QED  BY <1>1, <1>3, <2>1, ResultByte DEF r
<1>6. a \in Byte /\ m \in Byte /\ m = r
  <2>1. Operand(at, a, m) = m  BY DEF Operand
  <2> QED  BY <1>1, <1>5, <2>1, DoneParts DEF a, m
<1>7. PICK f : Runs(f, t, 11, s, at, junk)  BY <1>2, RunThrough
<1>8. /\ f[1] = Exec(<<o, 0>>, s, at, junk) /\ f[2] = Exec(PushEax, f[1], at, junk)
      /\ f[3] = Exec(Lahf, f[2], at, junk)  /\ f[4] = Exec(MovAlAh, f[3], at, junk)
      /\ f[5] = Exec(AndAl(H01), f[4], at, junk) /\ f[6] = Exec(TestOperand(at), f[5], at, junk)
      /\ f[7] = Exec(Lahf, f[6], at, junk)   /\ f[8] = Exec(AndAh(H6A), f[7], at, junk)
      /\ f[9] = Exec(OrAhAl, f[8], at, junk) /\ f[10] = Exec(Sahf, f[9], at, junk)
      /\ f[11] = Exec(PopEax, f[10], at, junk) /\ Run(t, s, at, junk) = f[11]
  BY <1>2, <1>7 DEF Runs
<1>9. PICK h : /\ Exec(<<o, 0>>, s, at, junk) = Done(o, at, r, al, 0, h, v, w, <<>>)
               /\ Leaves(h, o, s, x, 0)
  <2>1. Performed(Exec(<<o, 0>>, s, at, junk), o, 0, at, s, x, al, 0, v, w, <<>>)
    BY <1>1, <1>3, <1>4, OperandStep
  <2> QED  BY <2>1 DEF Performed, r
<1>10. f[1] = State(a, 0, h, m, w, <<>>) /\ h \in SUBSET Flags
  BY <1>8, <1>9 DEF Done, a, m, Leaves
<1> DEFINE p == OnStack(a, 0, <<>>)
           c == And(Saved(h), H01)
<1>11. c \in Byte  BY <1>10, CarryByte
<1> HIDE DEF c, p
<1>12. f[5] = State(c, Saved(h), h, m, w, p)
  <2>1. f[2] = State(a, 0, h, m, w, p)  BY <1>8, <1>10, PushStep DEF p
  <2>2. f[3] = State(a, Saved(h), h, m, w, p)  BY <1>8, <2>1, LahfStep
  <2>3. f[4] = State(Saved(h), Saved(h), h, m, w, p)  BY <1>8, <2>2, MovAlAhStep
  <2> QED  BY <1>8, <2>3, AndAlStep DEF c
<1>13. Tested(f[6], at, c, Saved(h), m, w, p)  BY <1>6, <1>8, <1>10, <1>11, <1>12, TestStep
<1>14. PICK d : f[6] = State(c, Saved(h), d, m, w, p) /\ d \in SUBSET Flags
                /\ d \cap {ZF} = If(r = 0, ZF)
  <2>1. Operand(at, c, m) = r  BY <1>6 DEF Operand
  <2> QED  BY <1>13, <2>1 DEF Tested
<1> DEFINE e == (d \cap {ZF}) \cup (h \cap {CF})
           q == Or(And(Saved(d), H6A), c)
<1>15. Bits(q) \cap Flags = e  BY <1>10, <1>14, MaskedTwice DEF c
<1>16. e = If(r = 0, ZF) \cup If(Out(o, x), CF)
  BY <1>1, <1>9, <1>14, RotatesLeave
<1>17. r = GuestResult(i, s, x, 0)  BY DEF GuestResult, Rotate, o, r
<1>18. GuestFlags(i, s, x, 0, junk) = If(GuestResult(i, s, x, 0) = 0, ZF) \cup If(Out(o, x), CF)
  BY DEF GuestFlags, Arith, Logic, RotateA, Rotate, Shift, o
<1> HIDE DEF e, q
<1>19. Observed(Guest(i, s, at, 0, junk)) = State(a, 0, e, m, w, <<>>)
  <2>1. Observed(Guest(i, s, at, 0, junk))
          = Done(o, at, GuestResult(i, s, x, 0), al, 0, GuestFlags(i, s, x, 0, junk), v, w, <<>>)
    BY <1>1, <1>4, GuestDone DEF o
  <2> QED  BY <1>16, <1>17, <1>18, <2>1 DEF Done, a, m
<1>20. f[11] = State(a, 0, e, m, w, <<>>)
  <2>1. f[7] = State(c, Saved(d), d, m, w, p)  BY <1>8, <1>14, LahfStep
  <2>2. f[8] = State(c, And(Saved(d), H6A), d, m, w, p)  BY <1>8, <2>1, AndAhStep
  <2>3. f[9] = State(c, q, d, m, w, p)  BY <1>8, <2>2, OrAhAlStep DEF q
  <2>4. f[10] = State(c, q, Bits(q) \cap Flags, m, w, p)  BY <1>8, <2>3, SahfStep
  <2>5. f[10] = State(c, q, e, m, w, p)  BY <1>15, <2>4, Zenon DEF q
  <2>6. a \in 0 .. 255 /\ 0 \in 0 .. 255 /\ <<>> \in Seq(Cells)  BY <1>6, ByteOfBits
  <2>7. OnTop(p, a, 0, <<>>)  BY <2>6, TopOfStack, Zenon DEF p
  <2> QED  BY <1>8, <2>5, <2>7, PopStep
<1> QED  BY <1>8, <1>19, <1>20, Seen DEF t

\* A mask with one bit set, and one with one bit clear.
LEMMA OneBit ==
  ASSUME NEW n \in ByteBits
  PROVE  /\ 2^n \in Byte /\ Bits(2^n) = {n}
         /\ B - 1 - 2^n \in Byte /\ Bits(B - 1 - 2^n) = ByteBits \ {n}
<1>1. n \in 0 .. 7 /\ {n} \in SUBSET (0 .. 7) /\ {} \in SUBSET (0 .. 7)  BY ByteOfBits
<1>2. ByteBits \in SUBSET (0 .. 7) /\ ByteBits \ {n} \in SUBSET (0 .. 7)  BY ByteOfBits
<1>3. Number({}) = 0  BY DEF Number
<1>4. 2^n \in Int
  <2>1. n \in {0, 1, 2, 3, 4, 5, 6, 7}  BY <1>1
  <2> QED  BY <2>1, Powers
<1>5. Number({n}) = 2^n
  <2>1. {} \cup {n} = {n} /\ n \notin {}  OBVIOUS
  <2>2. Number({} \cup {n}) = Number({}) + 2^n  BY <1>1, BitAdded
  <2> QED  BY <1>3, <1>4, <2>1, <2>2
<1>6. Number(ByteBits) = B - 1
  <2>1. CASE Half = 2   BY <2>1, Widths, Powers DEF Number
  <2>2. CASE Half = 4   BY <2>2, Widths, Powers DEF Number
  <2>3. CASE Half = 8   BY <2>3, Widths, Powers DEF Number
  <2>4. CASE Half = 16  BY <2>4, Widths, Powers DEF Number
  <2> QED  BY <2>1, <2>2, <2>3, <2>4, HalfAssumption
<1>7. Number(ByteBits \ {n}) = B - 1 - 2^n
  <2>1. (ByteBits \ {n}) \cup {n} = ByteBits /\ n \notin ByteBits \ {n}  OBVIOUS
  <2>2. Number((ByteBits \ {n}) \cup {n}) = Number(ByteBits \ {n}) + 2^n
    BY <1>1, <1>2, <2>1, BitAdded
  <2>3. Number(ByteBits \ {n}) \in Int  BY <1>2, BitsNumber
  <2> DEFINE z == Number(ByteBits \ {n})
             y == 2^n
  <2>4. B - 1 = z + y  BY <1>6, <2>1, <2>2, Zenon
  <2>5. z \in Int /\ y \in Int  BY <1>4, <2>3
  <2> HIDE DEF z, y
  <2>6. z = B - 1 - y  BY <2>4, <2>5, BitsInRow
  <2> QED  BY <2>6, Zenon DEF z, y
<1>8. {n} \in SUBSET ByteBits /\ ByteBits \ {n} \in SUBSET ByteBits  OBVIOUS
<1>9. 2^n \in Byte /\ B - 1 - 2^n \in Byte
  <2>1. Number({n}) \in Byte /\ Number(ByteBits \ {n}) \in Byte  BY <1>8, ByteOfBits
  <2> QED  BY <1>5, <1>7, <2>1
<1>10. Bits(Number({n})) = {n} /\ Bits(Number(ByteBits \ {n})) = ByteBits \ {n}
  BY <1>1, <1>2, BitsNumber
<1> QED  BY <1>5, <1>7, <1>9, <1>10

\* What these masks do to a byte.
LEMMA OneBitMasks ==
  ASSUME NEW n \in ByteBits, NEW v \in Byte
  PROVE  /\ And(v, 2^n) = 0 <=> n \notin Bits(v)
         /\ And(v, B - 1 - 2^n) = Number(Bits(v) \ {n})
         /\ Or(v, 2^n) = Number(Bits(v) \cup {n})
<1>1. Bits(2^n) = {n} /\ Bits(B - 1 - 2^n) = ByteBits \ {n}  BY OneBit
<1>2. Bits(v) \subseteq ByteBits  BY ByteOfBits
<1>3. Bits(0) = {} /\ Number({}) = 0
  <2>1. Number({}) = 0  BY DEF Number
  <2>2. Bits(Number({})) = {}  BY BitsNumber
  <2> QED  BY <2>1, <2>2
<1>4. And(v, 2^n) = 0 <=> n \notin Bits(v)
  <2>1. Bits(And(v, 2^n)) = Bits(v) \cap {n}  BY <1>1, Bitwise
  <2>2. ASSUME n \in Bits(v) PROVE And(v, 2^n) # 0  BY <1>3, <2>1, <2>2
  <2>3. ASSUME n \notin Bits(v) PROVE And(v, 2^n) = 0
    <3>1. Bits(v) \cap Bits(2^n) = {}  BY <1>1, <2>3
    <3> QED  BY <1>3, <3>1 DEF And
  <2> QED  BY <2>2, <2>3
<1>5. And(v, B - 1 - 2^n) = Number(Bits(v) \ {n})
  <2>1. Bits(v) \cap Bits(B - 1 - 2^n) = Bits(v) \ {n}  BY <1>1, <1>2
  <2> QED  BY <2>1, Zenon DEF And
<1>6. Or(v, 2^n) = Number(Bits(v) \cup {n})  BY <1>1, Zenon DEF Or
<1> QED  BY <1>4, <1>5, <1>6

\* The translation of bit does what the guest instruction does: CF is brought
\* over the test, and A comes back.
LEMMA BitDone ==
  ASSUME NEW al \in Byte, NEW g \in SUBSET Flags, NEW v \in Byte, NEW w,
         NEW s, s = State(al, 0, g, v, w, <<>>), NEW junk,
         NEW n \in ByteBits, NEW at \in Places
  PROVE  Observed(Run(BitCb(2^n), s, at, junk)) = Observed(Guest("bit", s, at, n, junk))
<1> DEFINE mask == 2^n
           t == BitCb(mask)
           o == "test_imm"
           x == Operand(at, al, v)
           y == State(al, Saved(g), g, v, w, <<>>)
<1>1. /\ o \in Operations /\ o \in Compares /\ o \in Bitwises /\ "bit" \in Operated
      /\ Mnemonic["bit"] = o /\ o \in Known \ {"sbb"}
  BY Mnemonics DEF Operations, WithImm, Compares, Operated, BitOps, Bitwises, Known
<1>2. mask \in Byte /\ x \in Byte  BY OneBit DEF Operand
<1>3. x = Operand(at, al, v) /\ y = State(al, Saved(g), g, v, w, <<>>)  OBVIOUS
<1>4. And(x, mask) = 0 <=> n \notin Bits(x)
  <2> HIDE DEF x
  <2> QED  BY <1>2, OneBitMasks
<1> HIDE DEF mask
<1>5. Len(t) = 11 /\ t[1] = Lahf /\ t[2] = <<o, mask>> /\ t[3] = PushEax /\ t[4] = MovAlAh
      /\ t[5] = Lahf /\ t[6] = AndAl(H01) /\ t[7] = AndAh(HFE) /\ t[8] = OrAlImm(H10)
      /\ t[9] = OrAhAl /\ t[10] = Sahf /\ t[11] = PopEax
  BY DEF BitCb
<1> HIDE DEF t, o, x, y
<1>6. PICK f : Runs(f, t, 11, s, at, junk)  BY <1>5, RunThrough
<1>7. /\ f[1] = Exec(Lahf, s, at, junk) /\ f[2] = Exec(<<o, mask>>, f[1], at, junk)
      /\ f[3] = Exec(PushEax, f[2], at, junk)  /\ f[4] = Exec(MovAlAh, f[3], at, junk)
      /\ f[5] = Exec(Lahf, f[4], at, junk) /\ f[6] = Exec(AndAl(H01), f[5], at, junk)
      /\ f[7] = Exec(AndAh(HFE), f[6], at, junk)   /\ f[8] = Exec(OrAlImm(H10), f[7], at, junk)
      /\ f[9] = Exec(OrAhAl, f[8], at, junk) /\ f[10] = Exec(Sahf, f[9], at, junk)
      /\ f[11] = Exec(PopEax, f[10], at, junk) /\ Run(t, s, at, junk) = f[11]
  BY <1>5, <1>6 DEF Runs
<1>8. f[1] = y  BY <1>3, <1>7, LahfStep
<1>9. PICK h : /\ f[2] = State(al, Saved(g), h, v, w, <<>>)
               /\ h \in SUBSET Flags
               /\ h \cap {ZF} = If(n \notin Bits(x), ZF)
  <2>1. Performed(Exec(<<o, mask>>, y, at, junk), o, mask, at, y, x, al, Saved(g), v, w, <<>>)
    BY <1>1, <1>2, <1>3, OperandStep
  <2>2. PICK h : /\ Exec(<<o, mask>>, y, at, junk)
                      = Done(o, at, Result(o, y, x, mask), al, Saved(g), h, v, w, <<>>)
                 /\ Leaves(h, o, y, x, mask)
    BY <2>1 DEF Performed
  <2>3. Exec(<<o, mask>>, y, at, junk) = State(al, Saved(g), h, v, w, <<>>)
    BY <1>1, <2>2 DEF Done, LeftAl, LeftMem
  <2>4. h \cap {ZF} = If(Result(o, y, x, mask) = 0, ZF)  BY <1>1, <2>2, BitwisesLeave
  <2>5. Result(o, y, x, mask) = And(x, mask)  BY DEF Result, Additive, o
  <2>6. h \cap {ZF} = If(n \notin Bits(x), ZF)  BY <1>4, <2>4, <2>5 DEF If
  <2>7. h \in SUBSET Flags  BY <2>2 DEF Leaves
  <2> QED  BY <1>7, <1>8, <2>3, <2>6, <2>7
<1> DEFINE c == And(Saved(g), H01)
           p == OnStack(al, Saved(g), <<>>)
           q == Or(And(Saved(h), HFE), Or(c, H10))
           e == (h \cap {ZF}) \cup (g \cap {CF}) \cup {AF}
<1>10. Bits(q) \cap Flags = e  BY <1>9, MaskedTwice
<1>11. e = GuestFlags("bit", s, x, n, junk)
  <2>1. s.flags = g  BY Parts
  <2>2. GuestFlags("bit", s, x, n, junk) = If(n \notin Bits(x), ZF) \cup (s.flags \cap {CF}) \cup {AF}
    BY DEF GuestFlags, Arith, Logic, RotateA, Rotate, Shift
  <2> QED  BY <1>9, <2>1, <2>2, Zenon
<1> HIDE DEF c, p, q, e
<1>12. Observed(Guest("bit", s, at, n, junk)) = State(al, 0, e, v, w, <<>>)
  <2>1. Observed(Guest("bit", s, at, n, junk))
          = Done(o, at, GuestResult("bit", s, x, n), al, 0, GuestFlags("bit", s, x, n, junk), v, w, <<>>)
    BY <1>1, <1>3, GuestDone
  <2> QED  BY <1>1, <1>11, <2>1 DEF Done, LeftAl, LeftMem
<1>13. f[11] = State(al, Saved(g), e, v, w, <<>>)
  <2>1. f[3] = State(al, Saved(g), h, v, w, p)  BY <1>7, <1>9, PushStep DEF p
  <2>2. f[4] = State(Saved(g), Saved(g), h, v, w, p)  BY <1>7, <2>1, MovAlAhStep
  <2>3. f[5] = State(Saved(g), Saved(h), h, v, w, p)  BY <1>7, <2>2, LahfStep
  <2>4. f[6] = State(c, Saved(h), h, v, w, p)  BY <1>7, <2>3, AndAlStep DEF c
  <2>5. f[7] = State(c, And(Saved(h), HFE), h, v, w, p)  BY <1>7, <2>4, AndAhStep
  <2>6. f[8] = State(Or(c, H10), And(Saved(h), HFE), h, v, w, p)  BY <1>7, <2>5, OrAlStep
  <2>7. f[9] = State(Or(c, H10), q, h, v, w, p)  BY <1>7, <2>6, OrAhAlStep DEF q
  <2>8. f[10] = State(Or(c, H10), q, Bits(q) \cap Flags, v, w, p)  BY <1>7, <2>7, SahfStep
  <2>9. f[10] = State(Or(c, H10), q, e, v, w, p)  BY <1>10, <2>8, Zenon
  <2>10. al \in 0 .. 255 /\ Saved(g) \in 0 .. 255 /\ <<>> \in Seq(Cells)
    <3>1. Saved(g) \in 0 .. 255  BY SavedBits
    <3>2. al \in 0 .. 255  BY ByteOfBits
    <3> QED  BY <3>1, <3>2
  <2>11. OnTop(p, al, Saved(g), <<>>)  BY <2>10, TopOfStack, Zenon DEF p
  <2> QED  BY <1>7, <2>9, <2>11, PopStep
<1> QED  BY <1>7, <1>12, <1>13, Seen DEF t, mask

\* The translation of res does what the guest instruction does: no flag changes.
LEMMA ResDone ==
  ASSUME NEW al \in Byte, NEW g \in SUBSET Flags, NEW v \in Byte, NEW w,
         NEW s, s = State(al, 0, g, v, w, <<>>), NEW junk,
         NEW n \in ByteBits, NEW at \in Places
  PROVE  Observed(Run(ResCb(2^n), s, at, junk)) = Observed(Guest("res", s, at, n, junk))
<1> DEFINE mask == B - 1 - 2^n
           t == ResCb(2^n)
           o == "and_imm"
           x == Operand(at, al, v)
           y == State(al, Saved(g), g, v, w, <<>>)
           r == Number(Bits(x) \ {n})
           a == LeftAl(o, at, r, al)
           m == LeftMem(o, at, r, v)
<1>1. /\ o \in Operations /\ "res" \in Operated /\ Mnemonic["res"] = o /\ o \in Known \ {"sbb"}
  BY Mnemonics DEF Operations, WithImm, Operated, BitOps, Known
<1>2. mask \in Byte /\ x \in Byte  BY OneBit DEF Operand
<1>3. x = Operand(at, al, v) /\ y = State(al, Saved(g), g, v, w, <<>>)  OBVIOUS
<1> HIDE DEF x
<1>4. Result(o, y, x, mask) = r
  <2>1. Result(o, y, x, mask) = And(x, mask)  BY DEF Result, Additive
  <2> QED  BY <1>2, <2>1, OneBitMasks
<1>5. Len(t) = 3 /\ t[1] = Lahf /\ t[2] = <<o, mask>> /\ t[3] = Sahf
  BY DEF ResCb
<1>6. GuestResult("res", s, x, n) = r  BY DEF GuestResult
<1> HIDE DEF t, o, y, r, a, m, mask
<1>7. PICK f : Runs(f, t, 3, s, at, junk)  BY <1>5, RunThrough
<1>8. /\ f[1] = Exec(Lahf, s, at, junk) /\ f[2] = Exec(<<o, mask>>, f[1], at, junk)
      /\ f[3] = Exec(Sahf, f[2], at, junk) /\ Run(t, s, at, junk) = f[3]
  BY <1>5, <1>7 DEF Runs
<1>9. f[1] = y  BY <1>3, <1>8, LahfStep
<1>10. PICK h : f[2] = State(a, Saved(g), h, m, w, <<>>)
  <2>1. Performed(Exec(<<o, mask>>, y, at, junk), o, mask, at, y, x, al, Saved(g), v, w, <<>>)
    BY <1>1, <1>2, <1>3, OperandStep
  <2> QED  BY <1>4, <1>8, <1>9, <2>1 DEF Performed, Done, a, m
<1>11. f[3] = State(a, Saved(g), g, m, w, <<>>)
  <2>1. f[3] = State(a, Saved(g), Bits(Saved(g)) \cap Flags, m, w, <<>>)
    BY <1>8, <1>10, SahfStep
  <2>2. Bits(Saved(g)) \cap Flags = g  BY Masked
  <2> QED  BY <2>1, <2>2, Zenon
<1>12. GuestFlags("res", s, x, n, junk) = g
  <2>1. s.flags = g  BY Parts
  <2> QED  BY <2>1 DEF GuestFlags, Arith, Logic, RotateA, Rotate, Shift
<1>13. Observed(Guest("res", s, at, n, junk)) = State(a, 0, g, m, w, <<>>)
  <2>1. Observed(Guest("res", s, at, n, junk))
          = Done(o, at, GuestResult("res", s, x, n), al, 0, GuestFlags("res", s, x, n, junk), v, w, <<>>)
    BY <1>1, <1>3, GuestDone
  <2> QED  BY <1>6, <1>12, <2>1 DEF Done, a, m
<1> QED  BY <1>8, <1>11, <1>13, Seen DEF t

\* The translation of set does what the guest instruction does: no flag changes.
LEMMA SetDone ==
  ASSUME NEW al \in Byte, NEW g \in SUBSET Flags, NEW v \in Byte, NEW w,
         NEW s, s = State(al, 0, g, v, w, <<>>), NEW junk,
         NEW n \in ByteBits, NEW at \in Places
  PROVE  Observed(Run(SetCb(2^n), s, at, junk)) = Observed(Guest("set", s, at, n, junk))
<1> DEFINE mask == 2^n
           t == SetCb(2^n)
           o == "or_imm"
           x == Operand(at, al, v)
           y == State(al, Saved(g), g, v, w, <<>>)
           r == Number(Bits(x) \cup {n})
           a == LeftAl(o, at, r, al)
           m == LeftMem(o, at, r, v)
<1>1. /\ o \in Operations /\ "set" \in Operated /\ Mnemonic["set"] = o /\ o \in Known \ {"sbb"}
  BY Mnemonics DEF Operations, WithImm, Operated, BitOps, Known
<1>2. mask \in Byte /\ x \in Byte  BY OneBit DEF Operand
<1>3. x = Operand(at, al, v) /\ y = State(al, Saved(g), g, v, w, <<>>)  OBVIOUS
<1> HIDE DEF x
<1>4. Result(o, y, x, mask) = r
  <2>1. Result(o, y, x, mask) = Or(x, mask)  BY DEF Result, Additive
  <2> QED  BY <1>2, <2>1, OneBitMasks
<1>5. Len(t) = 3 /\ t[1] = Lahf /\ t[2] = <<o, mask>> /\ t[3] = Sahf
  BY DEF SetCb
<1>6. GuestResult("set", s, x, n) = r  BY DEF GuestResult
<1> HIDE DEF t, o, y, r, a, m, mask
<1>7. PICK f : Runs(f, t, 3, s, at, junk)  BY <1>5, RunThrough
<1>8. /\ f[1] = Exec(Lahf, s, at, junk) /\ f[2] = Exec(<<o, mask>>, f[1], at, junk)
      /\ f[3] = Exec(Sahf, f[2], at, junk) /\ Run(t, s, at, junk) = f[3]
  BY <1>5, <1>7 DEF Runs
<1>9. f[1] = y  BY <1>3, <1>8, LahfStep
<1>10. PICK h : f[2] = State(a, Saved(g), h, m, w, <<>>)
  <2>1. Performed(Exec(<<o, mask>>, y, at, junk), o, mask, at, y, x, al, Saved(g), v, w, <<>>)
    BY <1>1, <1>2, <1>3, OperandStep
  <2> QED  BY <1>4, <1>8, <1>9, <2>1 DEF Performed, Done, a, m
<1>11. f[3] = State(a, Saved(g), g, m, w, <<>>)
  <2>1. f[3] = State(a, Saved(g), Bits(Saved(g)) \cap Flags, m, w, <<>>)
    BY <1>8, <1>10, SahfStep
  <2>2. Bits(Saved(g)) \cap Flags = g  BY Masked
  <2> QED  BY <2>1, <2>2, Zenon
<1>12. GuestFlags("set", s, x, n, junk) = g
  <2>1. s.flags = g  BY Parts
  <2> QED  BY <2>1 DEF GuestFlags, Arith, Logic, RotateA, Rotate, Shift
<1>13. Observed(Guest("set", s, at, n, junk)) = State(a, 0, g, m, w, <<>>)
  <2>1. Observed(Guest("set", s, at, n, junk))
          = Done(o, at, GuestResult("set", s, x, n), al, 0, GuestFlags("set", s, x, n, junk), v, w, <<>>)
    BY <1>1, <1>3, GuestDone
  <2> QED  BY <1>6, <1>12, <2>1 DEF Done, a, m
<1> QED  BY <1>8, <1>11, <1>13, Seen DEF t

\* The translation of cpl does what the guest instruction does: it sets AF.
LEMMA CplDone ==
  ASSUME NEW al \in Byte, NEW g \in SUBSET Flags, NEW v \in Byte, NEW w,
         NEW s, s = State(al, 0, g, v, w, <<>>), NEW junk, NEW at, at = "al"
  PROVE  Observed(Run(CplTemplate, s, at, junk)) = Observed(Guest("cpl", s, at, 0, junk))
<1> DEFINE t == CplTemplate
           o == "not"
           x == Operand(at, al, v)
           r == Result(o, s, x, 0)
           a == LeftAl(o, at, r, al)
           m == LeftMem(o, at, r, v)
           e == g \cup {AF}
           q == Or(Saved(g), H10)
<1>1. o \in Operations /\ "cpl" \in Operated /\ Mnemonic["cpl"] = o /\ at # "fault" /\ s.flags = g
  BY Mnemonics, Parts DEF Operations, InPlace, Operated
<1>2. x = Operand(at, al, v)  OBVIOUS
<1>3. Len(t) = 4 /\ t[1] = <<o, 0>> /\ t[2] = Lahf /\ t[3] = OrAh(H10) /\ t[4] = Sahf
  BY DEF CplTemplate
<1>4. GuestResult("cpl", s, x, 0) = Result(Mnemonic["cpl"], s, x, 0)  BY DEF GuestResult
<1>5. GuestFlags("cpl", s, x, 0, junk) = e
  BY <1>1 DEF GuestFlags, Arith, Logic, RotateA, Rotate, Shift
<1>6. Bits(q) \cap Flags = e  BY Masked
<1> HIDE DEF t, o, x, r, a, m, e, q
<1>7. PICK f : Runs(f, t, 4, s, at, junk)  BY <1>3, RunThrough
<1>8. /\ f[1] = Exec(<<o, 0>>, s, at, junk) /\ f[2] = Exec(Lahf, f[1], at, junk)
      /\ f[3] = Exec(OrAh(H10), f[2], at, junk) /\ f[4] = Exec(Sahf, f[3], at, junk)
      /\ Run(t, s, at, junk) = f[4]
  BY <1>3, <1>7 DEF Runs
<1>9. f[1] = State(a, 0, g, m, w, <<>>)
  <2>1. FlagsOf(o, s, x, 0, junk) = g  BY <1>1, OtherFlags DEF o
  <2>2. f[1] = Done(o, at, r, al, 0, FlagsOf(o, s, x, 0, junk), v, w, <<>>)
    BY <1>1, <1>2, <1>8, NativeStep DEF r
  <2> QED  BY <2>1, <2>2 DEF Done, a, m
<1>10. f[4] = State(a, q, e, m, w, <<>>)
  <2>1. f[2] = State(a, Saved(g), g, m, w, <<>>)  BY <1>8, <1>9, LahfStep
  <2>2. f[3] = State(a, q, g, m, w, <<>>)  BY <1>8, <2>1, OrAhStep DEF q
  <2>3. f[4] = State(a, q, Bits(q) \cap Flags, m, w, <<>>)  BY <1>8, <2>2, SahfStep
  <2> QED  BY <1>6, <2>3, Zenon
<1>11. Observed(Guest("cpl", s, at, 0, junk)) = State(a, 0, e, m, w, <<>>)
  <2>1. Observed(Guest("cpl", s, at, 0, junk))
          = Done(o, at, GuestResult("cpl", s, x, 0), al, 0, GuestFlags("cpl", s, x, 0, junk), v, w, <<>>)
    BY <1>1, <1>2, GuestDone
  <2> QED  BY <1>1, <1>4, <1>5, <2>1 DEF Done, a, m, r
<1> QED  BY <1>8, <1>10, <1>11, Seen DEF t

\* A guest instruction that changes nothing but flags leaves A and memory alone.
LEMMA GuestPlain ==
  ASSUME NEW al, NEW ah, NEW g, NEW v, NEW w, NEW k, NEW s, s = State(al, ah, g, v, w, k),
         NEW i \in {"scf", "add_hl", "inc_rr", "ld_hl_sp", "push", "ret"}, NEW at, NEW n, NEW junk
  PROVE  Observed(Guest(i, s, at, n, junk))
           = State(al, 0, GuestFlags(i, s, Operand(at, al, v), n, junk), v, w, k)
<1> DEFINE h == GuestFlags(i, s, Operand(at, al, v), n, junk)
           t == [s EXCEPT !.flags = h]
<1>1. Operand(at, al, v) = IF at = "al" THEN s.al ELSE s.mem  BY Parts DEF Operand
<1>2. Guest(i, s, at, n, junk) = t
  BY <1>1 DEF Guest, Arith, Logic, RotateA, Rotate, Shift
<1> HIDE DEF h
<1>3. t \in Only(al, ah, h, v, w, k)  BY DEF State, Only
<1> HIDE DEF t
<1> QED  BY <1>2, <1>3, IsState, Seen DEF h

\* push af stores A and F and changes nothing else.
LEMMA GuestPushAf ==
  ASSUME NEW al, NEW ah, NEW g, NEW v, NEW w, NEW k, NEW s, s = State(al, ah, g, v, w, k),
         NEW at, NEW n, NEW junk
  PROVE  Observed(Guest("push_af", s, at, n, junk)) = State(al, 0, g, v, <<F(s), al>>, k)
<1> DEFINE d == F(s)
           x == IF at = "al" THEN s.al ELSE s.mem
           u == [[s EXCEPT !.flags = g] EXCEPT !.word = <<d, s.al>>]
<1>1. GuestFlags("push_af", s, x, n, junk) = s.flags
  BY DEF GuestFlags, Arith, Logic, RotateA, Rotate, Shift
<1>2. s.flags = g  BY Parts
<1>3. Guest("push_af", s, at, n, junk) = u
  BY <1>1, <1>2 DEF Guest, Arith, Logic, RotateA, Rotate, Shift
<1> HIDE DEF d
<1>4. u \in Only(al, ah, g, v, <<d, al>>, k)  BY DEF State, Only
<1> HIDE DEF u
<1> QED  BY <1>3, <1>4, IsState, Seen DEF d

\* pop af loads A and the flags and changes nothing else.
LEMMA GuestPopAf ==
  ASSUME NEW al, NEW ah, NEW g, NEW v, NEW w, NEW k, NEW s, s = State(al, ah, g, v, w, k),
         NEW at, NEW n, NEW junk
  PROVE  Observed(Guest("pop_af", s, at, n, junk))
           = State(w[2], 0, GuestFlags("pop_af", s, Operand(at, al, v), n, junk), v, w, k)
<1> DEFINE h == GuestFlags("pop_af", s, Operand(at, al, v), n, junk)
           u == [[s EXCEPT !.flags = h] EXCEPT !.al = s.word[2]]
<1>1. Operand(at, al, v) = IF at = "al" THEN s.al ELSE s.mem  BY Parts DEF Operand
<1>2. Guest("pop_af", s, at, n, junk) = u
  BY <1>1 DEF Guest, Arith, Logic, RotateA, Rotate, Shift
<1> HIDE DEF h
<1>3. u \in Only(w[2], ah, h, v, w, k)  BY DEF State, Only
<1> HIDE DEF u
<1> QED  BY <1>2, <1>3, IsState, Seen DEF h

\* The translation of scf does what the guest instruction does: it keeps ZF.
LEMMA ScfDone ==
  ASSUME NEW al \in Byte, NEW g \in SUBSET Flags, NEW v \in Byte, NEW w,
         NEW s, s = State(al, 0, g, v, w, <<>>), NEW junk \in SUBSET Flags,
         NEW at, at # "al"
  PROVE  Observed(Run(ScfTemplate, s, at, junk)) = Observed(Guest("scf", s, at, 0, junk))
<1> DEFINE t == ScfTemplate
           q == Or(And(Saved(g), H6A), H01)
           e == (g \cap {ZF}) \cup {CF}
<1>1. /\ Len(t) = 4 /\ t[1] = Lahf /\ t[2] = AndAh(H6A) /\ t[3] = OrAh(H01) /\ t[4] = Sahf
  BY DEF ScfTemplate
<1> HIDE DEF t
<1>2. PICK f : Runs(f, t, 4, s, at, junk)  BY <1>1, RunThrough
<1>3. /\ f[1] = Exec(Lahf, s, at, junk) /\ f[2] = Exec(AndAh(H6A), f[1], at, junk)
      /\ f[3] = Exec(OrAh(H01), f[2], at, junk) /\ f[4] = Exec(Sahf, f[3], at, junk)
      /\ Run(t, s, at, junk) = f[4]
  BY <1>1, <1>2 DEF Runs
<1>4. s.flags = g  BY Parts
<1>5. GuestFlags("scf", s, Operand(at, al, v), 0, junk) = e
  BY <1>4 DEF GuestFlags, Arith, Logic, RotateA, Rotate, Shift
<1>6. Bits(q) \cap Flags = e  BY Masked
<1> HIDE DEF e, q
<1>8. f[4] = State(al, q, e, v, w, <<>>)
  <2>1. f[1] = State(al, Saved(g), g, v, w, <<>>)
    BY <1>3, LahfStep
  <2>2. f[2] = State(al, And(Saved(g), H6A), g, v, w, <<>>)
    BY <1>3, <2>1, AndAhStep
  <2>3. f[3] = State(al, q, g, v, w, <<>>)
    BY <1>3, <2>2, OrAhStep DEF q
  <2>4. f[4] = State(al, q, e, v, w, <<>>)
    BY <1>3, <2>3, <1>6, SahfStep
  <2> QED  BY <2>4
<1>9. Observed(Guest("scf", s, at, 0, junk)) = State(al, 0, e, v, w, <<>>)
  BY <1>5, GuestPlain DEF Operand
<1> QED  BY <1>3, <1>8, <1>9, Seen DEF t

\* The translation of add hl does what the guest instruction does: it keeps ZF,
\* and A comes back.
LEMMA AddHlDone ==
  ASSUME NEW al \in Byte, NEW g \in SUBSET Flags, NEW v \in Byte, NEW w,
         NEW s, s = State(al, 0, g, v, w, <<>>), NEW junk \in SUBSET Flags,
         NEW at, at # "al"
  PROVE  Observed(Run(AddHl, s, at, junk)) = Observed(Guest("add_hl", s, at, 0, junk))
<1> DEFINE t == AddHl
           c == And(Saved(g), H40)
           q == Or(And(Saved(junk), HBF), c)
           p == OnStack(al, Saved(g), <<>>)
           e == (junk \ {ZF}) \cup (g \cap {ZF})
<1>1. /\ Len(t) = 10 /\ t[1] = Lahf /\ t[2] = PushEax /\ t[3] = MovAlAh /\ t[4] = AndAl(H40)
      /\ t[5] = <<"add_word", 0>> /\ t[6] = Lahf /\ t[7] = AndAh(HBF) /\ t[8] = OrAhAl
      /\ t[9] = Sahf /\ t[10] = PopEax
  BY DEF AddHl
<1> HIDE DEF t
<1>2. PICK f : Runs(f, t, 10, s, at, junk)  BY <1>1, RunThrough
<1>3. /\ f[1] = Exec(Lahf, s, at, junk) /\ f[2] = Exec(PushEax, f[1], at, junk)
      /\ f[3] = Exec(MovAlAh, f[2], at, junk) /\ f[4] = Exec(AndAl(H40), f[3], at, junk)
      /\ f[5] = Exec(<<"add_word", 0>>, f[4], at, junk) /\ f[6] = Exec(Lahf, f[5], at, junk)
      /\ f[7] = Exec(AndAh(HBF), f[6], at, junk) /\ f[8] = Exec(OrAhAl, f[7], at, junk)
      /\ f[9] = Exec(Sahf, f[8], at, junk) /\ f[10] = Exec(PopEax, f[9], at, junk)
      /\ Run(t, s, at, junk) = f[10]
  BY <1>1, <1>2 DEF Runs
<1>4. s.flags = g  BY Parts
<1>5. GuestFlags("add_hl", s, Operand(at, al, v), 0, junk) = e
  <2>1. GuestFlags("add_hl", s, Operand(at, al, v), 0, junk) = (g \cap {ZF}) \cup (junk \ {ZF})
    BY <1>4 DEF GuestFlags, Arith, Logic, RotateA, Rotate, Shift
  <2>2. (g \cap {ZF}) \cup (junk \ {ZF}) = e  OBVIOUS
  <2> QED  BY <2>1, <2>2, Zenon
<1>6. Bits(q) \cap Flags = e  BY MaskedTwice
<1>7. OnTop(p, al, Saved(g), <<>>)
  <2>1. Saved(g) \in 0 .. 255  BY SavedBits
  <2>2. al \in 0 .. 255 /\ <<>> \in Seq(Cells)  BY ByteOfBits
  <2> QED  BY <2>1, <2>2, TopOfStack, Zenon
<1> HIDE DEF e, q, c, p
<1>8. f[10] = State(al, Saved(g), e, v, w, <<>>)
  <2>1. f[1] = State(al, Saved(g), g, v, w, <<>>)
    BY <1>3, LahfStep
  <2>2. f[2] = State(al, Saved(g), g, v, w, p)
    BY <1>3, <2>1, PushStep DEF p
  <2>3. f[3] = State(Saved(g), Saved(g), g, v, w, p)
    BY <1>3, <2>2, MovAlAhStep
  <2>4. f[4] = State(c, Saved(g), g, v, w, p)
    BY <1>3, <2>3, AndAlStep DEF c
  <2>5. f[5] = State(c, Saved(g), junk, v, w, p)
    BY <1>3, <2>4, AddWordStep
  <2>6. f[6] = State(c, Saved(junk), junk, v, w, p)
    BY <1>3, <2>5, LahfStep
  <2>7. f[7] = State(c, And(Saved(junk), HBF), junk, v, w, p)
    BY <1>3, <2>6, AndAhStep
  <2>8. f[8] = State(c, q, junk, v, w, p)
    BY <1>3, <2>7, OrAhAlStep DEF q
  <2>9. f[9] = State(c, q, e, v, w, p)
    BY <1>3, <2>8, <1>6, SahfStep
  <2>10. f[10] = State(al, Saved(g), e, v, w, <<>>)
    BY <1>3, <2>9, <1>7, PopStep
  <2> QED  BY <2>10
<1>9. Observed(Guest("add_hl", s, at, 0, junk)) = State(al, 0, e, v, w, <<>>)
  BY <1>5, GuestPlain DEF Operand
<1> QED  BY <1>3, <1>8, <1>9, Seen DEF t

\* The translation of inc rr and dec rr does what the guest instruction does:
\* it keeps all flags.
LEMMA IncWordDone ==
  ASSUME NEW al \in Byte, NEW g \in SUBSET Flags, NEW v \in Byte, NEW w,
         NEW s, s = State(al, 0, g, v, w, <<>>), NEW junk \in SUBSET Flags,
         NEW at, at # "al"
  PROVE  Observed(Run(IncWord, s, at, junk)) = Observed(Guest("inc_rr", s, at, 0, junk))
<1> DEFINE t == IncWord
           e == g
<1>1. /\ Len(t) = 3 /\ t[1] = Lahf /\ t[2] = <<"inc_word", 0>> /\ t[3] = Sahf
  BY DEF IncWord
<1> HIDE DEF t
<1>2. PICK f : Runs(f, t, 3, s, at, junk)  BY <1>1, RunThrough
<1>3. /\ f[1] = Exec(Lahf, s, at, junk) /\ f[2] = Exec(<<"inc_word", 0>>, f[1], at, junk)
      /\ f[3] = Exec(Sahf, f[2], at, junk) /\ Run(t, s, at, junk) = f[3]
  BY <1>1, <1>2 DEF Runs
<1>4. s.flags = g  BY Parts
<1>5. GuestFlags("inc_rr", s, Operand(at, al, v), 0, junk) = e
  BY <1>4 DEF GuestFlags, Arith, Logic, RotateA, Rotate, Shift
<1>6. Bits(Saved(g)) \cap Flags = e  BY Masked
<1> HIDE DEF e
<1>8. f[3] = State(al, Saved(g), e, v, w, <<>>)
  <2>1. f[1] = State(al, Saved(g), g, v, w, <<>>)
    BY <1>3, LahfStep
  <2>2. f[2] = State(al, Saved(g), (junk \ {CF}) \cup (g \cap {CF}), v, w, <<>>)
    BY <1>3, <2>1, IncWordStep
  <2>3. f[3] = State(al, Saved(g), e, v, w, <<>>)
    BY <1>3, <2>2, <1>6, SahfStep
  <2> QED  BY <2>3
<1>9. Observed(Guest("inc_rr", s, at, 0, junk)) = State(al, 0, e, v, w, <<>>)
  BY <1>5, GuestPlain DEF Operand
<1> QED  BY <1>3, <1>8, <1>9, Seen DEF t

\* The translation of ld hl,sp+n does what the guest instruction does: it clears
\* ZF.
LEMMA LdHlSpDone ==
  ASSUME NEW al \in Byte, NEW g \in SUBSET Flags, NEW v \in Byte, NEW w,
         NEW s, s = State(al, 0, g, v, w, <<>>), NEW junk \in SUBSET Flags,
         NEW at, at # "al"
  PROVE  Observed(Run(LdHlSp, s, at, junk)) = Observed(Guest("ld_hl_sp", s, at, 0, junk))
<1> DEFINE t == LdHlSp
           q == And(Saved(junk), H3B)
           e == junk \cap {CF, AF}
<1>1. /\ Len(t) = 4 /\ t[1] = <<"add_word", 0>> /\ t[2] = Lahf /\ t[3] = AndAh(H3B) /\ t[4] = Sahf
  BY DEF LdHlSp
<1> HIDE DEF t
<1>2. PICK f : Runs(f, t, 4, s, at, junk)  BY <1>1, RunThrough
<1>3. /\ f[1] = Exec(<<"add_word", 0>>, s, at, junk) /\ f[2] = Exec(Lahf, f[1], at, junk)
      /\ f[3] = Exec(AndAh(H3B), f[2], at, junk) /\ f[4] = Exec(Sahf, f[3], at, junk)
      /\ Run(t, s, at, junk) = f[4]
  BY <1>1, <1>2 DEF Runs
<1>4. junk \ {ZF} = junk \cap {CF, AF}
  <2>1. \A b \in junk : b \in {CF, AF, ZF}  BY DEF Flags
  <2> QED  BY <2>1 DEF CF, AF, ZF
<1>5. GuestFlags("ld_hl_sp", s, Operand(at, al, v), 0, junk) = e
  <2>1. GuestFlags("ld_hl_sp", s, Operand(at, al, v), 0, junk) = junk \ {ZF}
    BY DEF GuestFlags, Arith, Logic, RotateA, Rotate, Shift
  <2> QED  BY <1>4, <2>1
<1>6. Bits(q) \cap Flags = e  BY Masked
<1> HIDE DEF e, q
<1>8. f[4] = State(al, q, e, v, w, <<>>)
  <2>1. f[1] = State(al, 0, junk, v, w, <<>>)
    BY <1>3, AddWordStep
  <2>2. f[2] = State(al, Saved(junk), junk, v, w, <<>>)
    BY <1>3, <2>1, LahfStep
  <2>3. f[3] = State(al, q, junk, v, w, <<>>)
    BY <1>3, <2>2, AndAhStep DEF q
  <2>4. f[4] = State(al, q, e, v, w, <<>>)
    BY <1>3, <2>3, <1>6, SahfStep
  <2> QED  BY <2>4
<1>9. Observed(Guest("ld_hl_sp", s, at, 0, junk)) = State(al, 0, e, v, w, <<>>)
  BY <1>5, GuestPlain DEF Operand
<1> QED  BY <1>3, <1>8, <1>9, Seen DEF t

\* The translation of push does what the guest instruction does: moving the
\* guest's stack pointer keeps all flags.
LEMMA MoveSpDone ==
  ASSUME NEW al \in Byte, NEW g \in SUBSET Flags, NEW v \in Byte, NEW w,
         NEW s, s = State(al, 0, g, v, w, <<>>), NEW junk \in SUBSET Flags,
         NEW at, at # "al"
  PROVE  Observed(Run(MoveSp, s, at, junk)) = Observed(Guest("push", s, at, 0, junk))
<1> DEFINE t == MoveSp
           e == g
<1>1. /\ Len(t) = 3 /\ t[1] = Lahf /\ t[2] = <<"add_word", 0>> /\ t[3] = Sahf
  BY DEF MoveSp
<1> HIDE DEF t
<1>2. PICK f : Runs(f, t, 3, s, at, junk)  BY <1>1, RunThrough
<1>3. /\ f[1] = Exec(Lahf, s, at, junk) /\ f[2] = Exec(<<"add_word", 0>>, f[1], at, junk)
      /\ f[3] = Exec(Sahf, f[2], at, junk) /\ Run(t, s, at, junk) = f[3]
  BY <1>1, <1>2 DEF Runs
<1>4. s.flags = g  BY Parts
<1>5. GuestFlags("push", s, Operand(at, al, v), 0, junk) = e
  BY <1>4 DEF GuestFlags, Arith, Logic, RotateA, Rotate, Shift
<1>6. Bits(Saved(g)) \cap Flags = e  BY Masked
<1> HIDE DEF e
<1>8. f[3] = State(al, Saved(g), e, v, w, <<>>)
  <2>1. f[1] = State(al, Saved(g), g, v, w, <<>>)
    BY <1>3, LahfStep
  <2>2. f[2] = State(al, Saved(g), junk, v, w, <<>>)
    BY <1>3, <2>1, AddWordStep
  <2>3. f[3] = State(al, Saved(g), e, v, w, <<>>)
    BY <1>3, <2>2, <1>6, SahfStep
  <2> QED  BY <2>3
<1>9. Observed(Guest("push", s, at, 0, junk)) = State(al, 0, e, v, w, <<>>)
  BY <1>5, GuestPlain DEF Operand
<1> QED  BY <1>3, <1>8, <1>9, Seen DEF t

\* The translation of ret does what the guest instruction does: A and the flags
\* come back.
LEMMA RetDone ==
  ASSUME NEW al \in Byte, NEW g \in SUBSET Flags, NEW v \in Byte, NEW w,
         NEW s, s = State(al, 0, g, v, w, <<>>), NEW junk \in SUBSET Flags,
         NEW at, at # "al"
  PROVE  Observed(Run(Ret, s, at, junk)) = Observed(Guest("ret", s, at, 0, junk))
<1> DEFINE t == Ret
           p == OnStack(al, Saved(g), <<>>)
           e == g
<1>1. /\ Len(t) = 6 /\ t[1] = Lahf /\ t[2] = PushEax /\ t[3] = <<"mov_ax_word", 0>>
      /\ t[4] = <<"add_word", 0>> /\ t[5] = PopEax /\ t[6] = Sahf
  BY DEF Ret
<1> HIDE DEF t
<1>2. PICK f : Runs(f, t, 6, s, at, junk)  BY <1>1, RunThrough
<1>3. /\ f[1] = Exec(Lahf, s, at, junk) /\ f[2] = Exec(PushEax, f[1], at, junk)
      /\ f[3] = Exec(<<"mov_ax_word", 0>>, f[2], at, junk)
      /\ f[4] = Exec(<<"add_word", 0>>, f[3], at, junk)
      /\ f[5] = Exec(PopEax, f[4], at, junk) /\ f[6] = Exec(Sahf, f[5], at, junk)
      /\ Run(t, s, at, junk) = f[6]
  BY <1>1, <1>2 DEF Runs
<1>4. s.flags = g  BY Parts
<1>5. GuestFlags("ret", s, Operand(at, al, v), 0, junk) = e
  BY <1>4 DEF GuestFlags, Arith, Logic, RotateA, Rotate, Shift
<1>6. Bits(Saved(g)) \cap Flags = e  BY Masked
<1>7. OnTop(p, al, Saved(g), <<>>)
  <2>1. Saved(g) \in 0 .. 255  BY SavedBits
  <2>2. al \in 0 .. 255 /\ <<>> \in Seq(Cells)  BY ByteOfBits
  <2> QED  BY <2>1, <2>2, TopOfStack, Zenon
<1> HIDE DEF e, p
<1>8. f[6] = State(al, Saved(g), e, v, w, <<>>)
  <2>1. f[1] = State(al, Saved(g), g, v, w, <<>>)
    BY <1>3, LahfStep
  <2>2. f[2] = State(al, Saved(g), g, v, w, p)
    BY <1>3, <2>1, PushStep DEF p
  <2>3. f[3] = State(w[1], w[2], g, v, w, p)
    BY <1>3, <2>2, LoadWordStep
  <2>4. f[4] = State(w[1], w[2], junk, v, w, p)
    BY <1>3, <2>3, AddWordStep
  <2>5. f[5] = State(al, Saved(g), junk, v, w, <<>>)
    BY <1>3, <2>4, <1>7, PopStep
  <2>6. f[6] = State(al, Saved(g), e, v, w, <<>>)
    BY <1>3, <2>5, <1>6, SahfStep
  <2> QED  BY <2>6
<1>9. Observed(Guest("ret", s, at, 0, junk)) = State(al, 0, e, v, w, <<>>)
  BY <1>5, GuestPlain DEF Operand
<1> QED  BY <1>3, <1>8, <1>9, Seen DEF t

\* The translation of push af does what the guest instruction does: F is made of
\* the flags by the table of helper.c, and all registers come back.
LEMMA PushAfDone ==
  ASSUME NEW al \in Byte, NEW g \in SUBSET Flags, NEW v \in Byte, NEW w,
         NEW s, s = State(al, 0, g, v, w, <<>>), NEW junk \in SUBSET Flags,
         NEW at, at # "al"
  PROVE  Observed(Run(PushAf, s, at, junk)) = Observed(Guest("push_af", s, at, 0, junk))
<1> DEFINE t == PushAf
           c == FlagTable(Saved(g))
           p == OnStack(al, 0, <<>>)
           q == OnStack(al, Saved(g), p)
           e == g
<1>1. /\ Len(t) = 11 /\ t[1] = PushEax /\ t[2] = Lahf /\ t[3] = PushEax
      /\ t[4] = <<"movzx_eax_ah", 0>> /\ t[5] = <<"flag_table", 0>>
      /\ t[6] = <<"mov_ah_top", 0>> /\ t[7] = <<"add_word", 0>>
      /\ t[8] = <<"mov_word_ax", 0>> /\ t[9] = PopEax /\ t[10] = Sahf /\ t[11] = PopEax
  BY DEF PushAf
<1> HIDE DEF t
<1>2. PICK f : Runs(f, t, 11, s, at, junk)  BY <1>1, RunThrough
<1>3. /\ f[1] = Exec(PushEax, s, at, junk) /\ f[2] = Exec(Lahf, f[1], at, junk)
      /\ f[3] = Exec(PushEax, f[2], at, junk)
      /\ f[4] = Exec(<<"movzx_eax_ah", 0>>, f[3], at, junk)
      /\ f[5] = Exec(<<"flag_table", 0>>, f[4], at, junk)
      /\ f[6] = Exec(<<"mov_ah_top", 0>>, f[5], at, junk)
      /\ f[7] = Exec(<<"add_word", 0>>, f[6], at, junk)
      /\ f[8] = Exec(<<"mov_word_ax", 0>>, f[7], at, junk)
      /\ f[9] = Exec(PopEax, f[8], at, junk) /\ f[10] = Exec(Sahf, f[9], at, junk)
      /\ f[11] = Exec(PopEax, f[10], at, junk) /\ Run(t, s, at, junk) = f[11]
  BY <1>1, <1>2 DEF Runs
<1>4. s.flags = g  BY Parts
<1>5. c = F(s)
  <2>1. Bits(Saved(g)) = {1} \cup g  BY SavedBits
  <2>2. \A b \in {CF, AF, ZF} : b \in Bits(Saved(g)) <=> b \in g  BY <2>1 DEF CF, AF, ZF
  <2>3. /\ If(CF \in Bits(Saved(g)), 4) = If(CF \in g, 4)
        /\ If(AF \in Bits(Saved(g)), 5) = If(AF \in g, 5)
        /\ If(ZF \in Bits(Saved(g)), 7) = If(ZF \in g, 7)
    BY <2>2 DEF If
  <2>4. If(CF \in g, 4) \cup If(AF \in g, 5) \cup If(ZF \in g, 7)
          = If(ZF \in g, 7) \cup If(AF \in g, 5) \cup If(CF \in g, 4)
    OBVIOUS
  <2> QED  BY <1>4, <2>3, <2>4, Zenon DEF FlagTable, F
<1>6. Bits(Saved(g)) \cap Flags = e  BY Masked
<1>7. OnTop(p, al, 0, <<>>) /\ OnTop(q, al, Saved(g), p)
  <2>1. Saved(g) \in 0 .. 255  BY SavedBits
  <2>2. al \in 0 .. 255 /\ 0 \in 0 .. 255 /\ <<>> \in Seq(Cells)  BY ByteOfBits
  <2>3. OnTop(p, al, 0, <<>>)  BY <2>2, TopOfStack, Zenon
  <2>4. p \in Seq(Cells)
    <3>1. [al |-> al, ah |-> 0] \in Cells  BY <2>2 DEF Cells
    <3> QED  BY <3>1 DEF OnStack
  <2> HIDE DEF p
  <2>5. OnTop(q, al, Saved(g), p)  BY <2>1, <2>2, <2>4, TopOfStack, Zenon
  <2> QED  BY <2>3, <2>5
<1> HIDE DEF e, q, c, p
<1>8. f[11] = State(al, 0, e, v, <<c, al>>, <<>>)
  <2>1. f[1] = State(al, 0, g, v, w, p)
    BY <1>3, PushStep DEF p
  <2>2. f[2] = State(al, Saved(g), g, v, w, p)
    BY <1>3, <2>1, LahfStep
  <2>3. f[3] = State(al, Saved(g), g, v, w, q)
    BY <1>3, <2>2, PushStep DEF q
  <2>4. f[4] = State(Saved(g), 0, g, v, w, q)
    BY <1>3, <2>3, SavedByteStep
  <2>5. f[5] = State(c, 0, g, v, w, q)
    BY <1>3, <2>4, FlagTableStep DEF c
  <2>6. f[6] = State(c, al, g, v, w, q)
    BY <1>3, <2>5, <1>7, TopStep
  <2>7. f[7] = State(c, al, junk, v, w, q)
    BY <1>3, <2>6, AddWordStep
  <2>8. f[8] = State(c, al, junk, v, <<c, al>>, q)
    BY <1>3, <2>7, StoreWordStep
  <2>9. f[9] = State(al, Saved(g), junk, v, <<c, al>>, p)
    BY <1>3, <2>8, <1>7, PopStep
  <2>10. f[10] = State(al, Saved(g), e, v, <<c, al>>, p)
    BY <1>3, <2>9, <1>6, SahfStep
  <2>11. f[11] = State(al, 0, e, v, <<c, al>>, <<>>)
    BY <1>3, <2>10, <1>7, PopStep
  <2> QED  BY <2>11
<1>9. Observed(Guest("push_af", s, at, 0, junk)) = State(al, 0, e, v, <<c, al>>, <<>>)
  BY <1>5, GuestPushAf DEF e
<1> QED  BY <1>3, <1>8, <1>9, Seen DEF t

\* The translation of pop af does what the guest instruction does.
LEMMA PopAfDone ==
  ASSUME NEW al \in Byte, NEW g \in SUBSET Flags, NEW v \in Byte, NEW w,
         NEW s, s = State(al, 0, g, v, w, <<>>), NEW junk \in SUBSET Flags,
         NEW at, at # "al"
  PROVE  Observed(Run(PopAf, s, at, junk)) = Observed(Guest("pop_af", s, at, 0, junk))
<1> DEFINE t == PopAf
           q == ReverseFlagTable(w[1])
           e == GuestFlags("pop_af", s, Operand(at, al, v), 0, junk)
<1>1. /\ Len(t) = 5 /\ t[1] = <<"movzx_eax_word", 0>> /\ t[2] = <<"reverse_flag_table", 0>>
      /\ t[3] = <<"mov_al_word", 0>> /\ t[4] = <<"add_word", 0>> /\ t[5] = Sahf
  BY DEF PopAf
<1> HIDE DEF t
<1>2. PICK f : Runs(f, t, 5, s, at, junk)  BY <1>1, RunThrough
<1>3. /\ f[1] = Exec(<<"movzx_eax_word", 0>>, s, at, junk)
      /\ f[2] = Exec(<<"reverse_flag_table", 0>>, f[1], at, junk)
      /\ f[3] = Exec(<<"mov_al_word", 0>>, f[2], at, junk)
      /\ f[4] = Exec(<<"add_word", 0>>, f[3], at, junk) /\ f[5] = Exec(Sahf, f[4], at, junk)
      /\ Run(t, s, at, junk) = f[5]
  BY <1>1, <1>2 DEF Runs
<1>4. s.word = w  BY Parts
<1>5. e = If(7 \in Bits(w[1]), ZF) \cup If(5 \in Bits(w[1]), AF) \cup If(4 \in Bits(w[1]), CF)
  BY <1>4 DEF GuestFlags, Arith, Logic, RotateA, Rotate, Shift
<1>6. Bits(q) \cap Flags = e
  <2> DEFINE d == {1} \cup If(4 \in Bits(w[1]), CF) \cup If(5 \in Bits(w[1]), AF)
                      \cup If(7 \in Bits(w[1]), ZF)
  <2>1. d \in SUBSET (0 .. 7)  BY DEF If, CF, AF, ZF
  <2>2. Bits(q) = d  BY <2>1, BitsNumber DEF ReverseFlagTable
  <2>3. d \cap Flags = If(7 \in Bits(w[1]), ZF) \cup If(5 \in Bits(w[1]), AF)
                         \cup If(4 \in Bits(w[1]), CF)
    BY DEF If, Flags, CF, AF, ZF
  <2> QED  BY <1>5, <2>2, <2>3, Zenon
<1> HIDE DEF e, q
<1>8. f[5] = State(w[2], q, e, v, w, <<>>)
  <2>1. f[1] = State(w[1], 0, g, v, w, <<>>)
    BY <1>3, LowByteStep
  <2>2. f[2] = State(w[1], q, g, v, w, <<>>)
    BY <1>3, <2>1, ReverseStep DEF q
  <2>3. f[3] = State(w[2], q, g, v, w, <<>>)
    BY <1>3, <2>2, HighByteStep
  <2>4. f[4] = State(w[2], q, junk, v, w, <<>>)
    BY <1>3, <2>3, AddWordStep
  <2>5. f[5] = State(w[2], q, e, v, w, <<>>)
    BY <1>3, <2>4, <1>6, SahfStep
  <2> QED  BY <2>5
<1>9. Observed(Guest("pop_af", s, at, 0, junk)) = State(w[2], 0, e, v, w, <<>>)
  BY GuestPopAf DEF e
<1> QED  BY <1>3, <1>8, <1>9, Seen DEF t

----------------------------------------------------------------------------
(* All forms                                                                *)

\* The instructions whose translation the handler does not know.
Unhandled == {"adc", "and", "xor", "rlc", "rl", "sla", "sra", "swap"}

\* The state in which the emulator ends.
Ended(s) == [s EXCEPT !.dead = TRUE]

\* The emulator ends if the first instruction of a template faults and is not
\* known: nothing else of the template is executed.
LEMMA Dies ==
  ASSUME NEW al, NEW ah, NEW g, NEW v, NEW w, NEW k, NEW s, s = State(al, ah, g, v, w, k),
         NEW t, Len(t) \in Nat \ {0}, t[1][1] \in Operations \ Known, NEW junk
  PROVE  Run(t, s, "fault", junk) = Ended(s)
<1> DEFINE d == Ended(s)
           n == Len(t)
<1> HIDE DEF n
<1>0. n \in Nat \ {0} /\ n = Len(t)  BY DEF n
<1>1. PICK f : Runs(f, t, n, s, "fault", junk)  BY <1>0, RunThrough
<1>2. \A j \in 1 .. n : f[j] = Exec(t[j], f[j - 1], "fault", junk)  BY <1>1 DEF Runs
<1>3. f[0] = s /\ Run(t, s, "fault", junk) = f[n]  BY <1>1 DEF Runs
<1>4. ~s.dead /\ d.dead  BY Parts DEF State, Ended
<1>5. Exec(t[1], s, "fault", junk) = d
  BY <1>4 DEF Exec, Faulting, Operations, Ended
<1>6. \A u : Exec(u, d, "fault", junk) = d
  <2> HIDE DEF d
  <2> QED  BY <1>4 DEF Exec
<1> HIDE DEF d
<1> DEFINE P == {j \in Nat : j + 1 \in 1 .. n => f[j + 1] = d}
<1>7. 0 \in P
  <2>1. 1 \in 1 .. n  BY <1>0
  <2>2. f[1] = Exec(t[1], f[1 - 1], "fault", junk)  BY <1>2, <2>1
  <2>3. f[1] = d  BY <1>3, <1>5, <2>2
  <2> QED  BY <2>3
<1>8. ASSUME NEW j \in Nat, j \in P PROVE j + 1 \in P
  <2> SUFFICES ASSUME (j + 1) + 1 \in 1 .. n PROVE f[(j + 1) + 1] = d  OBVIOUS
  <2>1. j + 1 \in 1 .. n /\ ((j + 1) + 1) - 1 = j + 1  BY <1>0
  <2>2. f[j + 1] = d  BY <1>8, <2>1
  <2>3. f[(j + 1) + 1] = Exec(t[(j + 1) + 1], f[((j + 1) + 1) - 1], "fault", junk)  BY <1>2
  <2> QED  BY <1>6, <2>1, <2>2, <2>3
<1>9. n - 1 \in P
  <2>1. n - 1 \in Nat  BY <1>0
  <2> HIDE DEF P
  <2> QED  BY <1>7, <1>8, <2>1, Induction
<1>10. f[n] = d  BY <1>0, <1>9
<1> QED  BY <1>3, <1>10 DEF d

\* The sets of instructions, of which each has its template, are disjoint.
LEMMA WhichTemplate ==
  ASSUME NEW i, NEW at, NEW n
  PROVE  /\ i \in Arith => Template(i, at, n) = ArithTemplate(i)
         /\ i \in Logic => Template(i, at, n) = LogicTemplate(i)
         /\ i \in RotateA => Template(i, at, n) = RotateATemplate(i)
         /\ i \in Rotate => Template(i, at, n) = RotateCb(i, at)
         /\ i \in Shift => Template(i, at, n) = ShiftCb(i)
         /\ i = "swap" => Template(i, at, n) = SwapCb(at)
         /\ i = "bit" => Template(i, at, n) = BitCb(2^n)
         /\ i = "res" => Template(i, at, n) = ResCb(2^n)
         /\ i = "set" => Template(i, at, n) = SetCb(2^n)
         /\ i = "cpl" => Template(i, at, n) = CplTemplate
         /\ i = "scf" => Template(i, at, n) = ScfTemplate
         /\ i = "add_hl" => Template(i, at, n) = AddHl
         /\ i = "inc_rr" => Template(i, at, n) = IncWord
         /\ i = "ld_hl_sp" => Template(i, at, n) = LdHlSp
         /\ i = "push" => Template(i, at, n) = MoveSp
         /\ i = "ret" => Template(i, at, n) = Ret
         /\ i = "push_af" => Template(i, at, n) = PushAf
         /\ i = "pop_af" => Template(i, at, n) = PopAf
<1>1. i \in Arith => Template(i, at, n) = ArithTemplate(i)
  BY DEF Template, Arith, Logic, RotateA, Rotate, Shift
<1>2. i \in Logic => Template(i, at, n) = LogicTemplate(i)
  BY DEF Template, Arith, Logic, RotateA, Rotate, Shift
<1>3. i \in RotateA => Template(i, at, n) = RotateATemplate(i)
  BY DEF Template, Arith, Logic, RotateA, Rotate, Shift
<1>4. i \in Rotate => Template(i, at, n) = RotateCb(i, at)
  BY DEF Template, Arith, Logic, RotateA, Rotate, Shift
<1>5. i \in Shift => Template(i, at, n) = ShiftCb(i)
  BY DEF Template, Arith, Logic, RotateA, Rotate, Shift
<1>6. i = "swap" => Template(i, at, n) = SwapCb(at)
  BY DEF Template, Arith, Logic, RotateA, Rotate, Shift
<1>7. i = "bit" => Template(i, at, n) = BitCb(2^n)
  BY DEF Template, Arith, Logic, RotateA, Rotate, Shift
<1>8. i = "res" => Template(i, at, n) = ResCb(2^n)
  BY DEF Template, Arith, Logic, RotateA, Rotate, Shift
<1>9. i = "set" => Template(i, at, n) = SetCb(2^n)
  BY DEF Template, Arith, Logic, RotateA, Rotate, Shift
<1>10. i = "cpl" => Template(i, at, n) = CplTemplate
  BY DEF Template, Arith, Logic, RotateA, Rotate, Shift
<1>11. i = "scf" => Template(i, at, n) = ScfTemplate
  BY DEF Template, Arith, Logic, RotateA, Rotate, Shift
<1>12. i = "add_hl" => Template(i, at, n) = AddHl
  BY DEF Template, Arith, Logic, RotateA, Rotate, Shift
<1>13. i = "inc_rr" => Template(i, at, n) = IncWord
  BY DEF Template, Arith, Logic, RotateA, Rotate, Shift
<1>14. i = "ld_hl_sp" => Template(i, at, n) = LdHlSp
  BY DEF Template, Arith, Logic, RotateA, Rotate, Shift
<1>15. i = "push" => Template(i, at, n) = MoveSp
  BY DEF Template, Arith, Logic, RotateA, Rotate, Shift
<1>16. i = "ret" => Template(i, at, n) = Ret
  BY DEF Template, Arith, Logic, RotateA, Rotate, Shift
<1>17. i = "push_af" => Template(i, at, n) = PushAf
  BY DEF Template, Arith, Logic, RotateA, Rotate, Shift
<1>18. i = "pop_af" => Template(i, at, n) = PopAf
  BY DEF Template, Arith, Logic, RotateA, Rotate, Shift
<1> QED  BY <1>1, <1>2, <1>3, <1>4, <1>5, <1>6, <1>7, <1>8, <1>9, <1>10, <1>11, <1>12, <1>13, <1>14, <1>15, <1>16, <1>17, <1>18, Zenon

\* The template of such an instruction begins with an x86 instruction that the
\* handler does not know.
LEMMA FirstOfTemplate ==
  ASSUME NEW i \in Unhandled, NEW n, NEW at
  PROVE  LET t == Template(i, at, n)
         IN t[1][1] \in Operations \ Known /\ Len(t) \in Nat \ {0}
<1>1. Mnemonic[i] \in Operations \ Known
  BY Mnemonics DEF Unhandled, Operations, WithAl, InPlace, WithImm, Compares, Known
<1>2. CASE i = "adc"
  <2>1. Template(i, at, n) = ArithTemplate(i)  BY <1>2, WhichTemplate DEF Arith
  <2> QED  BY <1>1, <2>1 DEF ArithTemplate
<1>3. CASE i \in {"and", "xor"}
  <2>1. Template(i, at, n) = LogicTemplate(i)  BY <1>3, WhichTemplate DEF Logic
  <2> QED  BY <1>1, <2>1 DEF LogicTemplate
<1>4. CASE i \in {"rlc", "rl"}
  <2>1. Template(i, at, n) = RotateCb(i, at)  BY <1>4, WhichTemplate DEF Rotate
  <2> QED  BY <1>1, <2>1 DEF RotateCb
<1>5. CASE i \in {"sla", "sra"}
  <2>1. Template(i, at, n) = ShiftCb(i)  BY <1>5, WhichTemplate DEF Shift
  <2> QED  BY <1>1, <2>1 DEF ShiftCb
<1>6. CASE i = "swap"
  <2>1. Template(i, at, n) = SwapCb(at)  BY <1>6, WhichTemplate
  <2> QED  BY <1>1, <2>1, <1>6, Mnemonics DEF SwapCb
<1> QED  BY <1>2, <1>3, <1>4, <1>5, <1>6 DEF Unhandled

\* Where the operand of a form that is right can be.
LEMMA RightForms ==
  ASSUME NEW i, NEW at, <<i, at>> \in Sound
  PROVE  /\ at \in Places
         /\ i \in Operated \cup {"scf"} \cup Words \cup {"push_af", "pop_af"}
         /\ i \in RotateA \cup {"cpl"} => at = "al"
         /\ i \in Rotate => at # "al"
         /\ i \in Words \cup {"scf", "push_af", "pop_af"} => at # "al" /\ at # "fault"
         /\ at = "fault" => i # "sbc"
<1>1. <<i, at>> \in AllForms /\ <<i, at>> # <<"sbc", "fault">>
      /\ <<i, at>> \notin Rotate \X {"al"} /\ <<i, at>> # <<"ccf", "reg">>
  BY DEF Sound, SbcFault, WrongFlags, RotateCbA, Ccf
<1>2. \/ /\ i \in Arith \cup Logic \cup Rotate \cup Shift \cup BitOps \cup {"swap"}
         /\ at \in Places
      \/ i \in RotateA \cup {"cpl"} /\ at = "al"
      \/ i \in Words \cup {"scf", "ccf", "push_af", "pop_af"} /\ at = "reg"
  BY <1>1 DEF AllForms, Places
<1>3. i # "ccf" \/ at # "reg"  BY <1>1
<1>4. i = "sbc" => at # "fault"  BY <1>1
<1>5. i \in Rotate => at # "al"  BY <1>1
<1> QED  BY <1>2, <1>3, <1>4, <1>5
     DEF Arith, Logic, RotateA, Rotate, Shift, BitOps, Words, Places, Operated

\* The handler knows the operation of a form that is neither unhandled nor
\* wrong.
LEMMA HandledForms ==
  ASSUME NEW i \in Arith \cup Logic \cup Rotate \cup Shift, i \notin Unhandled, i # "sbc"
  PROVE  Mnemonic[i] \in Known \ {"sbb"}
BY Mnemonics DEF Arith, Logic, Rotate, Shift, Unhandled, Known

\* Every template does what its guest instruction does, if no fault ends it.
LEMMA FormDone ==
  ASSUME NEW al \in Byte, NEW g \in SUBSET Flags, NEW v \in Byte, NEW w,
         NEW s, s = State(al, 0, g, v, w, <<>>),
         NEW i, NEW at, <<i, at>> \in Sound, at = "fault" => i \notin Unhandled,
         NEW n \in BitNumbers(i), NEW junk \in Junk(i)
  PROVE  Observed(Run(Template(i, at, n), s, at, junk)) = Observed(Guest(i, s, at, n, junk))
<1>1. at \in Places /\ i \in Operated \cup {"scf"} \cup Words \cup {"push_af", "pop_af"}
  BY RightForms
<1>2. i \in RotateA \cup {"cpl"} => at = "al"  BY RightForms
<1>3. i \in Rotate => at # "al"  BY RightForms
<1>4. i \in Words \cup {"scf", "push_af", "pop_af"} => at # "al" /\ at # "fault"
  BY RightForms
<1>5. i \in Arith \cup Logic \cup Rotate \cup Shift =>
        (at = "fault" => Mnemonic[i] \in Known \ {"sbb"})
  BY RightForms, HandledForms
<1>6. i \in BitOps => n \in ByteBits  BY DEF BitNumbers, ByteBits
<1>7. i \notin BitOps => n = 0  BY DEF BitNumbers
<1>8. junk \in SUBSET Flags  BY DEF Junk, Flags
<1>9. CASE i \in Arith
  <2>1. Template(i, at, n) = ArithTemplate(i)  BY <1>9, WhichTemplate
  <2>2. n = 0  BY <1>9, <1>7 DEF BitOps, Arith
  <2>3. at = "fault" => Mnemonic[i] \in Known \ {"sbb"}  BY <1>5, <1>9
  <2> QED  BY <1>1, <1>9, <2>1, <2>2, <2>3, ArithDone
<1>10. CASE i \in Logic
  <2>1. Template(i, at, n) = LogicTemplate(i)  BY <1>10, WhichTemplate
  <2>2. n = 0  BY <1>10, <1>7 DEF BitOps, Logic
  <2>3. at = "fault" => Mnemonic[i] \in Known \ {"sbb"}  BY <1>5, <1>10
  <2> QED  BY <1>1, <1>10, <2>1, <2>2, <2>3, LogicDone
<1>11. CASE i \in RotateA
  <2>1. Template(i, at, n) = RotateATemplate(i)  BY <1>11, WhichTemplate
  <2>2. n = 0  BY <1>11, <1>7 DEF BitOps, RotateA
  <2>3. at = "al"  BY <1>2, <1>11
  <2> QED  BY <1>11, <2>1, <2>2, <2>3, RotateADone
<1>12. CASE i \in Rotate
  <2>1. Template(i, at, n) = RotateCb(i, at)  BY <1>12, WhichTemplate
  <2>2. n = 0  BY <1>12, <1>7 DEF BitOps, Rotate
  <2>3. at = "fault" => Mnemonic[i] \in Known \ {"sbb"}  BY <1>5, <1>12
  <2> QED  BY <1>1, <1>3, <1>12, <2>1, <2>2, <2>3, RotateDone
<1>13. CASE i \in Shift
  <2>1. Template(i, at, n) = ShiftCb(i)  BY <1>13, WhichTemplate
  <2>2. n = 0  BY <1>13, <1>7 DEF BitOps, Shift
  <2>3. at = "fault" => Mnemonic[i] \in Known \ {"sbb"}  BY <1>5, <1>13
  <2> QED  BY <1>1, <1>13, <2>1, <2>2, <2>3, ShiftDone
<1>14. CASE i = "swap"
  <2>1. Template(i, at, n) = SwapCb(at)  BY <1>14, WhichTemplate
  <2>2. n = 0  BY <1>14, <1>7 DEF BitOps
  <2>3. at # "fault"  BY <1>14 DEF Unhandled
  <2> QED  BY <1>1, <1>14, <2>1, <2>2, <2>3, SwapDone
<1>15. CASE i = "cpl"
  <2>1. Template(i, at, n) = CplTemplate  BY <1>15, WhichTemplate
  <2>2. n = 0  BY <1>15, <1>7 DEF BitOps
  <2>3. at = "al"  BY <1>2, <1>15
  <2> QED  BY <1>15, <2>1, <2>2, <2>3, CplDone
<1>16. CASE i = "bit"
  <2>1. Template(i, at, n) = BitCb(2^n)  BY <1>16, WhichTemplate
  <2>2. n \in ByteBits  BY <1>16, <1>6 DEF BitOps
  <2> QED  BY <1>1, <1>16, <2>1, <2>2, BitDone
<1>17. CASE i = "res"
  <2>1. Template(i, at, n) = ResCb(2^n)  BY <1>17, WhichTemplate
  <2>2. n \in ByteBits  BY <1>17, <1>6 DEF BitOps
  <2> QED  BY <1>1, <1>17, <2>1, <2>2, ResDone
<1>18. CASE i = "set"
  <2>1. Template(i, at, n) = SetCb(2^n)  BY <1>18, WhichTemplate
  <2>2. n \in ByteBits  BY <1>18, <1>6 DEF BitOps
  <2> QED  BY <1>1, <1>18, <2>1, <2>2, SetDone
<1>19. CASE i = "scf"
  <2>1. Template(i, at, n) = ScfTemplate  BY <1>19, WhichTemplate
  <2>2. n = 0  BY <1>19, <1>7 DEF BitOps
  <2>3. at # "al"  BY <1>4, <1>19
  <2> QED  BY <1>8, <1>19, <2>1, <2>2, <2>3, ScfDone
<1>20. CASE i = "add_hl"
  <2>1. Template(i, at, n) = AddHl  BY <1>20, WhichTemplate
  <2>2. n = 0  BY <1>20, <1>7 DEF BitOps
  <2>3. at # "al"  BY <1>4, <1>20 DEF Words
  <2> QED  BY <1>8, <1>20, <2>1, <2>2, <2>3, AddHlDone
<1>21. CASE i = "inc_rr"
  <2>1. Template(i, at, n) = IncWord  BY <1>21, WhichTemplate
  <2>2. n = 0  BY <1>21, <1>7 DEF BitOps
  <2>3. at # "al"  BY <1>4, <1>21 DEF Words
  <2> QED  BY <1>8, <1>21, <2>1, <2>2, <2>3, IncWordDone
<1>22. CASE i = "ld_hl_sp"
  <2>1. Template(i, at, n) = LdHlSp  BY <1>22, WhichTemplate
  <2>2. n = 0  BY <1>22, <1>7 DEF BitOps
  <2>3. at # "al"  BY <1>4, <1>22 DEF Words
  <2> QED  BY <1>8, <1>22, <2>1, <2>2, <2>3, LdHlSpDone
<1>23. CASE i = "push"
  <2>1. Template(i, at, n) = MoveSp  BY <1>23, WhichTemplate
  <2>2. n = 0  BY <1>23, <1>7 DEF BitOps
  <2>3. at # "al"  BY <1>4, <1>23 DEF Words
  <2> QED  BY <1>8, <1>23, <2>1, <2>2, <2>3, MoveSpDone
<1>24. CASE i = "ret"
  <2>1. Template(i, at, n) = Ret  BY <1>24, WhichTemplate
  <2>2. n = 0  BY <1>24, <1>7 DEF BitOps
  <2>3. at # "al"  BY <1>4, <1>24 DEF Words
  <2> QED  BY <1>8, <1>24, <2>1, <2>2, <2>3, RetDone
<1>25. CASE i = "push_af"
  <2>1. Template(i, at, n) = PushAf  BY <1>25, WhichTemplate
  <2>2. n = 0  BY <1>25, <1>7 DEF BitOps
  <2>3. at # "al"  BY <1>4, <1>25
  <2> QED  BY <1>8, <1>25, <2>1, <2>2, <2>3, PushAfDone
<1>26. CASE i = "pop_af"
  <2>1. Template(i, at, n) = PopAf  BY <1>26, WhichTemplate
  <2>2. n = 0  BY <1>26, <1>7 DEF BitOps
  <2>3. at # "al"  BY <1>4, <1>26
  <2> QED  BY <1>8, <1>26, <2>1, <2>2, <2>3, PopAfDone
<1> QED  BY <1>1, <1>9, <1>10, <1>11, <1>12, <1>13, <1>14, <1>15, <1>16, <1>17, <1>18, <1>19, <1>20, <1>21, <1>22, <1>23, <1>24, <1>25, <1>26
     DEF Operated, BitOps, Words

\* A template is the same for memory that faults as for memory that is
\* mapped, and so is the guest's instruction.
LEMMA FaultAsMapped ==
  ASSUME NEW i, NEW n, NEW s, NEW junk
  PROVE  /\ Template(i, "fault", n) = Template(i, "mapped", n)
         /\ Guest(i, s, "fault", n, junk) = Guest(i, s, "mapped", n, junk)
<1>1. TestOperand("fault") = TestOperand("mapped")  BY DEF TestOperand
<1>2. /\ RotateCb(i, "fault") = RotateCb(i, "mapped")
      /\ SwapCb("fault") = SwapCb("mapped")
  BY <1>1 DEF RotateCb, SwapCb
<1>3. Template(i, "fault", n) = Template(i, "mapped", n)  BY <1>2, Zenon DEF Template
<1>4. Guest(i, s, "fault", n, junk) = Guest(i, s, "mapped", n, junk)
  <2>1. "fault" # "al" /\ "mapped" # "al"  OBVIOUS
  <2> QED  BY <2>1 DEF Guest
<1> QED  BY <1>3, <1>4

\* A right form stays right with the operand in mapped memory.
LEMMA MappedForm ==
  ASSUME NEW i, <<i, "fault">> \in Sound
  PROVE  <<i, "mapped">> \in Sound
<1>1. i \in Arith \cup Logic \cup Rotate \cup Shift \cup BitOps \cup {"swap"}
  BY DEF Sound, AllForms
<1>2. <<i, "mapped">> \in AllForms  BY <1>1 DEF AllForms
<1> QED  BY <1>2 DEF Sound, SbcFault, WrongFlags, RotateCbA, Ccf

\* A guest instruction leaves no other flags than the three.
LEMMA GuestLeaves ==
  ASSUME NEW i \in Operated \cup {"scf"} \cup Words \cup {"push_af", "pop_af"},
         NEW s, s.flags \in SUBSET Flags, NEW v, NEW n, NEW junk \in SUBSET Flags
  PROVE  GuestFlags(i, s, v, n, junk) \in SUBSET Flags
<1>1. \A c : If(c, ZF) \in SUBSET Flags /\ If(c, CF) \in SUBSET Flags /\ If(c, AF) \in SUBSET Flags
  BY DEF If, Flags
<1>2. {CF} \in SUBSET Flags /\ {AF} \in SUBSET Flags /\ {ZF} \in SUBSET Flags  BY DEF Flags
<1>3. CASE i \in Arith
  <2>1. Mnemonic[i] \in Additive /\ (i \in {"inc", "dec"} => i \in Additive)
    BY <1>3, Mnemonics DEF Arith, Additive
  <2>2. CASE i \in {"inc", "dec"}
    <3>1. GuestFlags(i, s, v, n, junk) = (Sum(i, s, v, n).flags \ {CF}) \cup (s.flags \cap {CF})
      BY <2>2 DEF GuestFlags, Arith, Logic, RotateA, Rotate, Shift
    <3>2. Sum(i, s, v, n).flags \in SUBSET Flags  BY <2>1, <2>2, SumLeaves
    <3> QED  BY <3>1, <3>2, Zenon
  <2>3. CASE i \notin {"inc", "dec"}
    <3>1. GuestFlags(i, s, v, n, junk) = Sum(Mnemonic[i], s, v, n).flags
      BY <1>3, <2>3 DEF GuestFlags, Arith, Logic, RotateA, Rotate, Shift
    <3> QED  BY <2>1, <3>1, SumLeaves
  <2> QED  BY <2>2, <2>3
<1>4. CASE i \notin Arith
  <2> DEFINE x == GuestFlags(i, s, v, n, junk)
             z == If(GuestResult(i, s, v, n) = 0, ZF)
             c == If(Out(Mnemonic[i], v), CF)
             b == If(n \notin Bits(v), ZF)
             f == Bits(s.word[1])
             p == If(7 \in f, ZF) \cup If(5 \in f, AF) \cup If(4 \in f, CF)
  <2>1. x \in {z \cup {AF}, c, z \cup c, z, b \cup (s.flags \cap {CF}) \cup {AF},
               s.flags \cup {AF}, (s.flags \cap {ZF}) \cup {CF},
               (s.flags \cap {ZF}) \cup (junk \ {ZF}), junk \ {ZF}, p, s.flags}
    <3>1. /\ i \in Logic => x = z \cup {AF}
          /\ i \in RotateA => x = c
          /\ i \in Rotate \cup Shift => x = z \cup c
          /\ i = "swap" => x = z
          /\ i = "bit" => x = b \cup (s.flags \cap {CF}) \cup {AF}
          /\ i = "cpl" => x = s.flags \cup {AF}
          /\ i = "scf" => x = (s.flags \cap {ZF}) \cup {CF}
          /\ i = "add_hl" => x = (s.flags \cap {ZF}) \cup (junk \ {ZF})
          /\ i = "ld_hl_sp" => x = junk \ {ZF}
          /\ i = "pop_af" => x = p
          /\ i \in {"res", "set", "inc_rr", "push", "ret", "push_af"} => x = s.flags
      BY DEF GuestFlags, Arith, Logic, RotateA, Rotate, Shift
    <3> HIDE DEF x, z, c, b, p
    <3> QED  BY <1>4, <3>1 DEF Operated, Words, BitOps
  <2>2. z \in SUBSET Flags /\ c \in SUBSET Flags /\ b \in SUBSET Flags /\ p \in SUBSET Flags
    BY <1>1
  <2> HIDE DEF x, z, c, b, p
  <2>3. x \in SUBSET Flags  BY <1>2, <2>1, <2>2
  <2> QED  BY <2>3 DEF x
<1> QED  BY <1>3, <1>4

\* The result of a guest instruction is a byte.
LEMMA GuestByte ==
  ASSUME NEW i \in Operated, NEW s, s.al \in Byte, NEW v \in Byte, NEW n \in BitNumbers(i)
  PROVE  GuestResult(i, s, v, n) \in Byte
<1>1. CASE i \in {"res", "set"}
  <2>1. n \in ByteBits  BY <1>1 DEF BitNumbers, BitOps, ByteBits
  <2>2. Bits(v) \subseteq ByteBits  BY ByteOfBits
  <2>3. Bits(v) \ {n} \in SUBSET ByteBits /\ Bits(v) \cup {n} \in SUBSET ByteBits
    BY <2>1, <2>2
  <2>4. Number(Bits(v) \ {n}) \in Byte /\ Number(Bits(v) \cup {n}) \in Byte
    BY <2>3, ByteOfBits, Zenon
  <2> QED  BY <1>1, <2>4 DEF GuestResult
<1>2. CASE i \notin {"res", "set"}
  <2>1. GuestResult(i, s, v, n) = Result(Mnemonic[i], s, v, n)  BY <1>2 DEF GuestResult
  <2>2. Mnemonic[i] \in Operations
    BY <1>2, Mnemonics DEF Operated, Arith, Logic, RotateA, Rotate, Shift, BitOps,
       Operations, WithAl, WithImm, InPlace, Compares
  <2>3. n \in Byte
    <3>1. n \in {0} \/ n \in ByteBits  BY DEF BitNumbers, ByteBits
    <3>2. 0 \in Byte  BY HalfAssumption DEF Byte, B
    <3>3. ByteBits \subseteq Byte
      <4>1. CASE Half = 2  BY <4>1, Widths DEF Byte
      <4>2. CASE Half = 4  BY <4>2, Widths DEF Byte
      <4>3. CASE Half = 8  BY <4>3, Widths DEF Byte
      <4>4. CASE Half = 16  BY <4>4, Widths DEF Byte
      <4> QED  BY <4>1, <4>2, <4>3, <4>4, HalfAssumption
    <3> QED  BY <3>1, <3>2, <3>3
  <2> QED  BY <2>1, <2>2, <2>3, ResultByte
<1> QED  BY <1>1, <1>2

\* After a guest instruction A is a byte, and the processor has not stopped.
LEMMA GuestTyped ==
  ASSUME NEW al \in Byte, NEW g \in SUBSET Flags, NEW v \in Byte, NEW low,
         NEW s, s = State(al, 0, g, v, <<low, v>>, <<>>),
         NEW i, NEW at, <<i, at>> \in Sound, NEW n \in BitNumbers(i), NEW junk \in Junk(i),
         NEW t, t = Observed(Guest(i, s, at, n, junk))
  PROVE  t.al \in Byte /\ t.flags \in SUBSET Flags /\ ~t.dead
<1> DEFINE x == Operand(at, al, v)
           h == GuestFlags(i, s, x, n, junk)
           r == GuestResult(i, s, x, n)
<1>1. i \in Operated \cup {"scf"} \cup Words \cup {"push_af", "pop_af"}  BY RightForms
<1>2. junk \in SUBSET Flags  BY DEF Junk, Flags
<1>3. s.al \in Byte /\ s.flags \in SUBSET Flags  BY Parts
<1>4. x \in Byte  BY DEF Operand
<1>5. h \in SUBSET Flags  BY <1>1, <1>2, <1>3, GuestLeaves
<1>6. CASE i \in Operated
  <2>1. r \in Byte  BY <1>3, <1>4, <1>6, GuestByte
  <2>2. t = Done(Mnemonic[i], at, r, al, 0, h, v, <<low, v>>, <<>>)
    BY <1>6, GuestDone
  <2> HIDE DEF r, h
  <2>3. LeftAl(Mnemonic[i], at, r, al) \in Byte  BY <2>1 DEF LeftAl
  <2> QED  BY <1>5, <2>2, <2>3, Parts DEF Done
<1>7. CASE i \in {"scf"} \cup Words
  <2>1. i \in {"scf", "add_hl", "inc_rr", "ld_hl_sp", "push", "ret"}  BY <1>7 DEF Words
  <2>2. t = State(al, 0, h, v, <<low, v>>, <<>>)  BY <2>1, GuestPlain
  <2> HIDE DEF h
  <2> QED  BY <1>5, <2>2, Parts
<1>8. CASE i = "push_af"
  <2>1. t = State(al, 0, g, v, <<F(s), al>>, <<>>)  BY <1>8, GuestPushAf
  <2> QED  BY <2>1, Parts
<1>9. CASE i = "pop_af"
  <2>1. t = State(<<low, v>>[2], 0, h, v, <<low, v>>, <<>>)  BY <1>9, GuestPopAf
  <2> HIDE DEF h
  <2> QED  BY <1>5, <2>1, Parts
<1> QED  BY <1>1, <1>6, <1>7, <1>8, <1>9

----------------------------------------------------------------------------
(* The specification                                                        *)

\* A and the flags are always a byte and flags.
CpuTyped == cpu \in [al : Byte, flags : SUBSET Flags]

\* The inductive invariant: what the last instruction left is checked by the
\* two properties, and the next one finds a byte in A.
Checked == CpuTyped /\ GuestInstruction /\ Transparent

\* Executing one guest instruction establishes the invariant.
LEMMA Executed ==
  ASSUME CpuTyped, NEW i, NEW at, <<i, at>> \in Sound, NEW v \in Operands(i, at),
         NEW n \in BitNumbers(i), NEW low, NEW junk \in Junk(i),
         Execute(i, at, v, n, low, junk)
  PROVE  Checked'
<1> DEFINE s == State(cpu.al, 0, cpu.flags, v, <<low, v>>, <<>>)
           out == Run(Template(i, at, n), s, at, junk)
           mapped == Run(Template(i, at, n), s, "mapped", junk)
           guest == Guest(i, s, at, n, junk)
           dies == at = "fault" /\ i \in Unhandled
           m == IF at = "fault" THEN Observed(mapped) ELSE Observed(out)
<1>1. cpu.al \in Byte /\ cpu.flags \in SUBSET Flags  BY DEF CpuTyped
<1>2. v \in Byte
  <2>1. 0 \in Byte  BY HalfAssumption DEF Byte, B
  <2> QED  BY <2>1 DEF Operands
<1>3. /\ cpu' = [al |-> out.al, flags |-> out.flags]
      /\ step' = [insn |-> i, at |-> at, out |-> Observed(out), guest |-> Observed(guest),
                  mapped |-> m]
  BY DEF Execute, State
<1>4. ~dies => Observed(out) = Observed(guest)
  BY <1>1, <1>2, FormDone
<1>5. at = "fault" => Observed(mapped) = Observed(guest)
  <2> SUFFICES ASSUME at = "fault" PROVE Observed(mapped) = Observed(guest)  OBVIOUS
  <2>1. <<i, "mapped">> \in Sound  BY MappedForm
  <2>2. Observed(Run(Template(i, "mapped", n), s, "mapped", junk))
          = Observed(Guest(i, s, "mapped", n, junk))
    <3>1. "mapped" = "fault" => i \notin Unhandled  OBVIOUS
    <3> HIDE DEF s
    <3>2. s = State(cpu.al, 0, cpu.flags, v, <<low, v>>, <<>>)  BY DEF s
    <3> QED  BY <1>1, <1>2, <2>1, <3>1, <3>2, FormDone
  <2> QED  BY <2>2, FaultAsMapped
<1>6. dies => out = Ended(s)
  <2> SUFFICES ASSUME dies PROVE out = Ended(s)  OBVIOUS
  <2> DEFINE t == Template(i, at, n)
  <2>1. t[1][1] \in Operations \ Known /\ Len(t) \in Nat \ {0}  BY FirstOfTemplate
  <2>2. s = State(cpu.al, 0, cpu.flags, v, <<low, v>>, <<>>)  OBVIOUS
  <2> HIDE DEF s, t
  <2>3. Run(t, s, "fault", junk) = Ended(s)  BY <2>1, <2>2, Dies
  <2> QED  BY <2>3 DEF t
<1>7. Observed(guest).al \in Byte /\ Observed(guest).flags \in SUBSET Flags /\ ~Observed(guest).dead
  BY <1>1, <1>2, GuestTyped
<1>8. \A x : Observed(x).al = x.al /\ Observed(x).flags = x.flags /\ Observed(x).dead = x.dead
  BY DEF Observed
<1>9. CpuTyped'
  <2>1. CASE dies
    <3>1. out.al = cpu.al /\ out.flags = cpu.flags  BY <1>6, <2>1 DEF State, Ended
    <3> QED  BY <1>1, <1>3, <3>1 DEF CpuTyped
  <2>2. CASE ~dies
    <3>1. out.al \in Byte /\ out.flags \in SUBSET Flags  BY <1>4, <1>7, <1>8, <2>2
    <3> QED  BY <1>3, <3>1 DEF CpuTyped
  <2> QED  BY <2>1, <2>2
<1>10. GuestInstruction'
  <2>1. step'.at = at /\ step'.out = Observed(out) /\ step'.guest = Observed(guest)  BY <1>3
  <2> QED  BY <1>4, <2>1 DEF GuestInstruction
<1>11. Transparent'
  <2>1. step'.out = Observed(out) /\ step'.mapped = m  BY <1>3
  <2>2. dies => Observed(out).dead  BY <1>6, <1>8 DEF State, Ended
  <2> HIDE DEF out, mapped, guest
  <2>3. ~dies => m = Observed(out)  BY <1>4, <1>5
  <2> QED  BY <2>1, <2>2, <2>3 DEF Transparent
<1> QED  BY <1>9, <1>10, <1>11 DEF Checked

\* The invariant always holds if the forms that are wrong are not executed.
LEMMA AlwaysChecked ==
  ASSUME Forms \cap (SbcFault \cup WrongFlags) = {}
  PROVE  Spec => []Checked
<1>1. Init => Checked  BY DEF Init, Checked, CpuTyped, GuestInstruction, Transparent
<1>2. Checked /\ [Next]_vars => Checked'
  <2> SUFFICES ASSUME Checked, [Next]_vars PROVE Checked'  OBVIOUS
  <2>1. CASE UNCHANGED vars
    BY <2>1 DEF vars, Checked, CpuTyped, GuestInstruction, Transparent
  <2>2. CASE Continue
    BY <2>2 DEF Continue, Checked, CpuTyped, GuestInstruction, Transparent
  <2>3. CASE \E f \in Forms :
               \E v \in Operands(f[1], f[2]), n \in BitNumbers(f[1]),
                  low \in LowBytes(f[1]), junk \in Junk(f[1]) :
                 Execute(f[1], f[2], v, n, low, junk)
    <3>1. PICK f \in Forms :
            \E v \in Operands(f[1], f[2]), n \in BitNumbers(f[1]),
               low \in LowBytes(f[1]), junk \in Junk(f[1]) :
              Execute(f[1], f[2], v, n, low, junk)
      BY <2>3
    <3>2. PICK v \in Operands(f[1], f[2]), n \in BitNumbers(f[1]),
               low \in LowBytes(f[1]), junk \in Junk(f[1]) :
            Execute(f[1], f[2], v, n, low, junk)
      BY <3>1
    <3>3. f \in Sound  BY FormsAssumption DEF Sound
    <3>4. f = <<f[1], f[2]>>  BY <3>3 DEF Sound, AllForms
    <3> DEFINE i == f[1]
               at == f[2]
    <3> HIDE DEF i, at
    <3>5. <<i, at>> \in Sound /\ Execute(i, at, v, n, low, junk)
      BY <3>2, <3>3, <3>4 DEF i, at
    <3>6. v \in Operands(i, at) /\ n \in BitNumbers(i) /\ junk \in Junk(i)
      BY <3>2 DEF i, at
    <3> QED  BY <3>5, <3>6, Executed DEF Checked
  <2> QED  BY <2>1, <2>2, <2>3 DEF Next
<1> QED  BY <1>1, <1>2, PTL DEF Spec

\* Whatever was executed before, every template leaves in A, in the operand,
\* in the flags and on the host's stack what its guest instruction says
\* (ops.c), for bytes of up to eight bits, every operand and every outcome of
\* what x86 leaves undefined.
THEOREM TemplatesExact ==
  ASSUME Forms \cap (SbcFault \cup WrongFlags) = {}
  PROVE  Spec => []GuestInstruction
<1>1. Checked => GuestInstruction  BY DEF Checked
<1> QED  BY <1>1, AlwaysChecked, PTL

\* And whether the operand is in mapped memory or faults and is executed by
\* the signal handler (x86_execute, catcher.c) makes no difference, unless the
\* handler gives up.
THEOREM FaultsTransparent ==
  ASSUME Forms \cap (SbcFault \cup WrongFlags) = {}
  PROVE  Spec => []Transparent
<1>1. Checked => Transparent  BY DEF Checked
<1> QED  BY <1>1, AlwaysChecked, PTL
===========================================================================
