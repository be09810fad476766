---------------------------- MODULE MachineProofs ----------------------------
(***************************************************************************)
(* Proofs about module Machine: the loop with its devices, whose calls of  *)
(* update_cpu are nested, implements the run loop of RunLoop, where one    *)
(* call raises any sources, accepts one of them and raises more.           *)
(***************************************************************************)
EXTENDS Machine, Numbers

\* The constants are numbers.
LEMMA Sizes ==
  /\ AddrCount \in Nat \ {0} /\ Slots \in Nat \ {0}
  /\ LineCycles \in Nat \ {0} /\ DmaCycles \in Nat \ {0} /\ DmaCycles < LineCycles
  /\ TimerDiv \in Nat \ {0} /\ TimaRange \in Nat \ {0} /\ LineCount \in Nat \ {0}
BY LineAssumption, SizeAssumption

\* The fields that are numbers.
LEMMA Fields ==
  ASSUME NEW s \in States
  PROVE  /\ s.cyc \in Nat /\ s.ly \in 0 .. LineCount - 1 /\ s.left \in Int
         /\ s.tima \in 0 .. TimaRange - 1 /\ s.cum \in 0 .. TimerDiv - 1
         /\ s.due \in Int /\ s.merged \in Int /\ s.blk \in Nat /\ s.gone \in Nat /\ s.debt \in Int
         /\ s.ip \in Addr /\ s.sp \in Slot
BY DEF States

\* Stack pointers and program counters wrap around.
LEMMA Wraps ==
  /\ \A sp \in Slot : Down(sp) \in Slot /\ Up(sp) \in Slot
  /\ \A a \in Addr : (a + 1) % AddrCount \in Addr
BY Sizes DEF Slot, Addr, Down, Up

----------------------------------------------------------------------------
(* What a part of a call does                                               *)

\* Nothing is accepted.
Stayed(s, e) ==
  /\ e.ime = s.ime /\ e.ip = s.ip /\ e.sp = s.sp /\ e.mem = s.mem
  /\ e.issued = s.issued /\ e.owed = s.owed
  /\ s.flag \subseteq e.flag

\* Of the requests req the first, i, is accepted; later ones follow.
Jumped(s, e, req, i, later) ==
  /\ s.flag \subseteq req /\ req \subseteq Sources /\ later \subseteq Sources
  /\ i \in req \cap s.ie /\ \A j \in req \cap s.ie : i <= j
  /\ s.ime = TRUE /\ e.ime = FALSE
  /\ e.flag = (req \ {i}) \cup later
  /\ e.ip = Vector(i) /\ e.sp = Down(s.sp)
  /\ e.mem = [s.mem EXCEPT ![Down(s.sp)] = s.ip]
  /\ e.issued = TRUE
  /\ e.owed = [src |-> i, ret |-> s.ip, from |-> "loop"]

Accepted(s, e) == \E req, later : \E i : Jumped(s, e, req, i, later)

\* The rest of the loop's state is not touched.
Kept(s, e) ==
  /\ e.program = s.program /\ e.skips = s.skips /\ e.pc = s.pc /\ e.ie = s.ie
  /\ e.ebp = s.ebp /\ e.eip = s.eip /\ e.blk = s.blk /\ e.gone = s.gone
  /\ e.debt = s.debt

\* A VBlank is accepted and not yet entered.
OwesVBlank(s) == s.owed # None /\ s.owed.src = VBLANK

\* Every VBlank that is due was merged into a request, is requested or has
\* been accepted, and while something is accepted nothing else can be.
Counted(s) ==
  /\ s.owed # None => s.ime = FALSE
  /\ s.due = s.merged + Num(VBLANK \in s.flag) + Num(OwesVBlank(s))

\* The blocks that a transfer has still to copy.
ToCopy(s) == IF ~s.hdma THEN 0 ELSE IF s.left > 0 THEN s.left + 1 ELSE 1

\* A part of a call of update_cpu, any number of calls nested in it, leads
\* from s to e: at most one interrupt is accepted, and no VBlank is lost.
Part(s, e) ==
  /\ e \in States /\ Kept(s, e)
  /\ Stayed(s, e) \/ Accepted(s, e)
  /\ Counted(s) => Counted(e)
  /\ ToCopy(e) <= ToCopy(s)

\* It is a number, and depends on two fields.
LEMMA Copies ==
  ASSUME NEW s \in States
  PROVE  /\ ToCopy(s) \in Nat
         /\ \A e : e.left = s.left /\ e.hdma = s.hdma => ToCopy(e) <= ToCopy(s)
<1>1. ToCopy(s) \in Nat  BY Fields DEF ToCopy
<1>2. ASSUME NEW e, e.left = s.left, e.hdma = s.hdma PROVE ToCopy(e) = ToCopy(s)
  BY <1>2, Zenon DEF ToCopy
<1>3. ToCopy(s) <= ToCopy(s)  BY <1>1
<1> QED  BY <1>1, <1>2, <1>3, Zenon

\* Whoever begins and ends no VBlank and accepts nothing keeps the count.
LEMMA SameCount ==
  ASSUME NEW s, NEW e, Stayed(s, e), e.due = s.due, e.merged = s.merged,
         VBLANK \in e.flag => VBLANK \in s.flag
  PROVE  Counted(s) => Counted(e)
<1>1. e.owed = s.owed /\ e.ime = s.ime /\ s.flag \subseteq e.flag  BY Zenon DEF Stayed
<1>2. Num(VBLANK \in e.flag) = Num(VBLANK \in s.flag)
  <2>1. VBLANK \in e.flag <=> VBLANK \in s.flag  BY <1>1, Zenon
  <2> QED  BY <2>1, Zenon DEF Num
<1>3. Num(OwesVBlank(e)) = Num(OwesVBlank(s))  BY <1>1, Zenon DEF OwesVBlank
<1> QED  BY <1>1, <1>2, <1>3, Zenon DEF Counted

\* The parts of a call add up: whoever comes after an acceptance finds the
\* master enable off.
LEMMA PartSum ==
  ASSUME NEW s \in States, NEW t, NEW e, Part(s, t), Part(t, e)
  PROVE  Part(s, e)
<1>1. t \in States /\ e \in States /\ Kept(s, e) /\ t.ie = s.ie
  BY Zenon DEF Part, Kept
<1>2. Counted(s) => Counted(e)  BY Zenon DEF Part
<1>3. ToCopy(e) <= ToCopy(s)
  <2>1. ToCopy(t) <= ToCopy(s) /\ ToCopy(e) <= ToCopy(t)  BY Zenon DEF Part
  <2>2. ToCopy(s) \in Nat /\ ToCopy(t) \in Nat /\ ToCopy(e) \in Nat  BY <1>1, Copies
  <2> QED  BY <2>1, <2>2
<1>4. t.flag \subseteq Sources /\ e.flag \subseteq Sources  BY <1>1, Zenon DEF States
<1>5. CASE Stayed(s, t) /\ Stayed(t, e)
  <2>1. Stayed(s, e)  BY <1>5 DEF Stayed
  <2> QED  BY <1>1, <1>3, <1>2, <2>1, Zenon DEF Part
<1>6. CASE Stayed(s, t) /\ Accepted(t, e)
  <2>1. PICK req, later : \E i : Jumped(t, e, req, i, later)  BY <1>6 DEF Accepted
  <2>2. PICK i : Jumped(t, e, req, i, later)  BY <2>1
  <2>3. s.flag \subseteq req  BY <1>6, <2>2 DEF Stayed, Jumped
  <2>4. Jumped(s, e, req, i, later)
    BY <1>1, <1>6, <2>2, <2>3, Zenon DEF Stayed, Jumped
  <2> QED  BY <1>1, <1>3, <1>2, <2>4, Zenon DEF Part, Accepted
<1>7. CASE Accepted(s, t) /\ Stayed(t, e)
  <2>1. PICK req, later : \E i : Jumped(s, t, req, i, later)  BY <1>7 DEF Accepted
  <2>2. PICK i : Jumped(s, t, req, i, later)  BY <2>1
  <2> DEFINE more == later \cup e.flag
  <2>3. t.flag = (req \ {i}) \cup later /\ later \subseteq Sources /\ t.flag \subseteq e.flag
    BY <1>7, <2>2, Zenon DEF Jumped, Stayed
  <2>4. e.flag = (req \ {i}) \cup more /\ more \subseteq Sources
    BY <1>4, <2>3
  <2> HIDE DEF more
  <2>5. Jumped(s, e, req, i, more)
    BY <1>7, <2>2, <2>4, Zenon DEF Stayed, Jumped
  <2> QED  BY <1>1, <1>3, <1>2, <2>5, Zenon DEF Part, Accepted
<1>8. ~(Accepted(s, t) /\ Accepted(t, e))
  <2>1. Accepted(s, t) => t.ime = FALSE  BY Zenon DEF Accepted, Jumped
  <2>2. Accepted(t, e) => t.ime = TRUE  BY Zenon DEF Accepted, Jumped
  <2> QED  BY <2>1, <2>2
<1> QED  BY <1>5, <1>6, <1>7, <1>8, Zenon DEF Part

\* Every state is a part that is over already.
LEMMA Still ==
  ASSUME NEW s \in States
  PROVE  Part(s, s)
BY Copies DEF Part, Kept, Stayed

----------------------------------------------------------------------------
(* The parts                                                                *)

\* inc_timer before its line loop: the timer and the clock.
Begun(s, c) == [Ticks(s, c) EXCEPT !.cyc = @ + c]

\* Nothing is accepted, and c cycles pass.
LEMMA BegunPart ==
  ASSUME NEW s \in States, NEW c \in Nat
  PROVE  /\ Part(s, Begun(s, c)) /\ Stayed(s, Begun(s, c))
         /\ Begun(s, c).cyc = s.cyc + c
<1> DEFINE n    == (s.cum + c) \div TimerDiv
           cum  == (s.cum + c) % TimerDiv
           tima == (s.tima + n) % TimaRange
           flag == IF s.tima + n >= TimaRange THEN s.flag \cup {TIMER} ELSE s.flag
           t    == [s EXCEPT !.cum = cum, !.tima = tima, !.flag = flag]
           e    == [t EXCEPT !.cyc = t.cyc + c]
<1>1. cum \in 0 .. TimerDiv - 1 /\ tima \in 0 .. TimaRange - 1
  <2>1. n \in Int /\ cum \in 0 .. TimerDiv - 1  BY Fields, Sizes
  <2> HIDE DEF n
  <2> QED  BY <2>1, Fields, Sizes
<1>2. flag \in SUBSET Sources /\ s.flag \subseteq flag
  <2>1. s.flag \subseteq Sources /\ TIMER \in Sources  BY Zenon DEF States, Sources
  <2> QED  BY <2>1, Zenon
<1>3. Begun(s, c) = e  BY Zenon DEF Begun, Ticks
<1> HIDE DEF cum, tima, flag
<1>4. t \in States  BY <1>1, <1>2, Zenon DEF States
<1>5. /\ Kept(s, t) /\ t.cyc = s.cyc /\ t.left = s.left /\ t.hdma = s.hdma
      /\ t.due = s.due /\ t.merged = s.merged /\ t.flag = flag
  BY Zenon DEF States, Kept
<1>6. Stayed(s, t)  BY <1>2, Zenon DEF States, Stayed
<1> HIDE DEF t
<1>7. t.cyc + c \in Nat  BY <1>4, Fields
<1>8. e \in States  BY <1>4, <1>7, Zenon DEF States
<1>9. /\ Kept(s, e) /\ e.cyc = s.cyc + c /\ e.left = s.left /\ e.hdma = s.hdma
      /\ e.due = s.due /\ e.merged = s.merged /\ e.flag = flag
  BY <1>4, <1>5, Zenon DEF States, Kept
<1>10. Stayed(s, e)  BY <1>4, <1>6, Zenon DEF States, Stayed
<1> HIDE DEF e
<1>11. VBLANK \in flag => VBLANK \in s.flag  BY DEF flag, VBLANK, TIMER
<1>12. Counted(s) => Counted(e)  BY <1>9, <1>10, <1>11, SameCount, Zenon
<1> QED  BY <1>3, <1>8, <1>9, <1>10, <1>12, Copies DEF Part

\* A line is taken from lcd_cycles.
LineEnded(s) == [s EXCEPT !.cyc = @ - LineCycles]

\* The clock goes back by it.
LEMMA LineEndedPart ==
  ASSUME NEW s \in States, ~(s.cyc < LineCycles)
  PROVE  /\ Part(s, LineEnded(s)) /\ LineEnded(s).cyc = s.cyc - LineCycles
         /\ LineEnded(s).hdma = s.hdma
<1> DEFINE cyc == s.cyc - LineCycles
           e   == [s EXCEPT !.cyc = cyc]
<1>1. cyc \in Nat  BY Fields, Sizes
<1>2. LineEnded(s) = e  BY Zenon DEF LineEnded
<1> HIDE DEF cyc
<1>3. e \in States  BY <1>1, Zenon DEF States
<1>4. /\ Kept(s, e) /\ e.cyc = cyc /\ e.left = s.left /\ e.hdma = s.hdma
      /\ e.due = s.due /\ e.merged = s.merged /\ e.flag = s.flag
  BY Zenon DEF States, Kept
<1>5. Stayed(s, e)  BY Zenon DEF States, Stayed
<1> HIDE DEF e
<1>6. Counted(s) => Counted(e)  BY <1>4, <1>5, SameCount, Zenon
<1> QED  BY <1>2, <1>3, <1>4, <1>5, <1>6, Copies DEF Part, cyc

\* LY goes on to the next line.
LEMMA NextLinePart ==
  ASSUME NEW s \in States
  PROVE  Part(s, NextLine(s)) /\ NextLine(s).cyc = s.cyc
<1> DEFINE ly   == (s.ly + 1) % LineCount
           flag == IF ly = Visible THEN s.flag \cup {VBLANK} ELSE s.flag
           due  == IF ly = Visible THEN s.due + 1 ELSE s.due
           merged == IF ly = Visible /\ VBLANK \in s.flag THEN s.merged + 1 ELSE s.merged
           e    == [s EXCEPT !.ly = ly, !.flag = flag, !.due = due, !.merged = merged]
<1>1. ly \in 0 .. LineCount - 1 /\ due \in Int /\ merged \in Int  BY Fields, Sizes
<1>2. flag \in SUBSET Sources /\ s.flag \subseteq flag
  <2>1. s.flag \subseteq Sources /\ VBLANK \in Sources  BY Zenon DEF States, Sources
  <2> QED  BY <2>1, Zenon
<1>3. NextLine(s) = e  BY Zenon DEF NextLine
<1> HIDE DEF ly, flag, due, merged
<1>4. e \in States  BY <1>1, <1>2, Zenon DEF States
<1>5. /\ Kept(s, e) /\ e.cyc = s.cyc /\ e.left = s.left /\ e.hdma = s.hdma
      /\ e.flag = flag /\ e.due = due /\ e.merged = merged
  BY Zenon DEF States, Kept
<1>6. Stayed(s, e)  BY <1>2, Zenon DEF States, Stayed
<1> HIDE DEF e
<1>7. Counted(s) => Counted(e)
  <2>1. CASE ly # Visible
    <3>1. flag = s.flag /\ due = s.due /\ merged = s.merged
      BY <2>1, Zenon DEF flag, due, merged
    <3> QED  BY <1>5, <1>6, <3>1, SameCount, Zenon
  <2>2. CASE ly = Visible
    <3>1. /\ Num(VBLANK \in flag) = 1 /\ due = s.due + 1
          /\ merged + 1 = s.merged + Num(VBLANK \in s.flag) + 1
      BY <2>2, Fields DEF flag, due, merged, Num
    <3>2. e.owed = s.owed /\ e.ime = s.ime  BY <1>6, Zenon DEF Stayed
    <3>3. Num(OwesVBlank(e)) = Num(OwesVBlank(s)) /\ Num(OwesVBlank(s)) \in Int
          /\ Num(VBLANK \in s.flag) \in Int
      BY <3>2 DEF OwesVBlank, Num
    <3> HIDE DEF ly, flag, due, merged
    <3>4. ASSUME s.due = s.merged + Num(VBLANK \in s.flag) + Num(OwesVBlank(s))
          PROVE  due = merged + Num(VBLANK \in flag) + Num(OwesVBlank(e))
      BY <1>1, <3>1, <3>3, <3>4, Fields
    <3> QED  BY <1>5, <3>2, <3>4, Zenon DEF Counted
  <2> QED  BY <2>1, <2>2
<1> QED  BY <1>3, <1>4, <1>5, <1>6, <1>7, Copies DEF Part

\* The request of STAT, if a line has ended.
Requested(s, b) == [s EXCEPT !.flag = IF b THEN @ \cup {STAT} ELSE @]

\* It is a request and no more.
LEMMA RequestedPart ==
  ASSUME NEW s \in States, NEW b
  PROVE  Part(s, Requested(s, b)) /\ Requested(s, b).cyc = s.cyc
<1> DEFINE flag == IF b THEN s.flag \cup {STAT} ELSE s.flag
           e    == [s EXCEPT !.flag = flag]
<1>1. flag \in SUBSET Sources /\ s.flag \subseteq flag
  <2>1. s.flag \subseteq Sources /\ STAT \in Sources  BY Zenon DEF States, Sources
  <2> QED  BY <2>1, Zenon
<1>2. Requested(s, b) = e  BY Zenon DEF Requested
<1> HIDE DEF flag
<1>3. e \in States  BY <1>1, Zenon DEF States
<1>4. /\ Kept(s, e) /\ e.cyc = s.cyc /\ e.left = s.left /\ e.hdma = s.hdma
      /\ e.due = s.due /\ e.merged = s.merged /\ e.flag = flag
  BY Zenon DEF States, Kept
<1>5. Stayed(s, e)  BY <1>1, Zenon DEF States, Stayed
<1> HIDE DEF e
<1>6. VBLANK \in flag => VBLANK \in s.flag  BY DEF flag, VBLANK, STAT
<1>7. Counted(s) => Counted(e)  BY <1>4, <1>5, <1>6, SameCount, Zenon
<1> QED  BY <1>2, <1>3, <1>4, <1>5, <1>7, Copies DEF Part

\* A block of a transfer is counted.
Block(s) == [s EXCEPT !.left = @ - 1, !.hdma = s.left > 0]

\* It is one less, and nothing else happens.
LEMMA BlockPart ==
  ASSUME NEW s \in States, s.hdma
  PROVE  /\ Part(s, Block(s)) /\ Block(s).cyc = s.cyc
         /\ ToCopy(Block(s)) < ToCopy(s)
<1> DEFINE left == s.left - 1
           hdma == s.left > 0
           e    == [s EXCEPT !.left = left, !.hdma = hdma]
<1>1. left \in Int  BY Fields
<1>2. hdma \in BOOLEAN  BY Fields
<1>3. Block(s) = e  BY Zenon DEF Block
<1> HIDE DEF left, hdma
<1>4. e \in States  BY <1>1, <1>2, Zenon DEF States
<1>5. /\ Kept(s, e) /\ e.cyc = s.cyc /\ e.left = left /\ e.hdma = hdma
      /\ e.due = s.due /\ e.merged = s.merged /\ e.flag = s.flag
  BY Zenon DEF States, Kept
<1>6. Stayed(s, e)  BY Zenon DEF States, Stayed
<1> HIDE DEF e
<1>7. ToCopy(e) < ToCopy(s)
  <2>1. ToCopy(s) = IF s.left > 0 THEN s.left + 1 ELSE 1  BY Zenon DEF ToCopy
  <2>2. ToCopy(e) = IF ~hdma THEN 0 ELSE IF left > 0 THEN left + 1 ELSE 1
    BY <1>5, Zenon DEF ToCopy
  <2> QED  BY <2>1, <2>2, Fields DEF left, hdma
<1>8. ToCopy(e) <= ToCopy(s)  BY <1>4, <1>7, Copies
<1>9. Counted(s) => Counted(e)  BY <1>5, <1>6, SameCount, Zenon
<1> QED  BY <1>3, <1>4, <1>5, <1>6, <1>7, <1>8, <1>9 DEF Part

\* An interrupt is accepted, or none can be.
LEMMA AcceptPart ==
  ASSUME NEW s \in States
  PROVE  /\ Part(s, Accept(s)) /\ Accept(s).cyc = s.cyc
         /\ Accept(s).left = s.left /\ Accept(s).hdma = s.hdma
         /\ ~(Accept(s).ime = TRUE /\ Accept(s).flag \cap s.ie # {})
<1> DEFINE open == s.flag \cap s.ie
<1>1. s.ime \in BOOLEAN  BY Zenon DEF States
<1>2. CASE ~s.ime \/ open = {}
  <2>1. Accept(s) = s  BY <1>2, Zenon DEF Accept
  <2>2. ~(s.ime = TRUE /\ open # {})  BY <1>1, <1>2
  <2> QED  BY <2>1, <2>2, Still
<1>3. CASE s.ime /\ open # {}
  <2> DEFINE i   == CHOOSE i \in open : \A j \in open : i <= j
             sp  == Down(s.sp)
             mem == [s.mem EXCEPT ![sp] = s.ip]
             owed == [src |-> i, ret |-> s.ip, from |-> "loop"]
             flag == s.flag \ {i}
             ip   == Vector(i)
             e    == [s EXCEPT !.ime = FALSE, !.sp = sp, !.mem = mem, !.flag = flag,
                               !.ip = ip, !.issued = TRUE, !.owed = owed]
  <2>1. s.flag \subseteq Sources /\ s.ie \subseteq Sources  BY Zenon DEF States
  <2>2. i \in open /\ \A j \in open : i <= j
    <3>1. open \subseteq Nat /\ open # {}  BY <1>3, <2>1 DEF Sources, VBLANK, STAT, TIMER
    <3> HIDE DEF open
    <3>2. \E k \in open : \A j \in open : k <= j  BY <3>1, LeastNumber
    <3> QED  BY <3>2, Zenon
  <2>3. Accept(s) = e
    <3>1. ~(~s.ime \/ open = {})  BY <1>3
    <3> QED  BY <3>1, Zenon DEF Accept
  <2> HIDE DEF i
  <2>4. i \in Sources /\ ip \in Addr  BY <2>1, <2>2, VectorAssumption
  <2>5. sp \in Slot /\ s.ip \in Addr  BY Fields, Wraps
  <2>6. mem \in [Slot -> Addr]
    <3>1. s.mem \in [Slot -> Addr]  BY Zenon DEF States
    <3> HIDE DEF sp
    <3> QED  BY <2>5, <3>1
  <2>7. owed \in Owed  BY <2>4, <2>5 DEF Owed
  <2>8. flag \in SUBSET Sources /\ flag = (s.flag \ {i}) \cup {} /\ FALSE \in BOOLEAN /\ TRUE \in BOOLEAN
    BY <2>1
  <2> HIDE DEF sp, mem, owed, flag, ip
  <2>9. e \in States
    BY <2>4, <2>5, <2>6, <2>7, <2>8, Zenon DEF States
  <2>10. /\ Kept(s, e) /\ e.cyc = s.cyc /\ e.left = s.left /\ e.hdma = s.hdma
         /\ e.due = s.due /\ e.merged = s.merged
    BY Zenon DEF States, Kept
  <2>11. /\ e.ime = FALSE /\ e.flag = flag /\ e.ip = ip /\ e.sp = sp /\ e.mem = mem
         /\ e.issued = TRUE /\ e.owed = owed
    BY Zenon DEF States
  <2> HIDE DEF e
  <2>12. Jumped(s, e, s.flag, i, {})
    <3>1. {} \subseteq Sources /\ s.flag \subseteq s.flag /\ s.ime = TRUE  BY <1>1, <1>3
    <3> QED
      BY <2>1, <2>2, <2>8, <2>11, <3>1, Zenon DEF Jumped, mem, owed, ip, sp
  <2>13. ASSUME Counted(s) PROVE Counted(e)
    <3>1. /\ ~OwesVBlank(s)
          /\ s.due = s.merged + Num(VBLANK \in s.flag) + Num(OwesVBlank(s))
      BY <1>1, <1>3, <2>13, Zenon DEF Counted, OwesVBlank
    <3>2. OwesVBlank(e) <=> i = VBLANK
      <4>1. owed # None /\ owed.src = i  BY <2>7, NoneAssumption, Zenon DEF owed
      <4> QED  BY <2>11, <4>1, Zenon DEF OwesVBlank
    <3>3. Num(VBLANK \in flag) + Num(OwesVBlank(e)) = Num(VBLANK \in s.flag)
      <4>1. i \in s.flag /\ flag = s.flag \ {i}  BY <2>2 DEF flag
      <4> QED  BY <3>2, <4>1 DEF Num
    <3>4. s.due = s.merged + Num(VBLANK \in flag) + Num(OwesVBlank(e))
      <4>1. Num(VBLANK \in flag) \in Int /\ Num(OwesVBlank(e)) \in Int
            /\ Num(OwesVBlank(s)) = 0
        BY <3>1 DEF Num
      <4> QED  BY <3>1, <3>3, <4>1, Fields
    <3> QED  BY <2>10, <2>11, <3>4, Zenon DEF Counted
  <2>14. Part(s, e)  BY <2>9, <2>10, <2>12, <2>13, Copies, Zenon DEF Part, Accepted
  <2> QED  BY <2>3, <2>10, <2>11, <2>14
<1> QED  BY <1>2, <1>3

----------------------------------------------------------------------------
(* The line loop                                                            *)

\* States without a line that is due.
Settled == {s \in States : s.cyc < LineCycles}

\* The line loop with loop in the place of its recursion.
LoopBody(loop, s) ==
  IF s.cyc < LineCycles THEN s
  ELSE LET r == LineEnded(s)
       IN loop[NextLine(IF s.hdma THEN Copy16(loop, r) ELSE r)]

\* A call of update_cpu depends on the loop at one place only.
LEMMA CallBy ==
  ASSUME NEW loop, NEW s \in States, NEW c \in Nat, loop[Begun(s, c)] \in Settled
  PROVE  LET p == Begun(s, c)
             e == UpdateCpuBy(loop, s, c)
         IN /\ e \in Settled
            /\ e.cyc = loop[p].cyc
            /\ ~(e.ime = TRUE /\ e.flag \cap e.ie # {})
            /\ Part(p, loop[p]) => Part(s, e)
<1> DEFINE p == Begun(s, c)
           l == loop[p]
           q == Requested(l, p.cyc >= LineCycles)
           e == Accept(q)
<1>1. UpdateCpuBy(loop, s, c) = e  BY Zenon DEF UpdateCpuBy, IncTimerBy, Begun, Requested
<1>2. Part(s, p) /\ p \in States  BY BegunPart, Zenon DEF Part
<1>3. l \in States /\ l.cyc < LineCycles  BY Zenon DEF Settled
<1> HIDE DEF l
<1>4. Part(l, q) /\ q \in States /\ q.cyc = l.cyc  BY <1>3, RequestedPart, Zenon DEF Part
<1> HIDE DEF p, q
<1>5. /\ Part(q, e) /\ e \in States /\ e.cyc = q.cyc /\ e.ie = q.ie
      /\ ~(e.ime = TRUE /\ e.flag \cap q.ie # {})
  BY <1>4, AcceptPart, Zenon DEF Part, Kept
<1> HIDE DEF e
<1>6. ASSUME Part(p, l) PROVE Part(s, e)
  <2>1. Part(s, l)  BY <1>2, <1>6, PartSum, Zenon
  <2>2. Part(s, q)  BY <1>3, <1>4, <2>1, PartSum, Zenon
  <2> QED  BY <1>4, <1>5, <2>2, PartSum, Zenon
<1>7. e \in Settled  BY <1>3, <1>4, <1>5, Zenon DEF Settled
<1> QED  BY <1>1, <1>4, <1>5, <1>6, <1>7, Zenon DEF l, p

\* A block of a transfer begins its call with less than a line more.
LEMMA BlockBegun ==
  ASSUME NEW s \in States, s.hdma
  PROVE  LET p == Begun(Block(s), DmaCycles)
         IN Block(s) \in States /\ p \in States /\ p.cyc = s.cyc + DmaCycles
<1>1. Block(s) \in States /\ Block(s).cyc = s.cyc  BY BlockPart, Zenon DEF Part
<1>2. DmaCycles \in Nat  BY Sizes
<1> DEFINE b == Block(s)
<1> HIDE DEF b
<1>3. b \in States => Begun(b, DmaCycles) \in States /\ Begun(b, DmaCycles).cyc = b.cyc + DmaCycles
  BY <1>2, BegunPart, Zenon DEF Part
<1> QED  BY <1>1, <1>3, Zenon DEF b

\* The copying of a block is a part, and the transfer is nearer to its end.
LEMMA CopyBy ==
  ASSUME NEW loop, NEW s \in States, s.hdma, loop[Begun(Block(s), DmaCycles)] \in Settled
  PROVE  LET p == Begun(Block(s), DmaCycles)
             e == Copy16(loop, s)
         IN /\ e \in Settled
            /\ e.cyc = loop[p].cyc
            /\ ~(e.ime = TRUE /\ e.flag \cap e.ie # {})
            /\ Part(p, loop[p]) => Part(s, e) /\ ToCopy(e) < ToCopy(s)
<1> DEFINE b == Block(s)
           p == Begun(b, DmaCycles)
           e == Copy16(loop, s)
<1>1. Part(s, b) /\ b \in States /\ ToCopy(b) < ToCopy(s)  BY BlockPart, Zenon DEF Part
<1>2. e = UpdateCpuBy(loop, b, DmaCycles)  BY Zenon DEF Copy16, Block
<1>3. DmaCycles \in Nat  BY Sizes
<1> HIDE DEF b, e
<1>4. /\ e \in Settled
      /\ e.cyc = loop[p].cyc
      /\ ~(e.ime = TRUE /\ e.flag \cap e.ie # {})
      /\ Part(p, loop[p]) => Part(b, e)
  BY <1>1, <1>2, <1>3, CallBy, Zenon DEF b
<1>5. ASSUME Part(p, loop[p]) PROVE Part(s, e) /\ ToCopy(e) < ToCopy(s)
  <2>1. Part(b, e)  BY <1>4, <1>5, Zenon
  <2>2. Part(s, e)  BY <1>1, <2>1, PartSum, Zenon
  <2>3. e \in States /\ ToCopy(e) <= ToCopy(b)  BY <2>1, Zenon DEF Part
  <2>4. ToCopy(e) < ToCopy(s)  BY <1>1, <2>3, Copies
  <2> QED  BY <2>2, <2>4
<1> QED  BY <1>4, <1>5, Zenon DEF b, e

\* What a pass of the loop leaves to do is less than what there was, when the
\* loop does what it should for less.
LEMMA LessToDo ==
  ASSUME NEW loop, NEW s \in States, ~(s.cyc < LineCycles),
         \A t \in States : t.cyc < s.cyc => loop[t] \in Settled
  PROVE  LET r == LineEnded(s)
             p == Begun(Block(r), DmaCycles)
             u == NextLine(IF s.hdma THEN Copy16(loop, r) ELSE r)
         IN /\ u \in States /\ u.cyc < s.cyc
            /\ s.hdma => p \in States /\ p.cyc < s.cyc
            /\ (s.hdma => Part(p, loop[p])) => Part(s, u)
<1> DEFINE r == LineEnded(s)
           p == Begun(Block(r), DmaCycles)
           v == IF s.hdma THEN Copy16(loop, r) ELSE r
           u == NextLine(v)
<1>1. Part(s, r) /\ r \in States /\ r.hdma = s.hdma /\ r.cyc = s.cyc - LineCycles
  BY LineEndedPart, Zenon DEF Part
<1> HIDE DEF r
<1>2. r.cyc < s.cyc /\ r.cyc + DmaCycles < s.cyc  BY <1>1, Fields, Sizes
<1>3. s.hdma => p \in States /\ p.cyc < s.cyc
  <2>1. s.hdma => p \in States /\ p.cyc = r.cyc + DmaCycles
    BY <1>1, BlockBegun, Zenon
  <2> QED  BY <1>2, <2>1
<1>4. /\ v \in States /\ v.cyc < s.cyc
      /\ (s.hdma => Part(p, loop[p])) => Part(s, v)
  <2>1. CASE ~s.hdma
    <3>1. v = r  BY <2>1
    <3> HIDE DEF v
    <3> QED  BY <1>1, <1>2, <3>1, Zenon
  <2>2. CASE s.hdma
    <3>1. loop[p] \in Settled  BY <1>3, <2>2
    <3>2. v = Copy16(loop, r)  BY <2>2
    <3> HIDE DEF p, v
    <3>3. /\ v \in Settled /\ v.cyc = loop[p].cyc
          /\ Part(p, loop[p]) => Part(r, v)
      BY <1>1, <2>2, <3>1, <3>2, CopyBy, Zenon DEF p
    <3>4. v \in States /\ v.cyc < s.cyc  BY <3>3, Fields, Sizes DEF Settled
    <3>5. ASSUME Part(p, loop[p]) PROVE Part(s, v)
      <4>1. Part(r, v)  BY <3>3, <3>5, Zenon
      <4> QED  BY <1>1, <4>1, PartSum, Zenon
    <3> QED  BY <2>2, <3>4, <3>5, Zenon
  <2> QED  BY <2>1, <2>2
<1> HIDE DEF v, p
<1>5. Part(v, u) /\ u \in States /\ u.cyc = v.cyc  BY <1>4, NextLinePart, Zenon DEF Part
<1> HIDE DEF u
<1>6. ASSUME Part(s, v) PROVE Part(s, u)  BY <1>4, <1>5, <1>6, PartSum, Zenon
<1>7. u.cyc < s.cyc  BY <1>4, <1>5
<1> QED  BY <1>3, <1>4, <1>5, <1>6, <1>7, Zenon DEF r, v, p, u

\* The same loop for less makes the same pass.
LEMMA SamePass ==
  ASSUME NEW f, NEW g, NEW s \in States,
         \A t \in States : t.cyc < s.cyc => f[t] \in Settled,
         \A t \in States : t.cyc < s.cyc => f[t] = g[t]
  PROVE  LoopBody(f, s) = LoopBody(g, s)
<1>1. CASE s.cyc < LineCycles  BY <1>1 DEF LoopBody
<1>2. CASE ~(s.cyc < LineCycles)
  <2> DEFINE r == LineEnded(s)
             p == Begun(Block(r), DmaCycles)
             u == NextLine(IF s.hdma THEN Copy16(f, r) ELSE r)
             w == NextLine(IF s.hdma THEN Copy16(g, r) ELSE r)
  <2>1. u \in States /\ u.cyc < s.cyc  BY <1>2, LessToDo, Zenon
  <2>2. s.hdma => p \in States /\ p.cyc < s.cyc  BY <1>2, LessToDo, Zenon
  <2>3. s.hdma => Copy16(f, r) = Copy16(g, r)
    <3>1. s.hdma => f[p] = g[p]  BY <2>2
    <3>2. \A loop : Copy16(loop, r) = Accept(Requested(loop[p], p.cyc >= LineCycles))
      BY Zenon DEF Copy16, UpdateCpuBy, IncTimerBy, Block, Begun, Requested
    <3> HIDE DEF p, r
    <3> QED  BY <3>1, <3>2, Zenon
  <2>4. u = w  BY <2>3, Zenon
  <2>5. f[u] = g[w]  BY <2>1, <2>4
  <2>6. LoopBody(f, s) = f[u] /\ LoopBody(g, s) = g[w]  BY <1>2, Zenon DEF LoopBody
  <2> QED  BY <2>5, <2>6
<1> QED  BY <1>1, <1>2

\* EndLines is what its definition says.
LEMMA EndLinesEquation == EndLines = [s \in States |-> LoopBody(EndLines, s)]
<1> DEFINE G == [f \in [States -> Settled] |-> [s \in States |-> LoopBody(f, s)]]
           m0 == [s \in States |-> s.cyc]
<1>1. ASSUME NEW f \in [States -> Settled], NEW s \in States
      PROVE  LoopBody(f, s) \in Settled
  <2>1. CASE s.cyc < LineCycles  BY <2>1 DEF LoopBody, Settled
  <2>2. CASE ~(s.cyc < LineCycles)
    <3> DEFINE r == LineEnded(s)
               u == NextLine(IF s.hdma THEN Copy16(f, r) ELSE r)
    <3>1. u \in States  BY <2>2, LessToDo, Zenon
    <3>2. LoopBody(f, s) = f[u]  BY <2>2, Zenon DEF LoopBody
    <3> HIDE DEF u
    <3> QED  BY <3>1, <3>2
  <2> QED  BY <2>1, <2>2
<1>2. G \in [[States -> Settled] -> [States -> Settled]]  BY <1>1
<1>3. m0 \in [States -> Nat]  BY Fields
<1>4. [States -> Settled] # {}
  <2>1. \A s \in States : [s EXCEPT !.cyc = 0] \in Settled
    <3>1. 0 \in Nat /\ 0 < LineCycles  BY Sizes
    <3>2. \A s \in States : [s EXCEPT !.cyc = 0] \in States /\ [s EXCEPT !.cyc = 0].cyc = 0
      BY <3>1, Zenon DEF States
    <3> QED  BY <3>1, <3>2, Zenon DEF Settled
  <2>2. [s \in States |-> [s EXCEPT !.cyc = 0]] \in [States -> Settled]  BY <2>1
  <2> QED  BY <2>2
<1>5. ASSUME NEW f \in [States -> Settled], NEW g \in [States -> Settled], NEW s \in States,
             \A t \in States : m0[t] < m0[s] => f[t] = g[t]
      PROVE  G[f][s] = G[g][s]
  <2>1. \A t \in States : t.cyc < s.cyc => f[t] = g[t] /\ f[t] \in Settled  BY <1>5
  <2>2. LoopBody(f, s) = LoopBody(g, s)  BY <2>1, SamePass
  <2> QED  BY <2>2
<1>6. PICK f \in [States -> Settled] : f = G[f]
  <2> HIDE DEF G, m0
  <2>1. \A f, g \in [States -> Settled] : \A s \in States :
          (\A t \in States : m0[t] < m0[s] => f[t] = g[t]) => G[f][s] = G[g][s]
    BY <1>5, Zenon
  <2>2. WellFounded(States, Settled, m0, G)
    BY <1>2, <1>3, <1>4, <2>1, Zenon DEF WellFounded
  <2> QED  BY <2>2, RecursiveFunction
<1>7. f = [s \in States |-> LoopBody(f, s)]  BY <1>6
<1> QED  BY <1>7, Zenon DEF EndLines, LoopBody, LineEnded

\* One pass of the loop.
LEMMA EndLinesStep ==
  ASSUME NEW s \in States
  PROVE  EndLines[s] = LoopBody(EndLines, s)
<1> DEFINE F == [t \in States |-> LoopBody(EndLines, t)]
<1>1. EndLines = F  BY EndLinesEquation
<1>2. F[s] = LoopBody(EndLines, s)  OBVIOUS
<1> QED  BY <1>1, <1>2

\* The loop is a part of a call, after which no line is due.
LEMMA EndLinesPart ==
  ASSUME NEW s \in States
  PROVE  EndLines[s] \in Settled /\ Part(s, EndLines[s])
<1> DEFINE Right(t) == EndLines[t] \in Settled /\ Part(t, EndLines[t])
           B == {t \in States : ~Right(t)}
           m0 == [t \in States |-> t.cyc]
<1> SUFFICES ASSUME B # {} PROVE FALSE  OBVIOUS
<1>1. \A t \in B : m0[t] \in Nat  BY Fields
<1>2. PICK b \in B : \A t \in B : ~(m0[t] < m0[b])
  <2> HIDE DEF B, m0
  <2> QED  BY <1>1, LeastMeasure
<1>3. \A t \in States : t.cyc < b.cyc => Right(t)  BY <1>2
<1>4. b \in States /\ EndLines[b] = LoopBody(EndLines, b) /\ ~Right(b)  BY EndLinesStep
<1>5. CASE b.cyc < LineCycles
  <2>1. LoopBody(EndLines, b) = b  BY <1>5 DEF LoopBody
  <2>2. b \in Settled /\ Part(b, b)  BY <1>4, <1>5, Still DEF Settled
  <2> QED  BY <1>4, <2>1, <2>2
<1>6. CASE ~(b.cyc < LineCycles)
  <2> DEFINE r == LineEnded(b)
             p == Begun(Block(r), DmaCycles)
             u == NextLine(IF b.hdma THEN Copy16(EndLines, r) ELSE r)
  <2>1. \A t \in States : t.cyc < b.cyc => EndLines[t] \in Settled  BY <1>3
  <2>2. /\ u \in States /\ u.cyc < b.cyc
        /\ b.hdma => p \in States /\ p.cyc < b.cyc
        /\ (b.hdma => Part(p, EndLines[p])) => Part(b, u)
    BY <1>4, <1>6, <2>1, LessToDo, Zenon
  <2>3. LoopBody(EndLines, b) = EndLines[u]  BY <1>6, Zenon DEF LoopBody
  <2> HIDE DEF u, p
  <2>4. Part(b, u)  BY <1>3, <2>2, Zenon
  <2>5. EndLines[u] \in Settled /\ Part(u, EndLines[u])  BY <1>3, <2>2
  <2>6. Part(b, EndLines[u])  BY <1>4, <2>2, <2>4, <2>5, PartSum, Zenon
  <2> QED  BY <1>4, <2>3, <2>5, <2>6, Zenon
<1> QED  BY <1>5, <1>6

\* A call of update_cpu accepts at most one interrupt, with all that is
\* nested in it, and leaves none that could be accepted.
LEMMA UpdateCpuPart ==
  ASSUME NEW s \in States, NEW c \in Nat
  PROVE  LET e == UpdateCpu(s, c)
         IN /\ Part(s, e) /\ e \in Settled
            /\ ~(e.ime = TRUE /\ e.flag \cap e.ie # {})
<1> DEFINE p == Begun(s, c)
<1>1. p \in States  BY BegunPart, Zenon DEF Part
<1>2. EndLines[p] \in Settled /\ Part(p, EndLines[p])  BY <1>1, EndLinesPart
<1> DEFINE e == UpdateCpuBy(EndLines, s, c)
<1>3. /\ e \in Settled /\ ~(e.ime = TRUE /\ e.flag \cap e.ie # {})
      /\ Part(p, EndLines[p]) => Part(s, e)
  BY <1>2, CallBy, Zenon
<1>4. UpdateCpu(s, c) = e  BY Zenon DEF UpdateCpu
<1> HIDE DEF e
<1> QED  BY <1>2, <1>3, <1>4, Zenon

\* So does the copying of a block.
LEMMA CopyPart ==
  ASSUME NEW s \in States, s.hdma
  PROVE  LET e == Copy16(EndLines, s)
         IN /\ Part(s, e) /\ e \in Settled /\ ToCopy(e) < ToCopy(s)
            /\ ~(e.ime = TRUE /\ e.flag \cap e.ie # {})
<1> DEFINE p == Begun(Block(s), DmaCycles)
<1>1. p \in States  BY BlockBegun, Zenon
<1>2. EndLines[p] \in Settled /\ Part(p, EndLines[p])  BY <1>1, EndLinesPart
<1> QED  BY <1>2, CopyBy, Zenon

\* Nothing can be accepted.
Closed(e) == ~(e.ime = TRUE /\ e.flag \cap e.ie # {})

\* CopyAll is what its definition says.
LEMMA CopyAllEquation ==
  CopyAll = [s \in States |-> IF s.hdma THEN CopyAll[Copy16(EndLines, s)] ELSE s]
<1> DEFINE G == [f \in [States -> States] |->
                   [s \in States |-> IF s.hdma THEN f[Copy16(EndLines, s)] ELSE s]]
           m0 == [s \in States |-> ToCopy(s)]
<1>1. \A s \in States : s.hdma => /\ Copy16(EndLines, s) \in States
                                  /\ ToCopy(Copy16(EndLines, s)) < ToCopy(s)
  BY CopyPart, Zenon DEF Part
<1>2. \A s \in States : s.hdma => Copy16(EndLines, s) \in States  BY <1>1
<1>3. G \in [[States -> States] -> [States -> States]]  BY <1>2
<1>4. m0 \in [States -> Nat]  BY Copies
<1>5. [States -> States] # {}
  <2>1. [s \in States |-> s] \in [States -> States]  OBVIOUS
  <2> QED  BY <2>1
<1>6. ASSUME NEW f \in [States -> States], NEW g \in [States -> States], NEW s \in States,
             \A t \in States : m0[t] < m0[s] => f[t] = g[t]
      PROVE  G[f][s] = G[g][s]
  <2>1. s.hdma => m0[Copy16(EndLines, s)] < m0[s]
    <3> DEFINE r == Copy16(EndLines, s)
    <3>1. s.hdma => r \in States /\ ToCopy(r) < ToCopy(s)  BY <1>1, Zenon
    <3> HIDE DEF r
    <3>2. s.hdma => m0[r] < m0[s]  BY <3>1
    <3> QED  BY <3>2 DEF r
  <2>2. s.hdma => f[Copy16(EndLines, s)] = g[Copy16(EndLines, s)]
    <3> HIDE DEF m0
    <3> QED  BY <1>2, <1>6, <2>1, Zenon
  <2> QED  BY <2>2
<1>7. PICK f \in [States -> States] : f = G[f]
  <2> HIDE DEF G, m0
  <2>1. \A f, g \in [States -> States] : \A s \in States :
          (\A t \in States : m0[t] < m0[s] => f[t] = g[t]) => G[f][s] = G[g][s]
    BY <1>6, Zenon
  <2>2. WellFounded(States, States, m0, G)
    BY <1>3, <1>4, <1>5, <2>1, Zenon DEF WellFounded
  <2> QED  BY <2>2, RecursiveFunction
<1>8. f = [s \in States |-> IF s.hdma THEN f[Copy16(EndLines, s)] ELSE s]  BY <1>7
<1> QED  BY <1>8, Zenon DEF CopyAll

\* A part of a call that ends, if blocks were copied, with update_cpu's test.
Finished(s, e) == Part(s, e) /\ (s.hdma => e \in Settled /\ Closed(e))

\* A transfer at once is such a part.
LEMMA CopyAllPart ==
  ASSUME NEW s \in States
  PROVE  Finished(s, CopyAll[s])
<1> DEFINE B == {t \in States : ~Finished(t, CopyAll[t])}
           m0 == [t \in States |-> ToCopy(t)]
<1> SUFFICES ASSUME B # {} PROVE FALSE  OBVIOUS
<1>1. \A t \in B : m0[t] \in Nat  BY Copies
<1>2. PICK b \in B : \A t \in B : ~(m0[t] < m0[b])
  <2> HIDE DEF B, m0
  <2> QED  BY <1>1, LeastMeasure
<1>3. b \in States /\ ~Finished(b, CopyAll[b])  BY Zenon
<1>4. \A t \in States : CopyAll[t] = IF t.hdma THEN CopyAll[Copy16(EndLines, t)] ELSE t
  <2> DEFINE F == [t \in States |-> IF t.hdma THEN CopyAll[Copy16(EndLines, t)] ELSE t]
  <2>1. CopyAll = F  BY CopyAllEquation
  <2>2. \A t \in States : F[t] = IF t.hdma THEN CopyAll[Copy16(EndLines, t)] ELSE t
    OBVIOUS
  <2> HIDE DEF F
  <2> QED  BY <2>1, <2>2
<1>5. CASE ~b.hdma
  <2>1. CopyAll[b] = b  BY <1>3, <1>4, <1>5
  <2> QED  BY <1>3, <1>5, <2>1, Still, Zenon DEF Finished
<1>6. CASE b.hdma
  <2> DEFINE r == Copy16(EndLines, b)
             e == CopyAll[r]
  <2>1. Part(b, r) /\ r \in Settled /\ ToCopy(r) < ToCopy(b) /\ Closed(r)
    BY <1>3, <1>6, CopyPart, Zenon DEF Closed
  <2>2. CopyAll[b] = e  BY <1>3, <1>4, <1>6, Zenon
  <2> HIDE DEF r
  <2>3. r \in States  BY <2>1, Zenon DEF Part
  <2>4. m0[r] < m0[b]  BY <1>3, <2>1, <2>3
  <2>5. Finished(r, e)
    <3>1. r \notin B
      <4> HIDE DEF B, m0
      <4> QED  BY <1>2, <2>4, Zenon
    <3> QED  BY <2>3, <3>1, Zenon
  <2>6. ~r.hdma => e = r  BY <1>4, <2>3, Zenon
  <2> HIDE DEF e
  <2>7. Part(b, e)  BY <1>3, <2>1, <2>5, PartSum, Zenon DEF Finished
  <2>8. e \in Settled /\ Closed(e)  BY <2>1, <2>5, <2>6, Zenon DEF Finished
  <2> QED  BY <1>3, <2>2, <2>7, <2>8, Zenon DEF Finished
<1> QED  BY <1>5, <1>6

----------------------------------------------------------------------------
(* A call is one of RunLoop's                                               *)

\* What update_cpu writes of the loop's state, and the guest and the count.
Returned(e, x) ==
  /\ x.program = e.program /\ x.due = e.due /\ x.merged = e.merged
  /\ x.ime = e.ime /\ x.flag = e.flag /\ x.ip = e.ip /\ x.sp = e.sp
  /\ x.mem = e.mem /\ x.issued = e.issued /\ x.owed = e.owed

\* The parts of a call, together, are what RunLoop's UpdateCpu does: sources
\* are raised, one may be accepted, more may be raised.
LEMMA CallIsOne ==
  ASSUME NEW s \in States, NEW e, Part(s, e), Closed(e),
         m.pc # "block", s.ime = m.ime, s.sp = m.sp, s.mem = m.mem,
         Returned(e, m')
  PROVE  Loop!UpdateCpu(s.flag, s.ie, s.ip, s.issued, s.owed)
<1>1. s.ime \in BOOLEAN /\ s.flag \subseteq Sources  BY Zenon DEF States
<1>2. e.flag \subseteq Sources /\ e.ie = s.ie  BY Zenon DEF Part, Kept, States
<1>3. CASE Stayed(s, e)
  <2> DEFINE raised == e.flag
  <2>1. s.flag \cup raised = e.flag  BY <1>3 DEF Stayed
  <2>2. ~m.ime \/ (s.flag \cup raised) \cap s.ie = {}
    BY <1>1, <1>2, <1>3, <2>1 DEF Closed, Stayed
  <2>3. /\ m'.flag = s.flag \cup raised /\ m'.ip = s.ip /\ m'.issued = s.issued
        /\ m'.owed = s.owed /\ m'.ime = m.ime /\ m'.sp = m.sp /\ m'.mem = m.mem
    BY <1>3, <2>1, Zenon DEF Stayed, Returned
  <2>4. raised \in SUBSET Sources  BY <1>2
  <2> HIDE DEF raised
  <2> QED  BY <2>2, <2>3, <2>4, Zenon DEF Loop!UpdateCpu
<1>4. CASE Accepted(s, e)
  <2>1. PICK req, later : \E i : Jumped(s, e, req, i, later)  BY <1>4 DEF Accepted
  <2>2. PICK i : Jumped(s, e, req, i, later)  BY <2>1
  <2>3. s.flag \cup req = req /\ req \in SUBSET Sources /\ later \in SUBSET Sources
    BY <2>2 DEF Jumped
  <2>4. m.ime /\ i \in (s.flag \cup req) \cap s.ie
        /\ \A j \in (s.flag \cup req) \cap s.ie : i <= j
    BY <2>2, <2>3 DEF Jumped
  <2>5. /\ m'.ime = FALSE /\ m'.sp = Down(m.sp)
        /\ m'.mem = [m.mem EXCEPT ![Down(m.sp)] = s.ip]
        /\ m'.flag = ((s.flag \cup req) \ {i}) \cup later /\ m'.ip = Vector(i)
        /\ m'.issued = TRUE
        /\ m'.owed = [src |-> i, ret |-> s.ip, from |-> "loop"]
    BY <2>2, <2>3, Zenon DEF Jumped, Returned
  <2>6. Loop!Accept(i, s.flag \cup req, later, s.ip)
    BY <2>5 DEF Loop!Accept, Loop!Down, Loop!Vector, Down, Vector
  <2> QED  BY <2>3, <2>4, <2>6, Zenon DEF Loop!UpdateCpu
<1> QED  BY <1>3, <1>4, Zenon DEF Part

----------------------------------------------------------------------------
(* Writes of the guest                                                      *)

\* A write leaves the rest of the loop's state alone.
Frame(s, e) ==
  /\ e.program = s.program /\ e.skips = s.skips /\ e.pc = s.pc
  /\ e.ebp = s.ebp /\ e.eip = s.eip /\ e.blk = s.blk /\ e.gone = s.gone
  /\ e.debt = s.debt

Aside(s, e) ==
  /\ e.ime = s.ime /\ e.ip = s.ip /\ e.sp = s.sp /\ e.mem = s.mem
  /\ e.issued = s.issued /\ e.owed = s.owed /\ e.cyc = s.cyc
  /\ s.owed = None /\ Counted(s) => Counted(e)

\* A plain write, or one of IE or IF or of no register and then update_cpu.
Plain(s, e) ==
  e \in Settled /\ Frame(s, e) /\ Aside(s, e) /\ e.flag = s.flag /\ e.ie = s.ie

Called(s, e) ==
  \E t \in States :
    /\ Frame(s, t) /\ Aside(s, t) /\ (t.flag = s.flag \/ t.ie = s.ie)
    /\ Part(t, e) /\ e \in Settled /\ Closed(e)

\* Between instructions: what was accepted is what ip is the vector of.
Served(s) == Counted(s) /\ (s.ip = Vector(VBLANK) <=> OwesVBlank(s))

\* Every write of io_write is one of these.
LEMMA IoWritePart ==
  ASSUME NEW s \in Settled, NEW i, Instruction(i), i.op = "store", NEW v,
         v = i.v
  PROVE  LET e == IoWrite(s, i.r, v) IN Plain(s, e) \/ Called(s, e)
<1> DEFINE e == IoWrite(s, i.r, v)
<1>1. s \in States /\ s.cyc < LineCycles /\ 0 \in Nat  BY Zenon DEF Settled
<1>2. \/ i.r \in {"IE", "IF"} /\ v \subseteq Sources
      \/ i.r \in {"HDMA5_HBLANK", "HDMA5_NOW"} /\ v \in 0 .. 127
  BY Zenon DEF Instruction
<1>3. \A t \in States : UpdateCpu(t, 0) \in Settled /\ Part(t, UpdateCpu(t, 0))
                        /\ Closed(UpdateCpu(t, 0))
  BY UpdateCpuPart, <1>1, Zenon DEF Closed
<1>4. CASE i.r = "IE" /\ v \subseteq Sources
  <2> DEFINE t == [s EXCEPT !.ie = v]
  <2>1. t \in States  BY <1>1, <1>4, Zenon DEF States
  <2>2. Frame(s, t) /\ Aside(s, t) /\ t.flag = s.flag
    BY <1>1, Zenon DEF States, Frame, Aside, Counted, OwesVBlank
  <2>3. e = UpdateCpu(t, 0)  BY <1>4 DEF IoWrite
  <2> HIDE DEF t, e
  <2> QED  BY <1>3, <2>1, <2>2, <2>3, Zenon DEF Called, e
<1>5. CASE i.r = "IF" /\ v \subseteq Sources
  <2> DEFINE due == Num(VBLANK \in v)
             t == [s EXCEPT !.flag = v, !.due = due, !.merged = 0]
  <2>1. due \in Int /\ 0 \in Int  BY DEF Num
  <2>2. e = UpdateCpu(t, 0)  BY <1>5 DEF IoWrite
  <2> HIDE DEF due
  <2>3. t \in States  BY <1>1, <1>5, <2>1, Zenon DEF States
  <2>5. /\ Frame(s, t) /\ t.ie = s.ie /\ t.ime = s.ime /\ t.owed = s.owed
        /\ t.flag = v /\ t.due = due /\ t.merged = 0
    BY <1>1, Zenon DEF States, Frame
  <2>6. ASSUME s.owed = None PROVE Counted(t)
    <3>1. ~OwesVBlank(t)  BY <2>5, <2>6, Zenon DEF OwesVBlank
    <3>2. due = 0 + Num(VBLANK \in v) + Num(OwesVBlank(t))  BY <3>1 DEF due, Num
    <3> QED  BY <2>5, <2>6, <3>2, Zenon DEF Counted
  <2>4. Frame(s, t) /\ Aside(s, t) /\ t.ie = s.ie
    BY <1>1, <2>5, <2>6, Zenon DEF States, Aside
  <2> HIDE DEF t, e
  <2> QED  BY <1>3, <2>2, <2>3, <2>4, Zenon DEF Called, e
<1>6. CASE i.r \in {"HDMA5_HBLANK", "HDMA5_NOW"} /\ v \in 0 .. 127
  <2> DEFINE now == i.r = "HDMA5_NOW"
             a == [s EXCEPT !.left = v]
             b == [s EXCEPT !.left = -1, !.hdma = FALSE]
             t == [s EXCEPT !.left = v, !.hdma = TRUE]
  <2> USE DEF Counted, OwesVBlank
  <2>1. v \in Int /\ -1 \in Int /\ TRUE \in BOOLEAN /\ FALSE \in BOOLEAN  BY <1>6
  <2>2. a \in States /\ b \in States /\ t \in States
    BY <1>1, <2>1, Zenon DEF States
  <2>3. /\ Frame(s, a) /\ Aside(s, a) /\ a.flag = s.flag /\ a.ie = s.ie
        /\ Frame(s, b) /\ Aside(s, b) /\ b.flag = s.flag /\ b.ie = s.ie
        /\ Frame(s, t) /\ Aside(s, t) /\ t.flag = s.flag /\ t.ie = s.ie /\ t.hdma = TRUE
    BY <1>1, Zenon DEF States, Frame, Aside
  <2>4. e = IF s.hdma THEN IF now THEN b ELSE a ELSE IF now THEN CopyAll[t] ELSE t
    BY <1>6 DEF IoWrite, WriteHDMA5
  <2> HIDE DEF a, b, t, e, now, Counted, OwesVBlank
  <2>5. \A u \in {a, b, t} : Plain(s, u)
    BY <1>1, <2>2, <2>3, Zenon DEF Plain, Settled, Aside
  <2>6. Called(s, CopyAll[t])
    <3>1. Finished(t, CopyAll[t])  BY <2>2, CopyAllPart
    <3> QED  BY <2>2, <2>3, <3>1, Zenon DEF Called, Finished
  <2> QED  BY <2>4, <2>5, <2>6, Zenon DEF e
<1> QED  BY <1>2, <1>4, <1>5, <1>6

\* The instruction at ip begins.
LEMMA EnteredPart ==
  ASSUME NEW s \in States
  PROVE  LET e == Entered(s)
         IN /\ e \in States /\ Frame(s, e) /\ e.owed = None
            /\ e.ime = s.ime /\ e.flag = s.flag /\ e.ie = s.ie /\ e.ip = s.ip
            /\ e.sp = s.sp /\ e.mem = s.mem /\ e.issued = s.issued /\ e.cyc = s.cyc
            /\ Served(s) => Counted(e)
<1> DEFINE due == IF s.ip = Vector(VBLANK) THEN s.due - 1 ELSE s.due
           e   == [s EXCEPT !.owed = None, !.due = due]
<1>1. due \in Int  BY Fields
<1>2. Entered(s) = e  BY Zenon DEF Entered
<1> HIDE DEF due
<1>3. e \in States  BY <1>1, Zenon DEF States
<1>4. /\ Frame(s, e) /\ e.owed = None
      /\ e.ime = s.ime /\ e.flag = s.flag /\ e.ie = s.ie /\ e.ip = s.ip
      /\ e.sp = s.sp /\ e.mem = s.mem /\ e.issued = s.issued /\ e.cyc = s.cyc
      /\ e.due = due /\ e.merged = s.merged
  BY Zenon DEF States, Frame
<1> HIDE DEF e
<1>5. ASSUME Served(s) PROVE Counted(e)
  <2>6. Counted(s) /\ (s.ip = Vector(VBLANK) <=> OwesVBlank(s))  BY <1>5, Zenon DEF Served
  <2>1. s.due = s.merged + Num(VBLANK \in s.flag) + Num(OwesVBlank(s))
    BY <2>6, Zenon DEF Counted
  <2>2. due = s.due - Num(OwesVBlank(s))
    <3>1. CASE OwesVBlank(s)  BY <2>6, <3>1 DEF due, Num
    <3>2. CASE ~OwesVBlank(s)  BY <2>6, <3>2, Fields DEF due, Num
    <3> QED  BY <3>1, <3>2
  <2>3. Num(OwesVBlank(e)) = 0  BY <1>4 DEF OwesVBlank, Num
  <2>4. Num(VBLANK \in s.flag) \in Int /\ Num(OwesVBlank(s)) \in Int  BY DEF Num
  <2>5. due = s.merged + Num(VBLANK \in s.flag) + Num(OwesVBlank(e))
    BY <2>1, <2>2, <2>3, <2>4, Fields
  <2> QED  BY <1>4, <2>5, <2>6, Zenon DEF Counted
<1> QED  BY <1>2, <1>3, <1>4, <1>5, Zenon

----------------------------------------------------------------------------
(* The steps                                                                *)

\* The inductive invariant: between calls no line is due, and a block has
\* its registers.
MachineInv ==
  /\ m \in Settled
  /\ m.pc = "block" => m.ebp \in Slot /\ m.eip \in Addr

\* It holds at the start, which is RunLoop's.
LEMMA InitRefined == Init => MachineInv /\ Loop!Init
<1> SUFFICES ASSUME Init PROVE MachineInv /\ Loop!Init  OBVIOUS
<1>1. PICK program \in Programs, skips \in BOOLEAN :
        m = [program |-> program, skips |-> skips,
             pc |-> "fetch", ime |-> FALSE, flag |-> {}, ie |-> {},
             ip |-> 0, sp |-> Slots - 1, mem |-> [s \in Slot |-> 0],
             ebp |-> None, eip |-> None, blk |-> 0, gone |-> 0, issued |-> FALSE,
             owed |-> None, debt |-> 0,
             tima |-> 0, cum |-> 0, cyc |-> 0, ly |-> 0,
             left |-> -1, hdma |-> FALSE, due |-> 0, merged |-> 0]
  BY Zenon DEF Init
<1> DEFINE mem == [s \in Slot |-> 0]
           sp  == Slots - 1
           left == -1
<1>2. /\ 0 \in Addr /\ sp \in Slot /\ 0 \in 0 .. TimaRange - 1 /\ 0 \in 0 .. TimerDiv - 1
      /\ 0 \in 0 .. LineCount - 1 /\ left \in Int /\ 0 \in Int /\ 0 \in Nat
      /\ 0 < LineCycles
  BY Sizes DEF Addr, Slot
<1>3. mem \in [Slot -> Addr]  BY <1>2
<1>4. /\ m.pc = "fetch" /\ m.ime = FALSE /\ m.flag = {} /\ m.ie = {} /\ m.ip = 0
      /\ m.sp = sp /\ m.mem = mem /\ m.ebp = None /\ m.blk = 0 /\ m.gone = 0
      /\ m.issued = FALSE /\ m.owed = None /\ m.debt = 0 /\ m.cyc = 0
  BY <1>1, Zenon
<1>5. Loop!Init  BY <1>4 DEF Loop!Init, Loop!Slot, Slot
<1> HIDE DEF mem, sp, left
<1>6. m \in States
  <2>1. TRUE \in BOOLEAN /\ FALSE \in BOOLEAN /\ {} \in SUBSET Sources  OBVIOUS
  <2> QED  BY <1>1, <1>2, <1>3, <2>1, Zenon DEF States, mem, sp, left
<1> QED  BY <1>2, <1>4, <1>5, <1>6, Zenon DEF MachineInv, Settled

\* The instruction at an address.
LEMMA Guest ==
  ASSUME m \in States, NEW a \in Addr
  PROVE  Instruction(At(a))
BY ProgramAssumption, Zenon DEF States, At

\* A step that calls update_cpu, or not, between two instructions: the guest
\* was about to go on at ip, with owed still to be entered.
CalledFrom(ip, owed) ==
  /\ m'.pc # "block"
  /\ \E s \in States : \E e :
       /\ s.program = m.program /\ s.ime = m.ime /\ s.sp = m.sp /\ s.mem = m.mem
       /\ s.ip = ip /\ s.owed = owed /\ (Served(m) => Counted(s))
       /\ Part(s, e) /\ Returned(e, m')

\* A store: RunLoop's EvadeStore, or its EvadePlain if update_cpu is not
\* called.
LEMMA StoreRefined ==
  ASSUME MachineInv, EvadeStore
  PROVE  /\ MachineInv' /\ (Loop!EvadeStore(1) \/ Loop!EvadePlain(1))
         /\ CalledFrom(Ahead(m), None)
<1> DEFINE i == At(m.ip)
           g == Entered(m)
           s == [g EXCEPT !.ip = Ahead(m)]
           e == IoWrite(s, i.r, i.v)
<1>1. m \in States /\ m.cyc < LineCycles  BY Zenon DEF MachineInv, Settled
<1>2. /\ m.pc = "fetch" /\ i.op = "store" /\ m.gone + 2 <= CycleBound
      /\ m' = [e EXCEPT !.gone = @ + 2, !.debt = @ + 2]
  BY DEF EvadeStore
<1>3. m.ip \in Addr /\ m.gone \in Nat /\ m.debt \in Int  BY <1>1, Fields
<1>4. Instruction(i)  BY <1>1, <1>3, Guest, Zenon
<1>5. Ahead(m) \in Addr  BY <1>3, Wraps DEF Ahead
<1>6. /\ g \in States /\ Frame(m, g) /\ g.owed = None
      /\ g.ime = m.ime /\ g.flag = m.flag /\ g.ie = m.ie
      /\ g.sp = m.sp /\ g.mem = m.mem /\ g.issued = m.issued /\ g.cyc = m.cyc
      /\ Served(m) => Counted(g)
  BY <1>1, EnteredPart, Zenon
<1> HIDE DEF g
<1>7. s \in States  BY <1>5, <1>6, Zenon DEF States
<1>8. /\ Frame(m, s) /\ s.owed = None /\ s.ip = Ahead(m)
      /\ s.ime = m.ime /\ s.flag = m.flag /\ s.ie = m.ie
      /\ s.sp = m.sp /\ s.mem = m.mem /\ s.issued = m.issued /\ s.cyc = m.cyc
      /\ s.due = g.due /\ s.merged = g.merged
  BY <1>6, Zenon DEF States, Frame
<1>9. Served(m) => Counted(s)  BY <1>6, <1>8, Zenon DEF Counted, OwesVBlank
<1> HIDE DEF s
<1>10. Plain(s, e) \/ Called(s, e)
  <2>1. s \in Settled  BY <1>1, <1>7, <1>8, Zenon DEF Settled
  <2> HIDE DEF i
  <2> QED  BY <1>2, <1>4, <2>1, IoWritePart, Zenon
<1> HIDE DEF e, i
<1>11. e \in Settled /\ Frame(m, e)
  <2>1. CASE Plain(s, e)  BY <1>8, <2>1, Zenon DEF Plain, Frame
  <2>2. CASE Called(s, e)  BY <1>8, <2>2, Zenon DEF Called, Frame, Part, Kept
  <2> QED  BY <1>10, <2>1, <2>2
<1>12. e.gone = m.gone /\ e.debt = m.debt /\ e \in States /\ e.cyc < LineCycles
  BY <1>11, Zenon DEF Frame, Settled
<1> DEFINE gone == m.gone + 2
           debt == m.debt + 2
<1>13. gone \in Nat /\ debt \in Int  BY <1>3
<1>14. m' = [e EXCEPT !.gone = gone, !.debt = debt]  BY <1>2, <1>12, Zenon
<1> HIDE DEF gone, debt
<1>15. m' \in States  BY <1>12, <1>13, <1>14, Zenon DEF States
<1>16. /\ m'.gone = gone /\ m'.debt = debt /\ m'.cyc = e.cyc /\ m'.pc = e.pc
       /\ m'.ebp = e.ebp /\ m'.blk = e.blk /\ m'.ie = e.ie /\ Returned(e, m')
  BY <1>12, <1>14, Zenon DEF States, Returned
<1>17. /\ m'.pc = m.pc /\ m'.ebp = m.ebp /\ m'.blk = m.blk
       /\ m'.gone = m.gone + 1 + 1 /\ m'.debt = m.debt + 1 + 1
       /\ m.gone + 1 + 1 <= CycleBound
  <2>1. m.gone + 2 = m.gone + 1 + 1 /\ m.debt + 2 = m.debt + 1 + 1  BY <1>3
  <2> QED  BY <1>2, <1>11, <1>16, <2>1, Zenon DEF Frame, gone, debt
<1>18. MachineInv'
  <2>1. m'.pc # "block"  BY <1>2, <1>17
  <2> QED  BY <1>12, <1>15, <1>16, <2>1, Zenon DEF MachineInv, Settled
<1>19. Loop!Ahead(1) = Ahead(m)  BY DEF Loop!Ahead, Ahead
<1>20. CASE Plain(s, e)
  <2>1. /\ m'.ime = m.ime /\ m'.flag = m.flag /\ m'.ie = m.ie /\ m'.ip = Ahead(m)
        /\ m'.sp = m.sp /\ m'.mem = m.mem /\ m'.issued = m.issued /\ m'.owed = None
    BY <1>8, <1>16, <1>20, Zenon DEF Plain, Aside, Returned
  <2>2. Loop!EvadePlain(1)
    BY <1>2, <1>17, <1>18, <1>19, <2>1 DEF Loop!EvadePlain, Loop!irq
  <2>3. CalledFrom(Ahead(m), None)
    <3>1. e \in States /\ Part(e, e)  BY <1>12, Still
    <3>2. /\ e.program = m.program /\ e.ime = m.ime /\ e.sp = m.sp /\ e.mem = m.mem
          /\ e.ip = Ahead(m) /\ e.owed = None /\ (Served(m) => Counted(e))
      BY <1>8, <1>11, <1>20, <1>9, Zenon DEF Plain, Aside, Frame
    <3>3. m'.pc # "block"  BY <1>2, <1>17
    <3> QED  BY <1>16, <3>1, <3>2, <3>3, Zenon DEF CalledFrom
  <2> QED  BY <1>18, <2>2, <2>3
<1>21. CASE Called(s, e)
  <2>1. PICK t \in States : /\ Frame(s, t) /\ Aside(s, t) /\ (t.flag = s.flag \/ t.ie = s.ie)
                           /\ Part(t, e) /\ Closed(e)
    BY <1>21, Zenon DEF Called
  <2>2. /\ t.ime = m.ime /\ t.sp = m.sp /\ t.mem = m.mem /\ t.ip = Ahead(m)
        /\ t.issued = m.issued /\ t.owed = None /\ (t.flag = m.flag \/ t.ie = m.ie)
    BY <1>8, <2>1, Zenon DEF Aside
  <2>4. Loop!UpdateCpu(t.flag, t.ie, Ahead(m), m.issued, None)
    <3>1. m.pc # "block"  BY <1>2
    <3>2. Loop!UpdateCpu(t.flag, t.ie, t.ip, t.issued, t.owed)
      BY <1>16, <2>1, <2>2, <3>1, CallIsOne, Zenon
    <3> QED  BY <2>2, <3>2, Zenon
  <2>5. m'.ie = t.ie  BY <1>16, <2>1, Zenon DEF Part, Kept
  <2>6. t.flag \in SUBSET Sources /\ t.ie \in SUBSET Sources  BY Zenon DEF States
  <2>7. Loop!StoreIO(Loop!Ahead(1), None)
    BY <1>19, <2>2, <2>4, <2>5, <2>6, Zenon DEF Loop!StoreIO
  <2>8. Loop!EvadeStore(1)  BY <1>2, <1>17, <2>7 DEF Loop!EvadeStore
  <2>9. CalledFrom(Ahead(m), None)
    <3>1. t.program = m.program /\ (Served(m) => Counted(t))
      BY <1>8, <1>9, <2>1, Zenon DEF Aside, Frame
    <3>2. m'.pc # "block"  BY <1>2, <1>17
    <3> QED  BY <1>16, <2>1, <2>2, <3>1, <3>2, Zenon DEF CalledFrom
  <2> QED  BY <1>18, <2>8, <2>9
<1> QED  BY <1>10, <1>20, <1>21

\* After a call the loop sets its clock and goes on elsewhere.
LEMMA GoesOn ==
  ASSUME NEW e \in Settled, NEW gone \in Nat, NEW debt \in Int, NEW pc \in {"halt", "enter"},
         m' = [e EXCEPT !.gone = gone, !.debt = debt, !.pc = pc]
  PROVE  /\ MachineInv' /\ Returned(e, m')
         /\ m'.gone = gone /\ m'.debt = debt /\ m'.pc = pc
         /\ m'.ie = e.ie /\ m'.ebp = e.ebp /\ m'.blk = e.blk
<1>1. e \in States /\ e.cyc < LineCycles  BY Zenon DEF Settled
<1>2. pc \in {"fetch", "halt", "enter", "block"} /\ pc # "block"  OBVIOUS
<1>3. m' \in States  BY <1>1, <1>2, Zenon DEF States
<1>4. /\ m'.gone = gone /\ m'.debt = debt /\ m'.pc = pc /\ m'.cyc = e.cyc
      /\ m'.ie = e.ie /\ m'.ebp = e.ebp /\ m'.blk = e.blk /\ Returned(e, m')
  BY <1>1, Zenon DEF States, Returned
<1> QED  BY <1>1, <1>2, <1>3, <1>4, Zenon DEF MachineInv, Settled

\* HALT up to its inner loop.
LEMMA HaltRefined ==
  ASSUME MachineInv, EvadeHalt
  PROVE  MachineInv' /\ Loop!EvadeHalt /\ CalledFrom(Ahead(m), None)
<1> DEFINE g == Entered(m)
           s == [g EXCEPT !.ip = Ahead(m), !.issued = FALSE]
           e == UpdateCpu(s, m.gone + 1)
<1>1. m \in States  BY Zenon DEF MachineInv, Settled
<1>2. /\ m.pc = "fetch"
      /\ m' = [e EXCEPT !.gone = 0, !.debt = @ - m.gone, !.pc = "halt"]
  BY DEF EvadeHalt
<1>3. m.ip \in Addr /\ m.gone \in Nat /\ m.debt \in Int /\ m.gone + 1 \in Nat
  BY <1>1, Fields
<1>4. Ahead(m) \in Addr /\ FALSE \in BOOLEAN  BY <1>3, Wraps DEF Ahead
<1>5. /\ g \in States /\ Frame(m, g) /\ g.owed = None
      /\ g.ime = m.ime /\ g.flag = m.flag /\ g.ie = m.ie
      /\ g.sp = m.sp /\ g.mem = m.mem /\ (Served(m) => Counted(g))
  BY <1>1, EnteredPart, Zenon
<1> HIDE DEF g
<1>6. s \in States  BY <1>4, <1>5, Zenon DEF States
<1>7. /\ Frame(m, s) /\ s.owed = None /\ s.ip = Ahead(m) /\ s.issued = FALSE
      /\ s.ime = m.ime /\ s.flag = m.flag /\ s.ie = m.ie
      /\ s.sp = m.sp /\ s.mem = m.mem /\ s.due = g.due /\ s.merged = g.merged
  BY <1>5, Zenon DEF States, Frame
<1>8. Served(m) => Counted(s)  BY <1>5, <1>7, Zenon DEF Counted, OwesVBlank
<1> HIDE DEF s
<1>9. Part(s, e) /\ e \in Settled /\ Closed(e)
  BY <1>3, <1>6, UpdateCpuPart, Zenon DEF Closed
<1> HIDE DEF e
<1>10. e.debt = m.debt /\ e.ebp = m.ebp /\ e.blk = m.blk /\ e.ie = m.ie
  BY <1>7, <1>9, Zenon DEF Part, Kept, Frame
<1> DEFINE debt == m.debt - m.gone
<1>11. debt \in Int /\ 0 \in Nat  BY <1>3
<1>12. debt = m.debt + 1 - (m.gone + 1)  BY <1>3
<1>13. m' = [e EXCEPT !.gone = 0, !.debt = debt, !.pc = "halt"]  BY <1>2, <1>10, Zenon
<1>14. "halt" \in {"halt", "enter"}  OBVIOUS
<1>15. /\ MachineInv' /\ Returned(e, m')
       /\ m'.gone = 0 /\ m'.debt = debt /\ m'.pc = "halt"
       /\ m'.ie = m.ie /\ m'.ebp = m.ebp /\ m'.blk = m.blk
  <2> HIDE DEF debt
  <2>1. \A pc \in {"halt", "enter"} :
          m' = [e EXCEPT !.gone = 0, !.debt = debt, !.pc = pc] =>
            /\ MachineInv' /\ Returned(e, m')
            /\ m'.gone = 0 /\ m'.debt = debt /\ m'.pc = pc
            /\ m'.ie = e.ie /\ m'.ebp = e.ebp /\ m'.blk = e.blk
    BY <1>9, <1>11, GoesOn, Zenon
  <2> QED  BY <1>10, <1>13, <1>14, <2>1, Zenon
<1>16. Loop!UpdateCpu(m.flag, m.ie, Loop!Ahead(1), FALSE, None)
  <2>1. m.pc # "block"  BY <1>2
  <2>2. Loop!UpdateCpu(s.flag, s.ie, s.ip, s.issued, s.owed)
    BY <1>6, <1>7, <1>9, <1>15, <2>1, CallIsOne, Zenon
  <2>3. Loop!Ahead(1) = Ahead(m)  BY DEF Loop!Ahead, Ahead
  <2> QED  BY <1>7, <2>2, <2>3, Zenon
<1>17. CalledFrom(Ahead(m), None)
  <2>1. m'.pc # "block" /\ s.program = m.program  BY <1>7, <1>15 DEF Frame
  <2> QED  BY <1>6, <1>7, <1>9, <1>15, <1>8, <2>1, Zenon DEF CalledFrom
<1> QED  BY <1>2, <1>15, <1>16, <1>12, <1>17, Zenon DEF Loop!EvadeHalt

\* A round of HALT's inner loop.
LEMMA HaltStepRefined ==
  ASSUME MachineInv, HaltStep
  PROVE  MachineInv' /\ Loop!HaltStep /\ CalledFrom(m.ip, m.owed)
<1> DEFINE c == IF m.skips THEN LineCycles - m.cyc ELSE 1
<1>1. m \in States /\ m.cyc < LineCycles  BY Zenon DEF MachineInv, Settled
<1>2. m.pc = "halt" /\ ~m.issued /\ m' = UpdateCpu(m, c)  BY DEF HaltStep
<1>3. c \in Nat  BY <1>1, Fields, Sizes
<1> HIDE DEF c
<1>4. Part(m, m') /\ m' \in Settled /\ Closed(m')
  BY <1>1, <1>2, <1>3, UpdateCpuPart, Zenon DEF Closed
<1>5. /\ m'.pc = m.pc /\ m'.ie = m.ie /\ m'.ebp = m.ebp /\ m'.blk = m.blk
      /\ m'.gone = m.gone /\ m'.debt = m.debt
  BY <1>4, Zenon DEF Part, Kept
<1>6. m.pc # "block" /\ m'.pc # "block"  BY <1>2, <1>5
<1>7. MachineInv'  BY <1>4, <1>6, Zenon DEF MachineInv
<1>8. Returned(m', m')  BY Zenon DEF Returned
<1>9. Loop!UpdateCpu(m.flag, m.ie, m.ip, m.issued, m.owed)
  BY <1>1, <1>4, <1>6, <1>8, CallIsOne, Zenon
<1>10. CalledFrom(m.ip, m.owed)  BY <1>1, <1>4, <1>6, <1>8, Zenon DEF CalledFrom, Served
<1> QED  BY <1>2, <1>5, <1>7, <1>9, <1>10, Zenon DEF Loop!HaltStep

\* HALT ends.
LEMMA HaltEndRefined ==
  ASSUME MachineInv, HaltEnd
  PROVE  MachineInv' /\ Loop!HaltEnd /\ Returned(m, m') /\ m'.pc = "fetch"
<1>1. m \in States /\ m.cyc < LineCycles  BY Zenon DEF MachineInv, Settled
<1>2. m.pc = "halt" /\ m.issued /\ m' = [m EXCEPT !.pc = "fetch"]  BY DEF HaltEnd
<1>3. "fetch" \in {"fetch", "halt", "enter", "block"} /\ "fetch" # "block"  OBVIOUS
<1>4. m' \in States  BY <1>1, <1>2, <1>3, Zenon DEF States
<1>5. /\ m'.pc = "fetch" /\ m'.cyc = m.cyc
      /\ m'.ime = m.ime /\ m'.flag = m.flag /\ m'.ie = m.ie /\ m'.ip = m.ip
      /\ m'.sp = m.sp /\ m'.mem = m.mem /\ m'.ebp = m.ebp /\ m'.blk = m.blk
      /\ m'.gone = m.gone /\ m'.issued = m.issued /\ m'.owed = m.owed
      /\ m'.debt = m.debt /\ Returned(m, m')
  BY <1>1, <1>2, Zenon DEF States, Returned
<1>6. MachineInv'  BY <1>1, <1>3, <1>4, <1>5, Zenon DEF MachineInv, Settled
<1> QED  BY <1>2, <1>5, <1>6 DEF Loop!HaltEnd, Loop!irq, Loop!regs

\* The loop calls update_cpu and is about to enter a block.
LEMMA UpdateRefined ==
  ASSUME MachineInv, Update
  PROVE  MachineInv' /\ Loop!Update /\ CalledFrom(m.ip, m.owed)
<1> DEFINE e == UpdateCpu(m, m.gone)
           debt == m.debt - m.gone
<1>1. m \in States  BY Zenon DEF MachineInv, Settled
<1>2. /\ m.pc = "fetch"
      /\ m' = [e EXCEPT !.gone = 0, !.debt = @ - m.gone, !.pc = "enter"]
  BY DEF Update
<1>3. m.gone \in Nat /\ debt \in Int /\ 0 \in Nat  BY <1>1, Fields
<1>4. Part(m, e) /\ e \in Settled /\ Closed(e)
  BY <1>1, <1>3, UpdateCpuPart, Zenon DEF Closed
<1> HIDE DEF e
<1>5. e.debt = m.debt /\ e.ebp = m.ebp /\ e.blk = m.blk /\ e.ie = m.ie
  BY <1>4, Zenon DEF Part, Kept
<1>6. m' = [e EXCEPT !.gone = 0, !.debt = debt, !.pc = "enter"]  BY <1>2, <1>5, Zenon
<1>7. "enter" \in {"halt", "enter"} /\ m.pc # "block"  BY <1>2
<1>8. /\ MachineInv' /\ Returned(e, m')
      /\ m'.gone = 0 /\ m'.debt = debt /\ m'.pc = "enter"
      /\ m'.ie = m.ie /\ m'.ebp = m.ebp /\ m'.blk = m.blk
  <2> HIDE DEF debt
  <2>1. \A pc \in {"halt", "enter"} :
          m' = [e EXCEPT !.gone = 0, !.debt = debt, !.pc = pc] =>
            /\ MachineInv' /\ Returned(e, m')
            /\ m'.gone = 0 /\ m'.debt = debt /\ m'.pc = pc
            /\ m'.ie = e.ie /\ m'.ebp = e.ebp /\ m'.blk = e.blk
    BY <1>3, <1>4, GoesOn, Zenon
  <2> QED  BY <1>5, <1>6, <1>7, <2>1, Zenon
<1>9. Loop!UpdateCpu(m.flag, m.ie, m.ip, m.issued, m.owed)
  BY <1>1, <1>4, <1>7, <1>8, CallIsOne, Zenon
<1>10. CalledFrom(m.ip, m.owed)
  <2>1. m'.pc # "block"  BY <1>8
  <2> QED  BY <1>1, <1>4, <1>8, <2>1, Zenon DEF CalledFrom, Served
<1> QED  BY <1>2, <1>8, <1>9, <1>10, Zenon DEF Loop!Update

\* A block is entered.
LEMMA EnterRefined ==
  ASSUME MachineInv, EnterBlock
  PROVE  /\ MachineInv' /\ Loop!EnterBlock
         /\ m'.program = m.program /\ (Served(m) => Counted(m'))
         /\ m'.blk = 0 /\ m'.eip = m.ip
<1> DEFINE g == Entered(m)
<1>1. m \in States /\ m.cyc < LineCycles  BY Zenon DEF MachineInv, Settled
<1>2. /\ m.pc = "enter"
      /\ m' = [g EXCEPT !.pc = "block", !.ebp = m.sp, !.eip = m.ip, !.blk = 0]
  BY DEF EnterBlock
<1>3. m.ip \in Addr /\ m.sp \in Slot /\ 0 \in Nat  BY <1>1, Fields
<1>4. /\ g \in States /\ Frame(m, g) /\ g.owed = None
      /\ g.ime = m.ime /\ g.flag = m.flag /\ g.ie = m.ie /\ g.ip = m.ip
      /\ g.sp = m.sp /\ g.mem = m.mem /\ g.issued = m.issued /\ g.cyc = m.cyc
      /\ (Served(m) => Counted(g))
  BY <1>1, EnteredPart, Zenon
<1> HIDE DEF g
<1>5. "block" \in {"fetch", "halt", "enter", "block"}
      /\ m.sp \in Slot \cup {None} /\ m.ip \in Addr \cup {None}
  BY <1>3
<1>6. m' \in States  BY <1>2, <1>3, <1>4, <1>5, Zenon DEF States
<1>7. /\ m'.pc = "block" /\ m'.ebp = m.sp /\ m'.eip = m.ip /\ m'.blk = 0
      /\ m'.owed = None /\ m'.cyc = m.cyc /\ m'.gone = m.gone /\ m'.debt = m.debt
      /\ m'.ime = m.ime /\ m'.flag = m.flag /\ m'.ie = m.ie /\ m'.ip = m.ip
      /\ m'.sp = m.sp /\ m'.mem = m.mem /\ m'.issued = m.issued
      /\ m'.program = m.program /\ m'.due = g.due /\ m'.merged = g.merged
  BY <1>2, <1>4, Zenon DEF States, Frame
<1>8. MachineInv'  BY <1>1, <1>3, <1>6, <1>7, Zenon DEF MachineInv, Settled
<1>9. Served(m) => Counted(m')  BY <1>4, <1>7, Zenon DEF Counted, OwesVBlank
<1> QED  BY <1>2, <1>7, <1>8, <1>9 DEF Loop!EnterBlock, Loop!irq, Loop!regs

\* A block's instruction leaves the clock and the counters alone.
Going(s) ==
  s.cyc = m.cyc /\ s.pc = m.pc /\ s.blk = m.blk /\ s.debt = m.debt /\ s.gone = m.gone

\* An instruction of a block: s is what it does beside going on.
LEMMA InBlockRefined ==
  ASSUME MachineInv, NEW s \in States, Going(s), s.ebp \in Slot,
         NEW op, NEW a \in Addr, InBlock(op, a, s)
  PROVE  /\ MachineInv' /\ Loop!InBlock
         /\ m'.ebp = s.ebp /\ m'.ie = s.ie /\ Returned(s, m')
         /\ m'.pc = "block" /\ m'.eip = a /\ m'.blk # 0
<1> DEFINE blk  == s.blk + 1
           debt == s.debt + 1
<1>1. m \in States /\ m.cyc < LineCycles  BY Zenon DEF MachineInv, Settled
<1>2. /\ m.pc = "block" /\ m.blk < BlockCycles
      /\ m' = [s EXCEPT !.blk = blk, !.debt = debt, !.eip = a]
  BY Zenon DEF InBlock
<1>3. s.cyc = m.cyc /\ s.pc = m.pc /\ s.blk = m.blk /\ s.debt = m.debt /\ s.gone = m.gone
  BY Zenon DEF Going
<1>4. blk \in Nat /\ debt \in Int /\ a \in Addr \cup {None}  BY Fields
<1>5. blk = m.blk + 1 /\ debt = m.debt + 1 /\ blk # 0  BY <1>1, <1>3, Fields
<1> HIDE DEF blk, debt
<1>6. m' \in States  BY <1>2, <1>4, Zenon DEF States
<1>7. /\ m'.blk = blk /\ m'.debt = debt /\ m'.eip = a /\ m'.pc = s.pc /\ m'.gone = s.gone
      /\ m'.ebp = s.ebp /\ m'.ie = s.ie /\ m'.cyc = s.cyc /\ Returned(s, m')
  BY <1>2, Zenon DEF States, Returned
<1>8. MachineInv'  BY <1>1, <1>3, <1>6, <1>7, Zenon DEF MachineInv, Settled
<1>9. Loop!InBlock  BY <1>2, <1>3, <1>5, <1>7, Zenon DEF Loop!InBlock
<1> QED  BY <1>2, <1>3, <1>5, <1>7, <1>8, <1>9

\* The instruction after the one that runs.
LEMMA NextInBlock ==
  ASSUME MachineInv, m.pc = "block"
  PROVE  /\ m \in States /\ m.cyc < LineCycles /\ m.ebp \in Slot /\ m.eip \in Addr
         /\ Next1 \in Addr /\ 0 \in Addr
<1>1. m \in States /\ m.cyc < LineCycles /\ m.ebp \in Slot /\ m.eip \in Addr
  BY Zenon DEF MachineInv, Settled
<1>2. Next1 \in Addr  BY <1>1, Wraps DEF Next1
<1>3. 0 \in Addr  BY Sizes DEF Addr
<1> QED  BY <1>1, <1>2, <1>3

\* The compiled instruction op went on at a with this stack and master enable.
Went(op, a, ime, sp, mem) ==
  /\ m.pc = "block" /\ At(m.eip).op = op
  /\ IF op = "jump" THEN a \in At(m.eip).to ELSE a = Next1
  /\ m'.pc = "block" /\ m'.eip = a /\ m'.blk # 0
  /\ m'.ime = ime /\ m'.ebp = sp /\ m'.mem = mem
  /\ m'.program = m.program /\ m'.owed = m.owed /\ m'.flag = m.flag
  /\ m'.due = m.due /\ m'.merged = m.merged

\* Instructions that leave the registers of the loop alone, and EI.
LEMMA ImeRefined ==
  ASSUME MachineInv, BlockNop \/ BlockEi \/ BlockJump
  PROVE  /\ MachineInv' /\ Loop!BlockIme
         /\ \E op \in {"nop", "ei", "jump"}, a \in Addr :
              /\ Went(op, a, m'.ime, m.ebp, m.mem)
              /\ m'.ime = m.ime \/ op = "ei"
<1>1. m.pc = "block"  BY Zenon DEF BlockNop, BlockEi, BlockJump, InBlock
<1>2. m \in States /\ m.ebp \in Slot /\ m.eip \in Addr /\ Next1 \in Addr
  BY <1>1, NextInBlock
<1> DEFINE Does(s, a, op) ==
             /\ InBlock(op, a, s) /\ (s = m \/ op = "ei")
             /\ IF op = "jump" THEN a \in At(m.eip).to ELSE a = Next1
<1>3. \E s \in {m, [m EXCEPT !.ime = TRUE]}, a \in Addr, op \in {"nop", "ei", "jump"} :
        Does(s, a, op)
  <2>5. "nop" # "jump" /\ "ei" # "jump"  OBVIOUS
  <2>1. CASE BlockNop  BY <1>2, <2>1, <2>5, Zenon DEF BlockNop
  <2>2. CASE BlockEi  BY <1>2, <2>2, <2>5, Zenon DEF BlockEi
  <2>3. CASE BlockJump
    <3>1. PICK a \in At(m.eip).to : InBlock("jump", a, m)
      BY <2>3, Zenon DEF BlockJump
    <3>2. At(m.eip).op = "jump"  BY <2>3, Zenon DEF BlockJump
    <3>3. Instruction(At(m.eip))  BY <1>2, Guest, Zenon
    <3>4. At(m.eip).to \subseteq Addr
      <4> DEFINE i == At(m.eip)
      <4> HIDE DEF i
      <4>1. \A j : Instruction(j) /\ j.op = "jump" => j.to \subseteq Addr
        BY DEF Instruction
      <4> QED  BY <3>2, <3>3, <4>1, Zenon
    <3> QED  BY <3>1, <3>4, Zenon
  <2> QED  BY <2>1, <2>2, <2>3
<1>4. PICK s \in {m, [m EXCEPT !.ime = TRUE]}, a \in Addr, op \in {"nop", "ei", "jump"} :
        Does(s, a, op)
  BY <1>3, Zenon
<1>5. /\ s \in States /\ Going(s) /\ s.ebp = m.ebp /\ s.ime \in BOOLEAN
      /\ s.flag = m.flag /\ s.ie = m.ie /\ s.ip = m.ip /\ s.sp = m.sp /\ s.mem = m.mem
      /\ s.issued = m.issued /\ s.owed = m.owed
      /\ s.program = m.program /\ s.due = m.due /\ s.merged = m.merged
  <2>1. CASE s = m  BY <1>2, <2>1, Zenon DEF States, Going
  <2>2. CASE s = [m EXCEPT !.ime = TRUE]
    <3>1. TRUE \in BOOLEAN  OBVIOUS
    <3> QED  BY <1>2, <2>2, <3>1, Zenon DEF States, Going
  <2> QED  BY <2>1, <2>2
<1>6. /\ MachineInv' /\ Loop!InBlock
      /\ m'.ebp = s.ebp /\ m'.ie = s.ie /\ Returned(s, m')
      /\ m'.pc = "block" /\ m'.eip = a /\ m'.blk # 0
  BY <1>2, <1>4, <1>5, InBlockRefined, Zenon
<1>7. /\ Went(op, a, m'.ime, m.ebp, m.mem)
      /\ m'.ime = m.ime \/ op = "ei"
  <2>1. m'.ime = m.ime \/ op = "ei"  BY <1>4, <1>6, Zenon DEF Returned
  <2>2. At(m.eip).op = op  BY <1>4, Zenon DEF InBlock
  <2> QED  BY <1>1, <1>4, <1>5, <1>6, <2>1, <2>2, Zenon DEF Returned, Went
<1>8. Loop!BlockIme  BY <1>5, <1>6 DEF Returned, Loop!BlockIme, Loop!regs
<1> QED  BY <1>6, <1>7, <1>8

\* A push.
LEMMA PushRefined ==
  ASSUME MachineInv, BlockPush
  PROVE  /\ MachineInv' /\ Loop!BlockPush
         /\ Went("push", Next1, m.ime, Down(m.ebp), [m.mem EXCEPT ![Down(m.ebp)] = 0])
<1> DEFINE sp  == Down(m.ebp)
           mem == [m.mem EXCEPT ![sp] = 0]
           s   == [m EXCEPT !.ebp = sp, !.mem = mem]
<1>1. m.pc = "block"  BY Zenon DEF BlockPush, InBlock
<1>2. m \in States /\ m.ebp \in Slot /\ Next1 \in Addr /\ 0 \in Addr
  BY <1>1, NextInBlock
<1>3. sp \in Slot /\ sp \in Slot \cup {None}  BY <1>2, Wraps
<1>4. mem \in [Slot -> Addr]
  <2>1. m.mem \in [Slot -> Addr]  BY <1>2, Zenon DEF States
  <2> HIDE DEF sp
  <2> QED  BY <1>2, <1>3, <2>1
<1>5. InBlock("push", Next1, s)  BY Zenon DEF BlockPush
<1> HIDE DEF sp, mem
<1>6. s \in States  BY <1>2, <1>3, <1>4, Zenon DEF States
<1>7. /\ Going(s) /\ s.ebp = sp /\ s.ime = m.ime
      /\ s.flag = m.flag /\ s.ie = m.ie /\ s.ip = m.ip /\ s.sp = m.sp /\ s.mem = mem
      /\ s.issued = m.issued /\ s.owed = m.owed
      /\ s.program = m.program /\ s.due = m.due /\ s.merged = m.merged
  BY <1>2, Zenon DEF States, Going
<1> HIDE DEF s
<1>8. /\ MachineInv' /\ Loop!InBlock
      /\ m'.ebp = s.ebp /\ m'.ie = s.ie /\ Returned(s, m')
      /\ m'.pc = "block" /\ m'.eip = Next1 /\ m'.blk # 0
  BY <1>2, <1>3, <1>5, <1>6, <1>7, InBlockRefined, Zenon
<1>9. /\ m'.mem = [m.mem EXCEPT ![Loop!Down(m.ebp)] = 0] /\ m'.ebp = Loop!Down(m.ebp)
  BY <1>7, <1>8, Zenon DEF Returned, Loop!Down, Down, sp, mem
<1>10. /\ m'.ime = m.ime /\ m'.flag = m.flag /\ m'.ie = m.ie /\ m'.ip = m.ip
       /\ m'.sp = m.sp /\ m'.issued = m.issued /\ m'.owed = m.owed
  BY <1>7, <1>8, Zenon DEF Returned
<1>11. \E a \in Loop!Addr : m'.mem = [m.mem EXCEPT ![Loop!Down(m.ebp)] = a]
  BY <1>2, <1>9, Zenon DEF Loop!Addr, Addr
<1>12. Went("push", Next1, m.ime, Down(m.ebp), [m.mem EXCEPT ![Down(m.ebp)] = 0])
  <2>1. At(m.eip).op = "push"  BY Zenon DEF BlockPush, InBlock
  <2> QED  BY <1>1, <1>7, <1>8, <2>1, Zenon DEF Returned, Went, sp, mem
<1>13. Loop!BlockPush  BY <1>8, <1>9, <1>10, <1>11 DEF Loop!BlockPush, Loop!irq
<1> QED  BY <1>8, <1>12, <1>13

\* A pop.
LEMMA PopRefined ==
  ASSUME MachineInv, BlockPop
  PROVE  /\ MachineInv' /\ Loop!BlockPop
         /\ Went("pop", Next1, m.ime, Up(m.ebp), m.mem)
<1> DEFINE sp  == Up(m.ebp)
           s   == [m EXCEPT !.ebp = sp]
<1>1. m.pc = "block"  BY Zenon DEF BlockPop, InBlock
<1>2. m \in States /\ m.ebp \in Slot /\ Next1 \in Addr  BY <1>1, NextInBlock
<1>3. sp \in Slot /\ sp \in Slot \cup {None}  BY <1>2, Wraps
<1>4. InBlock("pop", Next1, s)  BY Zenon DEF BlockPop
<1> HIDE DEF sp
<1>5. s \in States  BY <1>2, <1>3, Zenon DEF States
<1>6. /\ Going(s) /\ s.ebp = sp /\ s.ime = m.ime
      /\ s.flag = m.flag /\ s.ie = m.ie /\ s.ip = m.ip /\ s.sp = m.sp /\ s.mem = m.mem
      /\ s.issued = m.issued /\ s.owed = m.owed
      /\ s.program = m.program /\ s.due = m.due /\ s.merged = m.merged
  BY <1>2, Zenon DEF States, Going
<1> HIDE DEF s
<1>7. /\ MachineInv' /\ Loop!InBlock
      /\ m'.ebp = s.ebp /\ m'.ie = s.ie /\ Returned(s, m')
      /\ m'.pc = "block" /\ m'.eip = Next1 /\ m'.blk # 0
  BY <1>2, <1>3, <1>4, <1>5, <1>6, InBlockRefined, Zenon
<1>8. m'.ebp = Loop!Up(m.ebp)  BY <1>6, <1>7, Zenon DEF Loop!Up, Up, sp
<1>9. /\ m'.ime = m.ime /\ m'.flag = m.flag /\ m'.ie = m.ie /\ m'.ip = m.ip
      /\ m'.sp = m.sp /\ m'.mem = m.mem /\ m'.issued = m.issued /\ m'.owed = m.owed
  BY <1>6, <1>7, Zenon DEF Returned
<1>10. Went("pop", Next1, m.ime, Up(m.ebp), m.mem)
  <2>1. At(m.eip).op = "pop"  BY Zenon DEF BlockPop, InBlock
  <2> QED  BY <1>1, <1>6, <1>7, <2>1, Zenon DEF Returned, Went, sp
<1>11. Loop!BlockPop  BY <1>7, <1>8, <1>9 DEF Loop!BlockPop, Loop!irq, Loop!regs
<1> QED  BY <1>7, <1>10, <1>11

\* The exits of a block: Leave, and with it ime and debt.
Left(a, sp, n, debt, ime) == [Leave(a, sp, n) EXCEPT !.debt = debt, !.ime = ime]

\* The block was left to go on at a with this stack pointer and master enable.
LeftAt(a, ime, sp) ==
  /\ m.pc = "block" /\ m'.pc = "fetch" /\ m'.ip = a /\ m'.ime = ime /\ m'.sp = sp
  /\ m'.mem = m.mem /\ m'.program = m.program /\ m'.owed = m.owed
  /\ m'.flag = m.flag /\ m'.due = m.due /\ m'.merged = m.merged

\* They are RunLoop's.
LEMMA LeftBlock ==
  ASSUME MachineInv, m.pc = "block", NEW a \in Addr, NEW sp \in Slot, NEW n \in Nat,
         NEW debt \in Int, NEW ime, ime \in BOOLEAN,
         m' = Left(a, sp, n, debt, ime)
  PROVE  /\ MachineInv' /\ Loop!Leave(a, sp, n)
         /\ m'.debt = debt /\ m'.ime = ime /\ LeftAt(a, ime, sp)
<1> DEFINE l == Leave(a, sp, n)
<1>1. m \in States /\ m.cyc < LineCycles  BY NextInBlock
<1>2. 0 \in Nat /\ "fetch" \in {"fetch", "halt", "enter", "block"} /\ "fetch" # "block"
      /\ None \in Slot \cup {None} /\ None \in Addr \cup {None}
  OBVIOUS
<1>3. l \in States  BY <1>1, <1>2, Zenon DEF States, Leave
<1>4. /\ l.pc = "fetch" /\ l.ip = a /\ l.sp = sp /\ l.gone = n /\ l.ebp = None
      /\ l.blk = 0 /\ l.flag = m.flag /\ l.ie = m.ie /\ l.mem = m.mem
      /\ l.issued = m.issued /\ l.owed = m.owed /\ l.cyc = m.cyc
      /\ l.program = m.program /\ l.due = m.due /\ l.merged = m.merged
  BY <1>1, Zenon DEF States, Leave
<1> HIDE DEF l
<1>5. m' \in States  BY <1>3, Zenon DEF States, l, Left
<1>6. /\ m'.pc = "fetch" /\ m'.ip = a /\ m'.sp = sp /\ m'.gone = n /\ m'.ebp = None
      /\ m'.blk = 0 /\ m'.flag = m.flag /\ m'.ie = m.ie /\ m'.mem = m.mem
      /\ m'.issued = m.issued /\ m'.owed = m.owed /\ m'.cyc = m.cyc
      /\ m'.debt = debt /\ m'.ime = ime
      /\ m'.program = m.program /\ m'.due = m.due /\ m'.merged = m.merged
  <2>1. m' = [l EXCEPT !.debt = debt, !.ime = ime]  BY Zenon DEF l, Left
  <2> QED  BY <1>3, <1>4, <2>1, Zenon DEF States
<1>7. MachineInv'  BY <1>1, <1>2, <1>5, <1>6, Zenon DEF MachineInv, Settled
<1>8. LeftAt(a, ime, sp)  BY <1>6, Zenon DEF LeftAt
<1> QED  BY <1>6, <1>7, <1>8 DEF Loop!Leave

\* A block ends.
LEMMA ExitRefined ==
  ASSUME MachineInv, BlockExit
  PROVE  /\ MachineInv' /\ Loop!BlockExit
         /\ LeftAt(m.eip, m.ime, m.ebp) /\ (m.blk = 0 => At(m.eip).op \in Interpreted)
<1>1. m.pc = "block" /\ m' = Leave(m.eip, m.ebp, m.blk)  BY Zenon DEF BlockExit
<1>2. m \in States /\ m.ebp \in Slot /\ m.eip \in Addr  BY <1>1, NextInBlock
<1>3. m.blk \in Nat /\ m.debt \in Int /\ m.ime \in BOOLEAN  BY <1>2, Fields, Zenon DEF States
<1>4. m' = Left(m.eip, m.ebp, m.blk, m.debt, m.ime)
  BY <1>1, <1>2, Zenon DEF Left, Leave, States
<1>5. /\ MachineInv' /\ Loop!Leave(m.eip, m.ebp, m.blk)
      /\ m'.debt = m.debt /\ m'.ime = m.ime /\ LeftAt(m.eip, m.ime, m.ebp)
  BY <1>1, <1>2, <1>3, <1>4, LeftBlock
<1>6. m.eip \in Loop!Addr  BY <1>2 DEF Loop!Addr, Addr
<1>7. m.blk = 0 => At(m.eip).op \in Interpreted  BY DEF BlockExit
<1> QED  BY <1>1, <1>5, <1>6, <1>7, Zenon DEF Loop!BlockExit

\* A block ends by a return.
LEMMA ReturnRefined ==
  ASSUME MachineInv, BlockReturn
  PROVE  /\ MachineInv' /\ Loop!BlockReturn
         /\ LeftAt(m.mem[m.ebp], TRUE, Up(m.ebp)) /\ At(m.eip).op = "reti"
<1> DEFINE ip == m.mem[m.ebp]
           sp == Up(m.ebp)
           n == m.blk + 1
           debt == m.debt + 1
<1>1. /\ m.pc = "block" /\ m.blk < BlockCycles
      /\ m' = [Leave(ip, sp, n) EXCEPT !.debt = @ + 1, !.ime = TRUE]
  BY Zenon DEF BlockReturn
<1>2. m \in States /\ m.ebp \in Slot  BY <1>1, NextInBlock
<1>3. ip \in Addr
  <2>1. m.mem \in [Slot -> Addr]  BY <1>2, Zenon DEF States
  <2> QED  BY <1>2, <2>1
<1>4. sp \in Slot  BY <1>2, Wraps
<1>5. n \in Nat /\ debt \in Int /\ TRUE \in BOOLEAN  BY <1>2, Fields
<1> HIDE DEF ip, sp, n
<1>6. Leave(ip, sp, n).debt = m.debt  BY <1>2, Zenon DEF Leave, States
<1>7. m' = Left(ip, sp, n, debt, TRUE)
  BY <1>1, <1>6, Zenon DEF Left
<1> HIDE DEF debt
<1>8. /\ MachineInv' /\ Loop!Leave(ip, sp, n)
      /\ m'.debt = debt /\ m'.ime = TRUE /\ LeftAt(ip, TRUE, sp)
  BY <1>1, <1>3, <1>4, <1>5, <1>7, LeftBlock
<1>9. Loop!Leave(m.mem[m.ebp], Loop!Up(m.ebp), m.blk + 1)
  BY <1>8, Zenon DEF ip, sp, n, Up, Loop!Up
<1>10. Loop!BlockReturn  BY <1>1, <1>8, <1>9 DEF Loop!BlockReturn, debt
<1>11. At(m.eip).op = "reti"  BY Zenon DEF BlockReturn
<1> QED  BY <1>8, <1>10, <1>11, Zenon DEF ip, sp

----------------------------------------------------------------------------
(* The theorems                                                             *)

\* Every step is one of RunLoop's.
LEMMA NextRefined ==
  ASSUME MachineInv, Next
  PROVE  MachineInv' /\ Loop!Next
<1>1. CASE EvadeStore  BY <1>1, StoreRefined DEF Loop!Next
<1>2. CASE EvadeHalt  BY <1>2, HaltRefined DEF Loop!Next
<1>3. CASE HaltStep  BY <1>3, HaltStepRefined DEF Loop!Next
<1>4. CASE HaltEnd  BY <1>4, HaltEndRefined DEF Loop!Next
<1>5. CASE Update  BY <1>5, UpdateRefined DEF Loop!Next
<1>6. CASE EnterBlock  BY <1>6, EnterRefined DEF Loop!Next
<1>7. CASE BlockNop \/ BlockEi \/ BlockJump  BY <1>7, ImeRefined DEF Loop!Next
<1>8. CASE BlockPush  BY <1>8, PushRefined DEF Loop!Next
<1>9. CASE BlockPop  BY <1>9, PopRefined DEF Loop!Next
<1>10. CASE BlockExit  BY <1>10, ExitRefined DEF Loop!Next
<1>11. CASE BlockReturn  BY <1>11, ReturnRefined DEF Loop!Next
<1> QED
  BY <1>1, <1>2, <1>3, <1>4, <1>5, <1>6, <1>7, <1>8, <1>9, <1>10, <1>11 DEF Next

\* Nothing happens to the loop when nothing happens.
LEMMA StutterRefined ==
  ASSUME MachineInv, UNCHANGED m
  PROVE  MachineInv' /\ UNCHANGED Loop!vars
BY DEF MachineInv, Loop!vars, Loop!irq, Loop!regs

\* Between calls less than a line is due, and a block has its registers.
THEOREM MachineInvHolds == Spec => []MachineInv
<1>1. Init => MachineInv  BY InitRefined
<1>2. MachineInv /\ [Next]_m => MachineInv'  BY NextRefined, StutterRefined
<1> QED  BY <1>1, <1>2, PTL DEF Spec

\* With its timer, its lines and its transfers, whose calls of update_cpu are
\* nested in one another, the machine is the run loop of RunLoop: a call
\* raises sources, accepts at most one interrupt and raises more.
THEOREM LoopImplemented == Spec => LoopRefined
<1>1. Init => Loop!Init  BY InitRefined
<1>2. MachineInv /\ [Next]_m => [Loop!Next]_(Loop!vars)
  BY NextRefined, StutterRefined
<1> QED  BY <1>1, <1>2, MachineInvHolds, PTL DEF Spec, LoopRefined

----------------------------------------------------------------------------
(* What is proved of RunLoop                                                *)

Proved == INSTANCE RunLoopProofs WITH
  Raisable <- Sources,
  pc <- m.pc, ime <- m.ime, int_flag <- m.flag, ie <- m.ie,
  vm_ip <- m.ip, vm_sp <- m.sp, mem <- m.mem, ebp <- m.ebp, blk <- m.blk,
  cycles_gone <- m.gone, interrupt_issued <- m.issued, owed <- m.owed,
  debt <- m.debt, stored <- FALSE

\* Its assumptions hold.
LEMMA Assumed ==
  /\ Proved!SourceAssumption /\ Proved!SizeAssumption /\ Proved!VectorAssumption
  /\ Proved!BoundAssumption /\ Proved!NoneAssumption
BY SizeAssumption, VectorAssumption, BoundAssumption, NoneAssumption
   DEF Proved!SourceAssumption, Proved!SizeAssumption, Proved!VectorAssumption,
       Proved!BoundAssumption, Proved!NoneAssumption, Proved!Vector, Proved!Addr,
       Proved!Slot, Proved!Owed, Vector, Addr, Slot, Owed, Sources, VBLANK, STAT, TIMER

\* Its invariant holds of the machine, and its steps are the machine's.
LEMMA LoopInvHolds ==
  Spec => [](Proved!LoopInv) /\ Proved!Init /\ [][Proved!Next]_(Proved!vars)
<1>1. Loop!Init <=> Proved!Init  BY DEF Loop!Init, Proved!Init, Loop!Slot, Proved!Slot
<1>2. [Loop!Next]_(Loop!vars) <=> [Proved!Next]_(Proved!vars)
  BY Zenon
   DEF Loop!Addr, Loop!Slot, Loop!Vector, Loop!irq, Loop!regs, Loop!vars,
       Loop!Owed, Loop!Down, Loop!Up, Loop!Ahead, Loop!Accept, Loop!UpdateCpu,
       Loop!StoreIO, Loop!EvadePlain, Loop!EvadeStore, Loop!EvadeHalt,
       Loop!HaltStep, Loop!HaltEnd, Loop!Update, Loop!EnterBlock, Loop!InBlock,
       Loop!BlockPush, Loop!BlockPop, Loop!BlockIme, Loop!BlockStore, Loop!Leave,
       Loop!BlockExit, Loop!BlockReturn, Loop!Next,
       Proved!Addr, Proved!Slot, Proved!Vector, Proved!irq, Proved!regs,
       Proved!vars, Proved!Owed, Proved!Down, Proved!Up, Proved!Ahead,
       Proved!Accept, Proved!UpdateCpu, Proved!StoreIO, Proved!EvadePlain,
       Proved!EvadeStore, Proved!EvadeHalt, Proved!HaltStep, Proved!HaltEnd,
       Proved!Update, Proved!EnterBlock, Proved!InBlock, Proved!BlockPush,
       Proved!BlockPop, Proved!BlockIme, Proved!BlockStore, Proved!Leave,
       Proved!BlockExit, Proved!BlockReturn, Proved!Next
<1>3. Proved!Init => Proved!LoopInv  BY Assumed, Proved!LoopInvInit
<1>4. Proved!LoopInv /\ [Proved!Next]_(Proved!vars) => Proved!LoopInv'
  BY Assumed, Proved!LoopInvStep
<1> QED  BY <1>1, <1>2, <1>3, <1>4, LoopImplemented, PTL DEF LoopRefined

\* HALT does not sleep through an interrupt, whatever is accepted by a call
\* that is nested in another.
THEOREM HaltNeverOversleeps == Spec => []Loop!HaltAwake
<1>1. Proved!LoopInv => Loop!HaltAwake
  BY DEF Proved!LoopInv, Proved!HaltAwake, Loop!HaltAwake
<1> QED  BY <1>1, LoopInvHolds, PTL

\* An interrupt that is accepted, be it within a transfer, is entered, and
\* the address the guest was interrupted at is on its stack.
THEOREM AcceptedIsEntered == Spec => []Loop!OwedEntered
<1>1. Proved!LoopInv => Loop!OwedEntered
  BY DEF Proved!LoopInv, Proved!OwedEntered, Loop!OwedEntered, Proved!Vector, Loop!Vector
<1> QED  BY <1>1, LoopInvHolds, PTL

\* Every cycle of the guest's program is reported to the devices once.
THEOREM ClockComplete == Spec => []Loop!CyclesAccounted
<1>1. Proved!LoopInv => Loop!CyclesAccounted
  BY DEF Proved!LoopInv, Proved!CyclesAccounted, Loop!CyclesAccounted
<1> QED  BY <1>1, LoopInvHolds, PTL

\* The guest has one processor that accepts interrupts between two of its
\* instructions.
GuestContract ==
  Loop!Contract!Init /\ [][Loop!Contract!Next]_(Loop!Contract!vars)

\* The machine, devices included, keeps the contract; its guests store to
\* the interrupt registers by instructions that are not compiled.
THEOREM ContractImplemented == Spec => GuestContract
<1>1. Proved!Init => Proved!Contract!Init  BY Assumed, Proved!ContractInit
<1>2. Proved!LoopInv /\ [Proved!Next]_(Proved!vars)
        => [Proved!Contract!Next]_(Proved!Contract!vars)
  BY Assumed, Proved!ContractStep
<1>3. Proved!Contract!Init <=> Loop!Contract!Init
  BY DEF Proved!Contract!Init, Loop!Contract!Init, Proved!Contract!Slot,
         Loop!Contract!Slot
<1>4. [Proved!Contract!Next]_(Proved!Contract!vars)
        <=> [Loop!Contract!Next]_(Loop!Contract!vars)
  BY Zenon
   DEF Proved!Contract!Addr, Proved!Contract!Slot, Proved!Contract!vars,
       Proved!Contract!Execute, Proved!Contract!Deliver, Proved!Contract!Poll,
       Proved!Contract!Store, Proved!Contract!Halt, Proved!Contract!Next,
       Loop!Contract!Addr, Loop!Contract!Slot, Loop!Contract!vars,
       Loop!Contract!Execute, Loop!Contract!Deliver, Loop!Contract!Poll,
       Loop!Contract!Store, Loop!Contract!Halt, Loop!Contract!Next
<1> QED  BY <1>1, <1>2, <1>3, <1>4, LoopInvHolds, PTL DEF GuestContract

----------------------------------------------------------------------------
(* VBlanks                                                                  *)

\* The inductive invariant: the count is right, outside of blocks ip is the
\* vector of VBlank exactly while VBlank is to be entered, and nobody can get
\* there otherwise, through the guest's stack or from within a block.
ServedInv ==
  /\ Counted(m)
  /\ \A k \in Slot : m.mem[k] # Vector(VBLANK)
  /\ IF m.pc = "block" THEN m.owed = None /\ (m.eip = Vector(VBLANK) => m.blk = 0)
     ELSE m.ip = Vector(VBLANK) <=> OwesVBlank(m)

\* An instruction that went on went where the program leads to, and so does an
\* interpreted one.
LEMMA LeadsOn ==
  /\ \A op, a, ime, sp, mem :
       op # "reti" /\ Went(op, a, ime, sp, mem) => a \in After(m.program, m.eip)
  /\ At(m.ip).op \in Interpreted => Ahead(m) \in After(m.program, m.ip)
<1>1. ASSUME NEW op, NEW a, op # "reti", At(m.eip).op = op,
             IF op = "jump" THEN a \in At(m.eip).to ELSE a = Next1
      PROVE  a \in After(m.program, m.eip)
  BY <1>1, Zenon DEF After, At, Next1
<1>2. ASSUME At(m.ip).op \in Interpreted PROVE Ahead(m) \in After(m.program, m.ip)
  <2>1. At(m.ip).op # "jump" /\ At(m.ip).op # "reti"  BY <1>2 DEF Interpreted
  <2> QED  BY <2>1, Zenon DEF After, At, Ahead
<1> QED  BY <1>1, <1>2, Zenon DEF Went

\* The state at the start.
LEMMA Start ==
  ASSUME Init
  PROVE  /\ m.pc = "fetch" /\ m.ip = 0 /\ m.sp = Slots - 1 /\ m.owed = None
         /\ m.flag = {} /\ m.mem = [k \in Slot |-> 0] /\ m.due = 0 /\ m.merged = 0
<1> DEFINE memory == [k \in Slot |-> 0]
           sp == Slots - 1
           left == -1
<1>1. PICK program \in Programs, skips \in BOOLEAN :
        m = [program |-> program, skips |-> skips,
             pc |-> "fetch", ime |-> FALSE, flag |-> {}, ie |-> {},
             ip |-> 0, sp |-> sp, mem |-> memory,
             ebp |-> None, eip |-> None, blk |-> 0, gone |-> 0, issued |-> FALSE,
             owed |-> None, debt |-> 0,
             tima |-> 0, cum |-> 0, cyc |-> 0, ly |-> 0,
             left |-> left, hdma |-> FALSE, due |-> 0, merged |-> 0]
  BY Zenon DEF Init
<1> HIDE DEF memory, sp, left
<1> QED  BY <1>1, Zenon DEF memory, sp

\* At the start nothing is accepted and the stack is empty.
LEMMA ServedInit ==
  ASSUME Init, EnteredByInterrupt(m.program)
  PROVE  ServedInv
<1>1. Vector(VBLANK) # 0  BY Zenon DEF EnteredByInterrupt
<1>2. /\ m.pc = "fetch" /\ m.ip = 0 /\ m.owed = None /\ m.flag = {}
      /\ m.mem = [k \in Slot |-> 0] /\ m.due = 0 /\ m.merged = 0
  BY Start
<1>3. \A k \in Slot : m.mem[k] = 0  BY <1>2
<1>4. ~OwesVBlank(m)  BY <1>2, Zenon DEF OwesVBlank
<1>5. Counted(m)
  <2>1. Num(VBLANK \in m.flag) = 0 /\ Num(OwesVBlank(m)) = 0  BY <1>2, <1>4 DEF Num
  <2>2. 0 = 0 + 0 + 0  OBVIOUS
  <2> QED  BY <1>2, <2>1, <2>2, Zenon DEF Counted
<1>6. m.pc # "block"  BY <1>2
<1> QED  BY <1>1, <1>2, <1>3, <1>4, <1>5, <1>6, Zenon DEF ServedInv

\* A call of update_cpu from where only what is owed is VBlank's.
LEMMA CallServed ==
  ASSUME MachineInv, ServedInv, EnteredByInterrupt(m.program), m.pc # "block",
         NEW ip \in Addr, NEW owed, CalledFrom(ip, owed),
         ip = Vector(VBLANK) <=> owed # None /\ owed.src = VBLANK
  PROVE  ServedInv'
<1>1. PICK s \in States : \E e :
        /\ s.ime = m.ime /\ s.sp = m.sp /\ s.mem = m.mem
        /\ s.ip = ip /\ s.owed = owed /\ (Served(m) => Counted(s))
        /\ Part(s, e) /\ Returned(e, m')
  BY Zenon DEF CalledFrom
<1>2. PICK e :
        /\ s.ime = m.ime /\ s.sp = m.sp /\ s.mem = m.mem
        /\ s.ip = ip /\ s.owed = owed /\ (Served(m) => Counted(s))
        /\ Part(s, e) /\ Returned(e, m')
  BY <1>1
<1>3. m'.pc # "block"  BY Zenon DEF CalledFrom
<1>4. Counted(s)  BY <1>2, Zenon DEF ServedInv, Served
<1>5. Counted(m')
  <2>1. Counted(e)  BY <1>2, <1>4, Zenon DEF Part
  <2> QED  BY <1>2, <2>1, Zenon DEF Returned, Counted, OwesVBlank
<1>6. (\A k \in Slot : m'.mem[k] # Vector(VBLANK))
      /\ (m'.ip = Vector(VBLANK) <=> OwesVBlank(m'))
  <2>1. CASE Stayed(s, e)
    BY <1>2, <2>1, Zenon DEF Stayed, Returned, ServedInv, OwesVBlank
  <2>2. CASE Accepted(s, e)
    <3>1. PICK req, later : \E i : Jumped(s, e, req, i, later)  BY <2>2, Zenon DEF Accepted
    <3>2. PICK i : Jumped(s, e, req, i, later)  BY <3>1
    <3>3. /\ s.ime = TRUE /\ m'.ip = Vector(i) /\ i \in Sources
          /\ m'.mem = [m.mem EXCEPT ![Down(m.sp)] = ip]
          /\ m'.owed = [src |-> i, ret |-> ip, from |-> "loop"]
      <4>1. i \in Sources  BY <3>2 DEF Jumped
      <4> QED  BY <1>2, <3>2, <4>1, Zenon DEF Jumped, Returned
    <3>4. ip # Vector(VBLANK)
      <4>1. s.owed = None  BY <1>4, <3>3 DEF Counted
      <4> QED  BY <1>2, <4>1
    <3>5. \A k \in Slot : m'.mem[k] # Vector(VBLANK)
      <4>1. m.mem \in [Slot -> Addr]  BY Zenon DEF MachineInv, Settled, States
      <4>2. \A k \in Slot : m.mem[k] # Vector(VBLANK)  BY Zenon DEF ServedInv
      <4> QED  BY <3>3, <3>4, <4>1, <4>2
    <3>6. OwesVBlank(m') <=> i = VBLANK
      <4>1. m'.owed \in Owed  BY <3>3 DEF Owed
      <4>2. m'.owed # None  BY <4>1, NoneAssumption
      <4>3. m'.owed.src = i  BY <3>3
      <4> QED  BY <4>2, <4>3, Zenon DEF OwesVBlank
    <3>7. Vector(i) = Vector(VBLANK) <=> i = VBLANK
      BY <3>3, Zenon DEF EnteredByInterrupt
    <3> QED  BY <3>3, <3>5, <3>6, <3>7, Zenon
  <2> QED  BY <1>2, <2>1, <2>2, Zenon DEF Part
<1> QED  BY <1>3, <1>5, <1>6, Zenon DEF ServedInv

\* An interpreted instruction: it is not at VBlank's vector, and the next one
\* is not either.
LEMMA InterpretedServed ==
  ASSUME MachineInv, ServedInv, EnteredByInterrupt(m.program), m.pc # "block",
         At(m.ip).op \in Interpreted, CalledFrom(Ahead(m), None)
  PROVE  ServedInv'
<1>1. m.ip \in Addr  BY Fields, Zenon DEF MachineInv, Settled
<1>2. Ahead(m) # Vector(VBLANK)  BY <1>1, LeadsOn, Zenon DEF EnteredByInterrupt
<1>3. Ahead(m) \in Addr  BY <1>1, Wraps, Zenon DEF Ahead
<1>4. Ahead(m) = Vector(VBLANK) <=> None # None /\ None.src = VBLANK  BY <1>2
<1> QED  BY <1>3, <1>4, CallServed, Zenon

\* HALT's loop and the loop's own call.
LEMMA LoopServed ==
  ASSUME MachineInv, ServedInv, EnteredByInterrupt(m.program), m.pc # "block",
         CalledFrom(m.ip, m.owed)
  PROVE  ServedInv'
<1>1. m.ip \in Addr  BY Fields, Zenon DEF MachineInv, Settled
<1>2. m.ip = Vector(VBLANK) <=> m.owed # None /\ m.owed.src = VBLANK
  BY Zenon DEF ServedInv, OwesVBlank
<1> QED  BY <1>1, <1>2, CallServed, Zenon

\* A compiled instruction: none leads to VBlank's vector.
LEMMA BlockServed ==
  ASSUME MachineInv, ServedInv, EnteredByInterrupt(m.program),
         NEW op, op # "reti", NEW a, NEW ime, NEW sp, NEW mem, Went(op, a, ime, sp, mem),
         \A k \in Slot : mem[k] # Vector(VBLANK)
  PROVE  ServedInv'
<1>1. /\ m.pc = "block" /\ m'.pc = "block" /\ m'.eip = a /\ m'.mem = mem
      /\ m'.owed = m.owed /\ m'.flag = m.flag
      /\ m'.due = m.due /\ m'.merged = m.merged
  BY Zenon DEF Went
<1>2. m.owed = None /\ Counted(m)  BY <1>1, Zenon DEF ServedInv
<1>3. Counted(m')  BY <1>1, <1>2, Zenon DEF Counted, OwesVBlank
<1>4. a # Vector(VBLANK)
  <2>1. m.eip \in Addr  BY <1>1, Zenon DEF MachineInv
  <2>2. a \in After(m.program, m.eip)  BY LeadsOn, Zenon
  <2> QED  BY <2>1, <2>2, Zenon DEF EnteredByInterrupt
<1> QED  BY <1>1, <1>2, <1>3, <1>4, Zenon DEF ServedInv

\* A block's end: the guest goes on at a, which is not VBlank's vector.
LEMMA LeftServed ==
  ASSUME ServedInv, NEW a, NEW ime, NEW sp, LeftAt(a, ime, sp), a # Vector(VBLANK)
  PROVE  ServedInv'
<1>1. /\ m.pc = "block" /\ m'.pc = "fetch" /\ m'.ip = a /\ m'.mem = m.mem
      /\ m'.owed = m.owed /\ m'.flag = m.flag
      /\ m'.due = m.due /\ m'.merged = m.merged
  BY Zenon DEF LeftAt
<1>2. m.owed = None /\ Counted(m) /\ \A k \in Slot : m.mem[k] # Vector(VBLANK)
  BY <1>1, Zenon DEF ServedInv
<1>3. Counted(m') /\ ~OwesVBlank(m')  BY <1>1, <1>2, Zenon DEF Counted, OwesVBlank
<1>4. m'.pc # "block"  BY <1>1
<1> QED  BY <1>1, <1>2, <1>3, <1>4, Zenon DEF ServedInv

\* Every step keeps the invariant.
LEMMA ServedStep ==
  ASSUME MachineInv, ServedInv, EnteredByInterrupt(m.program), Next
  PROVE  ServedInv'
<1>1. m.pc = "block" => /\ m \in States /\ m.ebp \in Slot /\ m.eip \in Addr
                        /\ \A k \in Slot : m.mem[k] # Vector(VBLANK)
  BY NextInBlock, Zenon DEF ServedInv
<1>2. CASE EvadeStore
  <2>1. m.pc # "block" /\ At(m.ip).op \in Interpreted  BY <1>2 DEF EvadeStore, Interpreted
  <2> QED  BY <1>2, <2>1, StoreRefined, InterpretedServed, Zenon
<1>3. CASE EvadeHalt
  <2>1. m.pc # "block" /\ At(m.ip).op \in Interpreted  BY <1>3 DEF EvadeHalt, Interpreted
  <2> QED  BY <1>3, <2>1, HaltRefined, InterpretedServed, Zenon
<1>4. CASE HaltStep
  <2>1. m.pc # "block"  BY <1>4 DEF HaltStep
  <2> QED  BY <1>4, <2>1, HaltStepRefined, LoopServed, Zenon
<1>5. CASE HaltEnd
  <2>1. m.pc # "block"  BY <1>5 DEF HaltEnd
  <2>2. Returned(m, m') /\ m'.pc # "block"  BY <1>5, HaltEndRefined
  <2>3. Counted(m) => Counted(m')  BY <2>2, Zenon DEF Returned, Counted, OwesVBlank
  <2> QED  BY <2>1, <2>2, <2>3, Zenon DEF Returned, ServedInv, OwesVBlank
<1>6. CASE Update
  <2>1. m.pc # "block"  BY <1>6 DEF Update
  <2> QED  BY <1>6, <2>1, UpdateRefined, LoopServed, Zenon
<1>7. CASE EnterBlock
  <2>1. m.pc # "block"  BY <1>7 DEF EnterBlock
  <2>2. /\ m'.pc = "block" /\ m'.owed = None /\ m'.blk = 0 /\ m'.mem = m.mem
        /\ (Served(m) => Counted(m'))
    BY <1>7, EnterRefined DEF Loop!EnterBlock, Loop!regs
  <2>3. Counted(m')  BY <2>1, <2>2, Zenon DEF ServedInv, Served
  <2> QED  BY <2>1, <2>2, <2>3, Zenon DEF ServedInv
<1>8. CASE BlockNop \/ BlockEi \/ BlockJump
  <2>1. PICK op \in {"nop", "ei", "jump"}, a \in Addr : Went(op, a, m'.ime, m.ebp, m.mem)
    BY <1>8, ImeRefined, Zenon
  <2>2. op # "reti"  OBVIOUS
  <2>3. m.pc = "block"  BY <2>1, Zenon DEF Went
  <2> QED  BY <1>1, <2>1, <2>2, <2>3, BlockServed, Zenon
<1>9. CASE BlockPush
  <2> DEFINE mem == [m.mem EXCEPT ![Down(m.ebp)] = 0]
  <2>1. Went("push", Next1, m.ime, Down(m.ebp), mem)  BY <1>9, PushRefined
  <2>2. m.pc = "block" /\ "push" # "reti"  BY <2>1 DEF Went
  <2>3. \A k \in Slot : mem[k] # Vector(VBLANK)
    <3>1. m.mem \in [Slot -> Addr]  BY Zenon DEF MachineInv, Settled, States
    <3>2. Vector(VBLANK) # 0  BY Zenon DEF EnteredByInterrupt
    <3> QED  BY <1>1, <2>2, <3>1, <3>2
  <2> HIDE DEF mem
  <2> QED  BY <2>1, <2>2, <2>3, BlockServed, Zenon
<1>10. CASE BlockPop
  <2>1. Went("pop", Next1, m.ime, Up(m.ebp), m.mem)  BY <1>10, PopRefined
  <2>2. m.pc = "block" /\ "pop" # "reti"  BY <2>1 DEF Went
  <2> QED  BY <1>1, <2>1, <2>2, BlockServed, Zenon
<1>11. CASE BlockExit
  <2>1. LeftAt(m.eip, m.ime, m.ebp) /\ (m.blk = 0 => At(m.eip).op \in Interpreted)
    BY <1>11, ExitRefined, Zenon
  <2>2. m.pc = "block"  BY <2>1, Zenon DEF LeftAt
  <2>3. m.eip # Vector(VBLANK)
    <3>1. m.eip = Vector(VBLANK) => m.blk = 0  BY <2>2, Zenon DEF ServedInv
    <3>2. m.program[Vector(VBLANK)].op \notin Interpreted  BY Zenon DEF EnteredByInterrupt
    <3> QED  BY <2>1, <3>1, <3>2, Zenon DEF At
  <2> QED  BY <2>1, <2>3, LeftServed, Zenon
<1>12. CASE BlockReturn
  <2>1. LeftAt(m.mem[m.ebp], TRUE, Up(m.ebp))  BY <1>12, ReturnRefined, Zenon
  <2>2. m.mem[m.ebp] # Vector(VBLANK)  BY <1>1, <2>1, Zenon DEF LeftAt
  <2> QED  BY <2>1, <2>2, LeftServed, Zenon
<1> QED
  BY <1>2, <1>3, <1>4, <1>5, <1>6, <1>7, <1>8, <1>9, <1>10, <1>11, <1>12 DEF Next

\* The count of VBlanks, those included that begin while one is requested.
VBlanksCounted == m.due = m.merged + Num(VBLANK \in m.flag) + Num(OwesVBlank(m))

\* No VBlank of a guest is lost or served twice, through all nested calls and
\* writes of IF: each that begins is requested, or accepted and about to be
\* entered, until its handler starts, or finds one that is still requested.
THEOREM VBlanksServedOnce ==
  ASSUME \A p \in Programs : EnteredByInterrupt(p)
  PROVE  Spec => [](VBlanksCounted /\ (m.merged = 0 => ServedOnce))
<1>1. m \in States => EnteredByInterrupt(m.program)  BY Zenon DEF States
<1>2. Init => ServedInv
  <2>1. Init => m \in States  BY InitRefined, Zenon DEF MachineInv, Settled
  <2> QED  BY <1>1, <2>1, ServedInit
<1>3. MachineInv /\ ServedInv /\ [Next]_m => ServedInv'
  <2>1. MachineInv => EnteredByInterrupt(m.program)  BY <1>1, Zenon DEF MachineInv, Settled
  <2>2. ServedInv /\ UNCHANGED m => ServedInv'  BY Zenon DEF ServedInv, Counted, OwesVBlank
  <2> QED  BY <2>1, <2>2, ServedStep
<1>4. ServedInv => VBlanksCounted /\ (m.merged = 0 => ServedOnce)
  <2>1. ServedInv => VBlanksCounted  BY Zenon DEF ServedInv, Counted, VBlanksCounted
  <2>2. ASSUME m.merged = 0, VBlanksCounted PROVE ServedOnce
    <3>1. Num(VBLANK \in m.flag) \in Int /\ Num(OwesVBlank(m)) \in Int  BY DEF Num
    <3>2. m.due = Num(VBLANK \in m.flag) + Num(OwesVBlank(m))
      BY <2>2, <3>1 DEF VBlanksCounted
    <3> QED  BY <3>2, Zenon DEF ServedOnce, OwesVBlank
  <2> QED  BY <2>1, <2>2
<1> QED  BY <1>2, <1>3, <1>4, MachineInvHolds, PTL DEF Spec

----------------------------------------------------------------------------
(* The stack                                                                *)

\* How deep the handlers of a guest are at an address.
DepthOf(p) == CHOOSE depth \in Depths : Disciplined(p, depth)

\* A guest that goes on at a with the stack pointer sp: the main program has
\* nothing on the stack; a handler has the address in the main program it
\* returns to, and what it pushed, and cannot be interrupted.
Placed(a, sp, ime, mem, depth) ==
  IF a < VectorBase THEN sp = Slots - 1
  ELSE ime = FALSE /\ sp = Slots - 2 - depth[a] /\ mem[Slots - 2] < VectorBase

\* The inductive invariant, of the registers of the loop or of the block.
StackInv ==
  IF m.pc = "block" THEN Placed(m.eip, m.ebp, m.ime, m.mem, DepthOf(m.program))
  ELSE Placed(m.ip, m.sp, m.ime, m.mem, DepthOf(m.program))

\* A guest that keeps the discipline has its depths, and the stack is large
\* enough.
LEMMA DepthsOf ==
  ASSUME NEW p, Balanced(p)
  PROVE  /\ DepthOf(p) \in Depths /\ Disciplined(p, DepthOf(p))
         /\ Slots - 2 \in Slot /\ Slots - 1 \in Slot /\ Slots - 2 # Slots - 1
<1>1. DepthOf(p) \in Depths /\ Disciplined(p, DepthOf(p))
  BY Zenon DEF Balanced, DepthOf
<1>2. 0 \in Addr  BY Sizes DEF Addr
<1>3. DepthOf(p)[0] \in 0 .. Slots - 2  BY <1>1, <1>2 DEF Depths
<1> QED  BY <1>1, <1>3, Sizes DEF Slot

\* What an instruction that goes on at b does to the stack.
LEMMA Moves ==
  ASSUME NEW p, NEW depth \in Depths, Disciplined(p, depth), NEW a \in Addr, NEW b \in Addr,
         b \in After(p, a), NEW sp \in Slot, NEW ime, NEW mem \in [Slot -> Addr],
         Slots - 2 \in Slot, Placed(a, sp, ime, mem, depth)
  PROVE  /\ p[a].op \notin {"push", "pop", "ei"} => Placed(b, sp, ime, mem, depth)
         /\ p[a].op = "ei" => \A x : Placed(b, sp, x, mem, depth)
         /\ p[a].op = "push"
              => Placed(b, Down(sp), ime, [mem EXCEPT ![Down(sp)] = 0], depth)
         /\ p[a].op = "pop" => Placed(b, Up(sp), ime, mem, depth)
<1> DEFINE op == p[a].op
<1>1. VectorBase \in Nat /\ a \in Nat /\ b \in Nat
  BY Sizes DEF Disciplined, Addr
<1>2. CASE a < VectorBase
  <2>1. op \notin {"push", "pop", "reti"} /\ b < VectorBase
    BY <1>2, Zenon DEF Disciplined
  <2>2. sp = Slots - 1  BY <1>2 DEF Placed
  <2>3. \A x, y : Placed(b, sp, x, y, depth)  BY <2>1, <2>2 DEF Placed
  <2> QED  BY <2>1, <2>3
<1>3. CASE ~(a < VectorBase)
  <2>1. op # "ei" /\ VectorBase <= b /\ depth[b] = depth[a] + Pushed(op)
    BY <1>3, Zenon DEF Disciplined
  <2>2. ~(b < VectorBase)  BY <1>1, <2>1
  <2>3. ime = FALSE /\ sp = Slots - 2 - depth[a] /\ mem[Slots - 2] < VectorBase
    BY <1>3, Zenon DEF Placed
  <2>4. depth[a] \in 0 .. Slots - 2 /\ depth[b] \in 0 .. Slots - 2  BY DEF Depths
  <2>5. ASSUME op \notin {"push", "pop", "ei"} PROVE Placed(b, sp, ime, mem, depth)
    <3>1. depth[b] = depth[a]  BY <2>1, <2>4, <2>5 DEF Pushed
    <3> QED  BY <2>2, <2>3, <3>1, Zenon DEF Placed
  <2>6. ASSUME op = "push"
        PROVE  Placed(b, Down(sp), ime, [mem EXCEPT ![Down(sp)] = 0], depth)
    <3>1. depth[b] = depth[a] + 1  BY <2>1, <2>6 DEF Pushed
    <3>2. sp - 1 \in 0 .. Slots - 1  BY <2>3, <2>4, <3>1, Sizes
    <3>3. (sp - 1) % Slots = sp - 1  BY <3>2, Sizes
    <3>4. Down(sp) = Slots - 2 - depth[b] /\ Down(sp) # Slots - 2
      BY <2>3, <2>4, <3>1, <3>3, Sizes DEF Down
    <3> DEFINE new == [mem EXCEPT ![Down(sp)] = 0]
    <3>5. new[Slots - 2] = mem[Slots - 2]  BY <3>4
    <3> HIDE DEF new
    <3>6. Placed(b, Down(sp), ime, new, depth)
      BY <2>2, <2>3, <3>4, <3>5, Zenon DEF Placed
    <3> QED  BY <3>6 DEF new
  <2>7. ASSUME op = "pop" PROVE Placed(b, Up(sp), ime, mem, depth)
    <3>1. depth[b] = depth[a] - 1  BY <2>1, <2>4, <2>7 DEF Pushed
    <3>2. sp + 1 \in 0 .. Slots - 1  BY <2>3, <2>4, <3>1, Sizes
    <3>3. (sp + 1) % Slots = sp + 1  BY <3>2, Sizes
    <3>4. Up(sp) = Slots - 2 - depth[b]  BY <2>3, <2>4, <3>1, <3>3, Sizes DEF Up
    <3> QED  BY <2>2, <2>3, <3>4, Zenon DEF Placed
  <2> QED  BY <2>1, <2>5, <2>6, <2>7
<1> QED  BY <1>2, <1>3

\* A return ends a handler, which had nothing of its own on the stack.
LEMMA Returns ==
  ASSUME NEW p, NEW depth \in Depths, Disciplined(p, depth), NEW a \in Addr,
         p[a].op = "reti", NEW sp \in Slot, NEW ime, NEW mem, Slots - 1 \in Slot,
         Placed(a, sp, ime, mem, depth)
  PROVE  Placed(mem[sp], Up(sp), TRUE, mem, depth)
<1>1. ~(a < VectorBase) /\ depth[a] = 0  BY DEF Disciplined
<1>2. sp = Slots - 2 - 0 /\ mem[Slots - 2] < VectorBase  BY <1>1, Zenon DEF Placed
<1>3. sp = Slots - 2 /\ sp + 1 = Slots - 1  BY <1>2, Sizes
<1>4. (sp + 1) % Slots = Slots - 1  BY <1>3, Sizes DEF Slot
<1>5. mem[sp] < VectorBase  BY <1>2, <1>3
<1> QED  BY <1>4, <1>5, Zenon DEF Placed, Up

\* A call of update_cpu finds the main program if it accepts an interrupt.
LEMMA CallPlaced ==
  ASSUME NEW p, NEW depth \in Depths, Disciplined(p, depth),
         NEW s \in States, NEW e, Part(s, e), Slots - 2 \in Slot,
         Placed(s.ip, s.sp, s.ime, s.mem, depth)
  PROVE  Placed(e.ip, e.sp, e.ime, e.mem, depth)
<1>1. CASE Stayed(s, e)  BY <1>1, Zenon DEF Stayed
<1>2. CASE Accepted(s, e)
  <2>1. PICK req, later : \E i : Jumped(s, e, req, i, later)  BY <1>2, Zenon DEF Accepted
  <2>2. PICK i : Jumped(s, e, req, i, later)  BY <2>1
  <2>3. /\ s.ime = TRUE /\ e.ime = FALSE /\ e.ip = Vector(i) /\ e.sp = Down(s.sp)
        /\ e.mem = [s.mem EXCEPT ![Down(s.sp)] = s.ip] /\ i \in Sources
    <3>1. i \in Sources  BY <2>2 DEF Jumped
    <3> QED  BY <2>2, <3>1, Zenon DEF Jumped
  <2>4. s.ip < VectorBase /\ s.sp = Slots - 1
    BY <2>3 DEF Placed
  <2>5. Down(s.sp) = Slots - 2
    <3>1. (Slots - 2) % Slots = Slots - 2 /\ Slots - 1 - 1 = Slots - 2  BY Sizes DEF Slot
    <3> QED  BY <2>4, <3>1, Zenon DEF Down
  <2>6. e.mem[Slots - 2] = s.ip
    <3>1. s.mem \in [Slot -> Addr]  BY Zenon DEF States
    <3> QED  BY <2>3, <2>5, <3>1
  <2>7. ~(Vector(i) < VectorBase) /\ depth[Vector(i)] = 0
    <3>1. VectorBase <= Vector(i) /\ depth[Vector(i)] = 0 /\ VectorBase \in Nat
      BY <2>3 DEF Disciplined
    <3>2. Vector(i) \in Nat  BY <2>3, VectorAssumption, Sizes DEF Addr
    <3> QED  BY <3>1, <3>2
  <2>8. Slots - 2 = Slots - 2 - 0  BY Sizes
  <2> QED  BY <2>3, <2>4, <2>5, <2>6, <2>7, <2>8, Zenon DEF Placed
<1> QED  BY <1>1, <1>2, Zenon DEF Part

\* Whatever happens in a call, the guest goes on where it is in its place.
LEMMA CallStack ==
  ASSUME MachineInv, Balanced(m.program), NEW ip, NEW owed, CalledFrom(ip, owed),
         Placed(ip, m.sp, m.ime, m.mem, DepthOf(m.program))
  PROVE  StackInv'
<1> DEFINE depth == DepthOf(m.program)
<1>1. PICK s \in States : \E e :
        /\ s.program = m.program /\ s.ime = m.ime /\ s.sp = m.sp /\ s.mem = m.mem
        /\ s.ip = ip /\ Part(s, e) /\ Returned(e, m')
  BY Zenon DEF CalledFrom
<1>2. PICK e :
        /\ s.program = m.program /\ s.ime = m.ime /\ s.sp = m.sp /\ s.mem = m.mem
        /\ s.ip = ip /\ Part(s, e) /\ Returned(e, m')
  BY <1>1
<1>3. m'.pc # "block"  BY Zenon DEF CalledFrom
<1>4. m'.program = m.program  BY <1>2, Zenon DEF Part, Kept, Returned
<1>5. depth \in Depths /\ Disciplined(m.program, depth) /\ Slots - 2 \in Slot
  BY DepthsOf, Zenon
<1>6. Placed(s.ip, s.sp, s.ime, s.mem, depth)  BY <1>2, Zenon
<1> HIDE DEF depth
<1>7. Placed(e.ip, e.sp, e.ime, e.mem, depth)
  BY <1>2, <1>5, <1>6, CallPlaced, Zenon
<1>8. Placed(m'.ip, m'.sp, m'.ime, m'.mem, depth)  BY <1>2, <1>7, Zenon DEF Returned
<1> QED  BY <1>3, <1>4, <1>8, Zenon DEF StackInv, depth

\* An interpreted instruction leaves the stack to the call.
LEMMA InterpretedStack ==
  ASSUME MachineInv, StackInv, Balanced(m.program), m.pc # "block",
         At(m.ip).op \in Interpreted, CalledFrom(Ahead(m), None)
  PROVE  StackInv'
<1> DEFINE depth == DepthOf(m.program)
<1>1. m.ip \in Addr /\ m.sp \in Slot /\ m.mem \in [Slot -> Addr]
  BY Fields, Zenon DEF MachineInv, Settled, States
<1>2. Ahead(m) \in Addr /\ Ahead(m) \in After(m.program, m.ip)
  BY <1>1, Wraps, LeadsOn, Zenon DEF Ahead
<1>3. depth \in Depths /\ Disciplined(m.program, depth) /\ Slots - 2 \in Slot
  BY DepthsOf, Zenon
<1>4. Placed(m.ip, m.sp, m.ime, m.mem, depth)  BY Zenon DEF StackInv
<1>5. m.program[m.ip].op \notin {"push", "pop", "ei"}  BY DEF Interpreted, At
<1> HIDE DEF depth
<1>6. Placed(Ahead(m), m.sp, m.ime, m.mem, depth)
  BY <1>1, <1>2, <1>3, <1>4, <1>5, Moves, Zenon
<1> QED  BY <1>6, CallStack, Zenon DEF depth

\* A compiled instruction moves the stack as the discipline has it.
LEMMA BlockStack ==
  ASSUME MachineInv, StackInv, Balanced(m.program), NEW op, op # "reti",
         NEW a, NEW ime, NEW sp, NEW mem, Went(op, a, ime, sp, mem), a \in Addr,
         \/ op \notin {"push", "pop", "ei"} /\ ime = m.ime /\ sp = m.ebp /\ mem = m.mem
         \/ op = "ei" /\ sp = m.ebp /\ mem = m.mem
         \/ /\ op = "push" /\ ime = m.ime /\ sp = Down(m.ebp)
            /\ mem = [m.mem EXCEPT ![Down(m.ebp)] = 0]
         \/ op = "pop" /\ ime = m.ime /\ sp = Up(m.ebp) /\ mem = m.mem
  PROVE  StackInv'
<1> DEFINE depth == DepthOf(m.program)
<1>1. /\ m.pc = "block" /\ At(m.eip).op = op /\ m'.pc = "block" /\ m'.eip = a
      /\ m'.ime = ime /\ m'.ebp = sp /\ m'.mem = mem /\ m'.program = m.program
  BY Zenon DEF Went
<1>2. m.eip \in Addr /\ m.ebp \in Slot /\ m.mem \in [Slot -> Addr]
  BY <1>1, Zenon DEF MachineInv, Settled, States
<1>3. a \in After(m.program, m.eip)  BY LeadsOn, Zenon
<1>4. depth \in Depths /\ Disciplined(m.program, depth) /\ Slots - 2 \in Slot
  BY DepthsOf, Zenon
<1>5. Placed(m.eip, m.ebp, m.ime, m.mem, depth)  BY <1>1, Zenon DEF StackInv
<1> HIDE DEF depth
<1>6. /\ op \notin {"push", "pop", "ei"} => Placed(a, m.ebp, m.ime, m.mem, depth)
      /\ op = "ei" => \A x : Placed(a, m.ebp, x, m.mem, depth)
      /\ op = "push" => Placed(a, Down(m.ebp), m.ime,
                               [m.mem EXCEPT ![Down(m.ebp)] = 0], depth)
      /\ op = "pop" => Placed(a, Up(m.ebp), m.ime, m.mem, depth)
  <2>1. m.program[m.eip].op = op  BY <1>1, Zenon DEF At
  <2> QED  BY <1>2, <1>3, <1>4, <1>5, <2>1, Moves, Zenon
<1>7. Placed(a, sp, ime, mem, depth)  BY <1>6, Zenon
<1> QED  BY <1>1, <1>7, Zenon DEF StackInv, depth

\* Every step keeps the invariant.
LEMMA StackStep ==
  ASSUME MachineInv, StackInv, Balanced(m.program), Next
  PROVE  StackInv'
<1>1. m.pc = "block" => Next1 \in Addr /\ m.ebp \in Slot /\ m.eip \in Addr
  BY NextInBlock
<1>2. CASE EvadeStore
  <2>1. m.pc # "block" /\ At(m.ip).op \in Interpreted  BY <1>2 DEF EvadeStore, Interpreted
  <2> QED  BY <1>2, <2>1, StoreRefined, InterpretedStack, Zenon
<1>3. CASE EvadeHalt
  <2>1. m.pc # "block" /\ At(m.ip).op \in Interpreted  BY <1>3 DEF EvadeHalt, Interpreted
  <2> QED  BY <1>3, <2>1, HaltRefined, InterpretedStack, Zenon
<1>4. CASE HaltStep
  <2>1. m.pc # "block"  BY <1>4 DEF HaltStep
  <2> QED  BY <1>4, <2>1, HaltStepRefined, CallStack, Zenon DEF StackInv
<1>5. CASE HaltEnd
  <2>1. m.pc # "block"  BY <1>5 DEF HaltEnd
  <2>2. Returned(m, m') /\ m'.pc # "block"  BY <1>5, HaltEndRefined
  <2> QED  BY <2>1, <2>2, Zenon DEF Returned, StackInv
<1>6. CASE Update
  <2>1. m.pc # "block"  BY <1>6 DEF Update
  <2> QED  BY <1>6, <2>1, UpdateRefined, CallStack, Zenon DEF StackInv
<1>7. CASE EnterBlock
  <2>1. m.pc # "block"  BY <1>7 DEF EnterBlock
  <2>2. /\ m'.pc = "block" /\ m'.ebp = m.sp /\ m'.eip = m.ip /\ m'.mem = m.mem
        /\ m'.ime = m.ime /\ m'.program = m.program
    BY <1>7, EnterRefined DEF Loop!EnterBlock, Loop!regs, Loop!irq
  <2> QED  BY <2>1, <2>2, Zenon DEF StackInv
<1>8. CASE BlockNop \/ BlockEi \/ BlockJump
  <2>1. PICK op \in {"nop", "ei", "jump"}, a \in Addr :
          Went(op, a, m'.ime, m.ebp, m.mem) /\ (m'.ime = m.ime \/ op = "ei")
    BY <1>8, ImeRefined, Zenon
  <2>2. op \notin {"push", "pop", "reti"}  OBVIOUS
  <2>3. op \notin {"push", "pop", "ei"} \/ op = "ei"  BY <2>2
  <2> QED  BY <2>1, <2>2, <2>3, BlockStack, Zenon
<1>9. CASE BlockPush
  <2> DEFINE mem == [m.mem EXCEPT ![Down(m.ebp)] = 0]
  <2>1. Went("push", Next1, m.ime, Down(m.ebp), mem)  BY <1>9, PushRefined
  <2>2. m.pc = "block" /\ "push" # "reti"  BY <2>1 DEF Went
  <2>3. mem = [m.mem EXCEPT ![Down(m.ebp)] = 0]  OBVIOUS
  <2> HIDE DEF mem
  <2> QED  BY <1>1, <2>1, <2>2, <2>3, BlockStack, Zenon
<1>10. CASE BlockPop
  <2>1. Went("pop", Next1, m.ime, Up(m.ebp), m.mem)  BY <1>10, PopRefined
  <2>2. m.pc = "block" /\ "pop" # "reti"  BY <2>1 DEF Went
  <2> QED  BY <1>1, <2>1, <2>2, BlockStack, Zenon
<1>11. CASE BlockExit
  <2>1. LeftAt(m.eip, m.ime, m.ebp)  BY <1>11, ExitRefined, Zenon
  <2>2. m'.pc # "block"  BY <2>1 DEF LeftAt
  <2> QED  BY <2>1, <2>2, Zenon DEF LeftAt, StackInv
<1>12. CASE BlockReturn
  <2> DEFINE depth == DepthOf(m.program)
  <2>1. LeftAt(m.mem[m.ebp], TRUE, Up(m.ebp)) /\ At(m.eip).op = "reti"
    BY <1>12, ReturnRefined, Zenon
  <2>2. m.pc = "block" /\ m'.pc # "block"  BY <2>1 DEF LeftAt
  <2>3. depth \in Depths /\ Disciplined(m.program, depth) /\ Slots - 1 \in Slot
    BY DepthsOf, Zenon
  <2>4. Placed(m.eip, m.ebp, m.ime, m.mem, depth)  BY <2>2, Zenon DEF StackInv
  <2> HIDE DEF depth
  <2>5. Placed(m.mem[m.ebp], Up(m.ebp), TRUE, m.mem, depth)
    <3>1. m.program[m.eip].op = "reti"  BY <2>1 DEF At
    <3> QED  BY <1>1, <2>2, <2>3, <2>4, <3>1, Returns, Zenon
  <2> QED  BY <2>1, <2>2, <2>5, Zenon DEF LeftAt, StackInv, depth
<1> QED
  BY <1>2, <1>3, <1>4, <1>5, <1>6, <1>7, <1>8, <1>9, <1>10, <1>11, <1>12 DEF Next

\* A guest whose handlers pop what they push finds its stack as it left it,
\* whatever interrupts were accepted, at the loop's call, in HALT, by a store
\* or within a transfer.
THEOREM StackStaysBalanced ==
  ASSUME \A p \in Programs : Balanced(p)
  PROVE  Spec => []StackBalanced
<1>1. m \in States => Balanced(m.program)  BY Zenon DEF States
<1>2. Init => StackInv
  <2> SUFFICES ASSUME Init PROVE StackInv  OBVIOUS
  <2>1. m \in States  BY InitRefined, Zenon DEF MachineInv, Settled
  <2>2. Disciplined(m.program, DepthOf(m.program))  BY <1>1, <2>1, DepthsOf
  <2>3. 0 < VectorBase  BY <2>2 DEF Disciplined
  <2>4. m.pc # "block" /\ m.ip = 0 /\ m.sp = Slots - 1  BY Start
  <2> QED  BY <2>3, <2>4, Zenon DEF StackInv, Placed
<1>3. MachineInv /\ StackInv /\ [Next]_m => StackInv'
  <2>1. MachineInv => Balanced(m.program)  BY <1>1, Zenon DEF MachineInv, Settled
  <2>2. StackInv /\ UNCHANGED m => StackInv'  BY Zenon DEF StackInv
  <2> QED  BY <2>1, <2>2, StackStep
<1>4. StackInv => StackBalanced  BY Zenon DEF StackInv, Placed, StackBalanced
<1> QED  BY <1>2, <1>3, <1>4, MachineInvHolds, PTL DEF Spec
=============================================================================
