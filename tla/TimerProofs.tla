---------------------------- MODULE TimerProofs ----------------------------
(***************************************************************************)
(* Proofs about module Timer, for all batches, periods, ranges, blocks and *)
(* transfers.  What inc_timer does with a batch at once, its quotients and *)
(* remainders, is what a timer does that is stepped through it cycle by    *)
(* cycle; and an induction on the cycles of the LCD that are due carries   *)
(* this, and the time that an overflow waits for HALT to return, through   *)
(* the calls that are nested in one another.                               *)
(***************************************************************************)
EXTENDS Timer, Numbers

Timas == 0 .. TimaRange - 1
Divs == 0 .. DivRange - 1

\* The constants are positive.
LEMMA Positive ==
  /\ TimaRange \in Nat \ {0} /\ DivRange \in Nat \ {0} /\ DivCycles \in Nat \ {0}
  /\ LineCycles \in Nat \ {0} /\ BlockCycles \in Nat /\ BlockCycles < LineCycles
  /\ 0 \in Timas /\ 0 \in Divs
  /\ \A m \in Modes : Period[m] \in Nat \ {0}
BY RangeAssumption, PeriodAssumption, DmaAssumption DEF Timas, Divs

\* The fields of a state.
LEMMA Fields ==
  ASSUME NEW s \in Ending
  PROVE  /\ s \in Timers
         /\ s.running \in BOOLEAN /\ s.period \in Nat /\ (s.running => s.period \in Nat \ {0})
         /\ s.tima \in Timas /\ s.tma \in Timas /\ s.cum \in Nat
         /\ s.div \in Divs /\ s.cumdiv \in 0 .. DivCycles - 1
         /\ s.irq \in BOOLEAN /\ s.ime \in BOOLEAN /\ s.halted \in BOOLEAN
         /\ s.on \in BOOLEAN /\ s.cyc \in Nat /\ s.left \in 0 .. 128
         /\ s.late \in Int /\ s.late >= -1
<1>1. /\ s \in Timers
      /\ s.running \in BOOLEAN /\ s.period \in {0} \cup {Period[m] : m \in Modes}
      /\ s.tima \in 0 .. TimaRange - 1 /\ s.tma \in 0 .. TimaRange - 1 /\ s.cum \in Nat
      /\ s.div \in 0 .. DivRange - 1 /\ s.cumdiv \in 0 .. DivCycles - 1
      /\ s.irq \in BOOLEAN /\ s.ime \in BOOLEAN /\ s.halted \in BOOLEAN
      /\ s.on \in BOOLEAN /\ s.cyc \in Nat /\ s.left \in 0 .. 128
      /\ s.late \in {-1} \cup Nat
      /\ s.running => s.period > 0
  BY Zenon DEF Ending, Timers
<1>2. s.period \in Nat  BY <1>1, Positive
<1>3. s.running => s.period \in Nat \ {0}  BY <1>1, <1>2
<1>4. s.late \in Int /\ s.late >= -1  BY <1>1
<1> QED  BY <1>1, <1>2, <1>3, <1>4, Zenon DEF Timas, Divs

----------------------------------------------------------------------------
(* TIMA, tick by tick                                                       *)

TickStates == [tima : Timas, irq : BOOLEAN, since : Nat]

\* One tick.
Ticked(s, p) ==
  [tima  |-> IF p.tima + 1 = TimaRange THEN s.tma ELSE p.tima + 1,
   irq   |-> p.irq \/ p.tima + 1 = TimaRange,
   since |-> IF p.irq THEN p.since + 1 ELSE 0]

\* TIMA stays within its range.
LEMMA TickedType ==
  ASSUME NEW s, NEW p \in TickStates, s.tma \in Timas
  PROVE  Ticked(s, p) \in TickStates
<1>1. p.tima \in Timas /\ p.since \in Nat /\ p.irq \in BOOLEAN  BY Zenon DEF TickStates
<1>2. (IF p.tima + 1 = TimaRange THEN s.tma ELSE p.tima + 1) \in Timas
  BY <1>1, Positive DEF Timas
<1>3. (IF p.irq THEN p.since + 1 ELSE 0) \in Nat  BY <1>1
<1>4. (p.irq \/ p.tima + 1 = TimaRange) \in BOOLEAN  BY Zenon
<1> QED  BY <1>2, <1>3, <1>4, Zenon DEF Ticked, TickStates

\* Tick is what its definition says.
LEMMA TickSteps ==
  ASSUME NEW s, s.tima \in Timas, s.tma \in Timas
  PROVE  /\ Tick(s)[0] = [tima |-> s.tima, irq |-> FALSE, since |-> 0]
         /\ \A k \in Nat : Tick(s)[k] \in TickStates /\ Tick(s)[k + 1] = Ticked(s, Tick(s)[k])
<1> DEFINE x == [tima |-> s.tima, irq |-> FALSE, since |-> 0]
           step == [p \in TickStates |-> Ticked(s, p)]
<1>1. x \in TickStates
  <2>1. FALSE \in BOOLEAN /\ 0 \in Nat  OBVIOUS
  <2> QED  BY <2>1, Zenon DEF TickStates
<1>2. step \in [TickStates -> TickStates]  BY TickedType
<1> HIDE DEF x
<1>3. PICK f \in [Nat -> TickStates] : f = [k \in Nat |-> IF k = 0 THEN x ELSE step[f[k - 1]]]
  <2> HIDE DEF step
  <2> QED  BY <1>1, <1>2, Stepwise
<1>4. f = [k \in Nat |-> IF k = 0 THEN x ELSE Ticked(s, f[k - 1])]
  <2>1. \A k \in Nat : k # 0 => k - 1 \in Nat  OBVIOUS
  <2>2. \A k \in Nat : k # 0 => step[f[k - 1]] = Ticked(s, f[k - 1])  BY <2>1
  <2> HIDE DEF step
  <2> QED  BY <1>3, <2>2
<1>5. Tick(s) = [k \in Nat |-> IF k = 0 THEN x ELSE Ticked(s, Tick(s)[k - 1])]
  <2> DEFINE tick == CHOOSE g : g = [k \in Nat |-> IF k = 0 THEN x ELSE Ticked(s, g[k - 1])]
  <2>1. tick = [k \in Nat |-> IF k = 0 THEN x ELSE Ticked(s, tick[k - 1])]
    BY <1>4, Zenon
  <2>2. Tick(s) = tick  BY Zenon DEF Tick, Ticked, x
  <2> HIDE DEF tick
  <2> QED  BY <2>1, <2>2
<1>6. Tick(s)[0] = x  BY <1>5
<1>7. \A k \in Nat : Tick(s)[k + 1] = Ticked(s, Tick(s)[k])
  <2>1. \A k \in Nat : k + 1 \in Nat /\ k + 1 # 0 /\ (k + 1) - 1 = k  OBVIOUS
  <2> QED  BY <1>5, <2>1
<1>8. \A k \in Nat : Tick(s)[k] \in TickStates
  <2> DEFINE P == {k \in Nat : Tick(s)[k] \in TickStates}
  <2>1. 0 \in P  BY <1>1, <1>6
  <2>2. \A k \in Nat : k \in P => k + 1 \in P  BY <1>7, TickedType
  <2> HIDE DEF P
  <2>3. \A k \in Nat : k \in P  BY <2>1, <2>2, Induction
  <2> QED  BY <2>3 DEF P
<1> QED  BY <1>6, <1>7, <1>8 DEF x

\* The same, field by field.
LEMMA TickFields ==
  ASSUME NEW s, s.tima \in Timas, s.tma \in Timas, NEW k \in Nat
  PROVE  /\ Tick(s)[0].tima = s.tima /\ ~Tick(s)[0].irq
         /\ Tick(s)[k].tima \in Timas /\ Tick(s)[k].irq \in BOOLEAN /\ Tick(s)[k].since \in Nat
         /\ Tick(s)[k + 1].tima = IF Tick(s)[k].tima + 1 = TimaRange THEN s.tma ELSE Tick(s)[k].tima + 1
         /\ Tick(s)[k + 1].irq <=> Tick(s)[k].irq \/ Tick(s)[k].tima + 1 = TimaRange
         /\ Tick(s)[k + 1].irq \in BOOLEAN
         /\ Tick(s)[k + 1].since = IF Tick(s)[k].irq THEN Tick(s)[k].since + 1 ELSE 0
<1> DEFINE z == Tick(s)[0]
           p == Tick(s)[k]
           n == Tick(s)[k + 1]
<1>1. z = [tima |-> s.tima, irq |-> FALSE, since |-> 0]  BY TickSteps
<1>2. p \in TickStates /\ n = Ticked(s, p)  BY TickSteps
<1>3. n \in TickStates  BY <1>2, TickedType
<1> HIDE DEF z, p, n
<1>4. z.tima = s.tima /\ ~z.irq  BY <1>1
<1>5. p.tima \in Timas /\ p.irq \in BOOLEAN /\ p.since \in Nat /\ n.irq \in BOOLEAN
  BY <1>2, <1>3, Zenon DEF TickStates
<1>6. /\ n.tima = IF p.tima + 1 = TimaRange THEN s.tma ELSE p.tima + 1
      /\ n.since = IF p.irq THEN p.since + 1 ELSE 0
  BY <1>2 DEF Ticked
<1>7. n.irq <=> p.irq \/ p.tima + 1 = TimaRange  BY <1>2, Zenon DEF Ticked
<1> QED  BY <1>4, <1>5, <1>6, <1>7, Zenon DEF z, p, n

\* The first overflow is one of the ticks, so fewer than all came after it.
LEMMA TickSince ==
  ASSUME NEW s, s.tima \in Timas, s.tma \in Timas
  PROVE  \A k \in Nat : Tick(s)[k].irq => Tick(s)[k].since < k
<1> DEFINE P == {k \in Nat : Tick(s)[k].irq => Tick(s)[k].since < k}
<1>1. 0 \in P
  <2>1. 0 \in Nat /\ ~Tick(s)[0].irq  BY TickFields
  <2> QED  BY <2>1
<1>2. ASSUME NEW k \in Nat, k \in P PROVE k + 1 \in P
  <2>1. Tick(s)[k].since \in Nat /\ Tick(s)[k + 1].since = IF Tick(s)[k].irq THEN Tick(s)[k].since + 1 ELSE 0
    BY TickFields, Zenon
  <2>2. Tick(s)[k].irq => Tick(s)[k].since < k  BY <1>2
  <2>3. Tick(s)[k + 1].since < k + 1  BY <2>1, <2>2
  <2> QED  BY <2>3
<1> HIDE DEF P
<1>3. \A k \in Nat : k \in P  BY <1>1, <1>2, Induction
<1> QED  BY <1>3 DEF P

----------------------------------------------------------------------------
(* The reference                                                            *)

\* On the way cum may be anything.
LooseRefs ==
  [tima : Timas, cum : Int, div : Divs, cumdiv : 0 .. DivCycles - 1, irq : BOOLEAN]

\* A tick of the reference.
LEMMA RefTickType ==
  ASSUME NEW s, NEW r \in LooseRefs, s.period \in Nat, s.tma \in Timas
  PROVE  /\ RefTick(s, r) \in LooseRefs
         /\ RefTick(s, r).cum = r.cum - s.period
<1> DEFINE next == IF r.tima + 1 = TimaRange THEN s.tma ELSE r.tima + 1
           irq == r.irq \/ r.tima + 1 = TimaRange
<1>1. r.tima \in Timas /\ r.cum \in Int  BY Zenon DEF LooseRefs
<1>2. next \in Timas /\ r.cum - s.period \in Int  BY <1>1, Positive DEF Timas
<1>3. irq \in BOOLEAN  BY Zenon
<1>4. RefTick(s, r) = [r EXCEPT !.cum = r.cum - s.period, !.tima = next, !.irq = irq]
  BY Zenon DEF RefTick
<1> HIDE DEF next, irq
<1> QED  BY <1>2, <1>3, <1>4, Zenon DEF LooseRefs

\* The reference takes its ticks one by one.
LEMMA DueSteps ==
  ASSUME NEW s, NEW r \in LooseRefs, s.period \in Nat, s.tma \in Timas
  PROVE  \E due : /\ due[0] = r
                  /\ \A k \in Nat : /\ due[k] \in LooseRefs
                                    /\ due[k + 1] = RefTick(s, due[k])
                  /\ RefDue(s, r) = IF s.running THEN due[r.cum \div s.period] ELSE r
<1> DEFINE step == [p \in LooseRefs |-> RefTick(s, p)]
           due == CHOOSE f : f = [k \in Nat |-> IF k = 0 THEN r ELSE RefTick(s, f[k - 1])]
<1>1. step \in [LooseRefs -> LooseRefs]  BY RefTickType
<1>2. PICK f \in [Nat -> LooseRefs] : f = [k \in Nat |-> IF k = 0 THEN r ELSE step[f[k - 1]]]
  <2> HIDE DEF step
  <2> QED  BY <1>1, Stepwise
<1>3. f = [k \in Nat |-> IF k = 0 THEN r ELSE RefTick(s, f[k - 1])]
  <2>1. \A k \in Nat : k # 0 => k - 1 \in Nat  OBVIOUS
  <2>2. \A k \in Nat : k # 0 => step[f[k - 1]] = RefTick(s, f[k - 1])  BY <2>1
  <2> HIDE DEF step
  <2> QED  BY <1>2, <2>2
<1>4. due = [k \in Nat |-> IF k = 0 THEN r ELSE RefTick(s, due[k - 1])]
  BY <1>3, Zenon
<1>5. RefDue(s, r) = IF s.running THEN due[r.cum \div s.period] ELSE r
  BY Zenon DEF RefDue
<1> HIDE DEF due
<1>6. due[0] = r  BY <1>4
<1>7. \A k \in Nat : due[k + 1] = RefTick(s, due[k])
  <2>1. \A k \in Nat : k + 1 \in Nat /\ k + 1 # 0 /\ (k + 1) - 1 = k  OBVIOUS
  <2> QED  BY <1>4, <2>1
<1>8. \A k \in Nat : due[k] \in LooseRefs
  <2> DEFINE P == {k \in Nat : due[k] \in LooseRefs}
  <2>1. 0 \in P  BY <1>6
  <2>2. \A k \in Nat : k \in P => k + 1 \in P  BY <1>7, RefTickType
  <2> HIDE DEF P
  <2>3. \A k \in Nat : k \in P  BY <2>1, <2>2, Induction
  <2> QED  BY <2>3 DEF P
<1> QED  BY <1>5, <1>6, <1>7, <1>8, Zenon

\* A period that is due is one tick, and none when less is due.
LEMMA DueOne ==
  ASSUME NEW s, NEW r \in Refs, s.period \in Nat \ {0}, s.tma \in Timas, s.running
  PROVE  /\ r.cum < s.period => RefDue(s, r) = r
         /\ r.cum = s.period => RefDue(s, r) = RefTick(s, r)
<1>1. r \in LooseRefs /\ r.cum \in Nat
  <2>1. \A n \in Nat : n \in Int  OBVIOUS
  <2> QED  BY <2>1, Zenon DEF Refs, Timas, Divs, LooseRefs
<1>2. PICK due : /\ due[0] = r
                 /\ \A k \in Nat : due[k + 1] = RefTick(s, due[k])
                 /\ RefDue(s, r) = due[r.cum \div s.period]
  <2>1. s.period \in Nat  OBVIOUS
  <2>2. PICK due : /\ due[0] = r
                   /\ \A k \in Nat : due[k + 1] = RefTick(s, due[k])
                   /\ RefDue(s, r) = IF s.running THEN due[r.cum \div s.period] ELSE r
    BY <1>1, <2>1, DueSteps
  <2>3. RefDue(s, r) = due[r.cum \div s.period]  BY <2>2, Zenon
  <2> QED  BY <2>2, <2>3, Zenon
<1>3. r.cum < s.period => r.cum \div s.period = 0
  <2>1. r.cum = 0 * s.period + r.cum  BY <1>1
  <2>2. 0 \in Int /\ r.cum \in Int /\ 0 <= r.cum  BY <1>1
  <2> QED  BY <2>1, <2>2, DivisionUnique
<1>4. s.period \div s.period = 1
  <2>1. s.period = 1 * s.period + 0  OBVIOUS
  <2> QED  BY <2>1, DivisionUnique
<1>5. due[1] = RefTick(s, r)
  <2>1. 0 + 1 = 1 /\ 0 \in Nat  OBVIOUS
  <2> QED  BY <1>2, <2>1
<1> QED  BY <1>2, <1>3, <1>4, <1>5, Zenon

\* What a TAC write to a shorter period left behind is caught up with at once.
LEMMA DueAll ==
  ASSUME NEW s, NEW r \in Refs, r.tima = s.tima, s.period \in Nat \ {0}, s.tma \in Timas, s.running
  PROVE  LET n == r.cum \div s.period
         IN RefDue(s, r) = [r EXCEPT !.cum = r.cum % s.period, !.tima = Tick(s)[n].tima,
                                  !.irq = r.irq \/ Tick(s)[n].irq]
<1> DEFINE Then(k) == [r EXCEPT !.cum = r.cum - k * s.period, !.tima = Tick(s)[k].tima,
                                !.irq = r.irq \/ Tick(s)[k].irq]
<1>1. r \in LooseRefs /\ r.cum \in Nat /\ r.tima \in Timas /\ s.tima \in Timas /\ r.irq \in BOOLEAN
  <2>1. \A n \in Nat : n \in Int  OBVIOUS
  <2> QED  BY <2>1, Zenon DEF Refs, Timas, Divs, LooseRefs
<1>2. PICK due : /\ due[0] = r
                 /\ \A k \in Nat : due[k + 1] = RefTick(s, due[k])
                 /\ RefDue(s, r) = due[r.cum \div s.period]
  <2>1. s.period \in Nat  OBVIOUS
  <2>2. PICK due : /\ due[0] = r
                   /\ \A k \in Nat : due[k + 1] = RefTick(s, due[k])
                   /\ RefDue(s, r) = IF s.running THEN due[r.cum \div s.period] ELSE r
    BY <1>1, <2>1, DueSteps
  <2>3. RefDue(s, r) = due[r.cum \div s.period]  BY <2>2, Zenon
  <2> QED  BY <2>2, <2>3, Zenon
<1> DEFINE P == {k \in Nat : due[k] = Then(k)}
<1>4. 0 \in P
  <2>1. r.cum - 0 * s.period = r.cum  BY <1>1
  <2>2. 0 \in Nat /\ Tick(s)[0].tima = r.tima /\ ~Tick(s)[0].irq  BY <1>1, TickFields
  <2>3. (r.irq \/ Tick(s)[0].irq) = r.irq  BY <1>1, <2>2
  <2>4. Then(0) = [r EXCEPT !.cum = r.cum, !.tima = r.tima, !.irq = r.irq]
    BY <2>1, <2>2, <2>3
  <2>5. Then(0) = r  BY <2>4, Zenon DEF Refs, Timas, Divs
  <2> HIDE DEF Then
  <2> QED  BY <1>2, <2>2, <2>5
<1>5. ASSUME NEW k \in Nat, k \in P PROVE k + 1 \in P
  <2> DEFINE a == Tick(s)[k]
             b == Tick(s)[k + 1]
             irq == r.irq \/ a.irq
  <2>1. due[k + 1] = RefTick(s, Then(k))  BY <1>2, <1>5
  <2>2. r.cum - (k + 1) * s.period = (r.cum - k * s.period) - s.period
    <3>1. (k + 1) * s.period = k * s.period + s.period /\ k * s.period \in Int  OBVIOUS
    <3> QED  BY <1>1, <3>1
  <2>3. /\ b.tima = IF a.tima + 1 = TimaRange THEN s.tma ELSE a.tima + 1
        /\ b.irq <=> a.irq \/ a.tima + 1 = TimaRange
        /\ a.irq \in BOOLEAN /\ b.irq \in BOOLEAN
    BY <1>1, TickFields
  <2> HIDE DEF a, b
  <2>4. ((r.irq \/ a.irq) \/ a.tima + 1 = TimaRange) = (r.irq \/ b.irq)
    BY <2>3, Zenon
  <2>5. Then(k) = [r EXCEPT !.cum = r.cum - k * s.period, !.tima = a.tima, !.irq = irq]
    BY Zenon DEF a
  <2> HIDE DEF Then, irq
  <2>6. RefTick(s, Then(k)) = [r EXCEPT !.cum = (r.cum - k * s.period) - s.period,
                                     !.tima = IF a.tima + 1 = TimaRange THEN s.tma ELSE a.tima + 1,
                                     !.irq = irq \/ a.tima + 1 = TimaRange]
    BY <2>5, Zenon DEF RefTick, Refs, Timas, Divs
  <2>7. RefTick(s, Then(k)) = Then(k + 1)
    BY <2>2, <2>3, <2>4, <2>6, Zenon DEF Then, irq, b
  <2> QED  BY <2>1, <2>7
<1> HIDE DEF P
<1>6. \A k \in Nat : k \in P  BY <1>4, <1>5, Induction
<1>7. PICK n \in Nat : n = r.cum \div s.period /\ r.cum - n * s.period = r.cum % s.period
  <2>1. r.cum \in Int  BY <1>1
  <2>2. PICK q \in Int, m \in 0 .. s.period - 1 :
          /\ q = r.cum \div s.period /\ m = r.cum % s.period
          /\ r.cum = q * s.period + m
          /\ r.cum \in Nat => q \in Nat
    BY <2>1, Division
  <2>3. q * s.period \in Int  OBVIOUS
  <2>4. r.cum - q * s.period = m  BY <2>2, <2>3
  <2>5. q \in Nat  BY <1>1, <2>2
  <2> QED  BY <2>2, <2>4, <2>5, Zenon
<1>8. n \in P  BY <1>6
<1>9. due[n] = Then(n)  BY <1>8 DEF P
<1> QED  BY <1>2, <1>7, <1>9, Zenon

----------------------------------------------------------------------------
(* A batch                                                                  *)

\* The reference is where the timer is.
Now(s) == [tima |-> s.tima, cum |-> s.cum, div |-> s.div, cumdiv |-> s.cumdiv,
        irq |-> s.irq]

\* What inc_timer makes of the timer in k cycles at once.
CumAt(s, k) == IF s.running THEN (s.cum + k) % s.period ELSE s.cum
DivAt(s, k) == (s.div + (s.cumdiv + k) \div DivCycles) % DivRange
CumDivAt(s, k) == (s.cumdiv + k) % DivCycles
After(s, k) == [tima |-> Tick(s)[Passes(s, k)].tima, cum |-> CumAt(s, k), div |-> DivAt(s, k),
             cumdiv |-> CumDivAt(s, k), irq |-> s.irq \/ Tick(s)[Passes(s, k)].irq]

\* A remainder may be taken before a number is counted up or after.
LEMMA NextRemainder ==
  ASSUME NEW a \in Int, NEW b \in Nat \ {0}
  PROVE  ((a % b) + 1) % b = (a + 1) % b
<1>1. PICK r \in 0 .. b - 1 : r = a % b  BY Division
<1>2. IF r + 1 = b THEN (a + 1) % b = 0 ELSE (a + 1) % b = r + 1
  BY <1>1, NextDivision, Zenon
<1>3. CASE r + 1 = b
  <2>1. r + 1 = 1 * b + 0  BY <1>3
  <2>2. (r + 1) % b = 0  BY <2>1, DivisionUnique
  <2> QED  BY <1>1, <1>2, <1>3, <2>2, Zenon
<1>4. CASE r + 1 # b
  <2>1. r + 1 = 0 * b + (r + 1) /\ r + 1 \in Int /\ 0 <= r + 1 /\ r + 1 < b  BY <1>4
  <2>2. (r + 1) % b = r + 1  BY <2>1, DivisionUnique
  <2> QED  BY <1>1, <1>2, <1>4, <2>2, Zenon
<1> QED  BY <1>3, <1>4

\* The divider, one cycle later.
LEMMA NextDiv ==
  ASSUME NEW s \in Ending, NEW k \in Nat
  PROVE  /\ DivAt(s, k) \in Divs /\ CumDivAt(s, k) \in 0 .. DivCycles - 1
         /\ CumDivAt(s, k + 1) = (CumDivAt(s, k) + 1) % DivCycles
         /\ DivAt(s, k + 1) = IF CumDivAt(s, k) + 1 = DivCycles
                           THEN (DivAt(s, k) + 1) % DivRange ELSE DivAt(s, k)
<1> DEFINE a == s.cumdiv + k
           q == a \div DivCycles
           r == a % DivCycles
<1>1. a \in Int /\ s.cumdiv + (k + 1) = a + 1 /\ s.div \in Int  BY Fields, Positive DEF Divs
<1>2. q \in Int /\ r \in 0 .. DivCycles - 1
  <2> HIDE DEF a
  <2> QED  BY <1>1, Positive
<1>3. (r + 1) % DivCycles = (a + 1) % DivCycles
  <2> HIDE DEF a
  <2> QED  BY <1>1, Positive, NextRemainder
<1>4. (a + 1) \div DivCycles = IF r + 1 = DivCycles THEN q + 1 ELSE q
  <2> HIDE DEF a
  <2> QED  BY <1>1, Positive, NextDivision, Zenon
<1> HIDE DEF a, q, r
<1>5. s.div + q \in Int /\ s.div + (q + 1) = (s.div + q) + 1  BY <1>1, <1>2
<1> DEFINE d == s.div + q
<1>6. d % DivRange \in Divs
  <2> HIDE DEF d
  <2>1. d \in Int  BY <1>5 DEF d
  <2> QED  BY <2>1, Positive DEF Divs
<1>7. ((d % DivRange) + 1) % DivRange = (d + 1) % DivRange
  <2> HIDE DEF d
  <2>1. d \in Int  BY <1>5 DEF d
  <2> QED  BY <2>1, Positive, NextRemainder
<1>8. DivAt(s, k) = d % DivRange /\ CumDivAt(s, k) = r  BY Zenon DEF DivAt, CumDivAt, d, q, r, a
<1>9. CumDivAt(s, k + 1) = (a + 1) % DivCycles  BY <1>1, Zenon DEF CumDivAt
<1>10. DivAt(s, k + 1) = (s.div + (a + 1) \div DivCycles) % DivRange  BY <1>1, Zenon DEF DivAt
<1>11. DivAt(s, k + 1) = IF r + 1 = DivCycles THEN (d + 1) % DivRange ELSE d % DivRange
  BY <1>4, <1>5, <1>10, Zenon
<1> HIDE DEF d
<1> QED  BY <1>2, <1>3, <1>6, <1>7, <1>8, <1>9, <1>11, Zenon

\* The timer, one cycle later.
LEMMA NextCum ==
  ASSUME NEW s \in Ending, NEW k \in Nat
  PROVE  /\ CumAt(s, k) \in Nat /\ Passes(s, k) \in Nat
         /\ s.running => CumAt(s, k) < s.period
         /\ IF s.running /\ CumAt(s, k) + 1 = s.period
            THEN CumAt(s, k + 1) = 0 /\ Passes(s, k + 1) = Passes(s, k) + 1
            ELSE /\ CumAt(s, k + 1) = IF s.running THEN CumAt(s, k) + 1 ELSE CumAt(s, k)
                 /\ Passes(s, k + 1) = Passes(s, k)
<1>1. s.cum \in Nat  BY Fields
<1>2. CASE ~s.running
  <2>1. 0 \in Nat  OBVIOUS
  <2> QED  BY <1>1, <1>2, <2>1, Zenon DEF CumAt, Passes
<1>3. CASE s.running
  <2> DEFINE a == s.cum + k
             r == a % s.period
             q == a \div s.period
  <2>1. s.period \in Nat \ {0}
    BY <1>3, Fields
  <2>2. a \in Nat /\ a \in Int /\ s.cum + (k + 1) = a + 1  BY <1>1
  <2>3. CumAt(s, k) = r /\ Passes(s, k) = q  BY <1>3, Zenon DEF CumAt, Passes
  <2>4. CumAt(s, k + 1) = (a + 1) % s.period /\ Passes(s, k + 1) = (a + 1) \div s.period
    BY <1>3, <2>2, Zenon DEF CumAt, Passes
  <2> HIDE DEF a
  <2>5. q \in Nat /\ r \in 0 .. s.period - 1  BY <2>1, <2>2, Division
  <2>6. IF r + 1 = s.period THEN (a + 1) \div s.period = q + 1 /\ (a + 1) % s.period = 0
                            ELSE (a + 1) \div s.period = q /\ (a + 1) % s.period = r + 1
    BY <2>1, <2>2, NextDivision, Zenon
  <2> HIDE DEF q, r
  <2>7. r \in Nat /\ r < s.period  BY <2>1, <2>5
  <2> QED  BY <1>3, <2>3, <2>4, <2>5, <2>6, <2>7, Zenon
<1> QED  BY <1>2, <1>3

\* After no cycles the timer is where it was, but for ticks that were due.
LEMMA NoCycles ==
  ASSUME NEW s \in Ending, s.ref = Now(s)
  PROVE  RefDue(s, s.ref) = After(s, 0)
<1>1. /\ s.tima \in Timas /\ s.tma \in Timas /\ s.irq \in BOOLEAN /\ s.cum \in Nat
      /\ s.div \in Divs /\ s.cumdiv \in 0 .. DivCycles - 1
  BY Fields, Zenon
<1>2. Now(s) \in Refs  BY <1>1, Zenon DEF Now, Refs, Timas, Divs
<1>3. s.cum + 0 = s.cum /\ s.cumdiv + 0 = s.cumdiv /\ s.div + 0 = s.div
  BY <1>1, Positive DEF Divs
<1>4. s.cumdiv \div DivCycles = 0 /\ s.cumdiv % DivCycles = s.cumdiv
  <2>1. s.cumdiv = 0 * DivCycles + s.cumdiv  BY <1>1, Positive
  <2>2. 0 \in Int /\ s.cumdiv \in Int /\ 0 <= s.cumdiv /\ s.cumdiv < DivCycles
    BY <1>1, Positive
  <2> QED  BY <2>1, <2>2, Positive, DivisionUnique
<1>5. s.div % DivRange = s.div
  <2>1. s.div = 0 * DivRange + s.div  BY <1>1, Positive DEF Divs
  <2>2. 0 \in Int /\ s.div \in Int /\ 0 <= s.div /\ s.div < DivRange  BY <1>1, Positive DEF Divs
  <2> QED  BY <2>1, <2>2, Positive, DivisionUnique
<1>6. DivAt(s, 0) = s.div /\ CumDivAt(s, 0) = s.cumdiv
  BY <1>3, <1>4, <1>5, Zenon DEF DivAt, CumDivAt
<1>7. CASE ~s.running
  <2>1. RefDue(s, s.ref) = Now(s)  BY <1>7, Zenon DEF RefDue
  <2>2. CumAt(s, 0) = s.cum /\ Passes(s, 0) = 0  BY <1>7, Zenon DEF CumAt, Passes
  <2>3. Tick(s)[0].tima = s.tima /\ ~Tick(s)[0].irq
    <3>1. 0 \in Nat  OBVIOUS
    <3> QED  BY <1>1, <3>1, TickFields, Zenon
  <2>4. (s.irq \/ Tick(s)[0].irq) = s.irq  BY <1>1, <2>3
  <2> QED  BY <1>6, <2>1, <2>2, <2>3, <2>4, Zenon DEF After, Now
<1>8. CASE s.running
  <2> DEFINE n == Passes(s, 0)
             m == CumAt(s, 0)
             t == Tick(s)[n]
  <2>1. s.period \in Nat \ {0}  BY <1>8, Fields
  <2>2. n = s.cum \div s.period /\ m = s.cum % s.period
    BY <1>3, <1>8, Zenon DEF Passes, CumAt
  <2>3. Now(s).tima = s.tima /\ Now(s).cum = s.cum /\ Now(s).irq = s.irq  BY DEF Now
  <2>4. RefDue(s, Now(s)) = [Now(s) EXCEPT !.cum = Now(s).cum % s.period,
                                  !.tima = Tick(s)[Now(s).cum \div s.period].tima,
                                  !.irq = Now(s).irq \/ Tick(s)[Now(s).cum \div s.period].irq]
    BY <1>1, <1>2, <1>8, <2>1, <2>3, DueAll, Zenon
  <2>5. RefDue(s, Now(s)) = [Now(s) EXCEPT !.cum = m, !.tima = t.tima, !.irq = s.irq \/ t.irq]
    BY <2>2, <2>3, <2>4, Zenon
  <2> DEFINE irq == s.irq \/ t.irq
  <2>6. After(s, 0) = [tima |-> t.tima, cum |-> m, div |-> s.div, cumdiv |-> s.cumdiv, irq |-> irq]
    BY <1>6, Zenon DEF After
  <2>7. RefDue(s, Now(s)) = [Now(s) EXCEPT !.cum = m, !.tima = t.tima, !.irq = irq]  BY <2>5, Zenon
  <2> HIDE DEF n, m, t, irq
  <2> QED  BY <2>6, <2>7 DEF Now
<1> QED  BY <1>7, <1>8

\* One cycle of the reference takes it from After(k) to After(k + 1).
LEMMA NextCycle ==
  ASSUME NEW s \in Ending, NEW k \in Nat
  PROVE  RefCycle(s, After(s, k)) = After(s, k + 1)
<1> DEFINE n == Passes(s, k)
           t == Tick(s)[n]
           u == Tick(s)[n + 1]
           irq == s.irq \/ t.irq
           c == CumAt(s, k)
           d == DivAt(s, k)
           e == CumDivAt(s, k)
           cum == IF s.running THEN c + 1 ELSE c
           cumdiv == CumDivAt(s, k + 1)
           dv == DivAt(s, k + 1)
           q == [tima |-> t.tima, cum |-> cum, div |-> dv, cumdiv |-> cumdiv, irq |-> irq]
<1>1. /\ s.tima \in Timas /\ s.tma \in Timas /\ s.irq \in BOOLEAN
      /\ s.running \in BOOLEAN /\ k + 1 \in Nat
  BY Fields
<1>2. /\ c \in Nat /\ n \in Nat
      /\ s.running => c < s.period
      /\ IF s.running /\ c + 1 = s.period
         THEN CumAt(s, k + 1) = 0 /\ Passes(s, k + 1) = n + 1
         ELSE CumAt(s, k + 1) = cum /\ Passes(s, k + 1) = n
  BY NextCum, Zenon
<1>3. /\ cumdiv \in 0 .. DivCycles - 1 /\ dv \in Divs
      /\ cumdiv = (e + 1) % DivCycles
      /\ dv = IF e + 1 = DivCycles THEN (d + 1) % DivRange ELSE d
  BY <1>1, NextDiv, Zenon
<1>4. /\ t.tima \in Timas /\ t.irq \in BOOLEAN
      /\ u.tima = IF t.tima + 1 = TimaRange THEN s.tma ELSE t.tima + 1
      /\ u.irq <=> t.irq \/ t.tima + 1 = TimaRange
      /\ u.irq \in BOOLEAN
  <2>1. n \in Nat  BY <1>2
  <2> HIDE DEF n
  <2> QED  BY <1>1, <2>1, TickFields
<1>5. irq \in BOOLEAN  BY Zenon
<1>6. cum \in Nat  BY <1>2
<1>7. After(s, k) = [tima |-> t.tima, cum |-> c, div |-> d, cumdiv |-> e, irq |-> irq]
  BY Zenon DEF After
<1>8. After(s, k + 1) = [tima |-> Tick(s)[Passes(s, k + 1)].tima, cum |-> CumAt(s, k + 1), div |-> dv,
                      cumdiv |-> cumdiv, irq |-> s.irq \/ Tick(s)[Passes(s, k + 1)].irq]
  BY Zenon DEF After
<1>9. RefCycle(s, After(s, k)) = RefDue(s, q)
  <2> HIDE DEF c, d, e, irq, t, n, dv, cumdiv
  <2> DEFINE p == [tima |-> t.tima, cum |-> c, div |-> d, cumdiv |-> e, irq |-> irq]
             next == [p EXCEPT !.cum = cum, !.cumdiv = cumdiv, !.div = dv]
  <2>1. p.cum = c /\ p.cumdiv = e /\ p.div = d  OBVIOUS
  <2>2. next = q
    <3> DEFINE a == [p EXCEPT !.cum = cum]
               b == [a EXCEPT !.cumdiv = cumdiv]
    <3> HIDE DEF cum
    <3>1. a = [tima |-> t.tima, cum |-> cum, div |-> d, cumdiv |-> e, irq |-> irq]
      OBVIOUS
    <3> HIDE DEF a
    <3>2. b = [tima |-> t.tima, cum |-> cum, div |-> d, cumdiv |-> cumdiv, irq |-> irq]
      BY <3>1
    <3> HIDE DEF b
    <3>3. [b EXCEPT !.div = dv] = q  BY <3>2
    <3> QED  BY <3>3, Zenon DEF a, b
  <2>3. RefCycle(s, p) = RefDue(s, [p EXCEPT !.cum = IF s.running THEN p.cum + 1 ELSE p.cum,
                                       !.cumdiv = (p.cumdiv + 1) % DivCycles,
                                       !.div = IF p.cumdiv + 1 = DivCycles
                                               THEN (p.div + 1) % DivRange ELSE p.div])
    BY Zenon DEF RefCycle
  <2> HIDE DEF p
  <2>4. RefCycle(s, p) = RefDue(s, next)  BY <1>3, <2>1, <2>3, Zenon
  <2> QED  BY <1>7, <2>2, <2>4, Zenon DEF p
<1>10. /\ q \in Refs /\ q.cum = cum
       /\ q = [tima |-> t.tima, cum |-> cum, div |-> dv, cumdiv |-> cumdiv, irq |-> irq]
  <2> HIDE DEF cum, irq, t, n, dv, cumdiv
  <2>1. q.cum = cum  OBVIOUS
  <2> QED  BY <1>3, <1>4, <1>5, <1>6, <2>1, Zenon DEF Refs, Timas, Divs
<1>11. RefDue(s, q) = After(s, k + 1)
  <2> HIDE DEF q
  <2>1. CASE ~s.running
    <3>1. RefDue(s, q) = q  BY <2>1, Zenon DEF RefDue
    <3> QED  BY <1>2, <1>8, <1>10, <2>1, <3>1, Zenon
  <2>2. CASE s.running
    <3>1. s.period \in Nat \ {0}  BY <2>2, Fields
    <3>2. /\ q.cum < s.period => RefDue(s, q) = q
          /\ q.cum = s.period => RefDue(s, q) = RefTick(s, q)
      BY <1>1, <1>10, <2>2, <3>1, DueOne, Zenon
    <3>3. CASE c + 1 # s.period
      <4>1. q.cum < s.period
        <5> HIDE DEF c
        <5>1. c + 1 < s.period  BY <1>2, <2>2, <3>1, <3>3
        <5> QED  BY <1>10, <2>2, <5>1
      <4> QED  BY <1>2, <1>8, <1>10, <3>2, <3>3, <4>1, Zenon
    <3>4. CASE c + 1 = s.period
      <4>1. RefDue(s, q) = RefTick(s, q) /\ cum = s.period  BY <1>10, <2>2, <3>2, <3>4, Zenon
      <4>2. After(s, k + 1) = [tima |-> u.tima, cum |-> 0, div |-> dv,
                            cumdiv |-> cumdiv, irq |-> s.irq \/ u.irq]
        BY <1>2, <1>8, <2>2, <3>4, Zenon
      <4>3. q.tima = t.tima /\ q.cum = s.period /\ q.irq = irq /\ q.div = dv /\ q.cumdiv = cumdiv
        <5> HIDE DEF cum, irq, t, n, dv, cumdiv
        <5> QED  BY <1>10, <4>1
      <4>4. (irq \/ t.tima + 1 = TimaRange) = (s.irq \/ u.irq)  BY <1>4, Zenon
      <4>5. RefTick(s, q) = [q EXCEPT !.cum = q.cum - s.period,
                                   !.tima = IF q.tima + 1 = TimaRange THEN s.tma ELSE q.tima + 1,
                                   !.irq = q.irq \/ q.tima + 1 = TimaRange]
        BY Zenon DEF RefTick
      <4>6. s.period - s.period = 0  BY <3>1
      <4> DEFINE i == s.irq \/ u.irq
      <4>7. RefTick(s, q) = [q EXCEPT !.cum = 0, !.tima = u.tima, !.irq = i]
        BY <1>4, <4>3, <4>4, <4>5, <4>6, Zenon
      <4>8. After(s, k + 1) = [tima |-> u.tima, cum |-> 0, div |-> dv, cumdiv |-> cumdiv, irq |-> i]
        BY <4>2, Zenon
      <4> HIDE DEF i, cum, irq, t, u, n, dv, cumdiv
      <4>9. RefTick(s, q) = After(s, k + 1)  BY <4>7, <4>8 DEF q
      <4> QED  BY <4>1, <4>9
    <3> QED  BY <3>3, <3>4
  <2> QED  BY <2>1, <2>2
<1> QED  BY <1>9, <1>11

\* A batch of c cycles does what c cycles do one by one.
LEMMA BatchIsExact ==
  ASSUME NEW s \in Ending, s.ref = Now(s)
  PROVE  \A c \in Nat : RefCycles(s, c) = After(s, c)
<1> DEFINE f == [k \in Nat |-> After(s, k)]
<1>1. f = [k \in Nat |-> IF k = 0 THEN RefDue(s, s.ref) ELSE RefCycle(s, f[k - 1])]
  <2>1. \A k \in Nat : k # 0 => k - 1 \in Nat /\ (k - 1) + 1 = k  OBVIOUS
  <2>2. ASSUME NEW k \in Nat
        PROVE  After(s, k) = IF k = 0 THEN RefDue(s, s.ref) ELSE RefCycle(s, f[k - 1])
    <3>1. CASE k = 0  BY <3>1, NoCycles, Zenon
    <3>2. CASE k # 0
      <4>1. RefCycle(s, After(s, k - 1)) = After(s, (k - 1) + 1)  BY <2>1, <3>2, NextCycle, Zenon
      <4>2. f[k - 1] = After(s, k - 1)  BY <2>1, <3>2, Zenon
      <4> QED  BY <2>1, <3>2, <4>1, <4>2, Zenon
    <3> QED  BY <3>1, <3>2
  <2> QED  BY <2>2, Zenon
<1> HIDE DEF f
<1> DEFINE after == CHOOSE g : g = [k \in Nat |-> IF k = 0 THEN RefDue(s, s.ref)
                                                        ELSE RefCycle(s, g[k - 1])]
<1>2. after = [k \in Nat |-> IF k = 0 THEN RefDue(s, s.ref) ELSE RefCycle(s, after[k - 1])]
  BY <1>1, Zenon
<1>6. \A c \in Nat : RefCycles(s, c) = after[c]  BY Zenon DEF RefCycles
<1> HIDE DEF after
<1> DEFINE P == {k \in Nat : after[k] = After(s, k)}
<1>3. 0 \in P
  <2>1. after[0] = RefDue(s, s.ref)  BY <1>2
  <2> QED  BY <2>1, NoCycles
<1>4. ASSUME NEW k \in Nat, k \in P PROVE k + 1 \in P
  <2>1. k + 1 \in Nat /\ k + 1 # 0 /\ (k + 1) - 1 = k  OBVIOUS
  <2>2. after[k + 1] = RefCycle(s, after[k])  BY <1>2, <2>1
  <2>3. after[k + 1] = After(s, k + 1)  BY <1>4, <2>2, NextCycle, Zenon
  <2> QED  BY <2>1, <2>3
<1> HIDE DEF P
<1>5. \A k \in Nat : k \in P  BY <1>3, <1>4, Induction
<1> QED  BY <1>5, <1>6, Zenon DEF P

----------------------------------------------------------------------------
(* The reference stays one, whatever it is                                  *)

\* All ticks that are due leave less than a period.
LEMMA RefDueType ==
  ASSUME NEW s \in Ending, NEW r \in Refs
  PROVE  RefDue(s, r) \in Refs
<1>1. r \in LooseRefs /\ r.cum \in Nat
  <2>1. \A n \in Nat : n \in Int  OBVIOUS
  <2> QED  BY <2>1, Zenon DEF Refs, Timas, Divs, LooseRefs
<1>2. s.period \in Nat /\ s.tma \in Timas /\ (s.running => s.period \in Nat \ {0})
  BY Fields
<1>3. CASE ~s.running
  BY <1>3, Zenon DEF RefDue
<1>4. CASE s.running
  <2>1. PICK due : /\ due[0] = r
                   /\ \A k \in Nat : /\ due[k] \in LooseRefs
                                     /\ due[k + 1] = RefTick(s, due[k])
                   /\ RefDue(s, r) = due[r.cum \div s.period]
    <3>1. PICK due : /\ due[0] = r
                     /\ \A k \in Nat : /\ due[k] \in LooseRefs
                                       /\ due[k + 1] = RefTick(s, due[k])
                     /\ RefDue(s, r) = IF s.running THEN due[r.cum \div s.period] ELSE r
      BY <1>1, <1>2, DueSteps
    <3>2. RefDue(s, r) = due[r.cum \div s.period]  BY <1>4, <3>1, Zenon
    <3> QED  BY <3>1, <3>2, Zenon
  <2> DEFINE P == {k \in Nat : due[k].cum = r.cum - k * s.period}
  <2>2. 0 \in P  BY <1>1, <1>2, <2>1
  <2>3. ASSUME NEW k \in Nat, k \in P PROVE k + 1 \in P
    <3>1. due[k] \in LooseRefs /\ due[k + 1] = RefTick(s, due[k])  BY <2>1, Zenon
    <3>2. RefTick(s, due[k]).cum = due[k].cum - s.period  BY <1>2, <3>1, RefTickType
    <3>3. (k + 1) * s.period = k * s.period + s.period /\ k * s.period \in Int  BY <1>2
    <3>4. due[k].cum = r.cum - k * s.period  BY <2>3
    <3>5. due[k + 1].cum = r.cum - (k + 1) * s.period
      <4> DEFINE a == k * s.period
      <4>1. due[k + 1].cum = (r.cum - a) - s.period /\ (k + 1) * s.period = a + s.period /\ a \in Int
        BY <3>1, <3>2, <3>3, <3>4
      <4> HIDE DEF a
      <4> QED  BY <1>1, <1>2, <4>1
    <3>6. k + 1 \in Nat  OBVIOUS
    <3> QED  BY <3>5, <3>6
  <2> HIDE DEF P
  <2>4. \A k \in Nat : k \in P  BY <2>2, <2>3, Induction
  <2>5. PICK n \in Nat, m \in 0 .. s.period - 1 : n = r.cum \div s.period /\ r.cum = n * s.period + m
    <3>1. r.cum \in Int /\ s.period \in Nat \ {0}  BY <1>1, <1>2, <1>4
    <3>2. PICK q \in Int, m \in 0 .. s.period - 1 :
            q = r.cum \div s.period /\ r.cum = q * s.period + m /\ (r.cum \in Nat => q \in Nat)
      BY <3>1, Division
    <3> QED  BY <1>1, <3>2
  <2>6. due[n].cum = r.cum - n * s.period /\ due[n] \in LooseRefs
    <3>1. n \in P  BY <2>4
    <3> QED  BY <2>1, <3>1 DEF P
  <2>7. due[n].cum \in Nat
    <3>1. n * s.period \in Int  BY <1>2
    <3> QED  BY <2>5, <2>6, <3>1
  <2>8. due[n] \in Refs  BY <2>6, <2>7, Zenon DEF Refs, Timas, Divs, LooseRefs
  <2> QED  BY <2>1, <2>5, <2>8, Zenon
<1> QED  BY <1>3, <1>4

\* So does a cycle.
LEMMA RefCycleType ==
  ASSUME NEW s \in Ending, NEW r \in Refs
  PROVE  RefCycle(s, r) \in Refs
<1> DEFINE cum == IF s.running THEN r.cum + 1 ELSE r.cum
           cumdiv == (r.cumdiv + 1) % DivCycles
           dv == IF r.cumdiv + 1 = DivCycles THEN (r.div + 1) % DivRange ELSE r.div
           q == [r EXCEPT !.cum = cum, !.cumdiv = cumdiv, !.div = dv]
<1>1. r.cum \in Nat /\ r.div \in Divs /\ r.cumdiv \in 0 .. DivCycles - 1
  BY Zenon DEF Refs, Divs
<1>2. cum \in Nat /\ cumdiv \in 0 .. DivCycles - 1 /\ dv \in Divs
  BY <1>1, Positive DEF Divs
<1>3. RefCycle(s, r) = RefDue(s, q)  BY Zenon DEF RefCycle
<1> HIDE DEF cum, cumdiv, dv
<1>4. q \in Refs  BY <1>2, Zenon DEF Refs, Divs
<1> HIDE DEF q
<1> QED  BY <1>3, <1>4, RefDueType

\* So do any number of cycles.
LEMMA RefCyclesType ==
  ASSUME NEW s \in Ending
  PROVE  \A c \in Nat : RefCycles(s, c) \in Refs
<1> DEFINE x == RefDue(s, s.ref)
           step == [r \in Refs |-> RefCycle(s, r)]
           after == CHOOSE g : g = [k \in Nat |-> IF k = 0 THEN x ELSE RefCycle(s, g[k - 1])]
<1>1. x \in Refs
  <2>1. s.ref \in Refs  BY Zenon DEF Ending, Timers
  <2> QED  BY <2>1, RefDueType
<1>2. step \in [Refs -> Refs]  BY RefCycleType
<1>3. \A c \in Nat : RefCycles(s, c) = after[c]  BY Zenon DEF RefCycles
<1> HIDE DEF x
<1>4. PICK f \in [Nat -> Refs] : f = [k \in Nat |-> IF k = 0 THEN x ELSE step[f[k - 1]]]
  <2> HIDE DEF step
  <2> QED  BY <1>1, <1>2, Stepwise
<1>5. f = [k \in Nat |-> IF k = 0 THEN x ELSE RefCycle(s, f[k - 1])]
  <2>1. \A k \in Nat : k # 0 => k - 1 \in Nat  OBVIOUS
  <2>2. \A k \in Nat : k # 0 => step[f[k - 1]] = RefCycle(s, f[k - 1])  BY <2>1
  <2> HIDE DEF step
  <2> QED  BY <1>4, <2>2
<1>6. after = [k \in Nat |-> IF k = 0 THEN x ELSE RefCycle(s, after[k - 1])]
  BY <1>5, Zenon
<1> HIDE DEF after
<1> DEFINE P == {k \in Nat : after[k] \in Refs}
<1>7. 0 \in P  BY <1>1, <1>6
<1>8. ASSUME NEW k \in Nat, k \in P PROVE k + 1 \in P
  <2>1. k + 1 \in Nat /\ k + 1 # 0 /\ (k + 1) - 1 = k  OBVIOUS
  <2>2. after[k + 1] = RefCycle(s, after[k])  BY <1>6, <2>1
  <2> QED  BY <1>8, <2>1, <2>2, RefCycleType
<1> HIDE DEF P
<1>9. \A k \in Nat : k \in P  BY <1>7, <1>8, Induction
<1> QED  BY <1>3, <1>9 DEF P

----------------------------------------------------------------------------
(* What a part of a call does                                               *)

\* The reference is where the timer is, and an overflow that HALT does not
\* know of yet has requested the interrupt.
Good(s) ==
  /\ s \in Ending
  /\ s.ref = Now(s)
  /\ s.halted /\ s.late >= 0 => s.ime /\ s.irq

\* No tick is due.
Caught(s) == s.running => s.cum < s.period

\* A part of a call that takes the timer from s to e.  What an overflow waits
\* for HALT, less the time of the blocks copied, grows by c at most.
Part(s, e, c) ==
  /\ e \in Ending
  /\ e.left <= s.left
  /\ ~s.halted => ~e.halted
  /\ Good(s) => Good(e)
  /\ Caught(s) => Caught(e)
  /\ Good(s) /\ Caught(s) =>
       e.late + BlockCycles * e.left <= s.late + BlockCycles * s.left + c

\* The parts of a call add up.
LEMMA PartSum ==
  ASSUME NEW s \in Ending, NEW r, NEW e, NEW c \in Int, NEW d \in Int,
         Part(s, r, c), Part(r, e, d)
  PROVE  Part(s, e, c + d)
<1>1. /\ r \in Ending /\ e \in Ending
      /\ (~s.halted => ~r.halted) /\ (~r.halted => ~e.halted)
      /\ (Good(s) => Good(r)) /\ (Good(r) => Good(e))
      /\ (Caught(s) => Caught(r)) /\ (Caught(r) => Caught(e))
  BY Zenon DEF Part
<1>2. e.left <= s.left
  <2>1. e.left <= r.left /\ r.left <= s.left  BY Zenon DEF Part
  <2>2. \A t \in Ending : t.left \in Int  BY Fields
  <2>3. e.left \in Int /\ r.left \in Int /\ s.left \in Int  BY <1>1, <2>2
  <2> QED  BY <2>1, <2>3
<1>3. ASSUME Good(s), Caught(s)
      PROVE  e.late + BlockCycles * e.left <= s.late + BlockCycles * s.left + (c + d)
  <2>1. /\ r.late + BlockCycles * r.left <= s.late + BlockCycles * s.left + c
        /\ e.late + BlockCycles * e.left <= r.late + BlockCycles * r.left + d
    BY <1>1, <1>3, Zenon DEF Part
  <2>2. ASSUME NEW t \in Ending PROVE t.late + BlockCycles * t.left \in Int
    <3>1. \A a, b \in Nat : a * b \in Int  OBVIOUS
    <3>2. BlockCycles \in Nat /\ t.left \in Nat /\ t.late \in Int  BY Fields, Positive
    <3>3. BlockCycles * t.left \in Int  BY <3>1, <3>2
    <3> QED  BY <3>2, <3>3
  <2> DEFINE x(t) == t.late + BlockCycles * t.left
  <2>3. x(s) \in Int /\ x(r) \in Int /\ x(e) \in Int /\ x(r) <= x(s) + c /\ x(e) <= x(r) + d
    BY <1>1, <2>1, <2>2
  <2> HIDE DEF x
  <2>4. x(e) <= x(s) + (c + d)  BY <2>3
  <2> QED  BY <2>4 DEF x
<1> QED  BY <1>1, <1>2, <1>3, Zenon DEF Part

\* Nothing of it all changes.
LEMMA Still ==
  ASSUME NEW s \in Ending, NEW e \in Ending,
         e.running = s.running, e.period = s.period,
         e.tima = s.tima, e.cum = s.cum, e.div = s.div, e.cumdiv = s.cumdiv, e.irq = s.irq,
         e.ime = s.ime, e.left = s.left, e.halted = s.halted, e.late = s.late, e.ref = s.ref
  PROVE  Part(s, e, 0)
<1>1. e.left <= s.left  BY Fields
<1>2. e.late + BlockCycles * e.left <= s.late + BlockCycles * s.left + 0
  <2>1. \A a, b \in Nat : a * b \in Int  OBVIOUS
  <2>2. BlockCycles \in Nat /\ s.left \in Nat /\ s.late \in Int  BY Fields, Positive
  <2>3. BlockCycles * s.left \in Int  BY <2>1, <2>2
  <2> QED  BY <2>2, <2>3
<1>3. Good(s) => Good(e)  BY Zenon DEF Good, Now
<1>4. Caught(s) => Caught(e)  BY DEF Caught
<1> QED  BY <1>1, <1>2, <1>3, <1>4, Zenon DEF Part

\* The ticks after the first overflow, and the cycles since the last tick,
\* are less than the cycles that passed when no tick was due before: the last
\* pass of the loop needs a whole period.
LEMMA Overflowed ==
  ASSUME NEW s \in Ending, NEW c \in Nat, Caught(s), Tick(s)[Passes(s, c)].irq
  PROVE  Tick(s)[Passes(s, c)].since * s.period + CumAt(s, c) <= c - 1
<1> DEFINE n == Passes(s, c)
           since == Tick(s)[n].since
<1>1. s.tima \in Timas /\ s.tma \in Timas /\ s.cum \in Nat  BY Fields
<1>2. n \in Nat  BY NextCum, Zenon
<1>3. since \in Nat /\ since < n /\ ~Tick(s)[0].irq
  <2> HIDE DEF n
  <2>1. Tick(s)[n].irq  BY DEF n
  <2> QED  BY <1>1, <1>2, <2>1, TickFields, TickSince
<1>4. s.running
  <2> SUFFICES ASSUME ~s.running PROVE FALSE  OBVIOUS
  <2>1. n = 0  BY Zenon DEF Passes
  <2> QED  BY <1>3, <2>1, Zenon
<1>5. s.period \in Nat \ {0} /\ s.cum + c \in Int /\ s.cum < s.period
  BY <1>1, <1>4, Fields DEF Caught
<1>6. n = (s.cum + c) \div s.period /\ CumAt(s, c) = (s.cum + c) % s.period
  BY <1>4, Zenon DEF Passes, CumAt
<1>7. PICK m \in 0 .. s.period - 1 : m = CumAt(s, c) /\ s.cum + c = n * s.period + m
  <2>1. PICK q \in Int, r \in 0 .. s.period - 1 :
          /\ q = (s.cum + c) \div s.period /\ r = (s.cum + c) % s.period
          /\ s.cum + c = q * s.period + r
    BY <1>5, Division, Zenon
  <2> QED  BY <1>6, <2>1, Zenon
<1> HIDE DEF since, n
<1>8. since * s.period \in Nat  BY <1>3, <1>5
<1>9. PICK j \in Nat : n = (since + 1) + j
  <2>1. n - (since + 1) \in Nat /\ n = (since + 1) + (n - (since + 1))  BY <1>2, <1>3
  <2> QED  BY <2>1
<1>10. n * s.period = (since * s.period + s.period) + j * s.period /\ j * s.period \in Nat
  BY <1>3, <1>5, <1>9
<1> DEFINE a == since * s.period
           b == j * s.period
<1>11. s.cum + c = ((a + s.period) + b) + m /\ a \in Nat /\ b \in Nat /\ m \in Nat
  BY <1>5, <1>7, <1>8, <1>10
<1> HIDE DEF a, b
<1>12. a + m <= c - 1  BY <1>1, <1>5, <1>11
<1> QED  BY <1>7, <1>12, Zenon DEF a, since, n

----------------------------------------------------------------------------
(* The statements of a call                                                 *)

\* The timer's half of inc_timer: c cycles pass and every tick that is due is
\* taken.
LEMMA TimerPartPart ==
  ASSUME NEW s \in Ending, NEW c \in Nat
  PROVE  /\ Part(s, TimerPart(s, c), c) /\ Caught(TimerPart(s, c))
         /\ TimerPart(s, c).cyc = s.cyc /\ TimerPart(s, c).on = s.on
<1> DEFINE t    == Tick(s)[Passes(s, c)]
           irq  == s.irq \/ t.irq
           cum  == CumAt(s, c)
           wait == t.since * s.period + cum
           late == IF s.late >= 0 THEN s.late + c
                   ELSE IF s.halted /\ s.ime /\ t.irq THEN wait ELSE -1
           ref  == RefCycles(s, c)
           e    == TimerPart(s, c)
<1>1. e = [s EXCEPT !.tima = t.tima, !.irq = irq, !.cum = cum, !.div = DivAt(s, c),
                    !.cumdiv = CumDivAt(s, c), !.late = late, !.ref = ref]
  BY Zenon DEF TimerPart, Ticks, CumAt, DivAt, CumDivAt
<1>2. /\ s \in Timers /\ s.tima \in Timas /\ s.tma \in Timas /\ s.period \in Nat
      /\ s.irq \in BOOLEAN /\ s.late \in Int /\ s.late >= -1
  BY Fields
<1>3. cum \in Nat /\ Passes(s, c) \in Nat /\ (s.running => cum < s.period)
  BY NextCum
<1>4. DivAt(s, c) \in Divs /\ CumDivAt(s, c) \in 0 .. DivCycles - 1
  BY NextDiv
<1>5. t.tima \in Timas /\ t.irq \in BOOLEAN /\ t.since \in Nat
  <2> DEFINE n == Passes(s, c)
  <2>1. n \in Nat  BY <1>3
  <2> HIDE DEF n
  <2>2. Tick(s)[n].tima \in Timas /\ Tick(s)[n].irq \in BOOLEAN /\ Tick(s)[n].since \in Nat
    BY <1>2, <2>1, TickFields
  <2> QED  BY <2>2 DEF n
<1>6. irq \in BOOLEAN /\ (t.irq => irq) /\ (s.irq => irq)  BY Zenon
<1>7. wait \in Nat
  <2> HIDE DEF t, cum
  <2>1. \A a, b \in Nat : a * b \in Nat  OBVIOUS
  <2>2. t.since * s.period \in Nat  BY <1>2, <1>5, <2>1
  <2> QED  BY <1>3, <2>2
<1>8. Caught(s) /\ t.irq => wait <= c - 1  BY Overflowed, Zenon
<1>9. ref \in Refs  BY RefCyclesType
<1>10. s.ref = Now(s) => ref = After(s, c)  BY BatchIsExact
<1>11. After(s, c) = [tima |-> t.tima, cum |-> cum, div |-> DivAt(s, c),
                      cumdiv |-> CumDivAt(s, c), irq |-> irq]
  BY Zenon DEF After
<1> HIDE DEF wait
<1>12. /\ late \in {-1} \cup Nat /\ late \in Int
       /\ late >= 0 => s.late >= 0 \/ (s.ime /\ t.irq)
       /\ Caught(s) => late <= s.late + c
  BY <1>2, <1>7, <1>8
<1> HIDE DEF t, irq, cum, late, ref, e
<1>13. e \in Timers
  BY <1>1, <1>2, <1>3, <1>4, <1>5, <1>6, <1>9, <1>12, Zenon DEF Timers, Timas, Divs
<1>14. /\ e.running = s.running /\ e.period = s.period /\ e.on = s.on /\ e.cyc = s.cyc
       /\ e.ime = s.ime /\ e.left = s.left /\ e.halted = s.halted
       /\ e.tima = t.tima /\ e.irq = irq /\ e.cum = cum /\ e.div = DivAt(s, c)
       /\ e.cumdiv = CumDivAt(s, c) /\ e.late = late /\ e.ref = ref
  BY <1>1, <1>2, Zenon DEF Timers
<1>15. e \in Ending  BY <1>13, <1>14, Zenon DEF Ending
<1>16. Caught(e)  BY <1>3, <1>14, Zenon DEF Caught
<1>17. Good(s) => Good(e)
  <2>1. s.ref = Now(s) => e.ref = Now(e)  BY <1>10, <1>11, <1>14, Zenon DEF Now
  <2> QED  BY <1>6, <1>12, <1>14, <1>15, <2>1, Zenon DEF Good
<1>18. Caught(s) => e.late + BlockCycles * e.left <= s.late + BlockCycles * s.left + c
  <2>1. \A a, b \in Nat : a * b \in Int  OBVIOUS
  <2>2. BlockCycles \in Nat /\ s.left \in Nat  BY Fields, Positive
  <2> DEFINE x == BlockCycles * s.left
  <2>3. x \in Int /\ BlockCycles * e.left = x  BY <1>14, <2>1, <2>2
  <2> HIDE DEF x
  <2>4. Caught(s) => e.late + x <= s.late + x + c  BY <1>2, <1>12, <1>14, <2>3
  <2> QED  BY <2>3, <2>4 DEF x
<1>19. e.left <= s.left  BY <1>14, Fields
<1> QED  BY <1>14, <1>15, <1>16, <1>17, <1>18, <1>19, Zenon DEF Part, e

\* The beam moves on, or back by a line, and no more.
LEMMA BeamPart ==
  ASSUME NEW s \in Ending, NEW n \in Nat
  PROVE  LET e == [s EXCEPT !.cyc = n]
         IN Part(s, e, 0) /\ e.cyc = n /\ e.on = s.on /\ e.left = s.left
<1> DEFINE e == [s EXCEPT !.cyc = n]
<1>1. s \in Timers  BY Fields
<1>2. /\ e \in Timers /\ e.cyc = n /\ e.on = s.on /\ e.left = s.left
      /\ e.running = s.running /\ e.period = s.period
      /\ e.tima = s.tima /\ e.cum = s.cum /\ e.div = s.div /\ e.cumdiv = s.cumdiv
      /\ e.irq = s.irq /\ e.ime = s.ime /\ e.halted = s.halted /\ e.late = s.late
      /\ e.ref = s.ref
  BY <1>1, Zenon DEF Timers
<1> HIDE DEF e
<1>3. e \in Ending  BY <1>2, Zenon DEF Ending
<1>4. Part(s, e, 0)  BY <1>2, <1>3, Still, Zenon
<1> QED  BY <1>2, <1>4 DEF e

\* The timer with another request.
LEMMA Reset ==
  ASSUME NEW s, NEW b
  PROVE  [Now(s) EXCEPT !.irq = b]
           = [tima |-> s.tima, cum |-> s.cum, div |-> s.div, cumdiv |-> s.cumdiv, irq |-> b]
<1> DEFINE v == s.tima  w == s.cum  x == s.div  y == s.cumdiv  i == s.irq
<1>1. Now(s) = [tima |-> v, cum |-> w, div |-> x, cumdiv |-> y, irq |-> i]
  BY Zenon DEF Now
<1> HIDE DEF v, w, x, y, i
<1>2. \A j : [[tima |-> v, cum |-> w, div |-> x, cumdiv |-> y, irq |-> i] EXCEPT !.irq = j]
               = [tima |-> v, cum |-> w, div |-> x, cumdiv |-> y, irq |-> j]
  BY SMT
<1> QED  BY <1>1, <1>2, Zenon DEF v, w, x, y

\* An acceptance ends a HALT, and without one no overflow waits for its end.
LEMMA AcceptPart ==
  ASSUME NEW s \in Ending
  PROVE  /\ Part(s, Accept(s), 0)
         /\ Accept(s).cyc = s.cyc /\ Accept(s).left = s.left
         /\ Good(s) /\ Accept(s).halted => Accept(s).late = -1
<1> DEFINE e == Accept(s)
<1>1. CASE ~(s.ime /\ s.irq)
  <2>1. e = s  BY <1>1, Zenon DEF Accept
  <2>2. Part(s, s, 0)  BY Still, Zenon
  <2>3. s.late \in Int /\ s.late >= -1  BY Fields
  <2>4. Good(s) /\ s.halted => ~(s.late >= 0)  BY <1>1, Zenon DEF Good
  <2>5. Good(s) /\ s.halted => s.late = -1  BY <2>3, <2>4
  <2> QED  BY <2>1, <2>2, <2>5, Zenon
<1>2. CASE s.ime /\ s.irq
  <2> DEFINE r == [s.ref EXCEPT !.irq = FALSE]
  <2>1. e = [s EXCEPT !.ime = FALSE, !.irq = FALSE, !.ref = r, !.halted = FALSE]
    BY <1>2, Zenon DEF Accept
  <2>2. s \in Timers /\ s.ref \in Refs  BY Fields, Zenon DEF Timers
  <2>3. r \in Refs /\ FALSE \in BOOLEAN  BY <2>2, Zenon DEF Refs
  <2>4. s.ref = Now(s) => r = [Now(s) EXCEPT !.irq = FALSE]  BY Zenon
  <2> HIDE DEF r, e
  <2>5. /\ e.running = s.running /\ e.period = s.period /\ e.on = s.on /\ e.cyc = s.cyc
        /\ e.tima = s.tima /\ e.cum = s.cum /\ e.div = s.div /\ e.cumdiv = s.cumdiv
        /\ e.irq = FALSE /\ e.ime = FALSE /\ e.halted = FALSE
        /\ e.left = s.left /\ e.late = s.late /\ e.ref = r
    BY <2>1, <2>2, Zenon DEF Timers
  <2>6. e \in Timers  BY <2>1, <2>2, <2>3, Zenon DEF Timers
  <2>7. e \in Ending  BY <2>5, <2>6, Zenon DEF Ending
  <2>8. [Now(s) EXCEPT !.irq = FALSE] = Now(e)
    <3>1. Now(e) = [tima |-> s.tima, cum |-> s.cum, div |-> s.div, cumdiv |-> s.cumdiv,
                    irq |-> FALSE]
      BY <2>5, Zenon DEF Now
    <3> QED  BY <3>1, Reset, Zenon
  <2>9. Good(s) => Good(e)  BY <2>4, <2>5, <2>7, <2>8, Zenon DEF Good
  <2>10. Caught(s) => Caught(e)  BY <2>5, Zenon DEF Caught
  <2>11. /\ e.left <= s.left
         /\ e.late + BlockCycles * e.left <= s.late + BlockCycles * s.left + 0
    <3>1. \A a, b \in Nat : a * b \in Int  OBVIOUS
    <3>2. BlockCycles \in Nat /\ s.left \in Nat /\ s.late \in Int  BY Fields, Positive
    <3>3. BlockCycles * s.left \in Int  BY <3>1, <3>2
    <3> QED  BY <2>5, <3>2, <3>3
  <2> QED  BY <2>5, <2>7, <2>9, <2>10, <2>11, Zenon DEF Part, e
<1> QED  BY <1>1, <1>2

\* The counter of a transfer after a block.
Block(s) == [s EXCEPT !.left = @ - 1]

\* A block is counted: its cycles will not be HALT's.
LEMMA BlockPart ==
  ASSUME NEW s \in Ending, s.left > 0
  PROVE  /\ Part(s, Block(s), -BlockCycles)
         /\ Block(s).cyc = s.cyc /\ Block(s).on = s.on /\ Block(s).left = s.left - 1
<1> DEFINE e == Block(s)
<1>1. s \in Timers /\ s.left \in 0 .. 128 /\ s.late \in Int /\ BlockCycles \in Nat
  BY Fields, Positive
<1>2. s.left - 1 \in 0 .. 128  BY <1>1
<1>3. e = [s EXCEPT !.left = s.left - 1]  BY Zenon DEF Block
<1> HIDE DEF e
<1>4. /\ e \in Timers /\ e.cyc = s.cyc /\ e.on = s.on /\ e.left = s.left - 1
      /\ e.running = s.running /\ e.period = s.period
      /\ e.tima = s.tima /\ e.cum = s.cum /\ e.div = s.div /\ e.cumdiv = s.cumdiv
      /\ e.irq = s.irq /\ e.ime = s.ime /\ e.halted = s.halted /\ e.late = s.late
      /\ e.ref = s.ref
  BY <1>1, <1>2, <1>3, Zenon DEF Timers
<1>5. e \in Ending  BY <1>4, Zenon DEF Ending
<1>6. (Good(s) => Good(e)) /\ (Caught(s) => Caught(e))
  BY <1>4, <1>5, Zenon DEF Good, Now, Caught
<1>7. e.left <= s.left  BY <1>1, <1>4
<1>8. e.late + BlockCycles * e.left <= s.late + BlockCycles * s.left + (-BlockCycles)
  <2>1. \A a \in Nat, b \in 0 .. 128 : a * (b - 1) = a * b - a /\ a * b \in Int  OBVIOUS
  <2>2. BlockCycles * (s.left - 1) = BlockCycles * s.left - BlockCycles
        /\ BlockCycles * s.left \in Int
    BY <1>1, <2>1
  <2> DEFINE x == BlockCycles * s.left
  <2>3. x \in Int /\ BlockCycles * e.left = x - BlockCycles  BY <1>4, <2>2
  <2> HIDE DEF x
  <2>4. e.late + (x - BlockCycles) <= s.late + x + (-BlockCycles)  BY <1>1, <1>4, <2>3
  <2> QED  BY <2>3, <2>4 DEF x
<1> QED  BY <1>4, <1>5, <1>6, <1>7, <1>8, Zenon DEF Part, e

----------------------------------------------------------------------------
(* The line loop, and the calls nested in it                                *)

\* A call before its line loop.
Begun(s, c) == [TimerPart(s, c) EXCEPT !.cyc = @ + c]

\* Its cycles are added to those of the line.
LEMMA BegunPart ==
  ASSUME NEW s \in Ending, NEW c \in Nat
  PROVE  /\ Part(s, Begun(s, c), c) /\ Caught(Begun(s, c))
         /\ Begun(s, c) \in Ending /\ Begun(s, c).cyc = s.cyc + c /\ Begun(s, c).on = s.on
<1> DEFINE r == TimerPart(s, c)
           n == s.cyc + c
           e == [r EXCEPT !.cyc = n]
<1>1. Part(s, r, c) /\ Caught(r) /\ r.cyc = s.cyc /\ r.on = s.on  BY TimerPartPart, Zenon
<1>2. r \in Ending  BY <1>1, Zenon DEF Part
<1>3. n \in Nat /\ c + 0 = c /\ c \in Int /\ 0 \in Int
  <2>1. s.cyc \in Nat  BY Fields
  <2> QED  BY <2>1
<1> HIDE DEF r, n
<1>4. Begun(s, c) = e  BY <1>1, Zenon DEF Begun, r, n
<1>5. Part(r, e, 0) /\ e.cyc = n /\ e.on = r.on  BY <1>2, <1>3, BeamPart, Zenon
<1> HIDE DEF e
<1>6. Part(s, e, c + 0)  BY <1>1, <1>3, <1>5, PartSum, Zenon
<1>7. Part(s, e, c)  BY <1>3, <1>6
<1>8. e \in Ending /\ Caught(e)  BY <1>1, <1>5, Zenon DEF Part
<1> QED  BY <1>1, <1>4, <1>5, <1>7, <1>8 DEF n

\* inc_timer is its timer's half and its line loop.
LEMMA IncTimerIs ==
  ASSUME NEW loop, NEW s, NEW c
  PROVE  IncTimerBy(loop, s, c) = IF s.on THEN loop[Begun(s, c)] ELSE TimerPart(s, c)
BY Zenon DEF IncTimerBy, Begun

\* hdma_copy_16b depends on the loop at one place only.
LEMMA CopyIs ==
  ASSUME NEW loop, NEW s
  PROVE  Copy16(loop, s) = LET b == Block(s)
                           IN Accept(IF b.on THEN loop[Begun(b, BlockCycles)]
                                     ELSE TimerPart(b, BlockCycles))
BY Zenon DEF Copy16, UpdateCpuBy, IncTimerBy, Begun, Block

\* The line loop with loop in the place of its recursion.
LoopBody(loop, s) ==
  IF s.cyc < LineCycles THEN s
  ELSE LET r == [s EXCEPT !.cyc = @ - LineCycles]
       IN loop[IF s.left > 0 THEN Copy16(loop, r) ELSE r]

\* States without a line that is due.
Settled == {s \in Ending : s.cyc < LineCycles}

\* A line that ends.
LEMMA LinePart ==
  ASSUME NEW s \in Ending, ~(s.cyc < LineCycles)
  PROVE  LET r == [s EXCEPT !.cyc = @ - LineCycles]
         IN /\ Part(s, r, 0) /\ r \in Ending /\ r.on = s.on /\ r.left = s.left
            /\ r.cyc < s.cyc /\ r.cyc + BlockCycles < s.cyc
<1> DEFINE n == s.cyc - LineCycles
           r == [s EXCEPT !.cyc = n]
<1>1. n \in Nat /\ n < s.cyc /\ n + BlockCycles < s.cyc  BY Fields, Positive
<1> HIDE DEF n
<1>2. Part(s, r, 0) /\ r.cyc = n /\ r.on = s.on /\ r.left = s.left  BY <1>1, BeamPart, Zenon
<1>3. [s EXCEPT !.cyc = @ - LineCycles] = r  BY Zenon DEF n
<1> HIDE DEF r
<1>4. r \in Ending  BY <1>2, Zenon DEF Part
<1> QED  BY <1>1, <1>2, <1>3, <1>4

\* A block of a transfer does not make more lines due than its own cycles do,
\* when the loop does what it should.
LEMMA CopyType ==
  ASSUME NEW loop, NEW s \in Ending, s.left > 0,
         s.on => loop[Begun(Block(s), BlockCycles)] \in Settled
  PROVE  LET e == Copy16(loop, s)
         IN e \in Ending /\ e.cyc = IF s.on THEN loop[Begun(Block(s), BlockCycles)].cyc ELSE s.cyc
<1> DEFINE b == Block(s)
           p == Begun(b, BlockCycles)
           t == TimerPart(b, BlockCycles)
           q == IF b.on THEN loop[p] ELSE t
           e == Copy16(loop, s)
<1>1. b \in Ending /\ b.cyc = s.cyc /\ b.on = s.on  BY BlockPart, Zenon DEF Part
<1>2. e = Accept(q)  BY CopyIs, Zenon
<1>3. BlockCycles \in Nat  BY Positive
<1> HIDE DEF b
<1>4. Part(b, t, BlockCycles) /\ t.cyc = b.cyc  BY <1>1, <1>3, TimerPartPart, Zenon
<1>5. s.on => loop[p] \in Settled  BY Zenon DEF b
<1> HIDE DEF t, p
<1>6. q \in Ending /\ q.cyc = IF s.on THEN loop[p].cyc ELSE s.cyc
  <2>1. CASE s.on
    <3>1. q = loop[p]  BY <1>1, <2>1
    <3> QED  BY <1>5, <2>1, <3>1, Zenon DEF Settled
  <2>2. CASE ~s.on
    <3>1. q = t  BY <1>1, <2>2
    <3> QED  BY <1>1, <1>4, <2>2, <3>1, Zenon DEF Part
  <2> QED  BY <2>1, <2>2
<1> HIDE DEF q, e
<1>7. Part(q, Accept(q), 0) /\ Accept(q).cyc = q.cyc  BY <1>6, AcceptPart, Zenon
<1>8. e \in Ending /\ e.cyc = q.cyc  BY <1>2, <1>7, Zenon DEF Part
<1> QED  BY <1>6, <1>8, Zenon DEF e, p, b

\* What a pass of the loop leaves to do is less than what there was, when the
\* loop does what it should for less.
LEMMA LessToDo ==
  ASSUME NEW loop, NEW s \in Ending, ~(s.cyc < LineCycles),
         \A t \in Ending : t.cyc < s.cyc => loop[t] \in Settled
  PROVE  LET r == [s EXCEPT !.cyc = @ - LineCycles]
             u == IF s.left > 0 THEN Copy16(loop, r) ELSE r
         IN /\ u \in Ending /\ u.cyc < s.cyc
            /\ s.left > 0 => /\ r \in Ending /\ r.left > 0
                             /\ Begun(Block(r), BlockCycles) \in Ending
                             /\ Begun(Block(r), BlockCycles).cyc < s.cyc
<1> DEFINE r == [s EXCEPT !.cyc = @ - LineCycles]
           p == Begun(Block(r), BlockCycles)
           u == IF s.left > 0 THEN Copy16(loop, r) ELSE r
<1>1. /\ r \in Ending /\ r.left = s.left
      /\ r.cyc < s.cyc /\ r.cyc + BlockCycles < s.cyc
  BY LinePart, Zenon
<1> HIDE DEF r
<1>2. s.left > 0 => p \in Ending /\ p.cyc < s.cyc
  <2>1. BlockCycles \in Nat  BY Positive
  <2>2. s.left > 0 => Block(r) \in Ending /\ Block(r).cyc = r.cyc
    BY <1>1, BlockPart, Zenon DEF Part
  <2>3. s.left > 0 => p \in Ending /\ p.cyc = Block(r).cyc + BlockCycles
    BY <2>1, <2>2, BegunPart, Zenon
  <2> HIDE DEF p
  <2> QED  BY <1>1, <2>2, <2>3
<1>3. CASE ~(s.left > 0)  BY <1>1, <1>3, Zenon DEF r
<1>4. CASE s.left > 0
  <2>1. loop[p] \in Settled /\ p.cyc < s.cyc  BY <1>2, <1>4, Zenon
  <2> HIDE DEF p
  <2>2. u = Copy16(loop, r)  BY <1>4
  <2>3. u \in Ending /\ u.cyc = IF r.on THEN loop[p].cyc ELSE r.cyc
    BY <1>1, <1>4, <2>1, <2>2, CopyType, Zenon DEF p
  <2>4. loop[p] \in Ending /\ loop[p].cyc < LineCycles  BY <2>1, Zenon DEF Settled
  <2>5. loop[p].cyc < s.cyc
    <3>1. loop[p].cyc \in Nat /\ s.cyc \in Nat  BY <2>4, Fields
    <3> QED  BY <2>4, <3>1, Positive
  <2>6. u.cyc < s.cyc
    <3>1. CASE r.on  BY <2>3, <2>5, <3>1
    <3>2. CASE ~r.on  BY <1>1, <2>3, <3>2
    <3> QED  BY <3>1, <3>2
  <2> QED  BY <1>1, <1>2, <1>4, <2>3, <2>6, Zenon DEF r, p
<1> QED  BY <1>3, <1>4

\* The same loop for less makes the same pass.
LEMMA SamePass ==
  ASSUME NEW f, NEW g, NEW s \in Ending,
         \A t \in Ending : t.cyc < s.cyc => f[t] \in Settled,
         \A t \in Ending : t.cyc < s.cyc => f[t] = g[t]
  PROVE  LoopBody(f, s) = LoopBody(g, s)
<1>1. CASE s.cyc < LineCycles  BY <1>1, Zenon DEF LoopBody
<1>2. CASE ~(s.cyc < LineCycles)
  <2> DEFINE r == [s EXCEPT !.cyc = @ - LineCycles]
             p == Begun(Block(r), BlockCycles)
             u == IF s.left > 0 THEN Copy16(f, r) ELSE r
             w == IF s.left > 0 THEN Copy16(g, r) ELSE r
  <2>1. u \in Ending /\ u.cyc < s.cyc  BY <1>2, LessToDo, Zenon
  <2>2. s.left > 0 => p \in Ending /\ p.cyc < s.cyc  BY <1>2, LessToDo, Zenon
  <2>3. s.left > 0 => Copy16(f, r) = Copy16(g, r)
    <3>1. s.left > 0 => f[p] = g[p]  BY <2>2, Zenon
    <3>2. \A loop : Copy16(loop, r)
                      = Accept(IF Block(r).on THEN loop[p] ELSE TimerPart(Block(r), BlockCycles))
      BY CopyIs, Zenon
    <3> HIDE DEF p, r
    <3> QED  BY <3>1, <3>2, Zenon
  <2>4. u = w  BY <2>3, Zenon
  <2>5. f[u] = g[w]  BY <2>1, <2>4, Zenon
  <2>6. LoopBody(f, s) = f[u] /\ LoopBody(g, s) = g[w]  BY <1>2, Zenon DEF LoopBody
  <2> QED  BY <2>5, <2>6
<1> QED  BY <1>1, <1>2

\* EndLines is what its definition says.
LEMMA EndLinesEquation == EndLines = [s \in Ending |-> LoopBody(EndLines, s)]
<1> DEFINE G == [f \in [Ending -> Settled] |-> [s \in Ending |-> LoopBody(f, s)]]
           m == [s \in Ending |-> s.cyc]
<1>1. ASSUME NEW f \in [Ending -> Settled], NEW s \in Ending
      PROVE  LoopBody(f, s) \in Settled
  <2>1. CASE s.cyc < LineCycles  BY <2>1, Zenon DEF LoopBody, Settled
  <2>2. CASE ~(s.cyc < LineCycles)
    <3> DEFINE r == [s EXCEPT !.cyc = @ - LineCycles]
               u == IF s.left > 0 THEN Copy16(f, r) ELSE r
    <3>1. \A t \in Ending : t.cyc < s.cyc => f[t] \in Settled  OBVIOUS
    <3>2. u \in Ending  BY <2>2, <3>1, LessToDo, Zenon
    <3>3. LoopBody(f, s) = f[u]  BY <2>2, Zenon DEF LoopBody
    <3> HIDE DEF u
    <3> QED  BY <3>2, <3>3
  <2> QED  BY <2>1, <2>2
<1>2. G \in [[Ending -> Settled] -> [Ending -> Settled]]  BY <1>1
<1>3. m \in [Ending -> Nat]  BY Fields
<1>4. [Ending -> Settled] # {}
  <2>1. \A s \in Ending : [s EXCEPT !.cyc = 0] \in Settled
    <3>1. 0 \in Nat /\ 0 < LineCycles  BY Positive
    <3>2. \A s \in Ending : [s EXCEPT !.cyc = 0] \in Ending /\ [s EXCEPT !.cyc = 0].cyc = 0
      BY <3>1, BeamPart, Zenon DEF Part
    <3> QED  BY <3>1, <3>2, Zenon DEF Settled
  <2>2. [s \in Ending |-> [s EXCEPT !.cyc = 0]] \in [Ending -> Settled]  BY <2>1
  <2> QED  BY <2>2
<1>5. ASSUME NEW f \in [Ending -> Settled], NEW g \in [Ending -> Settled], NEW s \in Ending,
             \A t \in Ending : m[t] < m[s] => f[t] = g[t]
      PROVE  G[f][s] = G[g][s]
  <2>1. \A t \in Ending : t.cyc < s.cyc => f[t] = g[t] /\ f[t] \in Settled  BY <1>5
  <2>2. LoopBody(f, s) = LoopBody(g, s)  BY <2>1, SamePass
  <2> QED  BY <2>2
<1>6. PICK f \in [Ending -> Settled] : f = G[f]
  <2> HIDE DEF G, m
  <2>1. \A f, g \in [Ending -> Settled] : \A s \in Ending :
          (\A t \in Ending : m[t] < m[s] => f[t] = g[t]) => G[f][s] = G[g][s]
    BY <1>5, Zenon
  <2>2. WellFounded(Ending, Settled, m, G)
    BY <1>2, <1>3, <1>4, <2>1, Zenon DEF WellFounded
  <2> QED  BY <2>2, RecursiveFunction
<1>7. f = [s \in Ending |-> LoopBody(f, s)]  BY <1>6
<1> QED  BY <1>7, Zenon DEF EndLines, LoopBody

\* One pass of the loop.
LEMMA EndLinesStep ==
  ASSUME NEW s \in Ending
  PROVE  EndLines[s] = LoopBody(EndLines, s)
<1> DEFINE F == [t \in Ending |-> LoopBody(EndLines, t)]
<1>1. EndLines = F  BY EndLinesEquation
<1>2. F[s] = LoopBody(EndLines, s)  OBVIOUS
<1> QED  BY <1>1, <1>2

\* After the loop no line is due.
LEMMA EndLinesType ==
  ASSUME NEW s \in Ending
  PROVE  EndLines[s] \in Settled
<1> DEFINE B == {t \in Ending : EndLines[t] \notin Settled}
           m == [t \in Ending |-> t.cyc]
<1> SUFFICES ASSUME B # {} PROVE FALSE  OBVIOUS
<1>1. \A t \in B : m[t] \in Nat  BY Fields
<1>2. PICK b \in B : \A t \in B : ~(m[t] < m[b])
  <2> HIDE DEF B, m
  <2> QED  BY <1>1, LeastMeasure
<1>3. \A t \in Ending : t.cyc < b.cyc => EndLines[t] \in Settled  BY <1>2
<1>4. b \in Ending /\ EndLines[b] = LoopBody(EndLines, b)  BY EndLinesStep
<1>5. CASE b.cyc < LineCycles
  <2>1. LoopBody(EndLines, b) = b  BY <1>5, Zenon DEF LoopBody
  <2> QED  BY <1>4, <1>5, <2>1 DEF Settled
<1>6. CASE ~(b.cyc < LineCycles)
  <2> DEFINE r == [b EXCEPT !.cyc = @ - LineCycles]
             u == IF b.left > 0 THEN Copy16(EndLines, r) ELSE r
  <2>1. u \in Ending /\ u.cyc < b.cyc  BY <1>3, <1>4, <1>6, LessToDo, Zenon
  <2>2. LoopBody(EndLines, b) = EndLines[u]  BY <1>6, Zenon DEF LoopBody
  <2> HIDE DEF u
  <2>3. EndLines[u] \in Settled  BY <1>3, <2>1
  <2> QED  BY <1>4, <2>2, <2>3
<1> QED  BY <1>5, <1>6

\* Sums of the times of a call.
LEMMA Times ==
  /\ BlockCycles \in Int /\ -BlockCycles \in Int /\ 0 \in Int
  /\ -BlockCycles + BlockCycles = 0 /\ BlockCycles + 0 = BlockCycles /\ 0 + 0 = 0
BY Positive

\* A block of a transfer: the cycles that it takes are those by which fewer
\* blocks are left.
LEMMA CopyPart ==
  ASSUME NEW s \in Ending, s.left > 0,
         LET p == Begun(Block(s), BlockCycles) IN Part(p, EndLines[p], 0)
  PROVE  LET e == Copy16(EndLines, s)
         IN Part(s, e, 0) /\ Caught(e) /\ e \in Ending /\ e.left < s.left
<1> DEFINE b == Block(s)
           p == Begun(b, BlockCycles)
           t == TimerPart(b, BlockCycles)
           q == IF b.on THEN EndLines[p] ELSE t
           e == Copy16(EndLines, s)
<1>1. Part(s, b, -BlockCycles) /\ b.left = s.left - 1  BY BlockPart, Zenon
<1>2. e = Accept(q)  BY CopyIs, Zenon
<1>3. BlockCycles \in Nat /\ Part(p, EndLines[p], 0)  BY Positive
<1> HIDE DEF b
<1>4. b \in Ending  BY <1>1, Zenon DEF Part
<1>5. Part(b, p, BlockCycles) /\ Caught(p)  BY <1>3, <1>4, BegunPart, Zenon
<1>6. Part(b, t, BlockCycles) /\ Caught(t)  BY <1>3, <1>4, TimerPartPart, Zenon
<1> HIDE DEF p, t
<1>7. Part(b, q, BlockCycles) /\ Caught(q)
  <2>1. CASE b.on
    <3>1. q = EndLines[p]  BY <2>1
    <3> HIDE DEF q
    <3>2. Part(b, q, BlockCycles + 0)  BY <1>3, <1>4, <1>5, <3>1, Times, PartSum, Zenon
    <3> QED  BY <1>3, <1>5, <3>1, <3>2, Times, Zenon DEF Part
  <2>2. CASE ~b.on  BY <1>6, <2>2, Zenon
  <2> QED  BY <2>1, <2>2
<1> HIDE DEF q, e
<1>8. q \in Ending  BY <1>7, Zenon DEF Part
<1>9. Part(q, e, 0)  BY <1>2, <1>8, AcceptPart, Zenon
<1>10. Part(b, e, BlockCycles + 0)  BY <1>4, <1>7, <1>9, Times, PartSum, Zenon
<1>11. Part(b, e, BlockCycles)  BY <1>10, Times, Zenon
<1>12. Part(s, e, -BlockCycles + BlockCycles)  BY <1>1, <1>11, Times, PartSum, Zenon
<1>13. Part(s, e, 0)  BY <1>12, Times, Zenon
<1>14. e \in Ending /\ Caught(e) /\ e.left <= b.left  BY <1>7, <1>9, <1>11, Zenon DEF Part
<1>15. e.left < s.left
  <2>1. e.left \in Int /\ s.left \in Int  BY <1>14, Fields
  <2> QED  BY <1>1, <1>14, <2>1
<1> QED  BY <1>13, <1>14, <1>15 DEF e

\* The line loop takes no time but that of the blocks that it copies.
LEMMA EndLinesPart ==
  ASSUME NEW s \in Ending
  PROVE  Part(s, EndLines[s], 0)
<1> DEFINE B == {t \in Ending : ~Part(t, EndLines[t], 0)}
           measure == [t \in Ending |-> t.cyc]
<1> SUFFICES ASSUME B # {} PROVE FALSE  BY Zenon
<1>1. \A t \in B : measure[t] \in Nat  BY Fields
<1>2. PICK b \in B : \A t \in B : ~(measure[t] < measure[b])
  <2> HIDE DEF B, measure
  <2> QED  BY <1>1, LeastMeasure
<1>3. \A t \in Ending : t.cyc < b.cyc => Part(t, EndLines[t], 0)
  <2> HIDE DEF Part
  <2> QED  BY <1>2
<1>4. b \in Ending /\ ~Part(b, EndLines[b], 0)  BY Zenon
<1>5. EndLines[b] = LoopBody(EndLines, b)  BY <1>4, EndLinesStep
<1> HIDE DEF B, measure
<1>6. CASE b.cyc < LineCycles
  <2>1. EndLines[b] = b  BY <1>5, <1>6, Zenon DEF LoopBody
  <2>2. Part(b, b, 0)  BY <1>4, Still, Zenon
  <2> QED  BY <1>4, <2>1, <2>2, Zenon
<1>7. CASE ~(b.cyc < LineCycles)
  <2> DEFINE r == [b EXCEPT !.cyc = @ - LineCycles]
             p == Begun(Block(r), BlockCycles)
             u == IF b.left > 0 THEN Copy16(EndLines, r) ELSE r
             e == EndLines[u]
  <2>1. \A t \in Ending : EndLines[t] \in Settled  BY EndLinesType
  <2>2. /\ u \in Ending /\ u.cyc < b.cyc
        /\ b.left > 0 => r \in Ending /\ r.left > 0 /\ p \in Ending /\ p.cyc < b.cyc
    BY <1>4, <1>7, <2>1, LessToDo, Zenon
  <2>3. EndLines[b] = e  BY <1>5, <1>7, Zenon DEF LoopBody
  <2>4. Part(b, r, 0) /\ r \in Ending  BY <1>4, <1>7, LinePart, Zenon
  <2>5. Part(r, u, 0)
    <3>1. CASE ~(b.left > 0)
      <4>1. u = r  BY <3>1
      <4> HIDE DEF u, r
      <4> QED  BY <2>4, <4>1, Still, Zenon
    <3>2. CASE b.left > 0
      <4>1. u = Copy16(EndLines, r)  BY <3>2
      <4>2. Part(p, EndLines[p], 0)  BY <1>3, <2>2, <3>2, Zenon
      <4> HIDE DEF r, u
      <4> QED  BY <2>2, <2>4, <3>2, <4>1, <4>2, CopyPart, Zenon
    <3> QED  BY <3>1, <3>2
  <2> HIDE DEF r, p, u
  <2>6. Part(u, e, 0)  BY <1>3, <2>2, Zenon
  <2> HIDE DEF e
  <2>7. Part(b, u, 0)  BY <1>4, <2>4, <2>5, Times, PartSum
  <2>8. Part(b, e, 0)  BY <1>4, <2>6, <2>7, Times, PartSum
  <2> QED  BY <1>4, <2>3, <2>8, Zenon
<1> QED  BY <1>6, <1>7

\* So does hdma_copy_16b, and what it leaves.
LEMMA BlockCopied ==
  ASSUME NEW s \in Settled, s.left > 0
  PROVE  LET e == Copy16(EndLines, s)
         IN Part(s, e, 0) /\ e \in Settled /\ e.left < s.left
<1> DEFINE b == Block(s)
           p == Begun(b, BlockCycles)
           e == Copy16(EndLines, s)
<1>1. s \in Ending /\ s.cyc < LineCycles  BY Zenon DEF Settled
<1>2. b \in Ending  BY <1>1, BlockPart, Zenon DEF Part
<1>3. p \in Ending
  <2>1. BlockCycles \in Nat  BY Positive
  <2> HIDE DEF b
  <2> QED  BY <1>2, <2>1, BegunPart, Zenon
<1>4. Part(p, EndLines[p], 0) /\ EndLines[p] \in Settled
  <2> HIDE DEF p
  <2> QED  BY <1>3, EndLinesPart, EndLinesType
<1>5. Part(s, e, 0) /\ e \in Ending /\ e.left < s.left  BY <1>1, <1>4, CopyPart, Zenon
<1>6. e.cyc = IF s.on THEN EndLines[p].cyc ELSE s.cyc  BY <1>1, <1>4, CopyType, Zenon
<1>7. e.cyc < LineCycles
  <2>1. EndLines[p].cyc < LineCycles  BY <1>4, Zenon DEF Settled
  <2> HIDE DEF p, e
  <2>2. CASE s.on  BY <1>6, <2>1, <2>2
  <2>3. CASE ~s.on  BY <1>1, <1>6, <2>3
  <2> QED  BY <2>2, <2>3
<1> QED  BY <1>5, <1>7, Zenon DEF Settled

\* update_cpu: no tick and no line is due when it returns, and a HALT that
\* goes on has not missed an overflow.
LEMMA UpdateCpuPart ==
  ASSUME NEW s \in Settled, NEW c \in Nat
  PROVE  LET e == UpdateCpu(s, c)
         IN /\ Part(s, e, c) /\ Caught(e) /\ e \in Settled
            /\ Good(s) /\ e.halted => e.late = -1
<1> DEFINE p == Begun(s, c)
           t == TimerPart(s, c)
           q == IF s.on THEN EndLines[p] ELSE t
           e == UpdateCpu(s, c)
<1>1. s \in Ending /\ s.cyc < LineCycles /\ c \in Int /\ c + 0 = c /\ 0 \in Int
  BY DEF Settled
<1>2. e = Accept(q)  BY IncTimerIs, Zenon DEF UpdateCpu, UpdateCpuBy
<1>3. Part(s, p, c) /\ Caught(p) /\ p \in Ending  BY <1>1, BegunPart, Zenon
<1>4. Part(s, t, c) /\ Caught(t) /\ t.cyc = s.cyc  BY <1>1, TimerPartPart, Zenon
<1> HIDE DEF p, t
<1>5. Part(p, EndLines[p], 0) /\ EndLines[p] \in Settled  BY <1>3, EndLinesPart, EndLinesType
<1>6. Part(s, q, c) /\ Caught(q) /\ q.cyc < LineCycles
  <2>1. CASE s.on
    <3>1. q = EndLines[p]  BY <2>1
    <3> HIDE DEF q
    <3>2. Part(s, q, c + 0)  BY <1>1, <1>3, <1>5, <3>1, PartSum, Zenon
    <3> QED  BY <1>1, <1>3, <1>5, <3>1, <3>2, Zenon DEF Part, Settled
  <2>2. CASE ~s.on
    <3>1. q = t  BY <2>2
    <3> HIDE DEF q
    <3> QED  BY <1>1, <1>4, <3>1
  <2> QED  BY <2>1, <2>2
<1> HIDE DEF q, e
<1>7. q \in Ending  BY <1>6, Zenon DEF Part
<1>8. Part(q, e, 0) /\ e.cyc = q.cyc /\ (Good(q) /\ e.halted => e.late = -1)
  BY <1>2, <1>7, AcceptPart, Zenon
<1>9. Part(s, e, c + 0)  BY <1>1, <1>6, <1>8, PartSum, Zenon
<1>10. Part(s, e, c)  BY <1>1, <1>9
<1>11. e \in Settled /\ Caught(e)  BY <1>6, <1>8, Zenon DEF Part, Settled
<1>12. Good(s) => Good(q)  BY <1>6, Zenon DEF Part
<1> QED  BY <1>8, <1>10, <1>11, <1>12 DEF e

----------------------------------------------------------------------------
(* A transfer at once                                                       *)

\* CopyAll with f in the place of its recursion.
AllBody(f, s) == IF s.left > 0 THEN f[Copy16(EndLines, s)] ELSE s

\* It copies less with each block, lines that are due or not.
LEMMA LessToCopy ==
  ASSUME NEW s \in Ending, s.left > 0
  PROVE  Copy16(EndLines, s) \in Ending /\ Copy16(EndLines, s).left < s.left
<1> DEFINE p == Begun(Block(s), BlockCycles)
<1>1. Block(s) \in Ending /\ BlockCycles \in Nat  BY BlockPart, Positive, Zenon DEF Part
<1>2. p \in Ending  BY <1>1, BegunPart, Zenon
<1>3. Part(p, EndLines[p], 0)
  <2> HIDE DEF p
  <2> QED  BY <1>2, EndLinesPart
<1> QED  BY <1>3, CopyPart, Zenon

\* CopyAll is what its definition says.
LEMMA CopyAllEquation == CopyAll = [s \in Ending |-> AllBody(CopyAll, s)]
<1> DEFINE G == [f \in [Ending -> Ending] |-> [s \in Ending |-> AllBody(f, s)]]
           m == [s \in Ending |-> s.left]
<1>1. ASSUME NEW f \in [Ending -> Ending], NEW s \in Ending
      PROVE  AllBody(f, s) \in Ending
  <2>1. CASE s.left > 0
    <3> DEFINE u == Copy16(EndLines, s)
    <3>1. u \in Ending  BY <2>1, LessToCopy, Zenon
    <3>2. AllBody(f, s) = f[u]  BY <2>1, Zenon DEF AllBody
    <3> HIDE DEF u
    <3> QED  BY <3>1, <3>2
  <2>2. CASE ~(s.left > 0)  BY <2>2, Zenon DEF AllBody
  <2> QED  BY <2>1, <2>2
<1>2. G \in [[Ending -> Ending] -> [Ending -> Ending]]  BY <1>1
<1>3. m \in [Ending -> Nat]
  <2>1. \A s \in Ending : s.left \in Nat  BY Fields
  <2> QED  BY <2>1
<1>4. [Ending -> Ending] # {}
  <2>1. [s \in Ending |-> s] \in [Ending -> Ending]  OBVIOUS
  <2> QED  BY <2>1
<1>5. ASSUME NEW f \in [Ending -> Ending], NEW g \in [Ending -> Ending], NEW s \in Ending,
             \A t \in Ending : m[t] < m[s] => f[t] = g[t]
      PROVE  G[f][s] = G[g][s]
  <2>1. CASE s.left > 0
    <3> DEFINE u == Copy16(EndLines, s)
    <3>1. u \in Ending /\ u.left < s.left  BY <2>1, LessToCopy, Zenon
    <3>2. AllBody(f, s) = f[u] /\ AllBody(g, s) = g[u]  BY <2>1, Zenon DEF AllBody
    <3> HIDE DEF u
    <3>3. f[u] = g[u]  BY <1>5, <3>1
    <3> QED  BY <3>2, <3>3
  <2>2. CASE ~(s.left > 0)
    <3>1. AllBody(f, s) = s /\ AllBody(g, s) = s  BY <2>2, Zenon DEF AllBody
    <3> QED  BY <3>1
  <2> QED  BY <2>1, <2>2
<1>6. PICK f \in [Ending -> Ending] : f = G[f]
  <2> HIDE DEF G, m
  <2>1. \A f, g \in [Ending -> Ending] : \A s \in Ending :
          (\A t \in Ending : m[t] < m[s] => f[t] = g[t]) => G[f][s] = G[g][s]
    BY <1>5, Zenon
  <2>2. WellFounded(Ending, Ending, m, G)
    BY <1>2, <1>3, <1>4, <2>1, Zenon DEF WellFounded
  <2> QED  BY <2>2, RecursiveFunction
<1>7. f = [s \in Ending |-> AllBody(f, s)]  BY <1>6
<1> QED  BY <1>7, Zenon DEF CopyAll, AllBody

\* A guest that runs goes on with the timer as it should be.
Ready(s) == s \in Settled /\ Good(s) /\ ~s.halted

\* A transfer at once keeps it so.
LEMMA CopyAllKeeps ==
  ASSUME NEW s, Ready(s)
  PROVE  Ready(CopyAll[s])
<1> DEFINE B == {t \in Settled : Ready(t) /\ ~Ready(CopyAll[t])}
           measure == [t \in Ending |-> t.left]
<1> SUFFICES ASSUME B # {} PROVE FALSE  BY Zenon DEF Ready
<1>1. \A t \in B : measure[t] \in Nat
  <2>1. \A t \in B : t \in Ending  BY Zenon DEF Settled
  <2>2. \A t \in B : t.left \in Nat  BY <2>1, Fields
  <2> HIDE DEF B
  <2> QED  BY <2>1, <2>2
<1>2. PICK b \in B : \A t \in B : ~(measure[t] < measure[b])
  <2> HIDE DEF B, measure
  <2> QED  BY <1>1, LeastMeasure
<1>3. b \in Settled /\ b \in Ending /\ Ready(b) /\ ~Ready(CopyAll[b])  BY Zenon DEF Settled
<1>4. CopyAll[b] = AllBody(CopyAll, b)
  <2> DEFINE F == [t \in Ending |-> AllBody(CopyAll, t)]
  <2>1. CopyAll = F  BY CopyAllEquation
  <2>2. F[b] = AllBody(CopyAll, b)  BY <1>3
  <2> QED  BY <2>1, <2>2
<1>5. CASE ~(b.left > 0)
  <2>1. CopyAll[b] = b  BY <1>4, <1>5, Zenon DEF AllBody
  <2> QED  BY <1>3, <2>1, Zenon
<1>6. CASE b.left > 0
  <2> DEFINE u == Copy16(EndLines, b)
  <2>1. Part(b, u, 0) /\ u \in Settled /\ u.left < b.left  BY <1>3, <1>6, BlockCopied, Zenon
  <2>2. CopyAll[b] = CopyAll[u]  BY <1>4, <1>6, Zenon DEF AllBody
  <2> HIDE DEF u
  <2>3. Ready(u)  BY <1>3, <2>1, Zenon DEF Ready, Part
  <2>4. u \in Ending /\ measure[u] = u.left /\ measure[b] = b.left  BY <1>3, <2>1 DEF Settled
  <2>5. measure[u] < measure[b]  BY <2>1, <2>4
  <2> HIDE DEF measure
  <2>6. u \notin B  BY <1>2, <2>5, Zenon
  <2>7. Ready(CopyAll[u])  BY <2>1, <2>3, <2>6, Zenon
  <2> QED  BY <1>3, <2>2, <2>7, Zenon
<1> QED  BY <1>5, <1>6

----------------------------------------------------------------------------
(* The invariant                                                            *)

\* Between calls no line is due and the reference is where the timer is; in
\* HALT no tick is due either, and no overflow has been missed.
TimerInv ==
  /\ timer \in Settled /\ halt_cycles \in Settings
  /\ Good(timer)
  /\ timer.halted => Caught(timer) /\ timer.late = -1

\* What Ready asks of a state.
LEMMA ReadyIf ==
  ASSUME NEW e \in Timers, e.running => e.period > 0, e.cyc < LineCycles,
         e.ref = Now(e), ~e.halted
  PROVE  Ready(e)
BY Zenon DEF Ready, Settled, Ending, Good

\* update_cpu keeps it.
LEMMA UpdateCpuKeeps ==
  ASSUME NEW s, Ready(s), NEW c \in Nat
  PROVE  Ready(UpdateCpu(s, c))
<1>1. s \in Settled /\ Good(s) /\ ~s.halted  BY Zenon DEF Ready
<1>2. Part(s, UpdateCpu(s, c), c) /\ UpdateCpu(s, c) \in Settled
  BY <1>1, UpdateCpuPart, Zenon
<1> QED  BY <1>1, <1>2, Zenon DEF Ready, Part

\* A guest that is not in HALT, before its step.
LEMMA FreshReady ==
  ASSUME TimerInv, ~timer.halted
  PROVE  Ready(Fresh) /\ Fresh.late = -1 /\ Fresh.left = timer.left
<1>1. timer \in Timers /\ timer \in Ending /\ timer.cyc < LineCycles
      /\ timer.ref = Now(timer) /\ (timer.running => timer.period > 0)
  BY Zenon DEF TimerInv, Good, Settled, Ending
<1>2. -1 \in {-1} \cup Nat  OBVIOUS
<1> DEFINE n == -1
<1>3. n \in {-1} \cup Nat  BY <1>2
<1> HIDE DEF n
<1>4. Fresh = [timer EXCEPT !.late = n]  BY DEF Fresh, n
<1> DEFINE e == Fresh
<1> HIDE DEF e
<1>5. /\ e \in Timers /\ e.late = n /\ e.left = timer.left /\ e.cyc = timer.cyc
      /\ e.running = timer.running /\ e.period = timer.period
      /\ e.tima = timer.tima /\ e.cum = timer.cum /\ e.div = timer.div
      /\ e.cumdiv = timer.cumdiv /\ e.irq = timer.irq /\ e.halted = timer.halted
      /\ e.ref = timer.ref
  BY <1>1, <1>3, <1>4, Zenon DEF Timers, e
<1>6. e.ref = Now(e)  BY <1>1, <1>5, Zenon DEF Now
<1>7. Ready(e)  BY <1>1, <1>5, <1>6, ReadyIf, Zenon
<1> QED  BY <1>5, <1>7 DEF e, n

\* A guest's step to such a state keeps the invariant.
LEMMA GuestKeeps ==
  ASSUME TimerInv, NEW e, Ready(e), Guest(e)
  PROVE  TimerInv'
<1>1. timer' = e /\ halt_cycles' = halt_cycles /\ halt_cycles \in Settings
  BY Zenon DEF Guest, TimerInv
<1>2. e \in Settled /\ Good(e) /\ ~e.halted  BY Zenon DEF Ready
<1> QED  BY <1>1, <1>2, Zenon DEF TimerInv

\* A step to a state that differs in other fields than those of the beam and
\* of HALT.
LEMMA EditReady ==
  ASSUME NEW s, Ready(s), NEW e \in Timers,
         e.running => e.period > 0, e.cyc = s.cyc, e.halted = s.halted,
         e.tima = s.tima, e.cum = s.cum, e.div = s.div, e.cumdiv = s.cumdiv,
         e.irq = s.irq /\ e.ref = s.ref
  PROVE  Ready(e)
<1>1. ~s.halted /\ s.cyc < LineCycles /\ s.ref = Now(s)
  BY Zenon DEF Ready, Settled, Good
<1>2. e.ref = Now(e)  BY <1>1, Zenon DEF Now
<1> QED  BY <1>1, <1>2, ReadyIf, Zenon

\* The fields of a state that a guest goes on with.
LEMMA ReadyFields ==
  ASSUME NEW s, Ready(s)
  PROVE  /\ s \in Timers /\ s \in Ending /\ s \in Settled
         /\ s.running \in BOOLEAN /\ (s.running => s.period > 0)
         /\ s.left \in 0 .. 128 /\ s.on \in BOOLEAN /\ s.ref \in Refs
  BY Zenon DEF Ready, Settled, Ending, Timers

\* The timer is right at first.
LEMMA TimerInit == Init => TimerInv
<1> SUFFICES ASSUME Init PROVE TimerInv  OBVIOUS
<1> DEFINE none == -1
           r == [tima |-> 0, cum |-> 0, div |-> 0, cumdiv |-> 0, irq |-> FALSE]
<1>1. /\ 0 \in Nat /\ 0 \in 0 .. TimaRange - 1 /\ 0 \in 0 .. DivRange - 1
      /\ 0 \in 0 .. DivCycles - 1 /\ 0 \in 0 .. 128 /\ none \in {-1} \cup Nat
      /\ 0 < LineCycles
  BY Positive
<1>2. r \in Refs  BY <1>1, Zenon DEF Refs
<1>3. 0 \in {0} \cup {Period[m] : m \in Modes}  OBVIOUS
<1>4. timer = [running |-> FALSE, period |-> 0, tima |-> 0, tma |-> 0, cum |-> 0,
               div |-> 0, cumdiv |-> 0, irq |-> FALSE, ime |-> FALSE,
               on |-> TRUE, cyc |-> 0, left |-> 0, halted |-> FALSE, late |-> none, ref |-> r]
      /\ halt_cycles \in Settings
  BY DEF Init
<1> HIDE DEF none
<1>5. timer \in Timers
  <2> HIDE DEF r
  <2> QED  BY <1>1, <1>2, <1>3, <1>4, Zenon DEF Timers
<1>6. ~timer.running /\ timer.cyc = 0 /\ ~timer.halted /\ timer.ref = Now(timer)
  BY <1>4, Zenon DEF Now
<1>7. Ready(timer)  BY <1>1, <1>5, <1>6, ReadyIf
<1> QED  BY <1>4, <1>7, Zenon DEF TimerInv, Ready

\* The cycles of a step of HALT.
LEMMA HaltCycles ==
  ASSUME TimerInv
  PROVE  /\ HaltStepCycles \in Nat
         /\ HaltStepCycles <= IF halt_cycles = -1 THEN LineCycles - timer.cyc ELSE halt_cycles
<1>1. /\ timer.cyc < LineCycles /\ timer \in Ending /\ halt_cycles \in Settings
  BY Zenon DEF TimerInv, Settled
<1>2. timer.cyc \in Nat /\ LineCycles \in Nat  BY <1>1, Fields, Positive
<1>3. halt_cycles # -1 => halt_cycles \in Nat  BY <1>1, HaltAssumption
<1> QED  BY <1>1, <1>2, <1>3 DEF HaltStepCycles

\* A step of HALT: it goes on without having missed an overflow.
LEMMA HaltStepKeeps ==
  ASSUME TimerInv, HaltStep
  PROVE  TimerInv'
<1> DEFINE c == HaltStepCycles
           e == UpdateCpu(timer, c)
<1>1. timer \in Settled /\ Good(timer) /\ halt_cycles \in Settings  BY Zenon DEF TimerInv
<1>2. c \in Nat  BY HaltCycles
<1>3. timer' = e /\ halt_cycles' = halt_cycles  BY Zenon DEF HaltStep
<1> HIDE DEF c
<1>4. /\ Part(timer, e, c) /\ Caught(e) /\ e \in Settled
      /\ Good(timer) /\ e.halted => e.late = -1
  BY <1>1, <1>2, UpdateCpuPart
<1> HIDE DEF e
<1>5. Good(e)  BY <1>1, <1>4, Zenon DEF Part
<1> QED  BY <1>1, <1>3, <1>4, <1>5 DEF TimerInv

\* The guest halts: what the cycles before HALT and its own have raised is
\* accepted, and then it does not wait.
LEMMA HaltKeeps ==
  ASSUME TimerInv, NEW c \in Nat, Halt(c)
  PROVE  TimerInv'
<1> DEFINE s == [Fresh EXCEPT !.halted = TRUE]
           e == UpdateCpu(s, c)
<1>1. timer' = e /\ halt_cycles' = halt_cycles /\ ~timer.halted
  BY Zenon DEF Halt, Guest
<1>2. Ready(Fresh) /\ Fresh.late = -1 /\ halt_cycles \in Settings
  BY <1>1, FreshReady, Zenon DEF TimerInv
<1> DEFINE f == Fresh
<1>3. /\ f \in Timers /\ (f.running => f.period > 0) /\ f.cyc < LineCycles /\ f.ref = Now(f)
      /\ f.late = -1 /\ s = [f EXCEPT !.halted = TRUE] /\ TRUE \in BOOLEAN
  BY <1>2, Zenon DEF Ready, Settled, Ending, Good
<1> HIDE DEF f, s
<1>4. /\ s \in Timers /\ s.running = f.running /\ s.period = f.period /\ s.cyc = f.cyc
      /\ s.tima = f.tima /\ s.cum = f.cum /\ s.div = f.div /\ s.cumdiv = f.cumdiv
      /\ s.irq = f.irq /\ s.ref = f.ref /\ s.late = f.late
  BY <1>3, Zenon DEF Timers
<1>5. s \in Settled  BY <1>3, <1>4, Zenon DEF Settled, Ending
<1>6. ~(s.late >= 0)  BY <1>3, <1>4
<1>7. s.ref = Now(s)  BY <1>3, <1>4, Zenon DEF Now
<1>8. Good(s)  BY <1>5, <1>6, <1>7, Zenon DEF Good, Settled
<1>9. /\ Part(s, e, c) /\ Caught(e) /\ e \in Settled
      /\ Good(s) /\ e.halted => e.late = -1
  BY <1>5, UpdateCpuPart
<1> HIDE DEF e
<1>10. Good(e)  BY <1>8, <1>9, Zenon DEF Part
<1> QED  BY <1>1, <1>2, <1>8, <1>9, <1>10 DEF TimerInv

\* A write to TAC sets a period that is not 0.
LEMMA WriteTACKeeps ==
  ASSUME TimerInv, NEW enable \in BOOLEAN, NEW m \in Modes, WriteTAC(enable, m)
  PROVE  TimerInv'
<1> DEFINE s == Fresh
           e == [s EXCEPT !.running = enable, !.period = Period[m]]
<1>1. Guest(e)  BY Zenon DEF WriteTAC
<1>2. Ready(s)  BY <1>1, FreshReady, Zenon DEF Guest
<1>3. Period[m] \in {0} \cup {Period[k] : k \in Modes} /\ Period[m] > 0  BY Positive
<1> HIDE DEF s
<1>4. s \in Timers  BY <1>2, ReadyFields
<1>5. /\ e \in Timers /\ e.period = Period[m] /\ e.cyc = s.cyc /\ e.halted = s.halted
      /\ e.tima = s.tima /\ e.cum = s.cum /\ e.div = s.div /\ e.cumdiv = s.cumdiv
      /\ e.irq = s.irq /\ e.ref = s.ref
  BY <1>3, <1>4, Zenon DEF Timers
<1> HIDE DEF e
<1>6. Ready(e)  BY <1>2, <1>3, <1>5, EditReady
<1> QED  BY <1>1, <1>6, GuestKeeps, Zenon

\* A write to TMA, to IE by another way than update_cpu, or to LCDC, changes
\* one field that the reference has no part in.
LEMMA FieldKeeps ==
  ASSUME TimerInv,
         \/ \E v \in Timas : WriteTMA(v)
         \/ \E b \in BOOLEAN : SetIme(b)
         \/ SwitchLCD
  PROVE  TimerInv'
<1> DEFINE s == Fresh
<1>1. ~timer.halted  BY Zenon DEF WriteTMA, SetIme, SwitchLCD, Guest
<1>2. Ready(s)  BY <1>1, FreshReady, Zenon
<1> HIDE DEF s
<1>3. s \in Timers /\ (s.running => s.period > 0) /\ (~s.on) \in BOOLEAN
  BY <1>2, ReadyFields, Zenon
<1>4. ASSUME NEW v \in Timas, WriteTMA(v) PROVE TimerInv'
  <2> DEFINE e == [s EXCEPT !.tma = v]
  <2>1. Guest(e)  BY <1>4, Zenon DEF WriteTMA, s
  <2>2. /\ e \in Timers /\ e.running = s.running /\ e.period = s.period
        /\ e.cyc = s.cyc /\ e.halted = s.halted
        /\ e.tima = s.tima /\ e.cum = s.cum /\ e.div = s.div /\ e.cumdiv = s.cumdiv
        /\ e.irq = s.irq /\ e.ref = s.ref
    BY <1>3, <1>4, Zenon DEF Timers, Timas
  <2> HIDE DEF e
  <2>3. Ready(e)  BY <1>2, <1>3, <2>2, EditReady
  <2> QED  BY <2>1, <2>3, GuestKeeps, Zenon
<1>5. ASSUME NEW b \in BOOLEAN, SetIme(b) PROVE TimerInv'
  <2> DEFINE e == [s EXCEPT !.ime = b]
  <2>1. Guest(e)  BY <1>5, Zenon DEF SetIme, s
  <2>2. /\ e \in Timers /\ e.running = s.running /\ e.period = s.period
        /\ e.cyc = s.cyc /\ e.halted = s.halted
        /\ e.tima = s.tima /\ e.cum = s.cum /\ e.div = s.div /\ e.cumdiv = s.cumdiv
        /\ e.irq = s.irq /\ e.ref = s.ref
    BY <1>3, <1>5, Zenon DEF Timers
  <2> HIDE DEF e
  <2>3. Ready(e)  BY <1>2, <1>3, <2>2, EditReady
  <2> QED  BY <2>1, <2>3, GuestKeeps, Zenon
<1>6. ASSUME SwitchLCD PROVE TimerInv'
  <2> DEFINE n == ~s.on
             e == [s EXCEPT !.on = n]
  <2> HIDE DEF n
  <2>1. Guest(e)  BY <1>6, Zenon DEF SwitchLCD, s, n
  <2>2. /\ e \in Timers /\ e.running = s.running /\ e.period = s.period
        /\ e.cyc = s.cyc /\ e.halted = s.halted
        /\ e.tima = s.tima /\ e.cum = s.cum /\ e.div = s.div /\ e.cumdiv = s.cumdiv
        /\ e.irq = s.irq /\ e.ref = s.ref
    BY <1>3, Zenon DEF Timers, n
  <2> HIDE DEF e
  <2>3. Ready(e)  BY <1>2, <1>3, <2>2, EditReady
  <2> QED  BY <2>1, <2>3, GuestKeeps, Zenon
<1> QED  BY <1>4, <1>5, <1>6

\* A write to IE, after which update_cpu looks for an interrupt to accept.
LEMMA WriteIEKeeps ==
  ASSUME TimerInv, NEW b \in BOOLEAN, WriteIE(b)
  PROVE  TimerInv'
<1> DEFINE s == Fresh
           e == [s EXCEPT !.ime = b]
<1>1. Guest(UpdateCpu(e, 0))  BY Zenon DEF WriteIE
<1>2. Ready(s)  BY <1>1, FreshReady, Zenon DEF Guest
<1> HIDE DEF s
<1>3. s \in Timers /\ (s.running => s.period > 0)  BY <1>2, ReadyFields
<1>4. /\ e \in Timers /\ e.running = s.running /\ e.period = s.period
      /\ e.cyc = s.cyc /\ e.halted = s.halted
      /\ e.tima = s.tima /\ e.cum = s.cum /\ e.div = s.div /\ e.cumdiv = s.cumdiv
      /\ e.irq = s.irq /\ e.ref = s.ref
  BY <1>3, Zenon DEF Timers
<1> HIDE DEF e
<1>5. Ready(e)  BY <1>2, <1>3, <1>4, EditReady
<1>6. Ready(UpdateCpu(e, 0))  BY <1>5, UpdateCpuKeeps
<1> QED  BY <1>1, <1>6, GuestKeeps, Zenon

\* A write to IF sets the request of the reference too.
LEMMA WriteIFKeeps ==
  ASSUME TimerInv, NEW b \in BOOLEAN, WriteIF(b)
  PROVE  TimerInv'
<1> DEFINE s == Fresh
           r == [s.ref EXCEPT !.irq = b]
           e == [s EXCEPT !.irq = b, !.ref = r]
<1>1. Guest(UpdateCpu(e, 0))  BY Zenon DEF WriteIF
<1>2. Ready(s)  BY <1>1, FreshReady, Zenon DEF Guest
<1> HIDE DEF s
<1>3. s \in Timers /\ (s.running => s.period > 0) /\ s.ref \in Refs /\ s.ref = Now(s)
      /\ s.cyc < LineCycles /\ ~s.halted
  BY <1>2, ReadyFields, Zenon DEF Ready, Good, Settled
<1>4. r \in Refs  BY <1>3, Zenon DEF Refs
<1>5. r = [tima |-> s.tima, cum |-> s.cum, div |-> s.div, cumdiv |-> s.cumdiv, irq |-> b]
  BY <1>3, Reset, Zenon
<1> HIDE DEF r
<1>6. /\ e \in Timers /\ e.running = s.running /\ e.period = s.period
      /\ e.cyc = s.cyc /\ e.halted = s.halted
      /\ e.tima = s.tima /\ e.cum = s.cum /\ e.div = s.div /\ e.cumdiv = s.cumdiv
      /\ e.irq = b /\ e.ref = r
  BY <1>3, <1>4, Zenon DEF Timers
<1> HIDE DEF e
<1>7. e.ref = Now(e)  BY <1>5, <1>6, Zenon DEF Now
<1>8. Ready(e)  BY <1>3, <1>6, <1>7, ReadyIf, Zenon
<1>9. Ready(UpdateCpu(e, 0))  BY <1>8, UpdateCpuKeeps
<1> QED  BY <1>1, <1>9, GuestKeeps, Zenon

\* The counter of a transfer is set; it is a transfer at once if the guest
\* says so.
LEMMA DmaKeeps ==
  ASSUME TimerInv, NEW n \in 0 .. 128,
         LET e == [Fresh EXCEPT !.left = n] IN Guest(e) \/ Guest(CopyAll[e])
  PROVE  TimerInv'
<1> DEFINE s == Fresh
           e == [s EXCEPT !.left = n]
<1>1. Guest(e) \/ Guest(CopyAll[e])  OBVIOUS
<1>2. Ready(s)  BY <1>1, FreshReady, Zenon DEF Guest
<1> HIDE DEF s
<1>3. s \in Timers /\ (s.running => s.period > 0)  BY <1>2, ReadyFields
<1>4. /\ e \in Timers /\ e.running = s.running /\ e.period = s.period
      /\ e.cyc = s.cyc /\ e.halted = s.halted
      /\ e.tima = s.tima /\ e.cum = s.cum /\ e.div = s.div /\ e.cumdiv = s.cumdiv
      /\ e.irq = s.irq /\ e.ref = s.ref
  BY <1>3, Zenon DEF Timers
<1> HIDE DEF e
<1>5. Ready(e)  BY <1>2, <1>3, <1>4, EditReady
<1>6. Ready(CopyAll[e])  BY <1>5, CopyAllKeeps
<1> QED  BY <1>1, <1>5, <1>6, GuestKeeps, Zenon

\* Every step keeps the invariant.
LEMMA TimerNext == TimerInv /\ [Next]_vars => TimerInv'
<1> SUFFICES ASSUME TimerInv, [Next]_vars PROVE TimerInv'  OBVIOUS
<1>1. ASSUME NEW c \in Batches, Run(c) PROVE TimerInv'
  <2>1. c \in Nat /\ Guest(UpdateCpu(Fresh, c))  BY <1>1, BatchAssumption DEF Run
  <2>2. Ready(Fresh)  BY <2>1, FreshReady, Zenon DEF Guest
  <2>3. Ready(UpdateCpu(Fresh, c))  BY <2>1, <2>2, UpdateCpuKeeps
  <2> QED  BY <2>1, <2>3, GuestKeeps, Zenon
<1>2. ASSUME NEW c \in Batches, Halt(c) PROVE TimerInv'
  BY <1>2, BatchAssumption, HaltKeeps
<1>3. ASSUME NEW enable \in BOOLEAN, NEW m \in Modes, WriteTAC(enable, m) PROVE TimerInv'
  BY <1>3, WriteTACKeeps
<1>4. ASSUME NEW v \in 0 .. TimaRange - 1, WriteTMA(v) PROVE TimerInv'
  BY <1>4, FieldKeeps, Zenon DEF Timas
<1>5. ASSUME NEW b \in BOOLEAN, SetIme(b) PROVE TimerInv'  BY <1>5, FieldKeeps, Zenon
<1>6. ASSUME NEW b \in BOOLEAN, WriteIE(b) PROVE TimerInv'  BY <1>6, WriteIEKeeps
<1>7. ASSUME NEW b \in BOOLEAN, WriteIF(b) PROVE TimerInv'  BY <1>7, WriteIFKeeps
<1>8. ASSUME SwitchLCD PROVE TimerInv'  BY <1>8, FieldKeeps, Zenon
<1>9. ASSUME NEW n \in Lengths, NEW atHBlank \in BOOLEAN, StartDma(n, atHBlank)
      PROVE  TimerInv'
  <2>1. n + 1 \in 0 .. 128  BY DmaAssumption
  <2>2. LET e == [Fresh EXCEPT !.left = n + 1] IN Guest(e) \/ Guest(CopyAll[e])
    BY <1>9, Zenon DEF StartDma
  <2> QED  BY <2>1, <2>2, DmaKeeps, Zenon
<1>10. ASSUME NEW n \in Lengths, ResizeDma(n) PROVE TimerInv'
  <2>1. n + 1 \in 0 .. 128  BY DmaAssumption
  <2>2. Guest([Fresh EXCEPT !.left = n + 1])  BY <1>10, Zenon DEF ResizeDma
  <2> QED  BY <2>1, <2>2, DmaKeeps, Zenon
<1>11. ASSUME StopDma PROVE TimerInv'
  <2>1. 0 \in 0 .. 128  OBVIOUS
  <2>2. Guest([Fresh EXCEPT !.left = 0])  BY <1>11, Zenon DEF StopDma
  <2> QED  BY <2>1, <2>2, DmaKeeps, Zenon
<1>12. ASSUME HaltStep PROVE TimerInv'  BY <1>12, HaltStepKeeps
<1>13. ASSUME UNCHANGED vars PROVE TimerInv'
  BY <1>13, Zenon DEF vars, TimerInv, Good, Now, Caught
<1> QED
  BY <1>1, <1>2, <1>3, <1>4, <1>5, <1>6, <1>7, <1>8, <1>9, <1>10, <1>11, <1>12, <1>13,
     Zenon DEF Next

----------------------------------------------------------------------------
(* Theorems                                                                 *)

\* The invariant of the timer: between calls no line is due, the timer is
\* where the reference is, and a HALT that goes on has missed nothing
\* (inc_timer, update_cpu, hdma_copy_16b).
THEOREM TimerInvHolds == Spec => []TimerInv
BY TimerInit, TimerNext, PTL DEF Spec

\* The registers and counters of the timer and the divider stay in their
\* ranges (inc_timer).
THEOREM TypeCorrect == Spec => []TypeOK
<1>1. TimerInv => TypeOK  BY Zenon DEF TimerInv, TypeOK, Settled, Ending
<1> QED  BY <1>1, TimerInvHolds, PTL

\* The while loop of inc_timer never subtracts 0 (update_timer).
THEOREM LoopAlwaysEnds == Spec => []LoopEnds
<1>1. TimerInv => LoopEnds  BY Zenon DEF TimerInv, LoopEnds, Settled, Ending
<1> QED  BY <1>1, TimerInvHolds, PTL

\* Handing time over in batches, with calls nested in calls, does to TIMA, DIV
\* and the request what single cycles do (inc_timer, hdma_copy_16b).
THEOREM BatchesAreExact == Spec => []BatchesExact
<1>1. TimerInv => BatchesExact
  <2>1. TimerInv => timer.ref = Now(timer)  BY Zenon DEF TimerInv, Good
  <2>2. /\ Now(timer).tima = timer.tima /\ Now(timer).cum = timer.cum
        /\ Now(timer).div = timer.div /\ Now(timer).cumdiv = timer.cumdiv
        /\ Now(timer).irq = timer.irq
    BY Zenon DEF Now
  <2> QED  BY <2>1, <2>2, Zenon DEF BatchesExact
<1> QED  BY <1>1, TimerInvHolds, PTL

\* An overflow ends HALT within the cycles of the step in which it falls: its
\* own, and those of the blocks of DMA copied in it (the loop of HALT,
\* skip_until_hblank).
THEOREM HaltWakesInTime == Spec => WakesInTime
<1> DEFINE step == IF halt_cycles = -1 THEN LineCycles - timer.cyc ELSE halt_cycles
           bound == (step - 1) + BlockCycles * (timer.left - timer'.left)
           InTime == timer.halted /\ ~timer'.halted => timer'.late <= bound
<1>1. TimerInv /\ [Next]_vars => InTime
  <2> SUFFICES ASSUME TimerInv, [Next]_vars, timer.halted, ~timer'.halted
               PROVE  timer'.late <= bound
    BY Zenon
  <2>1. HaltStep
    <3>1. ~UNCHANGED vars  BY Zenon DEF vars
    <3>2. ASSUME NEW e PROVE ~Guest(e)  BY Zenon DEF Guest
    <3> QED
      BY <3>1, <3>2, Zenon DEF Next, Run, Halt, WriteTAC, WriteTMA, SetIme, WriteIE, WriteIF,
         SwitchLCD, StartDma, ResizeDma, StopDma
  <2> DEFINE c == HaltStepCycles
             e == UpdateCpu(timer, c)
  <2>2. c \in Nat /\ c <= step  BY HaltCycles
  <2>3. /\ timer' = e /\ timer \in Settled /\ timer \in Ending
        /\ Good(timer) /\ Caught(timer) /\ timer.late = -1
    BY <2>1, Zenon DEF HaltStep, TimerInv, Settled
  <2> HIDE DEF c
  <2>4. Part(timer, e, c)  BY <2>2, <2>3, UpdateCpuPart, Zenon
  <2> HIDE DEF e
  <2>5. /\ e \in Ending
        /\ e.late + BlockCycles * e.left <= timer.late + BlockCycles * timer.left + c
    BY <2>3, <2>4, Zenon DEF Part
  <2>6. /\ BlockCycles \in Nat /\ e.left \in 0 .. 128 /\ timer.left \in 0 .. 128
        /\ e.late \in Int /\ step \in Int
    <3>1. halt_cycles \in Int /\ timer.cyc \in Nat /\ LineCycles \in Nat
      BY <2>3, Fields, Positive, HaltAssumption DEF TimerInv
    <3> QED  BY <2>3, <2>5, <3>1, Fields, Positive
  <2> HIDE DEF step
  <2>7. \A a \in Nat, x, y \in 0 .. 128 :
          a * x \in Int /\ a * y \in Int /\ a * (x - y) = a * x - a * y
    OBVIOUS
  <2> DEFINE x == BlockCycles * timer.left
             y == BlockCycles * e.left
  <2>8. x \in Int /\ y \in Int /\ BlockCycles * (timer.left - e.left) = x - y
    BY <2>6, <2>7
  <2>9. e.late + y <= -1 + x + c  BY <2>3, <2>5
  <2> HIDE DEF x, y
  <2>10. e.late <= (step - 1) + (x - y)  BY <2>2, <2>6, <2>8, <2>9
  <2> QED  BY <2>3, <2>8, <2>10
<1>2. TimerInv /\ [Next]_vars => [InTime]_vars  BY <1>1
<1> QED  BY <1>2, TimerInvHolds, PTL DEF Spec, WakesInTime
=============================================================================
