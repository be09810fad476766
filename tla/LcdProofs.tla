----------------------------- MODULE LcdProofs -----------------------------
(***************************************************************************)
(* Proofs about module Lcd, for every size of line, screen and batch.      *)
(*                                                                         *)
(* The line loop and the transfers call inc_timer from within inc_timer.   *)
(* What any such call does is described by Elapsed: so many lines, blocks  *)
(* and cycles passed, the counters wrapped and the requests raised for     *)
(* what was passed.  Elapsed adds up along the statements of a call, and   *)
(* an induction on the cycles due gives it for the calls as wholes.        *)
(***************************************************************************)
EXTENDS Lcd, Numbers

\* The numbers of cycles of a line and of a screen.
LEMMA Sizes ==
  /\ LineCycles \in Nat \ {0} /\ LineCount \in Nat \ {0} /\ Frame \in Nat \ {0}
  /\ Visible \in Nat \ {0} /\ Visible < LineCount
  /\ BlockCycles \in Nat /\ BlockCycles < LineCycles
<1>1. \A a, b \in Nat \ {0} : a * b \in Nat \ {0}  OBVIOUS
<1>2. LineCycles \in Nat \ {0} /\ LineCount \in Nat \ {0}
  BY LineAssumption, ScreenAssumption
<1>3. Frame \in Nat \ {0}  BY <1>1, <1>2 DEF Frame
<1> QED  BY <1>2, <1>3, LineAssumption, ScreenAssumption

\* The fields that are numbers.
LEMMA Fields ==
  ASSUME NEW s \in Screens
  PROVE  /\ s.cyc \in Nat /\ s.ly \in 0 .. LineCount - 1 /\ s.mode \in 0 .. 3
         /\ s.left \in Int /\ s.want \in Int
         /\ s.time \in 0 .. Frame - 1 /\ s.last \in 0 .. Visible - 1
BY DEF Screens

----------------------------------------------------------------------------
(* What passes                                                              *)

\* Of the numbers at, at + period, at + 2 period, ... one is passed on the
\* way from a to b.
Reached(a, b, period, at) ==
  \E f \in Int : a < f * period + at /\ f * period + at <= b

\* Nothing is passed on the spot.
LEMMA ReachedNone ==
  ASSUME NEW a \in Int, NEW period \in Int, NEW at \in Int
  PROVE  ~Reached(a, a, period, at)
BY DEF Reached

\* A way in two parts.
LEMMA ReachedSum ==
  ASSUME NEW a \in Int, NEW b \in Int, NEW c \in Int, a <= b, b <= c,
         NEW period \in Int, NEW at \in Int
  PROVE  Reached(a, c, period, at) <=> Reached(a, b, period, at) \/ Reached(b, c, period, at)
<1> DEFINE edge(f) == f * period + at
<1>1. \A f \in Int : edge(f) \in Int  OBVIOUS
<1> HIDE DEF edge
<1>2. \A f \in Int : (a < edge(f) /\ edge(f) <= c) <=>
                    (a < edge(f) /\ edge(f) <= b) \/ (b < edge(f) /\ edge(f) <= c)
  BY <1>1
<1> QED  BY <1>2, Zenon DEF Reached, edge

\* Whole periods do not matter.
LEMMA ReachedShift ==
  ASSUME NEW a \in Int, NEW b \in Int, NEW period \in Int, NEW at \in Int, NEW q \in Int
  PROVE  Reached(a - q * period, b - q * period, period, at) <=> Reached(a, b, period, at)
<1>1. ASSUME NEW x \in Int, NEW y \in Int, NEW k \in Int, Reached(x, y, period, at)
      PROVE  Reached(x + k * period, y + k * period, period, at)
  <2>1. PICK f \in Int : x < f * period + at /\ f * period + at <= y
    BY <1>1 DEF Reached
  <2>2. f + k \in Int /\ (f + k) * period = f * period + k * period  OBVIOUS
  <2>3. \A n, m \in Int : x < n + at /\ n + at <= y =>
                         x + m < n + m + at /\ n + m + at <= y + m
    OBVIOUS
  <2>4. f * period \in Int /\ k * period \in Int  OBVIOUS
  <2>5. /\ x + k * period < (f + k) * period + at
        /\ (f + k) * period + at <= y + k * period
    BY <2>1, <2>2, <2>3, <2>4
  <2> QED  BY <2>2, <2>5 DEF Reached
<1>2. /\ a - q * period \in Int /\ a - q * period = a + (-q) * period
      /\ b - q * period \in Int /\ b - q * period = b + (-q) * period
      /\ a = (a - q * period) + q * period
      /\ b = (b - q * period) + q * period
  OBVIOUS
<1>3. Reached(a, b, period, at) => Reached(a - q * period, b - q * period, period, at)
  <2>1. -q \in Int  OBVIOUS
  <2> QED  BY <1>1, <1>2, <2>1
<1>4. Reached(a - q * period, b - q * period, period, at) => Reached(a, b, period, at)
  BY <1>1, <1>2
<1> QED  BY <1>3, <1>4

\* The next line is the first of the VBlank, or not.
LEMMA ReachedNext ==
  ASSUME NEW y \in 0 .. LineCount - 1
  PROVE  Reached(y, y + 1, LineCount, Visible) <=> y + 1 = Visible
<1>1. ASSUME NEW f \in Int, y < f * LineCount + Visible, f * LineCount + Visible <= y + 1
      PROVE  f = 0
  <2>1. f * LineCount + Visible = y + 1  BY <1>1, Sizes
  <2>2. f < 1
    <3>1. ~(1 * LineCount <= f * LineCount)  BY <2>1, Sizes
    <3> QED  BY <3>1, Sizes, Multiples
  <2>3. f > -1
    <3>1. ~(f * LineCount <= (-1) * LineCount)  BY <2>1, Sizes
    <3> QED  BY <3>1, Sizes, Multiples
  <2> QED  BY <2>2, <2>3
<1>2. 0 * LineCount = 0  BY Sizes
<1> QED  BY <1>1, <1>2, Sizes DEF Reached

----------------------------------------------------------------------------
(* What a part of a call does                                               *)

\* From s to e, cut lines were taken from lcd_cycles and LY advanced by
\* lines; blocks were copied, and cycles passed.
Elapsed(s, e, cut, lines, blocks, cycles) ==
  /\ e.on = s.on /\ e.sel = s.sel
  /\ e.cyc = s.cyc + cycles - cut * LineCycles
  /\ e.left = s.left - blocks
  /\ e.hdma => s.hdma
  /\ s.stat => e.stat
  /\ \E q \in Int : e.ly = s.ly + lines - q * LineCount
  /\ e.vblank <=> s.vblank \/ Reached(s.ly, s.ly + lines, LineCount, Visible)
  /\ \E q \in Int : e.time = s.time + cycles - q * Frame
  /\ e.due <=> s.due \/ Reached(s.time, s.time + cycles, Frame, Visible * LineCycles)

\* What holds in every state of a call, but for the position of the beam.
Sound(s) ==
  /\ s.want = IF s.hdma THEN s.left + 1 ELSE 0
  /\ s.left \in -1 .. 127
  /\ s.hdma => s.left >= 0
  /\ s.ly >= Visible => s.mode = 1
  /\ s.coin => s.ly = 0

\* A part of a call that reaches e.
Part(s, e, cut, lines, blocks, cycles) ==
  /\ e \in Screens
  /\ Elapsed(s, e, cut, lines, blocks, cycles)
  /\ Sound(s) => Sound(e)

\* The parts of a call add up.
LEMMA ElapsedSum ==
  ASSUME NEW s \in Screens, NEW r \in Screens, NEW e \in Screens,
         NEW k1 \in Nat, NEW n1 \in Nat, NEW m1 \in Nat, NEW c1 \in Nat,
         NEW k2 \in Nat, NEW n2 \in Nat, NEW m2 \in Nat, NEW c2 \in Nat,
         Elapsed(s, r, k1, n1, m1, c1), Elapsed(r, e, k2, n2, m2, c2)
  PROVE  Elapsed(s, e, k1 + k2, n1 + n2, m1 + m2, c1 + c2)
<1>1. \A q1, q2, p \in Int : /\ (q1 + q2) * p = q1 * p + q2 * p
                             /\ q1 + q2 \in Int /\ q1 * p \in Int /\ q2 * p \in Int
  OBVIOUS
<1>2. e.on = s.on /\ e.sel = s.sel /\ (e.hdma => s.hdma) /\ (s.stat => e.stat)
  BY Zenon DEF Elapsed
<1>3. e.cyc = s.cyc + (c1 + c2) - (k1 + k2) * LineCycles
  <2>1. r.cyc = s.cyc + c1 - k1 * LineCycles /\ e.cyc = r.cyc + c2 - k2 * LineCycles
    BY DEF Elapsed
  <2>2. /\ (k1 + k2) * LineCycles = k1 * LineCycles + k2 * LineCycles
        /\ k1 * LineCycles \in Int /\ k2 * LineCycles \in Int
    BY <1>1, Sizes
  <2> QED  BY <2>1, <2>2, Fields
<1>4. e.left = s.left - (m1 + m2)  BY Fields DEF Elapsed
<1>5. /\ \E q \in Int : e.ly = s.ly + (n1 + n2) - q * LineCount
      /\ e.vblank <=> s.vblank \/ Reached(s.ly, s.ly + (n1 + n2), LineCount, Visible)
  <2>1. PICK q1 \in Int : r.ly = s.ly + n1 - q1 * LineCount  BY DEF Elapsed
  <2>2. PICK q2 \in Int : e.ly = r.ly + n2 - q2 * LineCount  BY DEF Elapsed
  <2>3. /\ (q1 + q2) * LineCount = q1 * LineCount + q2 * LineCount /\ q1 + q2 \in Int
        /\ q1 * LineCount \in Int /\ q2 * LineCount \in Int
    BY <1>1, Sizes
  <2>4. e.ly = s.ly + (n1 + n2) - (q1 + q2) * LineCount
    BY <2>1, <2>2, <2>3, Fields
  <2>5. /\ s.ly \in Int /\ s.ly + n1 \in Int /\ s.ly + (n1 + n2) \in Int
        /\ s.ly <= s.ly + n1 /\ s.ly + n1 <= s.ly + (n1 + n2)
        /\ r.ly + n2 = (s.ly + (n1 + n2)) - q1 * LineCount
    BY <2>1, <2>3, Fields
  <2>6. LineCount \in Int /\ Visible \in Int  BY Sizes
  <2>7. Reached(r.ly, r.ly + n2, LineCount, Visible)
          <=> Reached(s.ly + n1, s.ly + (n1 + n2), LineCount, Visible)
    <3> DEFINE a == s.ly + n1
               b == s.ly + (n1 + n2)
    <3>1. a \in Int /\ b \in Int /\ r.ly = a - q1 * LineCount /\ r.ly + n2 = b - q1 * LineCount
      BY <2>1, <2>3, <2>5
    <3> HIDE DEF a, b
    <3>2. Reached(a - q1 * LineCount, b - q1 * LineCount, LineCount, Visible) <=> Reached(a, b, LineCount, Visible)
      BY <3>1, <2>6, ReachedShift, Zenon
    <3>3. Reached(r.ly, r.ly + n2, LineCount, Visible) <=> Reached(a, b, LineCount, Visible)
      BY <3>1, <3>2
    <3> QED  BY <3>3 DEF a, b
  <2>8. Reached(s.ly, s.ly + (n1 + n2), LineCount, Visible)
          <=> \/ Reached(s.ly, s.ly + n1, LineCount, Visible)
              \/ Reached(s.ly + n1, s.ly + (n1 + n2), LineCount, Visible)
    BY <2>5, <2>6, ReachedSum, Zenon
  <2>9. e.vblank <=> s.vblank \/ Reached(s.ly, s.ly + (n1 + n2), LineCount, Visible)
    BY <2>7, <2>8, Zenon DEF Elapsed
  <2> QED  BY <2>3, <2>4, <2>9
<1>6. /\ \E q \in Int : e.time = s.time + (c1 + c2) - q * Frame
      /\ e.due <=> s.due \/ Reached(s.time, s.time + (c1 + c2), Frame, Visible * LineCycles)
  <2>1. PICK q1 \in Int : r.time = s.time + c1 - q1 * Frame  BY DEF Elapsed
  <2>2. PICK q2 \in Int : e.time = r.time + c2 - q2 * Frame  BY DEF Elapsed
  <2>3. /\ (q1 + q2) * Frame = q1 * Frame + q2 * Frame /\ q1 + q2 \in Int
        /\ q1 * Frame \in Int /\ q2 * Frame \in Int
    BY <1>1, Sizes
  <2>4. e.time = s.time + (c1 + c2) - (q1 + q2) * Frame
    BY <2>1, <2>2, <2>3, Fields, Sizes
  <2>5. /\ s.time \in Int /\ s.time + c1 \in Int /\ s.time + (c1 + c2) \in Int
        /\ s.time <= s.time + c1 /\ s.time + c1 <= s.time + (c1 + c2)
        /\ r.time + c2 = (s.time + (c1 + c2)) - q1 * Frame
    BY <2>1, <2>3, Fields, Sizes
  <2>6. Frame \in Int /\ Visible * LineCycles \in Int  BY Sizes
  <2>7. Reached(r.time, r.time + c2, Frame, Visible * LineCycles)
          <=> Reached(s.time + c1, s.time + (c1 + c2), Frame, Visible * LineCycles)
    <3> DEFINE a == s.time + c1
               b == s.time + (c1 + c2)
    <3>1. a \in Int /\ b \in Int /\ r.time = a - q1 * Frame /\ r.time + c2 = b - q1 * Frame
      BY <2>1, <2>3, <2>5
    <3> HIDE DEF a, b
    <3>2. Reached(a - q1 * Frame, b - q1 * Frame, Frame, Visible * LineCycles) <=> Reached(a, b, Frame, Visible * LineCycles)
      BY <3>1, <2>6, ReachedShift, Zenon
    <3>3. Reached(r.time, r.time + c2, Frame, Visible * LineCycles) <=> Reached(a, b, Frame, Visible * LineCycles)
      BY <3>1, <3>2
    <3> QED  BY <3>3 DEF a, b
  <2>8. Reached(s.time, s.time + (c1 + c2), Frame, Visible * LineCycles)
          <=> \/ Reached(s.time, s.time + c1, Frame, Visible * LineCycles)
              \/ Reached(s.time + c1, s.time + (c1 + c2), Frame, Visible * LineCycles)
    BY <2>5, <2>6, ReachedSum, Zenon
  <2>9. e.due <=> s.due \/ Reached(s.time, s.time + (c1 + c2), Frame, Visible * LineCycles)
    BY <2>7, <2>8, Zenon DEF Elapsed
  <2> QED  BY <2>3, <2>4, <2>9
<1> QED  BY <1>2, <1>3, <1>4, <1>5, <1>6, Zenon DEF Elapsed

\* So do their effects on what holds.
LEMMA PartSum ==
  ASSUME NEW s \in Screens, NEW r, NEW e,
         NEW k1 \in Nat, NEW n1 \in Nat, NEW m1 \in Nat, NEW c1 \in Nat,
         NEW k2 \in Nat, NEW n2 \in Nat, NEW m2 \in Nat, NEW c2 \in Nat,
         Part(s, r, k1, n1, m1, c1), Part(r, e, k2, n2, m2, c2)
  PROVE  Part(s, e, k1 + k2, n1 + n2, m1 + m2, c1 + c2)
BY ElapsedSum, Zenon DEF Part

\* Nothing of it all changes.
LEMMA Still ==
  ASSUME NEW s \in Screens, NEW e \in Screens,
         e.on = s.on, e.sel = s.sel, e.cyc = s.cyc, e.left = s.left, e.hdma = s.hdma,
         s.stat => e.stat, e.ly = s.ly, e.vblank = s.vblank,
         e.time = s.time, e.due = s.due
  PROVE  Elapsed(s, e, 0, 0, 0, 0)
<1>1. e.cyc = s.cyc + 0 - 0 * LineCycles  BY Fields, Sizes
<1>2. e.left = s.left - 0  BY Fields
<1>3. e.ly = s.ly + 0 - 0 * LineCount /\ s.ly + 0 = s.ly  BY Fields, Sizes
<1>4. e.time = s.time + 0 - 0 * Frame /\ s.time + 0 = s.time  BY Fields, Sizes
<1>5. 0 \in Int  OBVIOUS
<1>6. ~Reached(s.ly, s.ly + 0, LineCount, Visible)
  <2>1. s.ly \in Int /\ LineCount \in Int /\ Visible \in Int  BY Fields, Sizes
  <2> QED  BY <1>3, <2>1, ReachedNone
<1>7. ~Reached(s.time, s.time + 0, Frame, Visible * LineCycles)
  <2>1. s.time \in Int /\ Frame \in Int /\ Visible * LineCycles \in Int  BY Fields, Sizes
  <2> QED  BY <1>4, <2>1, ReachedNone
<1> QED  BY <1>1, <1>2, <1>3, <1>4, <1>5, <1>6, <1>7, Zenon DEF Elapsed

----------------------------------------------------------------------------
(* The statements of inc_timer                                              *)

\* c cycles pass.
LEMMA AdvancePart ==
  ASSUME NEW s \in Screens, NEW c \in Nat
  PROVE  Part(s, Advance(s, c), 0, 0, 0, c)
<1> DEFINE t == s.time + c
           late == s.due \/ \E f \in 0 .. t \div Frame :
                              LET edge == f * Frame + Visible * LineCycles
                              IN s.time < edge /\ edge <= t
           e == Advance(s, c)
<1>1. t \in Int /\ t \in Nat /\ s.time \in Nat /\ s.cyc + c \in Nat /\ s.ly \in Nat
  BY Fields, Sizes
<1>2. PICK q \in Int, r \in 0 .. Frame - 1 :
        q = t \div Frame /\ r = t % Frame /\ t = q * Frame + r /\ q \in Nat
  <2> HIDE DEF t
  <2> QED  BY <1>1, Sizes, Division, Zenon
<1>3. e = [s EXCEPT !.cyc = s.cyc + c, !.time = r, !.due = late]
  BY <1>2, Zenon DEF Advance
<1>4. late \in BOOLEAN  BY Zenon DEF Screens
<1>5. late <=> s.due \/ Reached(s.time, t, Frame, Visible * LineCycles)
  <2> HIDE DEF t
  <2>1. ASSUME NEW f \in Int, s.time < f * Frame + Visible * LineCycles,
               f * Frame + Visible * LineCycles <= t
        PROVE  f \in 0 .. t \div Frame
    <3>1. /\ Frame \in Nat \ {0} /\ f * Frame \in Int /\ Visible * LineCycles \in Nat
          /\ Visible * LineCycles < Frame
      <4>1. \A a, b \in Nat, d \in Nat \ {0} : a < b => a * d < b * d  OBVIOUS
      <4> QED  BY <4>1, Sizes DEF Frame
    <3>2. f <= q
      <4>1. f * Frame <= q * Frame + r  BY <1>1, <1>2, <2>1, <3>1
      <4>2. r \in Int /\ 0 <= r /\ r < Frame  BY Sizes
      <4> QED  BY <3>1, <4>1, <4>2, Multiples, Zenon
    <3>3. ~(f <= -1)
      <4>1. f * Frame > -Frame  BY <1>1, <2>1, <3>1
      <4>2. \A n \in Int, d \in Nat \ {0} : n <= -1 => n * d <= -d  OBVIOUS
      <4> QED  BY <3>1, <4>1, <4>2
    <3>4. f \in 0 .. q  BY <3>2, <3>3
    <3> QED  BY <1>2, <3>4
  <2>2. \A f \in 0 .. t \div Frame : f \in Int  OBVIOUS
  <2> QED  BY <2>1, <2>2, Zenon DEF Reached
<1> HIDE DEF e, late
<1>6. e \in Screens  BY <1>1, <1>2, <1>3, <1>4, Zenon DEF Screens
<1>7. /\ e.on = s.on /\ e.sel = s.sel /\ e.cyc = s.cyc + c /\ e.left = s.left
      /\ e.hdma = s.hdma /\ e.stat = s.stat /\ e.ly = s.ly /\ e.vblank = s.vblank
      /\ e.time = r /\ e.due = late /\ e.want = s.want /\ e.mode = s.mode /\ e.coin = s.coin
  BY <1>3, Zenon DEF Screens
<1>8. Elapsed(s, e, 0, 0, 0, c)
  <2>1. e.cyc = s.cyc + c - 0 * LineCycles  BY <1>7, Fields, Sizes
  <2>2. e.left = s.left - 0  BY <1>7, Fields
  <2>3. e.ly = s.ly + 0 - 0 * LineCount /\ s.ly + 0 = s.ly  BY <1>7, Fields, Sizes
  <2>4. ~Reached(s.ly, s.ly + 0, LineCount, Visible)
    <3>1. s.ly \in Int /\ LineCount \in Int /\ Visible \in Int  BY Fields, Sizes
    <3> QED  BY <2>3, <3>1, ReachedNone
  <2>5. e.time = s.time + c - q * Frame
    <3>1. q * Frame \in Int  BY <1>2, Sizes
    <3>2. \A x \in Int : s.time + c = x + r => r = s.time + c - x
      <4>1. r \in Int /\ s.time \in Int  BY <1>1, Sizes
      <4> QED  BY <4>1
    <3> QED  BY <1>2, <1>7, <3>1, <3>2, Zenon
  <2>6. e.due <=> s.due \/ Reached(s.time, s.time + c, Frame, Visible * LineCycles)
    BY <1>5, <1>7, Zenon
  <2>7. e.vblank <=> s.vblank \/ Reached(s.ly, s.ly + 0, LineCount, Visible)
    BY <1>7, <2>4, Zenon
  <2>8. 0 \in Int  OBVIOUS
  <2> QED
    BY <1>2, <1>7, <2>1, <2>2, <2>3, <2>5, <2>6, <2>7, <2>8, Zenon DEF Elapsed
<1>9. Sound(s) => Sound(e)  BY <1>7, Zenon DEF Sound
<1> QED  BY <1>6, <1>8, <1>9 DEF Part, e

\* draw_line, and nothing else, when it is time for it.
LEMMA DrawPart ==
  ASSUME NEW s \in Screens, ~(s.ly >= Visible)
  PROVE  Part(s, Draw(s), 0, 0, 0, 0)
<1>1. CASE s.redrawed
  <2>1. Draw(s) = s  BY <1>1 DEF Draw
  <2> QED  BY <2>1, Still, Zenon DEF Part
<1>2. CASE ~s.redrawed
  <2> DEFINE e == Draw(s)
             shown == s.shown \/ s.ly <= s.last
  <2>1. e = [s EXCEPT !.shown = shown, !.last = s.ly, !.redrawed = TRUE]
    BY <1>2, Zenon DEF Draw
  <2>2. shown \in BOOLEAN /\ TRUE \in BOOLEAN  BY Zenon DEF Screens
  <2>3. s.ly \in 0 .. Visible - 1  BY Fields, Sizes
  <2> HIDE DEF e, shown
  <2>4. e \in Screens  BY <2>1, <2>2, <2>3, Zenon DEF Screens
  <2>5. /\ e.on = s.on /\ e.sel = s.sel /\ e.cyc = s.cyc /\ e.left = s.left
        /\ e.hdma = s.hdma /\ e.stat = s.stat /\ e.ly = s.ly /\ e.vblank = s.vblank
        /\ e.time = s.time /\ e.due = s.due /\ e.want = s.want /\ e.mode = s.mode
        /\ e.coin = s.coin
    BY <2>1, Zenon DEF Screens
  <2>6. Elapsed(s, e, 0, 0, 0, 0)  BY <2>4, <2>5, Still, Zenon
  <2>7. Sound(s) => Sound(e)  BY <2>5, Zenon DEF Sound
  <2> QED  BY <2>4, <2>6, <2>7, Zenon DEF Part, e
<1> QED  BY <1>1, <1>2

\* STAT gets the mode that LY and lcd_cycles call for.
LEMMA SetModePart ==
  ASSUME NEW s \in Screens
  PROVE  Part(s, SetMode(s), 0, 0, 0, 0)
<1>1. ASSUME NEW m \in 0 .. 3, NEW b \in BOOLEAN, s.ly >= Visible => m = 1
      PROVE  LET e == [s EXCEPT !.mode = m, !.redrawed = b]
             IN /\ Part(s, e, 0, 0, 0, 0)
                /\ e.ly = s.ly
  <2> DEFINE e == [s EXCEPT !.mode = m, !.redrawed = b]
  <2>1. e \in Screens  BY Zenon DEF Screens
  <2>2. /\ e.on = s.on /\ e.sel = s.sel /\ e.cyc = s.cyc /\ e.left = s.left
        /\ e.hdma = s.hdma /\ e.stat = s.stat /\ e.ly = s.ly /\ e.vblank = s.vblank
        /\ e.time = s.time /\ e.due = s.due /\ e.want = s.want /\ e.mode = m
        /\ e.coin = s.coin
    BY Zenon DEF Screens
  <2> HIDE DEF e
  <2>3. Elapsed(s, e, 0, 0, 0, 0)  BY <2>1, <2>2, Still, Zenon
  <2>4. Sound(s) => Sound(e)  BY <1>1, <2>2, Zenon DEF Sound
  <2> QED  BY <2>1, <2>2, <2>3, <2>4, Zenon DEF Part, e
<1>2. /\ 0 \in 0 .. 3 /\ 1 \in 0 .. 3 /\ 2 \in 0 .. 3 /\ 3 \in 0 .. 3 /\ 0 \in Nat
      /\ 0 + 0 = 0
  OBVIOUS
<1>3. s.redrawed \in BOOLEAN /\ FALSE \in BOOLEAN  BY Zenon DEF Screens
<1>4. ASSUME NEW m \in 0 .. 3, s.ly >= Visible => m = 1
      PROVE  LET e == [s EXCEPT !.mode = m]
             IN /\ Part(s, e, 0, 0, 0, 0)
                /\ e.ly = s.ly
  <2>1. [s EXCEPT !.mode = m] = [s EXCEPT !.mode = m, !.redrawed = s.redrawed]
    BY Zenon DEF Screens
  <2> HIDE DEF Part
  <2> QED  BY <1>1, <1>3, <1>4, <2>1
<1>5. CASE s.ly >= Visible
  <2>1. SetMode(s) = [s EXCEPT !.mode = 1]  BY <1>5, Zenon DEF SetMode
  <2> QED  BY <1>2, <1>4, <1>5, <2>1, Zenon
<1>6. CASE ~(s.ly >= Visible) /\ s.cyc < Mode0End
  <2>1. SetMode(s) = [s EXCEPT !.mode = 0, !.redrawed = FALSE]
    BY <1>6, Zenon DEF SetMode
  <2> QED  BY <1>1, <1>2, <1>3, <1>6, <2>1, Zenon
<1>7. CASE ~(s.ly >= Visible) /\ ~(s.cyc < Mode0End) /\ s.cyc < Mode2End
  <2>1. SetMode(s) = [s EXCEPT !.mode = 2]  BY <1>7, Zenon DEF SetMode
  <2> QED  BY <1>2, <1>4, <1>7, <2>1, Zenon
<1>8. CASE ~(s.ly >= Visible) /\ ~(s.cyc < Mode0End) /\ ~(s.cyc < Mode2End)
  <2> DEFINE r == [s EXCEPT !.mode = 3]
  <2>1. SetMode(s) = Draw(r)  BY <1>8, Zenon DEF SetMode
  <2>2. Part(s, r, 0, 0, 0, 0) /\ r.ly = s.ly
    BY <1>2, <1>4, <1>8, Zenon
  <2> HIDE DEF r
  <2>3. r \in Screens  BY <2>2 DEF Part
  <2>4. Part(r, Draw(r), 0, 0, 0, 0)  BY <1>8, <2>2, <2>3, DrawPart, Zenon
  <2>5. Part(s, Draw(r), 0 + 0, 0 + 0, 0 + 0, 0 + 0)
    BY <1>2, <2>2, <2>4, PartSum, Zenon
  <2> QED  BY <1>2, <2>1, <2>5, Zenon
<1> QED  BY <1>5, <1>6, <1>7, <1>8, Zenon

\* LY goes on to the next line.
LEMMA NextLinePart ==
  ASSUME NEW s \in Screens
  PROVE  Part(s, NextLine(s), 0, 1, 0, 0)
<1> DEFINE ly     == IF s.ly + 1 = LineCount THEN 0 ELSE s.ly + 1
           mode   == IF ly = Visible THEN 1 ELSE s.mode
           vblank == s.vblank \/ ly = Visible
           coin   == ly = 0
           stat   == s.stat \/ (ly = 0 /\ 6 \in s.sel)
           e      == NextLine(s)
<1>1. ly \in 0 .. LineCount - 1 /\ mode \in 0 .. 3  BY Fields, Sizes
<1>2. vblank \in BOOLEAN /\ coin \in BOOLEAN /\ stat \in BOOLEAN
  BY Zenon DEF Screens
<1>3. e = [s EXCEPT !.ly = ly, !.mode = mode, !.vblank = vblank, !.coin = coin, !.stat = stat]
  BY Zenon DEF NextLine
<1>4. s.stat => stat  BY Zenon
<1>5. ly >= Visible => mode = 1 \/ (s.ly >= Visible /\ mode = s.mode)
  <2>1. ly >= Visible /\ ly # Visible => s.ly >= Visible  BY Fields, Sizes
  <2> HIDE DEF ly
  <2> QED  BY <2>1, Zenon
<1>6. coin <=> ly = 0  BY Zenon
<1>7. \E q \in Int : ly = s.ly + 1 - q * LineCount
  <2>1. /\ s.ly + 1 = LineCount => ly = s.ly + 1 - 1 * LineCount
        /\ s.ly + 1 # LineCount => ly = s.ly + 1 - 0 * LineCount
    BY Fields, Sizes
  <2>2. 0 \in Int /\ 1 \in Int  OBVIOUS
  <2> QED  BY <2>1, <2>2, Zenon
<1>8. vblank <=> s.vblank \/ Reached(s.ly, s.ly + 1, LineCount, Visible)
  <2>1. ly = Visible <=> s.ly + 1 = Visible  BY Fields, Sizes
  <2>2. s.ly \in 0 .. LineCount - 1  BY Fields
  <2>3. ly = Visible <=> Reached(s.ly, s.ly + 1, LineCount, Visible)
    BY <2>1, <2>2, ReachedNext, Zenon
  <2> QED  BY <2>3, Zenon
<1> HIDE DEF ly, mode, vblank, coin, stat, e
<1>9. e \in Screens  BY <1>1, <1>2, <1>3, Zenon DEF Screens
<1>10. /\ e.on = s.on /\ e.sel = s.sel /\ e.cyc = s.cyc /\ e.left = s.left
       /\ e.hdma = s.hdma /\ e.stat = stat /\ e.ly = ly /\ e.vblank = vblank
       /\ e.time = s.time /\ e.due = s.due /\ e.want = s.want /\ e.mode = mode
       /\ e.coin = coin
  BY <1>3, Zenon DEF Screens
<1>11. Elapsed(s, e, 0, 1, 0, 0)
  <2>1. e.cyc = s.cyc + 0 - 0 * LineCycles  BY <1>10, Fields, Sizes
  <2>2. e.left = s.left - 0  BY <1>10, Fields
  <2>3. e.time = s.time + 0 - 0 * Frame /\ s.time + 0 = s.time
    BY <1>10, Fields, Sizes
  <2>4. ~Reached(s.time, s.time + 0, Frame, Visible * LineCycles)
    <3>1. s.time \in Int /\ Frame \in Int /\ Visible * LineCycles \in Int  BY Fields, Sizes
    <3> QED  BY <2>3, <3>1, ReachedNone
  <2>5. 0 \in Int  OBVIOUS
  <2> QED
    BY <1>4, <1>7, <1>8, <1>10, <2>1, <2>2, <2>3, <2>4, <2>5, Zenon DEF Elapsed
<1>12. Sound(s) => Sound(e)  BY <1>5, <1>6, <1>10, Zenon DEF Sound
<1> QED  BY <1>9, <1>11, <1>12, Zenon DEF Part, e

\* The STAT interrupt is requested, or nothing happens.
LEMMA RequestPart ==
  ASSUME NEW s \in Screens, NEW b
  PROVE  /\ Part(s, Request(s, b), 0, 0, 0, 0)
         /\ b /\ 3 \in s.sel => Request(s, b).stat
<1> DEFINE stat == \/ s.stat
                   \/ 5 \in s.sel /\ s.mode = 2
                   \/ 4 \in s.sel /\ s.mode = 1
                   \/ 3 \in s.sel /\ b
           e == Request(s, b)
<1>1. stat \in BOOLEAN /\ (s.stat => stat) /\ (b /\ 3 \in s.sel => stat)
  BY Zenon DEF Screens
<1>2. e = [s EXCEPT !.stat = stat]  BY Zenon DEF Request
<1> HIDE DEF stat, e
<1>3. e \in Screens  BY <1>1, <1>2, Zenon DEF Screens
<1>4. /\ e.on = s.on /\ e.sel = s.sel /\ e.cyc = s.cyc /\ e.left = s.left
      /\ e.hdma = s.hdma /\ e.stat = stat /\ e.ly = s.ly /\ e.vblank = s.vblank
      /\ e.time = s.time /\ e.due = s.due /\ e.want = s.want /\ e.mode = s.mode
      /\ e.coin = s.coin
  BY <1>2, Zenon DEF Screens
<1>5. Elapsed(s, e, 0, 0, 0, 0)  BY <1>1, <1>3, <1>4, Still, Zenon
<1>6. Sound(s) => Sound(e)  BY <1>4, Zenon DEF Sound
<1> QED  BY <1>1, <1>3, <1>4, <1>5, <1>6, Zenon DEF Part, e

\* A line is taken from lcd_cycles.
LEMMA LineEndedPart ==
  ASSUME NEW s \in Screens, ~(s.cyc < LineCycles)
  PROVE  Part(s, LineEnded(s), 1, 0, 0, 0) /\ LineEnded(s).hdma = s.hdma
<1> DEFINE e == LineEnded(s)
<1>1. s.cyc - LineCycles \in Nat  BY Fields, Sizes
<1>2. e = [s EXCEPT !.cyc = s.cyc - LineCycles]  BY Zenon DEF LineEnded
<1> HIDE DEF e
<1>3. e \in Screens  BY <1>1, <1>2, Zenon DEF Screens
<1>4. /\ e.on = s.on /\ e.sel = s.sel /\ e.cyc = s.cyc - LineCycles /\ e.left = s.left
      /\ e.hdma = s.hdma /\ e.stat = s.stat /\ e.ly = s.ly /\ e.vblank = s.vblank
      /\ e.time = s.time /\ e.due = s.due /\ e.want = s.want /\ e.mode = s.mode
      /\ e.coin = s.coin
  BY <1>2, Zenon DEF Screens
<1>5. Elapsed(s, s, 0, 0, 0, 0)  BY Still, Zenon
<1>6. s.cyc - LineCycles = s.cyc + 0 - 1 * LineCycles  BY Fields, Sizes
<1>7. Elapsed(s, e, 1, 0, 0, 0)  BY <1>4, <1>5, <1>6, Zenon DEF Elapsed
<1>8. Sound(s) => Sound(e)  BY <1>4, Zenon DEF Sound
<1> QED  BY <1>3, <1>4, <1>7, <1>8, Zenon DEF Part, e

\* The counters of a transfer after a block.
Block(s) == [s EXCEPT !.left = @ - 1, !.hdma = @ /\ s.left > 0, !.want = @ - 1]

\* A block is counted.
LEMMA BlockPart ==
  ASSUME NEW s \in Screens, s.hdma
  PROVE  Part(s, Block(s), 0, 0, 1, 0)
<1> DEFINE hdma == s.hdma /\ s.left > 0
           e == Block(s)
<1>1. /\ s.left - 1 \in Int /\ s.want - 1 \in Int /\ s.left - 1 = s.left - 1
  BY Fields
<1>2. hdma \in BOOLEAN /\ (hdma <=> s.left > 0)  BY Zenon
<1>3. e = [s EXCEPT !.left = s.left - 1, !.hdma = hdma, !.want = s.want - 1]
  BY Zenon DEF Block
<1> HIDE DEF e, hdma
<1>4. e \in Screens  BY <1>1, <1>2, <1>3, Zenon DEF Screens
<1>5. /\ e.on = s.on /\ e.sel = s.sel /\ e.cyc = s.cyc /\ e.left = s.left - 1
      /\ e.hdma = hdma /\ e.stat = s.stat /\ e.ly = s.ly /\ e.vblank = s.vblank
      /\ e.time = s.time /\ e.due = s.due /\ e.want = s.want - 1 /\ e.mode = s.mode
      /\ e.coin = s.coin
  BY <1>3, Zenon DEF Screens
<1>6. Elapsed(s, s, 0, 0, 0, 0)  BY Still, Zenon
<1>7. Elapsed(s, e, 0, 0, 1, 0)  BY <1>5, <1>6, Zenon DEF Elapsed
<1>8. Sound(s) => Sound(e)
  <2>1. s.left \in Int /\ s.want \in Int  BY Fields
  <2>2. s.want = s.left + 1 /\ s.left \in -1 .. 127 /\ s.left >= 0 =>
          /\ s.left - 1 \in -1 .. 127
          /\ s.left > 0 => s.want - 1 = (s.left - 1) + 1 /\ s.left - 1 >= 0
          /\ ~(s.left > 0) => s.want - 1 = 0
    BY <2>1
  <2> QED  BY <1>2, <1>5, <2>2, Zenon DEF Sound
<1> QED  BY <1>4, <1>7, <1>8, Zenon DEF Part, e

----------------------------------------------------------------------------
(* The line loop                                                            *)

\* inc_timer before its line loop.
Begun(s, c) == SetMode(Advance(s, c))

\* Before its line loop inc_timer lets the cycles pass, and nothing else.
LEMMA BegunPart ==
  ASSUME NEW s \in Screens, NEW c \in Nat
  PROVE  /\ Part(s, Begun(s, c), 0, 0, 0, c)
         /\ Begun(s, c) \in Screens /\ Begun(s, c).cyc = s.cyc + c
<1> DEFINE r == Advance(s, c)
           e == Begun(s, c)
<1>1. Part(s, r, 0, 0, 0, c) /\ r \in Screens  BY AdvancePart, Zenon DEF Part
<1>2. Part(r, e, 0, 0, 0, 0)  BY <1>1, SetModePart, Zenon DEF Begun
<1>3. 0 \in Nat /\ 0 + 0 = 0 /\ c + 0 = c  OBVIOUS
<1> HIDE DEF r, e
<1>4. Part(s, e, 0 + 0, 0 + 0, 0 + 0, c + 0)  BY <1>1, <1>2, <1>3, PartSum, Zenon
<1>5. Part(s, e, 0, 0, 0, c)  BY <1>3, <1>4
<1>6. e \in Screens /\ e.cyc = s.cyc + c - 0 * LineCycles
  BY <1>5 DEF Part, Elapsed
<1>7. e.cyc = s.cyc + c  BY <1>6, Fields, Sizes
<1> QED  BY <1>5, <1>6, <1>7 DEF e

\* The line loop with loop in the place of its recursion.
LoopBody(loop, s) ==
  IF s.cyc < LineCycles THEN s
  ELSE LET r == LineEnded(s)
       IN loop[NextLine(IF s.hdma THEN Copy16(loop, r) ELSE r)]

\* States without a line that is due.
Settled == {s \in Screens : s.cyc < LineCycles}

\* A block of a transfer, begun.
LEMMA BlockBegun ==
  ASSUME NEW s \in Screens, s.hdma
  PROVE  LET p == Begun(Block(s), BlockCycles)
         IN /\ Block(s) \in Screens /\ Block(s).cyc = s.cyc /\ Block(s).on = s.on
            /\ p \in Screens /\ p.cyc = s.cyc + BlockCycles
<1> DEFINE b == Block(s)
<1>1. Part(s, b, 0, 0, 1, 0)  BY BlockPart
<1> HIDE DEF b
<1>2. b \in Screens /\ b.on = s.on /\ b.cyc = s.cyc + 0 - 0 * LineCycles
  BY <1>1 DEF Part, Elapsed
<1>3. b.cyc = s.cyc  BY <1>2, Fields, Sizes
<1>4. BlockCycles \in Nat  BY Sizes
<1> QED  BY <1>2, <1>3, <1>4, BegunPart DEF b

\* hdma_copy_16b does not make more lines due, when the loop does what it
\* should, and depends on the loop at one place only.
LEMMA CopyType ==
  ASSUME NEW loop, NEW s \in Screens, s.hdma,
         s.on => loop[Begun(Block(s), BlockCycles)] \in Settled
  PROVE  LET e == Copy16(loop, s)
         IN e \in Screens /\ e.cyc = IF s.on THEN loop[Begun(Block(s), BlockCycles)].cyc ELSE s.cyc
<1> DEFINE b == Block(s)
           p == Begun(b, BlockCycles)
           e == Copy16(loop, s)
<1>1. b \in Screens /\ b.cyc = s.cyc /\ b.on = s.on  BY BlockBegun
<1>2. e = IF ~b.on THEN b ELSE Request(loop[p], p.cyc >= LineCycles)
  BY Zenon DEF Copy16, IncTimerBy, Block, Begun
<1> HIDE DEF b, e
<1>3. CASE ~s.on
  BY <1>1, <1>2, <1>3, Zenon DEF e
<1>4. CASE s.on
  <2> DEFINE l == loop[p]
  <2>1. l \in Screens /\ e = Request(l, p.cyc >= LineCycles)
    BY <1>1, <1>2, <1>4, Zenon DEF Settled, b
  <2> HIDE DEF l
  <2>2. Part(l, e, 0, 0, 0, 0)  BY <2>1, RequestPart, Zenon
  <2>3. e \in Screens /\ e.cyc = l.cyc + 0 - 0 * LineCycles
    BY <2>2 DEF Part, Elapsed
  <2>4. e.cyc = l.cyc  BY <2>1, <2>3, Fields, Sizes
  <2> QED  BY <1>4, <2>3, <2>4, Zenon DEF e, l, b
<1> QED  BY <1>3, <1>4

\* What a pass of the loop leaves to do is less than what there was, when the
\* loop does what it should for less.
LEMMA LessToDo ==
  ASSUME NEW loop, NEW s \in Screens, ~(s.cyc < LineCycles),
         \A t \in Screens : t.cyc < s.cyc => loop[t] \in Settled
  PROVE  LET r == LineEnded(s)
             u == NextLine(IF s.hdma THEN Copy16(loop, r) ELSE r)
         IN /\ u \in Screens /\ u.cyc < s.cyc
            /\ s.hdma => /\ r \in Screens /\ r.hdma
                         /\ Begun(Block(r), BlockCycles) \in Screens
                         /\ Begun(Block(r), BlockCycles).cyc < s.cyc
<1> DEFINE r == LineEnded(s)
           p == Begun(Block(r), BlockCycles)
           v == IF s.hdma THEN Copy16(loop, r) ELSE r
<1>1. Part(s, r, 1, 0, 0, 0) /\ r.hdma = s.hdma  BY LineEndedPart
<1> HIDE DEF r
<1>2. r \in Screens /\ r.cyc = s.cyc + 0 - 1 * LineCycles
  BY <1>1 DEF Part, Elapsed
<1>3. r.cyc < s.cyc /\ r.cyc + BlockCycles < s.cyc  BY <1>2, Fields, Sizes
<1>4. s.hdma => p \in Screens /\ p.cyc < s.cyc
  <2>1. s.hdma => p \in Screens /\ p.cyc = r.cyc + BlockCycles
    BY <1>1, <1>2, BlockBegun
  <2> QED  BY <1>3, <2>1
<1>5. v \in Screens /\ v.cyc < s.cyc
  <2>1. CASE ~s.hdma  BY <1>2, <1>3, <2>1
  <2>2. CASE s.hdma
    <3>1. loop[p] \in Settled  BY <1>4, <2>2
    <3> HIDE DEF p
    <3>2. v \in Screens /\ v.cyc = IF r.on THEN loop[p].cyc ELSE r.cyc
      BY <1>1, <1>2, <2>2, <3>1, CopyType, Zenon DEF p
    <3>3. loop[p].cyc < s.cyc  BY <3>1, Fields, Sizes DEF Settled
    <3> QED  BY <1>3, <3>2, <3>3
  <2> QED  BY <2>1, <2>2
<1> HIDE DEF v, p
<1>6. Part(v, NextLine(v), 0, 1, 0, 0)  BY <1>5, NextLinePart
<1>7. NextLine(v) \in Screens /\ NextLine(v).cyc = v.cyc + 0 - 0 * LineCycles
  BY <1>6 DEF Part, Elapsed
<1>8. NextLine(v).cyc < s.cyc  BY <1>5, <1>7, Fields, Sizes
<1> QED  BY <1>1, <1>2, <1>4, <1>7, <1>8, Zenon DEF r, v, p

\* The same loop for less makes the same pass.
LEMMA SamePass ==
  ASSUME NEW f, NEW g, NEW s \in Screens,
         \A t \in Screens : t.cyc < s.cyc => f[t] \in Settled,
         \A t \in Screens : t.cyc < s.cyc => f[t] = g[t]
  PROVE  LoopBody(f, s) = LoopBody(g, s)
<1>1. CASE s.cyc < LineCycles  BY <1>1 DEF LoopBody
<1>2. CASE ~(s.cyc < LineCycles)
  <2> DEFINE r == LineEnded(s)
             p == Begun(Block(r), BlockCycles)
             u == NextLine(IF s.hdma THEN Copy16(f, r) ELSE r)
             w == NextLine(IF s.hdma THEN Copy16(g, r) ELSE r)
  <2>1. u \in Screens /\ u.cyc < s.cyc  BY <1>2, LessToDo, Zenon
  <2>2. s.hdma => p \in Screens /\ p.cyc < s.cyc  BY <1>2, LessToDo, Zenon
  <2>3. s.hdma => Copy16(f, r) = Copy16(g, r)
    <3>1. s.hdma => f[p] = g[p]  BY <2>2
    <3>2. \A loop : Copy16(loop, r)
                      = IF ~Block(r).on THEN Block(r)
                        ELSE Request(loop[p], p.cyc >= LineCycles)
      BY Zenon DEF Copy16, IncTimerBy, Block, Begun
    <3> HIDE DEF p, r
    <3> QED  BY <3>1, <3>2, Zenon
  <2>4. u = w  BY <2>3, Zenon
  <2>5. f[u] = g[w]  BY <2>1, <2>4
  <2>6. LoopBody(f, s) = f[u] /\ LoopBody(g, s) = g[w]  BY <1>2, Zenon DEF LoopBody
  <2> QED  BY <2>5, <2>6
<1> QED  BY <1>1, <1>2

\* EndLines is what its definition says.
LEMMA EndLinesEquation == EndLines = [s \in Screens |-> LoopBody(EndLines, s)]
<1> DEFINE G == [f \in [Screens -> Settled] |-> [s \in Screens |-> LoopBody(f, s)]]
           m == [s \in Screens |-> s.cyc]
<1>1. ASSUME NEW f \in [Screens -> Settled], NEW s \in Screens
      PROVE  LoopBody(f, s) \in Settled
  <2>1. CASE s.cyc < LineCycles  BY <2>1 DEF LoopBody, Settled
  <2>2. CASE ~(s.cyc < LineCycles)
    <3> DEFINE r == LineEnded(s)
               u == NextLine(IF s.hdma THEN Copy16(f, r) ELSE r)
    <3>1. u \in Screens  BY <2>2, LessToDo, Zenon
    <3>2. LoopBody(f, s) = f[u]  BY <2>2, Zenon DEF LoopBody
    <3> HIDE DEF u
    <3> QED  BY <3>1, <3>2
  <2> QED  BY <2>1, <2>2
<1>2. G \in [[Screens -> Settled] -> [Screens -> Settled]]  BY <1>1
<1>3. m \in [Screens -> Nat]  BY Fields
<1>4. [Screens -> Settled] # {}
  <2>1. \A s \in Screens : [s EXCEPT !.cyc = 0] \in Settled
    <3>1. 0 \in Nat /\ 0 < LineCycles  BY Sizes
    <3>2. \A s \in Screens : [s EXCEPT !.cyc = 0] \in Screens /\ [s EXCEPT !.cyc = 0].cyc = 0
      BY <3>1, Zenon DEF Screens
    <3> QED  BY <3>1, <3>2, Zenon DEF Settled
  <2>2. [s \in Screens |-> [s EXCEPT !.cyc = 0]] \in [Screens -> Settled]  BY <2>1
  <2> QED  BY <2>2
<1>5. ASSUME NEW f \in [Screens -> Settled], NEW g \in [Screens -> Settled], NEW s \in Screens,
             \A t \in Screens : m[t] < m[s] => f[t] = g[t]
      PROVE  G[f][s] = G[g][s]
  <2>1. \A t \in Screens : t.cyc < s.cyc => f[t] = g[t] /\ f[t] \in Settled  BY <1>5
  <2>2. LoopBody(f, s) = LoopBody(g, s)  BY <2>1, SamePass
  <2> QED  BY <2>2
<1>6. PICK f \in [Screens -> Settled] : f = G[f]
  <2> HIDE DEF G, m
  <2>1. \A f, g \in [Screens -> Settled] : \A s \in Screens :
          (\A t \in Screens : m[t] < m[s] => f[t] = g[t]) => G[f][s] = G[g][s]
    BY <1>5, Zenon
  <2>2. WellFounded(Screens, Settled, m, G)
    BY <1>2, <1>3, <1>4, <2>1, Zenon DEF WellFounded
  <2> QED  BY <2>2, RecursiveFunction
<1>7. f = [s \in Screens |-> LoopBody(f, s)]  BY <1>6
<1> QED  BY <1>7, Zenon DEF EndLines, LoopBody

\* One pass of the loop.
LEMMA EndLinesStep ==
  ASSUME NEW s \in Screens
  PROVE  EndLines[s] = LoopBody(EndLines, s)
<1> DEFINE F == [t \in Screens |-> LoopBody(EndLines, t)]
<1>1. EndLines = F  BY EndLinesEquation
<1>2. F[s] = LoopBody(EndLines, s)  OBVIOUS
<1> QED  BY <1>1, <1>2

\* After the loop no line is due.
LEMMA EndLinesType ==
  ASSUME NEW s \in Screens
  PROVE  EndLines[s] \in Settled
<1> DEFINE B == {t \in Screens : EndLines[t] \notin Settled}
           m == [t \in Screens |-> t.cyc]
<1> SUFFICES ASSUME B # {} PROVE FALSE  OBVIOUS
<1>1. \A t \in B : m[t] \in Nat  BY Fields
<1>2. PICK b \in B : \A t \in B : ~(m[t] < m[b])
  <2> HIDE DEF B, m
  <2> QED  BY <1>1, LeastMeasure
<1>3. \A t \in Screens : t.cyc < b.cyc => EndLines[t] \in Settled  BY <1>2
<1>4. b \in Screens /\ EndLines[b] = LoopBody(EndLines, b)  BY EndLinesStep
<1>5. CASE b.cyc < LineCycles
  <2>1. LoopBody(EndLines, b) = b  BY <1>5 DEF LoopBody
  <2> QED  BY <1>4, <1>5, <2>1 DEF Settled
<1>6. CASE ~(b.cyc < LineCycles)
  <2> DEFINE r == LineEnded(b)
             u == NextLine(IF b.hdma THEN Copy16(EndLines, r) ELSE r)
  <2>1. u \in Screens /\ u.cyc < b.cyc  BY <1>3, <1>4, <1>6, LessToDo, Zenon
  <2>2. LoopBody(EndLines, b) = EndLines[u]  BY <1>6, Zenon DEF LoopBody
  <2> HIDE DEF u
  <2>3. EndLines[u] \in Settled  BY <1>3, <2>1
  <2> QED  BY <1>4, <2>2, <2>3
<1> QED  BY <1>5, <1>6

\* A call that is given c cycles: lines are counted in LY as they are taken
\* from lcd_cycles, the blocks it copies take their cycles, and while the
\* transfer lasts there is one for each line.
Call(s, e, c) ==
  \E n, m \in Nat :
    /\ Part(s, e, n, n, m, c + BlockCycles * m)
    /\ e.cyc < LineCycles
    /\ e.hdma => m = n

\* inc_timer is such a call if its line loop is.
LEMMA IncTimerPart ==
  ASSUME NEW s \in Screens, s.on, NEW c \in Nat,
         Call(Begun(s, c), EndLines[Begun(s, c)], 0)
  PROVE  Call(s, IncTimer(s, c), c)
<1> DEFINE p == Begun(s, c)
           l == EndLines[p]
           e == IncTimer(s, c)
<1>1. Part(s, p, 0, 0, 0, c) /\ p \in Screens  BY BegunPart, Zenon
<1>2. e = Request(l, p.cyc >= LineCycles)  BY Zenon DEF IncTimer, IncTimerBy, Begun
<1>3. PICK n \in Nat, m \in Nat :
        /\ Part(p, l, n, n, m, 0 + BlockCycles * m)
        /\ l.cyc < LineCycles
        /\ l.hdma => m = n
  BY Zenon DEF Call
<1> HIDE DEF p, l, e
<1>4. l \in Screens  BY <1>3 DEF Part
<1>5. Part(l, e, 0, 0, 0, 0)  BY <1>2, <1>4, RequestPart, Zenon
<1>6. e \in Screens /\ e.cyc = l.cyc + 0 - 0 * LineCycles /\ (e.hdma => l.hdma)
  BY <1>5, Zenon DEF Part, Elapsed
<1>7. e.cyc < LineCycles  BY <1>3, <1>4, <1>6, Fields, Sizes
<1>8. 0 \in Nat /\ 0 + BlockCycles * m \in Nat
  <2>1. \A a, b \in Nat : a * b \in Nat  OBVIOUS
  <2> QED  BY <2>1, Sizes
<1>9. Part(s, l, 0 + n, 0 + n, 0 + m, c + (0 + BlockCycles * m))
  BY <1>1, <1>3, <1>8, PartSum, Zenon
<1>10. /\ 0 + n = n /\ 0 + m = m /\ n + 0 = n /\ m + 0 = m
       /\ c + (0 + BlockCycles * m) = c + BlockCycles * m
       /\ c + BlockCycles * m + 0 = c + BlockCycles * m
       /\ c + BlockCycles * m \in Nat
  <2>1. BlockCycles * m \in Nat  BY <1>8, Sizes
  <2> QED  BY <2>1
<1>11. Part(s, l, n, n, m, c + BlockCycles * m)  BY <1>9, <1>10
<1>12. Part(s, e, n + 0, n + 0, m + 0, c + BlockCycles * m + 0)
  BY <1>5, <1>8, <1>10, <1>11, PartSum, Zenon
<1>13. Part(s, e, n, n, m, c + BlockCycles * m)  BY <1>10, <1>12
<1> QED  BY <1>3, <1>6, <1>7, <1>13, Zenon DEF Call, e

\* hdma_copy_16b then copies its block, and one for each line that ends
\* while it is copied.
LEMMA CopyPart ==
  ASSUME NEW s \in Screens, s.on, s.hdma,
         LET p == Begun(Block(s), BlockCycles) IN Call(p, EndLines[p], 0)
  PROVE  LET e == Copy16(EndLines, s)
         IN \E n, m \in Nat : /\ Part(s, e, n, n, m, BlockCycles * m)
                              /\ e.cyc < LineCycles
                              /\ e.hdma => m = n + 1
<1> DEFINE b == Block(s)
           e == Copy16(EndLines, s)
<1>1. Part(s, b, 0, 0, 1, 0) /\ b \in Screens /\ b.on  BY BlockPart, BlockBegun
<1>2. e = IncTimer(b, BlockCycles)  BY Zenon DEF Copy16, IncTimer, Block
<1>3. BlockCycles \in Nat  BY Sizes
<1> HIDE DEF b
<1>4. Call(b, e, BlockCycles)  BY <1>1, <1>2, <1>3, IncTimerPart, Zenon DEF b
<1> HIDE DEF e
<1>5. PICK n \in Nat, k \in Nat : /\ Part(b, e, n, n, k, BlockCycles + BlockCycles * k)
                                  /\ e.cyc < LineCycles
                                  /\ e.hdma => k = n
  BY <1>4, Zenon DEF Call
<1>6. /\ 0 \in Nat /\ 1 \in Nat /\ 0 + n = n /\ 1 + k \in Nat
      /\ BlockCycles + BlockCycles * k \in Nat
      /\ 0 + (BlockCycles + BlockCycles * k) = BlockCycles * (1 + k)
  <2>1. \A a, d \in Nat : a * d \in Nat /\ a * (1 + d) = a + a * d  OBVIOUS
  <2>2. BlockCycles * k \in Nat /\ BlockCycles * (1 + k) = BlockCycles + BlockCycles * k
    BY <1>3, <2>1
  <2> QED  BY <1>3, <2>2
<1>7. Part(s, e, 0 + n, 0 + n, 1 + k, 0 + (BlockCycles + BlockCycles * k))
  BY <1>1, <1>5, <1>6, PartSum, Zenon
<1>8. Part(s, e, n, n, 1 + k, BlockCycles * (1 + k))  BY <1>6, <1>7
<1>9. e.hdma => 1 + k = n + 1  BY <1>5
<1> QED  BY <1>5, <1>6, <1>8, <1>9, Zenon DEF e

\* The line loop is such a call, whatever is due.
LEMMA EndLinesPart ==
  ASSUME NEW s \in Screens, s.on
  PROVE  Call(s, EndLines[s], 0)
<1> DEFINE B == {t \in Screens : t.on /\ ~Call(t, EndLines[t], 0)}
           measure == [t \in Screens |-> t.cyc]
<1> SUFFICES ASSUME B # {} PROVE FALSE  BY Zenon
<1>1. \A t \in B : measure[t] \in Nat  BY Fields
<1>2. PICK b \in B : \A t \in B : ~(measure[t] < measure[b])
  <2> HIDE DEF B, measure
  <2> QED  BY <1>1, LeastMeasure
<1>3. \A t \in Screens : t.on /\ t.cyc < b.cyc => Call(t, EndLines[t], 0)
  <2> HIDE DEF Call
  <2> QED  BY <1>2
<1>4. b \in Screens /\ b.on /\ ~Call(b, EndLines[b], 0)  BY Zenon
<1>5. EndLines[b] = LoopBody(EndLines, b)  BY <1>4, EndLinesStep
<1> HIDE DEF B, measure
<1>6. CASE b.cyc < LineCycles
  <2>1. EndLines[b] = b  BY <1>5, <1>6 DEF LoopBody
  <2>2. 0 \in Nat /\ 0 + BlockCycles * 0 = 0  BY Sizes
  <2>3. Part(b, b, 0, 0, 0, 0)  BY <1>4, Still, Zenon DEF Part
  <2>4. Part(b, b, 0, 0, 0, 0 + BlockCycles * 0)  BY <2>2, <2>3
  <2>5. Call(b, b, 0)  BY <1>6, <2>2, <2>4, Zenon DEF Call
  <2> QED  BY <1>4, <2>1, <2>5
<1>7. CASE ~(b.cyc < LineCycles)
  <2> DEFINE r == LineEnded(b)
             p == Begun(Block(r), BlockCycles)
             v == IF b.hdma THEN Copy16(EndLines, r) ELSE r
             u == NextLine(v)
             e == EndLines[u]
  <2>1. \A t \in Screens : EndLines[t] \in Settled  BY EndLinesType
  <2>2. /\ u \in Screens /\ u.cyc < b.cyc
        /\ b.hdma => r \in Screens /\ r.hdma /\ p \in Screens /\ p.cyc < b.cyc
    BY <1>4, <1>7, <2>1, LessToDo, Zenon
  <2>3. EndLines[b] = e  BY <1>5, <1>7, Zenon DEF LoopBody
  <2>4. Part(b, r, 1, 0, 0, 0) /\ r.hdma = b.hdma  BY <1>4, <1>7, LineEndedPart, Zenon
  <2>5. r \in Screens /\ r.on = b.on  BY <2>4, Zenon DEF Part, Elapsed
  <2>6. \E n, m \in Nat : /\ Part(r, v, n, n, m, BlockCycles * m)
                          /\ v.hdma => m = n + 1
    <3>1. CASE ~b.hdma
      <4>1. v = r  BY <3>1
      <4>2. 0 \in Nat /\ BlockCycles * 0 = 0  BY Sizes
      <4> HIDE DEF r, v
      <4>3. Part(r, v, 0, 0, 0, BlockCycles * 0)
        <5>1. Part(r, r, 0, 0, 0, 0)  BY <2>5, Still, Zenon DEF Part
        <5> QED  BY <4>1, <4>2, <5>1
      <4> QED  BY <2>4, <3>1, <4>1, <4>2, <4>3, Zenon
    <3>2. CASE b.hdma
      <4>1. v = Copy16(EndLines, r)  BY <3>2
      <4>2. p.on = r.on
        <5>1. Part(r, Block(r), 0, 0, 1, 0) /\ Block(r) \in Screens
          BY <2>2, <3>2, BlockPart, BlockBegun, Zenon
        <5>2. BlockCycles \in Nat  BY Sizes
        <5>3. Part(Block(r), p, 0, 0, 0, BlockCycles)  BY <5>1, <5>2, BegunPart, Zenon
        <5> HIDE DEF p, r
        <5> QED  BY <5>1, <5>3, Zenon DEF Part, Elapsed
      <4>3. Call(p, EndLines[p], 0)
        <5> HIDE DEF p, r
        <5> QED  BY <1>3, <1>4, <2>2, <2>5, <3>2, <4>2, Zenon
      <4> HIDE DEF r, v
      <4> QED  BY <1>4, <2>2, <2>5, <3>2, <4>1, <4>3, CopyPart, Zenon
    <3> QED  BY <3>1, <3>2
  <2> HIDE DEF r, v, p
  <2>7. PICK n1 \in Nat, m1 \in Nat : /\ Part(r, v, n1, n1, m1, BlockCycles * m1)
                                      /\ v.hdma => m1 = n1 + 1
    BY <2>6
  <2>8. v \in Screens /\ v.on = r.on  BY <2>7, Zenon DEF Part, Elapsed
  <2>9. Part(v, u, 0, 1, 0, 0)  BY <2>8, NextLinePart, Zenon
  <2>10. u.on = v.on /\ (u.hdma => v.hdma)  BY <2>9, Zenon DEF Part, Elapsed
  <2> HIDE DEF u, e
  <2>11. Call(u, e, 0)  BY <1>3, <1>4, <2>2, <2>5, <2>8, <2>10, Zenon DEF e
  <2>12. PICK n2 \in Nat, m2 \in Nat : /\ Part(u, e, n2, n2, m2, 0 + BlockCycles * m2)
                                       /\ e.cyc < LineCycles
                                       /\ e.hdma => m2 = n2
    BY <2>11, Zenon DEF Call
  <2>13. /\ BlockCycles * m1 \in Nat /\ BlockCycles * m2 \in Nat
         /\ BlockCycles * (m1 + m2) = BlockCycles * m1 + BlockCycles * m2
    <3>1. \A x, y, z \in Nat : x * y \in Nat /\ x * (y + z) = x * y + x * z  OBVIOUS
    <3> QED  BY <3>1, Sizes
  <2>14. /\ 0 \in Nat /\ 1 \in Nat
         /\ 1 + n1 \in Nat /\ 0 + n1 \in Nat /\ 0 + m1 \in Nat /\ 0 + BlockCycles * m1 \in Nat
    BY <2>13
  <2>15. Part(b, v, 1 + n1, 0 + n1, 0 + m1, 0 + BlockCycles * m1)
    BY <1>4, <2>4, <2>7, <2>13, <2>14, PartSum, Zenon
  <2>16. /\ 1 + n1 + 0 \in Nat /\ 0 + n1 + 1 \in Nat /\ 0 + m1 + 0 \in Nat
         /\ 0 + BlockCycles * m1 + 0 \in Nat /\ 0 + BlockCycles * m2 \in Nat
    BY <2>13
  <2>17. Part(b, u, 1 + n1 + 0, 0 + n1 + 1, 0 + m1 + 0, 0 + BlockCycles * m1 + 0)
    BY <1>4, <2>9, <2>14, <2>15, PartSum, Zenon
  <2>18. Part(b, e, 1 + n1 + 0 + n2, 0 + n1 + 1 + n2, 0 + m1 + 0 + m2,
                    0 + BlockCycles * m1 + 0 + (0 + BlockCycles * m2))
    BY <1>4, <2>12, <2>16, <2>17, PartSum, Zenon
  <2>19. /\ 1 + n1 + 0 + n2 = n1 + n2 + 1 /\ 0 + n1 + 1 + n2 = n1 + n2 + 1
         /\ 0 + m1 + 0 + m2 = m1 + m2
         /\ 0 + BlockCycles * m1 + 0 + (0 + BlockCycles * m2) = 0 + BlockCycles * (m1 + m2)
         /\ n1 + n2 + 1 \in Nat /\ m1 + m2 \in Nat
    BY <2>13
  <2>20. Part(b, e, n1 + n2 + 1, n1 + n2 + 1, m1 + m2, 0 + BlockCycles * (m1 + m2))
    BY <2>18, <2>19
  <2>21. e.hdma => m1 + m2 = n1 + n2 + 1
    <3>1. e.hdma => u.hdma  BY <2>12, Zenon DEF Part, Elapsed
    <3>2. e.hdma => m1 = n1 + 1 /\ m2 = n2  BY <2>7, <2>10, <2>12, <3>1, Zenon
    <3> QED  BY <3>2
  <2>22. Call(b, e, 0)  BY <2>12, <2>19, <2>20, <2>21, Zenon DEF Call
  <2> QED  BY <1>4, <2>3, <2>22
<1> QED  BY <1>6, <1>7

----------------------------------------------------------------------------
(* The calls                                                                *)

\* Between calls: no line is due, the beam is where the time says, and a
\* VBlank is requested if and only if one is due.
Good(s) ==
  /\ s \in Screens /\ s.cyc < LineCycles
  /\ Sound(s)
  /\ s.ly * LineCycles + s.cyc = s.time
  /\ s.vblank <=> s.due

\* A call keeps it, and with the HBlank interrupt selected requests it for
\* every line that ends.
Keeps(s, e) ==
  /\ Good(e)
  /\ e.sel = s.sel
  /\ s.stat => e.stat
  /\ e.ly # s.ly /\ 3 \in s.sel => e.stat

\* Where the beam is after a call.
LEMMA BeamMoves ==
  ASSUME NEW s, NEW e, NEW c \in Nat, NEW n \in Nat, NEW m \in Nat,
         Good(s), Part(s, e, n, n, m, c), e.cyc < LineCycles
  PROVE  Good(e)
<1>1. s \in Screens /\ e \in Screens /\ Sound(e)  BY Zenon DEF Part, Good
<1>2. Elapsed(s, e, n, n, m, c)  BY Zenon DEF Part
<1>3. PICK q1 \in Int : e.ly = s.ly + n - q1 * LineCount  BY <1>2, Zenon DEF Elapsed
<1>4. PICK q2 \in Int : e.time = s.time + c - q2 * Frame  BY <1>2, Zenon DEF Elapsed
<1>5. e.cyc = s.cyc + c - n * LineCycles /\ s.ly * LineCycles + s.cyc = s.time
  BY <1>2, Zenon DEF Elapsed, Good
<1>6. /\ s.ly \in Int /\ s.cyc \in Int /\ s.time \in Int /\ e.ly \in Int /\ e.cyc \in Int
      /\ e.time \in Int /\ 0 <= s.cyc /\ 0 <= e.cyc /\ s.cyc < LineCycles
      /\ 0 <= e.time /\ e.time < Frame /\ 0 <= e.ly /\ e.ly <= LineCount - 1
  BY <1>1, Fields, Sizes DEF Good
<1>7. /\ s.ly * LineCycles \in Int /\ n * LineCycles \in Int /\ e.ly * LineCycles \in Int
      /\ (s.ly + n) * LineCycles = s.ly * LineCycles + n * LineCycles
      /\ e.ly * LineCycles = s.ly * LineCycles + n * LineCycles - q1 * Frame
      /\ q1 * Frame \in Int /\ q2 * Frame \in Int
  <2>1. \A x, y, z \in Int : x * y \in Int /\ (x + z) * y = x * y + z * y  OBVIOUS
  <2>2. \A x, y, q, k, z \in Int : (x + y - q * k) * z = x * z + y * z - q * (k * z)
    OBVIOUS
  <2> QED  BY <1>3, <1>6, <2>1, <2>2, Sizes DEF Frame
<1>8. e.ly * LineCycles + e.cyc = e.time
  <2>1. e.ly * LineCycles + e.cyc = s.time + c - q1 * Frame
    BY <1>5, <1>6, <1>7
  <2>2. /\ 0 <= e.ly * LineCycles + e.cyc
        /\ e.ly * LineCycles + e.cyc < Frame
    <3>1. \A x, k \in Int, d \in Nat : 0 <= x /\ x <= k - 1 =>
            0 <= x * d /\ x * d <= k * d - d
      OBVIOUS
    <3>2. LineCount * LineCycles \in Int  BY Sizes
    <3> QED  BY <1>6, <1>7, <3>1, <3>2, Sizes DEF Frame
  <2>3. e.ly * LineCycles + e.cyc = e.time - (q1 - q2) * Frame
    <3>1. (q1 - q2) * Frame = q1 * Frame - q2 * Frame  BY Sizes
    <3> QED  BY <1>4, <1>6, <1>7, <2>1, <3>1
  <2>4. q1 - q2 = 0
    <3>1. \A q \in Int, d \in Nat : /\ q >= 1 => q * d >= d
                                    /\ q <= -1 => q * d <= -d
      OBVIOUS
    <3>2. q1 - q2 \in Int /\ (q1 - q2) * Frame \in Int  BY Sizes
    <3> QED  BY <1>6, <2>2, <2>3, <3>1, <3>2, Sizes
  <2> QED  BY <1>6, <2>3, <2>4, Sizes
<1>9. s.time + c = (s.ly + n) * LineCycles + e.cyc  BY <1>5, <1>6, <1>7
<1>10. ASSUME NEW f \in Int
       PROVE  LET x    == f * LineCount + Visible
                  edge == f * Frame + Visible * LineCycles
              IN /\ s.ly < x <=> s.time < edge
                 /\ x <= s.ly + n <=> edge <= s.time + c
  <2> DEFINE x    == f * LineCount + Visible
             edge == f * Frame + Visible * LineCycles
  <2>1. x \in Int /\ edge = x * LineCycles /\ edge \in Int
    <3>1. \A a, b, d, k \in Int : a * b + d \in Int /\ (a * b + d) * k = a * (b * k) + d * k
      OBVIOUS
    <3>2. \A a, b \in Int : a * b \in Int  OBVIOUS
    <3> QED  BY <3>1, <3>2, Sizes DEF Frame
  <2> HIDE DEF x, edge
  <2>2. edge <= s.ly * LineCycles + s.cyc <=> x <= s.ly
    BY <1>6, <2>1, Sizes, Multiples
  <2>3. edge <= (s.ly + n) * LineCycles + e.cyc <=> x <= s.ly + n
    <3>1. s.ly + n \in Int  BY <1>6
    <3> QED  BY <1>6, <2>1, <3>1, Sizes, Multiples
  <2>4. s.time < edge <=> s.ly < x  BY <1>5, <1>6, <2>1, <2>2
  <2> QED  BY <1>9, <2>3, <2>4 DEF x, edge
<1>11. Reached(s.ly, s.ly + n, LineCount, Visible)
         <=> Reached(s.time, s.time + c, Frame, Visible * LineCycles)
  BY <1>10, Zenon DEF Reached
<1>12. e.vblank <=> e.due  BY <1>2, <1>11, Zenon DEF Elapsed, Good
<1> QED  BY <1>1, <1>8, <1>12, Zenon DEF Good

\* inc_timer.
LEMMA IncTimerKeeps ==
  ASSUME NEW s, Good(s), NEW c \in Nat
  PROVE  /\ Keeps(s, IncTimer(s, c))
         /\ s.on => Call(s, IncTimer(s, c), c)
<1> DEFINE p == Begun(s, c)
           l == EndLines[p]
           e == IncTimer(s, c)
<1>1. s \in Screens /\ s.cyc < LineCycles  BY DEF Good
<1>2. CASE ~s.on
  <2>1. e = s  BY <1>2, Zenon DEF IncTimer, IncTimerBy
  <2> HIDE DEF e
  <2> QED  BY <1>2, <2>1, Zenon DEF Keeps, e
<1>3. CASE s.on
  <2>1. Part(s, p, 0, 0, 0, c) /\ p \in Screens /\ p.cyc = s.cyc + c
    BY <1>1, BegunPart, Zenon
  <2>2. p.on = s.on /\ p.sel = s.sel  BY <2>1, Zenon DEF Part, Elapsed
  <2>3. e = Request(l, p.cyc >= LineCycles)
    BY <1>3, Zenon DEF IncTimer, IncTimerBy, Begun
  <2>4. Call(p, l, 0)
    <3> HIDE DEF p
    <3> QED  BY <1>3, <2>1, <2>2, EndLinesPart, Zenon
  <2>5. Call(s, e, c)  BY <1>1, <1>3, <2>4, IncTimerPart, Zenon
  <2> HIDE DEF e
  <2>6. PICK n \in Nat, m \in Nat : /\ Part(s, e, n, n, m, c + BlockCycles * m)
                                    /\ e.cyc < LineCycles
    BY <2>5, Zenon DEF Call
  <2>7. c + BlockCycles * m \in Nat
    <3>1. \A x, y \in Nat : x * y \in Nat  OBVIOUS
    <3>2. BlockCycles * m \in Nat  BY <3>1, Sizes
    <3> QED  BY <3>2
  <2>8. Good(e)  BY <2>6, <2>7, BeamMoves, Zenon
  <2>9. e.sel = s.sel /\ (s.stat => e.stat)  BY <2>6, Zenon DEF Part, Elapsed
  <2>10. ASSUME e.ly # s.ly, 3 \in s.sel PROVE e.stat
    <3>1. l \in Screens /\ l.sel = p.sel  BY <2>4, Zenon DEF Call, Part, Elapsed
    <3>2. CASE p.cyc >= LineCycles
      <4> HIDE DEF l, p
      <4> QED  BY <2>2, <2>3, <2>10, <3>1, <3>2, RequestPart, Zenon
    <3>3. CASE ~(p.cyc >= LineCycles)
      <4>1. p.cyc < LineCycles  BY <2>1, <3>3, Fields, Sizes
      <4>2. l = p  BY <2>1, <4>1, EndLinesStep DEF LoopBody
      <4>3. e.ly = l.ly  BY <2>3, <3>1, Zenon DEF Request, Screens
      <4>4. p.ly = s.ly  BY <1>1, Zenon DEF Begun, SetMode, Draw, Advance, Screens
      <4> QED  BY <2>10, <4>2, <4>3, <4>4
    <3> QED  BY <3>2, <3>3
  <2> QED  BY <2>5, <2>8, <2>9, <2>10, Zenon DEF Keeps, e
<1> QED  BY <1>2, <1>3

\* hdma_copy_16b.
LEMMA CopyKeeps ==
  ASSUME NEW s, Good(s), s.hdma
  PROVE  Keeps(s, Copy16(EndLines, s))
<1> DEFINE b == Block(s)
           e == Copy16(EndLines, s)
<1>1. s \in Screens  BY DEF Good
<1>2. Part(s, b, 0, 0, 1, 0) /\ b \in Screens  BY <1>1, BlockPart, BlockBegun, Zenon
<1>3. /\ b.cyc = s.cyc /\ b.ly = s.ly /\ b.time = s.time /\ b.sel = s.sel /\ b.stat = s.stat
      /\ b.vblank = s.vblank /\ b.due = s.due
  BY <1>1, Zenon DEF Block, Screens
<1> HIDE DEF b
<1>4. Good(b)  BY <1>2, <1>3, Zenon DEF Good, Part
<1>5. e = IncTimer(b, BlockCycles)  BY Zenon DEF Copy16, IncTimer, Block, b
<1>6. Keeps(b, e)
  <2>1. BlockCycles \in Nat  BY Sizes
  <2> QED  BY <1>4, <1>5, <2>1, IncTimerKeeps, Zenon
<1> HIDE DEF e
<1> QED  BY <1>3, <1>6, Zenon DEF Keeps, e

\* What is left of a transfer becomes less.
ToCopy(s) == IF ~s.hdma THEN 0 ELSE IF s.left > 0 THEN s.left + 1 ELSE 1

\* It does so with every block, so that the loop of HDMA5 ends.
LEMMA CopyLess ==
  ASSUME NEW s \in Screens, s.hdma
  PROVE  LET e == Copy16(EndLines, s)
         IN e \in Screens /\ ToCopy(e) \in Nat /\ ToCopy(e) < ToCopy(s)
<1> DEFINE b == Block(s)
           e == Copy16(EndLines, s)
<1>1. b \in Screens  BY BlockBegun, Zenon
<1>2. b.left = s.left - 1 /\ (b.hdma => s.left > 0)
  <2>1. b.left = s.left - 1 /\ (b.hdma <=> s.hdma /\ s.left > 0)  BY Zenon DEF Block, Screens
  <2> QED  BY <2>1
<1> HIDE DEF b
<1>3. e = IncTimer(b, BlockCycles)  BY Zenon DEF Copy16, IncTimer, Block, b
<1> HIDE DEF e
<1>4. e \in Screens /\ (e.hdma => b.hdma) /\ \E m \in Nat : e.left = b.left - m
  <2>1. CASE ~b.on
    <3>1. e = b  BY <1>3, <2>1, Zenon DEF IncTimer, IncTimerBy
    <3>2. b.left = b.left - 0 /\ 0 \in Nat  BY <1>1, Fields
    <3> QED  BY <1>1, <3>1, <3>2, Zenon
  <2>2. CASE b.on
    <3> DEFINE p == Begun(b, BlockCycles)
    <3>1. BlockCycles \in Nat  BY Sizes
    <3>2. p \in Screens /\ Part(b, p, 0, 0, 0, BlockCycles)  BY <1>1, <3>1, BegunPart, Zenon
    <3>3. p.on = b.on  BY <3>2, Zenon DEF Part, Elapsed
    <3>4. Call(p, EndLines[p], 0)
      <4> HIDE DEF p
      <4> QED  BY <2>2, <3>2, <3>3, EndLinesPart, Zenon
    <3>5. Call(b, e, BlockCycles)  BY <1>1, <1>3, <2>2, <3>1, <3>4, IncTimerPart, Zenon
    <3> QED  BY <3>5, Zenon DEF Call, Part, Elapsed
  <2> QED  BY <2>1, <2>2
<1>5. PICK m \in Nat : e.left = b.left - m  BY <1>4
<1>6. e.hdma => s.left > 0 /\ e.left <= s.left - 1  BY <1>1, <1>2, <1>4, <1>5, Fields
<1>7. ToCopy(e) \in Nat /\ ToCopy(e) < ToCopy(s)
  BY <1>4, <1>6, Fields DEF ToCopy
<1> QED  BY <1>4, <1>7 DEF e

\* CopyAll is what its definition says.
LEMMA CopyAllEquation ==
  CopyAll = [s \in Screens |-> IF s.hdma THEN CopyAll[Copy16(EndLines, s)] ELSE s]
<1> DEFINE G == [f \in [Screens -> Screens] |->
                   [s \in Screens |-> IF s.hdma THEN f[Copy16(EndLines, s)] ELSE s]]
           m == [s \in Screens |-> ToCopy(s)]
<1>1. \A s \in Screens : s.hdma => Copy16(EndLines, s) \in Screens  BY CopyLess, Zenon
<1>2. G \in [[Screens -> Screens] -> [Screens -> Screens]]  BY <1>1
<1>3. m \in [Screens -> Nat]  BY Fields DEF ToCopy
<1>4. [Screens -> Screens] # {}
  <2>1. [s \in Screens |-> s] \in [Screens -> Screens]  OBVIOUS
  <2> QED  BY <2>1
<1>5. ASSUME NEW f \in [Screens -> Screens], NEW g \in [Screens -> Screens], NEW s \in Screens,
             \A t \in Screens : m[t] < m[s] => f[t] = g[t]
      PROVE  G[f][s] = G[g][s]
  <2>1. s.hdma => m[Copy16(EndLines, s)] < m[s]
    <3> DEFINE r == Copy16(EndLines, s)
    <3>1. s.hdma => r \in Screens /\ ToCopy(r) < ToCopy(s)  BY CopyLess, Zenon
    <3> HIDE DEF r
    <3>2. s.hdma => m[r] < m[s]  BY <3>1
    <3> QED  BY <3>2 DEF r
  <2>2. s.hdma => f[Copy16(EndLines, s)] = g[Copy16(EndLines, s)]
    <3> HIDE DEF m
    <3> QED  BY <1>1, <1>5, <2>1, Zenon
  <2> QED  BY <2>2
<1>6. PICK f \in [Screens -> Screens] : f = G[f]
  <2> HIDE DEF G, m
  <2>1. \A f, g \in [Screens -> Screens] : \A s \in Screens :
          (\A t \in Screens : m[t] < m[s] => f[t] = g[t]) => G[f][s] = G[g][s]
    BY <1>5, Zenon
  <2>2. WellFounded(Screens, Screens, m, G)
    BY <1>2, <1>3, <1>4, <2>1, Zenon DEF WellFounded
  <2> QED  BY <2>2, RecursiveFunction
<1>7. f = [s \in Screens |-> IF s.hdma THEN f[Copy16(EndLines, s)] ELSE s]  BY <1>6
<1> QED  BY <1>7, Zenon DEF CopyAll

\* A transfer at once.
LEMMA CopyAllKeeps ==
  ASSUME NEW s, Good(s)
  PROVE  Keeps(s, CopyAll[s])
<1> DEFINE B == {t \in Screens : Good(t) /\ ~Keeps(t, CopyAll[t])}
           m == [t \in Screens |-> ToCopy(t)]
<1> SUFFICES ASSUME B # {} PROVE FALSE  BY Zenon DEF Good
<1>1. \A t \in B : m[t] \in Nat  BY Fields DEF ToCopy
<1>2. PICK b \in B : \A t \in B : ~(m[t] < m[b])
  <2> HIDE DEF B, m
  <2> QED  BY <1>1, LeastMeasure
<1>3. b \in Screens /\ Good(b) /\ ~Keeps(b, CopyAll[b])  BY Zenon
<1>4. CopyAll[b] = IF b.hdma THEN CopyAll[Copy16(EndLines, b)] ELSE b
  <2> DEFINE F == [t \in Screens |-> IF t.hdma THEN CopyAll[Copy16(EndLines, t)] ELSE t]
  <2>1. CopyAll = F  BY CopyAllEquation
  <2>2. F[b] = IF b.hdma THEN CopyAll[Copy16(EndLines, b)] ELSE b  BY <1>3
  <2> QED  BY <2>1, <2>2
<1>5. CASE ~b.hdma
  <2>1. CopyAll[b] = b  BY <1>4, <1>5
  <2> QED  BY <1>3, <2>1, Zenon DEF Keeps
<1>6. CASE b.hdma
  <2> DEFINE r == Copy16(EndLines, b)
             e == CopyAll[r]
  <2>1. Keeps(b, r)  BY <1>3, <1>6, CopyKeeps, Zenon
  <2>2. r \in Screens /\ ToCopy(r) < ToCopy(b)  BY <1>3, <1>6, CopyLess, Zenon
  <2> HIDE DEF r
  <2>3. m[r] < m[b]  BY <1>3, <2>2
  <2>4. Good(r)  BY <2>1, Zenon DEF Keeps
  <2>5. Keeps(r, e)
    <3>1. r \notin B
      <4> HIDE DEF B, m
      <4> QED  BY <1>2, <2>3, Zenon
    <3> QED  BY <2>2, <2>4, <3>1, Zenon
  <2> HIDE DEF e
  <2>6. Keeps(b, e)  BY <2>1, <2>5, Zenon DEF Keeps
  <2> QED  BY <1>3, <1>4, <1>6, <2>6, Zenon DEF e, r
<1> QED  BY <1>5, <1>6

----------------------------------------------------------------------------
(* The theorems                                                             *)

\* The inductive invariant.
LcdInv == Good(lcd)

\* A step keeps it, and reports the lines that end.
Reports == lcd'.ly # lcd.ly /\ 3 \in lcd.sel => lcd'.stat

\* It bounds the counters of a transfer.
LEMMA InvType == LcdInv => TypeOK
<1> SUFFICES ASSUME LcdInv PROVE TypeOK  OBVIOUS
<1>1. lcd \in Screens /\ lcd.cyc < LineCycles /\ lcd.left \in -1 .. 127
  BY Zenon DEF LcdInv, Good, Sound
<1>2. lcd.want \in 0 .. 128
  <2>1. \/ lcd.want = lcd.left + 1 /\ lcd.left >= 0
        \/ lcd.want = 0
    BY Zenon DEF LcdInv, Good, Sound
  <2> QED  BY <1>1, <2>1
<1> QED  BY <1>1, <1>2 DEF TypeOK

\* It holds at the start, where the mode is 1 on line 0.
LEMMA InvInit == Init => LcdInv
<1> SUFFICES ASSUME Init PROVE LcdInv  OBVIOUS
<1>1. /\ 0 \in Nat /\ 0 \in 0 .. LineCount - 1 /\ 1 \in 0 .. 3 /\ 0 \in 0 .. Visible - 1
      /\ 0 \in 0 .. Frame - 1 /\ 0 \in Int /\ -1 \in Int /\ 0 < LineCycles
      /\ -1 \in -1 .. 127 /\ 0 * LineCycles + 0 = 0
      /\ {} \in SUBSET (3 .. 6)
  BY Sizes
<1>2. lcd \in Screens  BY <1>1, Zenon DEF Init, Screens
<1>3. /\ lcd.cyc = 0 /\ lcd.ly = 0 /\ lcd.time = 0 /\ lcd.mode = 1 /\ lcd.want = 0
      /\ lcd.left = -1 /\ ~lcd.hdma /\ ~lcd.coin /\ ~lcd.vblank /\ ~lcd.due
  BY Zenon DEF Init
<1>4. Sound(lcd)  BY <1>1, <1>3, Zenon DEF Sound
<1> QED  BY <1>1, <1>2, <1>3, <1>4, Zenon DEF LcdInv, Good

\* The step's own history does not matter.
LEMMA FreshGood ==
  ASSUME LcdInv
  PROVE  /\ Good(Fresh) /\ Fresh \in Screens /\ lcd \in Screens
         /\ Fresh.on = lcd.on /\ Fresh.cyc = lcd.cyc /\ Fresh.ly = lcd.ly
         /\ Fresh.mode = lcd.mode /\ Fresh.coin = lcd.coin /\ Fresh.sel = lcd.sel
         /\ Fresh.vblank = lcd.vblank /\ Fresh.stat = lcd.stat /\ Fresh.hdma = lcd.hdma
         /\ Fresh.left = lcd.left /\ Fresh.time = lcd.time /\ Fresh.due = lcd.due
         /\ Fresh.want = lcd.want
<1> DEFINE f == Fresh
<1>1. lcd \in Screens  BY Zenon DEF LcdInv, Good
<1>2. f \in Screens  BY <1>1, Zenon DEF Fresh, Screens
<1>3. /\ f.on = lcd.on /\ f.cyc = lcd.cyc /\ f.ly = lcd.ly
      /\ f.mode = lcd.mode /\ f.coin = lcd.coin /\ f.sel = lcd.sel
      /\ f.vblank = lcd.vblank /\ f.stat = lcd.stat /\ f.hdma = lcd.hdma
      /\ f.left = lcd.left /\ f.time = lcd.time /\ f.due = lcd.due
      /\ f.want = lcd.want
  BY <1>1, Zenon DEF Fresh, Screens
<1> HIDE DEF f
<1>4. Good(f)  BY <1>2, <1>3, Zenon DEF LcdInv, Good, Sound
<1> QED  BY <1>1, <1>2, <1>3, <1>4, Zenon DEF f

\* A change of settings: the beam stays where it is.
Setting(s, on, sel, stat, v, due) ==
  [s EXCEPT !.on = on, !.sel = sel, !.stat = stat, !.vblank = v, !.due = due]

\* It keeps what holds.
LEMMA SettingKeeps ==
  ASSUME NEW s, Good(s), NEW on \in BOOLEAN, NEW sel \in SUBSET (3 .. 6), NEW stat \in BOOLEAN,
         NEW v \in BOOLEAN, NEW due \in BOOLEAN, v <=> due
  PROVE  /\ Good(Setting(s, on, sel, stat, v, due))
         /\ Setting(s, on, sel, stat, v, due).ly = s.ly
<1> DEFINE e == Setting(s, on, sel, stat, v, due)
<1>1. s \in Screens  BY DEF Good
<1>2. e \in Screens  BY <1>1, Zenon DEF Screens, Setting
<1>3. /\ e.cyc = s.cyc /\ e.left = s.left /\ e.hdma = s.hdma /\ e.ly = s.ly
      /\ e.vblank = v /\ e.time = s.time /\ e.due = due /\ e.want = s.want
      /\ e.mode = s.mode /\ e.coin = s.coin
  BY <1>1, Zenon DEF Screens, Setting
<1> HIDE DEF e
<1>4. Good(e)  BY <1>2, <1>3, Zenon DEF Good, Sound
<1> QED  BY <1>3, <1>4, Zenon DEF e

\* A change of the transfer.
LEMMA TransferKeeps ==
  ASSUME NEW s, Good(s), NEW left \in -1 .. 127, NEW hdma \in BOOLEAN,
         NEW want \in Int, want = (IF hdma THEN left + 1 ELSE 0), hdma => left >= 0
  PROVE  LET e == [s EXCEPT !.left = left, !.hdma = hdma, !.want = want]
         IN Good(e) /\ e.ly = s.ly /\ e.sel = s.sel
<1> DEFINE e == [s EXCEPT !.left = left, !.hdma = hdma, !.want = want]
<1>1. s \in Screens  BY DEF Good
<1>2. left \in Int  OBVIOUS
<1>3. e \in Screens  BY <1>1, <1>2, Zenon DEF Screens
<1>4. /\ e.cyc = s.cyc /\ e.left = left /\ e.hdma = hdma /\ e.ly = s.ly
      /\ e.vblank = s.vblank /\ e.time = s.time /\ e.due = s.due /\ e.want = want
      /\ e.mode = s.mode /\ e.coin = s.coin /\ e.sel = s.sel
  BY <1>1, Zenon DEF Screens
<1> HIDE DEF e
<1>5. Sound(e)  BY <1>4, Zenon DEF Good, Sound
<1>6. Good(e)  BY <1>3, <1>4, <1>5, Zenon DEF Good
<1> QED  BY <1>4, <1>6, Zenon DEF e

\* Every step keeps the invariant.
LEMMA InvNext == LcdInv /\ [Next]_lcd => LcdInv' /\ Reports
<1> SUFFICES ASSUME LcdInv, [Next]_lcd PROVE LcdInv' /\ Reports  OBVIOUS
<1>1. Good(Fresh) /\ lcd \in Screens /\ Fresh.ly = lcd.ly /\ Fresh.sel = lcd.sel
  BY FreshGood
<1>2. \A e : Keeps(Fresh, e) /\ lcd' = e => LcdInv' /\ Reports
  BY <1>1, Zenon DEF LcdInv, Keeps, Reports
<1>3. \A e : Good(e) /\ e.ly = lcd.ly /\ lcd' = e => LcdInv' /\ Reports
  BY Zenon DEF LcdInv, Reports
<1>4. \A c \in Nat : lcd' = IncTimer(Fresh, c) => LcdInv' /\ Reports
  BY <1>1, <1>2, IncTimerKeeps, Zenon
<1>5. CASE Tick
  <2>1. PICK c \in Batches : lcd' = IncTimer(Fresh, c)  BY <1>5 DEF Tick, Run
  <2>2. c \in Nat  BY BatchAssumption
  <2> QED  BY <1>4, <2>1, <2>2, Zenon
<1>6. CASE SkipUntilHBlank
  <2> DEFINE c == IF lcd.on THEN LineCycles - lcd.cyc ELSE 1
  <2>1. c \in Nat
    <3>1. lcd.cyc \in Nat /\ lcd.cyc < LineCycles  BY <1>1, Fields, Zenon DEF LcdInv, Good
    <3> QED  BY <3>1, Sizes
  <2>2. lcd' = IncTimer(Fresh, c)  BY <1>6, Zenon DEF SkipUntilHBlank
  <2> HIDE DEF c
  <2> QED  BY <1>4, <2>1, <2>2, Zenon
<1>7. ASSUME NEW n \in Lengths, NEW atHBlank \in BOOLEAN, StartDma(n, atHBlank)
      PROVE  LcdInv' /\ Reports
  <2> DEFINE s == [Fresh EXCEPT !.left = n, !.hdma = TRUE, !.want = n + 1]
  <2>1. n \in -1 .. 127 /\ n + 1 \in Int /\ n >= 0 /\ TRUE \in BOOLEAN
    BY GuestAssumption
  <2>2. Good(s) /\ s.ly = lcd.ly /\ s.sel = lcd.sel
    <3>1. Good(s) /\ s.ly = Fresh.ly /\ s.sel = Fresh.sel
      BY <1>1, <2>1, TransferKeeps, Zenon
    <3> QED  BY <1>1, <3>1
  <2>3. lcd' = s \/ lcd' = CopyAll[s]  BY <1>7, Zenon DEF StartDma
  <2> HIDE DEF s
  <2>4. Keeps(s, CopyAll[s])  BY <2>2, CopyAllKeeps, Zenon
  <2>5. lcd' = CopyAll[s] => LcdInv' /\ Reports
    BY <2>2, <2>4, Zenon DEF Keeps, LcdInv, Reports
  <2> QED  BY <1>3, <2>2, <2>3, <2>5, Zenon
<1>8. ASSUME NEW n \in Lengths, ResizeDma(n)
      PROVE  LcdInv' /\ Reports
  <2> DEFINE s == [Fresh EXCEPT !.left = n, !.hdma = TRUE, !.want = n + 1]
  <2>1. n \in -1 .. 127 /\ n + 1 \in Int /\ n >= 0 /\ TRUE \in BOOLEAN
    BY GuestAssumption
  <2>2. Good(s) /\ s.ly = lcd.ly  BY <1>1, <2>1, TransferKeeps, Zenon
  <2>3. lcd' = s
    <3>1. Fresh \in Screens /\ Fresh.hdma = TRUE
      BY <1>8, FreshGood, Zenon DEF ResizeDma, Screens
    <3>2. [Fresh EXCEPT !.left = n, !.want = n + 1] = s  BY <3>1, Zenon DEF Screens
    <3> QED  BY <1>8, <3>2, Zenon DEF ResizeDma
  <2> HIDE DEF s
  <2> QED  BY <1>3, <2>2, <2>3, Zenon
<1>9. CASE StopDma
  <2>1. -1 \in -1 .. 127 /\ 0 \in Int /\ FALSE \in BOOLEAN  OBVIOUS
  <2> QED  BY <1>1, <1>3, <1>9, <2>1, TransferKeeps, Zenon DEF StopDma
<1>10. ASSUME NEW on \in BOOLEAN, NEW sel \in SUBSET (3 .. 6), NEW stat \in BOOLEAN,
              NEW v \in BOOLEAN, NEW due \in BOOLEAN, v <=> due,
              lcd' = Setting(Fresh, on, sel, stat, v, due)
       PROVE  LcdInv' /\ Reports
  <2>1. /\ Good(Setting(Fresh, on, sel, stat, v, due))
        /\ Setting(Fresh, on, sel, stat, v, due).ly = Fresh.ly
    BY <1>1, <1>10, SettingKeeps
  <2> QED  BY <1>1, <1>3, <1>10, <2>1, Zenon
<1>11. /\ Fresh \in Screens
       /\ Fresh.on \in BOOLEAN /\ Fresh.stat \in BOOLEAN /\ Fresh.sel \in SUBSET (3 .. 6)
       /\ Fresh.vblank \in BOOLEAN /\ Fresh.due \in BOOLEAN /\ (Fresh.vblank <=> Fresh.due)
       /\ FALSE \in BOOLEAN
  BY FreshGood, Zenon DEF Good, Screens
<1>12. ASSUME NEW b \in BOOLEAN, WriteLCDC(b) PROVE LcdInv' /\ Reports
  <2>1. lcd' = Setting(Fresh, b, Fresh.sel, Fresh.stat, Fresh.vblank, Fresh.due)
    BY <1>11, <1>12, Zenon DEF WriteLCDC, Screens, Setting
  <2> QED  BY <1>10, <1>11, <2>1, Zenon
<1>13. ASSUME NEW sel \in Selections, WriteSTAT(sel) PROVE LcdInv' /\ Reports
  <2>1. lcd' = Setting(Fresh, Fresh.on, sel, Fresh.stat, Fresh.vblank, Fresh.due)
    BY <1>11, <1>13, Zenon DEF WriteSTAT, Screens, Setting
  <2>2. sel \in SUBSET (3 .. 6)  BY GuestAssumption
  <2> QED  BY <1>10, <1>11, <2>1, <2>2, Zenon
<1>14. CASE Acknowledge
  <2>1. CASE lcd' = [Fresh EXCEPT !.vblank = FALSE, !.due = FALSE]
    <3>1. lcd' = Setting(Fresh, Fresh.on, Fresh.sel, Fresh.stat, FALSE, FALSE)
      BY <1>11, <2>1, Zenon DEF Screens, Setting
    <3> QED  BY <1>10, <1>11, <3>1, Zenon
  <2>2. CASE lcd' = [Fresh EXCEPT !.stat = FALSE]
    <3>1. lcd' = Setting(Fresh, Fresh.on, Fresh.sel, FALSE, Fresh.vblank, Fresh.due)
      BY <1>11, <2>2, Zenon DEF Screens, Setting
    <3> QED  BY <1>10, <1>11, <3>1, Zenon
  <2> QED  BY <1>14, <2>1, <2>2, Zenon DEF Acknowledge
<1>15. CASE UNCHANGED lcd
  BY <1>15, Zenon DEF LcdInv, Reports
<1> QED
  BY <1>5, <1>6, <1>7, <1>8, <1>9, <1>12, <1>13, <1>14, <1>15, Zenon DEF Next

\* The invariant holds for ever.
THEOREM LcdInvHolds == Spec => []LcdInv
BY InvInit, InvNext, PTL DEF Spec

\* lcd_cycles stays within a line between the calls, and the fields within
\* their registers.
THEOREM TypeCorrect == Spec => []TypeOK
BY LcdInvHolds, InvType, PTL

\* The beam keeps time: LY and lcd_cycles are the cycles for which the LCD
\* has been on, through every nesting of inc_timer and hdma_copy_16b.
THEOREM BeamIsOnTime == Spec => []BeamOnTime
<1>1. LcdInv => BeamOnTime  BY DEF LcdInv, Good, BeamOnTime
<1> QED  BY <1>1, LcdInvHolds, PTL

\* HDMA copies the blocks it was asked for, no more and no fewer.
THEOREM DmaIsExact == Spec => []DmaExact
<1>1. LcdInv => DmaExact  BY Zenon DEF LcdInv, Good, Sound, DmaExact
<1> QED  BY <1>1, LcdInvHolds, PTL

\* A VBlank is requested in the call in which it begins, and only then.
THEOREM VBlankIsReported == Spec => []VBlankReported
<1>1. LcdInv => VBlankReported
  <2>1. LcdInv => lcd.vblank \in BOOLEAN /\ lcd.due \in BOOLEAN /\ (lcd.vblank <=> lcd.due)
    BY Zenon DEF LcdInv, Good, Screens
  <2>2. \A a, b \in BOOLEAN : (a <=> b) => a = b  OBVIOUS
  <2> QED  BY <2>1, <2>2, Zenon DEF VBlankReported
<1> QED  BY <1>1, LcdInvHolds, PTL

\* STAT shows the VBlank, and the coincidence, only with the LY of either.
THEOREM StatIsRight == Spec => []StatMatchesLine
<1>1. LcdInv => StatMatchesLine  BY DEF LcdInv, Good, Sound, StatMatchesLine
<1> QED  BY <1>1, LcdInvHolds, PTL

\* The HBlank interrupt is requested for every line that ends.
THEOREM LinesAreReported == Spec => LineReported
<1>1. ASSUME LcdInv, [Next]_lcd
      PROVE  [lcd'.ly # lcd.ly /\ lcd.sel = {3} => lcd'.stat]_lcd
  <2>1. Reports  BY <1>1, InvNext
  <2>2. lcd.sel = {3} => 3 \in lcd.sel  OBVIOUS
  <2> QED  BY <2>1, <2>2, Zenon DEF Reports
<1> QED  BY <1>1, LcdInvHolds, PTL DEF Spec, LineReported

\* A transfer at HBlank moves one block for each line that ends, those that
\* end because of it included.
THEOREM DmaIsPaced == Spec => DmaPaced
<1> DEFINE Paced == \A c \in Batches : lcd.hdma /\ lcd.on /\ Run(c) =>
                      LET moved == lcd.left - lcd'.left IN
                      lcd'.hdma => moved = (lcd.cyc + c + BlockCycles * moved) \div LineCycles
<1>1. ASSUME LcdInv, NEW c \in Batches, lcd.hdma, lcd.on, Run(c), lcd'.hdma
      PROVE  LET moved == lcd.left - lcd'.left
             IN moved = (lcd.cyc + c + BlockCycles * moved) \div LineCycles
  <2> DEFINE f == Fresh
             e == IncTimer(f, c)
  <2>1. lcd' = e  BY <1>1 DEF Run
  <2>2. c \in Nat  BY BatchAssumption
  <2>3. /\ f \in Screens /\ Good(f) /\ f.on = lcd.on /\ f.cyc = lcd.cyc /\ f.left = lcd.left
    BY <1>1, FreshGood, Zenon
  <2> HIDE DEF f
  <2>4. Call(f, e, c)  BY <1>1, <2>2, <2>3, IncTimerKeeps, Zenon
  <2> HIDE DEF e
  <2>5. PICK n \in Nat, m \in Nat : /\ Part(f, e, n, n, m, c + BlockCycles * m)
                                    /\ e.cyc < LineCycles
                                    /\ e.hdma => m = n
    BY <2>4, Zenon DEF Call
  <2>6. m = n  BY <1>1, <2>1, <2>5
  <2>7. /\ e \in Screens /\ e.left = f.left - m
        /\ e.cyc = f.cyc + (c + BlockCycles * m) - n * LineCycles
    BY <2>5, Zenon DEF Part, Elapsed
  <2>8. f.left - e.left = m  BY <2>3, <2>7, Fields
  <2>9. /\ f.cyc \in Nat /\ e.cyc \in Nat /\ BlockCycles * m \in Int /\ n * LineCycles \in Int
    <3>1. \A x, y \in Int : x * y \in Int  OBVIOUS
    <3> QED  BY <2>3, <2>7, <3>1, Fields, Sizes
  <2>10. f.cyc + c + BlockCycles * m = n * LineCycles + e.cyc  BY <2>2, <2>7, <2>9
  <2>11. (n * LineCycles + e.cyc) \div LineCycles = n
    <3>1. n \in Int /\ e.cyc \in Int /\ 0 <= e.cyc  BY <2>9
    <3> QED  BY <2>5, <3>1, Sizes, DivisionUnique, Zenon
  <2>12. m = (lcd.cyc + c + BlockCycles * m) \div LineCycles
    BY <2>3, <2>6, <2>10, <2>11, Zenon
  <2> QED  BY <2>1, <2>3, <2>8, <2>12, Zenon
<1>2. LcdInv => [Paced]_lcd  BY <1>1, Zenon
<1> QED  BY <1>2, LcdInvHolds, PTL DEF Spec, DmaPaced
=============================================================================
