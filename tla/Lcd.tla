-------------------------------- MODULE Lcd --------------------------------
(***************************************************************************)
(* The LCD half of inc_timer (io.c): the position of the beam, STAT, the   *)
(* VBlank and STAT requests, the catching up of draw_line, and the DMA of  *)
(* HDMA5, whose blocks take time of their own: hdma_copy_16b calls         *)
(* update_cpu, which calls inc_timer again from inside its line loop.      *)
(*                                                                         *)
(* LYC is 0 for ever: a write to it ends the program (io.c, default case). *)
(***************************************************************************)
EXTENDS Integers

CONSTANTS
  Batches,     \* the cycles a caller hands to inc_timer
  LineCycles,  \* cycles of a line (114)
  Mode0End,    \* mode 0 lasts while lcd_cycles is below (51)
  Mode2End,    \* and mode 2 while it is below (71)
  Visible,     \* lines that are drawn (144)
  LineCount,   \* all lines (154)
  BlockCycles, \* cycles of 16 bytes of DMA (8)
  HaltSkips,   \* HALT_CYCLES is -1
  Lengths,     \* lengths the guest writes to HDMA5
  Selections   \* sets of STAT sources the guest selects

ASSUME BatchAssumption == Batches \subseteq Nat
ASSUME LineAssumption ==
  /\ {Mode0End, Mode2End, LineCycles} \subseteq Nat
  /\ 0 < Mode0End /\ Mode0End < Mode2End /\ Mode2End < LineCycles
  /\ BlockCycles \in 0 .. LineCycles - 1
ASSUME ScreenAssumption ==
  Visible \in Nat \ {0} /\ LineCount \in Nat /\ Visible < LineCount
ASSUME HaltAssumption == HaltSkips \in BOOLEAN
ASSUME GuestAssumption == Lengths \subseteq 0 .. 127 /\ Selections \subseteq SUBSET (3 .. 6)

Frame == LineCount * LineCycles

VARIABLE lcd

\* The values of lcd, inside a call too, where more than a line may be due.
Screens ==
  [on : BOOLEAN, cyc : Nat, ly : 0 .. LineCount - 1,
   mode : 0 .. 3, coin : BOOLEAN,        \* STAT bits 0-1 and 2
   sel : SUBSET (3 .. 6),                \* STAT bits 3-6
   vblank : BOOLEAN, stat : BOOLEAN,     \* IF bits 0 and 1
   hdma : BOOLEAN,                       \* hdma_on
   left : Int,                           \* HDMA5, -1 for 0xFF
   redrawed : BOOLEAN, last : 0 .. Visible - 1,
   time : 0 .. Frame - 1,                \* history: cycles the LCD was on
   due : BOOLEAN,                        \* history: a VBlank not acknowledged
   want : Int,                           \* history: DMA blocks asked for
   shown : BOOLEAN]                      \* history: the step drew the last line

TypeOK ==
  /\ lcd \in Screens
  /\ lcd.cyc < LineCycles /\ lcd.left \in -1 .. 127 /\ lcd.want \in 0 .. 128

Init ==
  lcd = [on |-> TRUE, cyc |-> 0, ly |-> 0, mode |-> 1, coin |-> FALSE,
         sel |-> {}, vblank |-> FALSE, stat |-> FALSE,
         hdma |-> FALSE, left |-> -1, redrawed |-> FALSE, last |-> 0,
         time |-> 0, due |-> FALSE, want |-> 0, shown |-> FALSE]

----------------------------------------------------------------------------
(* inc_timer, in the order of its statements                               *)

\* c cycles pass; the VBlank is due when the beam leaves the last visible
\* line, wherever ly is.
Advance(s, c) ==
  LET t == s.time + c IN
  [s EXCEPT !.cyc = @ + c, !.time = t % Frame,
            !.due = @ \/ \E f \in 0 .. t \div Frame :
                           LET edge == f * Frame + Visible * LineCycles
                           IN s.time < edge /\ edge <= t]

\* draw_line is called for all lines since the last call; the last line is
\* among them when the beam is not below line "last".
Draw(s) ==
  IF s.redrawed THEN s
  ELSE [s EXCEPT !.shown = @ \/ s.ly <= s.last, !.last = s.ly, !.redrawed = TRUE]

\* Faulty: redrawed is not reset in mode 0.
BugSetMode(s) ==
  IF s.ly >= Visible        THEN [s EXCEPT !.mode = 1]
  ELSE IF s.cyc < Mode0End  THEN [s EXCEPT !.mode = 0]
  ELSE IF s.cyc < Mode2End  THEN [s EXCEPT !.mode = 2]
  ELSE Draw([s EXCEPT !.mode = 3])

SetMode(s) ==
  IF s.ly >= Visible        THEN [s EXCEPT !.mode = 1]
  ELSE IF s.cyc < Mode0End  THEN [s EXCEPT !.mode = 0, !.redrawed = FALSE]
  ELSE IF s.cyc < Mode2End  THEN [s EXCEPT !.mode = 2]
  ELSE Draw([s EXCEPT !.mode = 3])

\* Faulty: LY is tested before it is incremented.
BugNextLineEarly(s) ==
  LET ly == IF s.ly + 1 = LineCount THEN 0 ELSE s.ly + 1 IN
  [s EXCEPT !.ly = ly,
            !.mode = IF s.ly = Visible THEN 1 ELSE @,
            !.vblank = @ \/ s.ly = Visible,
            !.coin = s.ly = 0,
            !.stat = @ \/ (s.ly = 0 /\ 6 \in s.sel)]

NextLine(s) ==
  LET ly == IF s.ly + 1 = LineCount THEN 0 ELSE s.ly + 1 IN
  [s EXCEPT !.ly = ly,
            !.mode = IF ly = Visible THEN 1 ELSE @,
            !.vblank = @ \/ ly = Visible,
            !.coin = ly = 0,
            !.stat = @ \/ (ly = 0 /\ 6 \in s.sel)]

\* Faulty: the HBlank is looked for in the mode, which a batch may skip.
BugRequest(s, hblank_start) ==
  [s EXCEPT !.stat = \/ @
                     \/ 5 \in s.sel /\ s.mode = 2
                     \/ 4 \in s.sel /\ s.mode = 1
                     \/ 3 \in s.sel /\ s.mode = 0 /\ hblank_start]

Request(s, hblank_start) ==
  [s EXCEPT !.stat = \/ @
                     \/ 5 \in s.sel /\ s.mode = 2
                     \/ 4 \in s.sel /\ s.mode = 1
                     \/ 3 \in s.sel /\ hblank_start]

\* inc_timer, its line loop being the function loop.
IncTimerBy(loop, s, c) ==
  IF ~s.on THEN s
  ELSE LET r == SetMode(Advance(s, c))
       IN Request(loop[r], r.cyc >= LineCycles)

\* Faulty: the transfer ends when the counter reaches 0, not below.
BugCopy16Short(loop, s) ==
  IncTimerBy(loop, [s EXCEPT !.left = @ - 1, !.hdma = @ /\ s.left > 1, !.want = @ - 1],
             BlockCycles)

\* Faulty: the time of a block is not counted.
BugCopy16Free(loop, s) ==
  [s EXCEPT !.left = @ - 1, !.hdma = @ /\ s.left > 0, !.want = @ - 1]

\* hdma_copy_16b; 16 bytes are copied (want), the rest is time.
Copy16(loop, s) ==
  IncTimerBy(loop, [s EXCEPT !.left = @ - 1, !.hdma = @ /\ s.left > 0, !.want = @ - 1],
             BlockCycles)

\* Faulty: what is left over of a batch is dropped.
BugLineEnded(s) == [s EXCEPT !.cyc = 0]

LineEnded(s) == [s EXCEPT !.cyc = @ - LineCycles]

\* The line loop; the call of inc_timer nested in it runs the same loop.
EndLines[s \in Screens] ==
  IF s.cyc < LineCycles THEN s
  ELSE LET r == LineEnded(s)
       IN EndLines[NextLine(IF s.hdma THEN Copy16(EndLines, r) ELSE r)]

IncTimer(s, c) == IncTimerBy(EndLines, s, c)

\* A transfer at once.
CopyAll[s \in Screens] ==
  IF s.hdma THEN CopyAll[Copy16(EndLines, s)] ELSE s

----------------------------------------------------------------------------
(* The callers                                                              *)

\* A step's own history starts with nothing shown.
Fresh == [lcd EXCEPT !.shown = FALSE]

Run(c) == lcd' = IncTimer(Fresh, c)

\* A step of HALT, if it is not a batch of HALT_CYCLES.
SkipUntilHBlank ==
  /\ HaltSkips
  /\ lcd' = IncTimer(Fresh, IF lcd.on THEN LineCycles - lcd.cyc ELSE 1)

\* HDMA5 while no transfer runs.
StartDma(n, atHBlank) ==
  LET s == [Fresh EXCEPT !.left = n, !.hdma = TRUE, !.want = n + 1] IN
  /\ ~lcd.hdma
  /\ lcd' = IF atHBlank THEN s ELSE CopyAll[s]

\* HDMA5 while one runs: a new length, or the end.
ResizeDma(n) ==
  /\ lcd.hdma
  /\ lcd' = [Fresh EXCEPT !.left = n, !.want = n + 1]

StopDma ==
  /\ lcd.hdma
  /\ lcd' = [Fresh EXCEPT !.left = -1, !.hdma = FALSE, !.want = 0]

\* Bit 7 of LCDC; the beam stays where it is.
WriteLCDC(b) == lcd' = [Fresh EXCEPT !.on = b]

WriteSTAT(sel) == lcd' = [Fresh EXCEPT !.sel = sel]

\* A write to IF, or the interrupt is accepted.
Acknowledge ==
  lcd' \in {[Fresh EXCEPT !.vblank = FALSE, !.due = FALSE], [Fresh EXCEPT !.stat = FALSE]}

Tick == \E c \in Batches : Run(c)

Next ==
  \/ Tick \/ SkipUntilHBlank
  \/ \E n \in Lengths : \/ \E atHBlank \in BOOLEAN : StartDma(n, atHBlank)
                        \/ ResizeDma(n)
  \/ StopDma
  \/ \E b \in BOOLEAN : WriteLCDC(b)
  \/ \E sel \in Selections : WriteSTAT(sel)
  \/ Acknowledge

\* Guest time passes: begin_execution has no other thing to wait for.
Spec == Init /\ [][Next]_lcd /\ WF_lcd(\E c \in Batches \ {0} : Run(c))

----------------------------------------------------------------------------
(* Properties                                                               *)

\* The beam keeps time: whatever is nested in whatever, LY and lcd_cycles
\* are the cycles for which the LCD has been on.
BeamOnTime == lcd.ly * LineCycles + lcd.cyc = lcd.time

\* A transfer copies the blocks it was asked for, no more and no fewer,
\* though the copying of one block may end the line and start the next.
DmaExact == lcd.want = (IF lcd.hdma THEN lcd.left + 1 ELSE 0)

\* A VBlank is requested in the call in which it begins, in a nested one too.
VBlankReported == lcd.vblank = lcd.due

\* STAT agrees with LY: mode 1 through the VBlank, coincidence only at LYC.
StatMatchesLine ==
  /\ lcd.ly >= Visible => lcd.mode = 1
  /\ lcd.coin => lcd.ly = 0

\* With only the HBlank interrupt selected the end of a line requests it.
LineReported ==
  [][lcd'.ly # lcd.ly /\ lcd.sel = {3} => lcd'.stat]_lcd

\* A transfer at HBlank moves one block for each line that ends, those that
\* end because of the transfer included.
DmaPaced ==
  [][\A c \in Batches : lcd.hdma /\ lcd.on /\ Run(c) =>
       LET moved == lcd.left - lcd'.left IN
       lcd'.hdma => moved = (lcd.cyc + c + BlockCycles * moved) \div LineCycles]_lcd

\* While the LCD stays on, and no call takes more time than half of mode 0
\* (so that one of them ends in mode 0 of every line), the screen is shown,
\* and the window system's events, which only draw_line polls, are read
\* again and again.
ShortStep == 2 * ((lcd'.time - lcd.time) % Frame) <= Mode0End

ScreenShown == <>[]lcd.on /\ <>[][ShortStep]_lcd => []<>lcd.shown
============================================================================
