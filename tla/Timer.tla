------------------------------- MODULE Timer -------------------------------
(***************************************************************************)
(* The timer and divider half of inc_timer, update_timer, the writes to    *)
(* TAC, TMA, IF, IE and HDMA5 (io.c), the acceptance in update_cpu         *)
(* (state.c) and the steps of HALT (execute.c, skip_until_hblank in io.c). *)
(* Guest time reaches inc_timer in batches: the cycles of a block, 0 after *)
(* a store to IF or IE, HALT_CYCLES in HALT, and 8 for 16 bytes of DMA:    *)
(* the line loop at the end of inc_timer calls hdma_copy_16b, which calls  *)
(* update_cpu, which calls inc_timer, so that a call takes more time than  *)
(* it was given.  A reference timer is given the same time one cycle at a  *)
(* time.                                                                   *)
(*                                                                         *)
(* Of the interrupts only the timer's is modelled here; the others end a   *)
(* HALT too, at the return of the same calls.                              *)
(***************************************************************************)
EXTENDS Integers

CONSTANTS
  Batches,     \* the cycles a running guest hands to update_cpu
  Period,      \* Period[m]: cycles per tick in mode m (256, 4, 16, 64)
  TimaRange,   \* values of TIMA and TMA (256)
  DivCycles,   \* cycles per step of DIV (64)
  DivRange,    \* values of DIV (256)
  LineCycles,  \* cycles of an LCD line (114)
  BlockCycles, \* cycles of 16 bytes of DMA (8)
  Lengths,     \* lengths the guest writes to HDMA5
  Settings     \* of HALT_CYCLES, -1 being "to the end of the line"

Modes == 0 .. 3

ASSUME BatchAssumption == Batches \subseteq Nat
ASSUME PeriodAssumption == Period \in [Modes -> Nat \ {0}]
ASSUME RangeAssumption ==
  /\ TimaRange \in Nat \ {0} /\ DivRange \in Nat \ {0}
  /\ DivCycles \in Nat \ {0} /\ LineCycles \in Nat \ {0}
ASSUME DmaAssumption == BlockCycles \in 0 .. LineCycles - 1 /\ Lengths \subseteq 0 .. 127
ASSUME HaltAssumption == Settings \subseteq {-1} \cup (Nat \ {0})

VARIABLES
  timer,
  halt_cycles   \* HALT_CYCLES, fixed when the program is built

vars == <<timer, halt_cycles>>

Refs ==
  [tima : 0 .. TimaRange - 1, cum : Nat,
   div : 0 .. DivRange - 1, cumdiv : 0 .. DivCycles - 1, irq : BOOLEAN]

\* The values of timer, inside a call too, where lines may be due.
Timers ==
  [running : BOOLEAN,                               \* timer_running
   period : {0} \cup {Period[m] : m \in Modes},     \* timer_div, 0 before TAC
   tima : 0 .. TimaRange - 1, tma : 0 .. TimaRange - 1,
   cum : Nat,                                       \* cum_cycles
   div : 0 .. DivRange - 1,
   cumdiv : 0 .. DivCycles - 1,                     \* cum_cycles_div
   irq : BOOLEAN,                                   \* INT_TIMER in IF
   ime : BOOLEAN,                                   \* IME, and INT_TIMER in IE
   on : BOOLEAN, cyc : Nat,                         \* lcd_on, lcd_cycles
   left : 0 .. 128,                                 \* blocks: HDMA5 + 1, 0 without hdma_on
   halted : BOOLEAN,                                \* HALT waits for interrupt_issued
   late : {-1} \cup Nat,  \* history: cycles since TIMA overflowed in this HALT
   ref : Refs]            \* history: the timer stepped cycle by cycle

\* The states in which the while loop of inc_timer comes to an end.
Ending == {s \in Timers : s.running => s.period > 0}

TypeOK ==
  timer \in Timers /\ timer.cyc < LineCycles /\ halt_cycles \in Settings

Init ==
  /\ timer = [running |-> FALSE, period |-> 0, tima |-> 0, tma |-> 0, cum |-> 0,
              div |-> 0, cumdiv |-> 0, irq |-> FALSE, ime |-> FALSE,
              on |-> TRUE, cyc |-> 0, left |-> 0, halted |-> FALSE, late |-> -1,
              ref |-> [tima |-> 0, cum |-> 0, div |-> 0, cumdiv |-> 0, irq |-> FALSE]]
  /\ halt_cycles \in Settings

----------------------------------------------------------------------------
(* The timer in inc_timer                                                   *)

\* TIMA after k ticks: an overflow reloads TMA and requests the interrupt.
\* since counts the ticks after the first overflow.
Tick(s) ==
  LET tick[k \in Nat] ==
        IF k = 0 THEN [tima |-> s.tima, irq |-> FALSE, since |-> 0]
        ELSE LET p == tick[k - 1] IN
             [tima  |-> IF p.tima + 1 = TimaRange THEN s.tma ELSE p.tima + 1,
              irq   |-> p.irq \/ p.tima + 1 = TimaRange,
              since |-> IF p.irq THEN p.since + 1 ELSE 0]
  IN tick

\* Faulty: an overflow reloads TMA and requests nothing.
BugTicks(s, n) == [Tick(s)[n] EXCEPT !.irq = FALSE, !.since = 0]

\* n ticks of TIMA.
Ticks(s, n) == Tick(s)[n]

\* Faulty: an if instead of the while.
BugPasses(s, c) == IF s.running /\ s.cum + c >= s.period THEN 1 ELSE 0

\* The number of passes of the while loop.
Passes(s, c) == IF s.running THEN (s.cum + c) \div s.period ELSE 0

\* One tick of the reference r, and all that are due.
RefTick(s, r) ==
  [r EXCEPT !.cum = @ - s.period,
            !.tima = IF @ + 1 = TimaRange THEN s.tma ELSE @ + 1,
            !.irq = @ \/ r.tima + 1 = TimaRange]

RefDue(s, r) ==
  LET due[k \in Nat] == IF k = 0 THEN r ELSE RefTick(s, due[k - 1])
  IN IF s.running THEN due[r.cum \div s.period] ELSE r

RefCycle(s, r) ==
  RefDue(s, [r EXCEPT !.cum = IF s.running THEN @ + 1 ELSE @,
                      !.cumdiv = (@ + 1) % DivCycles,
                      !.div = IF r.cumdiv + 1 = DivCycles THEN (@ + 1) % DivRange ELSE @])

RefCycles(s, c) ==
  LET after[k \in Nat] == IF k = 0 THEN RefDue(s, s.ref) ELSE RefCycle(s, after[k - 1])
  IN after[c]

\* c cycles at once.
TimerPart(s, c) ==
  LET t == Ticks(s, Passes(s, c))
      cum == IF s.running THEN (s.cum + c) % s.period ELSE s.cum
  IN [s EXCEPT !.tima = t.tima,
               !.irq = @ \/ t.irq,
               !.cum = cum,
               !.div = (@ + (s.cumdiv + c) \div DivCycles) % DivRange,
               !.cumdiv = (@ + c) % DivCycles,
               !.late = IF @ >= 0 THEN @ + c
                        ELSE IF s.halted /\ s.ime /\ t.irq THEN t.since * s.period + cum
                        ELSE -1,
               !.ref = RefCycles(s, c)]

----------------------------------------------------------------------------
(* update_cpu, and the calls that are nested in it                          *)

\* The line loop being the function loop.
IncTimerBy(loop, s, c) ==
  LET r == TimerPart(s, c)
  IN IF s.on THEN loop[[r EXCEPT !.cyc = @ + c]] ELSE r

\* The interrupt is accepted: IME and the request are reset, and HALT's loop
\* finds interrupt_issued set.
Accept(s) ==
  IF s.ime /\ s.irq
  THEN [s EXCEPT !.ime = FALSE, !.irq = FALSE, !.ref.irq = FALSE, !.halted = FALSE]
  ELSE s

UpdateCpuBy(loop, s, c) == Accept(IncTimerBy(loop, s, c))

\* hdma_copy_16b.
Copy16(loop, s) == UpdateCpuBy(loop, [s EXCEPT !.left = @ - 1], BlockCycles)

\* The line loop; the call of inc_timer nested in it runs the same loop.
EndLines[s \in Ending] ==
  IF s.cyc < LineCycles THEN s
  ELSE LET r == [s EXCEPT !.cyc = @ - LineCycles]
       IN EndLines[IF s.left > 0 THEN Copy16(EndLines, r) ELSE r]

UpdateCpu(s, c) == UpdateCpuBy(EndLines, s, c)

\* A transfer at once.
CopyAll[s \in Ending] ==
  IF s.left > 0 THEN CopyAll[Copy16(EndLines, s)] ELSE s

----------------------------------------------------------------------------
(* The guest runs                                                           *)

\* The guest, which is not in HALT, takes the timer to s.
Guest(s) == ~timer.halted /\ timer' = s /\ UNCHANGED halt_cycles

\* What came of the last HALT is history.
Fresh == [timer EXCEPT !.late = -1]

\* A block, or an instruction that is not translated, has run.
Run(c) == Guest(UpdateCpu(Fresh, c))

\* Faulty: mode 0 is missing from the switch of update_timer.
BugWriteTAC(enable, m) ==
  Guest([Fresh EXCEPT !.running = enable, !.period = IF m = 0 THEN @ ELSE Period[m]])

\* A write to TAC: cum_cycles keeps what the old mode had gathered.
WriteTAC(enable, m) == Guest([Fresh EXCEPT !.running = enable, !.period = Period[m]])

WriteTMA(v) == Guest([Fresh EXCEPT !.tma = v])

\* EI, DI and RETI, or another interrupt is accepted.
SetIme(b) == Guest([Fresh EXCEPT !.ime = b])

\* Writes to IE and IF look for an interrupt to accept.
WriteIE(b) == Guest(UpdateCpu([Fresh EXCEPT !.ime = b], 0))

WriteIF(b) == Guest(UpdateCpu([Fresh EXCEPT !.irq = b, !.ref.irq = b], 0))

SwitchLCD == Guest([Fresh EXCEPT !.on = ~@])

\* HDMA5 while no transfer runs, and while one does: a new length, or the end.
StartDma(n, atHBlank) ==
  LET s == [Fresh EXCEPT !.left = n + 1]
  IN timer.left = 0 /\ Guest(IF atHBlank THEN s ELSE CopyAll[s])

ResizeDma(n) == timer.left > 0 /\ Guest([Fresh EXCEPT !.left = n + 1])

StopDma == timer.left > 0 /\ Guest([Fresh EXCEPT !.left = 0])

\* The cycles gathered before HALT and its own are handed over first; what
\* they raise is accepted, and then HALT does not wait.
Halt(c) == Guest(UpdateCpu([Fresh EXCEPT !.halted = TRUE], c))

----------------------------------------------------------------------------
(* HALT waits                                                               *)

\* Faulty: to the end of the next line.
BugHaltStepFar ==
  IF halt_cycles # -1 THEN halt_cycles
  ELSE IF timer.on THEN 2 * LineCycles - timer.cyc ELSE 1

\* skip_until_hblank, or HALT_CYCLES.
HaltStepCycles ==
  IF halt_cycles # -1 THEN halt_cycles
  ELSE IF timer.on THEN LineCycles - timer.cyc ELSE 1

HaltStep ==
  /\ timer.halted
  /\ timer' = UpdateCpu(timer, HaltStepCycles)
  /\ UNCHANGED halt_cycles

Next ==
  \/ \E c \in Batches : Run(c) \/ Halt(c)
  \/ \E enable \in BOOLEAN, m \in Modes : WriteTAC(enable, m)
  \/ \E v \in 0 .. TimaRange - 1 : WriteTMA(v)
  \/ \E b \in BOOLEAN : SetIme(b) \/ WriteIE(b) \/ WriteIF(b)
  \/ SwitchLCD
  \/ \E n \in Lengths : \/ \E atHBlank \in BOOLEAN : StartDma(n, atHBlank)
                        \/ ResizeDma(n)
  \/ StopDma
  \/ HaltStep

Spec == Init /\ [][Next]_vars /\ WF_vars(HaltStep)

----------------------------------------------------------------------------
(* Properties                                                               *)

\* Batching loses nothing: however time is cut into calls and nested calls,
\* and whatever the guest does to TAC, TMA, IF and HDMA5 in between, the
\* timer, DIV and the request are those of a timer that is stepped cycle by
\* cycle.
BatchesExact ==
  /\ timer.irq = timer.ref.irq
  /\ timer.div = timer.ref.div /\ timer.cumdiv = timer.ref.cumdiv
  /\ timer.tima = timer.ref.tima /\ timer.cum = timer.ref.cum

\* The while loop of inc_timer ends: it never subtracts 0.
LoopEnds == timer.running => timer.period > 0

\* HALT returns in the step in which TIMA overflows.  That is the cycle of
\* the overflow if HALT_CYCLES is 1, no later than the end of the LCD line if
\* it is -1, and in both cases as much later as the blocks of DMA take that
\* the step has copied at the end of a line: they belong to the same call.
WakesInTime ==
  [][timer.halted /\ ~timer'.halted =>
       LET step == IF halt_cycles = -1 THEN LineCycles - timer.cyc ELSE halt_cycles
       IN timer'.late <= (step - 1) + BlockCycles * (timer.left - timer'.left)]_vars

\* A guest that halts with the timer running and its interrupt enabled is
\* woken up.
TimerWakes == timer.halted /\ timer.running /\ timer.ime ~> ~timer.halted

\* What xgbc.h says of HALT_CYCLES -1: the interrupts still come at the right
\* time.  For the timer's, when no block of DMA is copied, that is the cycle
\* of the overflow.
WakesOnTime ==
  [][timer.halted /\ ~timer'.halted /\ timer'.left = timer.left => timer'.late = 0]_vars
============================================================================
