------------------------------ MODULE Machine ------------------------------
(***************************************************************************)
(* The emulator as one machine: the run loop with a guest program to run,  *)
(* and, where RunLoop lets time raise any interrupt, the devices that do   *)
(* raise them: inc_timer with its timer and its lines, and the HBlank DMA  *)
(* whose blocks call update_cpu from inside inc_timer (io.c, state.c,      *)
(* execute.c).  Timer and Lcd have the details of the two devices; here    *)
(* STAT has the HBlank source selected, and nothing is drawn.              *)
(*                                                                         *)
(* A call of update_cpu is a function on the record m, because it is       *)
(* nested: update_cpu, inc_timer, hdma_copy_16b, update_cpu and on.  The   *)
(* line loop EndLines is the recursive function; to the others it is given *)
(* as loop.                                                                *)
(***************************************************************************)
EXTENDS FiniteSets, Integers

CONSTANTS
  Programs,    \* guest programs: [Addr -> instruction]
  AddrCount, VectorBase, VectorStep, Slots, BlockCycles, CycleBound, None,
               \* as in RunLoop
  LineCycles,  \* cycles of an LCD line (114)
  Visible,     \* lines before the VBlank (144)
  LineCount,   \* all lines (154)
  DmaCycles,   \* cycles of 16 bytes of DMA (8)
  TimerDiv,    \* cycles per tick of the timer, which runs
  TimaRange    \* values of TIMA (256); TMA is 0

VBLANK == 0
STAT == 1
TIMER == 2
Sources == {VBLANK, STAT, TIMER}
Addr == 0 .. AddrCount - 1
Slot == 0 .. Slots - 1
Vector(i) == VectorBase + VectorStep * i

ASSUME LineAssumption ==
  /\ {LineCycles, DmaCycles, TimerDiv, TimaRange} \subseteq Nat \ {0}
  /\ DmaCycles < LineCycles
  /\ LineCount \in Nat /\ Visible \in 1 .. LineCount - 1
ASSUME SizeAssumption == AddrCount \in Nat \ {0} /\ Slots \in Nat \ {0}
ASSUME VectorAssumption == \A i \in Sources : Vector(i) \in Addr
ASSUME BoundAssumption == BlockCycles \in Nat /\ CycleBound \in Nat

\* What the guest may have at an address: "store" of the value v to the
\* register r and "halt" are not compiled; the others are.
Interpreted == {"store", "halt"}

Instruction(i) ==
  \/ i.op \in {"halt", "nop", "ei", "push", "pop", "reti"}
  \/ i.op = "jump" /\ i.to \subseteq Addr
  \/ i.op = "store" /\ i.r \in {"IE", "IF"} /\ i.v \subseteq Sources
  \/ i.op = "store" /\ i.r \in {"HDMA5_HBLANK", "HDMA5_NOW"} /\ i.v \in 0 .. 127

ASSUME ProgramAssumption == \A p \in Programs : \A a \in Addr : Instruction(p[a])

Owed == [src : Sources, ret : Addr, from : {"loop", "block"}]

ASSUME NoneAssumption == None \notin Addr /\ None \notin Slot /\ None \notin Owed

VARIABLE m  \* the guest, the state of RunLoop, and the devices

\* The values of m, inside a call too, where more than a line may be due.
States ==
  [program : Programs, skips : BOOLEAN,      \* skips: HALT_CYCLES is -1
   pc : {"fetch", "halt", "enter", "block"},
   ime : BOOLEAN, flag : SUBSET Sources, ie : SUBSET Sources,
   ip : Addr, sp : Slot, mem : [Slot -> Addr],
   ebp : Slot \cup {None}, eip : Addr \cup {None},
   blk : Nat, gone : Nat, issued : BOOLEAN,
   owed : Owed \cup {None},
   debt : Int,
   tima : 0 .. TimaRange - 1, cum : 0 .. TimerDiv - 1,
   cyc : Nat, ly : 0 .. LineCount - 1, left : Int, hdma : BOOLEAN,
   due : Int,     \* history: VBlanks begun and not yet entered,
   merged : Int]  \* and those of them that began while one was requested

Init ==
  \E program \in Programs, skips \in BOOLEAN :
    m = [program |-> program, skips |-> skips,
         pc |-> "fetch", ime |-> FALSE, flag |-> {}, ie |-> {},
         ip |-> 0, sp |-> Slots - 1, mem |-> [s \in Slot |-> 0],
         ebp |-> None, eip |-> None, blk |-> 0, gone |-> 0, issued |-> FALSE,
         owed |-> None, debt |-> 0,
         tima |-> 0, cum |-> 0, cyc |-> 0, ly |-> 0,
         left |-> -1, hdma |-> FALSE, due |-> 0, merged |-> 0]

----------------------------------------------------------------------------
(* update_cpu and inc_timer                                                 *)

Num(b) == IF b THEN 1 ELSE 0
Down(sp) == (sp - 1) % Slots
Up(sp) == (sp + 1) % Slots
Ahead(s) == (s.ip + 1) % AddrCount

\* Faulty: the request stays.
BugAcceptTwice(s) ==
  LET open == s.flag \cap s.ie IN
  IF ~s.ime \/ open = {} THEN s
  ELSE LET i == CHOOSE i \in open : \A j \in open : i <= j IN
       [s EXCEPT !.ime = FALSE, !.sp = Down(@), !.mem[Down(s.sp)] = s.ip,
                 !.ip = Vector(i), !.issued = TRUE,
                 !.owed = [src |-> i, ret |-> s.ip, from |-> "loop"]]

\* The second half of update_cpu.
Accept(s) ==
  LET open == s.flag \cap s.ie IN
  IF ~s.ime \/ open = {} THEN s
  ELSE LET i == CHOOSE i \in open : \A j \in open : i <= j IN
       [s EXCEPT !.ime = FALSE, !.sp = Down(@), !.mem[Down(s.sp)] = s.ip,
                 !.flag = @ \ {i}, !.ip = Vector(i), !.issued = TRUE,
                 !.owed = [src |-> i, ret |-> s.ip, from |-> "loop"]]

\* The timer; TIMA overflows to TMA.
Ticks(s, c) ==
  LET n == (s.cum + c) \div TimerDiv IN
  [s EXCEPT !.cum = (@ + c) % TimerDiv, !.tima = (@ + n) % TimaRange,
            !.flag = IF s.tima + n >= TimaRange THEN @ \cup {TIMER} ELSE @]

NextLine(s) ==
  LET ly == (s.ly + 1) % LineCount IN
  [s EXCEPT !.ly = ly,
            !.flag = IF ly = Visible THEN @ \cup {VBLANK} ELSE @,
            !.due = IF ly = Visible THEN @ + 1 ELSE @,
            !.merged = IF ly = Visible /\ VBLANK \in s.flag THEN @ + 1 ELSE @]

\* inc_timer and update_cpu.
IncTimerBy(loop, s, c) ==
  LET r == [Ticks(s, c) EXCEPT !.cyc = @ + c]
  IN [loop[r] EXCEPT !.flag = IF r.cyc >= LineCycles THEN @ \cup {STAT} ELSE @]

UpdateCpuBy(loop, s, c) == Accept(IncTimerBy(loop, s, c))

\* hdma_copy_16b
Copy16(loop, s) ==
  UpdateCpuBy(loop, [s EXCEPT !.left = @ - 1, !.hdma = s.left > 0], DmaCycles)

\* The line loop; the call of inc_timer nested in it runs the same loop.
EndLines[s \in States] ==
  IF s.cyc < LineCycles THEN s
  ELSE LET r == [s EXCEPT !.cyc = @ - LineCycles]
       IN EndLines[NextLine(IF s.hdma THEN Copy16(EndLines, r) ELSE r)]

UpdateCpu(s, c) == UpdateCpuBy(EndLines, s, c)

----------------------------------------------------------------------------
(* io_write                                                                 *)

CopyAll[s \in States] == IF s.hdma THEN CopyAll[Copy16(EndLines, s)] ELSE s

\* HDMA5 with v blocks to come, at HBlank or at once; a transfer that runs
\* is resized or stopped.
WriteHDMA5(s, v, atHBlank) ==
  IF s.hdma
  THEN IF atHBlank THEN [s EXCEPT !.left = v]
                   ELSE [s EXCEPT !.left = -1, !.hdma = FALSE]
  ELSE LET t == [s EXCEPT !.left = v, !.hdma = TRUE]
       IN IF atHBlank THEN t ELSE CopyAll[t]

IoWrite(s, r, v) ==
  CASE r = "IE" -> UpdateCpu([s EXCEPT !.ie = v], 0)
    [] r = "IF" -> UpdateCpu([s EXCEPT !.flag = v, !.due = Num(VBLANK \in v), !.merged = 0], 0)
    [] r = "HDMA5_HBLANK" -> WriteHDMA5(s, v, TRUE)
    [] r = "HDMA5_NOW" -> WriteHDMA5(s, v, FALSE)

----------------------------------------------------------------------------
(* The loop and the blocks of the program                                   *)

\* The instruction at ip begins: what was owed is entered.
Entered(s) ==
  [s EXCEPT !.owed = None, !.due = IF s.ip = Vector(VBLANK) THEN @ - 1 ELSE @]

At(a) == m.program[a]

EvadeStore ==
  /\ m.pc = "fetch" /\ At(m.ip).op = "store" /\ m.gone + 2 <= CycleBound
  /\ m' = [IoWrite([Entered(m) EXCEPT !.ip = Ahead(m)], At(m.ip).r, At(m.ip).v)
             EXCEPT !.gone = @ + 2, !.debt = @ + 2]

EvadeHalt ==
  /\ m.pc = "fetch" /\ At(m.ip).op = "halt"
  /\ m' = [UpdateCpu([Entered(m) EXCEPT !.ip = Ahead(m), !.issued = FALSE], m.gone + 1)
             EXCEPT !.gone = 0, !.debt = @ - m.gone, !.pc = "halt"]

\* Faulty: the time of HALT does not pass.
BugHaltStep ==
  /\ m.pc = "halt" /\ ~m.issued
  /\ m' = UpdateCpu(m, 0)

HaltStep ==
  /\ m.pc = "halt" /\ ~m.issued
  /\ m' = UpdateCpu(m, IF m.skips THEN LineCycles - m.cyc ELSE 1)

HaltEnd ==
  /\ m.pc = "halt" /\ m.issued
  /\ m' = [m EXCEPT !.pc = "fetch"]

\* Faulty: an interrupt that is accepted here is entered later: the block of
\* the old address is executed first.
BugUpdate ==
  /\ m.pc = "fetch" /\ At(m.ip).op \notin Interpreted
  /\ m' = [UpdateCpu(m, m.gone) EXCEPT !.gone = 0, !.debt = @ - m.gone,
                                       !.pc = "enter", !.ip = m.ip]

Update ==
  /\ m.pc = "fetch" /\ At(m.ip).op \notin Interpreted
  /\ m' = [UpdateCpu(m, m.gone) EXCEPT !.gone = 0, !.debt = @ - m.gone,
                                       !.pc = "enter"]

EnterBlock ==
  /\ m.pc = "enter"
  /\ m' = [Entered(m) EXCEPT !.pc = "block", !.ebp = m.sp, !.eip = m.ip, !.blk = 0]

\* A compiled instruction that goes on at a; jumps are followed.
InBlock(op, a, s) ==
  /\ m.pc = "block" /\ m.blk < BlockCycles /\ At(m.eip).op = op
  /\ m' = [s EXCEPT !.blk = @ + 1, !.debt = @ + 1, !.eip = a]

Next1 == (m.eip + 1) % AddrCount

BlockNop == InBlock("nop", Next1, m)
BlockEi == InBlock("ei", Next1, [m EXCEPT !.ime = TRUE])
BlockJump == m.pc = "block" /\ At(m.eip).op = "jump" /\ \E a \in At(m.eip).to : InBlock("jump", a, m)
BlockPush == InBlock("push", Next1, [m EXCEPT !.ebp = Down(@), !.mem[Down(m.ebp)] = 0])
BlockPop == InBlock("pop", Next1, [m EXCEPT !.ebp = Up(@)])

Leave(ip, sp, n) ==
  [m EXCEPT !.pc = "fetch", !.ip = ip, !.sp = sp, !.gone = n,
            !.ebp = None, !.eip = None, !.blk = 0]

\* A block ends before an instruction that is not compiled, at the cycle
\* limit, after a taken jump or at the end of an area: after any instruction.
BlockExit ==
  /\ m.pc = "block" /\ (m.blk > 0 \/ At(m.eip).op \in Interpreted)
  /\ m' = Leave(m.eip, m.ebp, m.blk)

\* Faulty: the return address stays on the guest's stack.
BugBlockReturn ==
  /\ m.pc = "block" /\ m.blk < BlockCycles /\ At(m.eip).op = "reti"
  /\ m' = [Leave(m.mem[m.ebp], m.ebp, m.blk + 1) EXCEPT !.debt = @ + 1, !.ime = TRUE]

BlockReturn ==
  /\ m.pc = "block" /\ m.blk < BlockCycles /\ At(m.eip).op = "reti"
  /\ m' = [Leave(m.mem[m.ebp], Up(m.ebp), m.blk + 1) EXCEPT !.debt = @ + 1, !.ime = TRUE]

Next ==
  \/ EvadeStore \/ EvadeHalt \/ HaltStep \/ HaltEnd \/ Update \/ EnterBlock
  \/ BlockNop \/ BlockEi \/ BlockJump \/ BlockPush \/ BlockPop
  \/ BlockExit \/ BlockReturn

\* for (;;): the loop's only thread keeps running.
Spec == Init /\ [][Next]_m /\ WF_m(Next)

----------------------------------------------------------------------------
(* Properties                                                               *)

\* With its devices the machine is the run loop of RunLoop: what nested
\* calls of update_cpu do to requests, stack and program counter is one of
\* the outcomes RunLoop allows a single call.
Loop == INSTANCE RunLoop WITH
  Raisable <- Sources,
  pc <- m.pc, ime <- m.ime, int_flag <- m.flag, ie <- m.ie,
  vm_ip <- m.ip, vm_sp <- m.sp, mem <- m.mem, ebp <- m.ebp, blk <- m.blk,
  cycles_gone <- m.gone, interrupt_issued <- m.issued, owed <- m.owed,
  debt <- m.debt, stored <- FALSE

LoopRefined == Loop!Init /\ [][Loop!Next]_(Loop!vars)

\* No VBlank is lost or served twice: each that begins is requested, or
\* accepted and about to be entered, until its handler starts, once.
ServedOnce ==
  m.due = Num(VBLANK \in m.flag) + Num(m.owed # None /\ m.owed.src = VBLANK)

\* Where the instruction at a leads to; a reti, to where it was called from.
After(p, a) ==
  IF p[a].op = "jump" THEN p[a].to
  ELSE IF p[a].op = "reti" THEN {} ELSE {(a + 1) % AddrCount}

\* The premise of the theorem about ServedOnce, on a guest p: only the
\* interrupt leads to VBlank's handler, which begins with a compiled
\* instruction.
EnteredByInterrupt(p) ==
  LET v == Vector(VBLANK) IN
  /\ v # 0 /\ \A i \in Sources \ {VBLANK} : Vector(i) # v
  /\ p[v].op \notin Interpreted
  /\ \A a \in Addr : v \notin After(p, a)

\* Interrupts leave no trace on the guest's stack: the main program, which
\* pushes nothing itself, always finds its stack pointer where it was.
StackBalanced ==
  m.pc # "block" /\ m.ip < VectorBase => m.sp = Slots - 1

\* Its premise: the main program leaves the stack alone, and a handler, which
\* has pushed depth[a] words when it is at a, pops what it pushed before its
\* reti and enables no interrupts itself.
Pushed(op) == IF op = "push" THEN 1 ELSE IF op = "pop" THEN -1 ELSE 0

Disciplined(p, depth) ==
  /\ VectorBase \in Nat \ {0}
  /\ \A i \in Sources : VectorBase <= Vector(i) /\ depth[Vector(i)] = 0
  /\ \A a \in Addr :
       IF a < VectorBase
       THEN /\ p[a].op \notin {"push", "pop", "reti"}
            /\ \A b \in After(p, a) : b < VectorBase
       ELSE /\ p[a].op # "ei" /\ (p[a].op = "reti" => depth[a] = 0)
            /\ \A b \in After(p, a) :
                 VectorBase <= b /\ depth[b] = depth[a] + Pushed(p[a].op)

Depths == [Addr -> 0 .. Slots - 2]
Balanced(p) == \E depth \in Depths : Disciplined(p, depth)

\* The handler of every source the main program has enabled runs again and
\* again, whether the guest waits in HALT or computes, under both settings
\* of HALT_CYCLES and through transfers that take time themselves.
HandlersRun ==
  \A i \in Sources :
    <>[](i \in m.ie) => []<>(m.pc = "block" /\ m.eip = Vector(i))
============================================================================
