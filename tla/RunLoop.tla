------------------------------ MODULE RunLoop ------------------------------
(***************************************************************************)
(* The run loop of the emulator: begin_execution (execute.c), update_cpu   *)
(* (state.c) and the way a compiled block is entered and left              *)
(* (dynarec/vm-exit.c and the register transfers of dynarec()).            *)
(*                                                                         *)
(* One guest processor is spread over two representations.  In the loop    *)
(* the guest's program counter and stack pointer are vm_ip and vm_sp; in a *)
(* compiled block the stack pointer lives in the host's EBP, the program   *)
(* counter is implicit, and vm_ip and vm_sp hold what they held when the   *)
(* block was entered.  Interrupts are delivered by update_cpu, which       *)
(* knows vm_ip and vm_sp only.                                             *)
(*                                                                         *)
(* The guest program is arbitrary: every instruction the loop can meet may *)
(* stand at every address.                                                 *)
(***************************************************************************)
EXTENDS Integers

CONSTANTS
  Sources,      \* interrupt bits, ordered by priority (0..4 in the code)
  Raisable,     \* those inc_timer can set (all but serial in the code)
  AddrCount,    \* number of guest addresses; vm_ip is taken modulo this
  VectorBase,   \* entry of source 0 (0x40 in the code)
  VectorStep,   \* distance of two entries (0x08 in the code)
  Slots,        \* number of stack words; vm_sp is taken modulo this
  BlockCycles,  \* bound: a block is left once it has used this many cycles
  CycleBound,   \* bound: cycles the interpreted instructions may accumulate
  None          \* no value

Addr == 0 .. AddrCount - 1
Slot == 0 .. Slots - 1
Vector(i) == VectorBase + VectorStep * i

ASSUME SourceAssumption == Sources \subseteq Nat /\ Raisable \subseteq Sources
ASSUME SizeAssumption == AddrCount \in Nat \ {0} /\ Slots \in Nat \ {0}
ASSUME VectorAssumption == \A i \in Sources : Vector(i) \in Addr
ASSUME BoundAssumption == BlockCycles \in Nat /\ CycleBound \in Nat

VARIABLES
  pc,                \* "fetch": top of the while loop; "halt": HALT's inner
                     \* loop; "enter": before current_eu(); "block": in it
  ime, int_flag, ie, \* master enable, requested and enabled sources
  vm_ip, vm_sp,      \* the guest registers as memory variables
  mem,               \* the stack words
  ebp,               \* the guest's stack pointer in a block
  blk,               \* cycles of the block's instructions so far
  cycles_gone,       \* cycles not yet given to update_cpu
  interrupt_issued,  \* set by update_cpu, read by HALT's inner loop
  owed,              \* history: the last interrupt accepted and not entered
  debt,              \* history: guest cycles executed and not yet reported
  stored             \* history: compiled code has stored to IF, IE or HDMA5

irq == <<ime, int_flag, ie>>
regs == <<vm_ip, vm_sp, mem>>
vars == <<pc, irq, regs, ebp, blk, cycles_gone, interrupt_issued, owed, debt,
          stored>>

Owed == [src : Sources, ret : Addr, from : {"loop", "block"}]

ASSUME NoneAssumption == None \notin Addr /\ None \notin Slot /\ None \notin Owed

TypeOK ==
  /\ pc \in {"fetch", "halt", "enter", "block"}
  /\ ime \in BOOLEAN /\ interrupt_issued \in BOOLEAN /\ stored \in BOOLEAN
  /\ int_flag \subseteq Sources /\ ie \subseteq Sources
  /\ vm_ip \in Addr /\ vm_sp \in Slot
  /\ mem \in [Slot -> Addr]
  /\ ebp \in Slot \cup {None}
  /\ blk \in Nat /\ cycles_gone \in Nat /\ debt \in Int
  /\ owed \in Owed \cup {None}

Init ==
  /\ pc = "fetch"
  /\ ime = FALSE /\ int_flag = {} /\ ie = {}
  /\ vm_ip = 0 /\ vm_sp = Slots - 1
  /\ mem = [s \in Slot |-> 0]
  /\ ebp = None /\ blk = 0 /\ cycles_gone = 0 /\ interrupt_issued = FALSE
  /\ owed = None /\ debt = 0 /\ stored = FALSE

----------------------------------------------------------------------------
(* update_cpu                                                               *)

Down(sp) == (sp - 1) % Slots
Up(sp) == (sp + 1) % Slots
Ahead(n) == (vm_ip + n) % AddrCount

\* Faulty: the address of the instruction that was just done is pushed.
BugAcceptOldIp(i, req, later, ip) ==
  /\ ime' = FALSE
  /\ vm_sp' = Down(vm_sp) /\ mem' = [mem EXCEPT ![Down(vm_sp)] = vm_ip]
  /\ int_flag' = (req \ {i}) \cup later
  /\ vm_ip' = Vector(i) /\ interrupt_issued' = TRUE
  /\ owed' = [src |-> i, ret |-> ip,
              from |-> IF pc = "block" THEN "block" ELSE "loop"]

\* Faulty: the master enable stays on.
BugAcceptEnabled(i, req, later, ip) ==
  /\ vm_sp' = Down(vm_sp) /\ mem' = [mem EXCEPT ![Down(vm_sp)] = ip]
  /\ int_flag' = (req \ {i}) \cup later
  /\ vm_ip' = Vector(i) /\ interrupt_issued' = TRUE
  /\ owed' = [src |-> i, ret |-> ip,
              from |-> IF pc = "block" THEN "block" ELSE "loop"]
  /\ UNCHANGED ime

\* The body of the if: push ip at vm_sp, clear the request, jump.  A source
\* in later is raised after the request was cleared.
Accept(i, req, later, ip) ==
  /\ ime' = FALSE
  /\ vm_sp' = Down(vm_sp)
  /\ mem' = [mem EXCEPT ![Down(vm_sp)] = ip]
  /\ int_flag' = (req \ {i}) \cup later
  /\ vm_ip' = Vector(i)
  /\ interrupt_issued' = TRUE
  /\ owed' = [src |-> i, ret |-> ip,
              from |-> IF pc = "block" THEN "block" ELSE "loop"]

\* Faulty: the requests are read before inc_timer raises more.
BugUpdateCpuStale(flag, en, ip, issued, due) ==
  \E raised \in SUBSET Raisable :
    LET issue == flag \cap en IN
    \/ /\ ~ime \/ issue = {}
       /\ int_flag' = flag \cup raised
       /\ vm_ip' = ip /\ interrupt_issued' = issued /\ owed' = due
       /\ UNCHANGED <<ime, vm_sp, mem>>
    \/ /\ ime
       /\ \E i \in issue : /\ \A j \in issue : i <= j
                           /\ Accept(i, flag \cup raised, {}, ip)

\* Faulty: the master enable is not looked at.
BugUpdateCpuUnmasked(flag, en, ip, issued, due) ==
  \E raised \in SUBSET Raisable :
    LET issue == (flag \cup raised) \cap en IN
    \/ /\ issue = {}
       /\ int_flag' = flag \cup raised
       /\ vm_ip' = ip /\ interrupt_issued' = issued /\ owed' = due
       /\ UNCHANGED <<ime, vm_sp, mem>>
    \/ \E i \in issue : /\ \A j \in issue : i <= j
                        /\ Accept(i, flag \cup raised, {}, ip)

\* inc_timer raises any set of sources; the lowest enabled one is accepted.
\* flag, en, ip, issued and due are the caller's values of int_flag, ie,
\* vm_ip, interrupt_issued and owed.  An HBlank DMA inside inc_timer calls
\* update_cpu again, so sources may also be raised after the acceptance.
UpdateCpu(flag, en, ip, issued, due) ==
  \E raised \in SUBSET Raisable :
    LET issue == (flag \cup raised) \cap en IN
    \/ /\ ~ime \/ issue = {}
       /\ int_flag' = flag \cup raised
       /\ vm_ip' = ip /\ interrupt_issued' = issued /\ owed' = due
       /\ UNCHANGED <<ime, vm_sp, mem>>
    \/ /\ ime
       /\ \E i \in issue, later \in SUBSET Raisable :
            /\ \A j \in issue : i <= j
            /\ Accept(i, flag \cup raised, later, ip)

\* io_write to IF (0x0F), IE (0xFF) or HDMA5 (0x55): at most one of the two
\* registers changes, then update_cpu runs, for HDMA5 once per 16 bytes.
StoreIO(ip, due) ==
  \E f \in SUBSET Sources, e \in SUBSET Sources :
    /\ f = int_flag \/ e = ie
    /\ ie' = e
    /\ UpdateCpu(f, e, ip, interrupt_issued, due)

----------------------------------------------------------------------------
(* The while loop over the instructions that are not compiled.  E0 and F0   *)
(* take two bytes and three cycles, E2 and F2 one byte and two cycles.      *)

\* A load, or a store to a register that update_cpu does not hang on.
EvadePlain(n) ==
  /\ pc = "fetch" /\ cycles_gone + n + 1 <= CycleBound
  /\ vm_ip' = Ahead(n)
  /\ cycles_gone' = cycles_gone + n + 1 /\ debt' = debt + n + 1
  /\ owed' = None
  /\ UNCHANGED <<pc, irq, vm_sp, mem, ebp, blk, interrupt_issued, stored>>

EvadeStore(n) ==
  /\ pc = "fetch" /\ cycles_gone + n + 1 <= CycleBound
  /\ cycles_gone' = cycles_gone + n + 1 /\ debt' = debt + n + 1
  /\ UNCHANGED <<pc, ebp, blk, stored>>
  /\ StoreIO(Ahead(n), None)

\* HALT up to its inner loop.
EvadeHalt ==
  /\ pc = "fetch"
  /\ UpdateCpu(int_flag, ie, Ahead(1), FALSE, None)
  /\ cycles_gone' = 0 /\ debt' = debt + 1 - (cycles_gone + 1)
  /\ pc' = "halt"
  /\ UNCHANGED <<ie, ebp, blk, stored>>

\* while (!interrupt_issued) update_cpu(HALT_CYCLES);
HaltStep ==
  /\ pc = "halt" /\ ~interrupt_issued
  /\ UpdateCpu(int_flag, ie, vm_ip, interrupt_issued, owed)
  /\ UNCHANGED <<pc, ie, ebp, blk, cycles_gone, debt, stored>>

HaltEnd ==
  /\ pc = "halt" /\ interrupt_issued
  /\ pc' = "fetch"
  /\ UNCHANGED <<irq, regs, ebp, blk, cycles_gone, interrupt_issued, owed, debt,
                 stored>>

\* Faulty: cycles_gone is not reset.
BugUpdateNoReset ==
  /\ pc = "fetch"
  /\ UpdateCpu(int_flag, ie, vm_ip, interrupt_issued, owed)
  /\ debt' = debt - cycles_gone
  /\ pc' = "enter"
  /\ UNCHANGED <<ie, ebp, blk, cycles_gone, stored>>

\* Faulty: only the clock is advanced, requests are left for HALT.
BugUpdateUnpolled ==
  /\ pc = "fetch"
  /\ cycles_gone' = 0 /\ debt' = debt - cycles_gone
  /\ pc' = "enter"
  /\ UNCHANGED <<irq, regs, ebp, blk, interrupt_issued, owed, stored>>

\* The while loop ends at an instruction that can be compiled.
Update ==
  /\ pc = "fetch"
  /\ UpdateCpu(int_flag, ie, vm_ip, interrupt_issued, owed)
  /\ cycles_gone' = 0 /\ debt' = debt - cycles_gone
  /\ pc' = "enter"
  /\ UNCHANGED <<ie, ebp, blk, stored>>

----------------------------------------------------------------------------
(* Compiled blocks                                                          *)

\* current_eu(): the block of vm_ip loads EBP.
EnterBlock ==
  /\ pc = "enter"
  /\ ebp' = vm_sp /\ blk' = 0 /\ owed' = None
  /\ pc' = "block"
  /\ UNCHANGED <<irq, regs, cycles_gone, interrupt_issued, debt, stored>>

\* An instruction of the block; its cycles were counted by dynarec().
InBlock ==
  /\ pc = "block" /\ blk < BlockCycles
  /\ blk' = blk + 1 /\ debt' = debt + 1
  /\ UNCHANGED <<pc, cycles_gone>>

BlockPush ==
  /\ InBlock
  /\ \E a \in Addr : mem' = [mem EXCEPT ![Down(ebp)] = a]
  /\ ebp' = Down(ebp)
  /\ UNCHANGED <<irq, vm_ip, vm_sp, interrupt_issued, owed, stored>>

BlockPop ==
  /\ InBlock
  /\ ebp' = Up(ebp)
  /\ UNCHANGED <<irq, regs, interrupt_issued, owed, stored>>

\* EI and DI; with b = ime, any instruction that leaves all of this alone.
BlockIme ==
  /\ InBlock
  /\ ime' \in BOOLEAN
  /\ UNCHANGED <<int_flag, ie, regs, ebp, interrupt_issued, owed, stored>>

\* A compiled store to IF, IE or HDMA5 faults, and the signal handler calls
\* io_write in the middle of the block.
BlockStore ==
  /\ InBlock
  /\ stored' = TRUE
  /\ UNCHANGED ebp
  /\ StoreIO(vm_ip, owed)

\* exit_vm and the exit code of the block.
Leave(ip, sp, n) ==
  /\ vm_ip' = ip /\ vm_sp' = sp /\ cycles_gone' = n
  /\ ebp' = None /\ blk' = 0
  /\ pc' = "fetch"
  /\ UNCHANGED <<int_flag, ie, mem, interrupt_issued, owed, stored>>

BlockExit ==
  /\ pc = "block"
  /\ \E a \in Addr : Leave(a, ebp, blk)
  /\ UNCHANGED <<ime, debt>>

\* exit_vm_by_ret: ret, the taken ret cc, and reti, which sets ime.
BlockReturn ==
  /\ pc = "block" /\ blk < BlockCycles
  /\ Leave(mem[ebp], Up(ebp), blk + 1)
  /\ debt' = debt + 1
  /\ ime' \in {ime, TRUE}

----------------------------------------------------------------------------

Next ==
  \/ \E n \in {1, 2} : EvadePlain(n) \/ EvadeStore(n)
  \/ EvadeHalt \/ HaltStep \/ HaltEnd
  \/ Update \/ EnterBlock
  \/ BlockPush \/ BlockPop \/ BlockIme \/ BlockStore
  \/ BlockExit \/ BlockReturn

\* for (;;): the loop's only thread keeps running.
Spec == Init /\ [][Next]_vars /\ WF_vars(Next)

----------------------------------------------------------------------------
(* Properties                                                               *)

\* HALT cannot sleep through an interrupt: whatever is raised or enabled
\* around the reset of interrupt_issued (execute.c:472-487), the inner loop
\* never waits while an interrupt could be accepted.
HaltAwake ==
  pc = "halt" /\ ~interrupt_issued => ~(ime /\ int_flag \cap ie # {})

\* An interrupt accepted by the loop is entered: the next instruction the
\* loop fetches or the next block it runs is the vector's, and the address
\* the guest was interrupted at is on top of the guest's stack.
OwedEntered ==
  owed # None /\ owed.from = "loop" /\ pc # "block" =>
    vm_ip = Vector(owed.src) /\ mem[vm_sp] = owed.ret

\* Every guest cycle is reported to the clock exactly once: what the guest
\* has executed and update_cpu has not seen is in cycles_gone, or in the
\* constant that the running block will store there.
CyclesAccounted ==
  debt = cycles_gone + (IF pc = "block" THEN blk ELSE 0)

\* The loop cannot starve an interrupt: a request that is enabled is
\* accepted, or the guest itself masks or withdraws it.
EnabledServed ==
  ime /\ int_flag \cap ie # {} ~> ~(ime /\ int_flag \cap ie # {})

\* HALT with the master enable off is final: requests come in, but only an
\* acceptance sets interrupt_issued, so the inner loop never ends and the
\* guest does nothing any more, whatever is requested and enabled.
Hung == pc = "halt" /\ ~interrupt_issued /\ ~ime

HaltIsFinal == [][Hung => Hung' /\ UNCHANGED <<regs, ie>>]_vars

\* The inductive invariant behind HaltAwake, OwedEntered and CyclesAccounted:
\* the clock is up to date whenever the loop is not fetching, and a block
\* starts with no acceptance of the loop outstanding.
LoopInv ==
  /\ TypeOK /\ HaltAwake /\ OwedEntered /\ CyclesAccounted
  /\ pc # "fetch" => cycles_gone = 0
  /\ pc = "block" =>
       /\ ebp \in Slot
       /\ owed # None => owed.from = "block"

\* The guest sees one processor: with the stack pointer read from EBP in a
\* block and the program counter unknown there, every step of the loop is a
\* step of the interrupt contract or changes nothing the guest can see, up to
\* the first compiled store to IF, IE or HDMA5.
Contract == INSTANCE IrqContract WITH
  req <- int_flag, ena <- ie,
  ip <- IF pc = "block" THEN None ELSE vm_ip,
  sp <- IF pc = "block" THEN ebp ELSE vm_sp,
  asleep <- pc = "halt" /\ ~interrupt_issued

IrqContractHolds ==
  /\ Contract!Init
  /\ [][stored' \/ Contract!Next \/ UNCHANGED Contract!vars]_vars
============================================================================
