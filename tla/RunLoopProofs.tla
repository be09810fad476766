--------------------------- MODULE RunLoopProofs ---------------------------
(***************************************************************************)
(* Theorems about RunLoop, for every set of sources, vector layout, stack  *)
(* size and bound, with and without compiled stores to the I/O registers.  *)
(***************************************************************************)
EXTENDS RunLoop, TLAPS

\* Addresses and stack slots wrap, as 16-bit registers do, and stay in range.
LEMMA WrapLemma ==
  ASSUME NEW n \in Nat \ {0}, NEW a \in Int
  PROVE  a % n \in 0 .. n - 1
  OBVIOUS

\* Pushes and pops stay within the stack.
LEMMA SlotWraps ==
  ASSUME NEW s \in Slot
  PROVE  Down(s) \in Slot /\ Up(s) \in Slot
<1>1. Slots \in Nat \ {0} /\ s - 1 \in Int /\ s + 1 \in Int
  BY SizeAssumption DEF Slot
<1>2. (s - 1) % Slots \in 0 .. Slots - 1
  BY <1>1, WrapLemma
<1>3. (s + 1) % Slots \in 0 .. Slots - 1
  BY <1>1, WrapLemma
<1> QED BY <1>2, <1>3 DEF Slot, Down, Up

\* The next instruction has an address.
LEMMA AddrWraps ==
  ASSUME NEW n \in {1, 2}, vm_ip \in Addr
  PROVE  Ahead(n) \in Addr
<1>1. AddrCount \in Nat \ {0} /\ vm_ip + n \in Int
  BY SizeAssumption DEF Addr
<1>2. (vm_ip + n) % AddrCount \in 0 .. AddrCount - 1
  BY <1>1, WrapLemma
<1> QED BY <1>2 DEF Addr, Ahead

\* What one call of update_cpu does to the variables it may change.  Either
\* nothing can be accepted afterwards and the loop's registers are the
\* caller's, or one interrupt was accepted: the machine is at its vector,
\* the caller's program counter is on the stack and IME is off.
Effect(en, at, issued, due) ==
  /\ ime' \in BOOLEAN /\ interrupt_issued' \in BOOLEAN
  /\ int_flag' \subseteq Sources
  /\ vm_ip' \in Addr /\ vm_sp' \in Slot /\ mem' \in [Slot -> Addr]
  /\ owed' \in Owed \cup {None}
  /\ \/ /\ ~(ime' /\ int_flag' \cap en # {})
        /\ vm_ip' = at /\ interrupt_issued' = issued /\ owed' = due
        /\ UNCHANGED <<ime, vm_sp, mem>>
     \/ /\ ime' = FALSE /\ interrupt_issued' = TRUE
        /\ owed' # None
        /\ owed'.from = IF pc = "block" THEN "block" ELSE "loop"
        /\ vm_ip' = Vector(owed'.src) /\ mem'[vm_sp'] = owed'.ret

\* All that a call of update_cpu does to what the invariant is about.
LEMMA UpdateCpuEffect ==
  ASSUME TypeOK,
         NEW flag, flag \subseteq Sources, NEW en, en \subseteq Sources,
         NEW at \in Addr, NEW issued \in BOOLEAN, NEW due \in Owed \cup {None},
         UpdateCpu(flag, en, at, issued, due)
  PROVE  Effect(en, at, issued, due)
<1>1. PICK raised \in SUBSET Raisable :
        LET issue == (flag \cup raised) \cap en IN
        \/ /\ ~ime \/ issue = {}
           /\ int_flag' = flag \cup raised
           /\ vm_ip' = at /\ interrupt_issued' = issued /\ owed' = due
           /\ UNCHANGED <<ime, vm_sp, mem>>
        \/ /\ ime
           /\ \E i \in issue, later \in SUBSET Raisable :
                /\ \A j \in issue : i <= j
                /\ Accept(i, flag \cup raised, later, at)
  BY DEF UpdateCpu
<1>2. raised \subseteq Sources
  BY SourceAssumption
<1>3. CASE /\ ~ime \/ (flag \cup raised) \cap en = {}
           /\ int_flag' = flag \cup raised
           /\ vm_ip' = at /\ interrupt_issued' = issued /\ owed' = due
           /\ UNCHANGED <<ime, vm_sp, mem>>
  BY <1>2, <1>3 DEF TypeOK, Effect
<1>4. CASE \E i \in (flag \cup raised) \cap en, later \in SUBSET Raisable :
             Accept(i, flag \cup raised, later, at)
  <2>1. PICK i \in (flag \cup raised) \cap en, later \in SUBSET Raisable :
               Accept(i, flag \cup raised, later, at)
    BY <1>4
  <2>2. i \in Sources /\ later \subseteq Sources /\ Vector(i) \in Addr
    BY SourceAssumption, VectorAssumption
  <2>3. Down(vm_sp) \in Slot
    BY SlotWraps DEF TypeOK
  <2>4. owed' = [src |-> i, ret |-> at,
                 from |-> IF pc = "block" THEN "block" ELSE "loop"]
    BY <2>1 DEF Accept
  <2>5. owed' \in Owed
    BY <2>2, <2>4 DEF Owed
  <2>6. owed' # None
    BY <2>5, NoneAssumption
  <2>7. /\ mem' \in [Slot -> Addr] /\ vm_sp' = Down(vm_sp)
        /\ mem'[vm_sp'] = at
    BY <2>1, <2>3 DEF Accept, TypeOK
  <2>8. /\ ime' = FALSE /\ interrupt_issued' = TRUE
        /\ int_flag' \subseteq Sources
        /\ vm_ip' = Vector(i)
    BY <1>2, <2>1, <2>2 DEF Accept
  <2>9. /\ owed'.from = (IF pc = "block" THEN "block" ELSE "loop")
        /\ owed'.src = i /\ owed'.ret = at
    BY <2>4
  <2> QED BY <2>2, <2>3, <2>5, <2>6, <2>7, <2>8, <2>9 DEF Effect
<1> QED BY <1>1, <1>3, <1>4

\* The same for io_write: whichever register was written, IE included.
LEMMA StoreIOEffect ==
  ASSUME TypeOK, NEW at \in Addr, NEW due \in Owed \cup {None}, StoreIO(at, due)
  PROVE  ie' \subseteq Sources /\ Effect(ie', at, interrupt_issued, due)
<1>1. PICK f \in SUBSET Sources, e \in SUBSET Sources :
        ie' = e /\ UpdateCpu(f, e, at, interrupt_issued, due)
  BY DEF StoreIO
<1>2. interrupt_issued \in BOOLEAN
  BY DEF TypeOK
<1> QED BY <1>1, <1>2, UpdateCpuEffect

----------------------------------------------------------------------------

\* The initial states.
LEMMA LoopInvInit == Init => LoopInv
<1> SUFFICES ASSUME Init PROVE LoopInv
  OBVIOUS
<1>1. 0 \in Addr /\ Slots - 1 \in Slot
  BY SizeAssumption DEF Addr, Slot
<1>2. mem \in [Slot -> Addr]
  BY <1>1 DEF Init
<1>3. ime \in BOOLEAN /\ interrupt_issued \in BOOLEAN
  BY DEF Init
<1>4. ebp \in Slot \cup {None} /\ owed \in Owed \cup {None}
  BY DEF Init
<1>5. blk \in Nat /\ cycles_gone \in Nat /\ debt \in Int
  BY DEF Init
<1>6. TypeOK
  BY <1>1, <1>2, <1>3, <1>4, <1>5 DEF Init, TypeOK
<1> QED BY <1>6 DEF Init, LoopInv, HaltAwake, OwedEntered, CyclesAccounted

\* One step keeps the invariant.
LEMMA LoopInvStep == LoopInv /\ [Next]_vars => LoopInv'
<1> SUFFICES ASSUME LoopInv, [Next]_vars PROVE LoopInv'
  OBVIOUS
<1> USE DEF LoopInv, HaltAwake, OwedEntered, CyclesAccounted
<1>1. ASSUME NEW n \in {1, 2}, EvadePlain(n) PROVE LoopInv'
  <2>1. Ahead(n) \in Addr
    BY AddrWraps DEF TypeOK
  <2> QED BY <1>1, <2>1 DEF EvadePlain, TypeOK, irq
<1>2. ASSUME NEW n \in {1, 2}, EvadeStore(n) PROVE LoopInv'
  <2>1. Ahead(n) \in Addr
    BY AddrWraps DEF TypeOK
  <2>2. ie' \subseteq Sources /\ Effect(ie', Ahead(n), interrupt_issued, None)
    BY <1>2, <2>1, StoreIOEffect DEF EvadeStore
  <2> QED BY <1>2, <2>2 DEF EvadeStore, TypeOK, Effect
<1>3. CASE EvadeHalt
  <2>1. Ahead(1) \in Addr
    BY AddrWraps DEF TypeOK
  <2>2. int_flag \subseteq Sources /\ ie \subseteq Sources /\ ie' = ie
    BY <1>3 DEF EvadeHalt, TypeOK
  <2>3. Effect(ie, Ahead(1), FALSE, None)
    BY <1>3, <2>1, <2>2, UpdateCpuEffect DEF EvadeHalt
  <2> QED BY <1>3, <2>2, <2>3 DEF EvadeHalt, TypeOK, Effect
<1>4. CASE HaltStep
  <2>1. Effect(ie, vm_ip, interrupt_issued, owed)
    BY <1>4, UpdateCpuEffect DEF HaltStep, TypeOK
  <2> QED BY <1>4, <2>1 DEF HaltStep, TypeOK, Effect
<1>5. CASE HaltEnd
  BY <1>5 DEF HaltEnd, TypeOK, irq, regs
<1>6. CASE Update
  <2>1. Effect(ie, vm_ip, interrupt_issued, owed)
    BY <1>6, UpdateCpuEffect DEF Update, TypeOK
  <2> QED BY <1>6, <2>1 DEF Update, TypeOK, Effect
<1>7. CASE EnterBlock
  BY <1>7 DEF EnterBlock, TypeOK, irq, regs
<1>8. CASE BlockPush
  <2>1. Down(ebp) \in Slot
    BY <1>8, SlotWraps DEF BlockPush, InBlock
  <2> QED BY <1>8, <2>1 DEF BlockPush, InBlock, TypeOK, irq
<1>9. CASE BlockPop
  <2>1. Up(ebp) \in Slot
    BY <1>9, SlotWraps DEF BlockPop, InBlock
  <2> QED BY <1>9, <2>1 DEF BlockPop, InBlock, TypeOK, irq, regs
<1>10. CASE BlockIme
  BY <1>10 DEF BlockIme, InBlock, TypeOK, regs
<1>11. CASE BlockStore
  <2>1. ie' \subseteq Sources /\ Effect(ie', vm_ip, interrupt_issued, owed)
    BY <1>11, StoreIOEffect DEF BlockStore, TypeOK
  <2> QED BY <1>11, <2>1 DEF BlockStore, InBlock, TypeOK, Effect
<1>12. CASE BlockExit
  BY <1>12 DEF BlockExit, Leave, TypeOK
<1>13. CASE BlockReturn
  <2>1. Up(ebp) \in Slot /\ mem[ebp] \in Addr
    BY <1>13, SlotWraps DEF BlockReturn, TypeOK
  <2>2. ime' \in BOOLEAN
    BY <1>13 DEF BlockReturn, TypeOK
  <2>3. blk + 1 \in Nat
    BY DEF TypeOK
  <2>4. TypeOK'
    BY <1>13, <2>1, <2>2, <2>3 DEF BlockReturn, Leave, TypeOK
  <2> QED BY <1>13, <2>4 DEF BlockReturn, Leave, TypeOK
<1>14. CASE UNCHANGED vars
  BY <1>14 DEF vars, irq, regs, TypeOK
<1> QED BY <1>1, <1>2, <1>3, <1>4, <1>5, <1>6, <1>7, <1>8, <1>9, <1>10, <1>11,
           <1>12, <1>13, <1>14 DEF Next

\* The run loop for any guest: its invariant holds in every reachable state.
THEOREM LoopInvariant == Spec => []LoopInv
  BY LoopInvInit, LoopInvStep, PTL DEF Spec

\* The variables of the run loop keep their types.
THEOREM TypeCorrect == Spec => []TypeOK
<1>1. LoopInv => TypeOK
  BY DEF LoopInv
<1> QED BY <1>1, LoopInvariant, PTL

\* HALT never waits while an interrupt could be accepted.
THEOREM HaltNeverOversleeps == Spec => []HaltAwake
<1>1. LoopInv => HaltAwake
  BY DEF LoopInv
<1> QED BY <1>1, LoopInvariant, PTL

\* What the loop accepts is entered with the right return address on the
\* guest's stack, however many instructions were interpreted in between.
THEOREM AcceptedIsEntered == Spec => []OwedEntered
<1>1. LoopInv => OwedEntered
  BY DEF LoopInv
<1> QED BY <1>1, LoopInvariant, PTL

\* No cycle of the guest is lost or reported twice.
THEOREM ClockComplete == Spec => []CyclesAccounted
<1>1. LoopInv => CyclesAccounted
  BY DEF LoopInv
<1> QED BY <1>1, LoopInvariant, PTL

----------------------------------------------------------------------------
(* The run loop implements the interrupt contract up to the first compiled  *)
(* store to an interrupt register.                                          *)

\* A call of update_cpu outside a block is a delivery of the contract.
LEMMA UpdateDelivers ==
  ASSUME LoopInv, pc # "block", pc' # "block",
         NEW flag, NEW en, ie' = en, NEW at \in Addr,
         NEW issued, NEW due, NEW sleep,
         UpdateCpu(flag, en, at, issued, due),
         interrupt_issued' = issued => sleep = (pc' = "halt" /\ ~issued)
  PROVE  Contract!Deliver(flag, en, at, sleep)
<1> DEFINE issue(r) == (flag \cup r) \cap en
<1>1. PICK raised \in SUBSET Raisable :
        \/ /\ ~ime \/ issue(raised) = {}
           /\ int_flag' = flag \cup raised
           /\ vm_ip' = at /\ interrupt_issued' = issued
           /\ UNCHANGED <<ime, vm_sp, mem>>
        \/ /\ ime
           /\ \E i \in issue(raised), later \in SUBSET Raisable :
                /\ \A j \in issue(raised) : i <= j
                /\ Accept(i, flag \cup raised, later, at)
  BY DEF UpdateCpu
<1>2. CASE /\ ~ime \/ issue(raised) = {}
           /\ int_flag' = flag \cup raised
           /\ vm_ip' = at /\ interrupt_issued' = issued
           /\ UNCHANGED <<ime, vm_sp, mem>>
  BY <1>2 DEF Contract!Deliver, Addr, Contract!Addr
<1>3. CASE /\ ime
           /\ \E i \in issue(raised), later \in SUBSET Raisable :
                /\ \A j \in issue(raised) : i <= j
                /\ Accept(i, flag \cup raised, later, at)
  <2>1. PICK i \in issue(raised), later \in SUBSET Raisable :
               /\ \A j \in issue(raised) : i <= j
               /\ Accept(i, flag \cup raised, later, at)
    BY <1>3
  <2> QED BY <1>3, <2>1
             DEF Contract!Deliver, Accept, Vector, Down, Addr, Contract!Addr
<1> QED BY <1>1, <1>2, <1>3

\* The contract starts where the loop starts.
LEMMA ContractInit == Init => Contract!Init
  BY DEF Init, Contract!Init, Slot, Contract!Slot

\* A step is one of the contract, or a stutter, until compiled code has
\* stored to the interrupt registers.
LEMMA ContractStep ==
  LoopInv /\ [Next]_vars => stored' \/ Contract!Next \/ UNCHANGED Contract!vars
<1> SUFFICES ASSUME LoopInv, [Next]_vars, ~stored'
             PROVE  Contract!Next \/ UNCHANGED Contract!vars
  OBVIOUS
<1> USE DEF LoopInv
<1>1. ASSUME NEW n \in {1, 2}, EvadePlain(n) PROVE Contract!Execute
  <2>1. Ahead(n) \in Addr
    BY AddrWraps DEF TypeOK
  <2> QED BY <1>1, <2>1
             DEF EvadePlain, Contract!Execute, irq, TypeOK, Addr, Contract!Addr
<1>2. ASSUME NEW n \in {1, 2}, EvadeStore(n) PROVE Contract!Store
  <2>1. Ahead(n) \in Addr
    BY AddrWraps DEF TypeOK
  <2>2. PICK f \in SUBSET Sources, e \in SUBSET Sources :
          /\ f = int_flag \/ e = ie
          /\ ie' = e
          /\ UpdateCpu(f, e, Ahead(n), interrupt_issued, None)
    BY <1>2 DEF EvadeStore, StoreIO
  <2>3. Contract!Deliver(f, e, Ahead(n), FALSE)
    BY <1>2, <2>1, <2>2, UpdateDelivers DEF EvadeStore
  <2> QED BY <1>2, <2>1, <2>2, <2>3
             DEF EvadeStore, Contract!Store, Addr, Contract!Addr
<1>3. ASSUME EvadeHalt PROVE Contract!Halt
  <2>1. Ahead(1) \in Addr
    BY AddrWraps DEF TypeOK
  <2>2. Contract!Deliver(int_flag, ie, Ahead(1), TRUE)
    BY <1>3, <2>1, UpdateDelivers DEF EvadeHalt
  <2> QED BY <1>3, <2>1, <2>2 DEF EvadeHalt, Contract!Halt, Addr, Contract!Addr
<1>4. ASSUME HaltStep PROVE Contract!Poll
  BY <1>4, UpdateDelivers DEF HaltStep, Contract!Poll, TypeOK
<1>5. ASSUME HaltEnd PROVE UNCHANGED Contract!vars
  BY <1>5 DEF HaltEnd, Contract!vars, irq, regs
<1>6. ASSUME Update PROVE Contract!Poll
  BY <1>6, UpdateDelivers DEF Update, Contract!Poll, TypeOK
<1>7. ASSUME EnterBlock PROVE Contract!Execute
  BY <1>7 DEF EnterBlock, Contract!Execute, irq, regs, TypeOK
<1>8. ASSUME BlockPush PROVE Contract!Execute
  BY <1>8 DEF BlockPush, InBlock, Down, Contract!Execute, irq, TypeOK, Addr,
              Contract!Addr
<1>9. ASSUME BlockPop PROVE Contract!Execute
  BY <1>9 DEF BlockPop, InBlock, Up, Contract!Execute, irq, regs, TypeOK
<1>10. ASSUME BlockIme PROVE Contract!Execute
  BY <1>10 DEF BlockIme, InBlock, Contract!Execute, regs, TypeOK
<1>11. ~BlockStore
  <2>1. BlockStore => stored'
    BY DEF BlockStore
  <2> QED BY <2>1
<1>12. ASSUME BlockExit PROVE Contract!Execute
  BY <1>12 DEF BlockExit, Leave, Contract!Execute, TypeOK, Addr, Contract!Addr
<1>13. ASSUME BlockReturn PROVE Contract!Execute
  <2>1. mem[ebp] \in Addr
    BY <1>13 DEF BlockReturn, TypeOK
  <2> QED BY <1>13, <2>1
             DEF BlockReturn, Leave, Up, Contract!Execute, TypeOK, Addr, Contract!Addr
<1>14. CASE UNCHANGED vars
  BY <1>14 DEF vars, irq, regs, Contract!vars
<1> QED BY <1>1, <1>2, <1>3, <1>4, <1>5, <1>6, <1>7, <1>8, <1>9, <1>10, <1>11,
           <1>12, <1>13, <1>14 DEF Next, Contract!Next

\* The guest cannot tell the loop, with its registers in two places, from one
\* processor that accepts interrupts between two instructions.
THEOREM LoopImplementsContract == Spec => IrqContractHolds
<1>1. LoopInv /\ [Next]_vars
        => [stored' \/ Contract!Next \/ UNCHANGED Contract!vars]_vars
  BY ContractStep
<1> QED BY <1>1, ContractInit, LoopInvariant, PTL DEF Spec, IrqContractHolds

----------------------------------------------------------------------------
(* HALT with the master enable off.                                         *)

\* Without the master enable a call of update_cpu accepts nothing.
LEMMA UpdateCpuMasked ==
  ASSUME ~ime, NEW flag, NEW en, NEW at, NEW issued, NEW due,
         UpdateCpu(flag, en, at, issued, due)
  PROVE  vm_ip' = at /\ interrupt_issued' = issued /\ UNCHANGED <<ime, vm_sp, mem>>
  BY DEF UpdateCpu

\* A guest that halts with the master enable off is never heard of again:
\* the inner loop of HALT goes on for ever and nothing of the guest changes.
THEOREM HaltWithoutEnableIsFinal == Spec => HaltIsFinal
<1>1. ASSUME [Next]_vars, Hung PROVE Hung' /\ UNCHANGED <<regs, ie>>
  <2>1. CASE HaltStep
    <3>1. vm_ip' = vm_ip /\ interrupt_issued' = interrupt_issued
          /\ UNCHANGED <<ime, vm_sp, mem>>
      BY <1>1, <2>1, UpdateCpuMasked DEF Hung, HaltStep
    <3> QED BY <1>1, <2>1, <3>1 DEF Hung, HaltStep, regs
  <2>2. CASE UNCHANGED vars
    BY <1>1, <2>2 DEF Hung, vars, irq, regs
  <2>3. HaltStep \/ UNCHANGED vars
    BY <1>1 DEF Hung, Next, EvadePlain, EvadeStore, EvadeHalt, HaltEnd, Update,
                EnterBlock, BlockPush, BlockPop, BlockIme, BlockStore, InBlock,
                BlockExit, BlockReturn
  <2> QED BY <2>1, <2>2, <2>3
<1>2. [Next]_vars => [Hung => Hung' /\ UNCHANGED <<regs, ie>>]_vars
  BY <1>1
<1> QED BY <1>2, PTL DEF Spec, HaltIsFinal
============================================================================
