---------------------------- MODULE MemoryProofs ----------------------------
(***************************************************************************)
(* Theorems about Banking and Regions, for every set of bytes the guest    *)
(* writes, every cartridge check_cartridge accepts, and all of the guest's *)
(* addresses; and about Joypad, the register P1.                           *)
(***************************************************************************)
EXTENDS Regions, Joypad, TLAPS

----------------------------------------------------------------------------
(* Banking                                                                  *)

\* The masks of the controllers' registers.
LEMMA Masked ==
  ASSUME NEW a \in Nat, NEW n \in {2, 4, 8, 16, 32, 256}
  PROVE  a % n \in 0 .. n - 1
  OBVIOUS

\* A byte, and what the masks make of it.
LEMMA Byte ==
  ASSUME NEW v \in Bytes
  PROVE  /\ v \in Nat
         /\ v % 2 \in {0, 1} /\ v % 4 \in 0 .. 3 /\ v % 8 \in 0 .. 7
         /\ v % 16 \in Nat /\ v % 32 \in Nat
<1>1. v \in Nat
  BY ByteAssumption
<1>2. v % 2 \in 0 .. 1 /\ v % 4 \in 0 .. 3 /\ v % 8 \in 0 .. 7
      /\ v % 16 \in 0 .. 15 /\ v % 32 \in 0 .. 31
  BY <1>1, Masked
<1> QED BY <1>1, <1>2

\* The part of the invariant about the RAM window.
RamInv ==
  /\ RamWindowCurrent /\ EnabledMapped /\ DisabledUnmapped
  /\ ~cart.ram => ram = None

\* A cartridge with RAM has it mapped at the start.
LEMMA BankInvInit == Init => BankInv
<1> SUFFICES ASSUME Init PROVE BankInv
  OBVIOUS
<1>1. cart.ram \in BOOLEAN
  BY DEF Init, Cartridges
<1>2. ram \in Nat \cup {None} /\ (~cart.ram => ram = None) /\ (ram # None => ram = 0)
  BY <1>1 DEF Init
<1>3. TypeOK
  <2>1. ram_enabled \in BOOLEAN /\ dead \in BOOLEAN /\ armed \in BOOLEAN
    BY DEF Init
  <2> QED BY <1>2, <2>1 DEF Init, TypeOK
<1>4. RamWindowCurrent /\ EnabledMapped /\ DisabledUnmapped
  BY <1>2 DEF Init, RamWindowCurrent, EnabledMapped, DisabledUnmapped, Clock
<1>5. WindowsCurrent
  BY DEF Init, WindowsCurrent
<1> QED BY <1>2, <1>3, <1>4, <1>5 DEF BankInv

\* A switch of the ROM bank moves the window and the translator's key
\* together and leaves the RAM alone.
LEMMA SwitchRomStep ==
  ASSUME BankInv, NEW b \in Nat, SwitchRom(b), UNCHANGED <<cart, ioVars>>
  PROVE  BankInv'
  BY DEF SwitchRom, BankInv, TypeOK, WindowsCurrent, RamWindowCurrent,
         EnabledMapped, DisabledUnmapped, Clock, ramVars, ioVars

\* A step that changes nothing but the RAM window and its registers keeps
\* the invariant if it keeps the types of these and RamInv.
LEMMA RamStep ==
  ASSUME BankInv, UNCHANGED <<cart, romVars, mode, latched_state, ioVars>>,
         cramb' \in Nat, ram' \in Nat \cup {None}, ram_enabled' \in BOOLEAN,
         dead' \in BOOLEAN, armed' \in BOOLEAN, RamInv'
  PROVE  BankInv'
  BY DEF BankInv, TypeOK, WindowsCurrent, romVars, ioVars, RamInv

\* A bank is mapped, or the emulator ends.
LEMMA SelectRamTypes ==
  ASSUME BankInv, NEW b \in Nat, SelectRam(b)
  PROVE  ram' \in Nat \cup {None} /\ dead' \in BOOLEAN
  BY DEF BankInv, TypeOK, SelectRam

\* Enabling and disabling the RAM.
LEMMA ControlStep ==
  ASSUME BankInv, NEW v \in Bytes, Control(v), UNCHANGED <<cart, ioVars>>
  PROVE  BankInv'
<1>1. /\ cramb' \in Nat /\ ram_enabled' \in BOOLEAN /\ armed' \in BOOLEAN
      /\ ram_enabled' = (v = 10) /\ armed' = TRUE /\ cramb' = cramb /\ cart' = cart
  BY DEF Control, BankInv, TypeOK
<1>2. UNCHANGED <<cart, romVars, mode, latched_state, ioVars>>
  BY DEF Control
<1>3. CASE v = 0 /\ UnselectRam
  <2>1. RamInv'
    <3>1. v # 10
      BY <1>3
    <3>2. ~ram_enabled'
      BY <1>1, <3>1, Zenon
    <3> QED BY <1>1, <1>3, <3>2 DEF UnselectRam, RamInv, RamWindowCurrent, EnabledMapped, DisabledUnmapped
  <2> QED BY <1>1, <1>2, <1>3, <2>1, RamStep DEF UnselectRam
<1>4. CASE v = 10 /\ Clock(cramb) /\ UnselectRam
  <2>1. RamInv'
    BY <1>1, <1>4 DEF UnselectRam, RamInv, RamWindowCurrent, EnabledMapped,
                      DisabledUnmapped, Clock
  <2> QED BY <1>1, <1>2, <1>4, <2>1, RamStep DEF UnselectRam
<1>5. CASE v = 10 /\ ~Clock(cramb) /\ ram # None /\ KeepRam
  <2>1. RamInv'
    BY <1>1, <1>5 DEF KeepRam, BankInv, RamInv, RamWindowCurrent, EnabledMapped,
                      DisabledUnmapped, Clock
  <2>2. ram' \in Nat \cup {None} /\ dead' \in BOOLEAN
    BY <1>5 DEF KeepRam, BankInv, TypeOK
  <2> QED BY <1>1, <1>2, <2>1, <2>2, RamStep
<1>6. CASE v = 10 /\ ~Clock(cramb) /\ ram = None /\ SelectRam(cramb)
  <2>1. RamInv'
    BY <1>1, <1>6, NoneAssumption
       DEF SelectRam, BankInv, RamInv, RamWindowCurrent, EnabledMapped,
           DisabledUnmapped, Clock, TypeOK
  <2>2. ram' \in Nat \cup {None} /\ dead' \in BOOLEAN
    BY <1>6, SelectRamTypes DEF BankInv, TypeOK
  <2> QED BY <1>1, <1>2, <2>1, <2>2, RamStep
<1> QED BY <1>3, <1>4, <1>5, <1>6 DEF Control

\* Selecting a RAM bank with MBC3 and MBC5.
LEMMA SwitchRamStep ==
  ASSUME BankInv, NEW b \in Nat, ~Clock(b), SwitchRam(b), UNCHANGED <<cart, ioVars>>
  PROVE  BankInv'
<1>1. /\ cramb' \in Nat /\ ram_enabled' \in BOOLEAN /\ armed' \in BOOLEAN
      /\ cramb' = b /\ ram_enabled' = ram_enabled /\ cart' = cart
  BY DEF SwitchRam, BankInv, TypeOK
<1>2. UNCHANGED <<cart, romVars, mode, latched_state, ioVars>>
  BY DEF SwitchRam
<1>3. CASE ram_enabled /\ SelectRam(b)
  <2>1. RamInv'
    BY <1>1, <1>3, NoneAssumption
       DEF SelectRam, BankInv, RamInv, RamWindowCurrent, EnabledMapped,
           DisabledUnmapped, Clock
  <2> QED BY <1>1, <1>2, <1>3, <2>1, RamStep, SelectRamTypes
<1>4. CASE ~ram_enabled /\ UnselectRam
  <2>1. RamInv'
    BY <1>1, <1>4 DEF UnselectRam, RamInv, RamWindowCurrent, EnabledMapped, DisabledUnmapped
  <2> QED BY <1>1, <1>2, <1>4, <2>1, RamStep DEF UnselectRam
<1> QED BY <1>3, <1>4 DEF SwitchRam

\* MBC1 keeps a mapped window where it is; RamWindowCurrent is not about it.
LEMMA Mbc1RamStep ==
  ASSUME BankInv, cart.mbc = 1, NEW v \in Bytes, Mbc1Ram(v),
         UNCHANGED <<cart, ioVars>>
  PROVE  BankInv'
<1>1. /\ cramb' \in Nat /\ ram_enabled' \in BOOLEAN /\ armed' \in BOOLEAN
      /\ ram_enabled' = ram_enabled /\ armed' = armed /\ cart' = cart
      /\ v % 4 \in Nat
  BY Byte DEF Mbc1Ram, BankInv, TypeOK
<1>2. UNCHANGED <<cart, romVars, mode, latched_state, ioVars>>
  BY DEF Mbc1Ram
<1>3. CASE ram_enabled /\ ram = None /\ SelectRam(v % 4)
  <2>1. RamInv'
    BY <1>1, <1>3, NoneAssumption
       DEF SelectRam, BankInv, RamInv, RamWindowCurrent, EnabledMapped,
           DisabledUnmapped, Clock
  <2> QED BY <1>1, <1>2, <1>3, <2>1, RamStep, SelectRamTypes
<1>4. CASE ~(ram_enabled /\ ram = None) /\ KeepRam
  <2>1. RamInv'
    BY <1>1, <1>4 DEF KeepRam, BankInv, RamInv, RamWindowCurrent, EnabledMapped,
                      DisabledUnmapped, Clock
  <2>2. ram' \in Nat \cup {None} /\ dead' \in BOOLEAN
    BY <1>4 DEF KeepRam, BankInv, TypeOK
  <2> QED BY <1>1, <1>2, <2>1, <2>2, RamStep
<1> QED BY <1>3, <1>4 DEF Mbc1Ram

\* Steps that touch none of the windows: MBC1's mode and MBC3's latch.
LEMMA RegisterStep ==
  ASSUME BankInv, UNCHANGED <<cart, ioVars, romVars, ramVars, dead>>,
         mode' \in {0, 1}, latched_state' \in {0, 1}
  PROVE  BankInv'
  BY DEF BankInv, TypeOK, WindowsCurrent, RamWindowCurrent, EnabledMapped,
         DisabledUnmapped, Clock, ioVars, romVars, ramVars

\* The end of the emulator moves nothing.
LEMMA DieStep ==
  ASSUME BankInv, Die, UNCHANGED <<cart, ioVars>>
  PROVE  BankInv'
  BY DEF Die, BankInv, TypeOK, WindowsCurrent, RamWindowCurrent, EnabledMapped,
         DisabledUnmapped, Clock, ioVars, romVars, ramVars

\* A write to MBC1.
LEMMA Mbc1Step ==
  ASSUME BankInv, NEW v \in Bytes, Mbc1Write(v), UNCHANGED <<cart, ioVars>>
  PROVE  BankInv'
<1>1. cart.mbc = 1
  BY DEF Mbc1Write
<1>2. CASE Mbc1Rom(v)
  BY <1>2, Byte, SwitchRomStep DEF Mbc1Rom
<1>3. CASE Mbc1RomHigh(v)
  <2>1. cromb % 32 \in 0 .. 31 /\ v % 4 \in 0 .. 3
    BY Masked, Byte DEF BankInv, TypeOK
  <2>2. (cromb % 32) + 32 * (v % 4) \in Nat
    BY <2>1
  <2> QED BY <1>3, <2>2, SwitchRomStep DEF Mbc1RomHigh
<1>4. CASE Mbc1Mode(v)
  BY <1>4, Byte, RegisterStep DEF Mbc1Mode, BankInv, TypeOK
<1> QED BY <1>1, <1>2, <1>3, <1>4, ControlStep, Mbc1RamStep DEF Mbc1Write

\* A write to MBC3.
LEMMA Mbc3Step ==
  ASSUME BankInv, NEW v \in Bytes, Mbc3Write(v), UNCHANGED <<cart, ioVars>>
  PROVE  BankInv'
<1>1. v \in Nat
  BY Byte
<1>2. CASE Mbc3Rom(v)
  BY <1>1, <1>2, SwitchRomStep DEF Mbc3Rom
<1>3. CASE Mbc3Ram(v)
  <2>1. ~Clock(v)
    BY <1>1, <1>3 DEF Mbc3Ram, Clock
  <2> QED BY <1>1, <1>3, <2>1, SwitchRamStep DEF Mbc3Ram
<1>4. CASE Mbc3Clock(v)
  <2>1. RamInv' /\ UNCHANGED <<romVars, mode, latched_state, ram_enabled, armed>>
    BY <1>1, <1>4 DEF Mbc3Write, Mbc3Clock, UnselectRam, RamInv, RamWindowCurrent,
                      EnabledMapped, DisabledUnmapped, Clock
  <2>2. /\ cramb' \in Nat /\ ram' \in Nat \cup {None} /\ dead' \in BOOLEAN
        /\ ram_enabled' \in BOOLEAN /\ armed' \in BOOLEAN
    BY <1>1, <1>4, <2>1 DEF Mbc3Clock, UnselectRam, BankInv, TypeOK
  <2> QED BY <2>1, <2>2, RamStep
<1>5. CASE Mbc3Latch(v)
  BY <1>5, RegisterStep DEF Mbc3Latch, BankInv, TypeOK
<1> QED BY <1>2, <1>3, <1>4, <1>5, ControlStep DEF Mbc3Write

\* A write to MBC5.
LEMMA Mbc5Step ==
  ASSUME BankInv, NEW v \in Bytes, Mbc5Write(v), UNCHANGED <<cart, ioVars>>
  PROVE  BankInv'
<1>1. /\ cart.mbc = 5 /\ v \in Nat /\ v % 2 \in {0, 1} /\ v % 16 \in Nat
      /\ cromb \in Nat
  BY Byte DEF Mbc5Write, BankInv, TypeOK
<1>2. cromb % 256 \in 0 .. 255 /\ cromb % 256 <= cromb
  BY <1>1
<1>3. CASE Mbc5RomLow(v)
  <2>1. cromb - (cromb % 256) + v \in Nat
    BY <1>1, <1>2
  <2> QED BY <1>3, <2>1, SwitchRomStep DEF Mbc5RomLow
<1>4. CASE Mbc5RomHigh(v)
  <2>1. (cromb % 256) + 256 * (v % 2) \in Nat
    BY <1>1, <1>2
  <2> QED BY <1>4, <2>1, SwitchRomStep DEF Mbc5RomHigh
<1>5. CASE Mbc5Ram(v)
  <2>1. ~Clock(v % 16)
    BY <1>1 DEF Clock
  <2> QED BY <1>1, <1>5, <2>1, SwitchRamStep DEF Mbc5Ram
<1> QED BY <1>3, <1>4, <1>5, ControlStep DEF Mbc5Write

\* One step keeps the invariant.
LEMMA BankInvStep == BankInv /\ [Next]_vars => BankInv'
<1> SUFFICES ASSUME BankInv, [Next]_vars PROVE BankInv'
  OBVIOUS
<1>1. ASSUME NEW v \in Bytes, RomWrite(v) PROVE BankInv'
  <2>1. UNCHANGED <<cart, ioVars>>
    BY <1>1 DEF RomWrite
  <2> QED BY <1>1, <2>1, Mbc1Step, Mbc3Step, Mbc5Step, DieStep DEF RomWrite
<1>2. ASSUME NEW v \in Bytes, VramBank(v) PROVE BankInv'
  BY <1>2, Byte DEF VramBank, romVars, ramVars, BankInv, TypeOK, WindowsCurrent,
                    RamWindowCurrent, EnabledMapped, DisabledUnmapped, Clock
<1>3. ASSUME NEW v \in Bytes, WramBank(v) PROVE BankInv'
  <2>1. PICK b \in 1 .. 7 : svbk' = b /\ wram' = b
    BY <1>3, Byte DEF WramBank
  <2> QED BY <1>3, <2>1
             DEF WramBank, romVars, ramVars, BankInv, TypeOK, WindowsCurrent,
                 RamWindowCurrent, EnabledMapped, DisabledUnmapped, Clock
<1>4. CASE RamWriteFatal
  BY <1>4, DieStep DEF RamWriteFatal
<1>5. CASE RamReadFatal
  BY <1>5, DieStep DEF RamReadFatal
<1>6. CASE UNCHANGED vars
  BY <1>6, RegisterStep DEF vars, BankInv, TypeOK
<1> QED BY <1>1, <1>2, <1>3, <1>4, <1>5, <1>6 DEF Next

\* Registers and mappings are in step in every reachable state, for every
\* set of bytes that the guest writes.
THEOREM BankInvariant == Spec => []BankInv
  BY BankInvInit, BankInvStep, PTL DEF Spec

\* What is mapped is what the registers select.
THEOREM MappingsAreCurrent == Spec => []WindowsCurrent
<1>1. BankInv => WindowsCurrent
  BY DEF BankInv
<1> QED BY <1>1, BankInvariant, PTL

\* With MBC3 and MBC5 the RAM window is the selected bank.
THEOREM RamWindowIsCurrent == Spec => []RamWindowCurrent
<1>1. BankInv => RamWindowCurrent
  BY DEF BankInv
<1> QED BY <1>1, BankInvariant, PTL

\* Disabled RAM is out of the guest's reach.
THEOREM DisabledIsUnmapped == Spec => []DisabledUnmapped
<1>1. BankInv => DisabledUnmapped
  BY DEF BankInv
<1> QED BY <1>1, BankInvariant, PTL

\* What a step must have met for the emulator to give up in it.
Reason ==
  \/ ~cart.ram \/ cart.mbc \notin {1, 3, 5}
  \/ ~ram_enabled /\ ram = None
  \/ Clock(cramb)

\* One step that ends the emulator has one of the reasons.
LEMMA DeathHasReason == BankInv /\ [Next]_vars => (~dead /\ dead' => Reason)
<1> SUFFICES ASSUME BankInv, [Next]_vars, ~dead, dead' PROVE Reason
  OBVIOUS
<1>1. ASSUME NEW v \in Bytes, RomWrite(v) PROVE Reason
  <2>1. CASE Mbc1Write(v)
    BY <2>1 DEF Mbc1Write, Control, Mbc1Rom, Mbc1RomHigh, Mbc1Ram, Mbc1Mode,
                SwitchRom, SelectRam, UnselectRam, KeepRam, Reason
  <2>2. CASE Mbc3Write(v)
    BY <2>2 DEF Mbc3Write, Control, Mbc3Rom, Mbc3Ram, Mbc3Clock, Mbc3Latch,
                SwitchRom, SwitchRam, SelectRam, UnselectRam, KeepRam, Reason
  <2>3. CASE Mbc5Write(v)
    BY <2>3 DEF Mbc5Write, Control, Mbc5RomLow, Mbc5RomHigh, Mbc5Ram,
                SwitchRom, SwitchRam, SelectRam, UnselectRam, KeepRam, Reason
  <2> QED BY <1>1, <2>1, <2>2, <2>3 DEF RomWrite, Reason
<1>2. ASSUME NEW v \in Bytes, VramBank(v) \/ WramBank(v) PROVE FALSE
  BY <1>2 DEF VramBank, WramBank
<1>3. ASSUME RamWriteFatal \/ RamReadFatal PROVE Reason
  <2>1. ram = None
    BY <1>3 DEF RamWriteFatal, RamReadFatal
  <2> QED BY <2>1 DEF BankInv, EnabledMapped, Reason
<1>4. CASE UNCHANGED vars
  BY <1>4 DEF vars
<1> QED BY <1>1, <1>2, <1>3, <1>4 DEF Next

\* No access to RAM that is enabled and selected ends the emulator.
THEOREM DeathIsJustified == Spec => DiesForAReason
<1>1. BankInv /\ [Next]_vars => [~dead /\ dead' => Reason]_vars
  BY DeathHasReason
<1>2. Spec => [][~dead /\ dead' => Reason]_vars
  BY <1>1, BankInvariant, PTL DEF Spec
<1> QED BY <1>2 DEF DiesForAReason, Reason

----------------------------------------------------------------------------
(* Regions                                                                  *)

\* Where the registers say RAM is, it is, and nowhere else.
LEMMA RamIsWhereItShould ==
  ASSUME BankInv, ~dead
  PROVE  RamBank = ram
<1>1. CASE cart.mbc = 1 \/ ~armed
  BY <1>1 DEF RamBank
<1>2. CASE cart.mbc # 1 /\ armed /\ ram_enabled /\ ~Clock(cramb)
  BY <1>2 DEF RamBank, BankInv, EnabledMapped, RamWindowCurrent
<1>3. CASE cart.mbc # 1 /\ armed /\ ~(ram_enabled /\ ~Clock(cramb))
  BY <1>3 DEF RamBank, BankInv, DisabledUnmapped, RamWindowCurrent
<1> QED BY <1>1, <1>2, <1>3

\* What is mapped is what the guest means.
LEMMA MappedIsOwned ==
  ASSUME BankInv, ~dead, NEW a \in Addr, NEW w \in Access, ~Faults(a, w)
  PROVE  Mapped(a) = Owner(a, w)
<1>1. a \in Nat /\ a < 61440 /\ ~(a < 32768 /\ w = "store")
  BY DEF Faults, Addr
<1>2. /\ RamBank = ram /\ rom = cromb /\ vram = vbk
      /\ wram = IF svbk = 0 THEN 1 ELSE svbk
  BY RamIsWhereItShould DEF BankInv, WindowsCurrent
<1>3. CASE a < 49152
  BY <1>1, <1>2, <1>3 DEF Mapped, Owner
<1>4. CASE a >= 49152 /\ a < 57344
  <2>1. Owner(a, w) = Wram(a - 49152)
    BY <1>1, <1>4 DEF Owner
  <2> QED BY <1>1, <1>2, <1>4, <2>1 DEF Mapped, Wram
<1>5. CASE a >= 57344
  <2>1. Owner(a, w) = Wram(a - 57344)
    BY <1>1, <1>5 DEF Owner
  <2> QED BY <1>1, <1>5, <2>1 DEF Mapped, Wram
<1> QED BY <1>1, <1>3, <1>4, <1>5

\* The high memory.
LEMMA HmemIsOwned ==
  ASSUME BankInv, NEW a \in Addr, NEW off \in Nat, a = 61440 + off, NEW w \in Access
  PROVE  Hmem(off, w) = Owner(a, w)
<1>1. off < 4096
  BY DEF Addr
<1>2. CASE off < 3584
  <2>1. /\ 53248 + off >= 53248 /\ 53248 + off < 57344
        /\ 53248 + off - 53248 = off
    BY <1>1, <1>2
  <2>2. ~Faults(53248 + off, w) /\ Mapped(53248 + off) = <<"wram", wram, off>>
    BY <2>1 DEF Faults, Mapped
  <2>3. Hmem(off, w) = <<"wram", wram, off>>
    BY <1>2, <2>2 DEF Hmem, Direct
  <2>4. Owner(a, w) = Wram(4096 + off)
    BY <1>1, <1>2 DEF Owner
  <2>5. Wram(4096 + off) = <<"wram", wram, off>>
    BY <1>1 DEF Wram, BankInv, WindowsCurrent
  <2> QED BY <2>3, <2>4, <2>5
<1>3. CASE off >= 3584 /\ off < 3840
  <2>1. off % 256 = off - 3584
    BY <1>3
  <2> QED BY <1>3, <2>1 DEF Hmem, Owner
<1>4. CASE off >= 3840 /\ (off < 3968 \/ off = 4095)
  <2>1. off % 256 = off - 3840
    BY <1>1, <1>4
  <2> QED BY <1>4, <2>1 DEF Hmem, Owner
<1>5. CASE off >= 3968 /\ off # 4095
  <2>1. off % 128 = off - 3968
    BY <1>1, <1>5
  <2> QED BY <1>1, <1>5, <2>1 DEF Hmem, Owner
<1> QED BY <1>1, <1>2, <1>3, <1>4, <1>5

\* Accesses of the emulator's own code below the high memory.
LEMMA DirectReaches ==
  ASSUME BankInv, ~dead, NEW a \in Addr, a < 61440, NEW w \in Access
  PROVE  Reaches(Direct(a, w), a, w)
<1>1. CASE Faults(a, w)
  BY <1>1 DEF Direct, Reaches
<1>2. CASE ~Faults(a, w)
  <2>1. Mapped(a) = Owner(a, w)
    BY <1>2, MappedIsOwned
  <2> QED BY <1>2, <2>1 DEF Direct, Reaches
<1> QED BY <1>1, <1>2

\* What the fault handler makes of a fault at a byte.
LEMMA HandlerIsOwned ==
  ASSUME BankInv, ~dead, NEW a \in Addr
  PROVE  /\ Faults(a, "load") => UnsafeRead8(a) = Owner(a, "load")
         /\ Faults(a, "store") => UnsafeWrite8(a) = Owner(a, "store")
<1>1. CASE a >= 61440
  <2>1. a - 61440 \in Nat /\ a = 61440 + (a - 61440)
    BY <1>1 DEF Addr
  <2>2. "load" \in Access /\ "store" \in Access
    BY DEF Access
  <2>3. \A w \in Access : Hmem(a - 61440, w) = Owner(a, w)
    BY <2>1, HmemIsOwned
  <2> QED BY <1>1, <2>2, <2>3 DEF UnsafeRead8, UnsafeWrite8
<1>2. CASE a < 32768
  BY <1>2 DEF UnsafeRead8, UnsafeWrite8, Faults, Owner, Addr
<1>3. CASE a >= 32768 /\ a < 61440
  <2>1. SUFFICES ASSUME a >= 40960, a < 49152, ram = None
                 PROVE  UnsafeRead8(a) = Owner(a, "load") /\ UnsafeWrite8(a) = Owner(a, "store")
    BY <1>3 DEF Faults, Addr
  <2>2. RamBank = None
    BY <2>1, RamIsWhereItShould
  <2> QED BY <2>1, <2>2 DEF UnsafeRead8, UnsafeWrite8, Owner, Addr
<1> QED BY <1>1, <1>2, <1>3 DEF Addr

\* Compiled accesses, through the mappings or the handler.
LEMMA CompiledReaches ==
  ASSUME BankInv, ~dead, NEW a \in Addr
  PROVE  Load8(a) = Owner(a, "load") /\ Store8(a) = Owner(a, "store")
<1>1. "load" \in Access /\ "store" \in Access
  BY DEF Access
<1>2. Load8(a) = Owner(a, "load")
  BY <1>1, HandlerIsOwned, MappedIsOwned DEF Load8
<1>3. Store8(a) = Owner(a, "store")
  BY <1>1, HandlerIsOwned, MappedIsOwned DEF Store8
<1> QED BY <1>2, <1>3

\* The emulator's own accesses.
LEMMA InlineReaches ==
  ASSUME BankInv, ~dead, NEW a \in Addr
  PROVE  /\ Reaches(Mem8(a), a, "load")
         /\ \A w \in Access : a >= 65280 => LoadIo(a - 65280, w) = Owner(a, w)
<1>1. "load" \in Access
  BY DEF Access
<1>2. CASE a < 61440
  <2>1. Reaches(Mem8(a), a, "load")
    BY <1>1, <1>2, DirectReaches DEF Mem8
  <2> QED BY <1>2, <2>1 DEF Addr
<1>3. CASE a >= 61440
  <2>1. /\ a % 4096 = a - 61440 /\ a - 61440 \in Nat /\ a = 61440 + (a - 61440)
        /\ 3840 + (a - 65280) = a - 61440
    BY <1>3 DEF Addr
  <2>2. Mem8(a) = Owner(a, "load")
    BY <1>1, <1>3, <2>1, HmemIsOwned DEF Mem8, Addr
  <2>3. \A w \in Access : LoadIo(a - 65280, w) = Owner(a, w)
    BY <2>1, HmemIsOwned DEF LoadIo
  <2> QED BY <1>3, <2>2, <2>3 DEF Reaches, Addr
<1> QED BY <1>2, <1>3 DEF Addr

\* Every byte access ends at the byte that the guest's registers name.
THEOREM BytesAreRight == Spec => []BytesReachOwner
<1>1. BankInv => BytesReachOwner
  BY CompiledReaches, InlineReaches, AddressAssumption DEF BytesReachOwner
<1> QED BY <1>1, BankInvariant, PTL

\* A word that does not straddle an edge is two bytes of one region.
LEMMA WordWithin ==
  ASSUME NEW a \in Addr, NEW w \in Access, ~Edge(a, w)
  PROVE  /\ a + 1 \in Addr
         /\ WordFaults(a, w) => Faults(a, w) /\ Faults(a + 1, w)
         /\ ~WordFaults(a, w) => ~Faults(a, w) /\ ~Faults(a + 1, w)
  BY DEF Edge, WordFaults, Addr

\* There the handler's word is two of its bytes.
LEMMA HandlerWord ==
  ASSUME BankInv, ~dead, NEW a \in Addr
  PROVE  /\ ~Edge(a, "load") /\ WordFaults(a, "load") =>
              UnsafeRead16(a) = <<Owner(a, "load"), Owner(a + 1, "load")>>
         /\ ~Edge(a, "store") /\ WordFaults(a, "store") =>
              UnsafeWrite16(a) = <<Owner(a, "store"), Owner(a + 1, "store")>>
<1>1. ASSUME ~Edge(a, "load"), WordFaults(a, "load")
      PROVE  UnsafeRead16(a) = <<Owner(a, "load"), Owner(a + 1, "load")>>
  <2>1. a + 1 \in Addr /\ Faults(a, "load") /\ Faults(a + 1, "load")
    BY <1>1, WordWithin DEF Access
  <2>2. (a + 1) % 65536 = a + 1
    BY <2>1 DEF Addr
  <2> QED BY <2>1, <2>2, HandlerIsOwned DEF UnsafeRead16
<1>2. ASSUME ~Edge(a, "store"), WordFaults(a, "store")
      PROVE  UnsafeWrite16(a) = <<Owner(a, "store"), Owner(a + 1, "store")>>
  <2>1. a + 1 \in Addr /\ Faults(a, "store") /\ Faults(a + 1, "store")
    BY <1>2, WordWithin DEF Access
  <2>2. UnsafeWrite16(a) = <<UnsafeWrite8(a), UnsafeWrite8(a + 1)>>
    <3>1. CASE a >= 61440
      <4>1. a + 1 >= 61440 /\ (a + 1) - 61440 = a - 61439
        BY <3>1 DEF Addr
      <4> QED BY <3>1, <4>1 DEF UnsafeWrite16, UnsafeWrite8
    <3>2. CASE a < 32768
      <4>1. a + 1 < 32768
        BY <2>1, <3>2 DEF Faults, Addr
      <4> QED BY <3>2, <4>1 DEF UnsafeWrite16, UnsafeWrite8, Addr
    <3>3. CASE a >= 32768 /\ a < 61440
      <4>1. a + 1 < 49152 /\ a + 1 >= 32768 /\ (a + 1) - 40960 = a - 40959
        BY <2>1, <3>3 DEF Faults, Addr
      <4> QED BY <3>3, <4>1 DEF UnsafeWrite16, UnsafeWrite8, Addr
    <3> QED BY <3>1, <3>2, <3>3 DEF Addr
  <2> QED BY <2>1, <2>2, HandlerIsOwned
<1> QED BY <1>1, <1>2

\* Words of translated code, through mappings or handler.
LEMMA CompiledWord ==
  ASSUME BankInv, ~dead, NEW a \in Addr
  PROVE  /\ ~Edge(a, "load") => Load16(a) = <<Owner(a, "load"), Owner(a + 1, "load")>>
         /\ ~Edge(a, "store") => Store16(a) = <<Owner(a, "store"), Owner(a + 1, "store")>>
<1>1. ASSUME NEW w \in Access, ~Edge(a, w), ~WordFaults(a, w)
      PROVE  Mapped(a) = Owner(a, w) /\ Mapped(a + 1) = Owner(a + 1, w)
  BY <1>1, WordWithin, MappedIsOwned
<1>2. "load" \in Access /\ "store" \in Access
  BY DEF Access
<1> QED BY <1>1, <1>2, HandlerWord DEF Load16, Store16

\* MEM16 and mem_write16.
LEMMA InlineWord ==
  ASSUME BankInv, ~dead, NEW a \in Addr, NEW w \in Access, ~Edge(a, w)
  PROVE  Reaches(Word(a, w)[1], a, w) /\ Reaches(Word(a, w)[2], a + 1, w)
<1>1. a + 1 \in Addr
  BY WordWithin
<1>2. CASE a >= 61440
  <2>1. /\ a - 61440 \in Nat /\ a = 61440 + (a - 61440)
        /\ a - 61439 \in Nat /\ a + 1 = 61440 + (a - 61439)
    BY <1>2 DEF Addr
  <2>2. Hmem(a - 61440, w) = Owner(a, w) /\ Hmem(a - 61439, w) = Owner(a + 1, w)
    BY <1>1, <2>1, HmemIsOwned
  <2>3. Word(a, w) = <<Owner(a, w), Owner(a + 1, w)>>
    BY <1>2, <2>2 DEF Word
  <2>4. ~(a < 61440) /\ ~(a + 1 < 61440)
    BY <1>2 DEF Addr
  <2> QED BY <2>3, <2>4 DEF Reaches
<1>3. CASE a < 61440 /\ WordFaults(a, w)
  <2>1. Faults(a, w) /\ Faults(a + 1, w)
    BY <1>3, WordWithin
  <2>2. a + 1 < 61440
    BY <1>3, <2>1 DEF Faults, Addr, Access
  <2>3. Word(a, w) = <<Lost, Lost>>
    BY <1>3 DEF Word, Addr
  <2> QED BY <1>3, <2>1, <2>2, <2>3 DEF Reaches
<1>4. CASE a < 61440 /\ ~WordFaults(a, w)
  <2>1. ~Faults(a, w) /\ ~Faults(a + 1, w)
    BY <1>4, WordWithin
  <2>2. Mapped(a) = Owner(a, w) /\ Mapped(a + 1) = Owner(a + 1, w)
    BY <1>1, <2>1, MappedIsOwned
  <2>3. Word(a, w) = <<Mapped(a), Mapped(a + 1)>>
    BY <1>4 DEF Word, Addr
  <2> QED BY <2>1, <2>2, <2>3 DEF Reaches
<1> QED BY <1>2, <1>3, <1>4 DEF Addr

\* Both bytes of every word that straddles no edge do so too.
THEOREM WordsAreRight == Spec => []WordsReachOwners
<1>1. BankInv => WordsReachOwners
  BY CompiledWord, InlineWord, AddressAssumption DEF WordsReachOwners
<1> QED BY <1>1, BankInvariant, PTL

\* A byte of the 16 that a block of a transfer copies, and the next block's.
LEMMA CopiedByte ==
  ASSUME BankInv, ~dead, NEW a \in Addr, NEW b \in Addr, NEW i \in Nat, a % 16 = i,
         b - (b % 16) = a - (a % 16)
  PROVE  Reaches(HdmaFrom(b, i), a, "load")
<1>1. "load" \in Access /\ b - (b % 16) + i = a /\ b - (b % 16) \in Nat
  BY DEF Access, Addr
<1>2. CASE a < 61440
  <2>1. b - (b % 16) < 61440
    BY <1>1, <1>2 DEF Addr
  <2> QED BY <1>1, <1>2, <2>1, DirectReaches DEF HdmaFrom
<1>3. CASE a >= 61440
  <2>1. /\ ~(b - (b % 16) < 61440) /\ a % 4096 = a - 61440
        /\ a - 61440 \in Nat /\ a = 61440 + (a - 61440) /\ ~(a < 61440)
    BY <1>1, <1>3 DEF Addr
  <2>2. HdmaFrom(b, i) = Owner(a, "load")
    BY <1>1, <2>1, HmemIsOwned DEF HdmaFrom
  <2> QED BY <2>1, <2>2 DEF Reaches
<1> QED BY <1>2, <1>3 DEF Addr

\* A byte of VRAM that a transfer writes is in the selected bank.
LEMMA CopyTarget ==
  ASSUME BankInv, NEW x \in Nat, x < 8192
  PROVE  Direct(32768 + x, "store") = <<"vram", vbk, x>>
<1>1. ~Faults(32768 + x, "store") /\ Mapped(32768 + x) = <<"vram", vram, x>>
  BY DEF Faults, Mapped
<1> QED BY <1>1 DEF Direct, BankInv, WindowsCurrent

\* The transfers to OAM and VRAM copy the bytes that the registers name, to
\* where they say, and block by block around both ends.
THEOREM CopiesAreRight == Spec => []CopiesReachOwner
<1>1. ASSUME BankInv, ~dead, NEW a \in Addr
      PROVE  Reaches(OamDma(a - (a % 256), a % 256), a, "load")
  <2>1. "load" \in Access
    BY DEF Access
  <2>2. (a - (a % 256)) + (a % 256) = a /\ a \in Nat
    BY DEF Addr
  <2>3. CASE a < 61440
    <3>1. a - (a % 256) < 61440
      BY <2>3 DEF Addr
    <3> QED BY <1>1, <2>1, <2>2, <2>3, <3>1, DirectReaches DEF OamDma
  <2>4. CASE a >= 61440
    <3>1. ~(a - (a % 256) < 61440)
      BY <2>4 DEF Addr
    <3>2. /\ ((a - (a % 256)) % 4096) + (a % 256) = a - 61440
          /\ a - 61440 \in Nat /\ a = 61440 + (a - 61440) /\ ~(a < 61440)
      BY <2>4 DEF Addr
    <3>3. OamDma(a - (a % 256), a % 256) = Owner(a, "load")
      BY <1>1, <2>1, <3>1, <3>2, HmemIsOwned DEF OamDma
    <3> QED BY <3>2, <3>3 DEF Reaches
  <2> QED BY <2>2, <2>3, <2>4
<1>2. ASSUME BankInv, ~dead, NEW a \in Addr
      PROVE  /\ Reaches(HdmaFrom(a, a % 16), a, "load")
             /\ Reaches(HdmaFrom(HdmaNext(a), a % 16), (a + 16) % 65536, "load")
  <2>1. a % 16 \in Nat
    BY DEF Addr
  <2>2. /\ (a + 16) % 65536 \in Addr /\ ((a + 16) % 65536) % 16 = a % 16
        /\ HdmaNext(a) \in Addr
        /\ HdmaNext(a) - (HdmaNext(a) % 16) = ((a + 16) % 65536) - (((a + 16) % 65536) % 16)
    BY DEF HdmaNext, Addr
  <2>3. Reaches(HdmaFrom(a, a % 16), a, "load")
    BY <1>2, <2>1, CopiedByte
  <2>4. Reaches(HdmaFrom(HdmaNext(a), a % 16), (a + 16) % 65536, "load")
    BY <1>2, <2>1, <2>2, CopiedByte
  <2> QED BY <2>3, <2>4
<1>3. ASSUME BankInv, ~dead, NEW a \in Addr
      PROVE  /\ HdmaTo(a, a % 16) = <<"vram", vbk, a % 8192>>
             /\ HdmaTo(HdmaNextTo(a), a % 16) = <<"vram", vbk, ((a + 16) % 65536) % 8192>>
  <2> DEFINE t == (a + 16) % 8192
  <2>1. /\ a % 8192 \in Nat /\ a % 8192 < 8192 /\ t \in Nat /\ t < 8192
        /\ ((a + 16) % 65536) % 8192 = t
    BY DEF Addr
  <2>2. 32768 + ((a % 8192) - (a % 16)) + (a % 16) = 32768 + (a % 8192)
    BY DEF Addr
  <2>3. 32768 + ((HdmaNextTo(a) % 8192) - (HdmaNextTo(a) % 16)) + (a % 16) = 32768 + t
    <3>1. HdmaNextTo(a) % 16 = 0
      BY DEF HdmaNextTo, Addr
    <3>2. HdmaNextTo(a) % 8192 = (((a % 8192) - (a % 16)) + 16) % 8192
      BY DEF HdmaNextTo, Addr
    <3>3. ((((a % 8192) - (a % 16)) + 16) % 8192) + (a % 16) = t
      BY DEF Addr
    <3> QED BY <3>1, <3>2, <3>3 DEF Addr
  <2>4. HdmaTo(a, a % 16) = <<"vram", vbk, a % 8192>>
    BY <1>3, <2>1, <2>2, CopyTarget DEF HdmaTo
  <2>5. HdmaTo(HdmaNextTo(a), a % 16) = <<"vram", vbk, t>>
    <3>1. Direct(32768 + t, "store") = <<"vram", vbk, t>>
      BY <1>3, <2>1, CopyTarget
    <3> HIDE DEF t
    <3> QED BY <2>3, <3>1 DEF HdmaTo
  <2> QED BY <2>1, <2>4, <2>5
<1>4. BankInv => CopiesReachOwner
  BY <1>1, <1>2, <1>3, AddressAssumption DEF CopiesReachOwner
<1> QED BY <1>4, BankInvariant, PTL

----------------------------------------------------------------------------
(* Joypad, for any number of keys in a group.  The properties rest on what  *)
(* update_keyboard finds when it is called: keys_were is up to date, no     *)
(* group is selected that the guest did not ask for, and until the first    *)
(* change exactly those are.                                                *)

JoypadTypes ==
  /\ keystates \subseteq Keys /\ asked \subseteq Groups
  /\ p1 \in [idle : SUBSET Groups, ones : SUBSET Bits]
  /\ changes \in 0 .. 2

KeysKept == keys_were = keystates
SelectionKept ==
  /\ Groups \ p1.idle \subseteq asked
  /\ changes = 0 => p1.idle = Groups \ asked

JoypadInv == JoypadTypes /\ KeysKept /\ SelectionKept /\ ReadsTheKeys

----------------------------------------------------------------------------
\* A group that update_keyboard looks at is selected.
LEMMA RelevantSelected == Relevant \subseteq Groups \ p1.idle
BY DEF Relevant, Groups

\* If one group is selected, update_keyboard looks at it.
LEMMA RelevantAlone ==
  ASSUME NEW g \in Groups, p1.idle = Groups \ {g}
  PROVE  Relevant = {g}
BY DEF Relevant, Groups

\* The key bits of P1 are bits of a group.
LEMMA ReleasedBits ==
  ASSUME NEW groups, NEW pressed
  PROVE  UNION {Released(g, pressed) : g \in groups} \in SUBSET Bits
BY DEF Released

\* The initial states.
LEMMA JoypadInvInit == JoypadInit => JoypadInv
<1> SUFFICES ASSUME JoypadInit PROVE JoypadInv
  OBVIOUS
<1>1. JoypadTypes /\ KeysKept /\ SelectionKept
  BY DEF JoypadInit, JoypadTypes, KeysKept, SelectionKept
<1>2. ReadsTheKeys
  BY DEF JoypadInit, ReadsTheKeys, Groups
<1> QED BY <1>1, <1>2 DEF JoypadInv

\* The guest selects groups.
LEMMA WriteP1Inv ==
  ASSUME JoypadInv, NEW groups \in SUBSET Groups, WriteP1(groups)
  PROVE  JoypadInv'
<1>1. JoypadTypes' /\ KeysKept'
  <2>1. p1' \in [idle : SUBSET Groups, ones : SUBSET Bits]
    BY ReleasedBits DEF WriteP1
  <2> QED BY <2>1 DEF JoypadInv, JoypadTypes, KeysKept, WriteP1
<1>2. SelectionKept'
  BY DEF JoypadInv, SelectionKept, WriteP1
<1>3. ReadsTheKeys'
  <2> SUFFICES ASSUME NEW g \in Groups, groups = {g}
               PROVE  p1'.ones = Released(g, keystates')
    BY DEF ReadsTheKeys, WriteP1
  <2>1. UNION {Released(h, keystates) : h \in {g}} = Released(g, keystates)
    OBVIOUS
  <2> QED BY <2>1 DEF WriteP1
<1> QED BY <1>1, <1>2, <1>3 DEF JoypadInv

\* Keys change.
LEMMA HandleInputEventsInv ==
  ASSUME JoypadInv, NEW pressed \in SUBSET Keys, HandleInputEvents(pressed)
  PROVE  JoypadInv'
<1> USE DEF JoypadInv, HandleInputEvents, UpdateKeyboard
<1>1. changes' \in 1 .. 2 /\ (changes' < 2 => changes = 0)
  BY DEF JoypadTypes
<1>2. p1'.idle = p1.idle \/ p1'.idle = Groups
  OBVIOUS
<1>3. JoypadTypes' /\ KeysKept'
  <2>1. p1' \in [idle : SUBSET Groups, ones : SUBSET Bits]
    BY ReleasedBits DEF JoypadTypes
  <2> QED BY <1>1, <2>1 DEF JoypadTypes, KeysKept
<1>4. SelectionKept'
  BY <1>1, <1>2 DEF SelectionKept
<1>5. ReadsTheKeys'
  <2> SUFFICES ASSUME NEW g \in Groups, asked = {g}, changes = 0
               PROVE  p1'.ones = Released(g, keystates')
    BY <1>1 DEF ReadsTheKeys
  <2>1. Relevant = {g}
    BY RelevantAlone DEF SelectionKept
  <2>2. UNION {Released(h, pressed) : h \in {g}} = Released(g, pressed)
    OBVIOUS
  <2> QED BY <2>1, <2>2
<1> QED BY <1>3, <1>4, <1>5

\* The request is cleared, or nothing happens.
LEMMA AcknowledgeInv == JoypadInv /\ (Acknowledge \/ UNCHANGED joypadVars) => JoypadInv'
BY DEF JoypadInv, JoypadTypes, KeysKept, SelectionKept, ReadsTheKeys, Released,
       Acknowledge, joypadVars

\* One step keeps the invariant.
LEMMA JoypadInvStep == JoypadInv /\ [JoypadNext]_joypadVars => JoypadInv'
BY WriteP1Inv, HandleInputEventsInv, AcknowledgeInv DEF JoypadNext

\* What update_keyboard relies on when it compares and selects.
THEOREM JoypadInvariant == JoypadSpec => []JoypadInv
BY JoypadInvInit, JoypadInvStep, PTL DEF JoypadSpec

\* A guest that selects one group reads its keys, also after one change.
THEOREM SelectedIsRead == JoypadSpec => []ReadsTheKeys
<1>1. JoypadInv => ReadsTheKeys
  BY DEF JoypadInv
<1> QED BY <1>1, JoypadInvariant, PTL

----------------------------------------------------------------------------
\* The first press in the selected group requests the interrupt.
LEMMA PressStep ==
  ASSUME JoypadInv, JoypadNext, NEW g \in Groups, asked = {g}, changes = 0, changes' = 1,
         NEW b \in Bits, <<g, b>> \in keystates' \ keystates
  PROVE  int_joypad'
<1>1. PICK pressed \in SUBSET Keys : HandleInputEvents(pressed)
  BY DEF JoypadNext, WriteP1, Acknowledge
<1>2. Relevant = {g}
  BY RelevantAlone DEF JoypadInv, SelectionKept
<1>3. <<g, b>> \in pressed /\ <<g, b>> \notin keys_were
  BY <1>1 DEF HandleInputEvents, JoypadInv, KeysKept
<1>4. <<g, b>>[1] \in Relevant
  BY <1>2
<1> QED BY <1>1, <1>3, <1>4 DEF HandleInputEvents, UpdateKeyboard

\* Whatever was pressed before a write to P1, the next press in the group it
\* selects requests the interrupt.
THEOREM PressAlwaysReported == JoypadSpec => PressIsReported
<1>1. JoypadInv /\ [JoypadNext]_joypadVars =>
        [\A g \in Groups :
           /\ asked = {g} /\ changes = 0 /\ changes' = 1
           /\ \E b \in Bits : <<g, b>> \in keystates' \ keystates
           => int_joypad']_joypadVars
  BY PressStep
<1> QED BY <1>1, JoypadInvariant, PTL DEF JoypadSpec, PressIsReported

\* A request is due to a press in a group that the guest asked for.
LEMMA RequestStep ==
  ASSUME JoypadInv, JoypadNext, int_joypad', ~int_joypad
  PROVE  \E k \in keystates' \ keystates : k[1] \in asked
<1>1. PICK pressed \in SUBSET Keys : HandleInputEvents(pressed)
  BY DEF JoypadNext, WriteP1, Acknowledge
<1>2. PICK k \in pressed \cap ((pressed \ keys_were) \cup (keys_were \ pressed)) :
        k[1] \in Relevant
  BY <1>1 DEF HandleInputEvents, UpdateKeyboard
<1>3. k \in keystates' \ keystates
  BY <1>1, <1>2 DEF HandleInputEvents, JoypadInv, KeysKept
<1>4. k[1] \in asked
  BY <1>2, RelevantSelected DEF JoypadInv, SelectionKept
<1> QED BY <1>3, <1>4

\* A press outside the groups the guest asked for never requests it.
THEOREM RequestsAreDue == JoypadSpec => NoStrayRequest
<1>1. JoypadInv /\ [JoypadNext]_joypadVars =>
        [int_joypad' /\ ~int_joypad =>
           \E k \in keystates' \ keystates : k[1] \in asked]_joypadVars
  BY RequestStep
<1> QED BY <1>1, JoypadInvariant, PTL DEF JoypadSpec, NoStrayRequest
============================================================================
