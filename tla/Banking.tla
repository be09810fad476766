------------------------------ MODULE Banking ------------------------------
(***************************************************************************)
(* The windows of the guest's address space that move: the cartridge's ROM *)
(* bank at 0x4000, its RAM bank at 0xA000, the VRAM bank at 0x8000 and the *)
(* WRAM bank at 0xD000 (memory.c, and VBK and SVBK in io.c).               *)
(*                                                                         *)
(* A window is a mapping of the host: what the guest reads there without a *)
(* fault is what was mapped last, whatever the controller's registers say. *)
(* So the registers and the mappings are separate state, as they are in    *)
(* the code, and the block translator keeps a third copy of the ROM bank.  *)
(* An access to a window that is not mapped faults and is sent to the      *)
(* controller (catcher.c); several answers to it end the emulator.         *)
(***************************************************************************)
EXTENDS Integers

CONSTANTS
  Bytes,    \* the values the guest writes
  None      \* nothing mapped

ASSUME ByteAssumption == Bytes \subseteq 0 .. 255
ASSUME NoneAssumption == None \notin Nat

VARIABLES
  cart,              \* the cartridge: its controller, and has it RAM?
  cromb,             \* selected ROM bank
  current_rom_bank,  \* the bank the translator looks blocks up under
  rom,               \* bank mapped at 0x4000
  cramb,             \* selected RAM bank; with MBC3 also the clock registers
  ram_enabled,
  ram,               \* bank mapped at 0xA000, None if ram_mapped is false
  mode,              \* MBC1: what 0x4000 selects
  latched_state,     \* MBC3: 0 once the first half of a latch was written
  vbk, vram,         \* VBK and the bank mapped at 0x8000
  svbk, wram,        \* SVBK and the bank mapped at 0xD000
  dead,              \* exit(1) was called
  armed              \* history: RAM was enabled or disabled since the start

romVars == <<cromb, current_rom_bank, rom>>
ramVars == <<cramb, ram_enabled, ram, armed>>
ioVars == <<vbk, vram, svbk, wram>>
vars == <<cart, romVars, ramVars, mode, latched_state, ioVars, dead>>

\* The cartridges check_cartridge accepts.  main opens a RAM file if the
\* header names a size, whatever the type says of RAM.
Cartridges == [mbc : {0, 1, 2, 3, 5}, ram : BOOLEAN]

TypeOK ==
  /\ cart \in Cartridges
  /\ cromb \in Nat /\ current_rom_bank \in Nat /\ rom \in Nat
  /\ cramb \in Nat /\ ram \in Nat \cup {None}
  /\ ram_enabled \in BOOLEAN /\ dead \in BOOLEAN /\ armed \in BOOLEAN
  /\ mode \in {0, 1} /\ latched_state \in {0, 1}
  /\ vbk \in {0, 1} /\ vram \in {0, 1}
  /\ svbk \in 0 .. 7 /\ wram \in 1 .. 7

\* init_memory maps RAM bank 0 although ram_enabled is false.
Init ==
  /\ cart \in Cartridges
  /\ cromb = 1 /\ current_rom_bank = 1 /\ rom = 1
  /\ cramb = 0 /\ ram_enabled = FALSE /\ ram = (IF cart.ram THEN 0 ELSE None)
  /\ mode = 0 /\ latched_state = 1
  /\ vbk = 0 /\ vram = 0 /\ svbk = 0 /\ wram = 1
  /\ dead = FALSE /\ armed = FALSE

----------------------------------------------------------------------------
(* Helpers of the controllers                                               *)

\* Faulty: the translator is not told.
BugSwitchRom(b) ==
  /\ cromb' = b /\ rom' = b
  /\ UNCHANGED <<current_rom_bank, ramVars, mode, latched_state, dead>>

\* mem_select_rom_bank and change_banked_rom, which every caller pairs.
SwitchRom(b) ==
  /\ cromb' = b /\ rom' = b /\ current_rom_bank' = b
  /\ UNCHANGED <<ramVars, mode, latched_state, dead>>

\* mem_select_ram_bank: mapping the RAM file fails if there is none.
SelectRam(b) ==
  \/ cart.ram /\ ram' = b /\ dead' = FALSE
  \/ ~cart.ram /\ ram' = ram /\ dead' = TRUE

UnselectRam == ram' = None /\ dead' = FALSE
KeepRam == ram' = ram /\ dead' = FALSE

\* Registers that select something other than RAM (MBC3's clock).
Clock(b) == cart.mbc = 3 /\ b >= 4

\* Faulty: disabling leaves the window mapped.
BugControlOpen(v) ==
  /\ v \in {0, 10}
  /\ ram_enabled' = (v = 10) /\ armed' = TRUE
  /\ \/ v = 0 /\ KeepRam
     \/ v = 10 /\ Clock(cramb) /\ UnselectRam
     \/ v = 10 /\ ~Clock(cramb) /\ SelectRam(cramb)
  /\ UNCHANGED <<romVars, cramb, mode, latched_state>>

\* Faulty: enabling leaves the mapping to the next selection.
BugControlLazy(v) ==
  /\ v \in {0, 10}
  /\ ram_enabled' = (v = 10) /\ armed' = TRUE
  /\ \/ v = 0 /\ UnselectRam
     \/ v = 10 /\ KeepRam
  /\ UNCHANGED <<romVars, cramb, mode, latched_state>>

\* 0x0000-0x1FFF of all controllers: 0 disables the RAM, 0x0A enables it,
\* and any other value is ignored.
Control(v) ==
  /\ v \in {0, 10}
  /\ ram_enabled' = (v = 10) /\ armed' = TRUE
  /\ \/ v = 0 /\ UnselectRam
     \/ v = 10 /\ Clock(cramb) /\ UnselectRam
     \/ v = 10 /\ ~Clock(cramb) /\ ram # None /\ KeepRam
     \/ v = 10 /\ ~Clock(cramb) /\ ram = None /\ SelectRam(cramb)
  /\ UNCHANGED <<romVars, cramb, mode, latched_state>>

\* A RAM bank is selected and mapped if RAM is enabled, or else unmapped.
SwitchRam(b) ==
  /\ cramb' = b
  /\ \/ ram_enabled /\ SelectRam(b)
     \/ ~ram_enabled /\ UnselectRam
  /\ UNCHANGED <<romVars, ram_enabled, armed, mode, latched_state>>

----------------------------------------------------------------------------
(* mbc1_rom_write                                                           *)

Mbc1Rom(v) == SwitchRom(v % 32)

Mbc1RomHigh(v) == mode = 0 /\ SwitchRom((cromb % 32) + 32 * (v % 4))

\* A mapped window is left where it is.
Mbc1Ram(v) ==
  /\ mode = 1 /\ v % 4 # cramb
  /\ cramb' = v % 4
  /\ \/ ram_enabled /\ ram = None /\ SelectRam(v % 4)
     \/ ~(ram_enabled /\ ram = None) /\ KeepRam
  /\ UNCHANGED <<romVars, ram_enabled, armed, mode, latched_state>>

Mbc1Mode(v) ==
  /\ mode' = v % 2
  /\ UNCHANGED <<romVars, ramVars, latched_state, dead>>

Mbc1Write(v) ==
  cart.mbc = 1 /\ (Control(v) \/ Mbc1Rom(v) \/ Mbc1RomHigh(v) \/ Mbc1Ram(v) \/ Mbc1Mode(v))

----------------------------------------------------------------------------
(* mbc3_rom_write                                                           *)

Mbc3Rom(v) == SwitchRom(IF v = 0 THEN 1 ELSE v)

\* The values 4 to 7 and the selected RAM bank itself are ignored.
Mbc3Ram(v) == v < 4 /\ v # cramb /\ SwitchRam(v)

\* Faulty: the RAM stays mapped under the clock.
BugMbc3Clock(v) ==
  /\ v >= 8
  /\ cramb' = v /\ KeepRam
  /\ UNCHANGED <<romVars, ram_enabled, armed, mode, latched_state>>

Mbc3Clock(v) ==
  /\ v >= 8
  /\ cramb' = v /\ UnselectRam
  /\ UNCHANGED <<romVars, ram_enabled, armed, mode, latched_state>>

\* The clock's time is read on a 0 followed by a 1.
Mbc3Latch(v) ==
  /\ v = 0 \/ (v = 1 /\ latched_state = 0)
  /\ latched_state' = v
  /\ UNCHANGED <<romVars, ramVars, mode, dead>>

Mbc3Write(v) ==
  cart.mbc = 3 /\ (Control(v) \/ Mbc3Rom(v) \/ Mbc3Ram(v) \/ Mbc3Clock(v) \/ Mbc3Latch(v))

----------------------------------------------------------------------------
(* mbc5_rom_write                                                           *)

Mbc5RomLow(v) == SwitchRom(cromb - (cromb % 256) + v)
Mbc5RomHigh(v) == SwitchRom((cromb % 256) + 256 * (v % 2))
Mbc5Ram(v) == SwitchRam(v % 16)

Mbc5Write(v) ==
  cart.mbc = 5 /\ (Control(v) \/ Mbc5RomLow(v) \/ Mbc5RomHigh(v) \/ Mbc5Ram(v))

----------------------------------------------------------------------------
(* The guest                                                                *)

Die == dead' = TRUE /\ UNCHANGED <<romVars, ramVars, mode, latched_state>>

\* rom_write8: a cartridge without a controller takes no writes.
RomWrite(v) ==
  /\ ~dead /\ UNCHANGED <<cart, ioVars>>
  /\ \/ Mbc1Write(v) \/ Mbc3Write(v) \/ Mbc5Write(v)
     \/ cart.mbc \notin {1, 3, 5} /\ Die

\* A store to 0xA000-0xBFFF faults and eram_write8 has no answer to it.
RamWriteFatal ==
  /\ ~dead /\ ram = None
  /\ cart.mbc = 3 => cramb \notin 8 .. 12
  /\ Die /\ UNCHANGED <<cart, ioVars>>

\* The same for a load and eram_read8, which answers 0 for disabled RAM.
RamReadFatal ==
  /\ ~dead /\ ram = None
  /\ cart.mbc = 3 => ram_enabled /\ cramb \notin 8 .. 12
  /\ Die /\ UNCHANGED <<cart, ioVars>>

\* io_write to VBK and SVBK: remapped only if the register changes.
VramBank(v) ==
  /\ ~dead /\ vbk # v % 2
  /\ vbk' = v % 2 /\ vram' = v % 2
  /\ UNCHANGED <<cart, romVars, ramVars, mode, latched_state, svbk, wram, dead>>

WramBank(v) ==
  LET b == IF v % 8 = 0 THEN 1 ELSE v % 8 IN
  /\ ~dead /\ svbk # b
  /\ svbk' = b /\ wram' = b
  /\ UNCHANGED <<cart, romVars, ramVars, mode, latched_state, vbk, vram, dead>>

Next ==
  \/ \E v \in Bytes : RomWrite(v) \/ VramBank(v) \/ WramBank(v)
  \/ RamWriteFatal \/ RamReadFatal

Spec == Init /\ [][Next]_vars

----------------------------------------------------------------------------
(* Properties                                                               *)

\* What is mapped is what the registers say, and the translator looks for
\* blocks of the bank that is mapped.
WindowsCurrent ==
  /\ rom = cromb /\ current_rom_bank = cromb
  /\ vram = vbk /\ wram = (IF svbk = 0 THEN 1 ELSE svbk)

\* The RAM window shows the selected RAM bank, and never stays open while a
\* clock register is selected: a guest that switches banks, latches and
\* disables in any order cannot write the wrong bank of the save file.
\* (With MBC1 it can: mbc1_rom_write does not move a mapped window.)
RamWindowCurrent ==
  cart.mbc # 1 /\ ram # None => ram = cramb /\ ~Clock(cramb)

\* Enabled RAM is there: the guest never faults on a bank it enabled.
EnabledMapped == ram_enabled /\ ~Clock(cramb) /\ ~dead => ram # None

\* Disabled RAM is out of reach, but for bank 0 until the guest first
\* enables or disables it.
DisabledUnmapped == ~ram_enabled /\ ram # None => ~armed /\ ram = 0

\* The emulator gives up only on a cartridge without the RAM or the
\* controller that was addressed, or on an access to RAM that is disabled or
\* not selected; never on an access to enabled RAM.
DiesForAReason ==
  [][~dead /\ dead' =>
       \/ ~cart.ram \/ cart.mbc \notin {1, 3, 5}
       \/ ~ram_enabled /\ ram = None
       \/ Clock(cramb)]_vars

\* The inductive invariant behind them.
BankInv ==
  /\ TypeOK /\ WindowsCurrent
  /\ RamWindowCurrent /\ EnabledMapped /\ DisabledUnmapped
  /\ ~cart.ram => ram = None
============================================================================
