----------------------------- MODULE BlockCache -----------------------------
(***************************************************************************)
(* The caches of translated blocks (execute.c: base_rom, banked_rom,       *)
(* variable_eu, get_from_cache, cache_get) while the guest switches ROM    *)
(* banks and writes RAM.  Of a translation only the memory it was made     *)
(* from is kept: the bank in the window 0x4000-0x7FFF and the contents of  *)
(* RAM, where the block reads them.                                        *)
(***************************************************************************)
EXTENDS Naturals

CONSTANTS
  Base,       \* block addresses below 0x4000
  Window,     \* block addresses from 0x4000 to 0x7FFF
  Ram,        \* block addresses from 0x8000
  Straddling, \* ROM blocks whose last instruction reads on in the next area
  Slots, Slot,\* Slot[ip]: ip & (CACHES_SIZE - 1)
  Banks,      \* ROM banks for the window
  FirstBank,  \* the one mapped at the start (1)
  Contents,   \* contents of RAM
  None

Rom == Base \cup Window
Ips == Rom \cup Ram

ASSUME AreaAssumption ==
  Base \cap Window = {} /\ Rom \cap Ram = {} /\ Straddling \subseteq Rom
ASSUME SlotAssumption == Slot \in [Ips -> Slots]
ASSUME BankAssumption == FirstBank \in Banks
ASSUME NoneAssumption == None \notin Banks \cup Contents \cup Ips

Code == [ip : Ips \cup {None}, bank : Banks \cup {None}, ram : Contents \cup {None}]
Entries == [in_use : BOOLEAN, ip : Rom \cup {None}, bank : Banks \cup {None}, code : Code]

VARIABLES
  base_rom, banked_rom,  \* the caches
  current_rom_bank,      \* what change_banked_rom was told last
  mapped,                \* the bank in the window (memory.c)
  ram,                   \* contents of RAM
  running                \* the block being executed, None in the loop

vars == <<base_rom, banked_rom, current_rom_bank, mapped, ram, running>>

TypeOK ==
  /\ base_rom \in [Slots -> Entries] /\ banked_rom \in [Slots -> Entries]
  /\ current_rom_bank \in Banks /\ mapped \in Banks /\ ram \in Contents
  /\ running \in [ip : Ips, code : Code] \cup {None}

NoCode == [ip |-> None, bank |-> None, ram |-> None]
Unused == [in_use |-> FALSE, ip |-> None, bank |-> None, code |-> NoCode]

Init ==
  /\ base_rom = [s \in Slots |-> Unused] /\ banked_rom = [s \in Slots |-> Unused]
  /\ current_rom_bank = FirstBank /\ mapped = FirstBank
  /\ ram \in Contents /\ running = None

----------------------------------------------------------------------------
(* dynarec reads instructions until one of them ends outside the area of   *)
(* the first; all bytes of that last one have been read by then.           *)
Dynarec(ip) ==
  [ip   |-> ip,
   bank |-> IF ip \in Window \cup (Base \cap Straddling) THEN mapped ELSE None,
   ram  |-> IF ip \in Ram \cup (Window \cap Straddling) THEN ram ELSE None]

\* Faulty: the bank is not compared.
BugHit(c, bank, ip) ==
  LET e == c[Slot[ip]] IN e.in_use /\ e.ip = ip

Hit(c, bank, ip) ==
  LET e == c[Slot[ip]] IN e.in_use /\ e.ip = ip /\ e.bank = bank

GetFromCache(c, bank, ip) ==
  IF Hit(c, bank, ip) THEN c
  ELSE [c EXCEPT ![Slot[ip]] =
          [in_use |-> TRUE, ip |-> ip, bank |-> bank, code |-> Dynarec(ip)]]

Execute(ip, code) == running' = [ip |-> ip, code |-> code]

----------------------------------------------------------------------------
(* cache_get and the call of the block                                      *)

EnterBase(ip) ==
  /\ running = None /\ ip \in Base
  /\ base_rom' = GetFromCache(base_rom, None, ip)
  /\ Execute(ip, base_rom'[Slot[ip]].code)
  /\ UNCHANGED <<banked_rom, current_rom_bank, mapped, ram>>

EnterWindow(ip) ==
  /\ running = None /\ ip \in Window
  /\ banked_rom' = GetFromCache(banked_rom, current_rom_bank, ip)
  /\ Execute(ip, banked_rom'[Slot[ip]].code)
  /\ UNCHANGED <<base_rom, current_rom_bank, mapped, ram>>

\* Faulty: code in RAM is cached like other code.
BugEnterRam(ip) ==
  /\ running = None /\ ip \in Ram
  /\ base_rom' = GetFromCache(base_rom, None, ip)
  /\ Execute(ip, base_rom'[Slot[ip]].code)
  /\ UNCHANGED <<banked_rom, current_rom_bank, mapped, ram>>

\* variable_eu is translated anew each time.
EnterRam(ip) ==
  /\ running = None /\ ip \in Ram
  /\ Execute(ip, Dynarec(ip))
  /\ UNCHANGED <<base_rom, banked_rom, current_rom_bank, mapped, ram>>

\* Faulty: the window is mapped and the translator is not told.
BugSwitchRom(b) ==
  /\ mapped' = b
  /\ UNCHANGED <<base_rom, banked_rom, current_rom_bank, ram, running>>

\* A store to the MBC, by the running block or by the pushing of an
\* address in the loop: SwitchRom of module Banking.
SwitchRom(b) ==
  /\ mapped' = b /\ current_rom_bank' = b
  /\ UNCHANGED <<base_rom, banked_rom, ram, running>>

\* A store to RAM, by the block or by the loop (LDH, a pushed address, DMA).
WriteRam(r) ==
  /\ ram' = r
  /\ UNCHANGED <<base_rom, banked_rom, current_rom_bank, mapped, running>>

Exit ==
  /\ running # None /\ running' = None
  /\ UNCHANGED <<base_rom, banked_rom, current_rom_bank, mapped, ram>>

Next ==
  \/ \E ip \in Ips : EnterBase(ip) \/ EnterWindow(ip) \/ EnterRam(ip)
  \/ \E b \in Banks : SwitchRom(b)
  \/ \E r \in Contents : WriteRam(r)
  \/ Exit

Spec == Init /\ [][Next]_vars

----------------------------------------------------------------------------
(* Properties                                                               *)

\* A block that is entered is what a translation of the memory as it is now
\* would give, however long ago it was made and whatever was mapped since.
EntersFresh ==
  [][running = None /\ running' # None =>
       running'.code = Dynarec(running'.ip)]_vars

\* No two blocks are taken for each other: what a cache holds for an address
\* and a bank was translated at that address, from that bank.
CacheSound ==
  \A s \in Slots :
    /\ base_rom[s].in_use =>
         /\ base_rom[s].ip \in Base /\ base_rom[s].code.ip = base_rom[s].ip
         /\ base_rom[s].code.bank = None
    /\ banked_rom[s].in_use =>
         /\ banked_rom[s].ip \in Window /\ banked_rom[s].code.ip = banked_rom[s].ip
         /\ banked_rom[s].code.bank = banked_rom[s].bank

\* "EU für Code im RAM (darf nicht gecachet werden)" (execute.c:58): no
\* cached block was made from RAM.
RamNotCached ==
  \A s \in Slots : base_rom[s].code.ram = None /\ banked_rom[s].code.ram = None

\* Inductive, where no ROM block straddles two areas.
CacheInv == TypeOK /\ mapped = current_rom_bank /\ CacheSound /\ RamNotCached
=============================================================================
