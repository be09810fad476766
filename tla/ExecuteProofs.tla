---------------------------- MODULE ExecuteProofs ----------------------------
(***************************************************************************)
(* Proofs about the two sides of execute.c.  The builder of a block        *)
(* (Translator): why its buffer is enough, for every table of shapes that  *)
(* is dense enough; MCExecute has TLC evaluate the premise for the table   *)
(* of the code.  The caches (BlockCache): if no instruction lies           *)
(* across the end of a ROM area, every block that is entered is a          *)
(* translation of what is mapped, for any caches, banks and contents.      *)
(***************************************************************************)
EXTENDS Translator, BlockCache, TLAPS

----------------------------------------------------------------------------
(* The builder                                                              *)

\* Arithmetic that the solver is given in small pieces.
LEMMA Distributes ==
  ASSUME NEW d \in Nat, NEW a \in Nat, NEW b \in Nat
  PROVE  d * (a + b) = d * a + d * b
  OBVIOUS

\* The same.
LEMMA Monotone ==
  ASSUME NEW d \in Nat, NEW a \in Nat, NEW b \in Nat, a <= b
  PROVE  d * a <= d * b
  OBVIOUS

\* The prologue fits.
LEMMA BlockInvInit ==
  ASSUME NEW d \in Nat, NEW f \in Nat, NEW l \in Nat, Dense(d, f, l)
  PROVE  BuildInit => BlockInv(d, f, l)
<1>1. d * 0 = 0
  OBVIOUS
<1> QED BY <1>1, SizeAssumption DEF BuildInit, BlockInv, BuildTypeOK, Dense

\* One instruction more, straight or final.
LEMMA AppendStep ==
  ASSUME NEW d \in Nat, NEW f \in Nat, NEW l \in Nat, Dense(d, f, l),
         BlockInv(d, f, l),
         NEW s \in Shape, NEW final \in BOOLEAN, Append(s, final),
         s.bytes <= d * s.cycles + (IF final THEN f ELSE 0), s.cycles <= l
  PROVE  BlockInv(d, f, l)'
<1> DEFINE count == dr_cycle_counter + s.cycles
           size == dri + s.bytes
           room == Prologue + d * dr_cycle_counter'
           extra == IF final THEN f ELSE 0
<1>1. /\ s.bytes \in Nat /\ s.cycles \in Nat /\ dr_cycle_counter \in Nat
      /\ dri \in Nat /\ Prologue \in Nat /\ ExitBytes \in Nat /\ MaxCycles \in Nat
  BY SizeAssumption DEF Shape, BlockInv, BuildTypeOK
<1>2. /\ st = "emit" /\ dri <= Prologue + d * dr_cycle_counter
      /\ dr_cycle_counter < MaxCycles /\ dr_cycle_counter' = count
  BY DEF Append, BlockInv
<1>3. d * dr_cycle_counter' = d * dr_cycle_counter + d * s.cycles
  BY <1>1, <1>2, Distributes
<1>4. d * dr_cycle_counter \in Nat /\ d * s.cycles \in Nat
  BY <1>1
<1>5. room \in Nat /\ size \in Nat /\ size <= room + extra /\ extra \in {0, f}
  BY <1>1, <1>2, <1>3, <1>4
<1>6. dr_cycle_counter' \in Nat /\ dr_cycle_counter' <= MaxCycles + l
  BY <1>1, <1>2
<1> HIDE DEF room, size, extra
<1>7. CASE /\ dr_cycle_counter' < MaxCycles /\ dri' = size /\ open' = ~final
           /\ st' = IF final THEN "done" ELSE "emit"
  <2>1. /\ open' \in BOOLEAN /\ st' \in {"emit", "done", "dead"}
        /\ st' # "done" => extra = 0
    BY <1>7 DEF extra
  <2>2. /\ dri' \in Nat /\ dri' <= room + f + ExitBytes
        /\ extra = 0 => dri' <= room
    BY <1>1, <1>5, <1>7
  <2> QED BY <1>6, <1>7, <2>1, <2>2 DEF BlockInv, BuildTypeOK, room
<1>8. CASE dri' = size + ExitBytes /\ open' = FALSE /\ st' = "done"
  <2>1. dri' \in Nat /\ dri' <= room + f + ExitBytes
    BY <1>1, <1>5, <1>8
  <2> QED BY <1>6, <1>8, <2>1 DEF BlockInv, BuildTypeOK, room
<1> QED BY <1>2, <1>7, <1>8 DEF Append, size

\* One step keeps the invariant.
LEMMA BlockInvStep ==
  ASSUME NEW d \in Nat, NEW f \in Nat, NEW l \in Nat, Dense(d, f, l)
  PROVE  BlockInv(d, f, l) /\ [BuildNext]_build => BlockInv(d, f, l)'
<1> SUFFICES ASSUME BlockInv(d, f, l), [BuildNext]_build PROVE BlockInv(d, f, l)'
  OBVIOUS
<1>1. ASSUME NEW s \in Straight, Append(s, FALSE) PROVE BlockInv(d, f, l)'
  <2>1. s \in Shape /\ s.bytes <= d * s.cycles /\ s.cycles <= l
    BY ShapeAssumption DEF Dense
  <2>2. s.bytes <= d * s.cycles + (IF FALSE THEN f ELSE 0)
    BY <2>1 DEF Shape
  <2> QED BY <1>1, <2>1, <2>2, AppendStep
<1>2. ASSUME NEW s \in Final, Append(s, TRUE) PROVE BlockInv(d, f, l)'
  <2>1. s \in Shape /\ s.bytes <= d * s.cycles + f /\ s.cycles <= l
    BY ShapeAssumption DEF Dense
  <2>2. s.bytes <= d * s.cycles + (IF TRUE THEN f ELSE 0)
    BY <2>1
  <2> QED BY <1>2, <2>1, <2>2, AppendStep
<1>3. CASE Unknown
  <2>1. /\ st = "emit" /\ st' = "dead"
        /\ dri' = dri /\ dr_cycle_counter' = dr_cycle_counter /\ open' = open
    BY <1>3 DEF Unknown
  <2>2. BuildTypeOK'
    BY <2>1 DEF BlockInv, BuildTypeOK
  <2> QED BY <2>1, <2>2, Zenon DEF BlockInv
<1>4. CASE UNCHANGED build
  BY <1>4 DEF build, BlockInv, BuildTypeOK
<1> QED BY <1>1, <1>2, <1>3, <1>4 DEF BuildNext

\* Bytes are bounded by cycles, and cycles by the limit and one instruction.
LEMMA BlockInvSafe ==
  ASSUME NEW d \in Nat, NEW f \in Nat, NEW l \in Nat, Dense(d, f, l)
  PROVE  BlockInv(d, f, l) => BufferSafe
<1> SUFFICES ASSUME BlockInv(d, f, l) PROVE BufferSafe
  OBVIOUS
<1>1. /\ dr_cycle_counter \in Nat /\ dri \in Nat
      /\ dr_cycle_counter <= MaxCycles + l /\ MaxCycles + l \in Nat
      /\ dri <= Prologue + d * dr_cycle_counter + f + ExitBytes
  BY SizeAssumption DEF BlockInv, BuildTypeOK
<1>2. d * dr_cycle_counter <= d * (MaxCycles + l)
  BY <1>1, Monotone
<1>3. d * dr_cycle_counter \in Nat /\ d * (MaxCycles + l) \in Nat
  BY <1>1
<1> QED BY <1>1, <1>2, <1>3, SizeAssumption DEF BufferSafe, Dense

\* The buffer "ought to be enough" (xgbc.h:16), and is.
THEOREM BufferIsEnough ==
  ASSUME NEW d \in Nat, NEW f \in Nat, NEW l \in Nat, Dense(d, f, l)
  PROVE  BuildSpec => []BufferSafe
<1>1. BuildInit => BlockInv(d, f, l)
  BY BlockInvInit
<1>2. BlockInv(d, f, l) /\ [BuildNext]_build => BlockInv(d, f, l)'
  BY BlockInvStep
<1>3. BlockInv(d, f, l) => BufferSafe
  BY BlockInvSafe
<1> QED BY <1>1, <1>2, <1>3, PTL DEF BuildSpec

\* exit_vm stores the cycles of a block in one byte: the limit and the
\* longest instruction together must fit it.
THEOREM CountFitsByte ==
  ASSUME NEW d \in Nat, NEW f \in Nat, NEW l \in Nat, Dense(d, f, l),
         MaxCycles + l <= 255
  PROVE  BuildSpec => []CyclesFitByte
<1>1. BuildInit => BlockInv(d, f, l)
  BY BlockInvInit
<1>2. BlockInv(d, f, l) /\ [BuildNext]_build => BlockInv(d, f, l)'
  BY BlockInvStep
<1>3. BlockInv(d, f, l) => CyclesFitByte
  BY SizeAssumption DEF BlockInv, BuildTypeOK, CyclesFitByte
<1> QED BY <1>1, <1>2, <1>3, PTL DEF BuildSpec

\* However a block ends, by a final instruction, the limit or the end of its
\* area, its code does not run on into what the buffer held before.
THEOREM BlocksAreClosed == BuildSpec => []Closed
<1>1. BuildInit => Closed
  BY DEF BuildInit, Closed
<1>2. Closed /\ [BuildNext]_build => Closed'
  <2> SUFFICES ASSUME Closed, [BuildNext]_build PROVE Closed'
    OBVIOUS
  <2>1. ASSUME NEW s, NEW final \in BOOLEAN, Append(s, final) PROVE Closed'
    BY <2>1 DEF Append, Closed
  <2>2. CASE Unknown
    BY <2>2 DEF Unknown, Closed
  <2>3. CASE UNCHANGED build
    BY <2>3 DEF build, Closed
  <2> QED BY <2>1, <2>2, <2>3 DEF BuildNext
<1> QED BY <1>1, <1>2, PTL DEF BuildSpec

----------------------------------------------------------------------------
(* The caches                                                               *)

\* What a translation at ip is made from, area by area.
LEMMA DynarecReads ==
  ASSUME Straddling = {}, TypeOK
  PROVE  /\ \A ip \in Base : Dynarec(ip) = [ip |-> ip, bank |-> None, ram |-> None]
         /\ \A ip \in Window : Dynarec(ip) = [ip |-> ip, bank |-> mapped, ram |-> None]
         /\ \A ip \in Ips : Dynarec(ip) \in Code
<1>1. \A ip \in Base : ip \notin Window /\ ip \notin Ram
  BY AreaAssumption DEF Rom
<1>2. \A ip \in Window : ip \notin Ram
  BY AreaAssumption DEF Rom
<1>3. ASSUME NEW ip \in Ips PROVE Dynarec(ip) \in Code
  BY DEF Dynarec, Code, TypeOK
<1> QED BY <1>1, <1>2, <1>3 DEF Dynarec

\* Looking a block of the base ROM up keeps the cache sound and gives a
\* fresh translation.
LEMMA BaseLookup ==
  ASSUME Straddling = {}, CacheInv, NEW ip \in Base, NEW c,
         c = GetFromCache(base_rom, None, ip)
  PROVE  /\ c \in [Slots -> Entries]
         /\ c[Slot[ip]].code = Dynarec(ip)
         /\ \A s \in Slots : /\ c[s].in_use => /\ c[s].ip \in Base /\ c[s].code.ip = c[s].ip
                                              /\ c[s].code.bank = None
                             /\ c[s].code.ram = None
<1> DEFINE d == Dynarec(ip)
           new == [in_use |-> TRUE, ip |-> ip, bank |-> None, code |-> d]
<1>1. /\ Slot[ip] \in Slots /\ ip \in Rom /\ ip \in Ips
      /\ base_rom \in [Slots -> Entries]
  BY SlotAssumption DEF Rom, Ips, CacheInv, TypeOK
<1>2. d = [ip |-> ip, bank |-> None, ram |-> None] /\ d \in Code
  BY <1>1, DynarecReads DEF CacheInv
<1>3. CASE Hit(base_rom, None, ip)
  <2>1. c = base_rom
    BY <1>3 DEF GetFromCache
  <2>2. base_rom[Slot[ip]].in_use /\ base_rom[Slot[ip]].ip = ip
    BY <1>3 DEF Hit
  <2>3. /\ base_rom[Slot[ip]].code \in Code
        /\ base_rom[Slot[ip]].code.ip = ip
        /\ base_rom[Slot[ip]].code.bank = None
        /\ base_rom[Slot[ip]].code.ram = None
    BY <1>1, <2>2 DEF CacheInv, CacheSound, RamNotCached, Entries
  <2>4. base_rom[Slot[ip]].code = d
    BY <1>2, <2>3 DEF Code
  <2> QED BY <1>1, <2>1, <2>4 DEF CacheInv, CacheSound, RamNotCached
<1>4. CASE ~Hit(base_rom, None, ip)
  <2>1. c = [base_rom EXCEPT ![Slot[ip]] = new]
    BY <1>4 DEF GetFromCache
  <2>2. new \in Entries
    BY <1>1, <1>2 DEF Entries
  <2>3. c \in [Slots -> Entries] /\ c[Slot[ip]] = new
    BY <1>1, <2>1, <2>2
  <2>4. \A s \in Slots : s # Slot[ip] => c[s] = base_rom[s]
    BY <1>1, <2>1
  <2>5. /\ new.in_use /\ new.ip = ip /\ new.code = d
        /\ d.ip = ip /\ d.bank = None /\ d.ram = None
    BY <1>2
  <2>6. \A s \in Slots :
          /\ base_rom[s].in_use => /\ base_rom[s].ip \in Base
                                   /\ base_rom[s].code.ip = base_rom[s].ip
                                   /\ base_rom[s].code.bank = None
          /\ base_rom[s].code.ram = None
    BY DEF CacheInv, CacheSound, RamNotCached
  <2> QED BY <2>3, <2>4, <2>5, <2>6
<1> QED BY <1>3, <1>4

\* The same for the window, for the bank that is mapped.
LEMMA WindowLookup ==
  ASSUME Straddling = {}, CacheInv, NEW ip \in Window, NEW c,
         c = GetFromCache(banked_rom, current_rom_bank, ip)
  PROVE  /\ c \in [Slots -> Entries]
         /\ c[Slot[ip]].code = Dynarec(ip)
         /\ \A s \in Slots : /\ c[s].in_use => /\ c[s].ip \in Window /\ c[s].code.ip = c[s].ip
                                              /\ c[s].code.bank = c[s].bank
                             /\ c[s].code.ram = None
<1> DEFINE d == Dynarec(ip)
           new == [in_use |-> TRUE, ip |-> ip, bank |-> mapped, code |-> d]
<1>1. /\ Slot[ip] \in Slots /\ ip \in Rom /\ ip \in Ips
      /\ banked_rom \in [Slots -> Entries]
      /\ mapped \in Banks /\ current_rom_bank = mapped
  BY SlotAssumption DEF Rom, Ips, CacheInv, TypeOK
<1>2. d = [ip |-> ip, bank |-> mapped, ram |-> None] /\ d \in Code
  BY <1>1, DynarecReads DEF CacheInv
<1>3. CASE Hit(banked_rom, current_rom_bank, ip)
  <2>1. c = banked_rom
    BY <1>3 DEF GetFromCache
  <2>2. /\ banked_rom[Slot[ip]].in_use /\ banked_rom[Slot[ip]].ip = ip
        /\ banked_rom[Slot[ip]].bank = mapped
    BY <1>1, <1>3 DEF Hit
  <2>3. /\ banked_rom[Slot[ip]].code \in Code
        /\ banked_rom[Slot[ip]].code.ip = ip
        /\ banked_rom[Slot[ip]].code.bank = mapped
        /\ banked_rom[Slot[ip]].code.ram = None
    BY <1>1, <2>2 DEF CacheInv, CacheSound, RamNotCached, Entries
  <2>4. banked_rom[Slot[ip]].code = d
    BY <1>2, <2>3 DEF Code
  <2> QED BY <1>1, <2>1, <2>4 DEF CacheInv, CacheSound, RamNotCached
<1>4. CASE ~Hit(banked_rom, current_rom_bank, ip)
  <2>1. c = [banked_rom EXCEPT ![Slot[ip]] = new]
    BY <1>1, <1>4 DEF GetFromCache
  <2>2. new \in Entries
    BY <1>1, <1>2 DEF Entries
  <2>3. c \in [Slots -> Entries] /\ c[Slot[ip]] = new
    BY <1>1, <2>1, <2>2
  <2>4. \A s \in Slots : s # Slot[ip] => c[s] = banked_rom[s]
    BY <1>1, <2>1
  <2>5. /\ new.in_use /\ new.ip = ip /\ new.bank = mapped /\ new.code = d
        /\ d.ip = ip /\ d.bank = mapped /\ d.ram = None
    BY <1>2
  <2>6. \A s \in Slots :
          /\ banked_rom[s].in_use => /\ banked_rom[s].ip \in Window
                                     /\ banked_rom[s].code.ip = banked_rom[s].ip
                                     /\ banked_rom[s].code.bank = banked_rom[s].bank
          /\ banked_rom[s].code.ram = None
    BY DEF CacheInv, CacheSound, RamNotCached
  <2> QED BY <2>3, <2>4, <2>5, <2>6
<1> QED BY <1>3, <1>4

\* Empty caches are sound.
LEMMA CacheInit == Init => CacheInv
<1> SUFFICES ASSUME Init PROVE CacheInv
  OBVIOUS
<1>1. NoCode \in Code /\ Unused \in Entries
  BY DEF NoCode, Unused, Code, Entries
<1>2. TypeOK
  BY <1>1, BankAssumption DEF Init, TypeOK
<1>3. CacheSound /\ RamNotCached
  BY DEF Init, Unused, NoCode, CacheSound, RamNotCached
<1> QED BY <1>2, <1>3 DEF Init, CacheInv

\* One step: the invariant is kept, and a block that is entered is fresh.
LEMMA CacheStep ==
  ASSUME Straddling = {}, CacheInv, [Next]_vars
  PROVE  /\ CacheInv'
         /\ running = None /\ running' # None =>
              running'.code = Dynarec(running'.ip)
<1>1. ASSUME NEW ip \in Ips, EnterBase(ip)
      PROVE  CacheInv' /\ running'.code = Dynarec(running'.ip)
  <2>1. ip \in Base /\ base_rom' = GetFromCache(base_rom, None, ip)
    BY <1>1 DEF EnterBase
  <2>2. running' = [ip |-> ip, code |-> Dynarec(ip)] /\ base_rom' \in [Slots -> Entries]
    BY <1>1, <2>1, BaseLookup DEF EnterBase, Execute
  <2>3. Dynarec(ip) \in Code
    BY <1>1, DynarecReads DEF CacheInv
  <2>4. TypeOK'
    BY <1>1, <2>2, <2>3 DEF CacheInv, TypeOK, EnterBase
  <2>5. CacheSound' /\ RamNotCached'
    BY <1>1, <2>1, BaseLookup DEF CacheInv, CacheSound, RamNotCached, EnterBase
  <2> QED BY <1>1, <2>2, <2>4, <2>5 DEF CacheInv, EnterBase
<1>2. ASSUME NEW ip \in Ips, EnterWindow(ip)
      PROVE  CacheInv' /\ running'.code = Dynarec(running'.ip)
  <2>1. ip \in Window /\ banked_rom' = GetFromCache(banked_rom, current_rom_bank, ip)
    BY <1>2 DEF EnterWindow
  <2>2. running' = [ip |-> ip, code |-> Dynarec(ip)] /\ banked_rom' \in [Slots -> Entries]
    BY <1>2, <2>1, WindowLookup DEF EnterWindow, Execute
  <2>3. Dynarec(ip) \in Code
    BY <1>2, DynarecReads DEF CacheInv
  <2>4. TypeOK'
    BY <1>2, <2>2, <2>3 DEF CacheInv, TypeOK, EnterWindow
  <2>5. CacheSound' /\ RamNotCached'
    BY <1>2, <2>1, WindowLookup DEF CacheInv, CacheSound, RamNotCached, EnterWindow
  <2> QED BY <1>2, <2>2, <2>4, <2>5 DEF CacheInv, EnterWindow
<1>3. ASSUME NEW ip \in Ips, EnterRam(ip)
      PROVE  CacheInv' /\ running'.code = Dynarec(running'.ip)
  <2>1. Dynarec(ip) \in Code
    BY <1>3, DynarecReads DEF CacheInv
  <2>2. running' = [ip |-> ip, code |-> Dynarec(ip)]
    BY <1>3 DEF EnterRam, Execute
  <2>3. TypeOK'
    BY <1>3, <2>1, <2>2 DEF CacheInv, TypeOK, EnterRam
  <2> QED BY <1>3, <2>2, <2>3 DEF CacheInv, CacheSound, RamNotCached, EnterRam
<1>4. ASSUME NEW b \in Banks, SwitchRom(b)
      PROVE  CacheInv' /\ running' = running
  BY <1>4 DEF CacheInv, TypeOK, CacheSound, RamNotCached, SwitchRom
<1>5. ASSUME NEW r \in Contents, WriteRam(r)
      PROVE  CacheInv' /\ running' = running
  BY <1>5 DEF CacheInv, TypeOK, CacheSound, RamNotCached, WriteRam
<1>6. ASSUME Exit PROVE CacheInv' /\ running' = None
  BY <1>6 DEF CacheInv, TypeOK, CacheSound, RamNotCached, Exit
<1>7. ASSUME UNCHANGED vars PROVE CacheInv' /\ running' = running
  BY <1>7 DEF CacheInv, TypeOK, CacheSound, RamNotCached, vars
<1> QED BY <1>1, <1>2, <1>3, <1>4, <1>5, <1>6, <1>7 DEF Next

\* The caches are sound in every reachable state and hold nothing that was
\* translated from RAM.
THEOREM CacheInvariant == Straddling = {} => (Spec => []CacheInv)
<1> SUFFICES ASSUME Straddling = {} PROVE Spec => []CacheInv
  OBVIOUS
<1>1. CacheInv /\ [Next]_vars => CacheInv'
  BY CacheStep
<1> QED BY CacheInit, <1>1, PTL DEF Spec

\* Addresses and banks that share a slot are not taken for each other.
THEOREM BlocksAreToldApart == Straddling = {} => (Spec => []CacheSound)
<1>1. CacheInv => CacheSound
  BY DEF CacheInv
<1> QED BY <1>1, CacheInvariant, PTL

\* Code in RAM "must not be cached", and is not.
THEOREM RamIsNotCached == Straddling = {} => (Spec => []RamNotCached)
<1>1. CacheInv => RamNotCached
  BY DEF CacheInv
<1> QED BY <1>1, CacheInvariant, PTL

\* Every block that is entered is a translation of what is mapped now.
THEOREM BlocksAreFresh == Straddling = {} => (Spec => EntersFresh)
<1> SUFFICES ASSUME Straddling = {} PROVE Spec => EntersFresh
  OBVIOUS
<1>1. CacheInv /\ [Next]_vars =>
        [running = None /\ running' # None =>
           running'.code = Dynarec(running'.ip)]_vars
  BY CacheStep
<1> QED BY <1>1, CacheInvariant, PTL DEF Spec, EntersFresh
=============================================================================
