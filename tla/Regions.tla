------------------------------ MODULE Regions ------------------------------
(***************************************************************************)
(* Which byte an access of the guest ends at.  There are five ways to the  *)
(* guest's memory, and each decides for itself what an address means: a    *)
(* compiled load or store goes through the host's mappings and, if these   *)
(* fault, through the fault handler (catcher.c); the loop, the translator  *)
(* and update_cpu use the inline functions of xgbc.h; the high memory has  *)
(* hmem_read8 and hmem_write8 (memory.c); and the two transfers of io.c    *)
(* copy on their own.  All of them depend on the mappings that Banking     *)
(* moves, so they are stated over its states.                              *)
(*                                                                         *)
(* A byte is named by the memory it is in, its bank, and its offset there. *)
(***************************************************************************)
EXTENDS Banking

CONSTANTS Addresses   \* the guest addresses that are looked at

Addr == {x \in Nat : x < 65536}

ASSUME AddressAssumption == Addresses \subseteq Addr

Access == {"load", "store"}

\* A fault in the emulator's own code: the handler knows only the
\* instructions of translated code, and ends the emulator.
Lost == <<"lost", 0, 0>>

----------------------------------------------------------------------------
(* The guest's memory map, by its registers                                *)

\* The bank that an access to cartridge RAM means.  (See Banking for MBC1
\* and for the time before the guest first uses the controller.)
RamBank ==
  IF cart.mbc = 1 \/ ~armed THEN ram
  ELSE IF ram_enabled /\ ~Clock(cramb) THEN cramb ELSE None

Wram(o) ==
  IF o < 4096 THEN <<"wram", 0, o>>
  ELSE <<"wram", IF svbk = 0 THEN 1 ELSE svbk, o - 4096>>

Owner(a, acc) ==
  IF a < 32768 /\ acc = "store" THEN <<"controller", 0, a>>
  ELSE IF a < 16384 THEN <<"rom", 0, a>>
  ELSE IF a < 32768 THEN <<"rom", cromb, a - 16384>>
  ELSE IF a < 40960 THEN <<"vram", vbk, a - 32768>>
  ELSE IF a < 49152 THEN <<"eram", RamBank, a - 40960>>
  ELSE IF a < 57344 THEN Wram(a - 49152)
  ELSE IF a < 65024 THEN Wram(a - 57344)
  ELSE IF a < 65280 THEN <<"oam", 0, a - 65024>>
  ELSE IF a < 65408 \/ a = 65535 THEN <<"io", 0, a - 65280>>
  ELSE <<"hram", 0, a - 65408>>

----------------------------------------------------------------------------
(* The host's mappings                                                      *)

\* Reads below 0xF000 and writes from 0x8000 to there go through.
Faults(a, acc) ==
  \/ a >= 61440
  \/ a < 32768 /\ acc = "store"
  \/ a >= 40960 /\ a < 49152 /\ ram = None

Mapped(a) ==
  IF a < 16384 THEN <<"rom", 0, a>>
  ELSE IF a < 32768 THEN <<"rom", rom, a - 16384>>
  ELSE IF a < 40960 THEN <<"vram", vram, a - 32768>>
  ELSE IF a < 49152 THEN <<"eram", ram, a - 40960>>
  ELSE IF a < 53248 THEN <<"wram", 0, a - 49152>>
  ELSE IF a < 57344 THEN <<"wram", wram, a - 53248>>
  ELSE <<"wram", 0, a - 57344>>

\* An access of the emulator's own code.
Direct(a, acc) == IF Faults(a, acc) THEN Lost ELSE Mapped(a)

----------------------------------------------------------------------------
(* memory.c: the high memory                                                *)

\* Faulty: the mirror is a mapping of its own, and no switch moves it.
BugHmem(off, acc) ==
  IF off < 3584 THEN <<"wram", 1, off>>
  ELSE IF off < 3840 THEN <<"oam", 0, off % 256>>
  ELSE IF off < 3968 \/ off = 4095 THEN <<"io", 0, off % 256>>
  ELSE <<"hram", 0, off % 128>>

\* hmem_read8 and hmem_write8, which differ in nothing but the direction.
Hmem(off, acc) ==
  IF off < 3584 THEN Direct(53248 + off, acc)
  ELSE IF off < 3840 THEN <<"oam", 0, off % 256>>
  ELSE IF off < 3968 \/ off = 4095 THEN <<"io", 0, off % 256>>
  ELSE <<"hram", 0, off % 128>>

----------------------------------------------------------------------------
(* catcher.c: accesses of translated code                                   *)

\* unsafe_mem_read8
UnsafeRead8(a) ==
  IF a >= 61440 THEN Hmem(a - 61440, "load")
  ELSE IF a < 32768 THEN Direct(a, "load")
  ELSE <<"eram", None, a - 40960>>

\* unsafe_mem_read16: the address of the second byte is a word again.
UnsafeRead16(a) == <<UnsafeRead8(a), UnsafeRead8((a + 1) % 65536)>>

\* unsafe_mem_write8
UnsafeWrite8(a) ==
  IF a >= 61440 THEN Hmem(a - 61440, "store")
  ELSE IF a < 32768 THEN <<"controller", 0, a>>
  ELSE <<"eram", None, a - 40960>>

\* Faulty: both bytes to one place.
BugUnsafeWrite16(a) == <<UnsafeWrite8(a), UnsafeWrite8(a)>>

\* unsafe_mem_write16: the first byte's region takes both.
UnsafeWrite16(a) ==
  IF a >= 61440 THEN <<Hmem(a - 61440, "store"), Hmem(a - 61439, "store")>>
  ELSE IF a < 32768 THEN <<<<"controller", 0, a>>, <<"controller", 0, a + 1>>>>
  ELSE <<<<"eram", None, a - 40960>>, <<"eram", None, a - 40959>>>>

Load8(a) == IF Faults(a, "load") THEN UnsafeRead8(a) ELSE Mapped(a)
Store8(a) == IF Faults(a, "store") THEN UnsafeWrite8(a) ELSE Mapped(a)

\* A word faults if either of its bytes does, and then it is the handler's.
WordFaults(a, acc) == Faults(a, acc) \/ Faults(a + 1, acc)
Load16(a) ==
  IF WordFaults(a, "load") THEN UnsafeRead16(a) ELSE <<Mapped(a), Mapped(a + 1)>>
Store16(a) ==
  IF WordFaults(a, "store") THEN UnsafeWrite16(a) ELSE <<Mapped(a), Mapped(a + 1)>>

----------------------------------------------------------------------------
(* xgbc.h: accesses of the loop, the translator and update_cpu              *)

\* MEM8
Mem8(a) == IF a < 61440 THEN Direct(a, "load") ELSE Hmem(a % 4096, "load")

\* MEM16 and mem_write16
Word(a, acc) ==
  IF a >= 61440 THEN <<Hmem(a - 61440, acc), Hmem(a - 61439, acc)>>
  ELSE IF WordFaults(a, acc) THEN <<Lost, Lost>>
  ELSE <<Mapped(a), Mapped(a + 1)>>

\* ld (0xFF00+n),a and ld a,(0xFF00+n), which the loop interprets.
LoadIo(n, acc) == Hmem(3840 + n, acc)

----------------------------------------------------------------------------
(* io.c: the transfers                                                      *)

\* Byte i of a transfer to OAM; p is the value written, shifted.
OamDma(p, i) ==
  IF p < 61440 THEN Direct(p + i, "load") ELSE Hmem((p % 4096) + i, "load")

\* Faulty: the high memory is copied like the rest.
BugHdmaFrom(a, i) == Direct(a - (a % 16) + i, "load")

\* Byte i of the 16 that hdma_copy_16b takes with HDMA1 and HDMA2 at a, ...
HdmaFrom(a, i) ==
  LET src == a - (a % 16) IN
  IF src < 61440 THEN Direct(src + i, "load") ELSE Hmem((src + i) % 4096, "load")

\* ... and where it puts it, with HDMA3 and HDMA4 at d.
HdmaTo(d, i) == Direct(32768 + ((d % 8192) - (d % 16)) + i, "store")

\* HDMA1 to HDMA4 afterwards; for a destination bit 15 is set as well.
HdmaNext(a) == ((a - (a % 16)) + 16) % 65536
HdmaNextTo(d) == (32768 + ((d % 8192) - (d % 16)) + 16) % 65536

----------------------------------------------------------------------------
(* Properties                                                               *)

\* An access of the emulator's own code gets there, or it was to cartridge
\* RAM that is not there (or a write to ROM) and the emulator ends.
Reaches(x, a, acc) == x = (IF Faults(a, acc) /\ a < 61440 THEN Lost ELSE Owner(a, acc))

\* Whatever way a byte is read, written, fetched or interpreted, it is the
\* byte that the guest's banking registers name: the mappings, the handler,
\* hmem_read8 and the mirror of WRAM agree, after any sequence of switches.
BytesReachOwner ==
  ~dead => \A a \in Addresses :
    /\ Load8(a) = Owner(a, "load")
    /\ Store8(a) = Owner(a, "store")
    /\ Reaches(Mem8(a), a, "load")
    /\ \A w \in Access : a >= 65280 => LoadIo(a - 65280, w) = Owner(a, w)

\* Words that the code does not get right: one byte faults and the other
\* does not, or the second byte is behind the last address.
Edge(a, acc) == a = 65535 \/ (Faults(a, acc) # Faults(a + 1, acc))

\* So do both bytes of a word, in pushes, pops and interrupts too, wherever
\* the word is, but for the edges between memory that is mapped and not.
WordsReachOwners ==
  ~dead => \A a \in Addresses :
    /\ ~Edge(a, "load") => Load16(a) = <<Owner(a, "load"), Owner(a + 1, "load")>>
    /\ ~Edge(a, "store") => Store16(a) = <<Owner(a, "store"), Owner(a + 1, "store")>>
    /\ \A w \in Access : ~Edge(a, w) =>
         /\ Reaches(Word(a, w)[1], a, w)
         /\ Reaches(Word(a, w)[2], a + 1, w)

\* And so do the bytes that a transfer to OAM or VRAM copies; its blocks
\* follow each other, around the end of the address space and of VRAM.
CopiesReachOwner ==
  ~dead => \A a \in Addresses :
    LET i == a % 16
        next == (a + 16) % 65536 IN
    /\ a % 256 < 160 => Reaches(OamDma(a - (a % 256), a % 256), a, "load")
    /\ Reaches(HdmaFrom(a, i), a, "load")
    /\ Reaches(HdmaFrom(HdmaNext(a), i), next, "load")
    /\ HdmaTo(a, i) = <<"vram", vbk, a % 8192>>
    /\ HdmaTo(HdmaNextTo(a), i) = <<"vram", vbk, next % 8192>>
============================================================================
