# xgbcdyna: a verification project

xgbcdyna is a Game Boy Color emulator that translates the guest's code to x86
block by block. Guest memory is a host mapping at `MEM_BASE`: most guest loads
and stores are plain x86 instructions, and what must not be plain (registers,
writes to ROM, cartridge RAM that is switched off) is left unmapped, faults, and
is executed by a signal handler. This directory holds TLA+ models of the parts
in which that design can go wrong, their TLC runs, and TLAPS proofs.

Everything runs in one thread. What makes the program hard is not parallelism
but *re-entrancy and duplicated state*: a store in the middle of a compiled
block runs the interrupt logic; the interrupt logic advances the clock, which
copies DMA blocks, which advance the clock; the guest's registers live in two
places, its flags in the host's, the ROM bank in three; one guest address can be
reached in five ways; guest time arrives in batches of any size.

## Inventory

| Part | Code | State | Operations | What must be right |
|---|---|---|---|---|
| Run loop, interrupts | `execute.c` `begin_execution`, `state.c`, `dynarec/vm-exit.c` | `vm_ip`, `vm_sp`, `ime`, `int_flag`, `ie`, `cycles_gone`, `interrupt_issued` | interpret an uncompilable instruction, HALT, `update_cpu`, enter and leave a block | no interrupt slept through, lost or starved; each guest cycle reported once |
| Block translator | `execute.c` `dynarec`, `dynarec/ops.c`, `op-info.c` | buffer position, cycle count | append an instruction, follow a jump, emit an exit | fits the buffer, always exits, ends |
| Instruction templates | the rows of `dynarec/ops.c`, `op-info.c` | the guest's A and flags in the host's | execute | does what the guest instruction does, to flags too |
| Block caches | `execute.c` `get_from_cache`, `cache_get` | two caches of 0x4000 slots, one buffer for RAM code, current bank | look up, translate, switch bank | no stale block, no mix-up |
| Banking | `memory.c`, VBK and SVBK in `io.c` | controller registers and host mappings | writes to ROM addresses, VBK, SVBK; accesses to an unmapped window | mapping = registers; exits only for a reason |
| Region dispatch | `memory.c` `hmem_*`, `xgbc.h` `MEM8`..., `catcher.c` `unsafe_mem_*`, the transfers of `io.c` | none | route an access | every address reaches its owner |
| Timer, DIV | `io.c` `inc_timer`, `update_timer`, `state.c` | TIMA, TMA, TAC, two remainders, beam and transfer | a batch of cycles, TAC, TMA, IE, IF, HDMA5, HALT steps | batches and nested calls lose nothing; HALT ends in time |
| LCD, HDMA | `io.c` `inc_timer`, `hdma_copy_16b`, `io_write` | beam, LY, STAT, HDMA5, drawing state | a batch of cycles, HDMA5, LCDC, STAT | beam keeps time under nesting; requests not skipped; DMA exact |
| Joypad | `input.c`, P1 in `io.c` | keys, P1 | write P1, key events | the guest reads its keys; a press interrupts |
| Fault handler | `catcher.c` | saved host registers | execute the faulting instruction | indistinguishable from no fault |
| Flag tables | `helper.c` | none | convert flags to F and back | inverse to each other |
| Video output | `video.c` | pixels, palettes | `draw_line` | every pixel drawn, by the right layer |
| Palettes, OAM DMA, plain registers | `io.c` | registers, palettes | read, write | bytes arrive |
| Header, startup | `cartridge.c`, `main.c` | type, sizes, files | read once | parsing |
| Tools | `precompiler.rb`, `tsc.c`, `Makefile` | – | build, statistics | – |

How they meet: the loop calls `update_cpu`, which calls `inc_timer` (timer, LCD),
which may call `hdma_copy_16b`, which calls `update_cpu` again, and `draw_line`,
which polls input. A block's store faults into `catcher.c`, which calls
`rom_write8` (banking; it tells the block cache the new bank), `eram_write8` or
`hmem_write8` and `io_write`; a write to IF or IE, or a DMA started by HDMA5,
calls `update_cpu` from there. The loop itself writes registers for the
instructions `ldh (n),a` and `ld (c),a`, and reads them, because those
instructions "would segfault in any case" and are not compiled.

## Modules

| Module | Models | Checked with | Proved in |
|---|---|---|---|
| `RunLoop` | run loop, `update_cpu`, block entry and exit; time may request anything | itself | `RunLoopProofs` |
| `IrqContract` | abstract: one processor with interrupts between instructions | refined by `RunLoop` | `RunLoopProofs` |
| `Machine` | composition: run loop, guest program, timer, lines, nested transfers; refines `RunLoop` | `MCMachine` (three guest programs) | `MachineProofs` |
| `Banking` | controllers and mappings | `MCMemory`, through `Regions` | `MemoryProofs` |
| `Regions` | which byte each way to memory ends at, over the states of `Banking` | `MCMemory` | `MemoryProofs` |
| `BlockCache` | caches, bank copy, code in RAM | `MCExecute` | `ExecuteProofs` |
| `Translator` | the builder of one block | `MCExecute` (real instruction shapes) | `ExecuteProofs` |
| `X86` | the processor's byte instructions and their flags, by definition | in `Templates` | with `Templates` |
| `Catcher` | the handler's formulas for the same instructions | in `Templates` | with `Templates` |
| `Templates` | what a translated instruction does, against its guest instruction | `MCTemplates` | `TemplatesProofs` |
| `Timer` | timer, DIV, the calls nested in `inc_timer`, both kinds of HALT step | `MCTimer` | `TimerProofs` |
| `Lcd` | beam, STAT, requests, HDMA, when lines are drawn | itself | `LcdProofs` |
| `Screen` | how one line is drawn | `MCScreen` | – |
| `Joypad` | P1 and its interrupt | `MCMemory` | `MemoryProofs` |
| `Numbers` | nothing: lemmas on division, induction and recursive functions | – | itself |

Definitions carry the names of the code (`Update`, `EvadeHalt` for the
"Ausweichemulator", `GetFromCache`, `SkipUntilHBlank`). Operators whose name
begins with `Bug` are faulty variants of the definition after them; the project
file pairs each with a property that detects it. No specification uses them.

### RunLoop

`pc` is the place in `begin_execution`: the inner `while` over instructions that
are not compiled ("fetch"), HALT's own loop ("halt"), the moment between
`update_cpu(cycles_gone)` and `current_eu()` ("enter"), or a block ("block").
One action is one pass of one of these loops, with the whole `update_cpu` it
calls. `UpdateCpu` raises any set of sources (what `inc_timer` may do), accepts
the lowest enabled one if `ime` is set, and may raise more afterwards, because
an HBlank DMA inside `inc_timer` calls `update_cpu` from within. In a block the
stack pointer is `ebp`, loaded on entry and stored on exit, and `vm_ip` and
`vm_sp` are what they were. `BlockStore` is a compiled store that reaches IF, IE
or HDMA5 through the signal handler. The guest's code is arbitrary: any
instruction may be at any address. Stack words are memory of their own; a stack
that lies over registers or ROM is not modelled.

Three history variables: `owed`, the last acceptance whose vector has not been
entered, with the address it interrupted; `debt`, guest cycles executed and not
yet reported to the clock; `stored`, whether a compiled store has reached one
of the three registers. Such a store makes `update_cpu` push a stale `vm_ip` at
a stale `vm_sp`, and the block's exit overwrites the vector. The loop's own
promises hold for any guest all the same (`HaltAwake`, `OwedEntered`,
`CyclesAccounted`, `EnabledServed`, `HaltIsFinal`); `IrqContractHolds` is
promised up to the first step that sets `stored`, and so for ever to guests that
write these registers with `ldh` only, as the instruction set suggests.

### IrqContract

What a guest may rely on: a processor that is at one address or busy (`None`),
accepts the highest-priority enabled source between two instructions, pushes the
address it was interrupted at, clears the request and the master enable, and
wakes from HALT. `RunLoop` implements it with `sp` read from `ebp` in a block,
`ip` unknown in a block, and `asleep` for HALT's loop.

### Machine

`RunLoop` lets time request anything at any moment; `Lcd` and `Timer` let anyone
call them with any batch. `Machine` puts the two sides together. Its state is one
record, because a call of `update_cpu` is a function on the state: `UpdateCpuBy`,
`IncTimerBy`, `EndLines` and `Copy16` call each other as `update_cpu`, `inc_timer`,
its line loop and `hdma_copy_16b` do, so that an interrupt can be accepted within
a line, within a transfer, within a call that will look at IF itself. The
recursive function is the line loop `EndLines`, on the set `States`; the others
are given it as `loop`. The guest
is one of three programs (in `MCMachine`) with handlers for VBlank, STAT and
timer: they wait in HALT, compute, and start, resize and stop transfers of both
kinds, write IF, and leave enabled and disabled sources pending.

`LoopRefined` says that all this is one of the behaviours of `RunLoop`: the
abstraction "a call may raise any sources, accept one, and raise more" holds of
the nested calls, so what is proved of `RunLoop` holds of the composition; both
are proved, for every guest program, in `MachineProofs`.
`ServedOnce` and `StackBalanced` need what `RunLoop` does not have: what a device
requested, and what the guest's handlers do. `due` counts the VBlanks that began
and are not served, `merged` those of them that began while one was still requested
(IF has one bit for both). The guests of `MCMachine` never leave a VBlank that long;
`ASSUME`s in `MCMachine` state, and TLC evaluates, that they meet the premises under
which both properties are proved of every guest (`EnteredByInterrupt`, `Balanced`).

### Banking

Every register is kept apart from the mapping it is meant to control, as in the
code: `cromb` (controller), `rom` (what is mapped), `current_rom_bank`
(translator); `cramb`, `ram_enabled` and `ram` (`None` = unmapped, which is
`ram_mapped` being false). Actions are the cases of `mbc1_rom_write`,
`mbc3_rom_write` and `mbc5_rom_write`, the two accesses to an unmapped window
that end the program, and VBK and SVBK. The cartridge is chosen in `Init` among
those `check_cartridge` accepts, with or without a RAM file.

### Regions

A byte of the guest's memory is named by its memory, its bank and its offset.
`Owner` says which byte an address means, by the *registers* the guest wrote
(`cromb`, `cramb`, `vbk`, `svbk`). The five ways to memory each have operators
of their own, written from their code and over the *mappings*: plain accesses of
translated code (`Mapped`, and `Faults` for what the handler gets), the handler's
`unsafe_mem_*`, the functions of `xgbc.h` that loop, translator and `update_cpu`
use, `hmem_*`, and the two transfers. The properties compare them in every state of
`Banking`, that is after any sequence of bank switches. `RamBank` follows
`RamWindowCurrent`: for MBC1, and before the guest first uses a controller, what
is mapped is not a function of the registers (see the hazards), and the mapping
itself is taken as the meaning.

`Edge` names the words that the code does not get right and the properties leave
out: those of which one byte faults and the other does not (a store at 0x7FFF, a
load at 0xEFFF, the borders of unmapped RAM), where the handler or `MEM16` decides
by the first byte alone, and the word at 0xFFFF.

### BlockCache

Of a translation only its inputs are kept: the address, the bank mapped when it
was made if it read the window, the contents of RAM if it read RAM. Bank
switches and stores may come at any time, also from the running block.
`Straddling` are ROM blocks whose last instruction reads on beyond its 16 KiB
area, because `dynarec` compares the area only after an instruction; such a
block is cached under its first area alone and can be executed stale. The
properties are about guests without one: `Straddling` is empty in the run.

### Translator

A shape is what an instruction costs: bytes of x86 and guest cycles. Any sequence
of shapes can be translated, with a cycle-limit exit or an area exit after any
instruction. `MCExecute` lists the shapes of the default build
(`REGISTER_EQUIVALENCE`, exact flags), one per pair of size and cycles that an
opcode of `ops.c` and `op-info.c` has, and asserts `Dense(16, 21, 6)`: no
straight shape has more than 16 bytes per cycle, no final one more than 21 on
top of that, none more than 6 cycles.

### X86, Catcher, Templates

The guest's A is AL, and Z, C and H are ZF, CF and AF. A template of `ops.c` is a
sequence of x86 instructions around the one that does the work, which saves,
masks and restores flags with `lahf`, `sahf` and the host's stack. `Templates`
has these sequences (`RotateCb`, `BitCb`, `PushAf`...), an interpreter for them
(`Run`), and what the guest instruction should do (`GuestFlags`,
`GuestResult`), which is taken from the comments in `ops.c`, not from its code.
An operand is in another register, in A, or at `[edx]`; if it is at `[edx]` and
faults, the one x86 instruction that touches it is executed by `Catcher`'s
formulas instead of `X86`'s definitions, between the others of its template.
`X86` computes carries as overflows, and a bitwise result is the number whose bits
a set operation gives (`Number`, `Bits`); flags are sets of bits. A flag the
processor leaves undefined is arbitrary (`junk`), and so is what a 16-bit operation
does to the flags. A byte has two, four, six or eight bits (`Half` is 2, 4, 8 or
16): `lahf`, the tables and the masks work on AH's eight in any case. `SbcFault` and
`WrongFlags` are the forms that are wrong (see Findings), `Sound` all others.

Guest instructions follow each other on `cpu`; `step` is the last one executed
with what it did (`out`), should do (`guest`) and would have done without the
fault (`mapped`).

### Timer, Lcd

The two halves of `inc_timer`, each a function of a record (`timer`, `lcd`).
`inc_timer`, its line loop, `hdma_copy_16b` and `update_cpu` call each other, which
is one recursive function on the states inside a call: the loop `EndLines`, to which
`IncTimerBy` and `Copy16` are given (`Ending` and `Screens` are its domains).
LYC, TIMA and DIV cannot be written: `io_write` ends the program on them, so LYC is
0 for ever.

`Timer` is the timer's half, with as much of the other as makes time pass: the cycle
of the line, the blocks left to copy (`left` is HDMA5 + 1, or 0 without a transfer),
and 8 cycles for each. So a call takes longer than the cycles it is given, and the
timer advances in the middle of it. `Accept` is what `update_cpu` does with the
timer's request, in nested calls as in outer ones, and ends a HALT by `halted`, the
negation of `interrupt_issued`. A running guest hands over batches (`Run`), writes
TAC, TMA, IE, IF, HDMA5 and LCDC, and enters HALT; a halted one only takes
`HaltStep`. IE's bit and IME are one variable, `ime`; the other interrupts, which
end a HALT in the same calls, are left out. Two variables are history: `ref`, a timer
that is given the same time one cycle at a time, and `late`, the cycles since TIMA
overflowed in this HALT.

`Lcd` translates the other half statement by statement; `time` counts the cycles
for which the LCD was on.

### Screen

`draw_line` from its start to its end for one line: `draw_bg_line` walks the
screen's column `sx` and the map's column `ax` together, a pixel at a time
(`DrawPixel`), and jumps over tiles of the other priority (`SkipTile`) by byte
arithmetic on `ax`; window and sprites come between its two passes. A pixel is what
was drawn last in its column, with its place in the tile for the background.

Two premises of `LineDrawn` are what the arithmetic does. `JumpsTooFar`: from the
last column of a tile the jump goes one tile too far, which matters if the line
begins there and the first two tiles differ in priority. And with a window the
property is about `scx` 0 and no tiles with priority, because the pass stops
where WX meets the *map's* column. Drawing beside the line (a window or sprite at
the edge goes on in the neighbouring lines' memory), the sprite before the first,
the choice of the last sprites instead of the first ten, and that a tile with
priority covers sprites even with colour 0, are what the code does; the model
follows it and no property is about it.

### Joypad

`update_keyboard` computes `value |= ~(...)` on a whole integer, so the
selection bits of P1 become 1 with the first key change (`UpdateKeyboard`). The
properties are stated up to that change.

## Runs

| Run | Configuration | Checks | Shows |
|---|---|---|---|
| `run_loop` | `RunLoop.cfg` | `HaltAwake` `OwedEntered` `CyclesAccounted` `HaltIsFinal` `IrqContractHolds` `EnabledServed` | the loop is right for any guest; it implements the contract up to the first compiled store to IF, IE or HDMA5 |
| `machine` | `Machine.cfg` | `ServedOnce` `StackBalanced` `LoopRefined` `HandlersRun` | loop and devices together implement the loop; no VBlank lost or served twice; handlers go on being run |
| `memory` | `Memory.cfg` | `WindowsCurrent` `RamWindowCurrent` `DisabledUnmapped` `DiesForAReason` `BytesReachOwner` `WordsReachOwners` `CopiesReachOwner`; `ReadsTheKeys` `PressIsReported` `NoStrayRequest` | mappings follow registers, and every way to memory ends where the registers say; keys and interrupt |
| `execute` | `Execute.cfg` | `BufferSafe` `Closed` `Finishes`; `CacheSound` `RamNotCached` `EntersFresh` | 0x400 bytes are enough; every block has an exit; no stale block |
| `templates` | `Templates.cfg` | `GuestInstruction` `Transparent` | every translation but the wrong ones is right, on mapped and on faulting memory |
| `templates_ccf` | `TemplatesCcf.cfg` | `GuestInstruction`, violated | `ccf` always sets the carry |
| `templates_rotate_a` | `TemplatesRotateA.cfg` | `GuestInstruction`, violated | `rlc`, `rrc`, `rl`, `rr` of A take ZF from the carry |
| `templates_sbc` | `TemplatesSbc.cfg` | `Transparent`, violated | `sbc a,(hl)` on memory that faults |
| `screen` | `Screen.cfg` | `LineDrawn` | no column is left out, layers are in order, and the line ends |
| `timer` | `Timer.cfg` | `BatchesExact` `LoopEnds` `WakesInTime` `TimerWakes` | exact batches, nested calls included; HALT ends in the step of the overflow |
| `timer_skip` | `TimerSkip.cfg` | `WakesOnTime`, violated | with `HALT_CYCLES` -1 the timer's interrupt comes at the end of the line |
| `lcd` | `Lcd.cfg` | `BeamOnTime` `DmaExact` `VBlankReported` `StatMatchesLine` `LineReported` `DmaPaced` `ScreenShown` | nesting and batching; drawing goes on |

Two runs check two components each, by a module that only joins their actions.
`MCExecute` lets `Translator` run to its end and `BlockCache` start from there:
`dynarec()` is called before the first block is entered, and its counters are gone when
it has returned. `MCMemory` lets either `Regions` or `Joypad` move, the other staying at
its start: they share no state, so behaviours in which both move show nothing more.

### Bounds

* `RunLoop`: two sources (priority matters from two on), four addresses of which
  two are vectors, two stack words (so the stack wraps and old words are
  overwritten), blocks of two cycles and three interpreted cycles: enough for an
  interrupt in every position around a block, a HALT and a nested DMA. The
  proofs lift all of these. For `EnabledServed` the bound on interpreted cycles
  stands for the fact that a run of interpreted instructions is straight-line
  code and so ends.
* `Machine`: lines of 7 cycles, two visible of three, a DMA block of 2 cycles, a
  timer tick every 4 cycles and overflow every 2 ticks, blocks of at most 3 cycles,
  three stack words: a line, a timer period, a block and a transfer have lengths
  without a common measure, so each device meets the others in every phase; a
  transfer of three blocks is longer than what is left of a line, and with
  `HALT_CYCLES` -1 a HALT step skips timer overflows.
* `Regions`: the bytes 0, 1, 2, 3, 5, 8, 10, 12, 13, 33, 66 and 255: what a
  controller singles out, and values on both sides of each mask and range test.
  Bank numbers are not capped; they stay finite because bytes do. 25 addresses:
  both sides of every border of the memory map. The proofs are about all.
* `BlockCache`: two slots, two fixed and three window addresses of which four
  share a slot, one RAM address, three banks, two contents of RAM.
* `Translator`: the real limits and sizes. The behaviours are bounded by the
  cycle limit itself. An unknown opcode ends the emulator, so deadlock is not checked
  in `execute`; nor in `memory`, where `exit(1)` ends it, in `templates`, where an
  instruction the handler does not know does, and in `screen`, whose line is done.
* `Templates`: bytes of four bits, halves of two: every A, operand, flag and bit
  number, in every order. `lahf` and the tables work on the real eight bits of AH.
  The proofs lift the width to the real byte.
* `Timer`: TIMA of 3 values, DIV of 2, periods 6, 1, 2, 3 in the real order, a line
  of 4 cycles, blocks of 2, transfers of one or two, batches 1, 3, 7 (0 after a store
  to IE or IF), and 1, 3 and -1 for `HALT_CYCLES`: a batch may overflow TIMA several
  times and end two lines, a block may end the next line, and remainders survive
  a change of period. `TimerSkip.cfg` has -1 alone and no transfer.
* `Lcd`: the real thresholds 51, 71, 114 and 8 cycles per DMA block; two visible
  lines and two of VBlank instead of 144 and 10; batches 0, 1, 37 (the longest
  block), 120 (more than a line) and 25 (the longest that is sure to meet mode 0);
  no STAT source or the HBlank alone is selected; DMA lengths 0 and 2, so one to
  three blocks.
* `Screen`: tiles of four pixels, four on the map, two of them on the screen: all
  16 positions on the map (so lines wrap around it), all 81 rows of tiles that are
  plain, of colour 0 or with priority, six rows of sprites, two sprites drawn at
  most, the window at the left edge, in the middle of a tile, and off the screen.
* `Joypad`: two keys per group: one pressed and one not. The proofs lift this.

### Fairness

The emulator is one thread in `for (;;)`. `RunLoop` and `Machine` assume weak
fairness of `Next` only: the thread keeps running; so does `execute` of the builder
and `Screen` of `draw_line`'s loops. `Timer` assumes it of `HaltStep`, the body of HALT's loop, and
`Lcd` that time passes (some batch other than 0), because the loop has nothing else
to do. No fairness is assumed of the guest: it may never enable, acknowledge or
write anything. The guests of `Machine` are programs and do what they say, but how
long they compute in a loop before the next thing they do is free.

`ScreenShown` depends on how often `inc_timer` is called, and its premise says so:
no call takes more than 25 cycles, so some call ends in mode 0 of every line.
With batches of 37 a guest in step with the line can avoid mode 0 for ever, and
with `HALT_CYCLES` -1 an idle guest always does: each step ends exactly at the
line's end, the mode is set before the line is advanced, and `redrawed` is not
reset; the screen then freezes and input is no longer polled. With the LCD off,
input is not polled at all.

## Findings

* `templates_ccf`, `GuestInstruction`: with exact flags `ccf` (`ops.c:482`) masks
  CF away before it inverts it, so it always sets the carry; the other build's row
  (`ops.c:480`) says `cmc`. The trace is a `ccf` with the carry set, after which it
  is still set.
* `templates_rotate_a`, `GuestInstruction`: `rlc a`, `rrc a`, `rl a` and `rr a` (CB 07,
  0F, 17, 1F; `ops.c:721`) save the carry in AL and then test AL for the result. The
  trace is an `rl a` of 0 with the carry set: A becomes 1 and ZF is set.
* `templates_sbc`, `Transparent`: `catcher.c:155` says `sbb` sets ZF, CF and AF; CF
  ignores the borrow, AF a carry out of the low half of `v2 + cf`.
* `timer_skip`, `WakesOnTime`: `xgbc.h:53` says of `HALT_CYCLES` -1 that the interrupts
  should still come at the correct time ("Dadurch sollten die IRQs immer noch zum
  korrekten Zeitpunkt ausgelöst werden"); for the timer's this is wrong, because a
  step of HALT is the whole rest of the line (`io.c:210`). The trace is a timer with a
  period of one cycle that overflows inside the line and wakes the guest at its end.
  `TODO` suspects as much ("auf jeden Interrupt").

What else the models show, without a run of its own: with `ime` off HALT
never ends, request or not (`HaltIsFinal` states it). With `HALT_CYCLES` 1 the guest
is woken in the cycle of the overflow, unless the step copies blocks of DMA:
then it returns up to 8 cycles later for each of them (`WakesInTime`; without the
term for the blocks TLC finds it violated). `xgbc.h:20` calls
`MAX_CYCLES` a block's maximum, but the limit is tested after adding an instruction
and a followed jump, and blocks take up to 37 cycles. And an instruction that
straddles two areas is cached under the first (see `BlockCache`).

## Proofs

All theorems hold for every value of the constants that meets the named
assumptions of the module.

* **RunLoop.** `LoopInv` is inductive: type correctness, the three safety
  invariants, and what they need: outside "fetch" `cycles_gone` is 0 (so a
  block's constant does not overwrite cycles), and in a block `ebp` is a stack
  address and `owed` stems from the block itself. `OwedEntered` alone is not
  inductive: it says nothing inside a block, where pushes could destroy the return
  address, so the invariant must know that a block starts with nothing owed by the
  loop. `LoopInvariant`, then `TypeCorrect`, `HaltNeverOversleeps`,
  `AcceptedIsEntered`, `ClockComplete`, and the action property
  `HaltWithoutEnableIsFinal`.
* **RunLoop implements IrqContract.** `LoopImplementsContract`: every step that is
  not a compiled store to the registers, or comes after one, maps to `Execute`,
  `Poll`, `Store`, `Halt` or a stutter of the contract; the invariant supplies that
  `ebp` is a stack address.
* **Banking.** `BankInv` adds to the properties that a cartridge without RAM never
  has it mapped. `MappingsAreCurrent`, `RamWindowIsCurrent`, `DisabledIsUnmapped`
  and the action property `DeathIsJustified`, which needs that enabled RAM is
  mapped.
* **Regions.** `BytesAreRight`, `WordsAreRight`, `CopiesAreRight`, for every set
  of addresses of 16 bits. `BankInv` gives that the mappings are the registers'
  (`RamBank = ram`); the rest is a case distinction by region, with a lemma for each
  way to memory (`HmemIsOwned`, the handler's words, the transfers' wrap-around).
* **Translator.** `BufferIsEnough`: for every table of shapes with `Dense(d, f, l)`,
  `BufferSafe`. The invariant bounds bytes by cycles and cycles by the limit; TLC
  evaluates the premise for the real table in `MCExecute`. `CountFitsByte` from
  the same invariant, if the limit and the longest instruction fit a byte (32 and 6
  do), and `BlocksAreClosed`.
* **BlockCache.** `CacheInv` (the bank copies agree, entries are sound, none from
  RAM) gives `BlocksAreToldApart`, `RamIsNotCached` and `BlocksAreFresh`, if no instruction
  straddles an area; without that premise they are false.
* **Joypad.** `SelectedIsRead` and the action properties `PressAlwaysReported` and
  `RequestsAreDue`, for any number of keys. `ReadsTheKeys` is not inductive: what
  `update_keyboard` does depends on the selection P1 shows, and the interrupt on
  `keys_were`. `JoypadInv` adds that `keys_were` is up to date, that no group is
  selected that the guest did not ask for, and that until the first change exactly
  those are.
* **Timer.** `BatchesAreExact`, `LoopAlwaysEnds`, `HaltWakesInTime`, for all batches,
  periods, ranges, transfers, settings of `HALT_CYCLES`, and lengths of a line and of a
  block that is shorter than it. The heart of the first is `BatchIsExact`: from any
  state in which the reference is where the timer is, the quotients and remainders
  that `inc_timer` computes for c cycles (`After(s, c)`) are what c single cycles
  give. `NoCycles` is its first step, where a shorter period may leave many ticks due
  at once (`DueAll`), and `NextCycle` every other one. The calls are taken in parts,
  as in `Lcd`: `Part(s, e, c)` says that from `s` to `e` the reference stays with the
  timer (`Good`), no tick is left due if none was (`Caught`), and `late` plus the time
  of the blocks still to copy grows by c at most. Counting the blocks to come is
  what makes the last part hold for nested calls: a block costs nothing, because its
  cycles are those by which fewer blocks are left (`CopyPart`). The line loop is a part
  that takes no time of its own (`EndLinesPart`), by induction on the cycles that are
  due. `Overflowed` bounds the wait after the timer's own part, because the last pass
  of its loop needs a whole period. `TimerInv` adds that a halted guest has no tick
  due and that `late` is -1, that is, no overflow has been missed: an overflow in HALT
  requests, and the outer call accepts what is left of it (`AcceptPart`).
* **Lcd.** `BeamIsOnTime`, `DmaIsExact`, `VBlankIsReported`, `StatIsRight` and the
  action properties `LinesAreReported` and `DmaIsPaced`, for all batches, line
  lengths, numbers of lines, lengths of transfers and lengths of a block that are
  shorter than a line. An invariant between the calls is not enough, because a call of
  `inc_timer` is entered in the middle of another. The proof describes what a *part*
  of a call does, from any state inside a call to any later one: `Elapsed(s, e, cut,
  lines, blocks, cycles)` says how many lines were ended, blocks copied and cycles
  spent between `s` and `e`, and that beam, clock, VBlank and transfer moved
  accordingly. Parts that follow each other add up (`ElapsedSum`); each statement is
  a part; the line loop and the calls nested in it are one by induction
  (`EndLinesPart`). `LcdInv` follows for the whole call.
* **Machine implements RunLoop.** `LoopImplemented`, for every guest program, all
  lengths of lines, timer periods and blocks of DMA shorter than a line. As in `Lcd`
  the proof is about parts of a call: `Part(s, e)` says that between `s` and `e`
  sources were raised and at most one interrupt was accepted, with more raised
  afterwards. Parts add up (`PartSum`) because an acceptance turns the master enable
  off; each statement is a part; the line loop is one by induction on `lcd_cycles`
  (`EndLinesPart`), and so are `UpdateCpu` and a transfer at once (`CopyAllPart`, by
  induction on the blocks left). Every call ends with `update_cpu`'s own test, which
  leaves nothing that could be accepted (`Closed`); `CallIsOne` concludes that it is one
  call of `RunLoop`'s. `MachineInv` says that between calls less than a line is
  due, which makes `HALT_CYCLES` -1 a positive number of cycles. Then the lemmas of
  `RunLoopProofs`, instantiated, give `HaltNeverOversleeps`, `AcceptedIsEntered` and
  `ClockComplete` of the machine, and `ContractImplemented`: with its devices it keeps
  `IrqContract`, without reservation, since the guests of `Machine` store to the
  interrupt registers by instructions that are not compiled.
* **VBlanks and the stack of `Machine`.** `VBlanksServedOnce`: for every guest whose
  VBlank handler is reached by the interrupt alone and begins with a compiled
  instruction, the VBlanks not served are the one requested, the one accepted, and
  those that began while one was requested; without any of the last kind that is
  `ServedOnce`. It is not inductive: the handler's start is seen by `ip` alone, so
  `ServedInv` adds that outside a block `ip` is VBlank's vector exactly while VBlank
  is to be entered, and that neither a word of the stack nor a block in progress can
  lead there. That a call of `update_cpu` keeps the count is a part of `Part` (what a
  part of a call does), proved with `EndLinesPart` through all nested calls.
  `StackStaysBalanced`: for every guest for which depths can be given to the
  addresses of its handlers, such that what is pushed is popped before `reti`, the
  main program finds the stack pointer where it was. `StackBalanced` says nothing
  inside a handler; `StackInv` does: it is as deep as its address says, with the
  master enable off and an address of the main program at the bottom, whichever
  source it belongs to and wherever it was accepted.
* **Templates.** `TemplatesExact` (`GuestInstruction`) and `FaultsTransparent`
  (`Transparent`), for bytes of up to the real eight bits, if none of the wrong
  forms (`SbcFault`, `WrongFlags`) is executed. The run enumerates four bits; the
  real byte has 256 times as many pairs of A and operand. `Checked` adds to the
  two that between instructions A is a byte and the flags are flags; the work is
  in the step. Each x86 instruction is a lemma on explicit states (`NativeStep`,
  `PushStep`...), and `RunThrough` chains them over a template. Masks of AH are
  set operations (`BitsNumber`), so one lemma per template (`ArithDone`...
  `PopAfDone`) follows what becomes of each flag. `HandStep` is the core for the
  handler: its formulas give the processor's result and every flag that the
  processor defines, but for flags it forgets (`Leaves`), for which the template's
  lemma is proved with any value: the following mask removes them. So both
  theorems are cases of one lemma, `FormDone`: what a template does is what the
  guest does, however the one instruction is executed. The forms the handler does
  not know end the emulator (`Dies`).
* **Recursive functions.** `f[s \in S] == Body(f, s)` is `CHOOSE f : f = [s \in S |->
  Body(f, s)]`, of which nothing is known until the equation is known to have a solution.
  `Numbers!RecursiveFunction` gives one for every body that looks only at
  arguments of smaller measure: `lcd_cycles` for the line loops, whose nested calls
  enter them with less than they were entered with (`LessToDo`; this is where a block
  must be shorter than a line), the blocks left for `CopyAll`, the number of the step for
  `Tick` and the reference. Induction is by a least counterexample
  (`LeastNumber`, `LeastMeasure`, `Induction`), which takes no operator as
  a parameter, only a set.

Model-checked only: liveness (`EnabledServed`, `HandlersRun`, `Finishes`,
`TimerWakes`, `ScreenShown`, `LineDrawn`), which is out of the prover's reach, and with
it all of `Screen`, whose only property says that the line ends, with the right
pixels. Every invariant and every other action property that the passing runs check is a theorem.

## Not modelled

* Of the translations: `daa`, the values of 16-bit arithmetic and of moves, and
  what the handler does with moves, which only copy a byte; the builds without
  `REGISTER_EQUIVALENCE`, with `UNSAVE_RAM_CACHING` or `UNSAVE_RAM_MAPPING`, or
  without exact flags.
* Of the picture: rows, flips, banks and colours of tiles, palettes with their
  auto-incremented index, SDL; which of the OAM's sprites are on a line (the loop of
  `video.c:256` starts one sprite behind its end). Of the sound: everything (registers only).
* Header parsing, command line and files: `Banking` starts from their results. ROM
  banks beyond the end of the file.
* A guest stack over registers or ROM.
* `tsc.c` (statistics) and `precompiler.rb` (a build step).

## Plan

Done, in this order: `RunLoop` and `IrqContract` with proofs (the heart of the
emulator), `Banking`, `BlockCache` and `Translator` with proofs, `Timer`, `Lcd`,
`Joypad`, `Catcher`; then `Templates` around `Catcher`, `Machine` as the composition
of `RunLoop`, timer and lines, `Regions` with proofs over `Banking`, `Screen`,
the proofs of `Joypad`; then the proofs of `Timer`, `Lcd` and `Machine`, with the
recursion of all three as functions instead of operators; then the proofs of
`Machine`'s VBlanks and stack, and of `Templates` with `Catcher`.

What could follow, in order of use: the palettes' index; the cartridge header with ROM and RAM sizes (and
with it banks beyond the file); sprites from the OAM, with the choice of ten.
