# KIVOS64 in TLA+

KIVOS64 is a small operating system for the Nintendo 64, a boot loader (IPL3), a
kernel with a handful of device drivers, a game that runs on it in user mode, and
a host tool that builds the ROM image. This directory holds TLA+ models of its
parts that can go wrong in ways a test on the console hardly reaches: interrupts
between two instructions, devices that move on while the CPU looks at them, rings
and lists at their limits, a boot loader that overwrites the program before it. TLC
checks the models on small instances; TLAPS proves the most important results for
every instance.

`<Module>.tla` is a component, `MC<Module>.tla` its instances for TLC where it
needs definitions of its own (`MCDrivers` those of four components), the `.cfg` files
are the runs, and `<Module>_proofs.tla` its theorems. `PROJECT.json` lists components, runs, the
source lines each definition stands for, hazards, and theorems.

    tlc -config Interrupts.cfg MCInterrupts        # one run
    tlc -config Drivers.cfg MCDrivers              # four small components at once
    tlapm Interrupts_proofs.tla                    # one proof module

## 1. Inventory

The CPU is a single VR4300. `_start` calls `init_kernel`, then enters `main` in
user mode. From then on kernel code runs only in `_inthandler`: for a syscall,
with interrupts enabled again, or for an interrupt, with interrupts off. Three
devices interrupt: AI (audio), SI (controller port), VI (video).

| Component | State | Operations | Talks to |
|---|---|---|---|
| Interrupt core: `entrypoint.S`, `interrupt.c` | STATUS, CAUSE, k0, FPU owner, exception frames, `__interrupt_depth`, `__interrupt_sr`, MI mask and interrupt bits | `_inthandler` entry and exit, `interrupt_handler`, `exception_handler`, `interrupt_disable`/`enable`, `interrupt_set_*` | everything: calls the drivers' callbacks and syscall bodies |
| Display: `display.c` | `__now_showing`, `__acquired_mask`, `__pending_mask`, framebuffers, VI origin | `display_init`, `display_get`, `display_show`, `__display_callback` | heap, graphics, VI interrupt |
| Audio: `audio.c` | `__now_playing`, `__acquired_mask`, `__pending_mask`, sample buffers, AI DMA queue | `audio_init`, `audio_get_buffer`, `audio_play_buffer`, `audio_play_square_wave`, `__audio_callback` | heap, AI interrupt |
| Controller: `joybus.c` | `joybus_buffer` in memory and in the cache, `next`, `current`, `previous`, SI state | `joybus_init`, `__joypad_callback`, `__controller_callback`, `controller_poll` and the getters | VI interrupt (starts a read), SI interrupt (ends it), cache |
| Heap: `malloc.c` | block list, headers in memory | `malloc_init`, `malloc`, `malloc_uncached`, `free` | display, audio |
| Graphics: `graphics.c` | none (writes a surface) | fill, alpha blend, clip, draw | display's surfaces |
| Memory and strings: `memory.c` | none | copy, set, compare, number conversion | all; the debug output uses the strings |
| PI and cache: `dma.c`, `cache.c` | PI status, cache lines | `io_read`, `io_write`, cache operations | debug output, joybus |
| Debug output: `isviewer.c` | `is_enabled`, `print_buffer`, the viewer's window | `isviewer_init`, `print`, `println`, `println_u32`, `println_x32` | PI, strings |
| Kernel start: `system.c`, `tlb.c` | boot flags, registers, one TLB entry | `bootflags_init`, `init_kernel`, `tlb_init` | all; reads what IPL3 left in DMEM |
| Game: `main.c`, `userspace.h` | positions, `frame_counter`, `collected_letters` | one loop turn per frame; syscall stubs | kernel by syscalls |
| IPL3: `ipl3.c`, `loader.c`, `boot_trampoline.S` | RDRAM, caches, boot information in DMEM, PI, SP, SI | three stages: memory test, clearing, ELF loading, clean-up | kernel entry |
| ROM tool: `n64tool.c` | flags, `total_bytes_written`, temporary and target file | header, TOC, files, alignment, padding, rename | build only |

What is hard in it, and what would make each part correct:

* **Interrupt core.** An interrupt may arrive between any two instructions of the
  boot code, the user program, a syscall, or `interrupt_disable` itself, and the
  syscall handler is reentrant. Correct: handlers nest at most once; critical
  sections keep the handler out, nest, and end with interrupts as they were; the
  user program gets its mode bits and FPU registers back; the code that is
  dispatched is the one the user asked for; an unmasked interrupt is served.
* **Display.** The callback moves the ring while the client searches and draws.
  Correct: no drawing into a buffer on the screen or queued for it; pictures are
  shown whole, once, in order; `display_get` comes back.
* **Audio.** The AI finishes buffers while the callback looks at its status; the
  callback is started by the thread and by the interrupt. Correct: buffers go to
  the AI in the order they were filled, none is filled while it plays, none waits
  beside an idle AI, `audio_get_buffer` comes back.
* **Controller.** SI DMA writes behind the cache; two interrupts, delayed by
  critical sections, take turns. Correct: a reading is one whole, fresh reply, the
  SI is not started while busy, what is held down reaches the game.
* **Heap.** First fit with splitting, headers in cached memory next to regions
  used uncached. Correct: blocks tile the heap, regions are disjoint and share no
  cache line with a header, a failure is real and is noticed.
* **Graphics.** One index addresses the surface, so a column too far left or right is
  silently a pixel of another row. Correct: each pixel drawn is in its place, a call
  paints the visible part of the sprite once and nothing else.
* **IPL3.** It runs at the end of the memory it fills, PI, SP and SI work while the
  CPU goes on, and the program before the reset has left dirty cache lines and
  DMAs. Correct: the loader stays whole, each program header is read fresh, the
  kernel is entered exactly for ROMs that can be loaded, with the memory image it
  relies on (bss is not cleared again) and on quiet hardware.
* **Game.** Short frames, long runs: a frame counter that overflows, letters that
  appear next to a player who moves. Correct: everything is on the screen, nothing
  drawn overlaps, the series is won by spelling the letters in order.
* **Debug output and strings.** One buffer for all messages, with what the longer
  ones left in it; words of four bytes, chunks, numbers at the edge of their type.
  Correct: the viewer shows the message that was asked for, and nothing is written
  where no viewer is.
* **ROM tool.** Positions are counted from the end of a header that may have any
  size, in a `size_t` that wraps; flags come in any order. Correct: files, table and
  padding are where the flags ask for, and the old ROM survives every failure.

## 2. Modules

| Module | Models | How |
|---|---|---|
| `Interrupts` | `_inthandler`, `interrupt.c` | a stack of contexts on one CPU; one step is what runs between two points where an interrupt can be taken |
| `IrqLock` | what `interrupt_disable`/`enable` promise | a lock held against the handler; abstract |
| `DisplayQueue` | `display.c` | client and VI callback on one ring; a critical section is one step |
| `FrameFifo` | what the display promises | a bounded FIFO of pictures and the one on the screen; abstract |
| `AudioQueue` | `audio.c` | thread, callback and AI; the callback read by read |
| `Joybus` | `joybus.c`, cache line, SI | thread, `interrupt_handler`'s SI and VI branches, SI DMA in pieces |
| `Malloc` | `malloc.c` and its callers' checks | the list walked block by block |
| `Graphics` | `graphics.c`: fill, clip, draw | the loops pixel by pixel, on the surface's linear buffer |
| `Canvas` | what the drawing calls promise | a picture of pixels on which a sprite is painted at once; abstract |
| `Boot` | `ipl3.c`, `loader.c`, `_start`, `bootflags_init`, `tlb_init` | the CPU between two waits or accesses, PI, SP, SI and the data cache on their own |
| `Game` | `main.c` | a turn of `main`'s loop in three kinds of steps |
| `Console` | `isviewer.c`, the strings of `memory.c`, `io_write` | the loops of `isviewer_write` word by word; conversions as functions |
| `RomTool` | `n64tool.c` | a step per argument, and the end of `main` |

### Interrupts and IrqLock

`frames` is the exception stack; the running context is `pc`, `held`, `tmp`,
`todo`, `syscode` and the registers. `TakeInterrupt` and `RaiseException` are
`_inthandler` up to the call of the C handler; `ReturnFromFrame`, used by
`LeaveInterrupt` and `LeaveException`, is the way back. `CallDisable`,
`ReadStatus`, `WriteStatus`, `SaveStatus`, `CountDisable` are `interrupt_disable`
instruction by instruction; `CallEnable` and `RestoreStatus` are
`interrupt_enable`. `ReadCause`, `ReadK0` are `exception_handler`'s dispatch and
`UseFpu` stands for the one syscall that computes with floats. The body of a
syscall or callback is `pc = "body"`, where it may open and close critical
sections in any number and nesting up to `MaxNest`. STATUS is a set of the four
bits that matter (IE, EXL, CU1, KSU).

`ThreadHolds`/`InIrq` map it to `IrqLock`, whose four actions say who excludes
whom. That `Interrupts` implements `IrqLock` is what lets the driver modules treat
a critical section as one step and the handler as running only outside of them.

### DisplayQueue and FrameFifo

The masks are sets of indexes, a framebuffer's content is a picture. The client
follows the game: `display_init`, then get, draw, show, one surface at a time. The
search of `display_try_get` is "the nearest free buffer ahead". `__display_callback`
is the VI interrupt. The refinement reads `pending` in ring order as the queue of
pictures and the buffer at the VI's origin as the screen. `Draw` stands for all of
`graphics.c`: any picture, any number of times.

### AudioQueue

The AI holds up to two buffers (`dma`) and interrupts when it starts one.
`__audio_callback` is three steps per turn of its loop: read the status, test the
next buffer, start the DMA, because the AI plays on in between. The thread side is
`audio_get_buffer` (`CallGet`, `TestNext`, `CloseWindow`: the window in which it
briefly lets interrupts in), `audio_play_buffer`, and `DropBuffer`, the return of
`audio_play_square_wave` that leaves its last, partly filled buffer acquired.
The history variable `paced` tells whether every call of `audio_get_buffer` so far
has found the next buffer free: what audio.c's comments promise holds while it does.

### Joybus

A reply is a record of two halves, so that a mixture of two replies can be seen.
The SI exchanges data with the PIF, writes one half, then the other, then
interrupts; memory (`rdram`) and the cache line over it (`line`) are separate, and
the line may be evicted at any time. `interrupt_handler` is a step per branch,
`__joypad_callback` a step of its own. The thread is `controller_poll` with
interrupts on between its two assignments, and critical sections of any driver.

### Malloc

`header` maps the addresses of headers in memory to `block_info_t`s. `find_free_block`
is a step per block. Two callers use the result: `audio_init`, unchecked, and
`display_init`, which asserts on what `malloc_uncached` returns. Addresses are
physical; KSEG1 is a tag that `ADDR_TO_KSEG1` adds.

### Graphics and Canvas

`graphics_draw_surface` is the call up to its loops (both variants of the source
have the same checks, clip area and loops; `alpha` tells them apart), `NextRow`,
`DrawPixel` and `EndRow` are the loops, `Return` leaves. The refinement maps the
linear buffer to a picture of columns and rows and shows a call's effect when it
returns; `Canvas` says by coordinates, not by a clip area, what is covered. How two
colours blend is the constant `Blend`: `alphablend_pixel` computes with floats.
The surface that is drawn on has a buffer, as `display_init` asserts (but see
"Allocation failure" in section 6); a sprite may have none.

### Boot

`pc` names the CPU's next piece of work: `Stage1`, `Stage2`, `Stage3` and `Kernel` are
the labels in the order of the code. RDRAM is a function from units of 8 bytes to
values of a kind (junk of the program before, zero, stage2's code, a program header,
a segment). `PiStart` gives the PI a set of units that it writes one by one in any
order (`PiStep`), so every wait that the code leaves out would be seen. The SP works
through at most two DMAs, the SI through one transfer. `Evict` makes room in the data
cache at any time while stage2 uses the cached segment; a dirty line is then written
back. `Init` is any state after a reset: any banks missing behind the first, a DMA of
the program before still under way, interrupts raised, dirty lines anywhere.

`KernelEntry` claims nothing of the first 0x400 bytes, which stage1 keeps for itself,
nor of the last unit below the reserved memory (`LastUnit`), which `rdram_bzero`
leaves out; of the interrupts it leaves out the VI's, which `rcp_reset` does not
acknowledge. `MainEntry` claims the memory size (`MemsizeFound`) and the user
program's pages, not the other boot flags. `EnteredIffBootable` is about 32-bit ELF
files. What the boot loader's README promises beyond this is stated by
`SomePromiseKept` and `AbortsOnlyUnbootable`, which the code violates (section 6).

### Game

`Move` is the controller and `game_obj_snap_inbounds`, `Spawn` the frame's
`game_obj_spawn`, `Touch` a turn of the loop over letters, `Draw` the end of the
turn. The buttons held are any. `Int32` and `Rem` are C's arithmetic in the formula
that places letters, with an int of `2 * Half` values. `spelt` is a history variable:
how much of K, I, V the letters touched last spell.

### Console

A character is a number. `strncpy`, `strncat`, `StrLen`, `utoa`, `itoa` are functions
on `print_buffer`, which keeps old characters behind the terminator; `Chunk`,
`WriteWord`, `Flush` are `isviewer_write`. The reference that `ShowsMessage` compares
with is not the conversion but its meaning: the value of the digits shown, without
leading zeros (`SaysNumber`). Which numeral stands for a decimal number from 2^31 on is
left open (`ShowsNumber`; section 6). `kind` is what answers at the viewer's address.

### RomTool

`pos` is the position in the file, which the code does not have: it computes all from
`total_bytes_written` (`total`), a number modulo `Wrap`. A flag in the wrong place or
with a bad argument ends the run by `Return`, which runs `remove_tmp_file`; `Kill` may
end it at any time without. An input file is `FirstFile`, which also copies the
header and leaves space for the table, or `NextFile`. The header's size passes through
an int (`AsInt`): headers from 2 GiB on are negative and refused. The passing
properties claim what holds; the promises of the usage that do not are
`SomePromiseKept` (section 6).

### Drivers

`Malloc`, `Joybus`, `Console` and `Graphics` share no state. `MCDrivers` puts them side by
side: `driver`, chosen at the start, is the one that is at work, the others keep their
initial state, and each has the fairness of its own specification. A behaviour of
the four is thus a behaviour of one of them, and every state of each is reached.

## 3. Runs

Runs that must pass:

| Run | Bounds | Shows |
|---|---|---|
| `interrupts` | 1 syscode, causes TLB miss and syscall, nesting 2, 3 devices; 60,000 states | nesting, balance, restoration of IE, the user's state, refinement of `IrqLock`, each unmasked interrupt is served |
| `display` | 3 buffers, 2 pictures, a good and two bad sizes; 900 states | no tearing, assertions, ring order, refinement of `FrameFifo`, each picture shown, `display_get` returns |
| `audio` | 4 buffers (the kernel's number); 41,000 states | assertions, order, no lost wakeup, `audio_get_buffer` returns; while no call has waited, no buffer is filled while it plays and every pending one is sent |
| `drivers` | `Malloc`: heap of 160 bytes (10 cache lines), word of 256, sizes 0, 1, 15, 16, 17, 40, 200. `Joybus`: 2 buttons. `Console`: buffers of 16, 8 and 8 characters, a viewer of 8, texts of 0, 1, 7 and 15, numbers at the edges of a byte, base 10 and 16, four kinds of viewers. `Graphics`: surface of 2 by 2, sprites 1x1, 2x2, 4x1, 1x3 and one without buffer, 3 colours, places -4..2 by -3..2. Together 295,000 states | heap: tiling, disjointness, cache lines, real failures, `malloc` returns; controller: assertion, whole and fresh readings, held buttons reach the game; console: messages arrive, nothing written elsewhere, `print` returns; graphics: indexes, refinement of `Canvas`, calls return |
| `boot` | 3 banks of 8 units, each but the first missing or not; 1 unit kept, 3 reserved, 2 of stage2; ROMs with up to 2 of 7 kinds of segments, 3 places for the ELF file; 76,000 states | loader intact, headers fresh, image and hardware at kernel entry, memory size, exactly the right ROMs among the 32-bit ones, the user program mapped, no endless wait |
| `game` | screen of 7 by 6, letters of 2x2 and 1x2, period of 4 frames, 36 frames, int of 200 values; 173,000 states | bounds, no overlap, series in order |
| `romtool` | 7 arguments, header files of 1, 4, 8, 11 and 20 units (4096 bytes are 8, an int has 32 values), files of 0, 4, 5 units and unreadable ones, a `--size` that is larger, smaller, negative or not a multiple of 4, `Wrap` 256; 429,000 states | positions, table, size, replacement of the target |

Why the bounds are enough. *Interrupts:* contexts nest two deep, which is proved,
so more devices or syscodes only repeat a pattern, and nesting 2 distinguishes
inner from outer calls; the theorems cover any syscodes, causes and nesting. The
run that finds a disagreement has two syscodes. *Display:* with two buffers, the kernel's number, one
buffer is always "the other one"; three make the order of the ring matter; the
theorems cover every number. *Audio:* the real number; theorems for all N >= 3.
*Joybus:* two values suffice to tell a stale or mixed reading, two buttons make the
intersection in `buttons_held` visible. *Malloc:* the sizes straddle a cache line, make an
exact fit and a fit without room for a header possible, and the heap is full
after a few blocks; `Word` is larger than every sum, as with 32 bits on the
console. *Graphics:* sprites narrower, wider, lower and higher than the surface lie
inside, across each edge and corner, and outside. *Boot:* two headers make one that
is stale differ from the one that is fresh, segments overlap, are empty, unaligned,
not PT_LOAD, in memory that is not there, or in reach of dirty lines; three banks
allow a gap between two that answer. *Game:* the field is so small that letters meet
each other and the player in every way, a series of three letters and one that is
broken fit in 36 frames, and the formula overflows on the way; the theorems cover
every size. *RomTool:* seven arguments are a header, an output, a table or an
alignment, two or three files and one flag more or repeated; headers are shorter and longer than the
4096 bytes that the tool counts with. *Console:* the kernel's `print_buffer` is
shorter than the viewer's, so that the loop of `isviewer_write` runs once; the
smaller viewer makes it run twice, as its other callers could.

A bound appears in a guard in `Interrupts` (`MaxNest`), `Game` (`MaxFrames`) and
`RomTool` (`MaxArgs`).

Runs that find a disagreement between the code and its own words (see section 6):

| Run | Property | Says |
|---|---|---|
| `interrupts_syscode` | `SyscodeFromUser` | the syscall that is dispatched is the one the user program asked for |
| `audio_overwrite` | `NeverFillWhilePlaying` | no client fills a buffer that the AI holds |
| `boot_promises` | `SomePromiseKept` (`Boot`) | at `main` all of RDRAM was cleared, or random seed and types are those stage1 stored |
| `boot_elf64` | `AbortsOnlyUnbootable` | `abort` is for ELF files that are not in order, of either class |
| `romtool_promises` | `SomePromiseKept` (`RomTool`) | a ROM's table is behind its header, or its files are aligned as asked for, or it has the size asked for |

Each `SomePromiseKept` is the weakest claim about its promises, that they are not
all broken at once; its counterexample breaks each of them, which is why one run
answers for all. Their bounds are those of `boot` and `romtool`.

Some properties of the runs are conjunctions, one question each:

| Property | Parts |
|---|---|
| `CriticalSections` (`Interrupts`) | `DepthBalanced`, `InterruptsComeBack` |
| `HandlersReturn` (`Interrupts`) | `NoNestedHandlers`, `UserResumes` |
| `SurfaceIsFree` (`DisplayQueue`) | `NoTearing`, `ShowAssertsHold` |
| `NobodyWaitsForever` (`DisplayQueue`) | `EveryPictureShown`, `GetReturns` |
| `BuffersInTurn` (`AudioQueue`) | `PlayAssertsHold`, `DmaInRingOrder` |
| `NobodyWaitsForever` (`AudioQueue`) | `GetReturns`, `PendingIsPlayed` |
| `RegionsSafe` (`Malloc`) | `RegionsApart`, `LinesNotShared` |
| `MallocAnswers` (`Malloc`) | `FailsOnlyWhenFull`, `MallocReturns` |
| `ReadingIsTrue` (`Joybus`) | `WholeReading`, `ReadingIsFresh` |
| `LoaderSound` (`Boot`) | `LoaderIntact`, `HeaderFresh` |
| `KernelEntry` (`Boot`) | `EntryImage`, `EntryHardware` |
| `MainEntry` (`Boot`) | `MemsizeFound`, `UserMapped` |
| `ScreenInOrder` (`Game`) | `OnScreen` (`PlayerInBounds`, `LettersOnScreen`), `NothingTouches` |
| `Layout` (`RomTool`) | `PositionFollowsTotal`, `FilesPlaced`, `TocHasPlace` |
| `TargetIsRom` (`RomTool`) | `ReplacedAtOnce`, `RomSize` |
| `MessagesArrive` (`Console`) | `ShowsMessage`, `WritesToMemory` |

`Joybus`, `Console` and `Malloc` prefix some names (`PadInit`, `ConsoleTypeOK`,
`HeapTypeOK` and the like), because `Interrupts_proofs` extends the first two beside
`Interrupts`, and `MCDrivers` all of them beside `Graphics`. The text below names
the parts. `RingInOrder`, `SendsAsManyAsPossible` and
`DrawsInside` are proved and not among the runs' properties: the refinement of
`FrameFifo`, the liveness of the audio ring and the refinement of `Canvas` fail
whenever they do.

Each property of a passing run has a mutant, most of the conjunctions one for each
part: a definition with a plausible bug in
the same module (`..._NoWrap`, `..._KeepsPending` and the like), with which TLC
finds the property violated. They are not part of the specifications.

Deadlock is checked where the model cannot stop. It is not where `abort` is a
reachable end of the kernel (`Interrupts`: unknown syscode or cause, `DisplayQueue`:
bad size), where the process ends (`RomTool`) and where the bound on frames stops
the game (`Game`).

## 4. Fairness

* **The CPU runs.** Straight-line kernel code has weak fairness, and so has one
  turn of a busy loop (`display_try_get`, `TestNext`).
* **An interrupt line is level-triggered and sampled before every instruction.** So
  an interrupt that is enabled again and again is taken in the end: strong fairness
  of `TakeInterrupt`/`HandlerStart`. The drivers' models assume it; `Serviced` in
  `Interrupts` derives it from the CPU's own strong fairness, for all devices,
  including those that `interrupt_handler` tests last.
* **Critical sections end.** All of them in this code are straight lines or wait for
  a device. The thread may open any number of them one after the other, hence
  strong fairness for closing the outermost.
* **A drawing call, a `print` and a `malloc` run on** once they have begun: weak
  fairness of their loops (`Draw`, `isviewer_write`, `Search`). That they return is then
  `[]<>` of the state outside of the loop.
* **The boot CPU runs**, and the PI, SP and SI finish what they do (`Boot`); cache
  evictions have no fairness.
* **Devices go on.** The AI plays what it holds, the SI ends a read, the VI reaches
  the end of a field.
* **The game polls once in every turn of its loop**; that the loop turns is
  `GetReturns` of the display and of the audio ring.
* Nothing is assumed of the player, of the user program's other syscalls, or of the
  cache.

`Joybus` has one assumption about time (at `VBlank`): a field, 16 ms, is longer than
an interrupt that no critical section delays and the SI read it starts, less than
2 ms together. Only `display_init`'s critical section spans fields, and it ends by
waiting for a vertical blank, so the read after it has a whole field as well.
`ReadAssertHolds` and its theorem hold under this assumption: they show that the VI's
interrupt is acknowledged and starts one read, not that a read could not be late.

## 5. Proofs

Every theorem is for all values of the constants that satisfy the ASSUMEs of its
module: any sets of syscodes and causes and any nesting; N >= 2 framebuffers and any
pictures and sizes; N >= 3 audio buffers; heaps of any size on whole cache lines,
any requests that do not come within two lines of 2^32; screens and sprites of any
size and any number of frames; files, alignments and sizes of any number of bytes and
headers of less than 4 GiB; message buffers and viewers of any size, numbers in every base. Every
invariant that a passing run checks is a theorem, with what it leaves open: the
units and interrupts that `KernelEntry` leaves out, 64-bit files, decimal numbers from
2^31 on, tables and sizes of ROMs as `TocHasPlace`, `FilesPlaced` and `RomSize` state
them, letters where the spawn formula overflows, and clients of the audio ring that
have had to wait.

* **`Interrupts_proofs`** — `TypeCorrect`, `HandlersNestOnce`, `DepthIsBalanced`,
  `EnableRestores`, `UserStatePreserved`, `ImplementsLock`. The invariant `IInv`
  says what each level of the stack looks like: `FramesInv` (at most an interrupt
  frame above an exception frame, and what those frames hold), `RunInv` for a
  thread and `IrqInv` for the handler. It needs both because the interrupted
  thread's position in `interrupt_disable` is frozen in the frame while the handler
  changes `__interrupt_depth` and `__interrupt_sr`: the invariant says which values
  these may have at each label, whoever runs.

  Its other parts are about two drivers that rely on this lock.

  *Joybus:* `PadTypeCorrect`, `ReadNeverAborts`, `ReadingsAreWhole`,
  `ReadingsAreFresh`, `ReadingsAreTrue`. The invariant ties the SI's state to the
  raised interrupts and to the handler's snapshot: while a read is in flight no SI
  interrupt is raised or in the snapshot, and no line of the reply is cached.

  *Console:* `ItoaSays`, `ConsoleTypeCorrect`, `EveryMessageArrives`, `SendingDescends`
  (each round of `isviewer_write` leaves less to send). What has been shown and what is left to send are together the front of `print_buffer`
  (`SendingInv`), the words written so far are in the viewer (`WordInv`), and the
  front says the message whatever lies behind its terminator (`Holds`). That the
  digits have the number's value is shown by induction: a smallest number of which
  it fails would, divided by the base, give a smaller one (`SmallestElement`, from the
  library's `WFMin`, which is about sets and so can be cited). `NumbersFit` is assumed:
  a number and its terminator fit `str_buf`, as up to 11 or 8 characters of a
  `uint32_t` in base 10 or 16 fit 32.
* **`DisplayQueue_proofs`** — `TypeCorrect`, `RingIsInOrder`, `ShowNeverAborts`,
  `NeverTears`, `ImplementsFifo`. `RingInOrder` is almost inductive: it needs that
  the client's surface is the acquired buffer and that the VI's origin is the
  showing one. Tearing is then excluded because a buffer ahead of the pending ones
  is none of them (`AheadInjective`), and each step maps to one of `FrameFifo`.
* **`AudioQueue_proofs`** — `TypeCorrect`, `PlayNeverAborts`, `PlaysInOrder`,
  `WakeupsAreKept` for any client, `PacedClientIsSafe`, `PacedSendsAll` while the
  client is paced. The heart is `StatusRead`: the status read may be out of date, but
  only in the safe direction, since the AI only takes buffers out; if it was full and
  is not any more, the interrupt is raised.
* **`Malloc_proofs`** — `TypeCorrect`, `HeapIsTiled`, `RegionsStayApart`,
  `LinesStayApart`, `FailureIsReal`, `SearchDescends`. Only the head of the list is
  ever free, because `free` does nothing and each split makes the new rest the head. This is what makes
  correct that a split does not tell the block before it (`malloc.c:72-76`), and
  `Finding` adds that a search past the head has already refused the head.
  `SearchDescends` is the half of `MallocReturns` that is not fairness: each step of
  the search goes to a block at a lower address.
* **`Graphics_proofs`** — `TypeCorrect`, `DrawingStaysInside`, `ImplementsCanvas`,
  for surfaces and sprites of any size at any place. The loop variables lie in the
  clip area, the clip area in the intersection of sprite and surface (`ClipInside`), and a place inside a
  surface is an index inside its buffer (`IndexInside`), of no other place
  (`IndexUnique`). For the refinement the invariant says what has been painted so far:
  the rows above the current one, and of that one the pixels to the left; the clip
  area is exactly what `Canvas` says is covered (`ClipIsCovered`).
* **`Game_proofs`** — `TypeCorrect`, `PlayerStaysInBounds`, `LettersStayOnScreen`,
  `NothingEverTouches`, `ScreenStaysInOrder`, `WonBySpelling`, for screens and sprites
  of any size. The invariant adds `FrameLeft`: a letter is tested in the turn in which it appears.
* **`Boot_proofs`** — `TypeCorrect`, `LoaderStaysSound`, `KernelEntered`,
  `MainEntered`, `OnlyBootable`, for any number and size of banks and any ROM
  whose segments stay out of the reserved part. The
  invariant follows `pc` and says for RDRAM, caches, PI, SP and SI from where to where
  only the CPU touches them. Its heart is `Image`: what RDRAM holds below the loader
  once the first n segments are loaded, as a function of the memory alone, so that a
  step that leaves this part alone keeps it (`SameImage`, `LowerStays`); `DoneStays`
  says which steps change n, and a segment on its way is between two images
  (`ImageInv`). The loader lies above it because of what `Init` assumes: no segment
  reaches into the reserved part.
* **`RomTool_proofs`** — `TypeCorrect`, `LayoutHolds`, `TargetStaysRom`, in ROMs
  shorter than `Wrap`. `total` is the position less 4096, modulo `Wrap`, and 0 only
  right behind a file (`Position`, `TotalTells`); files and table lie one behind the
  other up to the position (`Placed`), which `--toc` and `--offset` rely on. The rest is
  arithmetic of remainders (`Multiple` to `PaddingAligns`): zeros that align `total`
  align the position where the alignment divides `Wrap`, and else where nothing has
  wrapped. `Finished` says what the end of `main` pads to.

Only model-checked: all liveness (`Serviced`, `EveryPictureShown`, both
`GetReturns`, `PendingIsPlayed`, `MallocReturns`, `InputReachesGame`, `DrawReturns`,
`PrintReturns`, `Boots`), which depends on fairness and is out of the prover's reach.

## 6. What the code does not deliver

* **k0** (`interrupts_syscode`). Every entry of `_inthandler` copies v0 to k0, and
  nothing restores it. `exception_reset_mode` enables interrupts before
  `exception_handler` reads the code from k0: an interrupt in these few
  instructions makes the kernel run another syscall or abort on a value it finds
  there.
* **Audio overwrite** (`audio_overwrite`). When `audio_get_buffer` waits, the buffer
  it returns is the one its wait has handed to the AI. The game reaches this with
  two sounds in one frame: each touches two or three of the four buffers.
* **RDRAM clearing** (`boot_promises`). `rdram_bzero` stops 8 bytes early
  (`ipl3.c:99-109`): the last unit below the reserved memory keeps its old content,
  against "The RDRAM is cleared before booting." (`boot/README.md:21`) and the loader,
  which leaves bss to it (`loader.c:184-186`).
* **Boot flags** (`boot_promises`). `bootflags_init` adds word offsets where the
  boot loader's README gives bytes (`system.c:29-32`, `boot/README.md:22-30`): random
  seed, TV type and reset type are read from words that stage3 has cleared and are
  always 0, against `system.h:8-13`.
* **64-bit ELF files** (`boot_elf64`). "ELF must be 32-bit or 64-bit."
  (`boot/README.md:12`), but stage2 aborts on the latter (`loader.c:132`).
* **ROM tool** (`romtool_promises`). `--toc` "must be specified before any input file"
  (`n64tool.c:436`), but behind files it is refused by a test of `total_bytes_written`,
  which is 0 again when files fill a short header up to 4096 bytes; the table is then
  written over the header. "Next file is aligned at <align> bytes" (`n64tool.c:121`)
  holds of alignments that are no power of two only behind a header of 4096 bytes or
  more. "Force ROM output file size to <size>" (`n64tool.c:114`): the size does not
  count the header, and contents that fill it are padded past it.

Known from modelling and not the subject of a run:

* **CAUSE.** `exception_handler` reads the live CAUSE register in the same window
  (`interrupt.c:199`); an interrupt leaves code 0 in it, and a proper syscall aborts.
* **Dispatch.** `cause & C0_CAUSE_EXC_SYSCALL` (`interrupt.c:201`) tests one bit, so
  breakpoints, coprocessor and floating point exceptions run as syscalls.
* **Allocation failure.** `malloc_uncached` turns NULL into 0xA0000000
  (`malloc.c:93`), so `display_init`'s assertion never fires. The game's framebuffers
  fit; two of 640x576 do not fit in the 2 MiB of heap of a console without Expansion
  Pak.
* **Audio.** After an overwrite the buffer filled out of turn stays pending behind one
  that is not, against "It will send as many buffers as possible" (`audio.c:29`;
  `SendsAsManyAsPossible` holds for paced clients only); the last part of a sound is
  dropped (`audio.c:188-193`).
* **Negative `--size`** passes the test `% 4`; it makes a ROM that is shorter than 4096
  bytes, behind a short header, or none. `RomSize` claims nothing of it.
* **Numbers.** `println_u32` hands its number to an int: from 2^31 on it is shown
  negative. `ShowsMessage` claims nothing of the numeral then.
* **Game.** After 2^31 / 3 frames, four months, the spawn formula overflows and letters
  may lie outside the screen. `LettersOnScreen` claims nothing of them.

## 7. Not modelled

* **`memcpy`, `memset`, `strncmp`**: loops over bytes, which a model would restate.
* **Cold boot**, which IPL3 does not implement, and a first bank that fails: `memsize`
  is then 0, and stage1 clears memory that is not there. `boot_trampoline.S`.
* **Title, region and the loadpoint** in the ROM tool: fixed bytes of the header, a
  function that is not called. Failing writes: the tool does not look at them.
  Headers of 4 GiB and more, whose size as an int may be anything (`HeaderSizes` is
  assumed to be below; from 2 GiB on they are negative and refused). Paddings of 4 GiB and more: `output_zeros` takes an int of what is left
  (`n64tool.c:199-205`) and may never end.
* **Blending of two colours** (floats), and `graphics_draw_pixel` and
  `graphics_draw_pixel_alpha`, which nothing calls.
* **Samples of `audio_play_square_wave`**, VI registers except origin, FPU contents
  (who owns the registers is modelled, not what is in them).
* **`cop1_init`, `vi_init`**: constants written to registers that no property reads.
* **Protection**: what user mode may not access; the TLB's mapping is in `Boot`.
* **CP0 hazards** (instructions between an `mtc0` and its effect), the pre-NMI
  interrupt of the reset button, which `interrupt_init` unmasks and nobody
  acknowledges.
* Headers, linker script, makefiles, sprite data.

## 8. Plan

1. `Kernel`: the dispatch of `Interrupts` driving the drivers' callbacks, to check
   what the separate models assume of each other (which callbacks run in which
   order, with which critical sections), with `Game` as the client of `DisplayQueue`
   and `AudioQueue`: it makes two sounds in one frame, so that it is not paced.
2. Refinements: `AudioQueue` as a FIFO of buffers while it is paced; the heap as a set
   of disjoint regions; a ROM as a sequence of files for `RomTool`.
