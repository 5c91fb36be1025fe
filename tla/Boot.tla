-------------------------------- MODULE Boot --------------------------------
(***************************************************************************)
(* From reset to main: stage1 of ipl3.c, which finds and clears the RDRAM  *)
(* and fetches stage2; stage2 of loader.c, which runs at the end of RDRAM, *)
(* out of the caches, and loads the ELF file; stage3, which runs from ROM  *)
(* and cleans up; and _start of the kernel.  The PI, SP and SI work on     *)
(* while the CPU runs.  RDRAM is counted in units of 8 bytes, all sizes    *)
(* are scaled, and a value in it is a pair of a kind and a number.         *)
(***************************************************************************)
EXTENDS Integers, Sequences, FiniteSets

CONSTANTS
  Banks,      \* number of banks that can be installed
  BankUnits,  \* RDRAM_BANK_SIZE
  Skip,       \* the first 0x400 bytes
  Reserved,   \* RESERVED_LOADER_SIZE
  Loader,     \* size of stage2
  ElfSteps,   \* places where stage2 looks for the ELF file
  Roms,       \* the ROMs that can be inserted
  Flags,      \* rom, TV and reset type as IPL2 leaves them in registers
  OldLines,   \* units of which the data cache holds a dirty line at reset
  PageUnits,  \* PAGE_SIZE of tlb.c
  UserPage    \* USEG_VADDR and USEG_PADDR of tlb.c, in pages

\* A program header: PT_LOAD or not, its address and its size in the file,
\* whether address and offset are aligned for DMA, and whether the address is
\* in the segment that user mode sees.
Phdr == [load : BOOLEAN, vaddr : Nat, size : Nat, aligned : BOOLEAN, user : BOOLEAN]

\* A ROM: where its first ELF magic is, in steps of 256 bytes from 0x1000, and
\* the header that follows.
Rom == [elf : Nat, is64 : BOOLEAN, little : BOOLEAN, phdrs : Seq(Phdr)]

ASSUME SizeAssumption ==
  /\ Banks \in Nat \ {0} /\ BankUnits \in Nat /\ Skip \in Nat \ {0}
  /\ Reserved \in Nat /\ Loader \in Nat \ {0} /\ ElfSteps \in Nat
  /\ Loader < Reserved                 \* stage2 and its stack
  /\ Skip + Reserved + 1 < BankUnits
  /\ PageUnits \in Nat \ {0} /\ UserPage \in Nat
ASSUME RomsAssumption  == Roms \subseteq Rom
ASSUME FlagsAssumption == Flags \subseteq Nat

VARIABLES
  pc,         \* where the CPU is
  installed,  \* the banks that answer
  rom,        \* the ROM
  flags,      \* registers s3, s4, s5
  mem,        \* RDRAM
  dcache,     \* lines of the data cache
  icache,     \* the instruction cache holds nothing of the program before
  imem,       \* what SP IMEM is filled with
  dmem,       \* words of SP DMEM
  pi,         \* what the PI DMA has yet to write: pairs of unit and value
  sp,         \* the DMAs that the SP holds; it works on the head
  si,         \* what the SI does
  pif,        \* the PIF knows that the boot process is finished
  intr,       \* raised MI interrupts
  chip,       \* stage1's loop variable, in banks
  memsize,    \* stage1's and stage3's local memsize
  i,          \* stage2's loop variable
  hdr,        \* the program header that stage2 has read into phdr
  boot,       \* __boot_memsize, __boot_random_seed and the word of the types
  tlb         \* the TLB's mapping of pages

vars == <<pc, installed, rom, flags, mem, dcache, icache, imem, dmem, pi, sp,
          si, pif, intr, chip, memsize, i, hdr, boot, tlb>>

console == <<installed, rom, flags>>
caches  == <<dcache, icache>>
sizes   == <<chip, memsize>>
kernel  == <<boot, tlb>>
locals  == <<sizes, i, hdr, kernel>>

Units    == 0..(Banks * BankUnits - 1)
Words    == 0..11
RcpIntr  == {"SP", "SI", "AI", "VI", "PI", "DP"}
SpDmas   == {"imem", "rdram", "dmem"}
Stage1   == {"banks", "rsp_bzero", "bzero", "stage2_dma", "cache", "bootinfo", "wait"}
Stage2   == {"search", "check", "loop", "invalidate", "header", "read", "test",
             "load", "rcp_reset"}
Stage3   == {"pif", "cache3", "memsize", "sp_dma", "sp_dmem", "si_wait", "sp_wait"}
Kernel   == {"_start", "init_kernel", "main"}
Labels   == Stage1 \cup Stage2 \cup Stage3 \cup Kernel \cup {"abort"}

Junk  == <<"junk", 0>>
Zero  == <<"zero", 0>>
Magic == <<"magic", 0>>
Code  == <<"stage2", 0>>
None  == <<"none", 0>>
Header(n) == <<"header", n>>
Segment(n) == <<"segment", n>>
Values == {Junk, Zero, Magic, Code, None}
            \cup ({"header", "segment"} \X Nat)

\* n banks come before the first that does not answer.
Found(n) == /\ n \in 1..Banks /\ \A b \in 0..(n - 1) : b \in installed
            /\ n = Banks \/ n \notin installed
Stack    == memsize - Loader - 1     \* the unit that holds phdr

\* The units and values that the DMA of segment n writes.
SegmentUnits(s) == s.vaddr..(s.vaddr + s.size - 1)

\* After a reset; the first bank works, no segment reaches into the reserved
\* part of the memory found, and the user program fits in two pages (n64.ld
\* puts it at USEG_VADDR).
Init ==
  /\ pc = "banks"
  /\ installed \in SUBSET (0..(Banks - 1)) /\ 0 \in installed
  /\ rom \in Roms /\ flags \in Flags
  /\ \A n \in 1..Banks, k \in 1..Len(rom.phdrs) :
       Found(n) /\ rom.phdrs[k].load =>
         rom.phdrs[k].vaddr + rom.phdrs[k].size <= n * BankUnits - Reserved
  /\ \A k \in 1..Len(rom.phdrs) : rom.phdrs[k].user =>
       /\ rom.phdrs[k].vaddr >= UserPage * PageUnits
       /\ rom.phdrs[k].vaddr + rom.phdrs[k].size <= (UserPage + 2) * PageUnits
  /\ mem = [u \in Units |-> Junk]
  /\ dcache = [u \in Units |-> IF u \in OldLines THEN Junk ELSE None]
  /\ icache = FALSE
  /\ imem = Junk /\ dmem = [w \in Words |-> -1]
  /\ pi = {} /\ sp \in {<<>>, <<"imem">>}
  /\ si \in {"idle", "before"} /\ pif = FALSE
  /\ intr \in {{}, RcpIntr}
  /\ chip = 0 /\ memsize = 0 /\ i = 0 /\ hdr = None
  /\ boot = [memsize |-> 0, seed |-> 0, types |-> 0]
  /\ tlb = <<>>

Step(from, to) == pc = from /\ pc' = to

------------------------------------------------------------------------------
(* The hardware.                                                            *)

PiStep ==
  \E d \in pi :
    /\ mem' = [mem EXCEPT ![d[1]] = d[2]]
    /\ pi' = pi \ {d}
    /\ intr' = IF pi = {d} THEN intr \cup {"PI"} ELSE intr
    /\ UNCHANGED <<pc, console, caches, imem, dmem, sp, si, pif, locals>>

\* The DMAs are the one of the program before, stage3's of IMEM to RDRAM and
\* stage3's of zeros to DMEM.
SpStep ==
  /\ sp # <<>> /\ sp' = Tail(sp)
  /\ imem' = IF Head(sp) = "imem" THEN Junk ELSE imem
  /\ mem' = IF Head(sp) = "rdram"
              THEN [u \in Units |-> IF u \in (memsize - Reserved)..(memsize - 1)
                                      THEN imem ELSE mem[u]]
              ELSE mem
  /\ dmem' = IF Head(sp) = "dmem"
               THEN [w \in Words |-> IF w < 4 THEN dmem[w] ELSE 0]
               ELSE dmem
  /\ UNCHANGED <<pc, console, caches, pi, si, pif, intr, locals>>

SiStep ==
  /\ si # "idle" /\ si' = "idle"
  /\ pif' = (pif \/ si = "terminate")
  /\ intr' = intr \cup {"SI"}
  /\ UNCHANGED <<pc, console, mem, caches, imem, dmem, pi, sp, locals>>

\* Only stage2 uses the cached segment: any line may have to make room.  A line
\* of junk is dirty.
Evict(u) ==
  /\ pc \in Stage2 /\ dcache[u] # None
  /\ mem' = IF dcache[u] = Junk THEN [mem EXCEPT ![u] = Junk] ELSE mem
  /\ dcache' = [dcache EXCEPT ![u] = None]
  /\ UNCHANGED <<pc, console, icache, imem, dmem, pi, sp, si, pif, intr, locals>>

------------------------------------------------------------------------------
(* stage1                                                                   *)

\* Mutant: the test goes on behind a bank that does not answer.
TestBank_NoBreak ==
  /\ pc = "banks"
  /\ IF chip < Banks
       THEN /\ mem' = IF chip \in installed
                        THEN [mem EXCEPT ![chip * BankUnits] = Magic] ELSE mem
            /\ memsize' = IF chip \in installed THEN memsize + BankUnits ELSE memsize
            /\ chip' = chip + 1 /\ UNCHANGED pc
       ELSE pc' = "rsp_bzero" /\ UNCHANGED <<mem, sizes>>
  /\ UNCHANGED <<console, caches, imem, dmem, pi, sp, si, pif, intr, i, hdr, kernel>>

\* Mutant: tests one bank more, where an address wraps around.
TestBank_OneMore ==
  /\ pc = "banks"
  /\ IF chip <= Banks /\ chip \in installed \cup {Banks}
       THEN memsize' = memsize + BankUnits /\ chip' = chip + 1 /\ UNCHANGED pc
       ELSE pc' = "rsp_bzero" /\ UNCHANGED sizes
  /\ UNCHANGED <<console, mem, caches, imem, dmem, pi, sp, si, pif, intr, i, hdr, kernel>>

\* Zero and the magic value are written to a bank and read back; the loop ends
\* at the first bank that does not answer.
TestBank ==
  /\ pc = "banks"
  /\ IF chip < Banks /\ chip \in installed
       THEN /\ mem' = [mem EXCEPT ![chip * BankUnits] = Magic]
            /\ memsize' = memsize + BankUnits
            /\ chip' = chip + 1 /\ UNCHANGED pc
       ELSE pc' = "rsp_bzero" /\ UNCHANGED <<mem, sizes>>
  /\ UNCHANGED <<console, caches, imem, dmem, pi, sp, si, pif, intr, i, hdr, kernel>>

\* Mutant: does not wait for a DMA of the program before.
rsp_bzero_NoWait ==
  /\ Step("rsp_bzero", "bzero")
  /\ imem' = Zero
  /\ UNCHANGED <<console, mem, caches, dmem, pi, sp, si, pif, intr, locals>>

rsp_bzero ==
  /\ Step("rsp_bzero", "bzero") /\ sp = <<>>
  /\ imem' = Zero
  /\ UNCHANGED <<console, mem, caches, dmem, pi, sp, si, pif, intr, locals>>

\* The loop clears a unit, and goes on while more than one unit is left.
rdram_bzero ==
  /\ Step("bzero", "stage2_dma")
  /\ mem' = [u \in Units |-> IF u \in Skip..(memsize - Reserved - 2)
                               THEN Zero ELSE mem[u]]
  /\ UNCHANGED <<console, caches, imem, dmem, pi, sp, si, pif, intr, locals>>

\* pi_wait, and the three writes that start a DMA to RDRAM.
PiStart(units, value) ==
  /\ pi = {}
  /\ pi' = {<<u, value>> : u \in units}

LoaderUnits == (memsize - Loader)..(memsize - 1)

Stage2Dma ==
  /\ Step("stage2_dma", "cache")
  /\ PiStart(LoaderUnits, Code)
  /\ UNCHANGED <<console, mem, caches, imem, dmem, sp, si, pif, intr, locals>>

\* Tags are zeroed: nothing is written back.
cop0_clear_cache == icache' = TRUE /\ dcache' = [u \in Units |-> None]

ClearCache ==
  /\ \/ Step("cache", "bootinfo")
     \/ Step("cache3", "memsize")
  /\ cop0_clear_cache
  /\ UNCHANGED <<console, mem, imem, dmem, pi, sp, si, pif, intr, locals>>

RandomSeed == 305419896

\* Words of bootinfo_t: memory_size, random_seed, flags, elf_offset.
FillBootinfo ==
  /\ Step("bootinfo", "wait")
  /\ dmem' = [dmem EXCEPT ![0] = memsize, ![1] = RandomSeed, ![2] = flags, ![3] = 0]
  /\ UNCHANGED <<console, mem, caches, imem, pi, sp, si, pif, intr, locals>>

\* Mutant: jumps while stage2 is still on its way.
JumpStage2_NoWait ==
  /\ Step("wait", "search")
  /\ dcache' = [dcache EXCEPT ![Stack] = Junk]
  /\ UNCHANGED <<console, mem, icache, imem, dmem, pi, sp, si, pif, intr, locals>>

\* stage2 begins to use its stack, in the cached segment.
JumpStage2 ==
  /\ Step("wait", "search") /\ pi = {}
  /\ dcache' = [dcache EXCEPT ![Stack] = Junk]
  /\ UNCHANGED <<console, mem, icache, imem, dmem, pi, sp, si, pif, intr, locals>>

------------------------------------------------------------------------------
(* stage2                                                                   *)

Search ==
  /\ pc = "search" /\ pi = {}
  /\ IF rom.elf < ElfSteps
       THEN pc' = "check" /\ dmem' = [dmem EXCEPT ![3] = 16 + rom.elf]
       ELSE pc' = "abort" /\ UNCHANGED dmem
  /\ UNCHANGED <<console, mem, caches, imem, pi, sp, si, pif, intr, locals>>

CheckElf ==
  /\ pc = "check" /\ pi = {}
  /\ pc' = IF rom.is64 \/ rom.little THEN "abort" ELSE "loop"
  /\ i' = 1
  /\ UNCHANGED <<console, mem, caches, imem, dmem, pi, sp, si, pif, intr, sizes, hdr, kernel>>

Loop ==
  /\ pc = "loop"
  /\ pc' = IF i <= Len(rom.phdrs) THEN "invalidate" ELSE "rcp_reset"
  /\ UNCHANGED <<console, mem, caches, imem, dmem, pi, sp, si, pif, intr, locals>>

\* Mutant: the line of the header before stays in the cache.
Invalidate_Skipped ==
  /\ Step("invalidate", "header")
  /\ UNCHANGED <<console, mem, caches, imem, dmem, pi, sp, si, pif, intr, locals>>

\* data_cache_hit_writeback_invalidate of phdr
Invalidate ==
  /\ Step("invalidate", "header")
  /\ mem' = IF dcache[Stack] = Junk THEN [mem EXCEPT ![Stack] = Junk] ELSE mem
  /\ dcache' = [dcache EXCEPT ![Stack] = None]
  /\ UNCHANGED <<console, icache, imem, dmem, pi, sp, si, pif, intr, locals>>

HeaderDma ==
  /\ Step("header", "read")
  /\ PiStart({Stack}, Header(i))
  /\ UNCHANGED <<console, mem, caches, imem, dmem, sp, si, pif, intr, locals>>

ReadHeader ==
  /\ Step("read", "test") /\ pi = {}
  /\ hdr' = IF dcache[Stack] = None THEN mem[Stack] ELSE dcache[Stack]
  /\ dcache' = [dcache EXCEPT ![Stack] = hdr']
  /\ UNCHANGED <<console, mem, icache, imem, dmem, pi, sp, si, pif, intr, sizes, i, kernel>>

\* The header that stage2 acts on.
Seen == rom.phdrs[hdr[2]]

\* Mutant: every segment is loaded.
Ignored_No == FALSE

Ignored == ~Seen.load \/ Seen.size = 0

TestHeader ==
  /\ pc = "test"
  /\ pc' = CASE Ignored -> "loop"
             [] ~Ignored /\ Seen.aligned -> "load"
             [] ~Ignored /\ ~Seen.aligned -> "abort"
  /\ i' = IF Ignored THEN i + 1 ELSE i
  /\ PiStart(IF Ignored \/ ~Seen.aligned THEN {} ELSE SegmentUnits(Seen), Segment(hdr[2]))
  /\ UNCHANGED <<console, mem, caches, imem, dmem, sp, si, pif, intr, sizes, hdr, kernel>>

\* Mutant: the next header is fetched while the segment is loaded.
SegmentLoaded_NoWait ==
  /\ Step("load", "loop")
  /\ i' = i + 1
  /\ UNCHANGED <<console, mem, caches, imem, dmem, pi, sp, si, pif, intr, sizes, hdr, kernel>>

\* Mutant: the loop variable is left alone.
SegmentLoaded_Again ==
  /\ Step("load", "loop") /\ pi = {}
  /\ UNCHANGED <<console, mem, caches, imem, dmem, pi, sp, si, pif, intr, locals>>

SegmentLoaded ==
  /\ Step("load", "loop") /\ pi = {}
  /\ i' = i + 1
  /\ UNCHANGED <<console, mem, caches, imem, dmem, pi, sp, si, pif, intr, sizes, hdr, kernel>>

\* Masks and clears the interrupts, but has no write for the VI's.
rcp_reset ==
  /\ Step("rcp_reset", "pif")
  /\ intr' = intr \cap {"VI"}
  /\ UNCHANGED <<console, mem, caches, imem, dmem, pi, sp, si, pif, locals>>

------------------------------------------------------------------------------
(* stage3                                                                   *)

pif_terminate_boot ==
  /\ Step("pif", "cache3") /\ si = "idle"
  /\ si' = "terminate"
  /\ UNCHANGED <<console, mem, caches, imem, dmem, pi, sp, pif, intr, locals>>

ReadMemsize ==
  /\ Step("memsize", "sp_dma")
  /\ memsize' = dmem[0]
  /\ UNCHANGED <<console, mem, caches, imem, dmem, pi, sp, si, pif, intr, chip, i, hdr, kernel>>

\* Clears the reserved part of RDRAM, then DMEM behind the boot information.
SpDma ==
  /\ Len(sp) < 2
  /\ \/ Step("sp_dma", "sp_dmem") /\ sp' = Append(sp, "rdram")
     \/ Step("sp_dmem", "si_wait") /\ sp' = Append(sp, "dmem")
  /\ UNCHANGED <<console, mem, caches, imem, dmem, pi, si, pif, intr, locals>>

SiWait ==
  /\ Step("si_wait", "sp_wait") /\ si = "idle"
  /\ intr' = intr \ {"SI"}
  /\ UNCHANGED <<console, mem, caches, imem, dmem, pi, sp, si, pif, locals>>

JumpKernel ==
  /\ Step("sp_wait", "_start") /\ sp = <<>>
  /\ UNCHANGED <<console, mem, caches, imem, dmem, pi, sp, si, pif, intr, locals>>

------------------------------------------------------------------------------
(* The kernel: _start.                                                      *)

\* SP_DMEM_ADDR is a pointer to words: the indexes count words, not bytes.
bootflags_init ==
  /\ Step("_start", "init_kernel")
  /\ boot' = [memsize |-> dmem[0], seed |-> dmem[4], types |-> dmem[8]]
  /\ UNCHANGED <<console, mem, caches, imem, dmem, pi, sp, si, pif, intr, sizes, i, hdr, tlb>>

\* Mutant: the odd page is the even one again.
tlb_init_SamePage == tlb' = [p \in {UserPage, UserPage + 1} |-> UserPage]

\* One entry: a pair of pages, mapped to themselves.
tlb_init == tlb' = [p \in {UserPage, UserPage + 1} |-> p]

\* The other subsystems' own state is in their modules.
init_kernel ==
  /\ Step("init_kernel", "main")
  /\ tlb_init
  /\ UNCHANGED <<console, mem, caches, imem, dmem, pi, sp, si, pif, intr, sizes, i, hdr, boot>>

\* abort's loop, and the program that main is.
Stay == pc \in {"abort", "main"} /\ UNCHANGED vars

Cpu ==
  \/ TestBank \/ rsp_bzero \/ rdram_bzero \/ Stage2Dma \/ ClearCache
  \/ FillBootinfo \/ JumpStage2
  \/ Search \/ CheckElf \/ Loop \/ Invalidate \/ HeaderDma \/ ReadHeader
  \/ TestHeader \/ SegmentLoaded \/ rcp_reset
  \/ pif_terminate_boot \/ ReadMemsize \/ SpDma \/ SiWait \/ JumpKernel
  \/ bootflags_init \/ init_kernel

Next ==
  \/ PiStep \/ SpStep \/ SiStep \/ (\E u \in Units : Evict(u))
  \/ Cpu \/ Stay

\* The CPU runs and the devices finish what they do.
Fairness ==
  WF_vars(Cpu) /\ WF_vars(PiStep) /\ WF_vars(SpStep) /\ WF_vars(SiStep)

Spec == Init /\ [][Next]_vars /\ Fairness

------------------------------------------------------------------------------
TypeOK ==
  /\ pc \in Labels /\ installed \in SUBSET (0..(Banks - 1))
  /\ rom \in Rom /\ flags \in Nat
  /\ mem \in [Units -> Values] /\ dcache \in [Units -> Values]
  /\ icache \in BOOLEAN /\ imem \in {Junk, Zero} /\ dmem \in [Words -> Int]
  /\ pi \in SUBSET (Units \X Values)
  /\ sp \in Seq(SpDmas) /\ Len(sp) <= 2
  /\ si \in {"idle", "before", "terminate"} /\ pif \in BOOLEAN
  /\ intr \in SUBSET RcpIntr
  /\ chip \in 0..Banks /\ memsize \in Nat /\ i \in Nat /\ hdr \in Values
  /\ boot \in [memsize : Int, seed : Int, types : Int]
  /\ \A p \in DOMAIN tlb : tlb[p] \in Nat

\* The loader is whole and stays so while it runs: neither its own DMAs nor
\* lines left in the cache by the program before the reset write over it.
LoaderIntact ==
  pc \in Stage2 => icache /\ \A u \in LoaderUnits : mem[u] = Code

\* The program header that stage2 acts on is the one of this turn of the loop:
\* not what the buffer held before the DMA, nor what the cache holds of the
\* header before.
HeaderFresh == pc = "test" => hdr = Header(i)

\* A segment that is loaded.
Loads(k) == rom.phdrs[k].load /\ rom.phdrs[k].size > 0

\* Segment k is the last of the first n to write unit u.
LastAt(k, u, n) ==
  /\ Loads(k) /\ u \in SegmentUnits(rom.phdrs[k])
  /\ \A j \in (k + 1)..n : ~(Loads(j) /\ u \in SegmentUnits(rom.phdrs[j]))

\* Segments are loaded to unit u.
Covered(u) == \E k \in 1..Len(rom.phdrs) : Loads(k) /\ u \in SegmentUnits(rom.phdrs[k])

\* The loop of rdram_bzero stops one unit short (RdramCleared).
LastUnit == memsize - Reserved - 1

\* What the kernel finds in RDRAM: the segments, the last one where they
\* overlap, and zero elsewhere, so that what a segment has more in memory than
\* in the file (its bss) is zero as well.  Of the first 0x400 bytes and of
\* LastUnit nothing is claimed.
EntryImage ==
  pc \in Kernel =>
    \A u \in 0..(memsize - 1) :
      IF Covered(u)
        THEN \E k \in 1..Len(rom.phdrs) :
               LastAt(k, u, Len(rom.phdrs)) /\ mem[u] = Segment(k)
        ELSE u >= Skip /\ u # LastUnit => mem[u] = Zero

\* The kernel starts on quiet hardware: no DMA is under way, no interrupt is
\* raised but, perhaps, the VI's, no cache holds what the boot code did, and
\* the PIF will not stop the CPU.
EntryHardware ==
  pc \in Kernel =>
    /\ pi = {} /\ sp = <<>> /\ si = "idle" /\ pif /\ intr \subseteq {"VI"}
    /\ icache /\ \A u \in Units : dcache[u] = None

\* The memory that malloc divides is the banks before the first that does not
\* answer.
MemsizeFound ==
  pc = "main" => \E n \in 1..Banks : Found(n) /\ boot.memsize = n * BankUnits

Bootable ==
  /\ rom.elf < ElfSteps /\ ~rom.little
  /\ \A k \in 1..Len(rom.phdrs) : Loads(k) => rom.phdrs[k].aligned

\* With 32-bit ELF files the kernel is entered for those that can be loaded
\* and for no other; of 64-bit ones nothing is claimed.
EnteredIffBootable ==
  ~rom.is64 => /\ pc = "abort" => ~Bootable
               /\ pc \in Kernel => Bootable

\* The user program's segment is where user mode looks for it: the loader
\* takes its virtual address for a physical one, and so does the TLB.
UserMapped ==
  pc = "main" =>
    \A k \in 1..Len(rom.phdrs) : Loads(k) /\ rom.phdrs[k].user =>
      \A u \in SegmentUnits(rom.phdrs[k]) :
        LET page == u \div PageUnits IN
        page \in DOMAIN tlb /\ tlb[page] = page

\* The boot code ends: none of its waits lasts for ever.
Boots == <>(pc \in {"main", "abort"})

\* The loader runs on what has been loaded: itself and each program header.
LoaderSound == LoaderIntact /\ HeaderFresh

\* What the kernel starts from: the memory and the hardware.
KernelEntry == EntryImage /\ EntryHardware

\* What main starts from: the size of the memory and the user program's pages.
MainEntry == MemsizeFound /\ UserMapped

------------------------------------------------------------------------------
(* What the boot loader's documentation promises and the code does not keep. *)

\* boot/README.md: "The RDRAM is cleared before booting."  Behind the first
\* 0x400 bytes, which are kept on purpose, every unit is.
RdramCleared ==
  \A u \in Skip..(memsize - 1) : ~Covered(u) => mem[u] = Zero

\* boot/README.md: "IPL3 passes standard boot flags to the application in
\* DMEM."  The kernel has the random seed and the types that stage1 stored.
FlagsPassed == boot.seed = RandomSeed /\ boot.types = flags

\* main finds at least one of the two promises kept.
SomePromiseKept == pc = "main" => RdramCleared \/ FlagsPassed

\* boot/README.md: "ELF must be 32-bit or 64-bit."  abort is for files that are
\* not in order, of either class.
AbortsOnlyUnbootable == pc = "abort" => ~Bootable
=============================================================================
