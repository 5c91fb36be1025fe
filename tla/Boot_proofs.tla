----------------------------- MODULE Boot_proofs -----------------------------
(***************************************************************************)
(* The boot code, for any number and size of banks and any ROM.  The       *)
(* argument follows the program counter: for each of the pieces of state   *)
(* that several actors write (RDRAM, the caches, what the PI, the SP and   *)
(* the SI are doing) the invariant says from where to where nobody but the *)
(* CPU touches it, and what it holds by then.                              *)
(***************************************************************************)
EXTENDS Boot, TLAPS

Total == Banks * BankUnits

\* The memory that has been found; the segments fit in it.
MemFound ==
  /\ pc = "banks" =>
       /\ chip \in 0..Banks /\ memsize = chip * BankUnits
       /\ \A b \in 0..(chip - 1) : b \in installed
  /\ pc # "banks" => \E n \in 1..Banks : Found(n) /\ memsize = n * BankUnits

SegmentsFit ==
  /\ 0 \in installed
  /\ \A n \in 1..Banks, k \in 1..Len(rom.phdrs) :
       Found(n) /\ rom.phdrs[k].load =>
         rom.phdrs[k].vaddr + rom.phdrs[k].size <= n * BankUnits - Reserved
  /\ \A k \in 1..Len(rom.phdrs) : rom.phdrs[k].user =>
       /\ rom.phdrs[k].vaddr >= UserPage * PageUnits
       /\ rom.phdrs[k].vaddr + rom.phdrs[k].size <= (UserPage + 2) * PageUnits

\* The SP is idle from rsp_bzero to stage3, and again when the kernel starts.
SpInv ==
  /\ pc \in {"banks", "rsp_bzero"} => sp = <<>> \/ (Len(sp) = 1 /\ sp[1] = "imem")
  /\ pc \notin {"banks", "rsp_bzero"} => imem = Zero
  /\ pc \notin {"banks", "rsp_bzero", "sp_dmem", "si_wait", "sp_wait"} => sp = <<>>
  /\ pc = "sp_dmem" => sp = <<>> \/ (Len(sp) = 1 /\ sp[1] = "rdram")
  /\ pc \in {"si_wait", "sp_wait"} =>
       \/ sp = <<>> \/ (Len(sp) = 1 /\ sp[1] = "dmem")
       \/ (Len(sp) = 2 /\ sp[1] = "rdram" /\ sp[2] = "dmem")

\* What the PI may yet write.
PiInv ==
  /\ pc \in {"cache", "bootinfo", "wait"} => \A d \in pi : d[1] \in LoaderUnits /\ d[2] = Code
  /\ pc = "read" => \A d \in pi : d[1] = Stack /\ d[2] = Header(i)
  /\ pc = "load" =>
       \A d \in pi : d[1] \in SegmentUnits(rom.phdrs[i]) /\ d[2] = Segment(i)
  /\ pc \notin {"cache", "bootinfo", "wait", "read", "load"} => pi = {}

\* Nothing but the stack of stage2 is cached from stage1 on.
CacheInv ==
  /\ pc \notin {"banks", "rsp_bzero", "bzero", "stage2_dma", "cache"} =>
       icache /\ \A u \in Units : u # Stack => dcache[u] = None
  /\ pc \in {"bootinfo", "wait", "header", "read"} => dcache[Stack] = None
  /\ pc \in (Stage3 \ {"pif", "cache3"}) \cup Kernel => \A u \in Units : dcache[u] = None

\* The SI and the interrupts from rcp_reset on.
SiInv ==
  /\ pc \in Stage3 \cup Kernel => intr \subseteq {"SI", "VI"}
  /\ pc \in (Stage3 \ {"pif"}) \cup Kernel => si = "terminate" \/ pif
  /\ pc \in {"sp_wait"} \cup Kernel => si = "idle" /\ intr \subseteq {"VI"}

\* The program headers that have been dealt with.
Before(n) == \A k \in 1..n : Loads(k) => rom.phdrs[k].aligned

RomInv ==
  /\ pc \notin {"search", "abort"} \cup Stage1 => rom.elf < ElfSteps
  /\ pc \notin {"search", "check", "abort"} \cup Stage1 => ~rom.is64 /\ ~rom.little
  /\ pc = "loop" => i \in 1..(Len(rom.phdrs) + 1)
  /\ pc \in {"invalidate", "header", "read", "test", "load"} => i \in 1..Len(rom.phdrs)
  /\ pc \in {"loop", "invalidate", "header", "read", "test"} => Before(i - 1)
  /\ pc = "load" => Before(i) /\ Loads(i)
  /\ pc \in {"rcp_reset"} \cup Stage3 \cup Kernel => Before(Len(rom.phdrs))
  /\ pc = "abort" => rom.is64 \/ ~Bootable

\* The loader and the program header.
LoaderInv ==
  /\ pc \in {"cache", "bootinfo", "wait"} =>
       \A u \in LoaderUnits : mem[u] = Code \/ <<u, Code>> \in pi
  /\ pc \in Stage2 => \A u \in LoaderUnits : mem[u] = Code
  /\ pc = "read" => mem[Stack] = Header(i) \/ <<Stack, Header(i)>> \in pi
  /\ pc \in {"test", "load"} => hdr = Header(i)

\* The boot information and what the kernel makes of it.
FlagsInv ==
  /\ pc \in {"wait"} \cup Stage2 \cup Stage3 \cup Kernel => dmem[0] = memsize
  /\ pc \in {"si_wait", "sp_wait"} \cup Kernel =>
       (sp = <<>> => \A w \in 4..11 : dmem[w] = 0)
  /\ pc \in {"init_kernel", "main"} =>
       boot.memsize = memsize /\ boot.seed = 0 /\ boot.types = 0
  /\ pc = "main" => tlb = [p \in {UserPage, UserPage + 1} |-> p]

\* The segments of r that are loaded, and the memory m below the loader once the
\* first n of them are: sz is the memory found.
Writes(r, k, u) == /\ r.phdrs[k].load /\ r.phdrs[k].size > 0
                   /\ u \in SegmentUnits(r.phdrs[k])
Unit(m, r, sz, n, u) ==
  \/ \E k \in 1..n : /\ Writes(r, k, u) /\ m[u] = Segment(k)
                     /\ \A j \in (k + 1)..n : ~Writes(r, j, u)
  \/ /\ \A k \in 1..n : ~Writes(r, k, u)
     /\ m[u] = Zero \/ u < Skip \/ u = sz - Reserved - 1
Image(m, r, sz, n) == \A u \in 0..(sz - Reserved - 1) : Unit(m, r, sz, n, u)

\* The segments that have been dealt with; the next one is on its way while
\* pc is "load".
Done == CASE pc \in Stage1 \cup {"search", "check"} -> 0
          [] pc \in Stage2 \ {"search", "check", "rcp_reset"} -> i - 1
          [] OTHER -> Len(rom.phdrs)

ImageInv ==
  /\ pc \notin {"banks", "rsp_bzero", "bzero", "load", "abort"} =>
       Image(mem, rom, memsize, Done)
  /\ pc = "load" =>
       \A u \in 0..(memsize - Reserved - 1) :
         IF u \in SegmentUnits(rom.phdrs[i])
           THEN mem[u] = Segment(i) \/ <<u, Segment(i)>> \in pi
           ELSE Unit(mem, rom, memsize, i - 1, u)

\* The reserved part once stage3 has cleared it.
SpareInv ==
  pc \in {"sp_dmem", "si_wait", "sp_wait"} \cup Kernel =>
    (sp = <<>> \/ sp[1] = "dmem" =>
       \A u \in (memsize - Reserved)..(memsize - 1) : mem[u] = Zero)

IInv ==
  /\ TypeOK /\ MemFound /\ SegmentsFit
  /\ SpInv /\ PiInv /\ CacheInv /\ SiInv
  /\ RomInv /\ LoaderInv /\ FlagsInv /\ ImageInv /\ SpareInv

Stage1Step == TestBank \/ rsp_bzero \/ rdram_bzero \/ Stage2Dma \/ ClearCache
                \/ FillBootinfo \/ JumpStage2
Stage2Step == Search \/ CheckElf \/ Loop \/ Invalidate \/ HeaderDma \/ ReadHeader
                \/ TestHeader \/ SegmentLoaded \/ rcp_reset
Stage3Step == pif_terminate_boot \/ ReadMemsize \/ SpDma \/ SiWait \/ JumpKernel
                \/ bootflags_init \/ init_kernel

\* The steps, in groups.
LEMMA Steps ==
  ASSUME [Next]_vars
  PROVE  \/ Stage1Step \/ Stage2Step \/ Stage3Step \/ PiStep \/ SpStep \/ SiStep
         \/ (\E u \in Units : Evict(u)) \/ UNCHANGED vars
BY DEF Next, Cpu, Stay, Stage1Step, Stage2Step, Stage3Step

\* The ROM, the flags and the installed banks stay.
LEMMA ConsoleStays ==
  ASSUME [Next]_vars
  PROVE  UNCHANGED console
<1>1. CASE Stage1Step
  BY <1>1 DEF Stage1Step, TestBank, rsp_bzero, rdram_bzero, Stage2Dma, ClearCache,
       FillBootinfo, JumpStage2, console
<1>2. CASE Stage2Step
  BY <1>2 DEF Stage2Step, Search, CheckElf, Loop, Invalidate, HeaderDma, ReadHeader,
       TestHeader, SegmentLoaded, rcp_reset, console
<1>3. CASE Stage3Step
  BY <1>3 DEF Stage3Step, pif_terminate_boot, ReadMemsize, SpDma, SiWait, JumpKernel,
       bootflags_init, init_kernel, console
<1>4. CASE PiStep \/ SpStep \/ SiStep \/ (\E u \in Units : Evict(u)) \/ UNCHANGED vars
  BY <1>4 DEF PiStep, SpStep, SiStep, Evict, vars, console
<1> QED BY Steps, <1>1, <1>2, <1>3, <1>4

\* What Init says of the ROM stays so.
LEMMA FitStep == SegmentsFit /\ [Next]_vars => SegmentsFit'
BY ConsoleStays DEF SegmentsFit, Found, console

\* Nonlinear facts.
LEMMA Times ==
  /\ \A a, b, c \in Nat : a <= b => a * c <= b * c
  /\ \A a, c \in Nat : (a + 1) * c = a * c + c
  /\ \A a, c \in Nat : a * c \in Nat
OBVIOUS

\* What has been found lies between one bank and all.
LEMMA Bounds ==
  ASSUME TypeOK, MemFound, SegmentsFit, pc # "banks"
  PROVE  /\ memsize \in Nat /\ Total \in Nat /\ BankUnits <= memsize /\ memsize <= Total
         /\ Skip + Reserved + 1 < memsize /\ Loader < Reserved
         /\ Loader \in Nat \ {0} /\ Reserved \in Nat /\ Skip \in Nat \ {0}
         /\ Units = 0..(Total - 1)
         /\ \A k \in 1..Len(rom.phdrs) : rom.phdrs[k].load =>
              rom.phdrs[k].vaddr + rom.phdrs[k].size <= memsize - Reserved
<1>1. PICK n \in 1..Banks : Found(n) /\ memsize = n * BankUnits
  BY DEF MemFound
<1>2. n \in Nat /\ 1 <= n /\ n <= Banks /\ Banks \in Nat /\ BankUnits \in Nat
  BY SizeAssumption
<1>3. 1 * BankUnits <= n * BankUnits /\ n * BankUnits <= Banks * BankUnits
  BY <1>2, Times
<1>4. n * BankUnits \in Nat /\ Banks * BankUnits \in Nat /\ 1 * BankUnits = BankUnits
  BY <1>2, Times
<1>5. /\ memsize \in Nat /\ Total \in Nat /\ BankUnits <= memsize /\ memsize <= Total
  BY <1>1, <1>2, <1>3, <1>4 DEF Total
<1>6. Skip + Reserved + 1 < memsize
  BY <1>2, <1>5, SizeAssumption
<1>7. \A k \in 1..Len(rom.phdrs) : rom.phdrs[k].load =>
              rom.phdrs[k].vaddr + rom.phdrs[k].size <= memsize - Reserved
  BY <1>1 DEF SegmentsFit
<1> QED BY <1>5, <1>6, <1>7, SizeAssumption DEF Units, Total

\* The loop over the banks finds the ones before the first that does not answer.
LEMMA MemStep ==
  ASSUME TypeOK, SegmentsFit, MemFound, FlagsInv, [Next]_vars
  PROVE  MemFound'
<1> USE DEF Step, console, caches, sizes, kernel, locals
<1>1. CASE TestBank
  <2>1. CASE chip < Banks /\ chip \in installed
    <3>1. chip' \in 0..Banks /\ chip \in Nat /\ pc' = pc /\ pc = "banks"
      BY <2>1, <1>1, SizeAssumption DEF TestBank, TypeOK
    <3>2. memsize' = chip' * BankUnits
      BY <2>1, <3>1, <1>1, Times, SizeAssumption DEF TestBank, MemFound
    <3> QED BY SMT, <2>1, <3>1, <3>2, <1>1 DEF TestBank, MemFound
  <2>2. CASE ~(chip < Banks /\ chip \in installed)
    <3>1. pc = "banks" /\ pc' = "rsp_bzero" /\ chip \in 0..Banks /\ 0 \in installed
      BY <2>2, <1>1 DEF TestBank, MemFound, SegmentsFit
    <3>2. chip \in 1..Banks
      BY <2>2, <3>1, SizeAssumption
    <3>3. Found(chip)
      BY <2>2, <3>1, <3>2, SizeAssumption DEF MemFound, Found
    <3> QED BY SMT, <2>2, <3>1, <3>2, <3>3, <1>1 DEF TestBank, MemFound, Found
  <2> QED BY <2>1, <2>2
<1>2. CASE Stage1Step /\ ~TestBank
  BY SMT, <1>2 DEF
     Stage1Step, rsp_bzero, rdram_bzero, Stage2Dma, ClearCache, FillBootinfo,
     JumpStage2, MemFound, Found, Stage1
<1>3. CASE Stage2Step
  BY SMT, <1>3 DEF
     Stage2Step, Search, CheckElf, Loop, Invalidate, HeaderDma, ReadHeader,
     TestHeader, SegmentLoaded, rcp_reset, MemFound, Found, Stage1
<1>4. CASE ReadMemsize
  BY SMT, <1>4 DEF
     ReadMemsize, FlagsInv, Stage2, Stage3, MemFound, Found, Stage1
<1>5. CASE Stage3Step /\ ~ReadMemsize
  BY SMT, <1>5 DEF
     Stage3Step, pif_terminate_boot, SpDma, SiWait, JumpKernel, bootflags_init,
     init_kernel, MemFound, Found, Stage1
<1>6. CASE PiStep
  BY SMT, <1>6 DEF
     PiStep, MemFound, Found, Stage1
<1>7. CASE SpStep
  BY SMT, <1>7 DEF
     SpStep, MemFound, Found, Stage1
<1>8. CASE SiStep
  BY SMT, <1>8 DEF
     SiStep, MemFound, Found, Stage1
<1>9. CASE \E u \in Units : Evict(u)
  BY SMT, <1>9 DEF
     Evict, MemFound, Found, Stage1
<1>10. CASE UNCHANGED vars
  BY SMT, <1>10 DEF
     vars, MemFound, Found, Stage1
<1> QED BY Zenon, Steps, <1>1, <1>2, <1>3, <1>4, <1>5, <1>6, <1>7, <1>8, <1>9,
             <1>10

\* The DMA that the SP works on, and the one behind it.
LEMMA Tails ==
  ASSUME NEW s \in Seq(SpDmas), s # <<>>
  PROVE  /\ Head(s) = s[1] /\ Tail(s) \in Seq(SpDmas) /\ Len(Tail(s)) <= Len(s)
         /\ Len(s) = 1 <=> Tail(s) = <<>>
         /\ Len(s) = 2 => Len(Tail(s)) = 1 /\ Tail(s)[1] = s[2]
<1>1. Len(s) >= 1 /\ Tail(s) \in Seq(SpDmas) /\ Len(Tail(s)) = Len(s) - 1 /\ Len(s) \in Nat
  OBVIOUS
<1>2. Head(s) = s[1]
  OBVIOUS
<1>3. Len(s) = 1 <=> Tail(s) = <<>>
  <2>1. \A t \in Seq(SpDmas) : Len(t) = 0 <=> t = <<>>
    OBVIOUS
  <2>2. Len(Tail(s)) = 0 <=> Tail(s) = <<>>
    BY Zenon, <1>1, <2>1
  <2> QED BY <1>1, <2>2
<1>4. Len(s) = 2 => Tail(s)[1] = s[2]
  BY <1>1
<1> QED BY <1>1, <1>2, <1>3, <1>4

\* The SP works through the DMAs it was given, in order.
LEMMA SpStays ==
  ASSUME TypeOK, SpInv, [Next]_vars
  PROVE  SpInv'
<1> USE DEF Step, console, caches, sizes, kernel, locals
<1>1. CASE Stage1Step
  BY SMT, <1>1 DEF
     Stage1Step, TestBank, rsp_bzero, rdram_bzero, Stage2Dma, ClearCache,
     FillBootinfo, JumpStage2, SpInv
<1>2. CASE Stage2Step
  BY SMT, <1>2 DEF
     Stage2Step, Search, CheckElf, Loop, Invalidate, HeaderDma, ReadHeader,
     TestHeader, SegmentLoaded, rcp_reset, SpInv
<1>3. CASE SpDma
  <2>1. sp \in Seq(SpDmas) /\ {"rdram", "dmem"} \subseteq SpDmas /\ (Len(sp) = 0 => sp = <<>>)
    BY DEF TypeOK, SpDmas
  <2>2. CASE Step("sp_dma", "sp_dmem") /\ sp' = Append(sp, "rdram")
    BY SMT, <1>3, <2>1, <2>2 DEF SpDma, SpInv
  <2>3. CASE Step("sp_dmem", "si_wait") /\ sp' = Append(sp, "dmem")
    BY SMT, <1>3, <2>1, <2>3 DEF SpDma, SpInv
  <2> QED BY <1>3, <2>2, <2>3 DEF SpDma
<1>4. CASE Stage3Step /\ ~SpDma
  BY SMT, <1>4 DEF
     Stage3Step, pif_terminate_boot, ReadMemsize, SiWait, JumpKernel,
     bootflags_init, init_kernel, SpInv
<1>5. CASE PiStep
  BY SMT, <1>5 DEF
     PiStep, SpInv
<1>6. CASE SpStep
  <2>1. sp \in Seq(SpDmas)
    BY DEF TypeOK
  <2>2. sp' = Tail(sp) /\ sp # <<>> /\ pc' = pc
    BY <1>6 DEF SpStep
  <2>a. /\ Head(sp) = sp[1] /\ (Len(sp) = 1 => sp' = <<>>)
        /\ (Len(sp) = 2 => Len(sp') = 1 /\ sp'[1] = sp[2])
    BY Zenon, <2>1, <2>2, Tails
  <2>3. pc \notin {"banks", "rsp_bzero"} =>
          imem' = imem /\ sp[1] # "imem"
    BY SMT, <1>6, <2>2, <2>a DEF SpStep, SpInv
  <2> QED BY SMT, <2>2, <2>3, <2>a DEF SpInv
<1>7. CASE SiStep
  BY SMT, <1>7 DEF
     SiStep, SpInv
<1>8. CASE \E u \in Units : Evict(u)
  BY SMT, <1>8 DEF
     Evict, SpInv
<1>9. CASE UNCHANGED vars
  BY SMT, <1>9 DEF
     vars, SpInv
<1> QED BY Zenon, Steps, <1>1, <1>2, <1>3, <1>4, <1>5, <1>6, <1>7, <1>8, <1>9

\* The PI writes what the CPU last asked for.
LEMMA PiStays ==
  ASSUME PiInv, LoaderInv, [Next]_vars
  PROVE  PiInv'
<1> USE DEF Step, console, caches, sizes, kernel, locals
<1>1. CASE Stage1Step
  BY SMT, <1>1 DEF
     Stage1Step, TestBank, rsp_bzero, rdram_bzero, Stage2Dma, ClearCache,
     FillBootinfo, JumpStage2, PiInv, PiStart, Stack, LoaderUnits, Seen
<1>2. CASE TestHeader
  BY SMT, <1>2 DEF
     TestHeader, LoaderInv, Header, SegmentUnits, PiInv, PiStart, Stack,
     LoaderUnits, Seen
<1>3. CASE Stage2Step /\ ~TestHeader
  BY SMT, <1>3 DEF
     Stage2Step, Search, CheckElf, Loop, Invalidate, HeaderDma, ReadHeader,
     SegmentLoaded, rcp_reset, PiInv, PiStart, Stack, LoaderUnits, Seen
<1>4. CASE Stage3Step
  BY SMT, <1>4 DEF
     Stage3Step, pif_terminate_boot, ReadMemsize, SpDma, SiWait, JumpKernel,
     bootflags_init, init_kernel, PiInv, PiStart, Stack, LoaderUnits, Seen
<1>5. CASE PiStep
  BY SMT, <1>5 DEF
     PiStep, PiInv, PiStart, Stack, LoaderUnits, Seen
<1>6. CASE SpStep
  BY SMT, <1>6 DEF
     SpStep, PiInv, PiStart, Stack, LoaderUnits, Seen
<1>7. CASE SiStep
  BY SMT, <1>7 DEF
     SiStep, PiInv, PiStart, Stack, LoaderUnits, Seen
<1>8. CASE \E u \in Units : Evict(u)
  BY SMT, <1>8 DEF
     Evict, PiInv, PiStart, Stack, LoaderUnits, Seen
<1>9. CASE UNCHANGED vars
  BY SMT, <1>9 DEF
     vars, PiInv, PiStart, Stack, LoaderUnits, Seen
<1> QED BY Zenon, Steps, <1>1, <1>2, <1>3, <1>4, <1>5, <1>6, <1>7, <1>8, <1>9

\* stage2 caches its stack, and nothing of it when the PI writes there.
LEMMA CacheStays ==
  ASSUME TypeOK, MemFound, SegmentsFit, CacheInv, PiInv, [Next]_vars
  PROVE  CacheInv'
<1> USE DEF Step, console, caches, sizes, kernel, locals
<1>a. dcache \in [Units -> Values]
  BY DEF TypeOK
<1>b. pc # "banks" => Stack \in Units
  BY Bounds DEF Stack
<1>1. CASE ClearCache
  BY SMT, <1>1, <1>b DEF
     ClearCache, CacheInv, Stack, cop0_clear_cache, Stage1, Stage2, Stage3, Kernel
<1>2. CASE JumpStage2
  BY SMT, <1>2, <1>a, <1>b DEF
     JumpStage2, CacheInv, Stack, cop0_clear_cache, Stage1, Stage2, Stage3, Kernel
<1>3. CASE Stage1Step /\ ~ClearCache /\ ~JumpStage2
  BY SMT, <1>3 DEF
     Stage1Step, TestBank, rsp_bzero, rdram_bzero, Stage2Dma, FillBootinfo,
     CacheInv, Stack, cop0_clear_cache, Stage1, Stage2, Stage3, Kernel
<1>4. CASE Invalidate
  BY SMT, <1>4, <1>a, <1>b DEF
     Invalidate, CacheInv, Stack, cop0_clear_cache, Stage1, Stage2, Stage3, Kernel
<1>5. CASE ReadHeader
  BY SMT, <1>5, <1>a, <1>b DEF
     ReadHeader, CacheInv, Stack, cop0_clear_cache, Stage1, Stage2, Stage3, Kernel
<1>6. CASE Stage2Step /\ ~Invalidate /\ ~ReadHeader
  BY SMT, <1>6 DEF
     Stage2Step, Search, CheckElf, Loop, HeaderDma, TestHeader, SegmentLoaded,
     rcp_reset, CacheInv, Stack, cop0_clear_cache, Stage1, Stage2, Stage3, Kernel
<1>7. CASE Stage3Step
  BY SMT, <1>7 DEF
     Stage3Step, pif_terminate_boot, ReadMemsize, SpDma, SiWait, JumpKernel,
     bootflags_init, init_kernel, CacheInv, Stack, cop0_clear_cache, Stage1,
     Stage2, Stage3, Kernel
<1>8. CASE PiStep
  BY SMT, <1>8 DEF
     PiStep, CacheInv, Stack, cop0_clear_cache, Stage1, Stage2, Stage3, Kernel
<1>9. CASE SpStep
  BY SMT, <1>9 DEF
     SpStep, CacheInv, Stack, cop0_clear_cache, Stage1, Stage2, Stage3, Kernel
<1>10. CASE SiStep
  BY SMT, <1>10 DEF
     SiStep, CacheInv, Stack, cop0_clear_cache, Stage1, Stage2, Stage3, Kernel
<1>11. CASE \E u \in Units : Evict(u)
  BY SMT, <1>11, <1>a, <1>b DEF
     Evict, CacheInv, Stack, cop0_clear_cache, Stage1, Stage2, Stage3, Kernel
<1>12. CASE UNCHANGED vars
  BY SMT, <1>12 DEF
     vars, CacheInv, Stack, cop0_clear_cache, Stage1, Stage2, Stage3, Kernel
<1> QED BY Zenon, Steps, <1>1, <1>2, <1>3, <1>4, <1>5, <1>6, <1>7, <1>8, <1>9,
             <1>10, <1>11, <1>12

\* The SI ends what it does, and the interrupts with it.
LEMMA SiStays ==
  ASSUME TypeOK, PiInv, SiInv, [Next]_vars
  PROVE  SiInv'
<1> USE DEF Step, console, caches, sizes, kernel, locals
<1>1. CASE Stage1Step
  BY SMT, <1>1 DEF
     Stage1Step, TestBank, rsp_bzero, rdram_bzero, Stage2Dma, ClearCache,
     FillBootinfo, JumpStage2, SiInv, Stage3, Kernel
<1>2. CASE Stage2Step
  BY SMT, <1>2 DEF
     Stage2Step, Search, CheckElf, Loop, Invalidate, HeaderDma, ReadHeader,
     TestHeader, SegmentLoaded, rcp_reset, SiInv, Stage3, Kernel
<1>3. CASE Stage3Step
  BY SMT, <1>3 DEF
     Stage3Step, pif_terminate_boot, ReadMemsize, SpDma, SiWait, JumpKernel,
     bootflags_init, init_kernel, SiInv, Stage3, Kernel
<1>4. CASE PiStep
  BY SMT, <1>4 DEF
     PiStep, PiInv, SiInv, Stage3, Kernel
<1>5. CASE SpStep
  BY SMT, <1>5 DEF
     SpStep, SiInv, Stage3, Kernel
<1>6. CASE SiStep
  <2>1. pif \in BOOLEAN /\ (pif' <=> pif \/ si = "terminate") /\ pc' = pc
    BY Zenon, <1>6 DEF SiStep, TypeOK
  <2>2. pc \in (Stage3 \ {"pif"}) \cup Kernel => pif'
    BY Zenon, <2>1 DEF SiInv
  <2>3. pc \notin {"sp_wait"} \cup Kernel
    BY Zenon, <1>6 DEF SiStep, SiInv
  <2>4. pc \in Stage3 \cup Kernel => intr' \subseteq {"SI", "VI"}
    BY SMT, <1>6 DEF SiStep, SiInv
  <2> QED BY Zenon, <2>1, <2>2, <2>3, <2>4 DEF SiInv
<1>7. CASE \E u \in Units : Evict(u)
  BY SMT, <1>7 DEF
     Evict, SiInv, Stage3, Kernel
<1>8. CASE UNCHANGED vars
  BY SMT, <1>8 DEF
     vars, SiInv, Stage3, Kernel
<1> QED BY Zenon, Steps, <1>1, <1>2, <1>3, <1>4, <1>5, <1>6, <1>7, <1>8

\* What is written has its type.
LEMMA Kinds ==
  /\ {Junk, Zero, Magic, Code, None} \subseteq Values
  /\ \A n \in Nat : Header(n) \in Values /\ Segment(n) \in Values /\ Header(n)[2] = n
  /\ 0 \in Words /\ 1 \in Words /\ 2 \in Words /\ 3 \in Words /\ 4 \in Words /\ 8 \in Words
  /\ BankUnits \in Nat /\ Banks \in Nat /\ UserPage \in Nat
BY SizeAssumption DEF Junk, Zero, Magic, Code, None, Values, Header, Segment, Words

\* The type invariant in parts.
TypeCpu ==
  /\ pc \in Labels /\ chip \in 0..Banks /\ memsize \in Nat /\ i \in Nat
  /\ boot \in [memsize : Int, seed : Int, types : Int]
  /\ \A p \in DOMAIN tlb : tlb[p] \in Nat
TypeMem ==
  /\ mem \in [Units -> Values] /\ dcache \in [Units -> Values] /\ hdr \in Values
TypeDma ==
  /\ imem \in {Junk, Zero} /\ dmem \in [Words -> Int]
  /\ pi \in SUBSET (Units \X Values)
  /\ sp \in Seq(SpDmas) /\ Len(sp) <= 2
TypeRcp ==
  /\ icache \in BOOLEAN /\ si \in {"idle", "before", "terminate"} /\ pif \in BOOLEAN
  /\ intr \in SUBSET RcpIntr
TypeRom == installed \in SUBSET (0..(Banks - 1)) /\ rom \in Rom /\ flags \in Nat

\* Together they are TypeOK.
LEMMA TypeParts == TypeOK <=> TypeRom /\ TypeCpu /\ TypeMem /\ TypeDma /\ TypeRcp
BY Zenon DEF TypeOK, TypeRom, TypeCpu, TypeMem, TypeDma, TypeRcp

\* The types of the CPU's own state.
LEMMA TypeCpuStep ==
  ASSUME TypeCpu, TypeDma, FlagsInv, [Next]_vars
  PROVE  TypeCpu'
<1> USE DEF Step, console, caches, sizes, kernel, locals
<1>1. CASE TestBank
  BY SMT, <1>1, Kinds DEF
     TestBank, TypeCpu, Labels, Stage1, Stage2, Stage3, Kernel
<1>2. CASE Stage1Step /\ ~TestBank
  BY SMT, <1>2 DEF
     Stage1Step, rsp_bzero, rdram_bzero, Stage2Dma, ClearCache, FillBootinfo,
     JumpStage2, TypeCpu, Labels, Stage1, Stage2, Stage3, Kernel
<1>3. CASE Stage2Step
  BY SMT, <1>3 DEF
     Stage2Step, Search, CheckElf, Loop, Invalidate, HeaderDma, ReadHeader,
     TestHeader, SegmentLoaded, rcp_reset, TypeCpu, Labels, Stage1, Stage2, Stage3,
     Kernel
<1>4. CASE ReadMemsize
  BY SMT, <1>4 DEF
     ReadMemsize, FlagsInv, Stage2, Stage3, TypeCpu, Labels, Stage1, Stage2,
     Stage3, Kernel
<1>5. CASE bootflags_init
  BY SMT, <1>5, Kinds DEF
     bootflags_init, TypeDma, TypeCpu, Labels, Stage1, Stage2, Stage3, Kernel
<1>6. CASE init_kernel
  BY SMT, <1>6, Kinds DEF
     init_kernel, tlb_init, TypeCpu, Labels, Stage1, Stage2, Stage3, Kernel
<1>7. CASE Stage3Step /\ ~ReadMemsize /\ ~bootflags_init /\ ~init_kernel
  BY SMT, <1>7 DEF
     Stage3Step, pif_terminate_boot, SpDma, SiWait, JumpKernel, TypeCpu, Labels,
     Stage1, Stage2, Stage3, Kernel
<1>8. CASE PiStep
  BY SMT, <1>8 DEF
     PiStep, TypeCpu, Labels, Stage1, Stage2, Stage3, Kernel
<1>9. CASE SpStep
  BY SMT, <1>9 DEF
     SpStep, TypeCpu, Labels, Stage1, Stage2, Stage3, Kernel
<1>10. CASE SiStep
  BY SMT, <1>10 DEF
     SiStep, TypeCpu, Labels, Stage1, Stage2, Stage3, Kernel
<1>11. CASE \E u \in Units : Evict(u)
  BY SMT, <1>11 DEF
     Evict, TypeCpu, Labels, Stage1, Stage2, Stage3, Kernel
<1>12. CASE UNCHANGED vars
  BY SMT, <1>12 DEF
     vars, TypeCpu, Labels, Stage1, Stage2, Stage3, Kernel
<1> QED BY Zenon, Steps, <1>1, <1>2, <1>3, <1>4, <1>5, <1>6, <1>7, <1>8, <1>9,
             <1>10, <1>11, <1>12

\* A DMA of one value to a set of units.
LEMMA DmaType ==
  \A S \in SUBSET Units, v \in Values : {<<u, v>> : u \in S} \in SUBSET (Units \X Values)
OBVIOUS

\* The types of RDRAM and the data cache.
LEMMA TypeMemStep ==
  ASSUME TypeOK, MemFound, SegmentsFit, FlagsInv, [Next]_vars
  PROVE  TypeMem'
<1> USE DEF Step, console, caches, sizes, kernel, locals
<1>a. pc # "banks" => Stack \in Units /\ LoaderUnits \subseteq Units
  BY Bounds DEF Stack, LoaderUnits
<1>b. TypeMem /\ TypeDma
  BY TypeParts
<1>c. \A f \in [Units -> Values], u \in Units, v \in Values :
           [f EXCEPT ![u] = v] \in [Units -> Values]
  OBVIOUS
<1>d. \A f \in [Units -> Values], u \in Units : f[u] \in Values
  OBVIOUS
<1>1. CASE TestBank
  BY SMT, <1>1, <1>b, Kinds DEF
     TestBank, TypeMem
<1>2. CASE rdram_bzero
  BY SMT, <1>2, <1>b, Kinds DEF
     rdram_bzero, TypeMem
<1>3. CASE ClearCache
  BY SMT, <1>3, <1>b, Kinds DEF
     ClearCache, cop0_clear_cache, TypeMem
<1>4. CASE JumpStage2
  BY SMT, <1>4, Kinds, <1>a, <1>b, <1>c, <1>d DEF
     JumpStage2, TypeMem
<1>5. CASE Stage1Step /\ ~TestBank /\ ~rdram_bzero /\ ~ClearCache /\ ~JumpStage2
  BY SMT, <1>5, <1>b DEF
     Stage1Step, rsp_bzero, Stage2Dma, FillBootinfo, TypeMem
<1>6. CASE Invalidate
  BY SMT, <1>6, Kinds, <1>a, <1>b, <1>c, <1>d DEF
     Invalidate, TypeMem
<1>7. CASE ReadHeader
  BY SMT, <1>7, Kinds, <1>a, <1>b, <1>c, <1>d DEF
     ReadHeader, TypeMem
<1>8. CASE Stage2Step /\ ~Invalidate /\ ~ReadHeader
  BY SMT, <1>8, <1>b DEF
     Stage2Step, Search, CheckElf, Loop, HeaderDma, TestHeader, SegmentLoaded,
     rcp_reset, TypeMem
<1>9. CASE Stage3Step
  BY SMT, <1>9, <1>b DEF
     Stage3Step, pif_terminate_boot, ReadMemsize, SpDma, SiWait, JumpKernel,
     bootflags_init, init_kernel, TypeMem
<1>10. CASE PiStep
  <2>1. PICK d \in pi : mem' = [mem EXCEPT ![d[1]] = d[2]]
    BY <1>10 DEF PiStep
  <2>2. d[1] \in Units /\ d[2] \in Values
    BY <1>b, <2>1 DEF TypeDma
  <2>3. mem' \in [Units -> Values]
    BY Zenon, <1>b, <1>c, <2>1, <2>2 DEF TypeMem
  <2> QED BY SMT, <1>10, <1>b, <2>3 DEF PiStep, TypeMem
<1>11. CASE SpStep
  <2>1. imem \in Values /\ mem \in [Units -> Values]
    BY Zenon, <1>b, Kinds DEF TypeDma, TypeMem
  <2>2. CASE Head(sp) = "rdram"
    BY Zenon, <1>11, <1>b, <2>1, <2>2 DEF SpStep, TypeMem
  <2>3. CASE Head(sp) # "rdram"
    BY Zenon, <1>11, <1>b, <2>1, <2>3 DEF SpStep, TypeMem
  <2> QED BY <2>2, <2>3
<1>12. CASE SiStep
  BY SMT, <1>12, <1>b DEF
     SiStep, TypeMem
<1>13. CASE \E u \in Units : Evict(u)
  BY SMT, <1>13, Kinds, <1>a, <1>b, <1>c, <1>d DEF
     Evict, TypeMem
<1>14. CASE UNCHANGED vars
  BY SMT, <1>14, <1>b DEF
     vars, TypeMem
<1> QED BY Zenon, Steps, <1>1, <1>2, <1>3, <1>4, <1>5, <1>6, <1>7, <1>8, <1>9,
             <1>10, <1>11, <1>12, <1>13, <1>14

\* The types of the RSP's memory and of the DMAs.
LEMMA TypeDmaStep ==
  ASSUME TypeOK, MemFound, SegmentsFit, FlagsInv, LoaderInv, RomInv, [Next]_vars
  PROVE  TypeDma'
<1> USE DEF Step, console, caches, sizes, kernel, locals
<1>a. pc # "banks" => Stack \in Units /\ LoaderUnits \subseteq Units
  BY Bounds DEF Stack, LoaderUnits
<1>b. TypeMem /\ TypeDma
  BY TypeParts
<1>c. \A f \in [Units -> Values], u \in Units, v \in Values :
           [f EXCEPT ![u] = v] \in [Units -> Values]
  OBVIOUS
<1>d. \A f \in [Units -> Values], u \in Units : f[u] \in Values
  OBVIOUS
<1>1. CASE rsp_bzero
  BY SMT, <1>1, <1>b, Kinds DEF
     rsp_bzero, TypeDma
<1>2. CASE Stage2Dma
  BY SMT, <1>2, Kinds, <1>a, <1>b, <1>c, <1>d DEF
     Stage2Dma, PiStart, TypeDma
<1>3. CASE FillBootinfo
  <2>1. flags \in Int /\ memsize \in Int /\ dmem \in [Words -> Int]
    BY <1>b, TypeParts DEF TypeDma, TypeRom, TypeCpu
  <2>2. dmem' \in [Words -> Int]
    <3>1. \A f \in [Words -> Int], w \in Words, n \in Int :
           [f EXCEPT ![w] = n] \in [Words -> Int]
      OBVIOUS
    <3>2. dmem' = [[[[dmem EXCEPT ![0] = memsize] EXCEPT ![1] = RandomSeed]
                     EXCEPT ![2] = flags] EXCEPT ![3] = 0]
      BY SMT, <1>3 DEF FillBootinfo
    <3>3. RandomSeed \in Int /\ 0 \in Int
      BY SMT DEF RandomSeed
    <3> QED BY Zenon, <2>1, <3>1, <3>2, <3>3, Kinds
  <2> QED BY SMT, <1>3, <1>b, <2>2 DEF FillBootinfo, TypeDma
<1>4. CASE Stage1Step /\ ~rsp_bzero /\ ~Stage2Dma /\ ~FillBootinfo
  BY SMT, <1>4, <1>b DEF
     Stage1Step, TestBank, rdram_bzero, ClearCache, JumpStage2, TypeDma
<1>5. CASE Search
  <2>1. rom.elf \in Int /\ dmem \in [Words -> Int]
    BY <1>b, TypeParts DEF TypeDma, TypeRom, Rom
  <2>2. dmem' \in [Words -> Int]
    BY SMT, <1>5, <2>1 DEF Search
  <2> QED BY SMT, <1>5, <1>b, <2>2 DEF Search, TypeDma
<1>6. CASE HeaderDma
  <2>1. Header(i) \in Values /\ Stack \in Units
    BY Zenon, <1>6, <1>a, TypeParts, Kinds DEF HeaderDma, TypeCpu
  <2>2. pi' \in SUBSET (Units \X Values)
    BY Zenon, <1>6, <2>1, DmaType DEF HeaderDma, PiStart
  <2> QED BY SMT, <1>6, <1>b, <2>2 DEF HeaderDma, TypeDma
<1>7. CASE TestHeader
  <2>1. i \in 1..Len(rom.phdrs) /\ hdr = Header(i) /\ hdr[2] = i /\ pc = "test" /\ i \in Nat
    BY <1>7, Kinds, TypeParts DEF TestHeader, LoaderInv, RomInv, TypeCpu
  <2>2. ASSUME ~Ignored PROVE SegmentUnits(Seen) \subseteq Units
    <3>1. Seen.load /\ Seen.vaddr + Seen.size <= memsize - Reserved
      BY <2>1, <2>2, Bounds DEF Ignored, Seen
    <3>2. Seen \in Phdr
      BY <2>1, TypeParts DEF TypeRom, Rom, Seen
    <3> QED BY <2>1, <3>1, <3>2, Bounds DEF SegmentUnits, Phdr
  <2>3. Segment(hdr[2]) \in Values
    BY <2>1, Kinds
  <2>4. pi' \in SUBSET (Units \X Values)
    BY Zenon, <1>7, <2>2, <2>3, DmaType DEF TestHeader, PiStart
  <2> QED BY SMT, <1>7, <1>b, <2>4 DEF TestHeader, TypeDma
<1>8. CASE Stage2Step /\ ~Search /\ ~HeaderDma /\ ~TestHeader
  BY SMT, <1>8, <1>b DEF
     Stage2Step, CheckElf, Loop, Invalidate, ReadHeader, SegmentLoaded, rcp_reset,
     TypeDma
<1>9. CASE SpDma
  <2>1. sp \in Seq(SpDmas) /\ {"rdram", "dmem"} \subseteq SpDmas /\ Len(sp) < 2
    BY <1>9, <1>b DEF SpDma, TypeDma, SpDmas
  <2>2. sp' \in Seq(SpDmas) /\ Len(sp') <= 2
    BY <1>9, <2>1 DEF SpDma
  <2> QED BY SMT, <1>9, <1>b, <2>2 DEF SpDma, TypeDma
<1>10. CASE Stage3Step /\ ~SpDma
  BY SMT, <1>10, <1>b DEF
     Stage3Step, pif_terminate_boot, ReadMemsize, SiWait, JumpKernel,
     bootflags_init, init_kernel, TypeDma
<1>11. CASE PiStep
  BY SMT, <1>11, <1>b DEF
     PiStep, TypeDma
<1>12. CASE SpStep
  BY SMT, <1>12, <1>b DEF
     SpStep, TypeDma
<1>13. CASE SiStep
  BY SMT, <1>13, <1>b DEF
     SiStep, TypeDma
<1>14. CASE \E u \in Units : Evict(u)
  BY SMT, <1>14, <1>b DEF
     Evict, TypeDma
<1>15. CASE UNCHANGED vars
  BY SMT, <1>15, <1>b DEF
     vars, TypeDma
<1> QED BY Zenon, Steps, <1>1, <1>2, <1>3, <1>4, <1>5, <1>6, <1>7, <1>8, <1>9,
             <1>10, <1>11, <1>12, <1>13, <1>14, <1>15

\* The types of the rest.
LEMMA TypeRcpStep ==
  ASSUME TypeRcp, [Next]_vars
  PROVE  TypeRcp'
<1> USE DEF Step, console, caches, sizes, kernel, locals
<1>1. CASE ClearCache
  BY SMT, <1>1 DEF
     ClearCache, cop0_clear_cache, TypeRcp
<1>2. CASE Stage1Step /\ ~ClearCache
  BY SMT, <1>2 DEF
     Stage1Step, TestBank, rsp_bzero, rdram_bzero, Stage2Dma, FillBootinfo,
     JumpStage2, TypeRcp
<1>3. CASE Stage2Step
  BY SMT, <1>3 DEF
     Stage2Step, Search, CheckElf, Loop, Invalidate, HeaderDma, ReadHeader,
     TestHeader, SegmentLoaded, rcp_reset, TypeRcp
<1>4. CASE Stage3Step
  BY SMT, <1>4 DEF
     Stage3Step, pif_terminate_boot, ReadMemsize, SpDma, SiWait, JumpKernel,
     bootflags_init, init_kernel, TypeRcp
<1>5. CASE PiStep
  BY SMT, <1>5 DEF
     PiStep, RcpIntr, TypeRcp
<1>6. CASE SpStep
  BY SMT, <1>6 DEF
     SpStep, TypeRcp
<1>7. CASE SiStep
  <2>1. pif' \in BOOLEAN
    BY Zenon, <1>7 DEF SiStep
  <2> QED BY SMT, <2>1, <1>7 DEF SiStep, TypeRcp, RcpIntr
<1>8. CASE \E u \in Units : Evict(u)
  BY SMT, <1>8 DEF
     Evict, TypeRcp
<1>9. CASE UNCHANGED vars
  BY SMT, <1>9 DEF
     vars, TypeRcp
<1> QED BY Zenon, Steps, <1>1, <1>2, <1>3, <1>4, <1>5, <1>6, <1>7, <1>8, <1>9

\* stage2 gets past the ELF header and each program header only if they are good.
LEMMA RomStep ==
  ASSUME TypeOK, LoaderInv, RomInv, [Next]_vars
  PROVE  RomInv'
<1> USE DEF Step, console, caches, sizes, kernel, locals
<1>a. /\ rom' = rom /\ i \in Nat /\ rom.phdrs \in Seq(Phdr) /\ Len(rom.phdrs) \in Nat
      /\ rom.is64 \in BOOLEAN /\ rom.little \in BOOLEAN
      /\ \A k \in 1..Len(rom.phdrs) :
           /\ rom.phdrs[k].load \in BOOLEAN /\ rom.phdrs[k].aligned \in BOOLEAN
           /\ rom.phdrs[k].size \in Nat
  <2>1. rom' = rom
    BY ConsoleStays DEF console
  <2>2. rom \in Rom /\ i \in Nat
    BY DEF TypeOK
  <2>3. rom.phdrs \in Seq(Phdr) /\ rom.is64 \in BOOLEAN /\ rom.little \in BOOLEAN
    BY Zenon, <2>2 DEF Rom
  <2>4. Len(rom.phdrs) \in Nat /\ \A k \in 1..Len(rom.phdrs) : rom.phdrs[k] \in Phdr
    BY SMT, <2>3
  <2>5. \A s \in Phdr : s.load \in BOOLEAN /\ s.aligned \in BOOLEAN /\ s.size \in Nat
    BY Zenon DEF Phdr
  <2> QED BY Zenon, <2>1, <2>2, <2>3, <2>4, <2>5
<1>1. CASE Stage1Step
  BY SMT, <1>1, <1>a DEF
     Stage1Step, TestBank, rsp_bzero, rdram_bzero, Stage2Dma, ClearCache,
     FillBootinfo, JumpStage2, RomInv, Stage1, Stage2, Stage3, Kernel, Before,
     Loads, Bootable
<1>2. CASE Search
  BY SMT, <1>2, <1>a DEF
     Search, RomInv, Stage1, Stage2, Stage3, Kernel, Before, Loads, Bootable
<1>3. CASE CheckElf
  BY SMT, <1>3, <1>a DEF
     CheckElf, RomInv, Stage1, Stage2, Stage3, Kernel, Before, Loads, Bootable
<1>4. CASE Loop
  BY SMT, <1>4, <1>a DEF
     Loop, RomInv, Stage1, Stage2, Stage3, Kernel, Before, Loads, Bootable
<1>5. CASE TestHeader
  <2>1. i \in 1..Len(rom.phdrs) /\ hdr[2] = i /\ pc = "test" /\ Seen = rom.phdrs[i]
    BY <1>5, <1>a, Kinds DEF TestHeader, LoaderInv, RomInv, Seen
  <2>2. CASE Ignored
    <3>1. pc' = "loop" /\ i' = i + 1 /\ ~Loads(i)
      BY <1>5, <2>1, <2>2 DEF TestHeader, Ignored, Loads
    <3>2. Before((i + 1) - 1)
      BY SMT, <1>a, <2>1, <3>1 DEF RomInv, Before
    <3> QED BY SMT, <1>a, <2>1, <3>1, <3>2
       DEF RomInv, Before, Loads, Stage1, Stage2, Stage3, Kernel
  <2>3. CASE ~Ignored /\ Seen.aligned
    <3>1. pc' = "load" /\ i' = i /\ Loads(i)
      <4>1. pc' = "load" /\ i' = i
        BY SMT, <1>5, <2>3 DEF TestHeader
      <4>2. Loads(i)
        BY <1>a, <2>1, <2>3 DEF Ignored, Loads
      <4> QED BY <4>1, <4>2
    <3> QED BY SMT, <1>a, <2>1, <2>3, <3>1
       DEF RomInv, Before, Loads, Stage1, Stage2, Stage3, Kernel
  <2>4. CASE ~Ignored /\ ~Seen.aligned
    <3>1. pc' = "abort" /\ i' = i /\ Loads(i)
      <4>1. pc' = "abort" /\ i' = i
        BY SMT, <1>5, <2>4 DEF TestHeader
      <4>2. Loads(i)
        BY <1>a, <2>1, <2>4 DEF Ignored, Loads
      <4> QED BY <4>1, <4>2
    <3>2. ~Bootable
      BY <2>1, <2>4, <3>1 DEF Bootable
    <3> QED BY SMT, <1>a, <2>1, <3>1, <3>2
       DEF RomInv, Bootable, Loads, Stage1, Stage2, Stage3, Kernel
  <2> QED BY Zenon, <2>2, <2>3, <2>4
<1>6. CASE SegmentLoaded
  BY SMT, <1>6, <1>a DEF
     SegmentLoaded, RomInv, Stage1, Stage2, Stage3, Kernel, Before, Loads, Bootable
<1>7. CASE Stage2Step /\ ~Search /\ ~CheckElf /\ ~Loop /\ ~TestHeader /\ ~SegmentLoaded
  BY SMT, <1>7, <1>a DEF
     Stage2Step, Invalidate, HeaderDma, ReadHeader, rcp_reset, RomInv, Stage1,
     Stage2, Stage3, Kernel, Before, Loads, Bootable
<1>8. CASE Stage3Step
  BY SMT, <1>8, <1>a DEF
     Stage3Step, pif_terminate_boot, ReadMemsize, SpDma, SiWait, JumpKernel,
     bootflags_init, init_kernel, RomInv, Stage1, Stage2, Stage3, Kernel, Before,
     Loads, Bootable
<1>9. CASE PiStep
  BY SMT, <1>9, <1>a DEF
     PiStep, RomInv, Stage1, Stage2, Stage3, Kernel, Before, Loads, Bootable
<1>10. CASE SpStep
  BY SMT, <1>10, <1>a DEF
     SpStep, RomInv, Stage1, Stage2, Stage3, Kernel, Before, Loads, Bootable
<1>11. CASE SiStep
  BY SMT, <1>11, <1>a DEF
     SiStep, RomInv, Stage1, Stage2, Stage3, Kernel, Before, Loads, Bootable
<1>12. CASE \E u \in Units : Evict(u)
  BY SMT, <1>12, <1>a DEF
     Evict, RomInv, Stage1, Stage2, Stage3, Kernel, Before, Loads, Bootable
<1>13. CASE UNCHANGED vars
  BY SMT, <1>13, <1>a DEF
     vars, RomInv, Stage1, Stage2, Stage3, Kernel, Before, Loads, Bootable
<1> QED BY Zenon, Steps, <1>1, <1>2, <1>3, <1>4, <1>5, <1>6, <1>7, <1>8, <1>9,
             <1>10, <1>11, <1>12, <1>13

\* Neither a DMA nor an evicted line writes over the loader.
LEMMA LoaderStep ==
  ASSUME TypeOK, MemFound, SegmentsFit, SpInv, PiInv, CacheInv, RomInv, LoaderInv, [Next]_vars
  PROVE  LoaderInv'
<1> USE DEF Step, console, caches, sizes, kernel, locals
<1>a. pc # "banks" =>
        /\ memsize \in Nat /\ Loader < Reserved /\ Loader \in Nat \ {0} /\ Reserved \in Nat
        /\ LoaderUnits \subseteq Units /\ Stack \in Units /\ Stack \notin LoaderUnits
  BY Bounds DEF Stack, LoaderUnits
<1>b. /\ mem \in [Units -> Values] /\ dcache \in [Units -> Values]
      /\ pi \in SUBSET (Units \X Values) /\ i \in Nat
  BY DEF TypeOK
<1>c. pc = "load" => \A u \in SegmentUnits(rom.phdrs[i]) : u \in 0..(memsize - Reserved - 1)
  <2> SUFFICES ASSUME pc = "load"
             PROVE  \A u \in SegmentUnits(rom.phdrs[i]) : u \in 0..(memsize - Reserved - 1)
    OBVIOUS
  <2>1. i \in 1..Len(rom.phdrs) /\ rom.phdrs[i].load
    BY DEF RomInv, Loads
  <2>2. rom.phdrs[i] \in Phdr
    BY <2>1 DEF TypeOK, Rom
  <2>3. rom.phdrs[i].vaddr \in Nat /\ rom.phdrs[i].size \in Nat
    BY <2>2 DEF Phdr
  <2>4. rom.phdrs[i].vaddr + rom.phdrs[i].size <= memsize - Reserved
    BY Bounds, <2>1
  <2> QED BY <1>a, <2>3, <2>4 DEF SegmentUnits
<1>1. CASE Stage2Dma
  BY SMT, <1>1, <1>a, <1>b DEF
     Stage2Dma, PiStart, LoaderInv, LoaderUnits, Stack, Stage1, Stage2, Stage3
<1>2. CASE JumpStage2
  BY SMT, <1>2, <1>a, <1>b DEF
     JumpStage2, LoaderInv, LoaderUnits, Stack, Stage1, Stage2, Stage3
<1>3. CASE Stage1Step /\ ~Stage2Dma /\ ~JumpStage2
  BY SMT, <1>3, <1>a DEF
     Stage1Step, TestBank, rsp_bzero, rdram_bzero, ClearCache, FillBootinfo,
     LoaderInv, LoaderUnits, Stack, Stage1, Stage2, Stage3
<1>4. CASE Invalidate
  BY SMT, <1>4, <1>a, <1>b DEF
     Invalidate, LoaderInv, LoaderUnits, Stack, Stage1, Stage2, Stage3
<1>5. CASE HeaderDma
  BY SMT, <1>5, <1>a, <1>b DEF
     HeaderDma, PiStart, LoaderInv, LoaderUnits, Stack, Stage1, Stage2, Stage3
<1>6. CASE ReadHeader
  BY SMT, <1>6, <1>a, <1>b DEF
     ReadHeader, CacheInv, PiInv, LoaderInv, LoaderUnits, Stack, Stage1, Stage2,
     Stage3
<1>7. CASE TestHeader
  BY SMT, <1>7, <1>a, <1>b DEF
     TestHeader, PiStart, LoaderInv, LoaderUnits, Stack, Stage1, Stage2, Stage3
<1>8. CASE Stage2Step /\ ~Invalidate /\ ~HeaderDma /\ ~ReadHeader /\ ~TestHeader
  BY SMT, <1>8, <1>a DEF
     Stage2Step, Search, CheckElf, Loop, SegmentLoaded, rcp_reset, LoaderInv,
     LoaderUnits, Stack, Stage1, Stage2, Stage3
<1>9. CASE Stage3Step
  BY SMTT(30), <1>9, <1>a DEF
     Stage3Step, pif_terminate_boot, ReadMemsize, SpDma, SiWait, JumpKernel,
     bootflags_init, init_kernel, LoaderInv, LoaderUnits, Stack, Stage1, Stage2,
     Stage3
<1>10. CASE PiStep
  <2>1. PICK d \in pi : mem' = [mem EXCEPT ![d[1]] = d[2]] /\ pi' = pi \ {d}
    BY <1>10 DEF PiStep
  <2>2. d \in Units \X Values /\ d = <<d[1], d[2]>> /\ d[1] \in Units
    BY <1>b, <2>1
  <2>3. \A u \in Units : mem'[u] = IF u = d[1] THEN d[2] ELSE mem[u]
    BY <1>b, <2>1, <2>2
  <2>4. \A x \in pi : x = d \/ x \in pi'
    BY <2>1
  <2>5. UNCHANGED <<pc, memsize, i, hdr>>
    BY <1>10 DEF PiStep
  <2>6. CASE pc \in {"cache", "bootinfo", "wait"}
    BY SMT, <1>a, <2>1, <2>2, <2>3, <2>4, <2>5, <2>6
       DEF PiInv, LoaderInv, LoaderUnits, Stage2
  <2>7. CASE pc = "read"
    BY SMT, <1>a, <2>1, <2>2, <2>3, <2>4, <2>5, <2>7
       DEF PiInv, LoaderInv, LoaderUnits, Stack, Stage2
  <2>8. CASE pc = "load"
    BY SMT, <1>a, <1>c, <2>1, <2>2, <2>3, <2>4, <2>5, <2>8
       DEF PiInv, LoaderInv, LoaderUnits, Stack, Stage2
  <2>9. CASE pc \notin {"cache", "bootinfo", "wait", "read", "load"}
    BY <2>1, <2>9 DEF PiInv
  <2> QED BY Zenon, <2>6, <2>7, <2>8, <2>9
<1>11. CASE SpStep
  BY SMT, <1>11, <1>a, <1>b DEF
     SpStep, SpInv, LoaderInv, LoaderUnits, Stack, Stage1, Stage2, Stage3
<1>12. CASE SiStep
  BY SMT, <1>12, <1>a DEF
     SiStep, LoaderInv, LoaderUnits, Stack, Stage1, Stage2, Stage3
<1>13. CASE \E u \in Units : Evict(u)
  BY SMT, <1>13, <1>a, <1>b DEF
     Evict, CacheInv, LoaderInv, LoaderUnits, Stack, Stage1, Stage2, Stage3
<1>14. CASE UNCHANGED vars
  BY SMT, <1>14, <1>a DEF
     vars, LoaderInv, LoaderUnits, Stack, Stage1, Stage2, Stage3
<1> QED BY Zenon, Steps, <1>1, <1>2, <1>3, <1>4, <1>5, <1>6, <1>7, <1>8, <1>9,
             <1>10, <1>11, <1>12, <1>13, <1>14

\* The boot information is there until the SP clears what lies behind it.
LEMMA FlagsStep ==
  ASSUME TypeOK, SpInv, FlagsInv, [Next]_vars
  PROVE  FlagsInv'
<1> USE DEF Step, console, caches, sizes, kernel, locals
<1>b. /\ dmem \in [Words -> Int] /\ memsize \in Nat /\ rom.elf \in Nat /\ sp \in Seq(SpDmas)
  BY DEF TypeOK, Rom
<1>1. CASE FillBootinfo
  BY SMT, <1>1, <1>b DEF
     FillBootinfo, Words, FlagsInv, Stage2, Stage3, Kernel
<1>2. CASE Stage1Step /\ ~FillBootinfo
  BY SMT, <1>2, <1>b DEF
     Stage1Step, TestBank, rsp_bzero, rdram_bzero, Stage2Dma, ClearCache,
     JumpStage2, FlagsInv, Stage2, Stage3, Kernel
<1>3. CASE Search
  <2>1. dmem'[0] = dmem[0] /\ pc = "search" /\ pc' \in {"check", "abort"} /\ memsize' = memsize
    <3>1. pc = "search" /\ pc' \in {"check", "abort"} /\ memsize' = memsize
      BY SMT, <1>3 DEF Search
    <3>2. dmem' = dmem \/ dmem' = [dmem EXCEPT ![3] = 16 + rom.elf]
      BY SMT, <1>3 DEF Search
    <3>3. dmem'[0] = dmem[0]
      <4>1. \A f \in [Words -> Int] : \A n : [f EXCEPT ![3] = n][0] = f[0]
        BY SMT DEF Words
      <4> QED BY Zenon, <1>b, <3>2, <4>1
    <3> QED BY <3>1, <3>3
  <2> QED BY SMT, <2>1 DEF FlagsInv, Stage2, Stage3, Kernel
<1>4. CASE Stage2Step /\ ~Search
  BY SMT, <1>4, <1>b DEF
     Stage2Step, CheckElf, Loop, Invalidate, HeaderDma, ReadHeader, TestHeader,
     SegmentLoaded, rcp_reset, FlagsInv, Stage2, Stage3, Kernel
<1>5. CASE SpDma
  BY SMT, <1>5, <1>b DEF
     SpDma, FlagsInv, Stage2, Stage3, Kernel
<1>6. CASE JumpKernel
  BY SMT, <1>6, <1>b DEF
     JumpKernel, SpInv, FlagsInv, Stage2, Stage3, Kernel
<1>7. CASE bootflags_init
  BY SMT, <1>7, <1>b DEF
     bootflags_init, SpInv, FlagsInv, Stage2, Stage3, Kernel
<1>8. CASE init_kernel
  BY SMT, <1>8, <1>b DEF
     init_kernel, tlb_init, FlagsInv, Stage2, Stage3, Kernel
<1>9. CASE Stage3Step /\ ~SpDma /\ ~JumpKernel /\ ~bootflags_init /\ ~init_kernel
  BY SMT, <1>9, <1>b DEF
     Stage3Step, pif_terminate_boot, ReadMemsize, SiWait, FlagsInv, Stage2, Stage3,
     Kernel
<1>10. CASE PiStep
  BY SMT, <1>10, <1>b DEF
     PiStep, FlagsInv, Stage2, Stage3, Kernel
<1>11. CASE SpStep
  <2>1. sp # <<>> /\ sp' = Tail(sp) /\ UNCHANGED <<pc, memsize, boot, tlb>>
    BY <1>11 DEF SpStep
  <2>2. Head(sp) = sp[1] /\ (sp' = <<>> => Len(sp) = 1)
    BY Zenon, <1>b, <2>1, Tails
  <2>3. dmem'[0] = dmem[0] /\ (Head(sp) = "dmem" => \A w \in 4..11 : dmem'[w] = 0)
    BY <1>11, <1>b DEF SpStep, Words
  <2> QED BY SMT, <2>1, <2>2, <2>3 DEF FlagsInv, SpInv, Stage2, Stage3, Kernel
<1>12. CASE SiStep
  BY SMT, <1>12, <1>b DEF
     SiStep, FlagsInv, Stage2, Stage3, Kernel
<1>13. CASE \E u \in Units : Evict(u)
  BY SMT, <1>13, <1>b DEF
     Evict, FlagsInv, Stage2, Stage3, Kernel
<1>14. CASE UNCHANGED vars
  BY SMT, <1>14, <1>b DEF
     vars, FlagsInv, Stage2, Stage3, Kernel
<1> QED BY Zenon, Steps, <1>1, <1>2, <1>3, <1>4, <1>5, <1>6, <1>7, <1>8, <1>9,
             <1>10, <1>11, <1>12, <1>13, <1>14

\* The reserved part is zero once the SP has cleared it.
LEMMA SpareStays ==
  ASSUME TypeOK, MemFound, SegmentsFit, SpInv, PiInv, FlagsInv, SpareInv, [Next]_vars
  PROVE  SpareInv'
<1> USE DEF Step, console, caches, sizes, kernel, locals
<1>a. sp \in Seq(SpDmas)
  BY DEF TypeOK
<1>1. CASE Stage1Step
  BY SMT, <1>1 DEF
     Stage1Step, TestBank, rsp_bzero, rdram_bzero, Stage2Dma, ClearCache,
     FillBootinfo, JumpStage2, SpareInv, Kernel
<1>2. CASE Stage2Step
  BY SMT, <1>2 DEF
     Stage2Step, Search, CheckElf, Loop, Invalidate, HeaderDma, ReadHeader,
     TestHeader, SegmentLoaded, rcp_reset, SpareInv, Kernel
<1>3. CASE ReadMemsize
  BY SMT, <1>3 DEF
     ReadMemsize, SpInv, SpareInv, Kernel
<1>4. CASE SpDma
  BY SMT, <1>4, <1>a DEF
     SpDma, SpInv, SpareInv, Kernel
<1>5. CASE Stage3Step /\ ~ReadMemsize /\ ~SpDma
  BY SMT, <1>5 DEF
     Stage3Step, pif_terminate_boot, SiWait, JumpKernel, bootflags_init,
     init_kernel, SpareInv, Kernel
<1>6. CASE PiStep
  BY SMT, <1>6 DEF
     PiStep, PiInv, SpareInv, Kernel
<1>7. CASE SpStep
  <2>1. /\ sp # <<>> /\ sp' = Tail(sp) /\ pc' = pc /\ memsize' = memsize
        /\ mem' = IF Head(sp) = "rdram"
                     THEN [u \in Units |-> IF u \in (memsize - Reserved)..(memsize - 1)
                                             THEN imem ELSE mem[u]]
                     ELSE mem
    BY <1>7 DEF SpStep
  <2>2. Head(sp) = sp[1]
    BY Zenon, <1>a, <2>1, Tails
  <2> SUFFICES ASSUME (pc \in {"sp_dmem", "si_wait", "sp_wait"} \cup Kernel)'
               PROVE  (\A u \in (memsize - Reserved)..(memsize - 1) : mem[u] = Zero)'
    BY DEF SpareInv
  <2>3. pc \in {"sp_dmem", "si_wait", "sp_wait"} \cup Kernel
    BY <2>1
  <2>4. imem = Zero /\ sp[1] \in {"rdram", "dmem"}
    BY SMT, <2>1, <2>3 DEF SpInv, Kernel
  <2>5. (memsize - Reserved)..(memsize - 1) \subseteq Units
    BY <2>3, Bounds DEF Kernel
  <2>6. CASE sp[1] = "rdram"
    BY SMT, <2>1, <2>2, <2>4, <2>5, <2>6
  <2>7. CASE sp[1] = "dmem"
    BY SMT, <2>1, <2>2, <2>3, <2>7 DEF SpareInv
  <2> QED BY <2>4, <2>6, <2>7
<1>8. CASE SiStep
  BY SMT, <1>8 DEF
     SiStep, SpareInv, Kernel
<1>9. CASE \E u \in Units : Evict(u)
  BY SMT, <1>9 DEF
     Evict, Stage2, SpareInv, Kernel
<1>10. CASE UNCHANGED vars
  BY SMT, <1>10 DEF
     vars, SpareInv, Kernel
<1> QED BY Zenon, Steps, <1>1, <1>2, <1>3, <1>4, <1>5, <1>6, <1>7, <1>8, <1>9,
             <1>10

\* Memory that is the same below the loader is as good.
LEMMA SameImage ==
  ASSUME NEW m, NEW m2, NEW r, NEW sz, NEW n, Image(m, r, sz, n),
         \A u \in 0..(sz - Reserved - 1) : m2[u] = m[u]
  PROVE  Image(m2, r, sz, n)
BY DEF Image, Unit

\* Below the reserved part, RDRAM changes only in stage1's loops and while a segment
\* is loaded.
LEMMA LowerStays ==
  ASSUME TypeOK, MemFound, SegmentsFit, SpInv, PiInv, CacheInv,
         pc \notin {"banks", "rsp_bzero", "bzero"}, pc = "load" => pi' = pi, [Next]_vars
  PROVE  \A u \in 0..(memsize - Reserved - 1) : mem'[u] = mem[u]
<1> USE DEF Step, console, caches, sizes, kernel, locals
<1>a. /\ mem \in [Units -> Values] /\ memsize \in Nat /\ Loader < Reserved
      /\ Loader \in Nat \ {0} /\ Reserved \in Nat /\ Stack \in Units
      /\ 0..(memsize - Reserved - 1) \subseteq Units
      /\ Stack \notin 0..(memsize - Reserved - 1)
  <2>1. mem \in [Units -> Values]
    BY DEF TypeOK
  <2>2. pc # "banks"
    OBVIOUS
  <2> QED BY <2>1, <2>2, Bounds DEF Stack
<1>1. CASE Stage1Step
  BY SMT, <1>1 DEF
     Stage1Step, TestBank, rsp_bzero, rdram_bzero, Stage2Dma, ClearCache,
     FillBootinfo, JumpStage2
<1>2. CASE Invalidate
  BY SMT, <1>2, <1>a DEF
     Invalidate
<1>3. CASE Stage2Step /\ ~Invalidate
  BY SMT, <1>3 DEF
     Stage2Step, Search, CheckElf, Loop, HeaderDma, ReadHeader, TestHeader,
     SegmentLoaded, rcp_reset
<1>4. CASE Stage3Step
  BY SMT, <1>4 DEF
     Stage3Step, pif_terminate_boot, ReadMemsize, SpDma, SiWait, JumpKernel,
     bootflags_init, init_kernel
<1>5. CASE PiStep
  <2>1. PICK d \in pi : mem' = [mem EXCEPT ![d[1]] = d[2]] /\ pi' = pi \ {d}
    BY <1>5 DEF PiStep
  <2>2. pc \in {"cache", "bootinfo", "wait", "read"}
    BY <2>1 DEF PiInv
  <2>3. d[1] \notin 0..(memsize - Reserved - 1)
    BY SMT, <1>a, <2>1, <2>2 DEF PiInv, LoaderUnits, Stack
  <2> QED BY <1>a, <2>1, <2>3
<1>6. CASE SpStep
  BY SMT, <1>6, <1>a DEF
     SpStep, SpInv
<1>7. CASE SiStep
  BY SMT, <1>7 DEF
     SiStep
<1>8. CASE \E u \in Units : Evict(u)
  BY SMT, <1>8, <1>a DEF
     Evict, CacheInv, Stage2
<1>9. CASE UNCHANGED vars
  BY SMT, <1>9 DEF
     vars
<1> QED BY Zenon, Steps, <1>1, <1>2, <1>3, <1>4, <1>5, <1>6, <1>7, <1>8, <1>9

\* Elsewhere the number of segments that have been dealt with stays.
LEMMA DoneStays ==
  ASSUME TypeOK, FlagsInv, RomInv,
         ~TestHeader, ~SegmentLoaded, ~rdram_bzero,
         pc \notin {"banks", "rsp_bzero"}, pc' # "abort", [Next]_vars
  PROVE  UNCHANGED <<rom, memsize>> /\ Done' = Done
<1> USE DEF Step, console, caches, sizes, kernel, locals
<1>a. Len(rom.phdrs) \in Nat
  BY DEF TypeOK, Rom
<1>1. CASE Stage1Step
  BY SMT, <1>1 DEF
     Stage1Step, TestBank, rsp_bzero, rdram_bzero, Stage2Dma, ClearCache,
     FillBootinfo, JumpStage2, Done, Stage1, Stage2, Stage3, Kernel
<1>2. CASE Loop
  BY SMT, <1>2, <1>a DEF
     Loop, RomInv, Done, Stage1, Stage2, Stage3, Kernel
<1>3. CASE Stage2Step /\ ~Loop
  BY SMT, <1>3 DEF
     Stage2Step, Search, CheckElf, Invalidate, HeaderDma, ReadHeader, TestHeader,
     SegmentLoaded, rcp_reset, Done, Stage1, Stage2, Stage3, Kernel
<1>4. CASE ReadMemsize
  BY SMT, <1>4 DEF
     ReadMemsize, FlagsInv, Done, Stage1, Stage2, Stage3, Kernel
<1>5. CASE Stage3Step /\ ~ReadMemsize
  BY SMT, <1>5 DEF
     Stage3Step, pif_terminate_boot, SpDma, SiWait, JumpKernel, bootflags_init,
     init_kernel, Done, Stage1, Stage2, Stage3, Kernel
<1>6. CASE PiStep
  BY SMT, <1>6 DEF
     PiStep, Done, Stage1, Stage2, Stage3, Kernel
<1>7. CASE SpStep
  BY SMT, <1>7 DEF
     SpStep, Done, Stage1, Stage2, Stage3, Kernel
<1>8. CASE SiStep
  BY SMT, <1>8 DEF
     SiStep, Done, Stage1, Stage2, Stage3, Kernel
<1>9. CASE \E u \in Units : Evict(u)
  BY SMT, <1>9 DEF
     Evict, Done, Stage1, Stage2, Stage3, Kernel
<1>10. CASE UNCHANGED vars
  BY SMT, <1>10 DEF
     vars, Done, Stage1, Stage2, Stage3, Kernel
<1> QED BY Zenon, Steps, <1>1, <1>2, <1>3, <1>4, <1>5, <1>6, <1>7, <1>8, <1>9,
             <1>10

\* The places around those where the image changes.
LEMMA Moves ==
  ASSUME [Next]_vars
  PROVE  /\ pc \in {"banks", "rsp_bzero"} => pc' \in {"banks", "rsp_bzero", "bzero"}
         /\ pc = "bzero" /\ ~rdram_bzero => pc' = "bzero"
         /\ pc = "abort" => pc' = "abort"
         /\ pc' = "load" => pc = "load" \/ TestHeader
         /\ pc = "load" /\ ~SegmentLoaded =>
              /\ pc' = "load" /\ i' = i /\ memsize' = memsize
              /\ pi' = pi \/ PiStep
<1> USE DEF Step, console, caches, sizes, kernel, locals
<1>1. CASE Stage1Step
  BY SMT, <1>1 DEF
     Stage1Step, TestBank, rsp_bzero, rdram_bzero, Stage2Dma, ClearCache,
     FillBootinfo, JumpStage2
<1>2. CASE Stage2Step
  BY SMT, <1>2 DEF
     Stage2Step, Search, CheckElf, Loop, Invalidate, HeaderDma, ReadHeader,
     TestHeader, SegmentLoaded, rcp_reset
<1>3. CASE Stage3Step
  BY SMT, <1>3 DEF
     Stage3Step, pif_terminate_boot, ReadMemsize, SpDma, SiWait, JumpKernel,
     bootflags_init, init_kernel
<1>4. CASE PiStep
  <2>1. pc' = pc /\ i' = i /\ memsize' = memsize
    BY <1>4 DEF PiStep
  <2> QED BY Zenon, <1>4, <2>1
<1>5. CASE SpStep
  BY SMT, <1>5 DEF
     SpStep
<1>6. CASE SiStep
  BY SMT, <1>6 DEF
     SiStep
<1>7. CASE \E u \in Units : Evict(u)
  BY SMT, <1>7 DEF
     Evict
<1>8. CASE UNCHANGED vars
  BY SMT, <1>8 DEF
     vars
<1> QED BY Zenon, Steps, <1>1, <1>2, <1>3, <1>4, <1>5, <1>6, <1>7, <1>8

\* One segment more.
LEMMA NextUnit ==
  ASSUME NEW m, NEW r, NEW sz, NEW n \in Nat \ {0}, NEW u
  PROVE  /\ m[u] = Segment(n) /\ Writes(r, n, u) => Unit(m, r, sz, n, u)
         /\ Unit(m, r, sz, n - 1, u) /\ ~Writes(r, n, u) => Unit(m, r, sz, n, u)
<1>1. ASSUME m[u] = Segment(n), Writes(r, n, u) PROVE Unit(m, r, sz, n, u)
  <2>1. n \in 1..n /\ \A j \in (n + 1)..n : ~Writes(r, j, u)
    OBVIOUS
  <2> QED BY Zenon, <1>1, <2>1 DEF Unit
<1>2. ASSUME Unit(m, r, sz, n - 1, u), ~Writes(r, n, u) PROVE Unit(m, r, sz, n, u)
  <2>1. CASE \E k \in 1..(n - 1) : /\ Writes(r, k, u) /\ m[u] = Segment(k)
                                   /\ \A j \in (k + 1)..(n - 1) : ~Writes(r, j, u)
    <3>1. PICK k \in 1..(n - 1) : /\ Writes(r, k, u) /\ m[u] = Segment(k)
                                  /\ \A j \in (k + 1)..(n - 1) : ~Writes(r, j, u)
      BY <2>1
    <3>2. k \in 1..n /\ \A j \in (k + 1)..n : j \in (k + 1)..(n - 1) \/ j = n
      OBVIOUS
    <3>3. \A j \in (k + 1)..n : ~Writes(r, j, u)
      BY Zenon, <1>2, <3>1, <3>2
    <3> QED BY Zenon, <3>1, <3>2, <3>3 DEF Unit
  <2>2. CASE /\ \A k \in 1..(n - 1) : ~Writes(r, k, u)
             /\ m[u] = Zero \/ u < Skip \/ u = sz - Reserved - 1
    <3>1. \A k \in 1..n : k \in 1..(n - 1) \/ k = n
      OBVIOUS
    <3>2. \A k \in 1..n : ~Writes(r, k, u)
      BY Zenon, <1>2, <2>2, <3>1
    <3> QED BY Zenon, <2>2, <3>2 DEF Unit
  <2> QED BY Zenon, <1>2, <2>1, <2>2 DEF Unit
<1> QED BY <1>1, <1>2

\* RDRAM is cleared once, and then each segment adds itself to the image.
LEMMA ImageStep ==
  ASSUME TypeOK, MemFound, SegmentsFit, SpInv, PiInv, CacheInv, RomInv, LoaderInv,
         FlagsInv, ImageInv, [Next]_vars
  PROVE  ImageInv'
<1> DEFINE Lower == 0..(memsize - Reserved - 1)
<1>a. /\ i \in Nat /\ Len(rom.phdrs) \in Nat /\ rom' = rom /\ mem \in [Units -> Values]
      /\ pi \in SUBSET (Units \X Values)
  BY ConsoleStays DEF TypeOK, Rom, console
<1>b. pc # "banks" =>
        /\ memsize \in Nat /\ Reserved \in Nat /\ Skip \in Nat /\ Reserved < memsize
        /\ Lower \subseteq Units
  BY Bounds
<1>1. CASE pc \in {"banks", "rsp_bzero"}
  BY Moves, <1>1 DEF ImageInv
<1>2. CASE rdram_bzero
  <2>1. /\ pc' = "stage2_dma" /\ memsize' = memsize /\ pc = "bzero"
        /\ mem' = [u \in Units |-> IF u \in Skip..(memsize - Reserved - 2)
                                     THEN Zero ELSE mem[u]]
    BY <1>2 DEF rdram_bzero, Step, locals, sizes
  <2>2. ASSUME NEW u \in Lower PROVE Unit(mem', rom, memsize, 0, u)
    <3>1. \A k \in 1..0 : FALSE
      OBVIOUS
    <3>2. mem'[u] = Zero \/ u < Skip \/ u = memsize - Reserved - 1
      BY SMT, <1>b, <2>1, <2>2
    <3> QED BY Zenon, <3>1, <3>2 DEF Unit
  <2>3. Done' = 0
    BY <2>1 DEF Done, Stage1, Stage2
  <2> QED BY <1>a, <2>1, <2>2, <2>3 DEF ImageInv, Image
<1>3. CASE TestHeader
  <2>1. /\ pc = "test" /\ mem' = mem /\ memsize' = memsize
        /\ i \in 1..Len(rom.phdrs) /\ hdr[2] = i /\ Seen = rom.phdrs[i]
    BY <1>3, <1>a, Kinds DEF TestHeader, LoaderInv, RomInv, Seen, locals, sizes
  <2>1a. i \in Nat \ {0}
    BY <2>1
  <2>2. Image(mem, rom, memsize, i - 1)
    BY <2>1 DEF ImageInv, Done, Stage1, Stage2
  <2>3. CASE Ignored
    <3>1. pc' = "loop" /\ i' = i + 1
      BY SMT, <1>3, <2>3 DEF TestHeader
    <3>2. \A u : ~Writes(rom, i, u)
      BY <2>1, <2>3 DEF Ignored, Writes
    <3>3. \A u \in Lower : Unit(mem, rom, memsize, i, u)
      BY Zenon, <2>1, <2>2, <3>2, NextUnit, <2>1a DEF Image
    <3>4. Done' = i
      BY <1>a, <3>1 DEF Done, Stage1, Stage2
    <3> QED BY Zenon, <1>a, <2>1, <3>1, <3>3, <3>4 DEF ImageInv, Image
  <2>4. CASE ~Ignored /\ Seen.aligned
    <3>1. /\ pc' = "load" /\ i' = i
          /\ pi' = {<<u, Segment(i)>> : u \in SegmentUnits(rom.phdrs[i])}
      BY SMT, <1>3, <2>1, <2>4 DEF TestHeader, PiStart
    <3>2. \A u \in Lower : Unit(mem, rom, memsize, i - 1, u)
      BY <2>2 DEF Image
    <3>3. \A u \in SegmentUnits(rom.phdrs[i]) : <<u, Segment(i)>> \in pi'
      BY Zenon, <3>1
    <3> QED BY SMT, <1>a, <2>1, <3>1, <3>2, <3>3 DEF ImageInv
  <2>5. CASE ~Ignored /\ ~Seen.aligned
    <3>1. pc' = "abort"
      BY SMT, <1>3, <2>5 DEF TestHeader
    <3> QED BY <3>1 DEF ImageInv
  <2> QED BY Zenon, <2>3, <2>4, <2>5
<1>4. CASE SegmentLoaded
  <2>1. /\ pc = "load" /\ pc' = "loop" /\ i' = i + 1 /\ pi = {} /\ mem' = mem
        /\ memsize' = memsize
    BY <1>4 DEF SegmentLoaded, Step, sizes
  <2>2. i \in Nat \ {0} /\ Loads(i)
    BY <2>1 DEF RomInv
  <2>3. ASSUME NEW u \in Lower PROVE Unit(mem, rom, memsize, i, u)
    <3>1. CASE u \in SegmentUnits(rom.phdrs[i])
      <4>1. mem[u] = Segment(i)
        BY <2>1, <3>1 DEF ImageInv
      <4>2. Writes(rom, i, u)
        BY Zenon, <2>2, <3>1 DEF Writes, Loads
      <4> QED BY Zenon, <2>2, <4>1, <4>2, NextUnit
    <3>2. CASE u \notin SegmentUnits(rom.phdrs[i])
      <4>1. Unit(mem, rom, memsize, i - 1, u)
        BY <2>1, <3>2 DEF ImageInv
      <4> QED BY Zenon, <2>2, <3>2, <4>1, NextUnit DEF Writes
    <3> QED BY <3>1, <3>2
  <2>4. Done' = i
    BY <1>a, <2>1 DEF Done, Stage1, Stage2
  <2> QED BY Zenon, <1>a, <2>1, <2>3, <2>4 DEF ImageInv, Image
<1>5. CASE pc = "load" /\ ~SegmentLoaded
  <2>1. pc' = "load" /\ i' = i /\ memsize' = memsize
    BY Moves, <1>5
  <2>2. CASE PiStep
    <3>1. PICK d \in pi : mem' = [mem EXCEPT ![d[1]] = d[2]] /\ pi' = pi \ {d}
      BY <2>2 DEF PiStep
    <3>2. /\ d = <<d[1], d[2]>> /\ d[1] \in SegmentUnits(rom.phdrs[i]) /\ d[2] = Segment(i)
          /\ d[1] \in Units
      BY <1>5, <1>a, <3>1 DEF PiInv
    <3>3. \A u \in Units : mem'[u] = IF u = d[1] THEN Segment(i) ELSE mem[u]
      BY <1>a, <3>1, <3>2
    <3>4. ASSUME NEW u \in Lower, u \in SegmentUnits(rom.phdrs[i])
          PROVE  mem'[u] = Segment(i) \/ <<u, Segment(i)>> \in pi'
      <4>1. CASE u = d[1]
        BY <1>5, <1>b, <3>3, <3>4, <4>1
      <4>2. CASE u # d[1]
        <5>1. mem'[u] = mem[u]
          BY <1>5, <1>b, <3>3, <3>4, <4>2
        <5>2. mem[u] = Segment(i) \/ <<u, Segment(i)>> \in pi
          BY Zenon, <1>5, <3>4 DEF ImageInv
        <5>3. <<u, Segment(i)>> # d
          BY SMT, <4>2
        <5> QED BY Zenon, <3>1, <5>1, <5>2, <5>3
      <4> QED BY <4>1, <4>2
    <3>5. ASSUME NEW u \in Lower, u \notin SegmentUnits(rom.phdrs[i])
          PROVE  Unit(mem', rom, memsize, i - 1, u)
      <4>1. Unit(mem, rom, memsize, i - 1, u)
        BY Zenon, <1>5, <3>5 DEF ImageInv
      <4>2. mem'[u] = mem[u]
        BY Zenon, <1>5, <1>b, <3>2, <3>3, <3>5
      <4> QED BY Zenon, <4>1, <4>2 DEF Unit
    <3> QED BY Zenon, <1>a, <2>1, <3>4, <3>5 DEF ImageInv
  <2>3. CASE pi' = pi
    <3>1. \A u \in Lower : mem'[u] = mem[u]
      BY Zenon, <1>5, <2>3, LowerStays
    <3>2. ASSUME NEW u \in Lower, u \in SegmentUnits(rom.phdrs[i])
          PROVE  mem'[u] = Segment(i) \/ <<u, Segment(i)>> \in pi'
      BY Zenon, <1>5, <2>3, <3>1, <3>2 DEF ImageInv
    <3>3. ASSUME NEW u \in Lower, u \notin SegmentUnits(rom.phdrs[i])
          PROVE  Unit(mem', rom, memsize, i - 1, u)
      <4>1. Unit(mem, rom, memsize, i - 1, u)
        BY Zenon, <1>5, <3>3 DEF ImageInv
      <4> QED BY Zenon, <3>1, <4>1 DEF Unit
    <3> QED BY Zenon, <1>a, <2>1, <3>2, <3>3 DEF ImageInv
  <2> QED BY Zenon, <1>5, <2>2, <2>3, Moves
<1>6. CASE /\ ~rdram_bzero /\ ~TestHeader /\ ~SegmentLoaded
           /\ pc \notin {"banks", "rsp_bzero", "load"}
  <2>1. pc' # "load"
    BY Zenon, <1>6, Moves
  <2>2. CASE pc \in {"bzero", "abort"}
    <3>1. pc' \in {"bzero", "abort"}
      BY Zenon, <1>6, <2>2, Moves
    <3> QED BY <3>1 DEF ImageInv
  <2>3. CASE pc \notin {"bzero", "abort"} /\ pc' # "abort"
    <3>1. Image(mem, rom, memsize, Done)
      BY <1>6, <2>3 DEF ImageInv
    <3>2. \A u \in Lower : mem'[u] = mem[u]
      BY <1>6, <2>3, LowerStays
    <3>3. memsize' = memsize /\ Done' = Done
      BY <1>6, <2>3, DoneStays
    <3>4. Image(mem', rom, memsize, Done)
      BY Zenon, <3>1, <3>2, SameImage
    <3> QED BY Zenon, <1>a, <2>1, <3>3, <3>4 DEF ImageInv
  <2>4. CASE pc' = "abort"
    BY <2>4 DEF ImageInv
  <2> QED BY Zenon, <2>2, <2>3, <2>4
<1> QED BY Zenon, <1>1, <1>2, <1>3, <1>4, <1>5, <1>6

\* The invariant is inductive.
LEMMA InitIInv ==
  ASSUME Init
  PROVE  IInv
<1>1. Junk \in Values /\ None \in Values /\ 0 \in 0..Banks /\ 0 \in Nat /\ -1 \in Int
  BY Kinds
<1>2. TypeRom
  BY RomsAssumption, FlagsAssumption DEF Init, TypeRom
<1>3. TypeCpu
  BY Kinds DEF Init, TypeCpu, Labels, Stage1
<1>4. TypeMem
  BY <1>1 DEF Init, TypeMem
<1>5. TypeDma
  <2>1. sp \in Seq(SpDmas) /\ Len(sp) <= 2
    <3>1. <<>> \in Seq(SpDmas) /\ Len(<<>>) <= 2
      OBVIOUS
    <3>2. <<"imem">> \in Seq(SpDmas) /\ Len(<<"imem">>) <= 2
      BY DEF SpDmas
    <3> QED BY Zenon, <3>1, <3>2 DEF Init
  <2> QED BY <1>1, <2>1 DEF Init, TypeDma
<1>6. TypeRcp
  BY DEF Init, TypeRcp
<1>7. TypeOK
  BY Zenon, <1>2, <1>3, <1>4, <1>5, <1>6, TypeParts
<1>8. MemFound
  <2>1. pc = "banks" /\ chip = 0 /\ memsize = 0 /\ 0 * BankUnits = 0 /\ 0 \in 0..Banks
    BY Kinds DEF Init
  <2> QED BY <2>1 DEF MemFound
<1>9. SegmentsFit
  BY Zenon DEF Init, SegmentsFit
<1>10. SpInv
  <2>1. pc = "banks" /\ (sp = <<>> \/ (Len(sp) = 1 /\ sp[1] = "imem"))
    BY DEF Init
  <2> QED BY <2>1 DEF SpInv
<1>11. PiInv /\ CacheInv /\ SiInv
  BY DEF Init, PiInv, CacheInv, SiInv, Stage3, Kernel
<1>12. RomInv /\ LoaderInv /\ FlagsInv
  BY DEF Init, RomInv, LoaderInv, FlagsInv, Stage1, Stage2, Stage3, Kernel
<1>13. ImageInv /\ SpareInv
  BY DEF Init, ImageInv, SpareInv, Kernel
<1> QED BY Zenon, <1>7, <1>8, <1>9, <1>10, <1>11, <1>12, <1>13 DEF IInv

\* Each step keeps each of its parts.
LEMMA Inductive == IInv /\ [Next]_vars => IInv'
<1> SUFFICES ASSUME IInv, [Next]_vars PROVE IInv'
  OBVIOUS
<1> USE DEF IInv
<1>1. TypeRom'
  BY ConsoleStays, TypeParts DEF TypeRom, console
<1>2. TypeCpu'
  BY Zenon, TypeCpuStep, TypeParts
<1>3. TypeMem'
  BY Zenon, TypeMemStep, TypeParts
<1>4. TypeDma'
  BY Zenon, TypeDmaStep, TypeParts
<1>5. TypeRcp'
  BY Zenon, TypeRcpStep, TypeParts
<1>6. TypeOK'
  BY Zenon, <1>1, <1>2, <1>3, <1>4, <1>5
     DEF TypeOK, TypeRom, TypeCpu, TypeMem, TypeDma, TypeRcp
<1>7. MemFound' /\ SegmentsFit'
  BY Zenon, MemStep, FitStep
<1>8. SpInv' /\ PiInv' /\ CacheInv' /\ SiInv'
  BY Zenon, SpStays, PiStays, CacheStays, SiStays
<1>9. RomInv' /\ LoaderInv' /\ FlagsInv'
  BY Zenon, RomStep, LoaderStep, FlagsStep
<1>10. ImageInv' /\ SpareInv'
  BY Zenon, ImageStep, SpareStays
<1> QED BY Zenon, <1>6, <1>7, <1>8, <1>9, <1>10

\* So it always holds.
LEMMA IInvHolds == Spec => []IInv
BY InitIInv, Inductive, PTL DEF Spec

\* The types hold.
THEOREM TypeCorrect == Spec => []TypeOK
<1>1. IInv => TypeOK
  BY Zenon DEF IInv
<1> QED BY <1>1, IInvHolds, PTL

\* stage2 runs on itself and on the program header of this turn: nothing of the
\* program before, no DMA of stage2 and no line of the cache writes over them.
THEOREM LoaderStaysSound == Spec => []LoaderSound
<1>1. IInv => LoaderSound
  <2> SUFFICES ASSUME IInv PROVE LoaderIntact /\ HeaderFresh
    BY DEF LoaderSound
  <2>1. LoaderIntact
    BY DEF IInv, CacheInv, LoaderInv, LoaderIntact, Stage2
  <2>2. HeaderFresh
    BY DEF IInv, LoaderInv, HeaderFresh
  <2> QED BY <2>1, <2>2
<1> QED BY <1>1, IInvHolds, PTL

\* The kernel finds its segments in RDRAM and zero in the rest, but for the
\* first 0x400 bytes and the last unit, and hardware that is quiet but for the
\* VI's interrupt: whatever RDRAM, caches and devices held at reset.
THEOREM KernelEntered == Spec => []KernelEntry
<1>1. IInv => KernelEntry
  <2> SUFFICES ASSUME IInv, pc \in Kernel
               PROVE  EntryImage /\ EntryHardware
    BY DEF KernelEntry, EntryImage, EntryHardware
  <2>1. sp = <<>> /\ pi = {} /\ pc # "banks" /\ pc # "abort"
    BY DEF IInv, SpInv, PiInv, Kernel
  <2>2. EntryHardware
    <3>1. icache /\ \A u \in Units : dcache[u] = None
      BY DEF IInv, CacheInv, Kernel
    <3>2. si = "idle" /\ intr \subseteq {"VI"} /\ pif
      BY DEF IInv, SiInv, Kernel
    <3> QED BY Zenon, <2>1, <3>1, <3>2 DEF EntryHardware
  <2> DEFINE n == Len(rom.phdrs)
  <2>3. Done = n
    BY DEF Done, Stage1, Stage2, Kernel
  <2>4. Image(mem, rom, memsize, n)
    BY <2>1, <2>3 DEF IInv, ImageInv, Kernel
  <2>5. \A u, k : Writes(rom, k, u) <=> Loads(k) /\ u \in SegmentUnits(rom.phdrs[k])
    BY Zenon DEF Writes, Loads
  <2>6. ASSUME NEW u \in 0..(memsize - 1)
        PROVE  \/ \E k \in 1..n : LastAt(k, u, n) /\ mem[u] = Segment(k)
               \/ /\ \A k \in 1..n : Loads(k) => u \notin SegmentUnits(rom.phdrs[k])
                  /\ mem[u] = Zero \/ u < Skip \/ u = LastUnit
    <3>1. CASE u < memsize - Reserved
      <4>1. u \in 0..(memsize - Reserved - 1)
        BY <3>1, <2>1, Bounds DEF IInv
      <4>2. Unit(mem, rom, memsize, n, u)
        BY <2>4, <4>1 DEF Image
      <4> HIDE DEF n
      <4> QED BY Zenon, <2>5, <4>2 DEF Unit, LastAt, LastUnit
    <3>2. CASE u >= memsize - Reserved
      <4>1. memsize \in Nat /\ Reserved \in Nat
            /\ \A k \in 1..n : rom.phdrs[k].load =>
                 rom.phdrs[k].vaddr + rom.phdrs[k].size <= memsize - Reserved
        BY <2>1, Bounds DEF IInv
      <4>2. mem[u] = Zero
        BY <2>1, <3>2, <4>1 DEF IInv, SpareInv
      <4>3. ASSUME NEW k \in 1..n, Loads(k)
            PROVE  u \notin SegmentUnits(rom.phdrs[k])
        <5>1. rom.phdrs[k] \in Phdr
          BY DEF IInv, TypeOK, Rom
        <5>2. rom.phdrs[k].vaddr \in Nat /\ rom.phdrs[k].size \in Nat
          BY <5>1 DEF Phdr
        <5>3. rom.phdrs[k].vaddr + rom.phdrs[k].size <= memsize - Reserved
          BY Zenon, <4>1, <4>3 DEF Loads
        <5> HIDE DEF n
        <5> QED BY <3>2, <4>1, <5>2, <5>3 DEF SegmentUnits
      <4> QED BY Zenon, <4>2, <4>3
    <3> QED BY <2>1, <3>1, <3>2, Bounds DEF IInv
  <2>7. EntryImage
    <3> SUFFICES ASSUME NEW u \in 0..(memsize - 1)
                 PROVE  IF Covered(u)
                          THEN \E k \in 1..n : LastAt(k, u, n) /\ mem[u] = Segment(k)
                          ELSE u >= Skip /\ u # LastUnit => mem[u] = Zero
      BY DEF EntryImage
    <3>1. u \in Int /\ Skip \in Int
      BY SizeAssumption
    <3>2. (u < Skip) <=> ~(u >= Skip)
      BY <3>1
    <3> HIDE DEF n
    <3>3. Covered(u) <=> \E k \in 1..n : Loads(k) /\ u \in SegmentUnits(rom.phdrs[k])
      BY Zenon DEF Covered, n
    <3> QED BY Zenon, <2>6, <3>2, <3>3 DEF LastAt
  <2> QED BY <2>2, <2>7
<1> QED BY <1>1, IInvHolds, PTL

\* A unit between two page boundaries lies in one of the pages between them.
LEMMA PageOf ==
  ASSUME NEW u \in Nat, UserPage * PageUnits <= u, u < (UserPage + 2) * PageUnits
  PROVE  u \div PageUnits \in {UserPage, UserPage + 1}
<1> DEFINE q == u \div PageUnits
<1>1. PageUnits \in Nat \ {0} /\ UserPage \in Nat
  BY SizeAssumption
<1>2. q \in Nat /\ q * PageUnits <= u /\ u < (q + 1) * PageUnits
  BY <1>1
<1> HIDE DEF q
<1>3. UserPage < q + 1
  <2> SUFFICES ASSUME q + 1 <= UserPage PROVE FALSE
    BY <1>1, <1>2
  <2>1. (q + 1) * PageUnits <= UserPage * PageUnits
    BY <1>1, <1>2, Times
  <2>2. (q + 1) * PageUnits \in Nat /\ UserPage * PageUnits \in Nat
    BY <1>1, <1>2, Times
  <2> QED BY <1>2, <2>1, <2>2
<1>4. q < UserPage + 2
  <2> SUFFICES ASSUME UserPage + 2 <= q PROVE FALSE
    BY <1>1, <1>2
  <2>1. (UserPage + 2) * PageUnits <= q * PageUnits
    BY <1>1, <1>2, Times
  <2>2. (UserPage + 2) * PageUnits \in Nat /\ q * PageUnits \in Nat
    BY <1>1, <1>2, Times
  <2> QED BY <1>2, <2>1, <2>2
<1> QED BY <1>1, <1>2, <1>3, <1>4 DEF q

\* main finds the size of the memory that answers, and the user program where
\* user mode looks for it.
THEOREM MainEntered == Spec => []MainEntry
<1>1. IInv => MainEntry
  <2> SUFFICES ASSUME IInv, pc = "main" PROVE MemsizeFound /\ UserMapped
    BY DEF MainEntry, MemsizeFound, UserMapped
  <2>1. MemsizeFound
    BY DEF IInv, FlagsInv, MemFound, MemsizeFound
  <2>2. tlb = [p \in {UserPage, UserPage + 1} |-> p]
    BY DEF IInv, FlagsInv
  <2>3. ASSUME NEW k \in 1..Len(rom.phdrs), rom.phdrs[k].user,
               NEW u \in SegmentUnits(rom.phdrs[k])
        PROVE  u \div PageUnits \in {UserPage, UserPage + 1}
    <3>1. rom.phdrs[k] \in Phdr
      BY DEF IInv, TypeOK, Rom
    <3>2. rom.phdrs[k].vaddr \in Nat /\ rom.phdrs[k].size \in Nat
      BY <3>1 DEF Phdr
    <3>3. /\ rom.phdrs[k].vaddr >= UserPage * PageUnits
          /\ rom.phdrs[k].vaddr + rom.phdrs[k].size <= (UserPage + 2) * PageUnits
      BY <2>3 DEF IInv, SegmentsFit
    <3>4. UserPage * PageUnits \in Nat /\ (UserPage + 2) * PageUnits \in Nat
      BY SizeAssumption, Times
    <3>5. u \in Nat /\ UserPage * PageUnits <= u /\ u < (UserPage + 2) * PageUnits
      BY <3>2, <3>3, <3>4 DEF SegmentUnits
    <3> QED BY <3>5, PageOf
  <2>4. UserMapped
    BY Zenon, <2>2, <2>3 DEF UserMapped
  <2> QED BY <2>1, <2>4
<1> QED BY <1>1, IInvHolds, PTL

\* With a 32-bit ELF file the kernel is entered if it can be loaded, and abort
\* is reached only if it cannot.
THEOREM OnlyBootable == Spec => []EnteredIffBootable
<1>1. IInv => EnteredIffBootable
  BY DEF IInv, RomInv, EnteredIffBootable, Bootable, Before, Kernel, Stage1
<1> QED BY <1>1, IInvHolds, PTL

=============================================================================
