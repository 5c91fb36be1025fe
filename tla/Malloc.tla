------------------------------- MODULE Malloc -------------------------------
(***************************************************************************)
(* malloc.c: the kernel heap, a list of blocks, each a header followed by  *)
(* its memory.  malloc splits the first free block that is large enough:   *)
(* the caller gets its lower part, the rest becomes a new block.  free     *)
(* does nothing.  The callers are audio_init and display_init, through     *)
(* malloc_uncached; no interrupt handler allocates.  An address is         *)
(* physical, the segment bits of a pointer being of use only to            *)
(* malloc_uncached.                                                        *)
(***************************************************************************)
EXTENDS Integers

CONSTANTS
  HeapStart,  \* KERNEL_HEAP_START
  HeapEnd,    \* KERNEL_HEAP_END
  Word,       \* size_t counts modulo this number
  Requests    \* the sizes that callers ask for

Header == 16  \* sizeof(block_info_t)
Line   == 16  \* bytes of a data cache line
Null   == 0

ASSUME HeapAssumption ==
  /\ HeapStart \in Nat /\ HeapEnd \in Nat /\ Word \in Nat
  /\ 0 < HeapStart /\ HeapStart + Header <= HeapEnd /\ HeapEnd <= Word
  /\ HeapStart % Line = 0 /\ HeapEnd % Line = 0

\* No request is within two lines of the size of the address space: rounding
\* it up and adding a header does not wrap.
ASSUME RequestsAssumption ==
  Requests \subseteq Nat /\ \A n \in Requests : (n + Line) + Header <= Word

VARIABLES
  head,            \* mem_block_list_head
  header,          \* the headers in memory: address -> block_info_t
  granted,         \* regions callers own: where and how many bytes they asked
  malloc_pc,              \* where malloc is
  numbytes,        \* malloc's argument
  numbytes_aligned,
  block,           \* find_free_block's block
  allocated_mem    \* what malloc returns

heap_vars == <<head, header, granted, malloc_pc, numbytes, numbytes_aligned,
               block, allocated_mem>>

heap == <<head, header, granted>>

Blocks == DOMAIN header

Wrap(n) == IF n >= Word THEN n - Word ELSE n

\* malloc_init
HeapInit ==
  /\ head = HeapStart
  /\ header = [b \in {HeapStart} |->
       [prev |-> Null, next |-> Null, is_free |-> TRUE,
        size |-> HeapEnd - HeapStart - Header]]
  /\ granted = {}
  /\ malloc_pc = "idle" /\ numbytes = 0 /\ numbytes_aligned = 0
  /\ block = Null /\ allocated_mem = Null

\* Mutants: rounds down; rounds to the lines of no cache.
Align_Down(n)  == n - (n % Line)
Align_Eight(n) == IF n % 8 = 0 THEN n ELSE Wrap(n + (8 - (n % 8)))

Align(n) == IF n % Line = 0 THEN n ELSE Wrap(n + (Line - (n % Line)))

malloc(n) ==
  /\ malloc_pc = "idle"
  /\ numbytes' = n
  /\ IF n = 0
       THEN /\ allocated_mem' = Null /\ malloc_pc' = "return"
            /\ UNCHANGED <<numbytes_aligned, block>>
       ELSE /\ numbytes_aligned' = Align(n) /\ block' = head /\ malloc_pc' = "find"
            /\ UNCHANGED allocated_mem
  /\ UNCHANGED heap

------------------------------------------------------------------------------
(* find_free_block, one block at a time.                                    *)

\* Mutants: no room for the new header; an exact fit is refused.
Fits_NoHeader == header[block].is_free /\ header[block].size >= numbytes_aligned
Fits_Strict ==
  header[block].is_free /\ header[block].size > Wrap(numbytes_aligned + Header)

Fits ==
  header[block].is_free /\ header[block].size >= Wrap(numbytes_aligned + Header)

NextBlock ==
  /\ malloc_pc = "find" /\ ~Fits /\ header[block].next # Null
  /\ block' = header[block].next
  /\ UNCHANGED <<heap, malloc_pc, numbytes, numbytes_aligned, allocated_mem>>

OutOfMemory ==
  /\ malloc_pc = "find" /\ ~Fits /\ header[block].next = Null
  /\ allocated_mem' = Null /\ malloc_pc' = "return"
  /\ UNCHANGED <<heap, numbytes, numbytes_aligned, block>>

\* Mutants: the split block does not learn of the new one; it is linked to it
\* in the wrong direction.
Links_KeepsPrev(new) ==
  [b \in Blocks \cup {new} |->
     IF b = new
       THEN [prev |-> header[block].prev, next |-> block, is_free |-> TRUE,
             size |-> header[block].size - numbytes_aligned - Header]
     ELSE IF b = block
       THEN [prev |-> header[b].prev, next |-> header[b].next, is_free |-> FALSE,
             size |-> numbytes_aligned]
     ELSE header[b]]

Links_Swapped(new) ==
  [b \in Blocks \cup {new} |->
     IF b = new
       THEN [prev |-> header[block].prev, next |-> block, is_free |-> TRUE,
             size |-> header[block].size - numbytes_aligned - Header]
     ELSE IF b = block
       THEN [prev |-> header[b].prev, next |-> new, is_free |-> FALSE,
             size |-> numbytes_aligned]
     ELSE header[b]]

\* The headers once the block is split at new.
Links(new) ==
  [b \in Blocks \cup {new} |->
     IF b = new
       THEN [prev |-> header[block].prev, next |-> block, is_free |-> TRUE,
             size |-> header[block].size - numbytes_aligned - Header]
     ELSE IF b = block
       THEN [prev |-> new, next |-> header[b].next, is_free |-> FALSE,
             size |-> numbytes_aligned]
     ELSE header[b]]

SplitBlock ==
  /\ malloc_pc = "find" /\ Fits
  /\ LET new == block + Header + numbytes_aligned IN
       /\ header' = Links(new)
       /\ head' = IF block = head THEN new ELSE head
  /\ allocated_mem' = block + Header
  /\ granted' = granted \cup {[at |-> block + Header, bytes |-> numbytes]}
  /\ malloc_pc' = "return"
  /\ UNCHANGED <<numbytes, numbytes_aligned, block>>

------------------------------------------------------------------------------
(* The callers.                                                             *)

NULL == <<"KUSEG", 0>>

ADDR_TO_KSEG1(address) == <<"KSEG1", address>>

\* audio_init uses the buffer as it is; display_init, which has checked that
\* width and height are positive, asserts that it is one.
audio_init_buffer ==
  /\ malloc_pc = "return" /\ malloc_pc' = "idle"
  /\ UNCHANGED <<heap, numbytes, numbytes_aligned, block, allocated_mem>>

display_init_buffer ==
  /\ malloc_pc = "return" /\ numbytes # 0
  /\ malloc_pc' = IF ADDR_TO_KSEG1(allocated_mem) # NULL THEN "idle" ELSE "abort"
  /\ UNCHANGED <<heap, numbytes, numbytes_aligned, block, allocated_mem>>

\* Mutant: gives the block back to the list.
free_MarksFree(region) ==
  /\ malloc_pc = "idle"
  /\ granted' = granted \ {region}
  /\ header' = [header EXCEPT ![region.at - Header].is_free = TRUE]
  /\ UNCHANGED <<head, malloc_pc, numbytes, numbytes_aligned, block, allocated_mem>>

free(region) ==
  /\ malloc_pc = "idle"
  /\ granted' = granted \ {region}
  /\ UNCHANGED <<head, header, malloc_pc, numbytes, numbytes_aligned, block,
                 allocated_mem>>

HeapNext ==
  \/ \E n \in Requests : malloc(n)
  \/ NextBlock \/ OutOfMemory \/ SplitBlock
  \/ audio_init_buffer \/ display_init_buffer
  \/ \E region \in granted : free(region)

HeapSpec == HeapInit /\ [][HeapNext]_heap_vars

Search == NextBlock \/ OutOfMemory \/ SplitBlock

\* A call of malloc runs on.
HeapFairSpec == HeapSpec /\ WF_heap_vars(Search)

------------------------------------------------------------------------------
Address == HeapStart..HeapEnd

BlockInfo ==
  [prev : Address \cup {Null}, next : Address \cup {Null},
   is_free : BOOLEAN, size : 0..HeapEnd]

HeapTypeOK ==
  /\ head \in Blocks /\ Blocks \subseteq Address
  /\ header \in [Blocks -> BlockInfo]
  /\ granted \subseteq [at : Address, bytes : Requests]
  /\ malloc_pc \in {"idle", "find", "return", "abort"}
  /\ numbytes \in Requests \cup {0} /\ numbytes_aligned \in Nat
  /\ block \in Blocks \cup {Null} /\ allocated_mem \in Address \cup {Null}

EndOf(b) == b + Header + header[b].size

\* The blocks fill the heap, with no gap and no overlap: following next from
\* the head runs down to the start of the heap, following prev runs up, and
\* both ways lead from a block to its neighbour in memory.  Only the head is
\* free, which is why malloc may leave a split block's other neighbour alone.
BlocksTileHeap ==
  /\ EndOf(head) = HeapEnd /\ header[head].prev = Null /\ header[head].is_free
  /\ HeapStart \in Blocks /\ header[HeapStart].next = Null
  /\ \A b \in Blocks \ {head} :
       /\ ~header[b].is_free
       /\ header[b].prev = EndOf(b) /\ EndOf(b) \in Blocks
       /\ header[EndOf(b)].next = b
  /\ \A b, c \in Blocks : b < c => EndOf(b) <= c

Apart(at1, bytes1, at2, bytes2) == at1 + bytes1 <= at2 \/ at2 + bytes2 <= at1

\* Regions that callers own lie in the heap, overlap neither each other nor
\* any header.
RegionsApart ==
  \A r \in granted :
    /\ HeapStart <= r.at /\ r.at + r.bytes <= HeapEnd
    /\ \A b \in Blocks : Apart(r.at, r.bytes, b, Header)
    /\ \A s \in granted : r = s \/ Apart(r.at, r.bytes, s.at, s.bytes)

\* No byte of a region shares a data cache line with a header: the regions are
\* used through KSEG1, the headers through the cache, and a line written back
\* for a header would overwrite what the caller has stored.
LinesNotShared ==
  \A r \in granted, b \in Blocks :
    \A x \in {r.at, r.at + r.bytes - 1} : x \div Line # b \div Line

\* What the caller stores stays as it is, and so does the list.
RegionsSafe == RegionsApart /\ LinesNotShared

\* malloc fails only when no free block, wherever it is, can hold the request.
FailsOnlyWhenFull ==
  [][OutOfMemory =>
       \A b \in Blocks : header[b].is_free =>
         header[b].size < numbytes_aligned + Header]_heap_vars

\* No call of malloc searches for ever: the list that it follows has no cycle.
MallocReturns == []<>(malloc_pc # "find")

\* malloc answers, and with NULL only when it has to.
MallocAnswers == FailsOnlyWhenFull /\ MallocReturns
=============================================================================
