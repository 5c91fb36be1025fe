--------------------------- MODULE Malloc_proofs ----------------------------
(***************************************************************************)
(* Proofs about the heap of Malloc, for a heap of any size and any set of  *)
(* requests that stays clear of the end of the address space.              *)
(***************************************************************************)
EXTENDS Malloc, TLAPS

\* Blocks start and end on cache lines.
OnLines == \A b \in Blocks : b % Line = 0 /\ header[b].size % Line = 0

\* Who reads next finds a block or the end of the list.
NextIsBlock == \A b \in Blocks : header[b].next \in Blocks \cup {Null}

\* A region is the start of the memory of a block in use, and no two regions
\* of that block.
RegionsAreBlocks ==
  /\ \A r \in granted :
       /\ r.at - Header \in Blocks \ {head}
       /\ 0 < r.bytes /\ r.bytes <= header[r.at - Header].size
  /\ \A r, s \in granted : r.at = s.at => r = s

\* While it looks for a block, malloc has rounded its argument up to lines,
\* and it has left the head behind only because it is too small.
Finding ==
  malloc_pc = "find" =>
    /\ 0 < numbytes /\ numbytes <= numbytes_aligned
    /\ numbytes_aligned + Header < Word
    /\ numbytes_aligned % Line = 0
    /\ block \in Blocks
    /\ block # head => header[head].size < numbytes_aligned + Header

IInv ==
  /\ HeapTypeOK /\ BlocksTileHeap
  /\ OnLines /\ NextIsBlock /\ RegionsAreBlocks /\ Finding

------------------------------------------------------------------------------
\* Align rounds a request up to the next line, and does not wrap.
LEMMA AlignRoundsUp ==
  ASSUME NEW n \in Requests
  PROVE  /\ Align(n) \in Nat /\ n <= Align(n) /\ Align(n) % Line = 0
         /\ Align(n) + Header < Word
<1>1. n \in Nat /\ n + Line + Header <= Word
  BY RequestsAssumption
<1>2. n % Line \in 0..15 /\ (n % Line # 0 => (n + (Line - (n % Line))) % Line = 0)
  BY <1>1 DEF Line
<1>3. CASE n % Line = 0
  BY <1>1, <1>3, HeapAssumption DEF Align, Line, Header
<1>4. CASE n % Line # 0
  BY <1>1, <1>2, <1>4, HeapAssumption DEF Align, Wrap, Line, Header
<1> QED BY <1>3, <1>4

\* In the invariant, the block that malloc splits is the head.
LEMMA FitsHead ==
  ASSUME IInv, malloc_pc = "find"
  PROVE  /\ Fits => block = head
         /\ Fits <=> header[block].is_free
                      /\ header[block].size >= numbytes_aligned + Header
  BY HeapAssumption DEF IInv, HeapTypeOK, BlocksTileHeap, Finding, Fits, Wrap, Header

LEMMA InitIInv == HeapInit => IInv
<1> SUFFICES ASSUME HeapInit PROVE IInv
  OBVIOUS
<1> USE HeapAssumption DEF HeapInit, Header, Line, Null
<1>1. Blocks = {HeapStart} /\ header[HeapStart].size = HeapEnd - HeapStart - 16
  BY DEF Blocks
<1>2. HeapTypeOK
  <2>1. HeapStart \in Address /\ header[HeapStart] \in BlockInfo
    BY DEF Address, BlockInfo
  <2>2. header \in [Blocks -> BlockInfo]
    BY <1>1, <2>1
  <2> QED BY <1>1, <2>1, <2>2 DEF HeapTypeOK
<1>3. BlocksTileHeap
  BY <1>1 DEF BlocksTileHeap, EndOf
<1>4. OnLines
  BY <1>1 DEF OnLines
<1> QED BY <1>1, <1>2, <1>3, <1>4 DEF IInv, NextIsBlock, RegionsAreBlocks, Finding

------------------------------------------------------------------------------
\* Links adds one header and changes one.
LEMMA LinksAre ==
  ASSUME NEW new, new \notin Blocks, block \in Blocks
  PROVE  /\ DOMAIN Links(new) = Blocks \cup {new}
         /\ Links(new)[new] =
              [prev |-> header[block].prev, next |-> block, is_free |-> TRUE,
               size |-> header[block].size - numbytes_aligned - Header]
         /\ Links(new)[block] =
              [prev |-> new, next |-> header[block].next, is_free |-> FALSE,
               size |-> numbytes_aligned]
         /\ \A b \in Blocks \ {block} : Links(new)[b] = header[b]
<1>1. DOMAIN Links(new) = Blocks \cup {new}
  BY DEF Links
<1>2. \A b \in Blocks \ {block} : Links(new)[b] = header[b]
  BY DEF Links
<1>3. Links(new)[new] =
        [prev |-> header[block].prev, next |-> block, is_free |-> TRUE,
         size |-> header[block].size - numbytes_aligned - Header]
  BY DEF Links
<1>4. Links(new)[block] =
        [prev |-> new, next |-> header[block].next, is_free |-> FALSE,
         size |-> numbytes_aligned]
  BY DEF Links
<1> QED BY <1>1, <1>2, <1>3, <1>4

\* What malloc does to the headers when it splits the head.
LEMMA SplitHead ==
  ASSUME IInv, SplitBlock
  PROVE  LET new == head + Header + numbytes_aligned IN
         /\ head' = new /\ Blocks' = Blocks \cup {new} /\ header' = Links(new)
         /\ new \notin Blocks /\ new \in Address
         /\ header'[new] = [prev |-> Null, next |-> head, is_free |-> TRUE,
                            size |-> header[head].size - numbytes_aligned - Header]
         /\ header'[new].size \in Nat
         /\ header'[head] = [prev |-> new, next |-> header[head].next,
                             is_free |-> FALSE, size |-> numbytes_aligned]
         /\ \A b \in Blocks \ {head} : header'[b] = header[b]
         /\ \A b \in Blocks : b <= head
<1> DEFINE new == head + Header + numbytes_aligned
<1>1. block = head /\ header[head].size >= numbytes_aligned + Header
  BY FitsHead DEF SplitBlock
<1>2. head' = new /\ header' = Links(new)
  BY <1>1 DEF SplitBlock
<1>4. malloc_pc = "find" /\ HeapTypeOK /\ BlocksTileHeap /\ Finding
  BY DEF SplitBlock, IInv
<1>5. head \in Blocks /\ Blocks \subseteq Nat /\ \A b \in Blocks : HeapStart <= b /\ b <= HeapEnd
  BY <1>4, HeapAssumption DEF HeapTypeOK, Address
<1>6. \A b \in Blocks : header[b] \in BlockInfo
  BY <1>4 DEF HeapTypeOK
<1>7. numbytes_aligned \in Nat /\ 0 < numbytes_aligned
  <2>1. 0 < numbytes /\ numbytes <= numbytes_aligned
    BY <1>4 DEF Finding
  <2>2. numbytes \in Nat /\ numbytes_aligned \in Nat
    BY <1>4, RequestsAssumption DEF HeapTypeOK
  <2> QED BY <2>1, <2>2
<1>8. \A b \in Blocks : header[b].size \in Nat
  BY <1>6, HeapAssumption DEF BlockInfo
<1>9. EndOf(head) = HeapEnd /\ header[head].prev = Null
  BY <1>4 DEF BlocksTileHeap
<1>10. \A b \in Blocks : b <= head
  <2> SUFFICES ASSUME NEW b \in Blocks, ~ b <= head PROVE FALSE
    OBVIOUS
  <2>1. head < b
    BY <1>5
  <2>2. HeapEnd <= b
    BY <1>4, <1>5, <1>9, <2>1 DEF BlocksTileHeap
  <2>3. b # head /\ EndOf(b) \in Blocks
    BY <1>4, <1>5, <2>1 DEF BlocksTileHeap
  <2> QED BY <1>5, <1>8, <2>2, <2>3, HeapAssumption DEF EndOf, Header
<1>11. new \in Nat /\ head < new /\ new < HeapEnd
  BY <1>1, <1>5, <1>7, <1>8, <1>9, HeapAssumption DEF EndOf, Header
<1>12. new \notin Blocks /\ new \in Address
  BY <1>5, <1>10, <1>11, HeapAssumption DEF Address
<1>13. Blocks' = Blocks \cup {new}
  BY <1>1, <1>2, <1>5, <1>12, LinksAre DEF Blocks
<1>14. header'[new] = [prev |-> Null, next |-> head, is_free |-> TRUE,
                       size |-> header[head].size - numbytes_aligned - Header]
  BY <1>1, <1>2, <1>5, <1>9, <1>12, LinksAre
<1>15. header'[new].size \in Nat
  BY <1>1, <1>5, <1>7, <1>8, <1>14 DEF Header
<1>16. header'[head] = [prev |-> new, next |-> header[head].next,
                        is_free |-> FALSE, size |-> numbytes_aligned]
  BY <1>1, <1>2, <1>5, <1>12, LinksAre
<1>17. \A b \in Blocks \ {head} : header'[b] = header[b]
  BY <1>1, <1>2, <1>5, <1>12, LinksAre
<1> QED BY <1>2, <1>10, <1>12, <1>13, <1>14, <1>15, <1>16, <1>17

\* A step that leaves the list alone keeps what the invariant says of it.
LEMMA ListUnchanged ==
  ASSUME IInv, UNCHANGED <<head, header>>
  PROVE  BlocksTileHeap' /\ OnLines' /\ NextIsBlock' /\ Blocks' = Blocks
BY DEF IInv, BlocksTileHeap, OnLines, NextIsBlock, Blocks, EndOf

LEMMA MallocKeeps == ASSUME IInv, NEW n \in Requests, malloc(n) PROVE IInv'
<1>1. UNCHANGED <<head, header, granted>>
  BY DEF malloc, heap
<1>2. HeapTypeOK' /\ RegionsAreBlocks'
  <2>1. RegionsAreBlocks'
    BY <1>1 DEF IInv, RegionsAreBlocks, Blocks
  <2>2. numbytes_aligned' \in Nat /\ block' \in Blocks \cup {Null}
    BY AlignRoundsUp DEF malloc, IInv, HeapTypeOK
  <2>3. numbytes' \in Requests /\ allocated_mem' \in Address \cup {Null}
    BY DEF malloc, IInv, HeapTypeOK
  <2>4. malloc_pc' \in {"idle", "find", "return", "abort"}
    BY DEF malloc
  <2> QED BY <1>1, <2>1, <2>2, <2>3, <2>4 DEF IInv, HeapTypeOK, Blocks
<1>3. Finding'
  <2> SUFFICES ASSUME n # 0, malloc_pc' = "find" PROVE Finding'
    BY DEF malloc, Finding
  <2>1. numbytes' = n /\ numbytes_aligned' = Align(n) /\ block' = head
    BY DEF malloc
  <2>2. 0 < n /\ head \in Blocks
    BY RequestsAssumption DEF IInv, HeapTypeOK
  <2> QED BY <1>1, <2>1, <2>2, AlignRoundsUp DEF Finding, Blocks
<1> QED BY <1>1, <1>2, <1>3, ListUnchanged DEF IInv

LEMMA NextBlockKeeps == ASSUME IInv, NextBlock PROVE IInv'
<1>1. UNCHANGED <<head, header, granted, malloc_pc, numbytes, numbytes_aligned, allocated_mem>>
  BY DEF NextBlock, heap
<1>2. block' \in Blocks /\ malloc_pc = "find"
  BY DEF NextBlock, IInv, NextIsBlock, Finding
<1>3. RegionsAreBlocks' /\ HeapTypeOK'
  BY <1>1, <1>2 DEF IInv, HeapTypeOK, RegionsAreBlocks, Blocks
<1>4. header[head].size < numbytes_aligned + Header
  <2>1. CASE block = head
    <3>1. header[head].is_free /\ header[head].size \in Nat /\ numbytes_aligned \in Nat
      BY HeapAssumption DEF IInv, HeapTypeOK, BlocksTileHeap, BlockInfo
    <3> QED BY <1>2, <2>1, <3>1, FitsHead DEF NextBlock, Header
  <2>2. CASE block # head
    BY <1>2, <2>2 DEF IInv, Finding
  <2> QED BY <2>1, <2>2
<1>5. Finding'
  BY <1>1, <1>2, <1>4 DEF IInv, Finding, Blocks
<1> QED BY <1>1, <1>3, <1>5, ListUnchanged DEF IInv

LEMMA ReturnKeeps ==
  ASSUME IInv, OutOfMemory \/ audio_init_buffer \/ display_init_buffer
  PROVE  IInv'
<1>1. UNCHANGED <<head, header, granted, numbytes, numbytes_aligned, block>>
  BY DEF OutOfMemory, audio_init_buffer, display_init_buffer, heap
<1>2. malloc_pc' \in {"idle", "return", "abort"} /\ allocated_mem' \in {allocated_mem, Null}
  BY DEF OutOfMemory, audio_init_buffer, display_init_buffer
<1>3. HeapTypeOK' /\ RegionsAreBlocks' /\ Finding'
  BY <1>1, <1>2 DEF IInv, HeapTypeOK, RegionsAreBlocks, Blocks, Finding
<1> QED BY <1>1, <1>3, ListUnchanged DEF IInv

LEMMA FreeKeeps ==
  ASSUME IInv, NEW region \in granted, free(region)
  PROVE  IInv'
<1>1. /\ UNCHANGED <<head, header, malloc_pc, numbytes, numbytes_aligned, block, allocated_mem>>
      /\ granted' \subseteq granted
  BY DEF free
<1>2. HeapTypeOK' /\ RegionsAreBlocks' /\ Finding'
  BY <1>1 DEF IInv, HeapTypeOK, RegionsAreBlocks, Blocks, Finding
<1> QED BY <1>1, <1>2, ListUnchanged DEF IInv

LEMMA SplitKeeps == ASSUME IInv, SplitBlock PROVE IInv'
<1> DEFINE new == head + Header + numbytes_aligned
<1>1. /\ head' = new /\ Blocks' = Blocks \cup {new}
      /\ new \notin Blocks /\ new \in Address
      /\ header'[new] = [prev |-> Null, next |-> head, is_free |-> TRUE,
                         size |-> header[head].size - numbytes_aligned - Header]
      /\ header'[new].size \in Nat
      /\ header'[head] = [prev |-> new, next |-> header[head].next,
                          is_free |-> FALSE, size |-> numbytes_aligned]
      /\ \A b \in Blocks \ {head} : header'[b] = header[b]
      /\ \A b \in Blocks : b <= head
  BY SplitHead
<1>2. header' = [b \in Blocks' |-> header'[b]]
  BY <1>1, SplitHead DEF Blocks, Links
<1>3. new = head + 16 + numbytes_aligned
  BY DEF Header
<1> HIDE DEF new
<1>4. HeapTypeOK /\ BlocksTileHeap /\ OnLines /\ NextIsBlock /\ RegionsAreBlocks /\ Finding
      /\ malloc_pc = "find"
  BY DEF IInv, SplitBlock
<1>5. /\ block = head /\ malloc_pc' = "return"
      /\ UNCHANGED <<numbytes, numbytes_aligned, block>>
      /\ allocated_mem' = head + 16
      /\ granted' = granted \cup {[at |-> head + 16, bytes |-> numbytes]}
  BY FitsHead DEF SplitBlock, Header
<1>6. /\ head \in Blocks /\ Blocks \subseteq Address /\ Address \subseteq Nat
      /\ \A b \in Blocks : header[b] \in BlockInfo /\ header[b].size \in Nat
  BY <1>4, HeapAssumption DEF HeapTypeOK, Address, BlockInfo
<1>7. /\ numbytes \in Nat /\ numbytes_aligned \in Nat
      /\ 0 < numbytes /\ numbytes <= numbytes_aligned /\ numbytes_aligned % 16 = 0
  BY <1>4, RequestsAssumption DEF HeapTypeOK, Finding, Line
<1>8. head + 16 + header[head].size = HeapEnd
  BY <1>4 DEF BlocksTileHeap, EndOf, Header
<1>9. header'[new].size <= HeapEnd /\ numbytes_aligned <= HeapEnd
  BY <1>1, <1>3, <1>6, <1>7, <1>8, HeapAssumption DEF Address, Header
<1>10. HeapTypeOK'
  <2>1. header'[new] \in BlockInfo /\ header'[head] \in BlockInfo
    <3>1. header'[new] \in BlockInfo
      BY <1>1, <1>6, <1>9, HeapAssumption DEF BlockInfo
    <3>2. header[head].next \in Address \cup {Null}
      BY <1>6 DEF BlockInfo
    <3>3. numbytes_aligned \in 0..HeapEnd
      BY <1>7, <1>9, HeapAssumption
    <3>4. header'[head] \in BlockInfo
      BY <1>1, <3>2, <3>3 DEF BlockInfo
    <3> QED BY <3>1, <3>4
  <2>2. \A b \in Blocks' : header'[b] \in BlockInfo
    BY <1>1, <1>6, <2>1
  <2>3. header' \in [Blocks' -> BlockInfo]
    BY <1>2, <2>2
  <2>4. head + 16 \in Address
    BY <1>1, <1>3, <1>6, <1>7, HeapAssumption DEF Address
  <2>5. numbytes \in Requests
    BY <1>4, <1>7 DEF HeapTypeOK
  <2>6. granted' \subseteq [at : Address, bytes : Requests]
    BY <1>4, <1>5, <2>4, <2>5 DEF HeapTypeOK
  <2> QED BY <1>1, <1>4, <1>5, <1>6, <2>3, <2>4, <2>6 DEF HeapTypeOK
<1>11. BlocksTileHeap'
  <2> DEFINE E(b) == b + Header + header'[b].size
  <2>1. \A b \in Blocks \ {head} : E(b) = EndOf(b)
    BY <1>1 DEF EndOf
  <2>2. E(head) = new
    BY <1>1, <1>3 DEF Header
  <2>3. E(new) = HeapEnd
    BY <1>1, <1>3, <1>6, <1>7, <1>8 DEF Header
  <2>4. new # head /\ header'[new].prev = Null /\ header'[new].is_free
    BY <1>1, <1>6
  <2>5. HeapStart \in Blocks' /\ header'[HeapStart].next = Null
    BY <1>1, <1>4 DEF BlocksTileHeap
  <2>6. \A b \in Blocks' \ {new} :
          /\ ~header'[b].is_free
          /\ header'[b].prev = E(b) /\ E(b) \in Blocks'
          /\ header'[E(b)].next = b
    <3>1. ~header'[head].is_free /\ header'[head].prev = E(head)
          /\ E(head) \in Blocks' /\ header'[E(head)].next = head
      BY <1>1, <2>2
    <3>2. ASSUME NEW b \in Blocks \ {head}
          PROVE  /\ ~header'[b].is_free
                 /\ header'[b].prev = E(b) /\ E(b) \in Blocks'
                 /\ header'[E(b)].next = b
      <4>1. /\ ~header[b].is_free /\ header[b].prev = EndOf(b)
            /\ EndOf(b) \in Blocks /\ header[EndOf(b)].next = b
        BY <1>4, <3>2 DEF BlocksTileHeap
      <4>2. header'[EndOf(b)].next = header[EndOf(b)].next
        BY <1>1, <4>1
      <4> QED BY <1>1, <2>1, <3>2, <4>1, <4>2
    <3> QED BY <1>1, <3>1, <3>2
  <2>7. \A b, c \in Blocks' : b < c => E(b) <= c
    <3> SUFFICES ASSUME NEW b \in Blocks', NEW c \in Blocks', b < c
                 PROVE  E(b) <= c
      OBVIOUS
    <3>1. head < new
      BY <1>3, <1>6, <1>7
    <3>2. CASE b = new
      BY <1>1, <1>6, <3>1, <3>2
    <3>3. CASE b = head
      BY <1>1, <1>6, <2>2, <3>3
    <3>4. CASE b \in Blocks \ {head} /\ c = new
      <4>1. b < head
        <5>1. b <= head
          BY <1>1, <3>4
        <5>2. b \in Nat /\ head \in Nat
          BY <1>6, <3>4
        <5> QED BY <3>4, <5>1, <5>2
      <4>2. EndOf(b) <= head /\ EndOf(b) \in Nat
        BY <1>4, <1>6, <3>4, <4>1 DEF BlocksTileHeap
      <4> QED BY <1>1, <1>6, <2>1, <3>1, <3>4, <4>2
    <3>5. CASE b \in Blocks \ {head} /\ c \in Blocks
      BY <1>4, <2>1, <3>5 DEF BlocksTileHeap
    <3> QED BY <1>1, <3>2, <3>3, <3>4, <3>5
  <2>8. \A b : EndOf(b)' = E(b)
    BY DEF EndOf
  <2> HIDE DEF E
  <2> QED BY <1>1, <2>3, <2>4, <2>5, <2>6, <2>7, <2>8 DEF BlocksTileHeap, EndOf
<1>12. OnLines'
  <2>1. head % 16 = 0 /\ header[head].size % 16 = 0
    BY <1>4, <1>6 DEF OnLines, Line
  <2>2. header'[new].size = header[head].size - numbytes_aligned - 16
    BY <1>1 DEF Header
  <2>3. head \in Nat /\ header[head].size \in Nat
    BY <1>6
  <2>4. new % 16 = 0 /\ header'[new].size % 16 = 0
    BY <1>3, <1>7, <2>1, <2>2, <2>3
  <2>5. header'[head].size % 16 = 0
    BY <1>1, <1>7
  <2> QED BY <1>1, <1>4, <2>1, <2>4, <2>5 DEF OnLines, Line
<1>13. NextIsBlock'
  BY <1>1, <1>4, <1>6 DEF NextIsBlock
<1>14. RegionsAreBlocks'
  <2> DEFINE r0 == [at |-> head + 16, bytes |-> numbytes]
  <2>1. r0.at - Header = head
    BY <1>6 DEF Header
  <2>2. \A r \in granted : /\ r.at - Header \in Blocks \ {head}
                           /\ r.at # r0.at
    BY <1>4, <2>1 DEF RegionsAreBlocks
  <2>3. \A r \in granted' :
          /\ r.at - Header \in Blocks' \ {new}
          /\ 0 < r.bytes /\ r.bytes <= header'[r.at - Header].size
    <3>1. \A r \in granted : /\ r.at - Header \in Blocks' \ {new}
            /\ 0 < r.bytes /\ r.bytes <= header'[r.at - Header].size
      BY <1>1, <1>4, <2>2 DEF RegionsAreBlocks
    <3>2. /\ r0.at - Header \in Blocks' \ {new}
          /\ 0 < r0.bytes /\ r0.bytes <= header'[r0.at - Header].size
      BY <1>1, <1>6, <1>7, <2>1
    <3> QED BY <1>5, <3>1, <3>2
  <2>4. \A r, s \in granted' : r.at = s.at => r = s
    BY <1>4, <1>5, <2>2 DEF RegionsAreBlocks
  <2> QED BY <1>1, <2>3, <2>4 DEF RegionsAreBlocks
<1>15. Finding'
  BY <1>5 DEF Finding
<1> QED BY <1>10, <1>11, <1>12, <1>13, <1>14, <1>15 DEF IInv

LEMMA StepIInv == IInv /\ [HeapNext]_heap_vars => IInv'
<1> SUFFICES ASSUME IInv, [HeapNext]_heap_vars PROVE IInv'
  OBVIOUS
<1>1. CASE \E n \in Requests : malloc(n)
  BY <1>1, MallocKeeps
<1>2. CASE NextBlock
  BY <1>2, NextBlockKeeps
<1>3. CASE OutOfMemory \/ audio_init_buffer \/ display_init_buffer
  BY <1>3, ReturnKeeps
<1>4. CASE SplitBlock
  BY <1>4, SplitKeeps
<1>5. CASE \E region \in granted : free(region)
  BY <1>5, FreeKeeps
<1>6. CASE UNCHANGED heap_vars
  <2>1. HeapTypeOK' /\ RegionsAreBlocks' /\ Finding'
    BY <1>6 DEF heap_vars, IInv, HeapTypeOK, RegionsAreBlocks, Blocks, Finding
  <2> QED BY <1>6, <2>1, ListUnchanged DEF heap_vars, IInv
<1> QED BY <1>1, <1>2, <1>3, <1>4, <1>5, <1>6 DEF HeapNext

\* The inductive invariant holds in every reachable state of the heap.
THEOREM Inductive == HeapSpec => []IInv
BY InitIInv, StepIInv, PTL DEF HeapSpec

\* Every variable of malloc.c keeps its type; in particular the size of a
\* block, a difference, is never negative.
THEOREM TypeCorrect == HeapSpec => []HeapTypeOK
<1>1. IInv => HeapTypeOK
  BY DEF IInv
<1> QED BY <1>1, Inductive, PTL

\* malloc keeps the list a tiling of the heap, with the head alone free.
THEOREM HeapIsTiled == HeapSpec => []BlocksTileHeap
<1>1. IInv => BlocksTileHeap
  BY DEF IInv
<1> QED BY <1>1, Inductive, PTL

\* The memory of a block in use: where it lies and what it is clear of.
LEMMA RegionInBlock ==
  ASSUME IInv, NEW r \in granted
  PROVE  LET b == r.at - Header IN
         /\ b \in Blocks /\ b \in Nat /\ r.at = b + 16 /\ r.bytes \in Nat
         /\ 0 < r.bytes /\ r.at + r.bytes <= EndOf(b)
         /\ \A c \in Blocks : c \in Nat /\ (c <= b \/ EndOf(b) <= c)
         /\ EndOf(b) <= HeapEnd /\ EndOf(b) \in Nat
<1> DEFINE b == r.at - Header
<1>1. b \in Blocks /\ 0 < r.bytes /\ r.bytes <= header[b].size
  BY DEF IInv, RegionsAreBlocks
<1>2. Blocks \subseteq Nat /\ \A c \in Blocks : c <= HeapEnd /\ header[c].size \in Nat
  BY HeapAssumption DEF IInv, HeapTypeOK, Address, BlockInfo
<1>3. r.at \in Nat /\ r.bytes \in Nat
  <2>1. r \in [at : Address, bytes : Requests]
    BY DEF IInv, HeapTypeOK
  <2>2. r.at \in Address /\ r.bytes \in Requests
    BY <2>1
  <2>3. r.at \in Nat
    BY <2>2, HeapAssumption DEF Address
  <2> QED BY <2>2, <2>3, RequestsAssumption
<1>4. r.at = b + 16
  BY <1>3 DEF Header
<1>5. \A c \in Blocks : b < c => EndOf(b) <= c
  BY <1>1 DEF IInv, BlocksTileHeap
<1>6. EndOf(b) <= HeapEnd
  <2>1. CASE b = head
    BY <2>1, HeapAssumption DEF IInv, BlocksTileHeap
  <2>2. CASE b # head
    BY <1>1, <1>2, <2>2 DEF IInv, BlocksTileHeap
  <2> QED BY <2>1, <2>2
<1> HIDE DEF b
<1>7. EndOf(b) = b + 16 + header[b].size
  BY DEF EndOf, Header
<1>8. r.at + r.bytes <= EndOf(b) /\ EndOf(b) \in Nat
  BY <1>1, <1>2, <1>3, <1>4, <1>7
<1>9. \A c \in Blocks : c \in Nat /\ (c <= b \/ EndOf(b) <= c)
  BY <1>1, <1>2, <1>5
<1> QED BY <1>1, <1>2, <1>3, <1>4, <1>6, <1>8, <1>9 DEF b

\* Memory that malloc has handed out is handed out once, lies in the heap and
\* is clear of the headers, which malloc writes at any later call.
THEOREM RegionsStayApart == HeapSpec => []RegionsApart
<1>1. IInv => RegionsApart
  <2> SUFFICES ASSUME IInv, NEW r \in granted
               PROVE  /\ HeapStart <= r.at /\ r.at + r.bytes <= HeapEnd
                      /\ \A b \in Blocks : Apart(r.at, r.bytes, b, Header)
                      /\ \A s \in granted : r = s \/ Apart(r.at, r.bytes, s.at, s.bytes)
    BY DEF RegionsApart
  <2>1. HeapStart <= r.at /\ r.at + r.bytes <= HeapEnd
    <3>1. r.at \in Address
      BY DEF IInv, HeapTypeOK
    <3> QED BY <3>1, RegionInBlock, HeapAssumption DEF Address
  <2>2. \A b \in Blocks : Apart(r.at, r.bytes, b, Header)
    BY RegionInBlock DEF Apart, Header
  <2>3. ASSUME NEW s \in granted, r # s
        PROVE  Apart(r.at, r.bytes, s.at, s.bytes)
    <3>1. r.at # s.at
      BY <2>3 DEF IInv, RegionsAreBlocks
    <3> DEFINE b == r.at - Header
               c == s.at - Header
    <3>2. /\ r.at = b + 16 /\ r.at + r.bytes <= EndOf(b) /\ b \in Blocks /\ b \in Nat
          /\ r.bytes \in Nat /\ EndOf(b) \in Nat
          /\ c <= b \/ EndOf(b) <= c
      BY RegionInBlock
    <3>3. /\ s.at = c + 16 /\ s.at + s.bytes <= EndOf(c) /\ c \in Nat
          /\ s.bytes \in Nat /\ EndOf(c) \in Nat
          /\ b <= c \/ EndOf(c) <= b
      BY RegionInBlock
    <3> HIDE DEF b, c
    <3> QED BY <3>1, <3>2, <3>3 DEF Apart
  <2> QED BY <2>1, <2>2, <2>3
<1> QED BY <1>1, Inductive, PTL

\* Uncached memory and the cached headers never meet in a cache line.
THEOREM LinesStayApart == HeapSpec => []LinesNotShared
<1>1. IInv => LinesNotShared
  <2> SUFFICES ASSUME IInv, NEW r \in granted, NEW b \in Blocks,
                      NEW x \in {r.at, r.at + r.bytes - 1}
               PROVE  x \div Line # b \div Line
    BY DEF LinesNotShared
  <2> DEFINE c == r.at - Header
  <2>1. /\ c \in Blocks /\ c \in Nat /\ r.at = c + 16 /\ r.bytes \in Nat
        /\ 0 < r.bytes /\ r.at + r.bytes <= EndOf(c)
        /\ b \in Nat /\ (b <= c \/ EndOf(c) <= b)
    BY RegionInBlock
  <2>2. b % 16 = 0 /\ c % 16 = 0
    BY <2>1 DEF IInv, OnLines, Line
  <2> HIDE DEF c
  <2>3. x \in Nat /\ (x >= b + 16 \/ x < b) /\ EndOf(c) \in Int
    BY <2>1, RegionInBlock
  <2> QED BY <2>1, <2>2, <2>3 DEF Line
<1> QED BY <1>1, Inductive, PTL

\* What is handed out is safe from other regions and from the list.
THEOREM RegionsStaySafe == HeapSpec => []RegionsSafe
  BY RegionsStayApart, LinesStayApart, PTL DEF RegionsSafe

\* First fit misses no block that could serve the request.
THEOREM FailureIsReal == HeapSpec => FailsOnlyWhenFull
<1>1. IInv /\ OutOfMemory =>
        \A b \in Blocks : header[b].is_free => header[b].size < numbytes_aligned + Header
  <2> SUFFICES ASSUME IInv, OutOfMemory, NEW b \in Blocks, header[b].is_free
               PROVE  header[b].size < numbytes_aligned + Header
    OBVIOUS
  <2>1. b = head /\ malloc_pc = "find" /\ ~Fits
    BY DEF IInv, BlocksTileHeap, OutOfMemory
  <2>2. header[head].size \in Nat /\ numbytes_aligned \in Nat
    BY <2>1, HeapAssumption DEF IInv, HeapTypeOK, BlockInfo
  <2>3. CASE block = head
    BY <2>1, <2>2, <2>3, FitsHead DEF IInv, BlocksTileHeap, Header
  <2>4. CASE block # head
    BY <2>1, <2>4 DEF IInv, Finding
  <2> QED BY <2>1, <2>3, <2>4
<1> QED BY <1>1, Inductive, PTL DEF FailsOnlyWhenFull

\* The next block lies below: the list cannot come back to where it was.
NextBelow == \A b \in Blocks : header[b].next # Null => header[b].next < b

LEMMA NextStaysBelow == HeapSpec => []NextBelow
<1>1. HeapInit => NextBelow
  BY DEF HeapInit, NextBelow, Blocks
<1>2. IInv /\ NextBelow /\ [HeapNext]_heap_vars => NextBelow'
  <2> SUFFICES ASSUME IInv, NextBelow, [HeapNext]_heap_vars PROVE NextBelow'
    OBVIOUS
  <2>1. CASE SplitBlock
    <3> DEFINE new == head + Header + numbytes_aligned
    <3>1. /\ Blocks' = Blocks \cup {new} /\ header'[new].next = head
          /\ header'[head].next = header[head].next
          /\ \A b \in Blocks \ {head} : header'[b] = header[b]
      BY <2>1, SplitHead
    <3>2. head < new /\ head \in Blocks
      <4>1. head \in Nat /\ head \in Blocks
        BY HeapAssumption DEF IInv, HeapTypeOK, Address
      <4>2. numbytes_aligned \in Nat
        BY DEF IInv, HeapTypeOK
      <4> QED BY <4>1, <4>2 DEF Header
    <3> HIDE DEF new
    <3> QED BY <3>1, <3>2 DEF NextBelow
  <2>2. CASE ~SplitBlock
    <3>1. UNCHANGED header
      BY <2>2 DEF HeapNext, heap_vars, heap, malloc, NextBlock, OutOfMemory, audio_init_buffer,
                  display_init_buffer, free
    <3> QED BY <3>1 DEF NextBelow, Blocks
  <2> QED BY <2>1, <2>2
<1> QED BY <1>1, <1>2, Inductive, PTL DEF HeapSpec

\* What find_free_block needs to come to an end, whatever the list: each step
\* leads to a block further down.
THEOREM SearchDescends == HeapSpec => [][NextBlock => block' \in Blocks /\ block' < block]_heap_vars
<1>1. IInv /\ NextBelow /\ NextBlock => block' \in Blocks /\ block' < block
  BY DEF IInv, Finding, NextIsBlock, NextBelow, NextBlock
<1> QED BY <1>1, Inductive, NextStaysBelow, PTL
=============================================================================
