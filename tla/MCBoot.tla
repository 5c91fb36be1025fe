------------------------------- MODULE MCBoot -------------------------------
(* Banks of 8 units: 1 is kept, 3 are reserved, stage2 is 2 of them.  ROMs   *)
(* with up to two segments, which may overlap, be empty, not be PT_LOAD, not *)
(* be aligned, lie in memory that is not there, or be the user program's.    *)
EXTENDS Boot

Segments ==
  {[load |-> TRUE, vaddr |-> 0, size |-> 2, aligned |-> TRUE, user |-> FALSE],
   [load |-> TRUE, vaddr |-> 1, size |-> 4, aligned |-> TRUE, user |-> FALSE],
   [load |-> TRUE, vaddr |-> 2, size |-> 0, aligned |-> FALSE, user |-> FALSE],
   [load |-> TRUE, vaddr |-> 3, size |-> 1, aligned |-> FALSE, user |-> FALSE],
   [load |-> FALSE, vaddr |-> 20, size |-> 9, aligned |-> FALSE, user |-> FALSE],
   [load |-> TRUE, vaddr |-> 11, size |-> 2, aligned |-> TRUE, user |-> FALSE],
   [load |-> TRUE, vaddr |-> 3, size |-> 2, aligned |-> TRUE, user |-> TRUE]}

Elfs ==
  {[elf |-> 2, is64 |-> FALSE, little |-> FALSE, phdrs |-> p] :
     p \in {<<>>} \cup {<<s>> : s \in Segments} \cup {<<s, t>> : s, t \in Segments}}

MCRoms ==
  Elfs \cup {[elf |-> e, is64 |-> b, little |-> l, phdrs |-> <<>>] :
              e \in {0, 2, 3}, b, l \in BOOLEAN}
=============================================================================
