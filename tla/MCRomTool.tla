----------------------------- MODULE MCRomTool -----------------------------
(* A header of 4096 bytes is 8 units; the header files are too small, short,  *)
(* right and long.  One size is negative.                                    *)
EXTENDS RomTool

MCFileSizes == {-1, 0, 4, 5}

MCAligns == {-1, 1, 4, 6}

MCNumbers ==
  {[length |-> 1, number |-> 8, suffix |-> "B"]} \cup
  {[length |-> 2, number |-> n, suffix |-> s] : n \in {3, 4}, s \in {"B", "K", "M"}} \cup
  {[length |-> 2, number |-> n, suffix |-> "B"] : n \in {-4, 22}}
=============================================================================
