------------------------------- MODULE MCGame -------------------------------
(* A small screen with letters of 2 x 2 and 1 x 2, a period of 4 frames and   *)
(* an int that overflows within a few periods.                                *)
EXTENDS Game

MCW == [o \in Objects |-> IF o \in {0, 2} THEN 1 ELSE 2]
MCH == [o \in Objects |-> 2]
MCStart == <<3, 2>>
MCSpawnAt == <<1, 2, 3>>
=============================================================================
