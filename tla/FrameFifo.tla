------------------------------ MODULE FrameFifo ------------------------------
(***************************************************************************)
(* What the display promises its client: a picture that is submitted       *)
(* appears on the screen whole, in the order of submission, and stays      *)
(* there until the next one replaces it.                                   *)
(***************************************************************************)
EXTENDS Naturals, Sequences

CONSTANTS Pictures, Blank, Capacity

VARIABLES
  waiting,   \* pictures submitted and not shown yet, the oldest first
  onscreen   \* the picture on the screen

vars == <<waiting, onscreen>>

Init == waiting = <<>> /\ onscreen = Blank

Start ==
  /\ waiting' = <<>>
  /\ onscreen' = Blank

Submit(p) ==
  /\ Len(waiting) < Capacity
  /\ waiting' = Append(waiting, p)
  /\ UNCHANGED onscreen

Advance ==
  /\ waiting # <<>>
  /\ onscreen' = Head(waiting)
  /\ waiting' = Tail(waiting)

Next == Start \/ Advance \/ \E p \in Pictures \cup {Blank} : Submit(p)

Spec == Init /\ [][Next]_vars
=============================================================================
