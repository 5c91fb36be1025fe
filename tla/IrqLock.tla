------------------------------- MODULE IrqLock -------------------------------
(***************************************************************************)
(* What the kernel promises about interrupt_disable/interrupt_enable: they *)
(* are a lock that the thread side of the kernel takes against the         *)
(* interrupt handler.  The handler starts only while the lock is free, it  *)
(* is never entered a second time before it has returned, and the thread   *)
(* neither takes nor frees the lock while the handler runs.                *)
(***************************************************************************)
VARIABLES
  locked,   \* the thread is between its outermost disable and enable
  handling  \* the interrupt handler is running

vars == <<locked, handling>>

Init == locked = FALSE /\ handling = FALSE

Lock ==
  /\ ~locked /\ ~handling
  /\ locked' = TRUE
  /\ UNCHANGED handling

Unlock ==
  /\ locked /\ ~handling
  /\ locked' = FALSE
  /\ UNCHANGED handling

HandlerStart ==
  /\ ~locked /\ ~handling
  /\ handling' = TRUE
  /\ UNCHANGED locked

HandlerEnd ==
  /\ handling
  /\ handling' = FALSE
  /\ UNCHANGED locked

Next == Lock \/ Unlock \/ HandlerStart \/ HandlerEnd

Spec == Init /\ [][Next]_vars
=============================================================================
