------------------------------ MODULE MCDrivers ------------------------------
(***************************************************************************)
(* The heap, the controller, the console and the graphics library share no *)
(* state, so that a behaviour need only show one of them at work: driver   *)
(* says which, and the others stay as they begin.                          *)
(*                                                                         *)
(* The heap: requests around the size of a cache line, and one that never  *)
(* fits.  The console: buffers of 16 characters and a viewer of 8, so that *)
(* long messages take two chunks; a text long enough to reach behind the   *)
(* prefix that println_u copies.  Graphics: a surface of 2 by 2 pixels;    *)
(* sprites smaller, larger and as large, none of whose pixels looks like   *)
(* its neighbours, at every place that matters.                            *)
(***************************************************************************)
EXTENDS Malloc, Joybus, Console, Graphics

MCRequests == {0, 1, 15, 16, 17, 40, 200}

A == 65
B == 66
C == 67

MCTexts   == {<<>>, <<C>>, <<B, A, C, B, A, C, B>>, <<A, B, C, A, B, C, A, B, C, A, B, C, A, B, C>>}
MCValues  == {0, 110, 128, 255}
MCBases   == {10, 16}
MCViewers == {"memory", "magic", "inverted", "nothing"}

MCColors == 0..2
MCOpaque == {1}
MCBlend  == [pair \in MCColors \X MCColors |-> (pair[1] + 2 * pair[2]) % 3]

Sprite(w, h) ==
  [width |-> w, height |-> h, buffer |-> [k \in 1..(w * h) |-> k % 3]]

MCSprites ==
  {Sprite(1, 1), Sprite(2, 2), Sprite(4, 1), Sprite(1, 3)} \cup
  {[width |-> 2, height |-> 2, buffer |-> <<>>]}

MCXs == -4..2
MCYs == -3..2

VARIABLE driver

DriversInit ==
  /\ driver \in {"heap", "pad", "console", "canvas"}
  /\ HeapInit /\ PadInit /\ ConsoleInit /\ Init
  /\ driver # "pad" => input = {} /\ line = NotCached
  /\ driver # "console" => kind = "memory"
  /\ driver # "canvas" => buffer[0] = 0

DriversNext ==
  \/ driver = "heap" /\ HeapNext /\ UNCHANGED <<driver, pad_vars, console_vars, vars>>
  \/ driver = "pad" /\ PadNext /\ UNCHANGED <<driver, heap_vars, console_vars, vars>>
  \/ driver = "console" /\ ConsoleNext /\ UNCHANGED <<driver, heap_vars, pad_vars, vars>>
  \/ driver = "canvas" /\ Next /\ UNCHANGED <<driver, heap_vars, pad_vars, console_vars>>

\* The fairness of each driver, in behaviours where it is at work.
DriversSpec ==
  /\ DriversInit /\ [][DriversNext]_<<driver, heap_vars, pad_vars, console_vars, vars>>
  /\ WF_heap_vars(driver = "heap" /\ Search)
  /\ WF_pad_vars(driver = "pad" /\ Si) /\ SF_pad_vars(driver = "pad" /\ VBlank)
  /\ SF_pad_vars(driver = "pad" /\ HandlerStart) /\ WF_pad_vars(driver = "pad" /\ Branches)
  /\ SF_pad_vars(driver = "pad" /\ Main) /\ WF_pad_vars(driver = "pad" /\ LeaveCritical)
  /\ WF_console_vars(driver = "console" /\ isviewer_write)
  /\ WF_vars(driver = "canvas" /\ Draw)
=============================================================================
