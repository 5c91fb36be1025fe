---------------------------- MODULE DisplayQueue ----------------------------
(***************************************************************************)
(* display.c: a ring of N framebuffers between a client that draws and the *)
(* vertical blank interrupt that shows.  The client holds one surface at a *)
(* time, as the game does.  A critical section between interrupt_disable   *)
(* and interrupt_enable is one step, and so is the interrupt handler: that *)
(* is what ImplementsLock in Interrupts_proofs establishes.                *)
(***************************************************************************)
EXTENDS Integers, Sequences, FiniteSets

CONSTANTS
  N,         \* NUM_BUFFERS
  Pictures,  \* what a client may draw
  Blank,     \* a zeroed framebuffer
  Sizes      \* <<width, height>> that the client may ask for

ASSUME NAssumption        == N \in Nat /\ N >= 2
ASSUME PicturesAssumption == Blank \notin Pictures
ASSUME SizesAssumption    == Sizes \subseteq Int \X Int

VARIABLES
  showing,   \* __now_showing
  acquired,  \* __acquired_mask, as a set of indexes
  pending,   \* __pending_mask, as a set of indexes
  content,   \* what is in each framebuffer
  origin,    \* VI origin register: the buffer the screen is scanned from
  vi,        \* whether the VI interrupt is unmasked
  pc,        \* where the client is
  surface    \* the surface the client holds

vars == <<showing, acquired, pending, content, origin, vi, pc, surface>>

Buffers == 0..(N - 1)
NoBuffer == -1

\* A bug for the runs to catch: no wrap around.
__display_next_buffer_NoWrap(id) == id + 1

__display_next_buffer(id) == IF id + 1 = N THEN 0 ELSE id + 1

\* A bug for the runs to catch: no wrap around in the search.
Ahead_NoWrap(id, k) == id + k

\* The buffer that k calls of __display_next_buffer reach from id.
Ahead(id, k) == IF id + k < N THEN id + k ELSE id + k - N

Init ==
  /\ showing = -1 /\ acquired = {} /\ pending = {}
  /\ content \in [Buffers -> {Blank}] /\ origin = NoBuffer
  /\ vi = FALSE /\ pc = "off" /\ surface = NoBuffer

------------------------------------------------------------------------------
ValidSize(width, height) ==
  /\ width > 0 /\ height > 0
  /\ width <= 640 /\ height <= 576
  /\ width % 2 = 0

\* New buffers are allocated and zeroed, and buffer 0 is put on the screen.
\* The check that the allocation succeeded never fires (see Malloc).
display_init(width, height) ==
  /\ pc \in {"off", "idle"}
  /\ IF ValidSize(width, height)
       THEN /\ content' = [b \in Buffers |-> Blank]
            /\ showing' = 0 /\ acquired' = {} /\ pending' = {} /\ origin' = 0
            /\ pc' = "init"
       ELSE /\ pc' = "abort"
            /\ UNCHANGED <<content, showing, acquired, pending, origin>>
  /\ UNCHANGED <<vi, surface>>

\* interrupt_set_VI, after display_init's critical section.
UnmaskVI ==
  /\ pc = "init"
  /\ vi' = TRUE
  /\ pc' = "idle"
  /\ UNCHANGED <<showing, acquired, pending, content, origin, surface>>

CallGet ==
  /\ pc = "idle"
  /\ pc' = "getting"
  /\ UNCHANGED <<showing, acquired, pending, content, origin, vi, surface>>

\* A bug for the runs to catch: a pending buffer is handed out.
Free_IgnoresPending(k) == Ahead(showing, k) \notin acquired

Free(k) == Ahead(showing, k) \notin acquired \cup pending

\* A bug for the runs to catch: any free buffer is handed out.
display_try_get_AnyFree ==
  /\ pc = "getting"
  /\ \/ \E k \in 1..(N - 1) :
          /\ Free(k)
          /\ surface' = Ahead(showing, k)
          /\ acquired' = acquired \cup {Ahead(showing, k)}
          /\ pc' = "drawing"
     \/ /\ \A k \in 1..(N - 1) : ~Free(k)
        /\ UNCHANGED <<surface, acquired, pc>>
  /\ UNCHANGED <<showing, pending, content, origin, vi>>

\* One turn of display_get's loop: the nearest free buffer, if there is one.
display_try_get ==
  /\ pc = "getting"
  /\ \/ \E k \in 1..(N - 1) :
          /\ Free(k) /\ \A j \in 1..(k - 1) : ~Free(j)
          /\ surface' = Ahead(showing, k)
          /\ acquired' = acquired \cup {Ahead(showing, k)}
          /\ pc' = "drawing"
     \/ /\ \A k \in 1..(N - 1) : ~Free(k)
        /\ UNCHANGED <<surface, acquired, pc>>
  /\ UNCHANGED <<showing, pending, content, origin, vi>>

\* graphics.c writes to the surface at any time between get and show.
Draw(p) ==
  /\ pc = "drawing"
  /\ content' = [content EXCEPT ![surface] = p]
  /\ UNCHANGED <<showing, acquired, pending, origin, vi, pc, surface>>

\* A bug for the runs to catch: the acquired bit is not cleared.
display_show_KeepsAcquired ==
  /\ pc = "drawing"
  /\ IF surface \in Buffers /\ surface \notin pending /\ surface \in acquired
       THEN /\ pending' = pending \cup {surface}
            /\ pc' = "idle" /\ surface' = NoBuffer
            /\ UNCHANGED acquired
       ELSE /\ pc' = "abort"
            /\ UNCHANGED <<acquired, pending, surface>>
  /\ UNCHANGED <<showing, content, origin, vi>>

display_show ==
  /\ pc = "drawing"
  /\ IF surface \in Buffers /\ surface \notin pending /\ surface \in acquired
       THEN /\ acquired' = acquired \ {surface}
            /\ pending' = pending \cup {surface}
            /\ pc' = "idle" /\ surface' = NoBuffer
       ELSE /\ pc' = "abort"
            /\ UNCHANGED <<acquired, pending, surface>>
  /\ UNCHANGED <<showing, content, origin, vi>>

\* Two bugs for the runs to catch: the next buffer is shown whether or not it
\* is pending; its pending bit is not cleared.
__display_callback_Unchecked ==
  /\ vi /\ pc # "abort"
  /\ showing' = __display_next_buffer(showing)
  /\ pending' = pending \ {showing'}
  /\ origin' = showing'
  /\ UNCHANGED <<acquired, content, vi, pc, surface>>

__display_callback_Replays ==
  /\ vi /\ pc # "abort"
  /\ LET next == __display_next_buffer(showing)
     IN  showing' = IF next \in pending THEN next ELSE showing
  /\ origin' = showing'
  /\ UNCHANGED <<pending, acquired, content, vi, pc, surface>>

\* The VI interrupt.  After a failed assertion interrupts stay disabled.
__display_callback ==
  /\ vi /\ pc # "abort"
  /\ LET next == __display_next_buffer(showing)
     IN  IF next \in pending
           THEN showing' = next /\ pending' = pending \ {next}
           ELSE UNCHANGED <<showing, pending>>
  /\ origin' = showing'
  /\ UNCHANGED <<acquired, content, vi, pc, surface>>

Next ==
  \/ \E size \in Sizes : display_init(size[1], size[2])
  \/ UnmaskVI \/ CallGet \/ display_try_get
  \/ \E p \in Pictures : Draw(p)
  \/ display_show
  \/ __display_callback

Spec == Init /\ [][Next]_vars

\* The VI raises an interrupt every field and the kernel serves it (Serviced
\* in Interrupts); display_get's loop and display_init's tail keep running.
FairSpec == Spec /\ WF_vars(__display_callback) /\ WF_vars(display_try_get)
                 /\ WF_vars(UnmaskVI)

------------------------------------------------------------------------------
TypeOK ==
  /\ showing \in -1..(N - 1) /\ origin \in -1..(N - 1)
  /\ acquired \in SUBSET Buffers /\ pending \in SUBSET Buffers
  /\ content \in [Buffers -> Pictures \cup {Blank}]
  /\ vi \in BOOLEAN /\ surface \in -1..(N - 1)
  /\ pc \in {"off", "init", "idle", "getting", "drawing", "abort"}

\* The client never draws into the buffer that the screen is scanned from nor
\* into one that a vertical blank may put there before it is shown again.
NoTearing ==
  pc = "drawing" => surface \notin {origin, showing} \cup pending

\* The assertions of display_show hold for a surface that display_get returned.
ShowAssertsHold ==
  pc = "drawing" => surface \in Buffers /\ surface \in acquired \ pending

\* The surface drawn into is the client's alone.
SurfaceIsFree == NoTearing /\ ShowAssertsHold

\* Pending buffers follow the showing one without a gap, and the acquired one
\* comes next: the callback, which looks one buffer ahead, strands none.
RingInOrder ==
  \E p \in 0..(N - 1) :
    /\ pending = {Ahead(showing, k) : k \in 1..p}
    /\ acquired = {} \/ (p + 1 < N /\ acquired = {Ahead(showing, p + 1)})

Fifo == INSTANCE FrameFifo WITH
  Capacity <- N - 1,
  waiting  <- [k \in 1..Cardinality(pending) |-> content[Ahead(showing, k)]],
  onscreen <- IF origin = NoBuffer THEN Blank ELSE content[origin]

\* Pictures reach the screen whole, once, and in the order of display_show.
FifoSpec == Fifo!Spec

\* A picture that was submitted is shown, unless a later call with a bad size
\* aborts the kernel.
EveryPictureShown ==
  \A b \in Buffers : b \in pending ~> (b \notin pending \/ pc = "abort")

\* display_get's busy loop ends.
GetReturns == pc = "getting" ~> pc = "drawing"

\* Neither a picture nor the client waits for the other for ever.
NobodyWaitsForever == EveryPictureShown /\ GetReturns
=============================================================================
