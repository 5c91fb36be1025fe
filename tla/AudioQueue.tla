----------------------------- MODULE AudioQueue -----------------------------
(***************************************************************************)
(* audio.c: a ring of N sample buffers between audio_play_square_wave,     *)
(* which fills them, and the AI, which plays them out of a DMA queue.      *)
(* __audio_callback moves buffers from the ring to the AI; it is called by *)
(* the thread and by the AI interrupt.  The AI runs on while the callback  *)
(* looks at its status, so the callback is modelled read by read; what     *)
(* else happens between interrupt_disable and interrupt_enable is one      *)
(* step (ImplementsLock in Interrupts_proofs).                             *)
(***************************************************************************)
EXTENDS Integers, Sequences, FiniteSets

CONSTANT N   \* NUM_BUFFERS

ASSUME NAssumption == N \in Nat /\ N >= 3

\* The AI reports FULL when it holds this many buffers: one that it plays and
\* one that it plays next.
DmaDepth == 2

VARIABLES
  playing,   \* __now_playing
  acquired,  \* __acquired_mask, as a set of indexes
  pending,   \* __pending_mask, as a set of indexes
  dma,       \* buffers the AI holds; the head is the one it plays
  irq,       \* the AI interrupt is raised
  handler,   \* interrupt_handler is in its AI branch
  callback,  \* where __audio_callback is, "off" when it does not run
  full,      \* __audio_callback's local status: the AI was full
  pc,        \* where the thread is
  next,      \* audio_get_buffer's local next
  buffer,    \* audio_play_square_wave's local buffer
  paced      \* history: audio_get_buffer has not been called with the next
             \* buffer pending, so that it never had to wait

vars == <<playing, acquired, pending, dma, irq, handler, callback, full, pc,
          next, buffer, paced>>

ring   == <<playing, acquired, pending>>
thread == <<pc, next, buffer>>

Buffers  == 0..(N - 1)
NoBuffer == -1

InDma == {dma[i] : i \in 1..Len(dma)}

\* Mutant: the index runs off the ring.
Succ_NoWrap(b) == b + 1

Succ(b) == IF b + 1 = N THEN 0 ELSE b + 1

\* audio_init
Init ==
  /\ playing = 0 /\ acquired = {} /\ pending = {}
  /\ dma = <<>> /\ irq = FALSE
  /\ handler = FALSE /\ callback = "off" /\ full = FALSE
  /\ pc = "idle" /\ next = 0 /\ buffer = NoBuffer /\ paced = TRUE

------------------------------------------------------------------------------
(* The AI: it interrupts when it starts to play a buffer.                   *)

AiFinish ==
  /\ dma # <<>>
  /\ dma' = Tail(dma)
  /\ irq' = (irq \/ Len(dma) > 1)
  /\ UNCHANGED <<ring, handler, callback, full, thread, paced>>

\* Writes to AI address, length and control.
StartDma(b) ==
  /\ dma' = Append(dma, b)
  /\ irq' = (irq \/ dma = <<>>)

------------------------------------------------------------------------------
(* __audio_callback and the interrupt that calls it.                        *)

\* interrupt_handler's AI branch, when no critical section is open.
HandlerStart ==
  /\ irq /\ ~handler /\ callback = "off"
  /\ pc \in {"idle", "window", "fill"}
  /\ irq' = FALSE
  /\ handler' = TRUE
  /\ callback' = "status"
  /\ UNCHANGED <<ring, dma, full, thread, paced>>

ReadStatus ==
  /\ callback = "status"
  /\ full' = (Len(dma) = DmaDepth)
  /\ callback' = "test"
  /\ UNCHANGED <<ring, dma, irq, handler, thread, paced>>

\* Mutant: looks for the buffer that plays, not for the one after it.
CanEnqueue_TestsPlaying == ~full /\ playing \in pending

CanEnqueue == ~full /\ Succ(playing) \in pending

\* Mutant: the buffer sent stays marked as pending.
Enqueue_KeepsPending ==
  /\ callback = "test" /\ CanEnqueue
  /\ StartDma(Succ(playing))
  /\ playing' = Succ(playing)
  /\ callback' = "status"
  /\ UNCHANGED <<acquired, pending, handler, full, thread, paced>>

\* Mutant: __now_playing is left behind.
Enqueue_KeepsPlaying ==
  /\ callback = "test" /\ CanEnqueue
  /\ StartDma(Succ(playing))
  /\ pending' = pending \ {Succ(playing)}
  /\ callback' = "status"
  /\ UNCHANGED <<playing, acquired, handler, full, thread, paced>>

Enqueue ==
  /\ callback = "test" /\ CanEnqueue
  /\ StartDma(Succ(playing))
  /\ playing' = Succ(playing)
  /\ pending' = pending \ {Succ(playing)}
  /\ callback' = "status"
  /\ UNCHANGED <<acquired, handler, full, thread, paced>>

CallbackReturn ==
  /\ callback = "test" /\ ~CanEnqueue
  /\ callback' = "off"
  /\ IF handler
       THEN handler' = FALSE /\ UNCHANGED pc
       ELSE /\ pc' = IF pc = "get_callback" THEN "window" ELSE "idle"
            /\ UNCHANGED handler
  /\ UNCHANGED <<ring, dma, irq, full, next, buffer, paced>>

------------------------------------------------------------------------------
(* The thread: audio_get_buffer, audio_play_buffer and their caller         *)
(* audio_play_square_wave.                                                  *)

\* A raised interrupt is taken before the next instruction of a thread that
\* has interrupts on; in the window of audio_get_buffer, which is a few
\* instructions long, it may also miss its turn.
ThreadRuns ==
  /\ ~handler /\ callback = "off"
  /\ pc \in {"idle", "fill"} => ~irq

\* interrupt_disable, and next is computed, once.
CallGet ==
  /\ ThreadRuns /\ pc = "idle"
  /\ next' = Succ(playing)
  /\ pc' = "get_test"
  /\ paced' = (paced /\ Succ(playing) \notin pending)
  /\ UNCHANGED <<ring, dma, irq, handler, callback, full, buffer>>

\* Mutant: does not wait for a pending buffer.
TestNext_NoWait ==
  /\ ThreadRuns /\ pc = "get_test"
  /\ acquired' = acquired \cup {next}
  /\ buffer' = next /\ pc' = "fill"
  /\ UNCHANGED <<playing, pending, dma, irq, handler, callback, full, next, paced>>

\* The loop's condition: call __audio_callback, or take the buffer.
TestNext ==
  /\ ThreadRuns /\ pc = "get_test"
  /\ IF next \in pending
       THEN /\ callback' = "status" /\ pc' = "get_callback"
            /\ UNCHANGED <<acquired, buffer>>
       ELSE /\ acquired' = acquired \cup {next}
            /\ buffer' = next /\ pc' = "fill"
            /\ UNCHANGED callback
  /\ UNCHANGED <<playing, pending, dma, irq, handler, full, next, paced>>

\* interrupt_enable, interrupt_disable: the window for other interrupts.
CloseWindow ==
  /\ ThreadRuns /\ pc = "window"
  /\ pc' = "get_test"
  /\ UNCHANGED <<ring, dma, irq, handler, callback, full, next, buffer, paced>>

\* Mutant: leaves it to the interrupt to start the AI.
audio_play_buffer_NoKick ==
  /\ ThreadRuns /\ pc = "fill"
  /\ acquired' = acquired \ {buffer}
  /\ pending' = pending \cup {buffer}
  /\ pc' = "idle"
  /\ UNCHANGED <<playing, dma, irq, handler, callback, full, next, buffer, paced>>

\* The buffer is full of samples.
audio_play_buffer ==
  /\ ThreadRuns /\ pc = "fill"
  /\ IF buffer \in Buffers /\ buffer \notin pending /\ buffer \in acquired
       THEN /\ acquired' = acquired \ {buffer}
            /\ pending' = pending \cup {buffer}
            /\ callback' = "status" /\ pc' = "kick"
       ELSE /\ pc' = "abort"
            /\ UNCHANGED <<acquired, pending, callback>>
  /\ UNCHANGED <<playing, dma, irq, handler, full, next, buffer, paced>>

\* The sound ends within the buffer: audio_play_square_wave drops it, still
\* acquired.
DropBuffer ==
  /\ ThreadRuns /\ pc = "fill"
  /\ pc' = "idle"
  /\ UNCHANGED <<ring, dma, irq, handler, callback, full, next, buffer, paced>>

Next ==
  \/ AiFinish
  \/ HandlerStart \/ ReadStatus \/ Enqueue \/ CallbackReturn
  \/ CallGet \/ TestNext \/ CloseWindow \/ audio_play_buffer \/ DropBuffer

Spec == Init /\ [][Next]_vars

\* The AI plays what it holds, the CPU runs, a raised interrupt is served
\* (Serviced in Interrupts) although windows open and close.
Fairness ==
  /\ WF_vars(AiFinish) /\ SF_vars(HandlerStart)
  /\ WF_vars(ReadStatus \/ Enqueue \/ CallbackReturn)
  /\ WF_vars(TestNext \/ CloseWindow)

FairSpec == Spec /\ Fairness

------------------------------------------------------------------------------
TypeOK ==
  /\ playing \in Buffers /\ next \in Buffers /\ buffer \in -1..(N - 1)
  /\ acquired \in SUBSET Buffers /\ pending \in SUBSET Buffers
  /\ dma \in Seq(Buffers) /\ Len(dma) <= DmaDepth
  /\ irq \in BOOLEAN /\ handler \in BOOLEAN /\ full \in BOOLEAN
  /\ callback \in {"off", "status", "test"}
  /\ pc \in {"idle", "get_test", "get_callback", "window", "fill", "kick", "abort"}
  /\ paced \in BOOLEAN

\* The assertions of audio_play_buffer hold for a buffer that
\* audio_get_buffer returned, also one that it had to wait for and one that an
\* earlier sound has dropped.
PlayAssertsHold ==
  pc = "fill" => buffer \in Buffers /\ buffer \in acquired \ pending

\* The AI is given consecutive buffers of the ring, ending with __now_playing.
DmaInRingOrder ==
  /\ dma # <<>> => dma[Len(dma)] = playing
  /\ Len(dma) = 2 => dma[2] = Succ(dma[1])

\* Buffers go from the client to the AI in turn, and each only once.
BuffersInTurn == PlayAssertsHold /\ DmaInRingOrder

\* No wakeup is lost: when neither the thread nor the handler is going to call
\* the callback, a next buffer that is pending has a full AI before it or an
\* interrupt that is raised.
NoLostWakeup ==
  pc \in {"idle", "fill"} /\ ~handler /\ Succ(playing) \in pending =>
    irq \/ Len(dma) = DmaDepth

\* audio_get_buffer returns: its loop does not spin for ever.
GetReturns == pc = "get_test" ~> pc = "fill"

(***************************************************************************)
(* What the comments of audio.c claim.  A client that asks for a buffer    *)
(* only when the next one is not pending gets it; one that makes           *)
(* audio_get_buffer wait gets a buffer that the loop has just handed to    *)
(* the AI, fills it while it is played and sends it out of turn.           *)
(***************************************************************************)

\* audio.c:112: the buffer that audio_get_buffer returns has been emptied.
NeverFillWhilePlaying == pc = "fill" => buffer \notin InDma

\* It has for a client that never made audio_get_buffer wait.
PacedNeverOverwrites == paced => NeverFillWhilePlaying

\* audio.c:29: the callback sends buffers until the AI is full or none is
\* left, for such a client.
SendsAsManyAsPossible ==
  [][CallbackReturn /\ paced => full \/ pending = {}]_vars

\* audio.c:22: a pending buffer of such a client will be played.
PendingIsPlayed == []paced => \A b \in Buffers : b \in pending ~> b \in InDma

\* Neither the client nor a buffer waits for ever.
NobodyWaitsForever == GetReturns /\ PendingIsPlayed
=============================================================================
