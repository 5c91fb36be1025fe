------------------------- MODULE AudioQueue_proofs --------------------------
(***************************************************************************)
(* Proofs about the audio ring of AudioQueue, for any number of buffers.   *)
(***************************************************************************)
EXTENDS AudioQueue, TLAPS

\* Who is running: the callback runs for the handler, which has interrupted a
\* thread outside its critical sections, or for the thread.
WhoRuns ==
  /\ callback = "off" => ~handler /\ pc \notin {"get_callback", "kick"}
  /\ callback # "off" =>
       pc \in IF handler THEN {"idle", "window", "fill"} ELSE {"get_callback", "kick"}

\* The status that the callback has read may be out of date, but only because
\* the AI has finished a buffer since, and that raised the interrupt.
StatusRead ==
  callback = "test" =>
    /\ ~full => Len(dma) < DmaDepth
    /\ full  => irq \/ Len(dma) = DmaDepth

\* NoLostWakeup, wherever the callback does not run.
Awake ==
  callback = "off" /\ Succ(playing) \in pending => irq \/ Len(dma) = DmaDepth

IInv ==
  /\ TypeOK /\ WhoRuns /\ StatusRead /\ Awake
  /\ acquired \cap pending = {}
  /\ pc = "fill" => buffer \in acquired
  /\ DmaInRingOrder

------------------------------------------------------------------------------
LEMMA SuccInRing == ASSUME NEW b \in Buffers PROVE Succ(b) \in Buffers
BY NAssumption DEF Succ, Buffers

\* With three buffers or more the next one is not the one before.
LEMMA SuccTwice ==
  ASSUME NEW b \in Buffers
  PROVE  Succ(b) # b /\ Succ(Succ(b)) # b
BY NAssumption DEF Succ, Buffers

LEMMA InitIInv == Init => IInv
<1> SUFFICES ASSUME Init PROVE IInv
  OBVIOUS
<1>1. dma \in Seq(Buffers) /\ Len(dma) <= DmaDepth
  BY DEF Init, DmaDepth
<1>2. 0 \in Buffers /\ -1 \in -1..(N - 1)
  BY NAssumption DEF Buffers
<1>3. TypeOK
  BY <1>1, <1>2 DEF Init, TypeOK, NoBuffer
<1> QED BY <1>3 DEF Init, IInv, WhoRuns, StatusRead, Awake, DmaInRingOrder

\* The AI gets a second buffer or goes on to it.
LEMMA DmaType == TypeOK => dma \in Seq(Buffers) /\ Len(dma) \in {0, 1, 2}
<1> SUFFICES ASSUME TypeOK PROVE dma \in Seq(Buffers) /\ Len(dma) \in {0, 1, 2}
  OBVIOUS
<1> DEFINE n == Len(dma)
<1>1. dma \in Seq(Buffers) /\ n <= 2
  BY DEF TypeOK, DmaDepth
<1>2. n \in Nat
  BY <1>1
<1> HIDE DEF n
<1>3. n \in {0, 1, 2}
  BY <1>1, <1>2
<1> QED BY <1>1, <1>3 DEF n

LEMMA NotEmpty == ASSUME NEW q, Len(q) # 0 PROVE q # <<>>
<1>1. Len(<<>>) = 0
  OBVIOUS
<1> QED BY <1>1, Zenon

LEMMA AppendDma ==
  ASSUME TypeOK, NEW b \in Buffers, Len(dma) < DmaDepth
  PROVE  LET q == Append(dma, b) IN
         /\ q \in Seq(Buffers) /\ Len(q) <= DmaDepth
         /\ q # <<>> /\ q[Len(q)] = b
         /\ Len(q) = 2 => dma # <<>> /\ q[1] = dma[Len(dma)] /\ q[2] = b
<1> DEFINE q == Append(dma, b)
           n == Len(dma)
           m == Len(q)
<1>1. dma \in Seq(Buffers) /\ n \in {0, 1}
  BY DmaType DEF DmaDepth
<1>2. q \in Seq(Buffers) /\ m = n + 1
  BY <1>1
<1>3. q[n + 1] = b
  BY <1>1
<1>4. ASSUME n = 1
      PROVE  q[1] = dma[1]
  BY <1>1, <1>4
<1>5. n # 0 => dma # <<>>
  BY NotEmpty
<1>6. m # 0 => q # <<>>
  BY NotEmpty
<1> HIDE DEF q, n, m
<1>7. /\ q # <<>> /\ q[m] = b /\ m <= 2
      /\ m = 2 => dma # <<>> /\ q[1] = dma[n] /\ q[2] = b
  BY <1>1, <1>2, <1>3, <1>4, <1>5, <1>6
<1> QED BY <1>2, <1>7 DEF q, n, m, DmaDepth

LEMMA TailDma ==
  ASSUME TypeOK, dma # <<>>
  PROVE  /\ Tail(dma) \in Seq(Buffers) /\ Len(dma) \in {1, 2}
         /\ Len(Tail(dma)) = Len(dma) - 1
         /\ Tail(dma) # <<>> => Len(dma) = 2 /\ Tail(dma)[1] = dma[2]
<1>1. dma \in Seq(Buffers) /\ Len(dma) \in {1, 2}
  BY DmaType
<1>2. Tail(dma) \in Seq(Buffers) /\ Len(Tail(dma)) = Len(dma) - 1
  BY <1>1
<1>3. ASSUME Tail(dma) # <<>> PROVE Len(dma) = 2 /\ Tail(dma)[1] = dma[2]
  <2>1. Len(Tail(dma)) # 0
    BY <1>2, <1>3
  <2>2. Len(dma) = 2
    BY <1>1, <1>2, <2>1
  <2> QED BY <1>1, <2>2, SMTT(30)
<1> QED BY <1>1, <1>2, <1>3

LEMMA StepIInv == IInv /\ [Next]_vars => IInv'
<1> SUFFICES ASSUME IInv, [Next]_vars PROVE IInv'
  OBVIOUS
<1> USE DEF IInv, ring, thread
<1>1. CASE AiFinish
  <2> DEFINE n == Len(dma)
             m == Len(dma')
  <2>1. TypeOK'
    BY <1>1, TailDma DEF AiFinish, TypeOK, DmaDepth
  <2>2. n \in {1, 2} /\ m = n - 1 /\ irq' = (irq \/ n > 1)
    BY <1>1, TailDma DEF AiFinish
  <2>3. UNCHANGED <<playing, acquired, pending, handler, callback, full, pc, next, buffer>>
    BY <1>1 DEF AiFinish
  <2>4. StatusRead' /\ Awake' /\ WhoRuns'
    <3>1. Succ(playing)' = Succ(playing)
      BY <2>3 DEF Succ
    <3>2. /\ callback = "test" => (~full => n < 2) /\ (full => irq \/ n = 2)
          /\ callback = "off" /\ Succ(playing) \in pending => irq \/ n = 2
      BY DEF StatusRead, Awake, DmaDepth
    <3>3. WhoRuns'
      BY <2>3 DEF WhoRuns
    <3> HIDE DEF n, m
    <3>4. /\ callback' = "test" => (~full' => m < 2) /\ (full' => irq' \/ m = 2)
          /\ callback' = "off" /\ Succ(playing)' \in pending' => irq' \/ m = 2
      <4>1. m < 2
        BY <2>2
      <4>2. n = 2 => n > 1
        OBVIOUS
      <4>3. (irq => irq') /\ (n = 2 => irq')
        BY <2>2, <4>2, Zenon
      <4> QED BY <2>3, <3>1, <3>2, <4>1, <4>3, Zenon
    <3> QED BY <3>3, <3>4 DEF StatusRead, Awake, DmaDepth, n, m
  <2>5. DmaInRingOrder'
    BY <1>1, <2>2, TailDma DEF AiFinish, DmaInRingOrder
  <2> QED BY <2>1, <2>3, <2>4, <2>5
<1>2. CASE HandlerStart
  BY <1>2 DEF HandlerStart, TypeOK, WhoRuns, StatusRead, Awake, DmaInRingOrder
<1>3. CASE ReadStatus
  <2>1. Len(dma) \in {0, 1, 2}
    BY DmaType
  <2>2. TypeOK' /\ WhoRuns' /\ Awake' /\ DmaInRingOrder'
    BY <1>3 DEF ReadStatus, TypeOK, WhoRuns, Awake, DmaInRingOrder
  <2> DEFINE n == Len(dma)
  <2>3. n \in {0, 1, 2} /\ Len(dma') = n /\ full' = (n = 2)
    BY <1>3, <2>1 DEF ReadStatus, DmaDepth
  <2> HIDE DEF n
  <2>4. (~full' => n < 2) /\ (full' => n = 2)
    <3>1. n # 2 => n < 2
      BY <2>3
    <3> QED BY <2>3, <3>1, Zenon
  <2>5. StatusRead'
    BY <2>3, <2>4 DEF StatusRead, DmaDepth
  <2> QED BY <1>3, <2>2, <2>5 DEF ReadStatus
<1>4. CASE Enqueue
  <2> DEFINE b == Succ(playing)
  <2>1. b \in Buffers /\ Len(dma) < DmaDepth
    BY <1>4, SuccInRing DEF Enqueue, CanEnqueue, StatusRead, TypeOK
  <2>2. /\ dma' = Append(dma, b) /\ playing' = b /\ pending' = pending \ {b}
        /\ irq' \in BOOLEAN /\ callback' = "status"
        /\ UNCHANGED <<acquired, handler, full, pc, next, buffer, paced>>
    BY <1>4 DEF Enqueue, StartDma, TypeOK
  <2> HIDE DEF b
  <2>3. TypeOK'
    BY <2>1, <2>2, AppendDma DEF TypeOK
  <2>4. DmaInRingOrder'
    <3>1. dma' # <<>> => dma'[Len(dma')] = playing'
      BY <2>1, <2>2, AppendDma
    <3>2. Len(dma') = 2 => dma'[1] = playing /\ dma'[2] = b
      BY <2>1, <2>2, AppendDma DEF DmaInRingOrder
    <3> QED BY <3>1, <3>2 DEF DmaInRingOrder, b
  <2>5. WhoRuns' /\ StatusRead' /\ Awake'
    BY <1>4, <2>2 DEF Enqueue, WhoRuns, StatusRead, Awake
  <2> QED BY <2>2, <2>3, <2>4, <2>5
<1>5. CASE CallbackReturn
  <2>1. TypeOK' /\ DmaInRingOrder'
    BY <1>5 DEF CallbackReturn, TypeOK, DmaInRingOrder
  <2>2. WhoRuns' /\ StatusRead'
    BY <1>5 DEF CallbackReturn, WhoRuns, StatusRead, TypeOK
  <2>3. Awake'
    BY <1>5 DEF CallbackReturn, CanEnqueue, StatusRead, Awake, TypeOK
  <2> QED BY <1>5, <2>1, <2>2, <2>3 DEF CallbackReturn, WhoRuns
<1>6. CASE CallGet
  BY <1>6, SuccInRing DEF CallGet, ThreadRuns, TypeOK, WhoRuns, StatusRead, Awake, DmaInRingOrder
<1>7. CASE TestNext
  <2>1. TypeOK'
    <3>1. next \in -1..(N - 1)
      BY NAssumption DEF TypeOK, Buffers
    <3> QED BY <1>7, <3>1 DEF TestNext, TypeOK
  <2>2. WhoRuns' /\ StatusRead' /\ Awake' /\ DmaInRingOrder'
    BY <1>7 DEF TestNext, ThreadRuns, WhoRuns, StatusRead, Awake, DmaInRingOrder
  <2> QED BY <1>7, <2>1, <2>2 DEF TestNext
<1>8. CASE CloseWindow
  BY <1>8 DEF CloseWindow, ThreadRuns, TypeOK, WhoRuns, StatusRead, Awake, DmaInRingOrder
<1>9. CASE audio_play_buffer
  <2>1. TypeOK'
    BY <1>9 DEF audio_play_buffer, ThreadRuns, TypeOK
  <2>2. WhoRuns' /\ StatusRead' /\ Awake' /\ DmaInRingOrder'
    BY <1>9 DEF audio_play_buffer, ThreadRuns, WhoRuns, StatusRead, Awake, DmaInRingOrder
  <2> QED BY <1>9, <2>1, <2>2 DEF audio_play_buffer
<1>10. CASE DropBuffer
  BY <1>10 DEF DropBuffer, ThreadRuns, TypeOK, WhoRuns, StatusRead, Awake, DmaInRingOrder
<1>11. CASE UNCHANGED vars
  BY <1>11 DEF vars, TypeOK, WhoRuns, StatusRead, Awake, DmaInRingOrder
<1> QED BY <1>1, <1>2, <1>3, <1>4, <1>5, <1>6, <1>7, <1>8, <1>9, <1>10, <1>11 DEF Next

\* The inductive invariant holds in every reachable state of the audio ring.
THEOREM Inductive == Spec => []IInv
BY InitIInv, StepIInv, PTL DEF Spec

\* Every variable keeps its type; in particular no more than two buffers are
\* ever written to the AI, although its status is read before the write.
THEOREM TypeCorrect == Spec => []TypeOK
<1>1. IInv => TypeOK
  BY DEF IInv
<1> QED BY <1>1, Inductive, PTL

\* audio_play_buffer's assertions hold for every buffer of audio_get_buffer.
THEOREM PlayNeverAborts == Spec => []PlayAssertsHold
<1>1. IInv => PlayAssertsHold
  BY DEF IInv, TypeOK, PlayAssertsHold
<1> QED BY <1>1, Inductive, PTL

\* The AI plays the ring in order.
THEOREM PlaysInOrder == Spec => []DmaInRingOrder
<1>1. IInv => DmaInRingOrder
  BY DEF IInv
<1> QED BY <1>1, Inductive, PTL

\* Buffers go from the client to the AI in turn.
THEOREM GoesInTurn == Spec => []BuffersInTurn
  BY PlayNeverAborts, PlaysInOrder, PTL DEF BuffersInTurn

\* A buffer that could be sent is never left without someone to send it.
THEOREM WakeupsAreKept == Spec => []NoLostWakeup
<1>1. IInv => NoLostWakeup
  BY DEF IInv, WhoRuns, Awake, NoLostWakeup
<1> QED BY <1>1, Inductive, PTL

------------------------------------------------------------------------------
(* The client that never waits.                                             *)

\* At most the next buffer is pending, and none while the client has one.
PacedInv ==
  /\ IInv
  /\ paced =>
       /\ pending \subseteq {Succ(playing)}
       /\ pc \notin {"get_callback", "window"}
       /\ pc \in {"get_test", "fill"} => pending = {} /\ next = Succ(playing)
       /\ pc = "fill" => buffer = next

LEMMA PacedStep == PacedInv /\ [Next]_vars => PacedInv'
<1> SUFFICES ASSUME PacedInv, [Next]_vars PROVE PacedInv'
  OBVIOUS
<1>1. IInv /\ IInv'
  BY StepIInv DEF PacedInv
<1>2. paced' => paced
  BY DEF Next, vars, AiFinish, HandlerStart, ReadStatus, Enqueue, CallbackReturn,
         CallGet, TestNext, CloseWindow, audio_play_buffer, DropBuffer
<1> DEFINE Rest ==
      /\ pending \subseteq {Succ(playing)}
      /\ pc \notin {"get_callback", "window"}
      /\ pc \in {"get_test", "fill"} => pending = {} /\ next = Succ(playing)
      /\ pc = "fill" => buffer = next
<1> SUFFICES ASSUME paced' PROVE Rest'
  BY <1>1 DEF PacedInv
<1>3. Rest
  BY <1>2 DEF PacedInv
<1> USE DEF ring, thread
<1>4. CASE UNCHANGED <<ring, thread>>
  BY <1>3, <1>4 DEF Succ
<1>5. CASE Enqueue
  BY <1>1, <1>3, <1>5 DEF Enqueue, CanEnqueue, StartDma, WhoRuns, IInv
<1>6. CASE CallbackReturn
  BY <1>3, <1>6, <1>1 DEF CallbackReturn, Succ
<1>7. CASE CallGet
  BY <1>3, <1>7 DEF CallGet, Succ
<1>8. CASE TestNext
  BY <1>3, <1>8 DEF TestNext, Succ
<1>9. CASE CloseWindow
  BY <1>3, <1>9 DEF CloseWindow
<1>10. CASE audio_play_buffer
  BY <1>3, <1>10 DEF audio_play_buffer, Succ
<1>11. CASE DropBuffer
  BY <1>3, <1>11 DEF DropBuffer, Succ
<1>12. CASE AiFinish \/ HandlerStart \/ ReadStatus \/ UNCHANGED vars
  BY <1>4, <1>12 DEF AiFinish, HandlerStart, ReadStatus, vars
<1> QED BY <1>5, <1>6, <1>7, <1>8, <1>9, <1>10, <1>11, <1>12 DEF Next

LEMMA PacedInductive == Spec => []PacedInv
<1>1. Init => PacedInv
  BY InitIInv DEF Init, PacedInv
<1> QED BY <1>1, PacedStep, PTL DEF Spec

\* Such a client never fills a buffer that the AI holds.
THEOREM PacedClientIsSafe == Spec => []PacedNeverOverwrites
<1>1. PacedInv => PacedNeverOverwrites
  <2> SUFFICES ASSUME PacedInv, paced, pc = "fill", NEW i \in 1..Len(dma)
               PROVE  dma[i] # buffer
    BY DEF PacedNeverOverwrites, NeverFillWhilePlaying, InDma
  <2>1. playing \in Buffers /\ buffer = Succ(playing)
    BY DEF PacedInv, IInv, TypeOK
  <2>2. Succ(playing) # playing /\ Succ(Succ(playing)) # playing
    BY <2>1, SuccTwice
  <2>3. dma \in Seq(Buffers) /\ Len(dma) \in {0, 1, 2}
    BY DmaType DEF PacedInv, IInv
  <2>4. i = Len(dma) => dma[i] = playing
    <3>1. Len(dma) # 0 => dma # <<>>
      BY NotEmpty
    <3>2. Len(dma) # 0
      BY <2>3
    <3> QED BY <3>1, <3>2 DEF PacedInv, IInv, DmaInRingOrder
  <2> DEFINE n == Len(dma)
  <2>5. i # n => i = 1 /\ n = 2
    <3>1. n \in {0, 1, 2} /\ i \in 1..n
      BY <2>3
    <3> HIDE DEF n
    <3> QED BY <3>1
  <2>6. i # Len(dma) => playing = Succ(dma[i])
    <3>1. Len(dma) = 2 => dma # <<>>
      BY NotEmpty
    <3> QED BY <2>5, <3>1 DEF PacedInv, IInv, DmaInRingOrder
  <2> QED BY <2>1, <2>2, <2>4, <2>6
<1> QED BY <1>1, PacedInductive, PTL

\* For such a client the callback leaves nothing behind.
THEOREM PacedSendsAll == Spec => SendsAsManyAsPossible
<1>1. PacedInv /\ CallbackReturn /\ paced => full \/ pending = {}
  BY DEF PacedInv, CallbackReturn, CanEnqueue
<1> QED BY <1>1, PacedInductive, PTL DEF SendsAsManyAsPossible
=============================================================================
