------------------------- MODULE DisplayQueue_proofs -------------------------
(***************************************************************************)
(* Proofs about DisplayQueue for every number of framebuffers N >= 2.      *)
(***************************************************************************)
EXTENDS DisplayQueue, FiniteSetTheorems, TLAPS

(***************************************************************************)
(* The invariant.  RingInOrder is not inductive alone: it needs that the   *)
(* client holds exactly the acquired buffer, and that nothing is pending   *)
(* or acquired before display_init.                                        *)
(***************************************************************************)
Ring(p) ==
  /\ pending = {Ahead(showing, k) : k \in 1..p}
  /\ acquired = {} \/ (p + 1 < N /\ acquired = {Ahead(showing, p + 1)})

ClientInv ==
  /\ pc = "drawing" => acquired = {surface}
  /\ pc \notin {"drawing", "abort"} => acquired = {}

ScreenInv ==
  /\ origin = showing
  /\ pc \in {"init", "idle", "getting", "drawing"} => showing \in Buffers
  /\ showing = -1 => ~vi /\ pending = {} /\ acquired = {}

DInv == TypeOK /\ RingInOrder /\ ClientInv /\ ScreenInv

------------------------------------------------------------------------------
(* Going round the ring.                                                    *)

LEMMA AheadType ==
  ASSUME NEW s \in Buffers, NEW k \in 0..(N - 1)
  PROVE  Ahead(s, k) \in Buffers
  BY NAssumption DEF Ahead, Buffers

LEMMA AheadInjective ==
  ASSUME NEW s \in Buffers, NEW j \in 0..(N - 1), NEW k \in 0..(N - 1),
         Ahead(s, j) = Ahead(s, k)
  PROVE  j = k
  BY NAssumption DEF Ahead, Buffers

LEMMA AheadNext ==
  ASSUME NEW s \in Buffers
  PROVE  Ahead(s, 0) = s /\ Ahead(s, 1) = __display_next_buffer(s)
  BY NAssumption DEF Ahead, Buffers, __display_next_buffer

LEMMA AheadStep ==
  ASSUME NEW s \in Buffers, NEW k \in 0..(N - 2)
  PROVE  Ahead(Ahead(s, 1), k) = Ahead(s, k + 1)
  BY NAssumption DEF Ahead, Buffers

------------------------------------------------------------------------------
LEMMA InitDInv == Init => DInv
<1>. SUFFICES ASSUME Init PROVE DInv
  OBVIOUS
<1>1. Ring(0)
  BY DEF Init, Ring
<1>2. RingInOrder
  BY <1>1, NAssumption DEF RingInOrder, Ring
<1>3. TypeOK
  <2>1. content \in [Buffers -> Pictures \cup {Blank}]
    BY DEF Init
  <2>2. -1 \in -1..(N - 1)
    BY NAssumption
  <2>3. showing = -1 /\ origin = -1 /\ surface = -1
    BY DEF Init, NoBuffer
  <2>4. acquired = {} /\ pending = {} /\ vi = FALSE /\ pc = "off"
    BY DEF Init
  <2>. QED  BY <2>1, <2>2, <2>3, <2>4 DEF TypeOK
<1>4. ClientInv /\ ScreenInv
  BY DEF Init, ClientInv, ScreenInv, NoBuffer
<1>. QED  BY <1>2, <1>3, <1>4 DEF DInv

LEMMA StepDInv == DInv /\ [Next]_vars => DInv'
<1>. SUFFICES ASSUME DInv, [Next]_vars PROVE DInv'
  OBVIOUS
<1>. USE NAssumption DEF DInv
<1>1. PICK p \in 0..(N - 1) : Ring(p)
  BY DEF RingInOrder, Ring
<1>2. ASSUME NEW size \in Sizes, display_init(size[1], size[2]) PROVE DInv'
  <2>1. CASE ValidSize(size[1], size[2])
    <3>1. /\ showing' = 0 /\ acquired' = {} /\ pending' = {} /\ origin' = 0
          /\ content' = [b \in Buffers |-> Blank] /\ pc' = "init"
          /\ UNCHANGED <<vi, surface>>
      BY <1>2, <2>1 DEF display_init
    <3>2. Ring(0)'
      BY <3>1 DEF Ring
    <3>3. RingInOrder'
      BY <3>2 DEF RingInOrder, Ring
    <3>. QED
      BY <3>1, <3>3 DEF TypeOK, ClientInv, ScreenInv, Buffers
  <2>2. CASE ~ValidSize(size[1], size[2])
    BY <1>2, <2>2 DEF display_init, TypeOK, RingInOrder, ClientInv, ScreenInv
  <2>. QED  BY <2>1, <2>2
<1>3. CASE UnmaskVI
  BY <1>3 DEF UnmaskVI, TypeOK, RingInOrder, ClientInv, ScreenInv, Buffers
<1>4. CASE CallGet
  BY <1>4 DEF CallGet, TypeOK, RingInOrder, ClientInv, ScreenInv
<1>5. CASE display_try_get
  <2>1. CASE UNCHANGED vars
    BY <2>1 DEF vars, TypeOK, RingInOrder, ClientInv, ScreenInv
  <2>2. ASSUME NEW k \in 1..(N - 1), Free(k), \A j \in 1..(k - 1) : ~Free(j),
               surface' = Ahead(showing, k),
               acquired' = acquired \cup {Ahead(showing, k)}, pc' = "drawing"
        PROVE  DInv'
    <3>1. /\ showing \in Buffers /\ acquired = {} /\ pc = "getting"
          /\ UNCHANGED <<showing, pending, content, origin, vi>>
      BY <1>5 DEF display_try_get, ScreenInv, ClientInv
    <3>2. pending = {Ahead(showing, j) : j \in 1..p}
      BY <1>1 DEF Ring
    <3>3. k > p
      BY <2>2, <3>2 DEF Free
    <3>4. p + 1 < N /\ Free(p + 1)
      <4>1. p + 1 \in 0..(N - 1)
        BY <3>3
      <4>2. ASSUME NEW j \in 1..p PROVE Ahead(showing, j) # Ahead(showing, p + 1)
        BY <3>1, <4>1, AheadInjective
      <4>. QED  BY <3>1, <3>2, <4>1, <4>2 DEF Free
    <3>5. k = p + 1
      BY <2>2, <3>3, <3>4
    <3>6. acquired' = {surface'} /\ surface' = Ahead(showing, p + 1) /\ surface' \in Buffers
      BY <2>2, <3>1, <3>4, <3>5, AheadType
    <3>7. Ring(p)'
      BY <3>1, <3>2, <3>4, <3>6 DEF Ring
    <3>8. RingInOrder'
      BY <3>7 DEF RingInOrder, Ring
    <3>. QED
      BY <2>2, <3>1, <3>6, <3>8 DEF TypeOK, ClientInv, ScreenInv, Buffers
  <2>. QED  BY <1>5, <2>1, <2>2 DEF display_try_get, vars
<1>6. ASSUME NEW q \in Pictures, Draw(q) PROVE DInv'
  BY <1>6 DEF Draw, TypeOK, RingInOrder, ClientInv, ScreenInv
<1>7. CASE display_show
  <2>1. CASE pc' = "abort" /\ UNCHANGED <<acquired, pending, surface, showing, content, origin, vi>>
    BY <2>1 DEF TypeOK, RingInOrder, ClientInv, ScreenInv
  <2>2. CASE /\ acquired' = acquired \ {surface} /\ pending' = pending \cup {surface}
             /\ pc' = "idle" /\ surface' = NoBuffer /\ surface \in Buffers
             /\ UNCHANGED <<showing, content, origin, vi>>
    <3>1. acquired = {surface} /\ pc = "drawing" /\ showing \in Buffers
      BY <1>7 DEF display_show, ClientInv, ScreenInv
    <3>2. /\ p + 1 < N /\ surface = Ahead(showing, p + 1)
          /\ pending = {Ahead(showing, j) : j \in 1..p}
      BY <1>1, <3>1 DEF Ring
    <3>3. acquired' = {} /\ pending' = {Ahead(showing, j) : j \in 1..(p + 1)}
      BY <2>2, <3>1, <3>2
    <3>4. p + 1 \in 0..(N - 1) /\ Ring(p + 1)'
      BY <2>2, <3>2, <3>3 DEF Ring
    <3>5. RingInOrder'
      BY <3>4 DEF RingInOrder, Ring
    <3>. QED
      BY <2>2, <3>1, <3>3, <3>5 DEF TypeOK, ClientInv, ScreenInv, Buffers, NoBuffer
  <2>. QED  BY <1>7, <2>1, <2>2 DEF display_show
<1>8. CASE __display_callback
  <2>1. /\ showing \in Buffers /\ origin' = showing'
        /\ UNCHANGED <<acquired, content, vi, pc, surface>>
    BY <1>8 DEF __display_callback, ScreenInv, TypeOK, Buffers
  <2>2. CASE UNCHANGED <<showing, pending>>
    BY <2>1, <2>2 DEF TypeOK, RingInOrder, ClientInv, ScreenInv
  <2>3. CASE /\ __display_next_buffer(showing) \in pending
             /\ showing' = __display_next_buffer(showing)
             /\ pending' = pending \ {showing'}
    <3>1. pending = {Ahead(showing, j) : j \in 1..p}
      BY <1>1 DEF Ring
    <3>2. p >= 1 /\ showing' = Ahead(showing, 1) /\ showing' \in Buffers
      BY <2>1, <2>3, <3>1, AheadNext, AheadType
    <3>3. pending' = {Ahead(showing, j) : j \in 2..p}
      <4>1. ASSUME NEW j \in 2..p PROVE Ahead(showing, j) # Ahead(showing, 1)
        BY <2>1, AheadInjective
      <4>. QED  BY <2>3, <3>1, <3>2, <4>1
    <3>4. ASSUME NEW j \in 1..(N - 1) PROVE Ahead(showing, j) = Ahead(showing', j - 1)
      BY <2>1, <3>2, AheadStep
    <3>5. pending' = {Ahead(showing', j) : j \in 1..(p - 1)}
      <4>1. ASSUME NEW j \in 1..(p - 1) PROVE Ahead(showing, j + 1) = Ahead(showing', j)
        BY <3>4
      <4>2. ASSUME NEW j \in 2..p PROVE Ahead(showing, j) = Ahead(showing', j - 1)
        BY <3>4
      <4>. QED  BY <3>3, <4>1, <4>2
    <3>6. acquired = {} \/ (p + 1 < N /\ acquired = {Ahead(showing', p)})
      BY <1>1, <3>4 DEF Ring
    <3>7. p - 1 \in 0..(N - 1) /\ Ring(p - 1)'
      BY <2>1, <3>2, <3>5, <3>6 DEF Ring
    <3>8. RingInOrder'
      BY <3>7 DEF RingInOrder, Ring
    <3>9. TypeOK'
      <4>1. showing' \in -1..(N - 1)
        BY <3>2 DEF Buffers
      <4>. QED  BY <2>1, <2>3, <4>1 DEF TypeOK
    <3>10. ClientInv' /\ ScreenInv'
      BY <2>1, <2>3, <3>2 DEF ClientInv, ScreenInv, Buffers
    <3>. QED  BY <3>8, <3>9, <3>10
  <2>. QED  BY <1>8, <2>2, <2>3 DEF __display_callback
<1>9. CASE UNCHANGED vars
  BY <1>9 DEF vars, TypeOK, RingInOrder, ClientInv, ScreenInv
<1>. QED
  BY <1>2, <1>3, <1>4, <1>5, <1>6, <1>7, <1>8, <1>9 DEF Next

------------------------------------------------------------------------------
\* DInv is an invariant.
THEOREM Inductive == Spec => []DInv
  BY InitDInv, StepDInv, PTL DEF Spec

\* Every variable keeps its type.
THEOREM TypeCorrect == Spec => []TypeOK
  BY Inductive, PTL DEF DInv

\* Pending buffers follow the showing one without a gap.
THEOREM RingIsInOrder == Spec => []RingInOrder
  BY Inductive, PTL DEF DInv

\* The assertions of display_show hold for what display_get returned.
THEOREM ShowNeverAborts == Spec => []ShowAssertsHold
<1>1. DInv => ShowAssertsHold
  <2>. SUFFICES ASSUME DInv, pc = "drawing" PROVE surface \in Buffers /\ surface \in acquired \ pending
    BY DEF ShowAssertsHold
  <2>. USE NAssumption DEF DInv
  <2>1. PICK p \in 0..(N - 1) : Ring(p)
    BY DEF RingInOrder, Ring
  <2>2. acquired = {surface} /\ showing \in Buffers
    BY DEF ClientInv, ScreenInv
  <2>3. p + 1 \in 0..(N - 1) /\ surface = Ahead(showing, p + 1)
    BY <2>1, <2>2 DEF Ring
  <2>4. ASSUME NEW j \in 1..p PROVE Ahead(showing, j) # surface
    BY <2>2, <2>3, AheadInjective
  <2>. QED  BY <2>1, <2>2, <2>3, <2>4, AheadType DEF Ring
<1>. QED  BY <1>1, Inductive, PTL

\* The client never draws into the buffer on the screen or a pending one.
THEOREM NeverTears == Spec => []NoTearing
<1>1. DInv /\ ShowAssertsHold => NoTearing
  <2>. SUFFICES ASSUME DInv, ShowAssertsHold, pc = "drawing"
                PROVE surface \notin {origin, showing} \cup pending
    BY DEF NoTearing
  <2>. USE NAssumption DEF DInv
  <2>1. PICK p \in 0..(N - 1) : Ring(p)
    BY DEF RingInOrder, Ring
  <2>2. acquired = {surface} /\ showing \in Buffers /\ origin = showing
    BY DEF ClientInv, ScreenInv
  <2>3. p + 1 \in 1..(N - 1) /\ surface = Ahead(showing, p + 1)
    BY <2>1, <2>2 DEF Ring
  <2>4. surface # showing
    BY <2>2, <2>3, AheadInjective, AheadNext
  <2>. QED  BY <2>2, <2>4 DEF ShowAssertsHold
<1>. QED  BY <1>1, Inductive, ShowNeverAborts, PTL

\* The surface drawn into is neither shown nor waiting to be, and fit to be
\* shown.
THEOREM SurfaceStaysFree == Spec => []SurfaceIsFree
  BY NeverTears, ShowNeverAborts, PTL DEF SurfaceIsFree

------------------------------------------------------------------------------
(***************************************************************************)
(* The refinement of FrameFifo.  display_show is Submit, the callback is   *)
(* Advance when a buffer is pending, display_init is Start; drawing leaves *)
(* the abstract state alone because the surface is off the screen and not  *)
(* pending.                                                                *)
(***************************************************************************)
Waiting  == [k \in 1..Cardinality(pending) |-> content[Ahead(showing, k)]]
OnScreen == IF origin = NoBuffer THEN Blank ELSE content[origin]
Shown    == Pictures \cup {Blank}

LEMMA AppendLast ==
  ASSUME NEW p \in Nat, NEW S, NEW e \in [1..p -> S], NEW g \in [1..(p + 1) -> S],
         \A k \in 1..p : g[k] = e[k]
  PROVE  g = Append(e, g[p + 1])
  OBVIOUS

LEMMA DropFirst ==
  ASSUME NEW p \in Nat, NEW S, NEW e \in [1..(p + 1) -> S], NEW g \in [1..p -> S],
         \A k \in 1..p : g[k] = e[k + 1]
  PROVE  g = Tail(e) /\ Head(e) = e[1] /\ e # <<>>
  OBVIOUS

\* As many buffers are pending as the ring is long.
LEMMA CountPending ==
  ASSUME NEW s \in -1..(N - 1), NEW p \in 0..(N - 1), s = -1 => p = 0
  PROVE  Cardinality({Ahead(s, k) : k \in 1..p}) = p
<1>. DEFINE S == {Ahead(s, k) : k \in 1..p}
            f == [k \in 1..p |-> Ahead(s, k)]
<1>1. CASE p = 0
  <2>1. S = {}
    BY <1>1
  <2>. QED  BY <1>1, <2>1, FS_EmptySet
<1>2. CASE p # 0
  <2>1. s \in Buffers
    BY <1>2, NAssumption DEF Buffers
  <2>2. ASSUME NEW j \in 1..p, NEW k \in 1..p, f[j] = f[k] PROVE j = k
    BY <2>1, <2>2, NAssumption, AheadInjective
  <2>3. f \in Bijection(1..p, S)
    BY <2>2 DEF Bijection, Injection, Surjection, IsInjective
  <2>4. ExistsBijection(1..p, S)
    BY <2>3, Zenon DEF ExistsBijection
  <2>5. p \in Nat
    BY NAssumption
  <2>. QED  BY <2>4, <2>5, FS_CountingElements
<1>. QED  BY <1>1, <1>2

WaitingInv ==
  \A p \in 0..(N - 1) : Ring(p) =>
    /\ Waiting = [k \in 1..p |-> content[Ahead(showing, k)]]
    /\ Waiting \in [1..p -> Shown]
    /\ p > 0 => showing \in Buffers

LEMMA WaitingIs == DInv => WaitingInv
<1>. SUFFICES ASSUME DInv, NEW p \in 0..(N - 1), Ring(p)
              PROVE  /\ Waiting = [k \in 1..p |-> content[Ahead(showing, k)]]
                     /\ Waiting \in [1..p -> Shown]
                     /\ p > 0 => showing \in Buffers
  BY DEF WaitingInv
<1>. USE NAssumption DEF DInv
<1>1. showing \in -1..(N - 1) /\ content \in [Buffers -> Shown]
  BY DEF TypeOK, Shown
<1>2. p > 0 => showing \in Buffers
  <2>1. p > 0 => Ahead(showing, 1) \in pending
    BY DEF Ring
  <2>. QED  BY <1>1, <2>1 DEF ScreenInv, Buffers
<1>3. Cardinality(pending) = p
  <2>1. showing = -1 => p = 0
    BY <1>2 DEF Buffers
  <2>2. pending = {Ahead(showing, k) : k \in 1..p}
    BY DEF Ring
  <2>. QED  BY <1>1, <2>1, <2>2, CountPending
<1>4. ASSUME NEW k \in 1..p PROVE content[Ahead(showing, k)] \in Shown
  BY <1>1, <1>2, AheadType
<1>. QED  BY <1>2, <1>3, <1>4 DEF Waiting

LEMMA FifoInit == Init => Fifo!Init
<1>. SUFFICES ASSUME Init PROVE Waiting = <<>> /\ OnScreen = Blank
  BY DEF Fifo!Init, Waiting, OnScreen
<1>1. Cardinality(pending) = 0
  BY FS_EmptySet DEF Init
<1>. QED  BY <1>1 DEF Init, Waiting, OnScreen

LEMMA FifoStep ==
  /\ DInv /\ WaitingInv /\ ShowAssertsHold /\ NoTearing /\ [Next]_vars
  /\ DInv' /\ WaitingInv'
  => [Fifo!Next]_(Fifo!vars)
<1>. SUFFICES ASSUME DInv, WaitingInv, ShowAssertsHold, NoTearing, [Next]_vars,
                     DInv', WaitingInv'
              PROVE  [Fifo!Next]_(Fifo!vars)
  OBVIOUS
<1>. USE NAssumption
<1>1. PICK p \in 0..(N - 1) : Ring(p)
  BY DEF DInv, RingInOrder, Ring
<1>2. PICK q \in 0..(N - 1) : Ring(q)'
  BY DEF DInv, RingInOrder, Ring
<1>3. /\ Waiting = [k \in 1..p |-> content[Ahead(showing, k)]]
      /\ Waiting \in [1..p -> Shown] /\ (p > 0 => showing \in Buffers)
  BY <1>1 DEF WaitingInv
<1>4. /\ Waiting' = [k \in 1..q |-> content'[Ahead(showing', k)]]
      /\ Waiting' \in [1..q -> Shown]
  BY <1>2 DEF WaitingInv
<1>5. ASSUME UNCHANGED <<Waiting, OnScreen>> PROVE [Fifo!Next]_(Fifo!vars)
  BY <1>5 DEF Fifo!vars, Waiting, OnScreen
<1>6. ASSUME UNCHANGED <<showing, pending, content, origin>>
      PROVE  [Fifo!Next]_(Fifo!vars)
  BY <1>5, <1>6 DEF Waiting, OnScreen
<1>7. ASSUME NEW size \in Sizes, display_init(size[1], size[2])
      PROVE  [Fifo!Next]_(Fifo!vars)
  <2>1. CASE ValidSize(size[1], size[2])
    <3>1. pending' = {} /\ origin' = 0 /\ content' = [b \in Buffers |-> Blank]
      BY <1>7, <2>1 DEF display_init
    <3>2. Waiting' = <<>>
      BY <3>1, FS_EmptySet DEF Waiting
    <3>3. OnScreen' = Blank
      BY <3>1 DEF OnScreen, NoBuffer, Buffers
    <3>. QED  BY <3>2, <3>3 DEF Fifo!Next, Fifo!Start, Waiting, OnScreen
  <2>2. CASE ~ValidSize(size[1], size[2])
    BY <1>6, <1>7, <2>2 DEF display_init
  <2>. QED  BY <2>1, <2>2
<1>8. CASE UnmaskVI \/ CallGet \/ display_try_get
  BY <1>6, <1>8 DEF UnmaskVI, CallGet, display_try_get
<1>9. ASSUME NEW r \in Pictures, Draw(r) PROVE [Fifo!Next]_(Fifo!vars)
  <2>1. /\ content' = [content EXCEPT ![surface] = r] /\ pc = "drawing"
        /\ UNCHANGED <<showing, acquired, pending, origin>>
    BY <1>9 DEF Draw
  <2>2. surface # origin /\ surface \notin pending
    BY <2>1 DEF NoTearing
  <2>3. OnScreen' = OnScreen
    BY <2>1, <2>2 DEF OnScreen, NoBuffer, DInv, TypeOK, Buffers
  <2>4. Waiting' = [k \in 1..p |-> content'[Ahead(showing, k)]]
    BY <1>1, <2>1 DEF WaitingInv, Ring
  <2>5. ASSUME NEW k \in 1..p
        PROVE  content'[Ahead(showing, k)] = content[Ahead(showing, k)]
    <3>1. Ahead(showing, k) \in pending /\ Ahead(showing, k) \in Buffers
      BY <1>1, <1>3, AheadType DEF Ring
    <3>. QED  BY <2>1, <2>2, <3>1 DEF DInv, TypeOK
  <2>6. Waiting' = Waiting
    BY <1>3, <2>4, <2>5
  <2>. QED  BY <1>5, <2>3, <2>6
<1>10. CASE display_show
  <2>1. CASE UNCHANGED <<showing, pending, content, origin>>
    BY <1>6, <2>1
  <2>2. CASE /\ pending' = pending \cup {surface} /\ acquired' = acquired \ {surface}
             /\ UNCHANGED <<showing, content, origin>>
    <3>1. acquired = {surface} /\ showing \in Buffers
      BY <1>10 DEF display_show, DInv, ClientInv, ScreenInv
    <3>2. /\ p + 1 < N /\ surface = Ahead(showing, p + 1)
          /\ pending = {Ahead(showing, k) : k \in 1..p}
      BY <1>1, <3>1 DEF Ring
    <3>3. pending' = {Ahead(showing, k) : k \in 1..(p + 1)} /\ acquired' = {}
      BY <2>2, <3>1, <3>2
    <3>4. p + 1 \in 0..(N - 1) /\ Ring(p + 1)'
      BY <2>2, <3>2, <3>3 DEF Ring
    <3>5. /\ Waiting' = [k \in 1..(p + 1) |-> content[Ahead(showing, k)]]
          /\ Waiting' \in [1..(p + 1) -> Shown]
      BY <2>2, <3>4 DEF WaitingInv
    <3>6. Waiting' = Append(Waiting, Waiting'[p + 1])
      <4>1. \A k \in 1..p : Waiting'[k] = Waiting[k]
        BY <1>3, <3>5
      <4>. HIDE DEF Waiting
      <4>. QED  BY <1>3, <3>5, <4>1, AppendLast
    <3>7. Waiting'[p + 1] \in Shown /\ p + 1 <= N - 1 /\ Len(Waiting) = p
      BY <1>3, <3>2, <3>5
    <3>8. OnScreen' = OnScreen
      BY <2>2 DEF OnScreen
    <3>9. Fifo!Submit(Waiting'[p + 1])
      <4>1. Len(Waiting) < N - 1
        BY <3>7
      <4>. QED  BY <3>6, <3>8, <4>1, Zenon DEF Fifo!Submit, Waiting, OnScreen
    <3>. QED  BY <3>7, <3>9 DEF Fifo!Next, Shown
  <2>. QED  BY <1>10, <2>1, <2>2 DEF display_show
<1>11. CASE __display_callback
  <2>1. /\ showing \in Buffers /\ origin' = showing' /\ origin = showing
        /\ content' = content /\ acquired' = acquired
    BY <1>11 DEF __display_callback, DInv, ScreenInv, TypeOK, Buffers
  <2>2. CASE UNCHANGED <<showing, pending>>
    BY <1>6, <2>1, <2>2
  <2>3. CASE /\ __display_next_buffer(showing) \in pending
             /\ showing' = __display_next_buffer(showing)
             /\ pending' = pending \ {showing'}
    <3>1. pending = {Ahead(showing, k) : k \in 1..p}
      BY <1>1 DEF Ring
    <3>2. p >= 1 /\ showing' = Ahead(showing, 1) /\ showing' \in Buffers
      BY <2>1, <2>3, <3>1, AheadNext, AheadType
    <3>3. ASSUME NEW k \in 1..(p - 1) PROVE Ahead(showing', k) = Ahead(showing, k + 1)
      BY <2>1, <3>2, AheadStep
    <3>4. p - 1 = q
      <4>1. pending' = {Ahead(showing, k) : k \in 2..p}
        <5>1. ASSUME NEW k \in 2..p PROVE Ahead(showing, k) # Ahead(showing, 1)
          BY <2>1, AheadInjective
        <5>. QED  BY <2>3, <3>1, <3>2, <5>1
      <4>2. ASSUME NEW k \in 2..p PROVE Ahead(showing, k) = Ahead(showing', k - 1)
        BY <2>1, <3>2, AheadStep
      <4>3. pending' = {Ahead(showing', k) : k \in 1..(p - 1)}
        BY <3>3, <4>1, <4>2
      <4>4. Cardinality(pending') = p - 1
        BY <3>2, <4>3, CountPending DEF Buffers
      <4>5. pending' = {Ahead(showing', k) : k \in 1..q}
        BY <1>2 DEF Ring
      <4>6. Cardinality(pending') = q
        BY <3>2, <4>5, CountPending DEF Buffers
      <4>. QED  BY <4>4, <4>6
    <3>5. Waiting' = [k \in 1..(p - 1) |-> content[Ahead(showing, k + 1)]]
      BY <1>4, <2>1, <3>3, <3>4
    <3>6. \A k \in 1..(p - 1) : Waiting'[k] = Waiting[k + 1]
      BY <1>3, <3>5
    <3>7. Waiting' = Tail(Waiting) /\ Head(Waiting) = Waiting[1] /\ Waiting # <<>>
      <4>. HIDE DEF Waiting
      <4>1. p - 1 \in Nat /\ Waiting \in [1..((p - 1) + 1) -> Shown]
            /\ Waiting' \in [1..(p - 1) -> Shown]
        BY <1>3, <1>4, <3>2, <3>4
      <4>. QED  BY <3>6, <4>1, DropFirst
    <3>8. OnScreen' = Waiting[1]
      <4>1. OnScreen' = content[Ahead(showing, 1)]
        BY <2>1, <3>2 DEF OnScreen, NoBuffer, Buffers
      <4>. QED  BY <1>3, <3>2, <4>1
    <3>. QED  BY <3>7, <3>8 DEF Fifo!Next, Fifo!Advance, Waiting, OnScreen
  <2>. QED  BY <1>11, <2>2, <2>3 DEF __display_callback
<1>12. CASE UNCHANGED vars
  BY <1>6, <1>12 DEF vars
<1>. QED
  BY <1>7, <1>8, <1>9, <1>10, <1>11, <1>12 DEF Next

\* Pictures reach the screen whole, once, and in the order of display_show.
THEOREM ImplementsFifo == Spec => FifoSpec
  BY FifoInit, FifoStep, WaitingIs, Inductive, ShowNeverAborts, NeverTears, PTL
  DEF Spec, FifoSpec, Fifo!Spec
=============================================================================
