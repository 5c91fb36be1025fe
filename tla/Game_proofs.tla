---------------------------- MODULE Game_proofs ----------------------------
(***************************************************************************)
(* Proofs about the game of Game, for screens, margins and sprites of any  *)
(* size and however long it is played.                                     *)
(***************************************************************************)
EXTENDS Game, TLAPS

\* A turn that has begun has a frame left to draw.
FrameLeft == pc # "move" => frame_counter < MaxFrames

IInv ==
  /\ TypeOK /\ FrameLeft
  /\ PlayerInBounds /\ LettersOnScreen /\ NothingTouches /\ SeriesInOrder

------------------------------------------------------------------------------
\* int's arithmetic.
LEMMA Int32Type == ASSUME NEW v \in Int PROVE Int32(v) \in Int /\ (v < Half => Int32(v) = v)
<1>1. Half \in Nat /\ Half > 0
  BY TimeAssumption
<1>2. ASSUME v >= Half
      PROVE  Int32(v) \in Int
  <2> DEFINE m == 2 * Half
  <2>1. m \in Nat \ {0}
    BY <1>1
  <2> HIDE DEF m
  <2>2. (v + Half) % m \in Int
    BY <1>1, <2>1
  <2> QED BY <1>1, <1>2, <2>2 DEF Int32, m
<1> QED BY <1>1, <1>2 DEF Int32

LEMMA RemType ==
  ASSUME NEW a \in Int, NEW b \in Int, b > 0
  PROVE  Rem(a, b) \in Int /\ (a >= 0 => Rem(a, b) \in 0..(b - 1))
<1>1. a >= 0 => a % b \in 0..(b - 1)
  OBVIOUS
<1>2. a < 0 => (-a) % b \in 0..(b - 1)
  OBVIOUS
<1> QED BY <1>1, <1>2 DEF Rem

\* What the constants are.
LEMMA Sizes ==
  /\ Width \in Nat /\ Height \in Nat /\ Margin \in Nat /\ SpawnMargin \in Nat
  /\ \A o \in Objects : W[o] \in Nat /\ H[o] \in Nat
  /\ SpawnAreaX \in Int /\ SpawnAreaX > 0 /\ SpawnAreaY \in Int /\ SpawnAreaY > 0
BY ScreenAssumption DEF SpawnAreaX, SpawnAreaY

\* The place where a letter appears is a point, and on the screen as long as
\* the products of the formula are ints.
LEMMA InAreaBounds ==
  ASSUME frame_counter \in Nat, collected \in 0..2,
         NEW v \in Nat, NEW area \in Int, area > 0
  PROVE  /\ InArea(v, area) \in Int
         /\ 3 * (frame_counter + v) < Half =>
              InArea(v, area) \in SpawnMargin..(SpawnMargin + area - 1)
<1> DEFINE sum     == frame_counter + v
           product == Int32(sum) * (collected + 1)
<1>1. Int32(sum) \in Int /\ product \in Int /\ Int32(product) \in Int
  BY Int32Type
<1>2. Rem(Int32(product), area) \in Int
  BY <1>1, RemType
<1>3. ASSUME 3 * sum < Half
      PROVE  Rem(Int32(product), area) \in 0..(area - 1)
  <2>1. Half \in Nat
    BY TimeAssumption
  <2>2. Int32(sum) = sum
    BY <1>3, <2>1, Int32Type
  <2>3. product >= 0 /\ product <= 3 * sum
    BY <2>2
  <2>4. Int32(product) = product
    <3> HIDE DEF product
    <3>1. product < Half
      BY <1>1, <1>3, <2>1, <2>3
    <3> QED BY <1>1, <3>1, Int32Type
  <2> HIDE DEF product
  <2> QED BY <1>1, <2>3, <2>4, RemType
<1> HIDE DEF sum, product
<1>4. InArea(v, area) = Rem(Int32(product), area) + SpawnMargin
  BY DEF InArea, sum, product
<1> QED BY <1>2, <1>3, <1>4, Sizes DEF sum

LEMMA SpawnPlaceType == TypeOK /\ PlayerInBounds => SpawnPlace \in Point
<1> SUFFICES ASSUME TypeOK, PlayerInBounds PROVE SpawnPlace \in Point
  OBVIOUS
<1>1. frame_counter \in Nat /\ collected \in 0..2
  BY TimeAssumption DEF TypeOK
<1>2. player[1] \in Nat /\ player[2] \in Nat
  BY Sizes DEF TypeOK, Point, PlayerInBounds, Inside
<1>3. InArea(player[2], SpawnAreaX) \in Int /\ InArea(player[1], SpawnAreaY) \in Int
  BY <1>1, <1>2, Sizes, InAreaBounds
<1> QED BY <1>3 DEF SpawnPlace, Point

\* A letter that appears is whole on the screen.
LEMMA SpawnPlaceInside ==
  ASSUME TypeOK, PlayerInBounds, NEW o \in Letters,
         3 * (frame_counter + Width + Height) < Half
  PROVE  Inside(SpawnPlace, o, 0)
<1> DEFINE x == SpawnPlace[1]
           y == SpawnPlace[2]
<1>1. frame_counter \in Nat /\ collected \in 0..2
  BY TimeAssumption DEF TypeOK
<1>2. /\ player[1] \in Nat /\ player[1] <= Width
      /\ player[2] \in Nat /\ player[2] <= Height
  BY Sizes DEF TypeOK, Point, PlayerInBounds, Inside, Objects
<1>3. Half \in Nat
  BY TimeAssumption
<1>4. 3 * (frame_counter + player[2]) < Half /\ 3 * (frame_counter + player[1]) < Half
  BY <1>1, <1>2, <1>3, Sizes
<1>5. x \in SpawnMargin..(SpawnMargin + SpawnAreaX - 1)
  BY <1>1, <1>2, <1>4, Sizes, InAreaBounds DEF SpawnPlace
<1>6. y \in SpawnMargin..(SpawnMargin + SpawnAreaY - 1)
  BY <1>1, <1>2, <1>4, Sizes, InAreaBounds DEF SpawnPlace
<1>7. W[o] <= 2 * SpawnMargin /\ H[o] <= 2 * SpawnMargin
  BY ScreenAssumption
<1>8. W[o] \in Nat /\ H[o] \in Nat
  BY Sizes DEF Letters, Objects
<1> HIDE DEF x, y
<1>9. /\ x >= 0 /\ x + W[o] <= Width - 0
      /\ y >= 0 /\ y + H[o] <= Height - 0
  BY <1>5, <1>6, <1>7, <1>8, Sizes DEF SpawnAreaX, SpawnAreaY
<1> QED BY <1>9 DEF Inside, x, y

------------------------------------------------------------------------------
LEMMA InitIInv == Init => IInv
<1> SUFFICES ASSUME Init PROVE IInv
  OBVIOUS
<1>1. player \in Point /\ frame_counter \in 0..MaxFrames
  BY ScreenAssumption, TimeAssumption DEF Init, Point
<1>2. letters \in [Letters -> Point \cup {Absent}] /\ Spawned = {}
  BY DEF Init, Spawned
<1>3. TypeOK /\ FrameLeft
  <2>1. /\ pc = "move" /\ collected = 0 /\ i = 1 /\ won = FALSE /\ spelt = 0
    BY DEF Init
  <2>2. /\ pc \in {"move", "spawn", "touch"} /\ collected \in 0..2
        /\ i \in 1..4 /\ spelt \in 0..3
    BY <2>1
  <2>3. won \in BOOLEAN
    BY <2>1, Zenon
  <2> QED BY <1>1, <1>2, <2>1, <2>2, <2>3, Zenon DEF TypeOK, FrameLeft
<1>4. PlayerInBounds
  BY ScreenAssumption, Sizes DEF Init, PlayerInBounds, Inside, Objects
<1>5. LettersOnScreen /\ NothingTouches /\ SeriesInOrder
  BY <1>2 DEF Init, LettersOnScreen, NothingTouches, SeriesInOrder
<1> QED BY <1>3, <1>4, <1>5 DEF IInv

\* The player is put back within the borders.
LEMMA SnapBounds ==
  ASSUME NEW v \in Int, NEW size \in Nat, NEW limit \in Nat, size + 2 * Margin <= limit
  PROVE  /\ Snap(v, size, limit) \in Int
         /\ Snap(v, size, limit) >= Margin
         /\ Snap(v, size, limit) + size <= limit - Margin
BY Sizes DEF Snap

LEMMA MoveIInv == ASSUME IInv, NEW dx \in {-1, 0, 1}, NEW dy \in {-1, 0, 1}, Move(dx, dy)
                  PROVE  IInv'
<1> DEFINE x == Snap(player[1] + dx, W[0], Width)
           y == Snap(player[2] + dy, H[0], Height)
<1>1. W[0] \in Nat /\ H[0] \in Nat
  BY Sizes DEF Objects
<1>2. player[1] \in Int /\ player[2] \in Int
  BY DEF IInv, TypeOK, Point
<1>3. x \in Int /\ x >= Margin /\ x + W[0] <= Width - Margin
  <2>1. player[1] + dx \in Int /\ Width \in Nat /\ W[0] + 2 * Margin <= Width
    BY <1>2, Sizes, ScreenAssumption
  <2> QED BY <1>1, <2>1, SnapBounds
<1>4. y \in Int /\ y >= Margin /\ y + H[0] <= Height - Margin
  <2>1. player[2] + dy \in Int /\ Height \in Nat /\ H[0] + 2 * Margin <= Height
    BY <1>2, Sizes, ScreenAssumption
  <2> QED BY <1>1, <2>1, SnapBounds
<1>5. /\ player' = <<x, y>> /\ pc' = "spawn" /\ won' = FALSE
      /\ UNCHANGED <<frame_counter, collected, letters, i, spelt>>
  BY DEF Move
<1> HIDE DEF x, y
<1>6. player' \in Point
  BY <1>3, <1>4, <1>5 DEF Point
<1>7. TypeOK' /\ FrameLeft'
  BY <1>5, <1>6, TimeAssumption DEF Move, IInv, TypeOK, FrameLeft
<1>8. PlayerInBounds'
  BY <1>3, <1>4, <1>5 DEF PlayerInBounds, Inside
<1>9. Spawned' = Spawned
  BY <1>5 DEF Spawned
<1>10. LettersOnScreen' /\ NothingTouches' /\ SeriesInOrder'
  BY <1>5, <1>9 DEF IInv, LettersOnScreen, Inside, NothingTouches, Overlap, SeriesInOrder
<1> QED BY <1>7, <1>8, <1>10 DEF IInv

\* At most one letter appears in a turn, clear of all that is there.
LEMMA SpawnIInv == IInv /\ Spawn => IInv'
<1> SUFFICES ASSUME IInv, Spawn PROVE IInv'
  OBVIOUS
<1> DEFINE New(o) == o \notin Spawned /\ Rem(frame_counter, Period) = SpawnAt[o] /\ Free(o)
<1>1. /\ pc' = "touch" /\ i' = 1
      /\ letters' = [o \in Letters |-> IF New(o) THEN SpawnPlace ELSE letters[o]]
      /\ UNCHANGED <<frame_counter, collected, player, won, spelt>>
  BY DEF Spawn
<1>2. SpawnPlace \in Point
  BY SpawnPlaceType DEF IInv
<1>3. letters' \in [Letters -> Point \cup {Absent}]
  BY <1>1, <1>2 DEF IInv, TypeOK
<1>4. TypeOK' /\ FrameLeft'
  BY <1>1, <1>3 DEF Spawn, IInv, TypeOK, FrameLeft
<1>5. PlayerInBounds' /\ SeriesInOrder'
  BY <1>1 DEF IInv, PlayerInBounds, Inside, SeriesInOrder
<1>6. ASSUME NEW o \in Spawned'
      PROVE  o \in Letters /\ letters'[o] = IF New(o) THEN SpawnPlace ELSE letters[o]
  BY <1>1 DEF Spawned
<1>7. ASSUME NEW o \in Spawned', ~New(o)
      PROVE  o \in Spawned
  BY <1>6, <1>7 DEF Spawned
<1>8. ASSUME NEW o \in Letters, NEW r \in Letters, New(o), New(r)
      PROVE  o = r
  BY <1>8, TimeAssumption
<1>9. LettersOnScreen'
  <2> SUFFICES ASSUME 3 * (frame_counter + Width + Height) < Half, NEW o \in Spawned'
               PROVE  Inside(letters'[o], o, 0)
    BY <1>1 DEF LettersOnScreen, Inside
  <2>1. CASE New(o)
    BY <2>1, <1>6, SpawnPlaceInside DEF IInv
  <2>2. CASE ~New(o)
    BY <2>2, <1>6, <1>7 DEF IInv, LettersOnScreen
  <2> QED BY <2>1, <2>2
<1>10. NothingTouches'
  <2> SUFFICES ASSUME NEW o \in Spawned', NEW r \in Spawned', o # r
               PROVE  ~Overlap(letters'[o], o, letters'[r], r)
    BY <1>1 DEF NothingTouches, Overlap, Spawned, Letters
  <2>1. CASE ~New(o) /\ ~New(r)
    BY <2>1, <1>6, <1>7 DEF IInv, NothingTouches
  <2>2. CASE New(o)
    <3>1. ~New(r) /\ r \in Spawned \ {o}
      BY <2>2, <1>6, <1>7, <1>8
    <3> QED BY <2>2, <3>1, <1>6 DEF Free
  <2>3. CASE New(r)
    <3>1. ~New(o) /\ o \in Spawned \ {r}
      BY <2>3, <1>6, <1>7, <1>8
    <3>2. ~Overlap(SpawnPlace, r, letters[o], o)
      BY <2>3, <3>1 DEF Free
    <3>3. letters'[r] = SpawnPlace /\ letters'[o] = letters[o]
      BY <2>3, <3>1, <1>6
    <3>4. /\ SpawnPlace[1] \in Int /\ SpawnPlace[2] \in Int
          /\ letters[o][1] \in Int /\ letters[o][2] \in Int
      BY <1>2, <3>1 DEF IInv, TypeOK, Spawned, Point
    <3>5. W[o] \in Nat /\ W[r] \in Nat /\ H[o] \in Nat /\ H[r] \in Nat
      BY <1>6, Sizes DEF Letters, Objects
    <3> QED BY <3>2, <3>3, <3>4, <3>5 DEF Overlap
  <2> QED BY <2>1, <2>2, <2>3
<1> QED BY <1>4, <1>5, <1>9, <1>10 DEF IInv

LEMMA TouchIInv == IInv /\ Touch => IInv'
<1> SUFFICES ASSUME IInv, Touch PROVE IInv'
  OBVIOUS
<1>1. /\ pc = "touch" /\ i \in Letters /\ i' = i + 1
      /\ UNCHANGED <<pc, frame_counter, player>>
  BY DEF Touch
<1>2. PlayerInBounds'
  BY <1>1 DEF IInv, PlayerInBounds, Inside
<1>3. CASE i \in Spawned /\ Overlap(player, 0, letters[i], i)
  <2> DEFINE n == Series(collected, i)
  <2>1. /\ letters' = [letters EXCEPT ![i] = Absent]
        /\ collected' = (IF n = 3 THEN 0 ELSE n)
        /\ won' = (n = 3) /\ spelt' = Spelt(spelt, i)
    BY <1>3 DEF Touch
  <2>2. collected \in 0..2 /\ spelt \in 0..3 /\ i \in 1..3
    BY <1>1 DEF IInv, TypeOK, Letters
  <2>3. collected' \in 0..2 /\ spelt' \in 0..3
    BY <2>1, <2>2 DEF Series, Spelt
  <2>4. letters' \in [Letters -> Point \cup {Absent}]
    BY <1>1, <2>1 DEF IInv, TypeOK
  <2>5. won' \in BOOLEAN
    BY <2>1, Zenon
  <2>6. TypeOK' /\ FrameLeft'
    BY <1>1, <2>2, <2>3, <2>4, <2>5 DEF IInv, TypeOK, FrameLeft
  <2>7. Spawned' = Spawned \ {i} /\ \A o \in Spawned' : letters'[o] = letters[o]
    BY <2>1, <2>4 DEF IInv, TypeOK, Spawned
  <2>8. LettersOnScreen'
    BY <1>1, <2>7 DEF IInv, LettersOnScreen, Inside
  <2>9. NothingTouches'
    <3>1. \A o \in Spawned' : o < i + 1 => o < i
      BY <1>1, <2>7 DEF Spawned, Letters
    <3> QED BY <1>1, <2>7, <3>1 DEF IInv, NothingTouches, Overlap
  <2>10. SeriesInOrder'
    <3>1. collected = 0 \/ collected = spelt
      BY DEF IInv, SeriesInOrder
    <3>2. n \in 0..3 /\ (n = 0 \/ n = spelt')
      BY <2>1, <2>2, <3>1 DEF Series, Spelt
    <3>3. won' /\ collected' = 0 => spelt' = 3
      <4>1. won' => n = 3
        BY <2>1, Zenon
      <4> HIDE DEF n
      <4> QED BY <3>2, <4>1
    <3>4. collected' \in {0, spelt'}
      <4> HIDE DEF n
      <4> QED BY <2>1, <3>2
    <3> QED BY <3>3, <3>4 DEF SeriesInOrder
  <2> QED BY <1>2, <2>6, <2>8, <2>9, <2>10 DEF IInv
<1>4. CASE ~(i \in Spawned /\ Overlap(player, 0, letters[i], i))
  <2>1. UNCHANGED <<letters, collected, won, spelt>>
    BY <1>4 DEF Touch
  <2>2. TypeOK' /\ FrameLeft' /\ SeriesInOrder'
    BY <1>1, <2>1 DEF IInv, TypeOK, FrameLeft, SeriesInOrder, Letters
  <2>3. Spawned' = Spawned
    BY <2>1 DEF Spawned
  <2>4. LettersOnScreen'
    BY <1>1, <2>1, <2>3 DEF IInv, LettersOnScreen, Inside
  <2>5. NothingTouches'
    <3>1. \A o \in Spawned : o < i + 1 => o < i \/ o = i
      BY <1>1 DEF Spawned, Letters
    <3> QED BY <1>1, <1>4, <2>1, <2>3, <3>1 DEF IInv, NothingTouches, Overlap
  <2> QED BY <1>2, <2>2, <2>4, <2>5 DEF IInv
<1> QED BY <1>3, <1>4

LEMMA DrawIInv == IInv /\ Draw => IInv'
<1> SUFFICES ASSUME IInv, Draw PROVE IInv'
  OBVIOUS
<1>1. /\ frame_counter' = frame_counter + 1 /\ pc' = "move"
      /\ UNCHANGED <<collected, player, letters, i, won, spelt>>
  BY DEF Draw
<1>2. frame_counter' \in 0..MaxFrames
  BY TimeAssumption DEF Draw, IInv, TypeOK, FrameLeft
<1>3. TypeOK' /\ FrameLeft' /\ PlayerInBounds' /\ SeriesInOrder'
  BY <1>1, <1>2 DEF IInv, TypeOK, FrameLeft, PlayerInBounds, Inside, SeriesInOrder
<1>4. Spawned' = Spawned
  BY <1>1 DEF Spawned
<1>5. LettersOnScreen'
  <2>1. Half \in Nat /\ frame_counter \in Nat
    BY TimeAssumption DEF IInv, TypeOK
  <2>2. 3 * (frame_counter' + Width + Height) < Half =>
          3 * (frame_counter + Width + Height) < Half
    BY <1>1, <2>1, Sizes
  <2> QED BY <1>1, <1>4, <2>2 DEF IInv, LettersOnScreen, Inside
<1>6. NothingTouches'
  BY <1>1, <1>4 DEF IInv, NothingTouches, Overlap
<1> QED BY <1>3, <1>5, <1>6 DEF IInv

LEMMA StepIInv == IInv /\ [Next]_vars => IInv'
<1> SUFFICES ASSUME IInv, [Next]_vars PROVE IInv'
  OBVIOUS
<1>1. CASE UNCHANGED vars
  <2>1. Spawned' = Spawned
    BY <1>1 DEF vars, Spawned
  <2> QED BY <1>1, <2>1
       DEF vars, IInv, TypeOK, FrameLeft, PlayerInBounds, LettersOnScreen, Inside,
           NothingTouches, Overlap, SeriesInOrder
<1> QED BY <1>1, MoveIInv, SpawnIInv, TouchIInv, DrawIInv DEF Next

\* The inductive invariant holds in every reachable state of the game.
THEOREM Inductive == Spec => []IInv
BY InitIInv, StepIInv, PTL DEF Spec

\* Every variable keeps its type, in particular no whole series is left behind.
THEOREM TypeCorrect == Spec => []TypeOK
<1>1. IInv => TypeOK
  BY DEF IInv
<1> QED BY <1>1, Inductive, PTL

\* The player never leaves the borders of the screen.
THEOREM PlayerStaysInBounds == Spec => []PlayerInBounds
<1>1. IInv => PlayerInBounds
  BY DEF IInv
<1> QED BY <1>1, Inductive, PTL

\* Every letter is drawn whole on the screen until the spawn formula overflows.
THEOREM LettersStayOnScreen == Spec => []LettersOnScreen
<1>1. IInv => LettersOnScreen
  BY DEF IInv
<1> QED BY <1>1, Inductive, PTL

\* Every object that is drawn lies on the screen.
THEOREM StaysOnScreen == Spec => []OnScreen
  BY PlayerStaysInBounds, LettersStayOnScreen, PTL DEF OnScreen

\* Nothing that is drawn touches.
THEOREM NothingEverTouches == Spec => []NothingTouches
<1>1. IInv => NothingTouches
  BY DEF IInv
<1> QED BY <1>1, Inductive, PTL

\* What is drawn lies on the screen and does not touch.
THEOREM ScreenStaysInOrder == Spec => []ScreenInOrder
  BY StaysOnScreen, NothingEverTouches, PTL DEF ScreenInOrder

\* The game is won only when K, I and V have been touched in a row.
THEOREM WonBySpelling == Spec => []SeriesInOrder
<1>1. IInv => SeriesInOrder
  BY DEF IInv
<1> QED BY <1>1, Inductive, PTL
============================================================================
