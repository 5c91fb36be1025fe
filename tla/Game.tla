-------------------------------- MODULE Game --------------------------------
(***************************************************************************)
(* main.c: the user program.  An astronaut walks among the letters K, I    *)
(* and V, which are to be collected in that order.  A turn of main's loop  *)
(* moves the player, lets letters appear, takes those that are touched and *)
(* draws.  Sizes and times are scaled, with the arithmetic of int.         *)
(***************************************************************************)
EXTENDS Integers, Sequences

CONSTANTS
  Width, Height,      \* RES_WIDTH, RES_HEIGHT
  Margin,             \* GAME_SPACE_MARGIN
  SpawnMargin,        \* SPAWN_MARGIN
  W, H,               \* width and height of the objects' sprites
  Start,              \* where the player starts
  Period,             \* 120 frames
  SpawnAt,            \* for each letter, when in a period it may appear
  Half,               \* 2^31: an int is in -Half .. Half - 1
  MaxFrames           \* bound on the number of frames

Letters == 1..3       \* K, I, V in game_objs; the player is 0
Objects == 0..3
SpawnAreaX == Width - 3 * SpawnMargin
SpawnAreaY == Height - 3 * SpawnMargin

ASSUME ScreenAssumption ==
  /\ Width \in Nat /\ Height \in Nat /\ Margin \in Nat /\ SpawnMargin \in Nat
  /\ SpawnAreaX > 0 /\ SpawnAreaY > 0
  /\ W \in [Objects -> Nat] /\ H \in [Objects -> Nat]
  /\ \A o \in Letters : W[o] <= 2 * SpawnMargin /\ H[o] <= 2 * SpawnMargin
  /\ W[0] + 2 * Margin <= Width /\ H[0] + 2 * Margin <= Height
  /\ Start \in Nat \X Nat
  /\ Start[1] >= Margin /\ Start[1] + W[0] <= Width - Margin
  /\ Start[2] >= Margin /\ Start[2] + H[0] <= Height - Margin
ASSUME TimeAssumption ==
  /\ Period \in Nat \ {0} /\ SpawnAt \in [Letters -> Nat]
  /\ \A o, r \in Letters : SpawnAt[o] = SpawnAt[r] => o = r
  /\ Half \in Nat /\ MaxFrames \in Nat /\ MaxFrames < Half
  /\ Width + Height < Half

VARIABLES
  pc,            \* where main's loop is
  frame_counter,
  collected,     \* collected_letters
  player,        \* x and y of the player
  letters,       \* x and y of the letters, Absent for one that is not spawned
  i,             \* main's loop variable
  won,           \* the sound of this turn is the one of a whole series
  spelt          \* history: how much of K, I, V the letters touched last spell

vars == <<pc, frame_counter, collected, player, letters, i, won, spelt>>

Point == Int \X Int
Absent == <<>>
Spawned == {o \in Letters : letters[o] # Absent}

\* A value beyond int, wrapped around.
Int32(v) == IF v >= Half THEN ((v + Half) % (2 * Half)) - Half ELSE v

\* C's remainder has the sign of its left operand.
Rem(a, b) == IF a >= 0 THEN a % b ELSE -((-a) % b)

\* game_obj_check_if_collides: object o at p, and r, which is spawned, at q.
Overlap(p, o, q, r) ==
  /\ p[1] + W[o] >= q[1] /\ q[1] + W[r] >= p[1]
  /\ p[2] + H[o] >= q[2] /\ q[2] + H[r] >= p[2]

Init ==
  /\ pc = "move" /\ frame_counter = 0 /\ collected = 0
  /\ player = Start /\ letters = [o \in Letters |-> Absent]
  /\ i = 1 /\ won = FALSE /\ spelt = 0

\* Mutant: the far border has no margin.
Snap_NearOnly(v, size, limit) ==
  IF v < Margin THEN Margin ELSE IF v + size > limit THEN limit - size ELSE v

\* game_obj_snap_inbounds, in one direction.
Snap(v, size, limit) ==
  IF v < Margin THEN Margin
  ELSE IF v + size > limit - Margin THEN limit - Margin - size
  ELSE v

\* The buttons held move the player by dx and dy.
Move(dx, dy) ==
  /\ pc = "move" /\ frame_counter < MaxFrames
  /\ player' = <<Snap(player[1] + dx, W[0], Width), Snap(player[2] + dy, H[0], Height)>>
  /\ won' = FALSE /\ pc' = "spawn"
  /\ UNCHANGED <<frame_counter, collected, letters, i, spelt>>

\* Mutant: the margin is left on one side only.
InArea_OneMargin(v, area) ==
  Rem(Int32(Int32(frame_counter + v) * (collected + 1)), area + 2 * SpawnMargin) + SpawnMargin

\* One coordinate of the place where a letter appears.
InArea(v, area) ==
  Rem(Int32(Int32(frame_counter + v) * (collected + 1)), area) + SpawnMargin

SpawnPlace == <<InArea(player[2], SpawnAreaX), InArea(player[1], SpawnAreaY)>>

\* Mutant: only the player is kept clear of.
Free_OfPlayer(letter) == ~Overlap(SpawnPlace, letter, player, 0)

Free(letter) ==
  /\ ~Overlap(SpawnPlace, letter, player, 0)
  /\ \A o \in Spawned \ {letter} : ~Overlap(SpawnPlace, letter, letters[o], o)

\* game_obj_spawn of the letter whose time has come.
Spawn ==
  /\ pc = "spawn" /\ pc' = "touch" /\ i' = 1
  /\ letters' = [o \in Letters |->
       IF o \notin Spawned /\ Rem(frame_counter, Period) = SpawnAt[o] /\ Free(o)
         THEN SpawnPlace ELSE letters[o]]
  /\ UNCHANGED <<frame_counter, collected, player, won, spelt>>

\* Mutant: a letter out of order is not counted, but the series goes on.
Series_GoesOn(n, letter) == IF letter = n + 1 THEN n + 1 ELSE n

Series(n, letter) == IF letter = n + 1 THEN n + 1 ELSE 0

Spelt(n, letter) == IF letter = n + 1 THEN n + 1 ELSE IF letter = 1 THEN 1 ELSE 0

\* Mutant: a whole series is not taken back.
Touch_KeepsSeries ==
  /\ pc = "touch" /\ i \in Letters
  /\ i' = i + 1
  /\ IF i \in Spawned /\ Overlap(player, 0, letters[i], i)
       THEN /\ letters' = [letters EXCEPT ![i] = Absent]
            /\ collected' = Series(collected, i)
            /\ won' = (collected' = 3)
            /\ spelt' = Spelt(spelt, i)
       ELSE UNCHANGED <<letters, collected, won, spelt>>
  /\ UNCHANGED <<pc, frame_counter, player>>

\* The next letter of the loop: touched or not.
Touch ==
  /\ pc = "touch" /\ i \in Letters
  /\ i' = i + 1
  /\ IF i \in Spawned /\ Overlap(player, 0, letters[i], i)
       THEN LET n == Series(collected, i) IN
            /\ letters' = [letters EXCEPT ![i] = Absent]
            /\ collected' = IF n = 3 THEN 0 ELSE n
            /\ won' = (n = 3)
            /\ spelt' = Spelt(spelt, i)
       ELSE UNCHANGED <<letters, collected, won, spelt>>
  /\ UNCHANGED <<pc, frame_counter, player>>

\* display_get to display_show.
Draw ==
  /\ pc = "touch" /\ i \notin Letters
  /\ frame_counter' = frame_counter + 1
  /\ pc' = "move"
  /\ UNCHANGED <<collected, player, letters, i, won, spelt>>

Next == (\E dx, dy \in {-1, 0, 1} : Move(dx, dy)) \/ Spawn \/ Touch \/ Draw

Spec == Init /\ [][Next]_vars

------------------------------------------------------------------------------
TypeOK ==
  /\ pc \in {"move", "spawn", "touch"} /\ frame_counter \in 0..MaxFrames
  /\ collected \in 0..2 /\ player \in Point
  /\ letters \in [Letters -> Point \cup {Absent}]
  /\ i \in 1..4 /\ won \in BOOLEAN /\ spelt \in 0..3

Inside(p, o, margin) ==
  /\ p[1] >= margin /\ p[1] + W[o] <= Width - margin
  /\ p[2] >= margin /\ p[2] + H[o] <= Height - margin

\* The player stays within the borders, whatever is held.
PlayerInBounds == Inside(player, 0, Margin)

\* Every letter appears whole, wherever the player is and whatever has been
\* collected, as long as three times the frame counter is an int.  Behind
\* that the product overflows, its remainder is negative, and letters lie
\* across the border of the screen or beyond it.
LettersOnScreen ==
  3 * (frame_counter + Width + Height) < Half =>
    \A o \in Spawned : Inside(letters[o], o, 0)

\* Every object that is drawn lies on the screen.
OnScreen == PlayerInBounds /\ LettersOnScreen

\* What is drawn does not touch: letters appear where nothing is, and those
\* that the player touches are gone in the same turn.
NothingTouches ==
  /\ \A o, r \in Spawned : o # r => ~Overlap(letters[o], o, letters[r], r)
  /\ pc = "touch" => \A o \in Spawned : o < i => ~Overlap(player, 0, letters[o], o)

\* What is drawn lies on the screen and does not touch.
ScreenInOrder == OnScreen /\ NothingTouches

\* Letters are counted only while they spell the name, and the player wins
\* only with K, I and V touched one after the other.
SeriesInOrder ==
  /\ collected \in {0, spelt}
  /\ won /\ collected = 0 => spelt = 3

=============================================================================
