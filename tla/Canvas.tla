------------------------------- MODULE Canvas -------------------------------
(***************************************************************************)
(* What graphics.c promises: a picture of Width by Height pixels that is   *)
(* filled with a colour, or onto which a sprite is painted with its upper  *)
(* left corner at (x, y), whatever lies outside being cut off.             *)
(***************************************************************************)
EXTENDS Integers

CONSTANTS
  Width, Height,
  Colors,
  Sprites,     \* records of a width, a height and a sequence of colours
  Xs, Ys,      \* where a sprite may be put
  Over(_, _),  \* Over(below, above): a colour with another painted on it
  Opaque(_, _) \* the same, without regard to transparency

VARIABLE picture   \* <<column, row>> -> colour

Pixels == (0..(Width - 1)) \X (0..(Height - 1))

Covers(sprite, x, y, p) ==
  /\ p[1] \in x..(x + sprite.width - 1)
  /\ p[2] \in y..(y + sprite.height - 1)

ColorAt(sprite, x, y, p) ==
  sprite.buffer[(p[1] - x) + (p[2] - y) * sprite.width + 1]

Init == picture \in [Pixels -> Colors]

Fill(color) == picture' = [p \in Pixels |-> color]

Paint(sprite, x, y, Mix(_, _)) ==
  picture' = [p \in Pixels |->
    IF Covers(sprite, x, y, p)
      THEN Mix(picture[p], ColorAt(sprite, x, y, p))
      ELSE picture[p]]

Next ==
  \/ \E color \in Colors : Fill(color)
  \/ \E sprite \in Sprites, x \in Xs, y \in Ys :
       Paint(sprite, x, y, Over) \/ Paint(sprite, x, y, Opaque)

Spec == Init /\ [][Next]_picture
=============================================================================
