------------------------------ MODULE Graphics ------------------------------
(***************************************************************************)
(* graphics.c: sprites are painted on a surface pixel by pixel, through    *)
(* one index into the surface's buffer.  A wrong clip area does not show   *)
(* at once: a column too far to the left or right is a pixel of another    *)
(* row, and only rows outside leave the buffer.                            *)
(***************************************************************************)
EXTENDS Integers, Sequences

CONSTANTS
  Width, Height,  \* of the surface that is drawn on
  Colors,
  Opaque,         \* the colours whose alpha is 0xFF
  Blend,          \* alphablend_pixel: <<current, drawn>> -> colour
  Sprites,        \* surface_t's to draw; a buffer <<>> stands for NULL
  Xs, Ys          \* the coordinates callers pass

ASSUME SizeAssumption   == Width \in Nat \ {0} /\ Height \in Nat \ {0}
ASSUME ColorsAssumption == Opaque \subseteq Colors /\ Blend \in [Colors \X Colors -> Colors]
ASSUME PlaceAssumption  == Xs \subseteq Int /\ Ys \subseteq Int
ASSUME SpritesAssumption ==
  \A s \in Sprites :
    /\ s.width \in Nat /\ s.height \in Nat /\ s.buffer \in Seq(Colors)
    /\ s.buffer = <<>> \/ Len(s.buffer) = s.width * s.height

VARIABLES
  buffer,   \* the surface's buffer: index -> colour
  before,   \* the buffer when the call began
  src,      \* arguments of the call ...
  x, y,
  alpha,    \* ... and whether it is graphics_draw_surface_alpha
  clip,     \* clip_area
  src_row, src_col,
  pc

vars == <<buffer, before, src, x, y, alpha, clip, src_row, src_col, pc>>

args == <<before, src, x, y, alpha, clip>>

Indexes == 0..(Width * Height - 1)

NoSprite == [width |-> 0, height |-> 0, buffer |-> <<>>]
NoClip   == [x_start |-> 0, y_start |-> 0, x_end |-> 0, y_end |-> 0]

Init ==
  /\ \E color \in Colors : buffer = [i \in Indexes |-> color]
  /\ before = buffer
  /\ src = NoSprite /\ x = 0 /\ y = 0 /\ alpha = FALSE /\ clip = NoClip
  /\ src_row = 0 /\ src_col = 0 /\ pc = "idle"

\* A bug for the runs to catch: one pixel too many.
graphics_fill_Inclusive(color) ==
  /\ pc = "idle"
  /\ buffer' = [i \in 0..(Width * Height) |-> color]
  /\ before' = buffer'
  /\ UNCHANGED <<src, x, y, alpha, clip, src_row, src_col, pc>>

graphics_fill(color) ==
  /\ pc = "idle"
  /\ buffer' = [i \in Indexes |-> color]
  /\ before' = buffer'
  /\ UNCHANGED <<src, x, y, alpha, clip, src_row, src_col, pc>>

------------------------------------------------------------------------------
OffSurface(s, at_x, at_y) ==
  \/ at_x + s.width <= 0 \/ at_y + s.height <= 0
  \/ at_x >= Width \/ at_y >= Height

\* Two bugs for the runs to catch: no clipping on the left; one column too
\* few on the right.
clip_surface_NoLeft(s, at_x, at_y) ==
  [x_start |-> 0,
   y_start |-> IF at_y < 0 THEN -at_y ELSE 0,
   x_end   |-> IF at_x + s.width  >= Width  THEN Width  - at_x ELSE s.width,
   y_end   |-> IF at_y + s.height >= Height THEN Height - at_y ELSE s.height]

clip_surface_ShortRight(s, at_x, at_y) ==
  [x_start |-> IF at_x < 0 THEN -at_x ELSE 0,
   y_start |-> IF at_y < 0 THEN -at_y ELSE 0,
   x_end   |-> IF at_x + s.width  >= Width  THEN Width - 1 - at_x ELSE s.width,
   y_end   |-> IF at_y + s.height >= Height THEN Height - at_y ELSE s.height]

clip_surface(s, at_x, at_y) ==
  [x_start |-> IF at_x < 0 THEN -at_x ELSE 0,
   y_start |-> IF at_y < 0 THEN -at_y ELSE 0,
   x_end   |-> IF at_x + s.width  >= Width  THEN Width  - at_x ELSE s.width,
   y_end   |-> IF at_y + s.height >= Height THEN Height - at_y ELSE s.height]

\* Without a buffer or outside of the surface the call returns at once.
graphics_draw_surface(s, at_x, at_y, with_alpha) ==
  /\ pc = "idle"
  /\ s.buffer # <<>> /\ ~OffSurface(s, at_x, at_y)
  /\ before' = buffer
  /\ src' = s /\ x' = at_x /\ y' = at_y /\ alpha' = with_alpha
  /\ clip' = clip_surface(s, at_x, at_y)
  /\ src_row' = clip'.y_start
  /\ pc' = "rows"
  /\ UNCHANGED <<buffer, src_col>>

NextRow ==
  /\ pc = "rows" /\ src_row < clip.y_end
  /\ src_col' = clip.x_start
  /\ pc' = "columns"
  /\ UNCHANGED <<buffer, args, src_row>>

\* The call returns; its arguments and local variables are gone.
Return ==
  /\ pc = "rows" /\ src_row >= clip.y_end
  /\ before' = buffer
  /\ src' = NoSprite /\ x' = 0 /\ y' = 0 /\ alpha' = FALSE /\ clip' = NoClip
  /\ src_row' = 0 /\ src_col' = 0
  /\ pc' = "idle"
  /\ UNCHANGED buffer

Index    == (x + src_col) + (y + src_row) * Width
SrcColor == src.buffer[src_row * src.width + src_col + 1]

\* The pixel above is drawn as it is, or blended if it is not opaque.
Over(below, above)  == IF above \in Opaque THEN above ELSE Blend[<<below, above>>]
Plain(below, above) == above

DrawPixel ==
  /\ pc = "columns" /\ src_col < clip.x_end
  /\ buffer' = [buffer EXCEPT ![Index] =
       IF alpha THEN Over(@, SrcColor) ELSE Plain(@, SrcColor)]
  /\ src_col' = src_col + 1
  /\ UNCHANGED <<args, src_row, pc>>

\* A bug for the runs to catch: the same row again.
EndRow_SameRow ==
  /\ pc = "columns" /\ src_col >= clip.x_end
  /\ pc' = "rows"
  /\ UNCHANGED <<buffer, args, src_row, src_col>>

EndRow ==
  /\ pc = "columns" /\ src_col >= clip.x_end
  /\ src_row' = src_row + 1
  /\ pc' = "rows"
  /\ UNCHANGED <<buffer, args, src_col>>

Next ==
  \/ \E color \in Colors : graphics_fill(color)
  \/ \E s \in Sprites, at_x \in Xs, at_y \in Ys, with_alpha \in BOOLEAN :
       graphics_draw_surface(s, at_x, at_y, with_alpha)
  \/ NextRow \/ DrawPixel \/ EndRow \/ Return

Spec == Init /\ [][Next]_vars

Draw == NextRow \/ DrawPixel \/ EndRow \/ Return

\* A call runs on.
FairSpec == Spec /\ WF_vars(Draw)

------------------------------------------------------------------------------
TypeOK ==
  /\ buffer \in [Indexes -> Colors] /\ before \in [Indexes -> Colors]
  /\ src \in Sprites \cup {NoSprite} /\ x \in Int /\ y \in Int /\ alpha \in BOOLEAN
  /\ clip \in [x_start : Nat, y_start : Nat, x_end : Int, y_end : Int]
  /\ src_row \in 0..src.height /\ src_col \in 0..src.width
  /\ pc \in {"idle", "rows", "columns"}

\* A pixel that is drawn is one of the sprite's, and lies in the row and the
\* column of the surface that the sprite's place gives it, not in another row
\* that shares the index.
DrawsInside ==
  pc = "columns" /\ src_col < clip.x_end =>
    /\ src_row < src.height /\ src_col < src.width
    /\ x + src_col \in 0..(Width - 1) /\ y + src_row \in 0..(Height - 1)

\* When a call returns, the sprite's visible part has been painted once, and
\* nothing else: graphics.c implements the canvas.
Painted == INSTANCE Canvas WITH
  picture <- [p \in (0..(Width - 1)) \X (0..(Height - 1)) |->
                (IF pc = "idle" THEN buffer ELSE before)[p[1] + p[2] * Width]],
  Sprites <- {s \in Sprites : s.buffer # <<>>}, Opaque <- Plain

CanvasSpec == Painted!Spec

\* A call comes to its end: also the loops over a clip area that is empty.
DrawReturns == []<>(pc = "idle")
=============================================================================
