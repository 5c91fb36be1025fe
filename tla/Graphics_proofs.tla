--------------------------- MODULE Graphics_proofs ---------------------------
(***************************************************************************)
(* The clip area keeps the loops of graphics_draw_surface inside both      *)
(* surfaces, for surfaces of any size and sprites at any place, and a call *)
(* paints the sprite's visible part as Canvas says.                        *)
(***************************************************************************)
EXTENDS Graphics, TLAPS

\* A pixel of a surface of w columns and h rows has its place in the buffer.
LEMMA IndexInside ==
  ASSUME NEW w \in Nat, NEW h \in Nat, NEW c \in 0..(w - 1), NEW r \in 0..(h - 1)
  PROVE  c + r * w \in 0..(w * h - 1)
<1>1. r * w \in Nat /\ w * h \in Nat
  OBVIOUS
<1>2. PICK k \in Nat : h = r + 1 + k
  <2>1. h - r - 1 \in Nat /\ h = r + 1 + (h - r - 1)
    OBVIOUS
  <2> QED BY <2>1
<1>3. w * h = r * w + w + k * w /\ k * w \in Nat
  BY <1>2
<1> QED BY <1>1, <1>3

\* What a call knows of its arguments and of its loop variables.
Calling ==
  pc # "idle" =>
    /\ src \in Sprites /\ src.buffer # <<>> /\ ~OffSurface(src, x, y)
    /\ clip = clip_surface(src, x, y)
    /\ clip.y_start <= src_row

Column ==
  pc = "columns" => src_row < clip.y_end /\ clip.x_start <= src_col

\* Between calls there are no arguments.
Idle ==
  pc = "idle" => src = NoSprite /\ src_row = 0 /\ src_col = 0

IInv == TypeOK /\ Calling /\ Column /\ Idle

LEMMA Inside == IInv => DrawsInside
<1> SUFFICES ASSUME IInv, pc = "columns", src_col < clip.x_end
             PROVE  /\ src_row < src.height /\ src_col < src.width
                    /\ x + src_col \in 0..(Width - 1)
                    /\ y + src_row \in 0..(Height - 1)
  BY DEF DrawsInside
<1>1. /\ src.width \in Nat /\ src.height \in Nat
      /\ src_row \in Int /\ src_col \in Int /\ x \in Int /\ y \in Int
      /\ Width \in Nat /\ Height \in Nat
  BY SpritesAssumption, SizeAssumption DEF IInv, TypeOK, Calling, NoSprite
<1>2. /\ clip.x_start = IF x < 0 THEN -x ELSE 0
      /\ clip.y_start = IF y < 0 THEN -y ELSE 0
      /\ clip.x_end = IF x + src.width >= Width THEN Width - x ELSE src.width
      /\ clip.y_end = IF y + src.height >= Height THEN Height - y ELSE src.height
      /\ clip.y_start <= src_row /\ src_row < clip.y_end
      /\ clip.x_start <= src_col
  BY DEF IInv, Calling, Column, clip_surface
<1> QED BY <1>1, <1>2

\* The index of the pixel that is drawn, and of the one that it is drawn from.
LEMMA InBuffers ==
  IInv /\ pc = "columns" /\ src_col < clip.x_end =>
    Index \in Indexes /\ SrcColor \in Colors
<1> SUFFICES ASSUME IInv, pc = "columns", src_col < clip.x_end
             PROVE  Index \in Indexes /\ SrcColor \in Colors
  OBVIOUS
<1>1. /\ src_row < src.height /\ src_col < src.width
      /\ x + src_col \in 0..(Width - 1) /\ y + src_row \in 0..(Height - 1)
  BY Inside DEF DrawsInside
<1>2. /\ src.width \in Nat /\ src.height \in Nat /\ src.buffer \in Seq(Colors)
      /\ Len(src.buffer) = src.width * src.height
      /\ src_row \in Nat /\ src_col \in Nat
  BY SpritesAssumption DEF IInv, TypeOK, Calling
<1>3. Index \in Indexes
  <2> DEFINE c == x + src_col
             r == y + src_row
  <2>1. c + r * Width \in 0..(Width * Height - 1)
    <3>1. c \in 0..(Width - 1) /\ r \in 0..(Height - 1)
      BY <1>1
    <3>2. Width \in Nat /\ Height \in Nat
      BY SizeAssumption
    <3> HIDE DEF c, r
    <3> QED BY <3>1, <3>2, IndexInside
  <2> QED BY <2>1 DEF Index, Indexes
<1>4. src_col + src_row * src.width \in 0..(src.width * src.height - 1)
  <2> DEFINE w == src.width
             h == src.height
  <2>1. w \in Nat /\ h \in Nat /\ src_col \in 0..(w - 1) /\ src_row \in 0..(h - 1)
    BY <1>1, <1>2
  <2> HIDE DEF w, h
  <2>2. src_col + src_row * w \in 0..(w * h - 1)
    BY <2>1, IndexInside
  <2> QED BY <2>2 DEF w, h
<1>5. src_row * src.width + src_col + 1 \in 1..Len(src.buffer)
  BY <1>2, <1>4
<1>6. SrcColor \in Colors
  BY <1>2, <1>5 DEF SrcColor
<1> QED BY <1>3, <1>6

LEMMA InitIInv == Init => IInv
<1> SUFFICES ASSUME Init PROVE IInv
  OBVIOUS
<1>1. buffer \in [Indexes -> Colors] /\ before \in [Indexes -> Colors]
  BY DEF Init
<1>2. src \in Sprites \cup {NoSprite} /\ src_row \in 0..src.height /\ src_col \in 0..src.width
  BY DEF Init, NoSprite
<1>3. clip \in [x_start : Nat, y_start : Nat, x_end : Int, y_end : Int]
  BY DEF Init, NoClip
<1>4. alpha \in BOOLEAN
  BY Zenon DEF Init
<1>5. TypeOK
  BY <1>1, <1>2, <1>3, <1>4 DEF Init, TypeOK
<1> QED BY <1>5 DEF Init, IInv, Calling, Column, Idle

\* What the clip area of a sprite that is not off the surface looks like.
LEMMA ClipInside ==
  ASSUME NEW s \in Sprites, NEW at_x \in Int, NEW at_y \in Int,
         ~OffSurface(s, at_x, at_y)
  PROVE  LET c == clip_surface(s, at_x, at_y)
         IN  /\ c \in [x_start : Nat, y_start : Nat, x_end : Int, y_end : Int]
             /\ c.x_start <= s.width /\ c.x_end <= s.width
             /\ c.y_start <= s.height /\ c.y_end <= s.height
<1>1. s.width \in Nat /\ s.height \in Nat /\ Width \in Nat /\ Height \in Nat
  BY SpritesAssumption, SizeAssumption
<1> QED BY <1>1 DEF clip_surface, OffSurface

LEMMA StepIInv == IInv /\ [Next]_vars => IInv'
<1> SUFFICES ASSUME IInv, [Next]_vars PROVE IInv'
  OBVIOUS
<1>1. ASSUME NEW color \in Colors, graphics_fill(color) PROVE IInv'
  <2>1. buffer' \in [Indexes -> Colors] /\ before' \in [Indexes -> Colors]
    BY <1>1 DEF graphics_fill
  <2>2. TypeOK'
    BY <1>1, <2>1 DEF graphics_fill, IInv, TypeOK
  <2> QED BY <1>1, <2>2 DEF graphics_fill, IInv, Calling, Column, Idle
<1>2. ASSUME NEW s \in Sprites, NEW at_x \in Xs, NEW at_y \in Ys,
             NEW with_alpha \in BOOLEAN,
             graphics_draw_surface(s, at_x, at_y, with_alpha)
      PROVE  IInv'
  <2>1. /\ s.width \in Nat /\ s.height \in Nat
        /\ at_x \in Int /\ at_y \in Int
    BY SpritesAssumption, PlaceAssumption
  <2>2. /\ clip' = clip_surface(s, at_x, at_y) /\ src_row' = clip'.y_start
        /\ src' = s /\ x' = at_x /\ y' = at_y /\ pc' = "rows" /\ src_col' = 0
        /\ s.buffer # <<>> /\ ~OffSurface(s, at_x, at_y)
    BY <1>2 DEF graphics_draw_surface, IInv, Idle
  <2>3. /\ clip' \in [x_start : Nat, y_start : Nat, x_end : Int, y_end : Int]
        /\ clip'.y_start <= s.height
    BY <2>1, <2>2, ClipInside
  <2>4. src_row' \in 0..s.height /\ src_col' \in 0..s.width
    BY <2>1, <2>2, <2>3
  <2>5. TypeOK'
    BY <1>2, <2>1, <2>2, <2>3, <2>4 DEF graphics_draw_surface, IInv, TypeOK
  <2>6. OffSurface(src, x, y)' = OffSurface(s, at_x, at_y)
    BY <2>2 DEF OffSurface
  <2>7. clip_surface(src, x, y)' = clip_surface(s, at_x, at_y)
    BY <2>2 DEF clip_surface
  <2>8. src' \in Sprites /\ src'.buffer # <<>> /\ clip'.y_start <= src_row'
    BY <2>2, <2>3
  <2>9. Calling'
    BY <2>2, <2>6, <2>7, <2>8 DEF Calling
  <2> QED BY <2>2, <2>5, <2>9 DEF IInv, Column, Idle
<1>3. ASSUME pc # "idle", pc' # "idle", TypeOK', UNCHANGED args, src_row' >= src_row
      PROVE  Calling'
  <2>1. src' = src /\ x' = x /\ y' = y /\ clip' = clip
    BY <1>3 DEF args
  <2>2. /\ src \in Sprites /\ src.buffer # <<>> /\ ~OffSurface(src, x, y)
        /\ clip = clip_surface(src, x, y) /\ clip.y_start <= src_row
        /\ clip.y_start \in Nat /\ src_row \in Int /\ src_row' \in Int
    BY <1>3, SpritesAssumption DEF IInv, Calling, TypeOK, NoSprite
  <2>3. /\ OffSurface(src, x, y)' = OffSurface(src, x, y)
        /\ clip_surface(src, x, y)' = clip_surface(src, x, y)
    BY <2>1 DEF OffSurface, clip_surface
  <2>4. clip'.y_start <= src_row'
    BY <1>3, <2>1, <2>2
  <2> QED BY <2>1, <2>2, <2>3, <2>4 DEF Calling
<1>4. ASSUME pc # "idle"
      PROVE  /\ src \in Sprites /\ src.width \in Nat /\ src.height \in Nat
             /\ clip.x_start \in Nat /\ clip.x_end \in Int /\ clip.y_end \in Int
             /\ clip.x_start <= src.width /\ clip.x_end <= src.width
             /\ clip.y_end <= src.height
  <2>1. /\ src \in Sprites /\ x \in Int /\ y \in Int /\ ~OffSurface(src, x, y)
        /\ clip = clip_surface(src, x, y)
    BY <1>4 DEF IInv, TypeOK, Calling
  <2> QED BY <2>1, ClipInside, SpritesAssumption
<1>5. CASE NextRow
  <2>1. src_col' = clip.x_start /\ src_col' \in 0..src.width
    BY <1>5, <1>4 DEF NextRow
  <2>2. TypeOK'
    BY <1>5, <2>1 DEF NextRow, args, IInv, TypeOK
  <2>3. Calling'
    BY <1>5, <1>3, <2>2, SpritesAssumption DEF NextRow, IInv, TypeOK
  <2>4. Column' /\ Idle'
    BY <1>5, <1>4, <2>1 DEF NextRow, args, Column, Idle
  <2> QED BY <2>2, <2>3, <2>4 DEF IInv
<1>6. CASE DrawPixel
  <2>1. Index \in Indexes /\ SrcColor \in Colors
    BY <1>6, InBuffers DEF DrawPixel
  <2>2. /\ Over(buffer[Index], SrcColor) \in Colors
        /\ Plain(buffer[Index], SrcColor) \in Colors
    BY <2>1, ColorsAssumption DEF IInv, TypeOK, Over, Plain
  <2>3. buffer' \in [Indexes -> Colors]
    BY <1>6, <2>1, <2>2 DEF DrawPixel, IInv, TypeOK
  <2>4. src_col' = src_col + 1 /\ src_col' \in 0..src.width
    BY <1>6, <1>4 DEF DrawPixel, IInv, TypeOK
  <2>5. TypeOK'
    BY <1>6, <2>3, <2>4 DEF DrawPixel, args, IInv, TypeOK
  <2>6. Calling'
    BY <1>6, <1>3, <2>5, SpritesAssumption DEF DrawPixel, IInv, TypeOK
  <2>7. Column' /\ Idle'
    BY <1>6, <1>4, <2>4 DEF DrawPixel, args, IInv, TypeOK, Column, Idle
  <2> QED BY <2>5, <2>6, <2>7 DEF IInv
<1>7. CASE EndRow
  <2>1. src_row' = src_row + 1 /\ src_row' \in 0..src.height
    BY <1>7, <1>4 DEF EndRow, IInv, TypeOK, Column
  <2>2. TypeOK'
    BY <1>7, <2>1 DEF EndRow, args, IInv, TypeOK
  <2>3. Calling'
    BY <1>7, <1>3, <1>4, <2>1, <2>2 DEF EndRow, IInv, TypeOK
  <2>4. Column' /\ Idle'
    BY <1>7 DEF EndRow, Column, Idle
  <2> QED BY <2>2, <2>3, <2>4 DEF IInv
<1>8. CASE Return
  <2>1. /\ src' \in Sprites \cup {NoSprite}
        /\ src_row' \in 0..src'.height /\ src_col' \in 0..src'.width
    BY <1>8 DEF Return, NoSprite
  <2>2. clip' \in [x_start : Nat, y_start : Nat, x_end : Int, y_end : Int]
    BY <1>8 DEF Return, NoClip
  <2>3. alpha' \in BOOLEAN
    BY <1>8, Zenon DEF Return
  <2>4. buffer' \in [Indexes -> Colors] /\ before' \in [Indexes -> Colors]
    BY <1>8 DEF Return, IInv, TypeOK
  <2>5. x' \in Int /\ y' \in Int /\ pc' \in {"idle", "rows", "columns"}
    BY <1>8 DEF Return
  <2>6. TypeOK'
    BY <2>1, <2>2, <2>3, <2>4, <2>5 DEF TypeOK
  <2> QED BY <1>8, <2>6 DEF Return, IInv, Calling, Column, Idle
<1>9. CASE UNCHANGED vars
  BY <1>9 DEF vars, IInv, TypeOK, Calling, Column, Idle, OffSurface, clip_surface
<1> QED
  BY <1>1, <1>2, <1>5, <1>6, <1>7, <1>8, <1>9 DEF Next

\* The strengthened invariant holds of every behaviour.
THEOREM Inductive == Spec => []IInv
BY InitIInv, StepIInv, PTL DEF Spec

\* The buffer keeps its pixels and the loops stay in the sprite, whatever the
\* sizes and the places.
THEOREM TypeCorrect == Spec => []TypeOK
<1>1. IInv => TypeOK
  BY DEF IInv
<1> QED BY <1>1, Inductive, PTL

\* Every pixel graphics_draw_surface writes lies on the surface, in the row and
\* the column where the sprite's place puts it.
THEOREM DrawingStaysInside == Spec => []DrawsInside
BY Inside, Inductive, PTL

------------------------------------------------------------------------------
(* A call paints the sprite: the canvas is implemented.                     *)

\* Two pixels of a surface of w columns have two places in the buffer.
LEMMA IndexUnique ==
  ASSUME NEW w \in Nat, NEW c \in 0..(w - 1), NEW d \in 0..(w - 1),
         NEW r \in Nat, NEW q \in Nat, c + r * w = d + q * w
  PROVE  c = d /\ r = q
<1>1. ASSUME NEW i \in Nat, NEW j \in Nat, NEW m \in 0..(w - 1), NEW n \in 0..(w - 1),
             i < j
      PROVE  m + i * w # n + j * w
  <2>1. PICK k \in Nat : j = i + 1 + k
    <3>1. j - i - 1 \in Nat /\ j = i + 1 + (j - i - 1)
      BY <1>1
    <3> QED BY <3>1
  <2>2. j * w = i * w + w + k * w /\ k * w \in Nat /\ i * w \in Nat
    BY <2>1
  <2> QED BY <2>2
<1>2. r = q
  BY <1>1
<1> QED BY <1>2

\* The pixel of column c and row r: its place in the buffer, whether the
\* sprite covers it, whether the call has come past it, and the sprite's pixel
\* for it.
Place(c, r)   == c + r * Width
Covered(c, r) == c - x \in 0..(src.width - 1) /\ r - y \in 0..(src.height - 1)
Passed(c, r)  == r - y < src_row \/ (pc = "columns" /\ r - y = src_row /\ c - x < src_col)
Source(c, r)  == src.buffer[(c - x) + (r - y) * src.width + 1]

Mixed(below, above) == IF alpha THEN Over(below, above) ELSE Plain(below, above)

\* What was painted of the sprite so far: every pixel it covers and the call
\* has passed once, and nothing else.
PaintedSoFar ==
  \A c \in 0..(Width - 1), r \in 0..(Height - 1) :
    buffer[Place(c, r)] =
      IF Covered(c, r) /\ Passed(c, r)
        THEN Mixed(before[Place(c, r)], Source(c, r))
        ELSE before[Place(c, r)]

Progress == pc # "idle" => x \in Xs /\ y \in Ys /\ PaintedSoFar

PInv == IInv /\ Progress

\* The clip area is the part of the sprite that lies on the surface.
LEMMA ClipIsCovered ==
  ASSUME IInv, pc # "idle", NEW c \in 0..(Width - 1), NEW r \in 0..(Height - 1)
  PROVE  Covered(c, r) <=>
           /\ clip.x_start <= c - x /\ c - x < clip.x_end
           /\ clip.y_start <= r - y /\ r - y < clip.y_end
<1>1. /\ src.width \in Nat /\ src.height \in Nat /\ x \in Int /\ y \in Int
      /\ Width \in Nat /\ Height \in Nat
  BY SpritesAssumption, SizeAssumption DEF IInv, TypeOK, Calling
<1>2. /\ clip.x_start = IF x < 0 THEN -x ELSE 0
      /\ clip.y_start = IF y < 0 THEN -y ELSE 0
      /\ clip.x_end = IF x + src.width >= Width THEN Width - x ELSE src.width
      /\ clip.y_end = IF y + src.height >= Height THEN Height - y ELSE src.height
  BY DEF IInv, Calling, clip_surface
<1> QED BY <1>1, <1>2 DEF Covered

LEMMA StepProgress == PInv /\ [Next]_vars => Progress'
<1> SUFFICES ASSUME PInv, [Next]_vars PROVE Progress'
  OBVIOUS
<1>0. /\ IInv /\ x \in Int /\ y \in Int /\ src_row \in Int /\ src_col \in Int
      /\ Width \in Nat /\ Height \in Nat
      /\ pc # "idle" => /\ src.width \in Nat /\ src.height \in Nat
                        /\ clip.y_start \in Int /\ clip.y_end \in Int
                        /\ clip.x_start \in Int /\ clip.x_end \in Int
  BY SpritesAssumption, SizeAssumption DEF PInv, IInv, TypeOK, Calling, NoSprite
<1>1. ASSUME NEW color \in Colors, graphics_fill(color) PROVE Progress'
  BY <1>1 DEF graphics_fill, Progress
<1>2. ASSUME NEW s \in Sprites, NEW at_x \in Xs, NEW at_y \in Ys,
             NEW with_alpha \in BOOLEAN,
             graphics_draw_surface(s, at_x, at_y, with_alpha)
      PROVE  Progress'
  <2>1. /\ buffer' = buffer /\ before' = buffer
        /\ x' = at_x /\ y' = at_y /\ pc' = "rows"
        /\ clip' = clip_surface(s, at_x, at_y) /\ src_row' = clip'.y_start
    BY <1>2 DEF graphics_draw_surface
  <2>2. at_x \in Int /\ at_y \in Int
    BY PlaceAssumption
  <2>3. ASSUME NEW c \in 0..(Width - 1), NEW r \in 0..(Height - 1)
        PROVE  ~(Covered(c, r) /\ Passed(c, r))'
    <3>1. src_row' = IF at_y < 0 THEN -at_y ELSE 0
      BY <2>1 DEF clip_surface
    <3>2. Covered(c, r)' => r - at_y >= 0 /\ r >= 0
      BY <1>2, <2>1, <2>2, <1>0, SpritesAssumption DEF graphics_draw_surface, Covered
    <3>3. Passed(c, r)' => r - at_y < src_row'
      BY <2>1 DEF Passed
    <3> QED BY <3>1, <3>2, <3>3, <2>2, <1>0
  <2> QED BY <2>1, <2>3 DEF Progress, PaintedSoFar, Place
<1>3. ASSUME pc # "idle", UNCHANGED args,
             NEW c \in 0..(Width - 1), NEW r \in 0..(Height - 1)
      PROVE  /\ Covered(c, r)' <=> Covered(c, r)
             /\ Source(c, r)' = Source(c, r)
             /\ before[Place(c, r)]' = before[Place(c, r)]
             /\ Mixed(before[Place(c, r)], Source(c, r))'
                  = Mixed(before[Place(c, r)], Source(c, r))
  BY <1>3 DEF args, Covered, Source, Place, Mixed, Over, Plain
<1>4. ASSUME pc # "idle", UNCHANGED args, UNCHANGED buffer,
             \A c \in 0..(Width - 1), r \in 0..(Height - 1) :
               Covered(c, r) => (Passed(c, r)' <=> Passed(c, r))
      PROVE  Progress'
  <2>1. x' \in Xs /\ y' \in Ys
    BY <1>4 DEF args, PInv, Progress
  <2>2. ASSUME NEW c \in 0..(Width - 1), NEW r \in 0..(Height - 1)
        PROVE  buffer[Place(c, r)]' =
                 IF Covered(c, r)' /\ Passed(c, r)'
                   THEN Mixed(before[Place(c, r)], Source(c, r))'
                   ELSE before[Place(c, r)]'
    <3>1. buffer[Place(c, r)] =
            IF Covered(c, r) /\ Passed(c, r)
              THEN Mixed(before[Place(c, r)], Source(c, r))
              ELSE before[Place(c, r)]
      BY <1>4 DEF PInv, Progress, PaintedSoFar
    <3>2. buffer[Place(c, r)]' = buffer[Place(c, r)]
      BY <1>4 DEF Place
    <3> QED BY <1>3, <1>4, <3>1, <3>2
  <2> QED BY <2>1, <2>2 DEF Progress, PaintedSoFar
<1>5. CASE NextRow
  <2>1. ASSUME NEW c \in 0..(Width - 1), NEW r \in 0..(Height - 1), Covered(c, r)
        PROVE  Passed(c, r)' <=> Passed(c, r)
    <3>1. clip.x_start <= c - x
      BY <1>0, <1>5, <2>1, ClipIsCovered DEF NextRow
    <3> QED BY <3>1, <1>0, <1>5 DEF NextRow, args, Passed
  <2> QED BY <1>4, <1>5, <2>1 DEF NextRow
<1>6. CASE DrawPixel
  <2> DEFINE col == x + src_col
             row == y + src_row
  <2>1. /\ col \in 0..(Width - 1) /\ row \in 0..(Height - 1)
        /\ Index = Place(col, row) /\ Index \in Indexes
        /\ clip.x_start <= src_col /\ clip.y_start <= src_row /\ src_row < clip.y_end
    BY <1>0, <1>6, Inside, InBuffers
    DEF DrawPixel, DrawsInside, Index, Place, IInv, Calling, Column
  <2>2. Covered(col, row) /\ ~Passed(col, row)
    <3>1. Covered(col, row)
      BY <1>0, <1>6, <2>1, ClipIsCovered DEF DrawPixel
    <3>2. ~Passed(col, row)
      BY <1>0 DEF Passed
    <3> QED BY <3>1, <3>2
  <2>3. SrcColor = Source(col, row)
    <3>1. col - x = src_col /\ row - y = src_row
      BY <1>0
    <3>2. src.width \in Nat /\ src_row * src.width \in Int
      BY <1>0, <1>6 DEF DrawPixel
    <3>3. src_row * src.width + src_col + 1 = src_col + src_row * src.width + 1
      BY <1>0, <3>2
    <3> QED BY <3>1, <3>3 DEF SrcColor, Source
  <2>4. UNCHANGED args /\ pc # "idle" /\ pc = "columns" /\ pc' = "columns"
        /\ src_row' = src_row /\ src_col' = src_col + 1
    BY <1>6 DEF DrawPixel
  <2>5. /\ buffer'[Index] = Mixed(before[Index], Source(col, row))
        /\ \A i \in Indexes \ {Index} : buffer'[i] = buffer[i]
    <3>1. buffer[Index] = before[Index]
      BY <2>1, <2>2, <2>4 DEF PInv, Progress, PaintedSoFar
    <3>2. buffer \in [Indexes -> Colors]
      BY <1>0 DEF IInv, TypeOK
    <3>3. buffer' = [buffer EXCEPT ![Index] = Mixed(buffer[Index], SrcColor)]
      BY <1>6 DEF DrawPixel, Mixed
    <3> QED BY <3>1, <3>2, <3>3, <2>1, <2>3
  <2>6. x' \in Xs /\ y' \in Ys
    BY <2>4 DEF args, PInv, Progress
  <2>7. ASSUME NEW c \in 0..(Width - 1), NEW r \in 0..(Height - 1)
        PROVE  buffer[Place(c, r)]' =
                 IF Covered(c, r)' /\ Passed(c, r)'
                   THEN Mixed(before[Place(c, r)], Source(c, r))'
                   ELSE before[Place(c, r)]'
    <3>1. CASE c = col /\ r = row
      <4>1. Passed(c, r)'
        BY <1>0, <2>4, <3>1 DEF Passed, args
      <4>2. Place(c, r) = Index /\ Place(c, r)' = Place(c, r)
        BY <2>1, <3>1 DEF Place
      <4> HIDE DEF col, row
      <4>3. Covered(c, r)
        BY <2>2, <3>1
      <4>4. buffer[Place(c, r)]' = Mixed(before[Place(c, r)], Source(c, r))
        BY <2>5, <3>1, <4>2
      <4> QED BY <1>3, <2>4, <4>1, <4>3, <4>4
    <3>2. CASE c # col \/ r # row
      <4>1. Passed(c, r)' <=> Passed(c, r)
        BY <1>0, <2>4, <3>2 DEF Passed, args
      <4> HIDE DEF col, row
      <4>2. Place(c, r) # Index
        <5>1. c \in 0..(Width - 1) /\ col \in 0..(Width - 1) /\ r \in Nat /\ row \in Nat
          BY <2>1, <1>0
        <5> QED BY <5>1, <2>1, <3>2, <1>0, IndexUnique DEF Place
      <4>3. Place(c, r) \in Indexes
        BY <1>0, IndexInside DEF Place, Indexes
      <4>4. buffer[Place(c, r)]' = buffer[Place(c, r)]
        BY <2>5, <4>2, <4>3 DEF Place
      <4>5. buffer[Place(c, r)] =
              IF Covered(c, r) /\ Passed(c, r)
                THEN Mixed(before[Place(c, r)], Source(c, r))
                ELSE before[Place(c, r)]
        BY <2>4 DEF PInv, Progress, PaintedSoFar
      <4> QED BY <1>3, <2>4, <4>1, <4>4, <4>5
    <3> QED BY <3>1, <3>2
  <2> QED BY <2>6, <2>7 DEF Progress, PaintedSoFar
<1>7. CASE EndRow
  <2>1. ASSUME NEW c \in 0..(Width - 1), NEW r \in 0..(Height - 1), Covered(c, r)
        PROVE  Passed(c, r)' <=> Passed(c, r)
    <3>1. c - x < clip.x_end
      BY <1>0, <1>7, <2>1, ClipIsCovered DEF EndRow
    <3> QED BY <3>1, <1>0, <1>7 DEF EndRow, args, Passed
  <2> QED BY <1>4, <1>7, <2>1 DEF EndRow
<1>8. CASE Return
  BY <1>8 DEF Return, Progress
<1>9. CASE UNCHANGED vars
  BY <1>9 DEF vars, PInv, Progress, PaintedSoFar, Place, Covered, Passed, Source, Mixed,
     Over, Plain
<1> QED
  BY <1>1, <1>2, <1>5, <1>6, <1>7, <1>8, <1>9 DEF Next

\* The invariant of a call that paints.
THEOREM PaintsByPixels == Spec => []PInv
<1>1. Init => PInv
  BY InitIInv DEF Init, PInv, Progress
<1>2. PInv /\ [Next]_vars => PInv'
  BY StepIInv, StepProgress DEF PInv
<1> QED BY <1>1, <1>2, PTL DEF Spec

\* The picture of the canvas, as Painted has it: a call in progress shows what
\* there was before.
Pixels  == (0..(Width - 1)) \X (0..(Height - 1))
Picture == [p \in Pixels |-> (IF pc = "idle" THEN buffer ELSE before)[p[1] + p[2] * Width]]

\* When a call returns the whole visible part of the sprite has been painted.
LEMMA ReturnPaints ==
  ASSUME PInv, Return
  PROVE  \A p \in Pixels :
           Picture'[p] =
             IF p[1] \in x..(x + src.width - 1) /\ p[2] \in y..(y + src.height - 1)
               THEN Mixed(Picture[p], Source(p[1], p[2]))
               ELSE Picture[p]
<1>0. /\ IInv /\ pc # "idle" /\ x \in Int /\ y \in Int /\ src_row \in Int
      /\ src.width \in Nat /\ src.height \in Nat
      /\ clip.y_end \in Int
      /\ Width \in Nat /\ Height \in Nat
  BY SpritesAssumption, SizeAssumption DEF PInv, IInv, TypeOK, Calling, Return
<1> SUFFICES ASSUME NEW c \in 0..(Width - 1), NEW r \in 0..(Height - 1)
             PROVE  buffer[Place(c, r)] =
                      IF c \in x..(x + src.width - 1) /\ r \in y..(y + src.height - 1)
                        THEN Mixed(before[Place(c, r)], Source(c, r))
                        ELSE before[Place(c, r)]
  BY <1>0 DEF Return, Picture, Pixels, Place
<1>1. Covered(c, r) <=> c \in x..(x + src.width - 1) /\ r \in y..(y + src.height - 1)
  BY <1>0 DEF Covered
<1>2. Covered(c, r) => Passed(c, r)
  <2>1. Covered(c, r) => r - y < clip.y_end
    BY <1>0, ClipIsCovered
  <2> QED BY <2>1, <1>0 DEF Return, Passed
<1>3. buffer[Place(c, r)] =
        IF Covered(c, r) /\ Passed(c, r)
          THEN Mixed(before[Place(c, r)], Source(c, r))
          ELSE before[Place(c, r)]
  BY <1>0 DEF PInv, Progress, PaintedSoFar
<1> QED BY <1>1, <1>2, <1>3

\* Each step is a step of the canvas or leaves the picture as it is.
LEMMA StepCanvas ==
  ASSUME PInv, [Next]_vars
  PROVE  [Painted!Next]_([p \in (0..(Width - 1)) \X (0..(Height - 1)) |->
           (IF pc = "idle" THEN buffer ELSE before)[p[1] + p[2] * Width]])
<1> SUFFICES Painted!Next \/ UNCHANGED Picture
  BY DEF Picture, Pixels
<1>1. ASSUME NEW color \in Colors, graphics_fill(color) PROVE Painted!Next
  <2>1. ASSUME NEW p \in Pixels PROVE p[1] + p[2] * Width \in Indexes
    BY SizeAssumption, IndexInside DEF Pixels, Indexes
  <2>2. Picture' = [p \in Pixels |-> color]
    BY <1>1, <2>1 DEF graphics_fill, Picture
  <2>3. Painted!Fill(color)
    BY <2>2 DEF Painted!Fill, Painted!Pixels, Picture, Pixels
  <2> QED BY <2>3 DEF Painted!Next
<1>2. ASSUME NEW s \in Sprites, NEW at_x \in Xs, NEW at_y \in Ys,
             NEW with_alpha \in BOOLEAN,
             graphics_draw_surface(s, at_x, at_y, with_alpha)
      PROVE  UNCHANGED Picture
  BY <1>2 DEF graphics_draw_surface, Picture
<1>3. CASE NextRow
  BY <1>3 DEF NextRow, args, Picture
<1>4. CASE DrawPixel
  BY <1>4 DEF DrawPixel, args, Picture
<1>5. CASE EndRow
  BY <1>5 DEF EndRow, args, Picture
<1>6. CASE Return
  <2>1. /\ src \in {s \in Sprites : s.buffer # <<>>} /\ x \in Xs /\ y \in Ys
        /\ alpha \in BOOLEAN
    BY <1>6 DEF Return, PInv, IInv, TypeOK, Calling, Progress
  <2>2. Picture' = [p \in Pixels |->
          IF p[1] \in x..(x + src.width - 1) /\ p[2] \in y..(y + src.height - 1)
            THEN Mixed(Picture[p], Source(p[1], p[2]))
            ELSE Picture[p]]
    BY <1>6, ReturnPaints DEF Picture
  <2>3. CASE alpha
    <3>1. Painted!Paint(src, x, y, Over)
      BY <2>2, <2>3 DEF Painted!Paint, Painted!Pixels, Painted!Covers, Painted!ColorAt,
         Picture, Pixels, Mixed, Source
    <3> QED BY <2>1, <3>1 DEF Painted!Next
  <2>4. CASE ~alpha
    <3>1. Painted!Paint(src, x, y, Plain)
      BY <2>2, <2>4 DEF Painted!Paint, Painted!Pixels, Painted!Covers, Painted!ColorAt,
         Picture, Pixels, Mixed, Source
    <3> QED BY <2>1, <3>1 DEF Painted!Next
  <2> QED BY <2>3, <2>4
<1>7. CASE UNCHANGED vars
  BY <1>7 DEF vars, Picture
<1> QED
  BY <1>1, <1>2, <1>3, <1>4, <1>5, <1>6, <1>7 DEF Next

\* graphics.c implements the canvas: whatever the sizes, the sprites and the
\* places, each call leaves the picture that a fill or one painting of the
\* sprite's visible part gives, with or without transparency.
THEOREM ImplementsCanvas == Spec => CanvasSpec
<1>1. Init => Painted!Init
  <2> SUFFICES ASSUME Init PROVE Picture \in [Pixels -> Colors]
    BY DEF Painted!Init, Painted!Pixels, Picture, Pixels
  <2>1. ASSUME NEW p \in Pixels PROVE p[1] + p[2] * Width \in Indexes
    BY SizeAssumption, IndexInside DEF Pixels, Indexes
  <2> QED BY <2>1 DEF Init, Picture
<1>2. PInv /\ [Next]_vars =>
        [Painted!Next]_([p \in (0..(Width - 1)) \X (0..(Height - 1)) |->
           (IF pc = "idle" THEN buffer ELSE before)[p[1] + p[2] * Width]])
  BY StepCanvas
<1> QED BY <1>1, <1>2, PaintsByPixels, PTL DEF Spec, CanvasSpec, Painted!Spec
=============================================================================
