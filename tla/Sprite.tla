------------------------------- MODULE Sprite -------------------------------
(***************************************************************************)
(* Sprites (sprite.c): cells in rows of a stride, drawn scaled, flipped,   *)
(* turned and clipped, by asking of every visible cell of the screen which *)
(* cell of the sprite it shows.  The glyph of a stored cell is its place   *)
(* in the storage, so that padding shows if it is ever read.               *)
(***************************************************************************)
EXTENDS Integers, Sequences

CONSTANTS
  SpriteSizes,    \* the sizes [width, height] of sprites
  Scales,         \* the scales along an axis, zero being refused
  Positions,      \* the coordinates of a sprite's corner
  SpriteClips,    \* the clips [x, y, width, height]
  CoordLimit      \* 2^31

ASSUME SpriteConstants == CoordLimit \in Nat /\ Scales \subseteq Nat

VARIABLES
  sprite,         \* [cells, width, height, stride]: the sprite that is drawn
  shown           \* [options, fails, plots, status]: the last drawing

spriteVars == <<sprite, shown>>

NoSprite == [cells |-> <<>>, width |-> 0, height |-> 0, stride |-> 0]
NoOptions == [x |-> 0, y |-> 0, scale_x |-> 1, scale_y |-> 1, rotation |-> 0, flip_x |-> FALSE,
              flip_y |-> FALSE, clip |-> <<>>, transparent |-> {}]
NotShown == [options |-> NoOptions, fails |-> 0, plots |-> <<>>, status |-> "none"]

SpriteStart == sprite = NoSprite /\ shown = NotShown

\* aforc_sprite_init: the storage holds the rows and their padding.
SpriteInit(size, stride) ==
  /\ stride >= size.width
  /\ sprite' = [cells |-> [i \in 1..size.height * stride |-> i - 1], width |-> size.width,
                height |-> size.height, stride |-> stride]
  /\ shown' = NotShown

SpriteDispose == sprite' = NoSprite /\ shown' = NotShown

-----------------------------------------------------------------------------
Max2(a, b) == IF a > b THEN a ELSE b
Min2(a, b) == IF a < b THEN a ELSE b

\* The cells of the screen that are asked, as first and end along each axis.
Visible(o) ==
  LET across == sprite.width * o.scale_x
      down   == sprite.height * o.scale_y
      right  == o.x + (IF o.rotation \in {90, 270} THEN down ELSE across)
      bottom == o.y + (IF o.rotation \in {90, 270} THEN across ELSE down)
      clip   == o.clip
  IN IF clip = <<>>
     THEN [left |-> Max2(o.x, -CoordLimit), top |-> Max2(o.y, -CoordLimit),
           right |-> Min2(right, CoordLimit), bottom |-> Min2(bottom, CoordLimit)]
     ELSE [left |-> Max2(o.x, Max2(clip.x, -CoordLimit)),
           top |-> Max2(o.y, Max2(clip.y, -CoordLimit)),
           right |-> Min2(Min2(right, CoordLimit), clip.x + clip.width),
           bottom |-> Min2(Min2(bottom, CoordLimit), clip.y + clip.height)]

Source_TurnedBack(o, x, y) ==
  LET across == sprite.width * o.scale_x
      down   == sprite.height * o.scale_y
      rx == x - o.x
      ry == y - o.y
      point == CASE o.rotation = 0   -> <<rx, ry>>
                 [] o.rotation = 90  -> <<across - 1 - ry, rx>>
                 [] o.rotation = 180 -> <<across - 1 - rx, down - 1 - ry>>
                 [] o.rotation = 270 -> <<ry, down - 1 - rx>>
      sx == point[1] \div o.scale_x
      sy == point[2] \div o.scale_y
  IN (IF o.flip_y THEN sprite.height - 1 - sy ELSE sy) * sprite.stride
       + (IF o.flip_x THEN sprite.width - 1 - sx ELSE sx)

\* The place in the storage of the cell that a cell of the screen shows: the turn
\* undone, then the scale, then the flips.
Source(o, x, y) ==
  LET across == sprite.width * o.scale_x
      down   == sprite.height * o.scale_y
      rx == x - o.x
      ry == y - o.y
      point == CASE o.rotation = 0   -> <<rx, ry>>
                 [] o.rotation = 90  -> <<ry, down - 1 - rx>>
                 [] o.rotation = 180 -> <<across - 1 - rx, down - 1 - ry>>
                 [] o.rotation = 270 -> <<across - 1 - ry, rx>>
      sx == point[1] \div o.scale_x
      sy == point[2] \div o.scale_y
  IN (IF o.flip_y THEN sprite.height - 1 - sy ELSE sy) * sprite.stride
       + (IF o.flip_x THEN sprite.width - 1 - sx ELSE sx)

\* aforc_sprite_draw: row by row, without the transparent cells, up to the plot that
\* fails (0: none).  It leaves nothing behind: one drawing of a sprite shows all of them.
SpriteDraw(o, fails) ==
  LET seen  == Visible(o)
      wide  == Max2(0, seen.right - seen.left)
      asked == [i \in 1..wide * Max2(0, seen.bottom - seen.top) |->
                  [x |-> seen.left + ((i - 1) % wide), y |-> seen.top + ((i - 1) \div wide)]]
      all   == [i \in DOMAIN asked |->
                  [x |-> asked[i].x, y |-> asked[i].y,
                   cell |-> sprite.cells[Source(o, asked[i].x, asked[i].y) + 1]]]
      plots == SelectSeq(all, LAMBDA p : p.cell \notin o.transparent)
      Said(status, n) == [options |-> o, fails |-> fails, plots |-> SubSeq(plots, 1, n),
                          status |-> status]
  IN /\ shown.status = "none"
     /\ shown' = IF sprite = NoSprite THEN [NotShown EXCEPT !.status = "state"]
                 ELSE IF o.scale_x = 0 \/ o.scale_y = 0
                 THEN [NotShown EXCEPT !.status = "invalid"]
                 ELSE IF fails \in 1..Len(plots) THEN Said("plot", fails - 1)
                 ELSE Said("ok", Len(plots))
     /\ UNCHANGED sprite

SpriteNext ==
  \/ \E size \in SpriteSizes, padding \in 0..1 : SpriteInit(size, size.width + padding)
  \/ SpriteDispose
  \/ \E x, y \in Positions, sx, sy \in Scales, turn \in {0, 90, 180, 270}, fx, fy \in BOOLEAN,
        clip \in SpriteClips \cup {<<>>}, transparent \in {{}, {0}}, fails \in {0, 2} :
       SpriteDraw([x |-> x, y |-> y, scale_x |-> sx, scale_y |-> sy, rotation |-> turn,
                   flip_x |-> fx, flip_y |-> fy, clip |-> clip, transparent |-> transparent], fails)

-----------------------------------------------------------------------------
\* Where a cell of the scaled picture lands, turned clockwise about the corner.
Turned(o, u, v) ==
  LET across == sprite.width * o.scale_x
      down   == sprite.height * o.scale_y
  IN CASE o.rotation = 0   -> <<o.x + u, o.y + v>>
       [] o.rotation = 90  -> <<o.x + down - 1 - v, o.y + u>>
       [] o.rotation = 180 -> <<o.x + across - 1 - u, o.y + down - 1 - v>>
       [] o.rotation = 270 -> <<o.x + v, o.y + across - 1 - u>>

\* The picture painted forwards: each cell of the sprite, flipped, a block of its
\* scale, then turned; what the screen and the clip leave of it.
Painting(o) ==
  {[x |-> Turned(o, u, v)[1], y |-> Turned(o, u, v)[2],
    cell |-> (IF o.flip_y THEN sprite.height - 1 - (v \div o.scale_y) ELSE v \div o.scale_y)
               * sprite.stride
             + (IF o.flip_x THEN sprite.width - 1 - (u \div o.scale_x) ELSE u \div o.scale_x)] :
     u \in 0..sprite.width * o.scale_x - 1, v \in 0..sprite.height * o.scale_y - 1}

Shows(o, p) ==
  /\ p.x \in -CoordLimit..CoordLimit - 1 /\ p.y \in -CoordLimit..CoordLimit - 1
  /\ o.clip # <<>> => /\ p.x \in o.clip.x..o.clip.x + o.clip.width - 1
                      /\ p.y \in o.clip.y..o.clip.y + o.clip.height - 1
  /\ p.cell \notin o.transparent

(* A drawing that ends well is the sprite painted forwards, whatever the     *)
(* turn, scale, flips and clip, at the edges of the coordinates too: every   *)
(* cell once, none of the padding.  One that a plot cuts short is a part of  *)
(* it.                                                                       *)
SpriteShowsImage ==
  shown.status \in {"ok", "plot"} =>
    LET plotted  == {shown.plots[i] : i \in DOMAIN shown.plots}
        painting == {p \in Painting(shown.options) : Shows(shown.options, p)}
    IN /\ plotted \subseteq painting
       /\ shown.status = "ok" => plotted = painting /\ Len(shown.plots) <= sprite.width
            * sprite.height * shown.options.scale_x * shown.options.scale_y
       /\ \A i, j \in DOMAIN shown.plots :
            i < j => shown.plots[i].x # shown.plots[j].x \/ shown.plots[i].y # shown.plots[j].y
=============================================================================
