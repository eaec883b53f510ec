------------------------------- MODULE TileMap -------------------------------
(***************************************************************************)
(* Tile maps and the queries over them that hold no state of their own     *)
(* (tilemap.c, world_private.c, world.c, collision.c, raycast.c).  A map   *)
(* keeps its tiles in one array, layer after layer and row after row; a    *)
(* point is <<x, y>>, a rectangle [x, y, width, height].                   *)
(* A predicate over tiles is the set of tiles it holds of, and {} stands   *)
(* for a NULL predicate too.  NULL arguments are left out.                 *)
(***************************************************************************)
EXTENDS Integers, Sequences

CONSTANTS
  SizeLimit,        \* SIZE_MAX, for counts of tiles
  CoordinateLimit   \* 2^31: coordinates are -CoordinateLimit..CoordinateLimit-1

ASSUME TileMapConstants ==
  /\ SizeLimit \in Nat \ {0}
  /\ CoordinateLimit \in Nat \ {0}

Coordinates == -CoordinateLimit .. CoordinateLimit - 1

-----------------------------------------------------------------------------
\* world_private.c: indices and validation.
CellCount(map)   == map.width * map.height
Contains(map, p) == p[1] \in 0..map.width - 1 /\ p[2] \in 0..map.height - 1
Points(map)      == (0..map.width - 1) \X (0..map.height - 1)

PointIndex(map, p)       == p[2] * map.width + p[1]
TileIndex(map, layer, p) == layer * CellCount(map) + PointIndex(map, p)

PointStatus(map, layer, p) ==
  IF layer < map.layers /\ Contains(map, p) THEN "ok" ELSE "not_found"

RegionStatus(map, layer, rect) ==
  IF layer >= map.layers THEN "not_found"
  ELSE IF rect.width < 0 \/ rect.height < 0 THEN "invalid"
  ELSE IF \/ rect.x < 0 \/ rect.x + rect.width > map.width
          \/ rect.y < 0 \/ rect.y + rect.height > map.height THEN "not_found"
  ELSE "ok"

Matches(map, layer, p, test) == map.tiles[TileIndex(map, layer, p)] \in test

\* world.c: points and rectangles, added in 64 bits and reported if they do not fit.
PointOf(p)           == IF p[1] \in Coordinates /\ p[2] \in Coordinates
                        THEN [status |-> "ok", point |-> p]
                        ELSE [status |-> "overflow"]
RectIsEmpty(rect)    == rect.width <= 0 \/ rect.height <= 0

RectTranslate(rect, delta) ==
  LET moved == PointOf(<<rect.x + delta[1], rect.y + delta[2]>>)
  IN IF moved.status = "ok"
     THEN [status |-> "ok",
           rect |-> [rect EXCEPT !.x = moved.point[1], !.y = moved.point[2]]]
     ELSE moved

-----------------------------------------------------------------------------
\* tilemap.c: what create and the writes return, and the map they leave.
Created(width, height, layers, tile, memory) ==
  IF width <= 0 \/ height <= 0 \/ layers = 0 THEN [status |-> "invalid"]
  ELSE IF width * height * layers > SizeLimit THEN [status |-> "overflow"]
  ELSE IF ~memory THEN [status |-> "memory"]
  ELSE [status |-> "ok",
        map |-> [width |-> width, height |-> height, layers |-> layers,
                 tiles |-> [i \in 0..width * height * layers - 1 |-> tile]]]

Get(map, layer, p) == map.tiles[TileIndex(map, layer, p)]

Set(map, layer, p, tile) ==
  [map EXCEPT !.tiles[TileIndex(map, layer, p)] = tile]

FillLayer(map, layer, tile) ==
  LET offset == layer * CellCount(map)
  IN [map EXCEPT !.tiles = [i \in DOMAIN @ |->
        IF i \in offset .. offset + CellCount(map) - 1 THEN tile ELSE @[i]]]

FillRect_OneRun(map, layer, rect, tile) ==
  LET start == TileIndex(map, layer, <<rect.x, rect.y>>)
  IN [map EXCEPT !.tiles = [i \in DOMAIN @ |->
        IF i \in start .. start + rect.width * rect.height - 1 THEN tile ELSE @[i]]]

FillRect(map, layer, rect, tile) ==
  LET RowStart(row) == TileIndex(map, layer, <<rect.x, rect.y + row>>)
  IN [map EXCEPT !.tiles = [i \in DOMAIN @ |->
        IF \E row \in 0..rect.height - 1 :
             i \in RowStart(row) .. RowStart(row) + rect.width - 1
        THEN tile ELSE @[i]]]

-----------------------------------------------------------------------------
\* collision.c: the first blocked point of a region, row by row.
RectBlocked(map, layer, rect, test) ==
  LET blocked == {p \in (rect.x..rect.x + rect.width - 1) \X
                        (rect.y..rect.y + rect.height - 1) : Matches(map, layer, p, test)}
  IN IF blocked = {} THEN [blocked |-> FALSE]
     ELSE [blocked |-> TRUE,
           first |-> CHOOSE p \in blocked : \A q \in blocked :
                       p[2] < q[2] \/ (p[2] = q[2] /\ p[1] <= q[1])]

\* raycast.c: a ray through a corner touches the cells on both sides of it.
CornerCells_Skipped(horizontal, vertical) == <<>>
CornerCells(horizontal, vertical)         == <<horizontal, vertical>>

\* The cells a ray tests, in order.  After a steps in x and b in y the
\* next border crossed is found by comparing (2a + 1) * dy with (2b + 1) * dx.
RayCells(start, end) ==
  LET Length(i) == IF end[i] >= start[i] THEN end[i] - start[i] ELSE start[i] - end[i]
      At(a, b)  == <<start[1] + (IF start[1] < end[1] THEN a ELSE -a),
                     start[2] + (IF start[2] < end[2] THEN b ELSE -b)>>
      Walk[n \in (0..Length(1)) \X (0..Length(2))] ==
        LET a == n[1]
            b == n[2]
            across == (2 * a + 1) * Length(2)
            down   == (2 * b + 1) * Length(1)
        IN <<At(a, b)>> \o
             (IF a = Length(1) /\ b = Length(2) THEN <<>>
              ELSE IF across = down
                   THEN CornerCells(At(a + 1, b), At(a, b + 1)) \o Walk[<<a + 1, b + 1>>]
              ELSE IF across < down THEN Walk[<<a + 1, b>>] ELSE Walk[<<a, b + 1>>])
  IN Walk[<<0, 0>>]

Raycast(map, layer, start, end, test) ==
  LET cells == RayCells(start, end)
      hits  == {i \in 1..Len(cells) : Matches(map, layer, cells[i], test)}
  IN IF hits = {} THEN [blocked |-> FALSE, hit |-> end]
     ELSE [blocked |-> TRUE, hit |-> cells[CHOOSE i \in hits : \A j \in hits : i <= j]]
=============================================================================
