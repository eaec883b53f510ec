----------------------------- MODULE TileEditor -----------------------------
(***************************************************************************)
(* A tile map under its edits (tilemap.c): one map that an application     *)
(* creates, writes and destroys, and beside it what each of its cells was  *)
(* last given.                                                             *)
(***************************************************************************)
EXTENDS TileMap

CONSTANTS
  EditorSizes,      \* [width, height, layers] of the editor's maps
  Tiles

ASSUME EditorConstants == EditorSizes \subseteq [width : Int, height : Int, layers : Nat]

VARIABLES
  edited,           \* the editor's map
  painted           \* <<layer, point>> -> the tile of the last edit of it

editorVars == <<edited, painted>>

NoMap == [width |-> 0, height |-> 0, layers |-> 0]
CellsOf(map) == (0..map.layers - 1) \X Points(map)
Regions(size) ==
  {r \in [x : 0..size.width, y : 0..size.height, width : 0..size.width, height : 0..size.height] :
     r.x + r.width <= size.width /\ r.y + r.height <= size.height}
Covers(rect, p) ==
  p[1] \in rect.x..rect.x + rect.width - 1 /\ p[2] \in rect.y..rect.y + rect.height - 1

EditorStart == edited = NoMap /\ painted = <<>>

\* aforc_tilemap_create, and destroy.
Create(size, tile, memory) ==
  LET created == Created(size.width, size.height, size.layers, tile, memory)
  IN /\ edited = NoMap
     /\ edited' = IF created.status = "ok" THEN created.map ELSE NoMap
     /\ painted' = [c \in CellsOf(edited') |-> tile]

Destroy ==
  /\ edited # NoMap
  /\ edited' = NoMap /\ painted' = <<>>

Edits(map, layer, rect, tile) ==
  /\ edited # NoMap
  /\ edited' = map
  /\ painted' = [c \in CellsOf(edited) |->
                   IF c[1] = layer /\ Covers(rect, c[2]) THEN tile ELSE painted[c]]

SetTile(layer, p, tile) ==
  /\ PointStatus(edited, layer, p) = "ok"
  /\ Edits(Set(edited, layer, p, tile), layer,
           [x |-> p[1], y |-> p[2], width |-> 1, height |-> 1], tile)

FillWholeLayer(layer, tile) ==
  Edits(FillLayer(edited, layer, tile), layer,
        [x |-> 0, y |-> 0, width |-> edited.width, height |-> edited.height], tile)

\* A region moved by delta is refused when it leaves the map.
FillRegion(layer, rect, delta, tile) ==
  LET moved == RectTranslate(rect, delta)
  IN /\ moved.status = "ok" /\ RegionStatus(edited, layer, moved.rect) = "ok"
     /\ Edits(FillRect(edited, layer, moved.rect, tile), layer, moved.rect, tile)

EditorDeltas == {<<0, 0>>, <<1, 0>>, <<0, 1>>, <<-1, 0>>}

EditorNext ==
  \/ \E size \in EditorSizes, tile \in Tiles, memory \in BOOLEAN : Create(size, tile, memory)
  \/ Destroy
  \/ \E layer \in 0..edited.layers - 1, tile \in Tiles :
       \/ \E p \in Points(edited) : SetTile(layer, p, tile)
       \/ FillWholeLayer(layer, tile)
       \/ \E rect \in {r \in Regions(edited) : ~RectIsEmpty(r)}, delta \in EditorDeltas :
            FillRegion(layer, rect, delta, tile)

EditorSpec == EditorStart /\ [][EditorNext]_editorVars

-----------------------------------------------------------------------------
(* Whatever was set and filled, every cell of every layer holds the tile of  *)
(* the last edit that covered it: two cells never share an index, and no     *)
(* fill runs over the end of a row into the next row or layer.               *)
CellsHoldLastEdit ==
  \A c \in CellsOf(edited) : Get(edited, c[1], c[2]) = painted[c]
=============================================================================
