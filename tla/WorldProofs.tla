---------------------------- MODULE WorldProofs ----------------------------
(***************************************************************************)
(* Cameras and edits, for every size of map and viewport: the cell a       *)
(* camera is centered on is on the screen, and each cell of a map holds    *)
(* what was last put into it.                                              *)
(***************************************************************************)
EXTENDS Camera, TileEditor, TLAPS

-----------------------------------------------------------------------------
(* Cameras *)

Positive == 1..CoordinateLimit

\* One axis of a camera that is centered: its clamped origin keeps the target
\* within the view, and the view within a map that is wide enough for it.
LEMMA ClampedAxis ==
  ASSUME NEW map \in Nat \ {0}, NEW view \in Nat \ {0}, NEW target \in 0..map - 1,
         NEW origin, origin = ClampAxis(target - view \div 2, map, view)
  PROVE  /\ origin \in 0..map - 1
         /\ target - origin \in 0..view - 1
         /\ map >= view => origin + view <= map
<1> DEFINE half    == view \div 2
           maximum == IF map > view THEN map - view ELSE 0
<1>1. half \in Nat /\ 2 * half <= view /\ view <= 2 * half + 1
  OBVIOUS
<1>2. maximum \in Nat /\ (map > view => maximum = map - view) /\ (map <= view => maximum = 0)
  OBVIOUS
<1>3. origin = IF target - half < 0 THEN 0
               ELSE IF target - half > maximum THEN maximum ELSE target - half
  BY DEF ClampAxis
<1> HIDE DEF half, maximum
<1> QED  BY <1>1, <1>2, <1>3

\* The viewport is one of the sizes, and a centered camera was clamped to its map.
CameraInv ==
  /\ camera \in [origin : Int \X Int, viewport : Positive \X Positive]
  /\ centered = NotCentered
     \/ \E map \in Positive \X Positive :
        \E target \in (0..map[1] - 1) \X (0..map[2] - 1) :
          /\ centered = [is |-> TRUE, on |-> target, map |-> Extent(map)]
          /\ camera.origin = CenterOn(camera, target, Extent(map)).origin

LEMMA ClampAxisInt ==
  ASSUME NEW value \in Int, NEW map \in Int, NEW view \in Int
  PROVE  ClampAxis(value, map, view) \in Int
BY DEF ClampAxis

LEMMA CameraStep ==
  ASSUME CameraInv, CameraNext, CoordinateLimit \in Nat \ {0}, CameraConstants
  PROVE  CameraInv'
<1>1. \A size \in Sizes : size \in Positive \X Positive
  BY DEF CameraConstants, Positive
<1>2. /\ camera.viewport \in Positive \X Positive /\ camera.origin \in Int \X Int
      /\ camera = [origin |-> camera.origin, viewport |-> camera.viewport]
  BY DEF CameraInv
<1>3. ASSUME NEW size \in Sizes, CameraInit(size) \/ SetViewport(size) PROVE CameraInv'
  BY <1>1, <1>2, <1>3 DEF CameraInit, SetViewport, CameraInv
<1>4. ASSUME NEW size \in Sizes, Clamp(size) PROVE CameraInv'
  <2>1. camera' = [origin |-> <<ClampAxis(camera.origin[1], size[1], camera.viewport[1]),
                                ClampAxis(camera.origin[2], size[2], camera.viewport[2])>>,
                   viewport |-> camera.viewport]
    BY <1>2, <1>4 DEF Clamp, ClampToMap, Extent
  <2>2. camera'.origin \in Int \X Int
    BY <1>1, <1>2, <2>1, ClampAxisInt DEF Positive
  <2> QED  BY <1>2, <1>4, <2>1, <2>2 DEF Clamp, CameraInv
<1>5. ASSUME NEW size \in Sizes, NEW target \in (0..size[1] - 1) \X (0..size[2] - 1),
             Center(size, target)
      PROVE  CameraInv'
  <2>1. camera' = [origin |-> CenterOn(camera, target, Extent(size)).origin,
                   viewport |-> camera.viewport]
    BY <1>2, <1>5 DEF Center, CenterOn
  <2>2. CenterOn(camera, target, Extent(size)).origin
          = <<ClampAxis(target[1] - camera.viewport[1] \div 2, size[1], camera.viewport[1]),
              ClampAxis(target[2] - camera.viewport[2] \div 2, size[2], camera.viewport[2])>>
    BY <1>2 DEF CenterOn, Extent
  <2>3. /\ size[1] \in Int /\ size[2] \in Int
        /\ camera.viewport[1] \in Int /\ camera.viewport[2] \in Int
        /\ target[1] - camera.viewport[1] \div 2 \in Int
        /\ target[2] - camera.viewport[2] \div 2 \in Int
    BY <1>1, <1>2 DEF Positive
  <2>4. camera'.origin \in Int \X Int
    <3>1. /\ ClampAxis(target[1] - camera.viewport[1] \div 2, size[1], camera.viewport[1]) \in Int
          /\ ClampAxis(target[2] - camera.viewport[2] \div 2, size[2], camera.viewport[2]) \in Int
      BY <2>3, ClampAxisInt
    <3> QED  BY <2>1, <2>2, <3>1
  <2>5. camera'.origin = CenterOn(camera', target, Extent(size)).origin
    BY <2>1, <2>2 DEF CenterOn, Extent
  <2>6. centered' = [is |-> TRUE, on |-> target, map |-> Extent(size)]
    BY <1>5 DEF Center
  <2>7. camera' \in [origin : Int \X Int, viewport : Positive \X Positive]
    BY <1>2, <2>1, <2>4
  <2> QED  BY <1>1, <2>5, <2>6, <2>7 DEF CameraInv
<1> QED  BY <1>3, <1>4, <1>5 DEF CameraNext

LEMMA CenteredIsOnScreen ==
  ASSUME CameraInv, CoordinateLimit \in Nat \ {0}, centered.is
  PROVE  TargetIsOnScreen
<1>0. PICK map \in Positive \X Positive :
        \E target \in (0..map[1] - 1) \X (0..map[2] - 1) :
          /\ centered = [is |-> TRUE, on |-> target, map |-> Extent(map)]
          /\ camera.origin = CenterOn(camera, target, Extent(map)).origin
  BY DEF CameraInv, NotCentered
<1>1. PICK target \in (0..map[1] - 1) \X (0..map[2] - 1) :
        /\ centered = [is |-> TRUE, on |-> target, map |-> Extent(map)]
        /\ camera.origin = CenterOn(camera, target, Extent(map)).origin
  BY <1>0
<1> DEFINE view == camera.viewport
           x == camera.origin[1]
           y == camera.origin[2]
<1>2. /\ view[1] \in Nat \ {0} /\ view[1] <= CoordinateLimit
      /\ view[2] \in Nat \ {0} /\ view[2] <= CoordinateLimit
      /\ map[1] \in Nat \ {0} /\ map[1] <= CoordinateLimit
      /\ map[2] \in Nat \ {0} /\ map[2] <= CoordinateLimit
      /\ target[1] \in 0..map[1] - 1 /\ target[2] \in 0..map[2] - 1
      /\ target = <<target[1], target[2]>>
  BY DEF CameraInv, Positive
<1>3. /\ x = ClampAxis(target[1] - view[1] \div 2, map[1], view[1])
      /\ y = ClampAxis(target[2] - view[2] \div 2, map[2], view[2])
  BY <1>1 DEF CameraInv, CenterOn, Extent
<1>4. /\ x \in 0..map[1] - 1 /\ target[1] - x \in 0..view[1] - 1
      /\ map[1] >= view[1] => x + view[1] <= map[1]
  BY <1>2, <1>3, ClampedAxis
<1>5. /\ y \in 0..map[2] - 1 /\ target[2] - y \in 0..view[2] - 1
      /\ map[2] >= view[2] => y + view[2] <= map[2]
  BY <1>2, <1>3, ClampedAxis, ZenonT(60)
<1> HIDE DEF view, x, y
<1>6. /\ target[1] - x \in Coordinates /\ target[2] - y \in Coordinates
      /\ target[1] \in Coordinates /\ target[2] \in Coordinates
      /\ target[1] - x + x = target[1] /\ target[2] - y + y = target[2]
  BY <1>2, <1>4, <1>5 DEF Coordinates
<1> USE DEF view, x, y
<1>7. WorldToScreen(camera, centered.on)
        = [status |-> "ok", point |-> <<target[1] - x, target[2] - y>>]
  BY <1>1, <1>6 DEF WorldToScreen, PointOf
<1>8. ScreenToWorld(camera, <<target[1] - x, target[2] - y>>) = [status |-> "ok", point |-> target]
  BY <1>2, <1>6 DEF ScreenToWorld, PointOf
<1>9. /\ View(camera).x = x /\ View(camera).y = y
      /\ View(camera).width = view[1] /\ View(camera).height = view[2]
      /\ centered.map.width = map[1] /\ centered.map.height = map[2] /\ centered.on = target
  BY <1>1 DEF View, Extent
<1> QED  BY <1>2, <1>4, <1>5, <1>7, <1>8, <1>9 DEF TargetIsOnScreen

\* Whatever the sizes of the maps and of the viewport, smaller, larger or odd:
\* a camera that was centered on a cell shows it, and shows nothing beyond a map
\* that fills the view.
THEOREM CenteredTargetsAreShown == CameraSpec => []TargetIsOnScreen
<1>1. TileMapConstants /\ CameraStart => CameraInv
  <2> SUFFICES ASSUME TileMapConstants, CameraStart PROVE CameraInv
    OBVIOUS
  <2>1. 1 \in Positive
    BY DEF Positive, TileMapConstants
  <2> QED  BY <2>1 DEF CameraStart, CameraInv
<1>2. TileMapConstants /\ CameraConstants /\ CameraInv /\ [CameraNext]_cameraVars => CameraInv'
  BY CameraStep DEF TileMapConstants, cameraVars, CameraInv
<1>3. TileMapConstants /\ CameraInv => TargetIsOnScreen
  BY CenteredIsOnScreen DEF TileMapConstants, TargetIsOnScreen
<1> QED  BY <1>1, <1>2, <1>3, TileMapConstants, CameraConstants, PTL DEF CameraSpec

-----------------------------------------------------------------------------
(* Edits *)

\* Two numbers written to the base n with the same digits below are equal.
LEMMA Digits ==
  ASSUME NEW n \in Nat \ {0}, NEW a \in Nat, NEW b \in Nat,
         NEW x \in 0..n - 1, NEW y \in 0..n - 1, a * n + x = b * n + y
  PROVE  a = b /\ x = y
<1>1. ASSUME NEW c \in Nat, NEW d \in Nat, NEW u \in 0..n - 1, NEW v \in 0..n - 1, c < d
      PROVE  c * n + u < d * n + v
  <2>1. PICK k \in Nat : d = c + 1 + k
    <3>1. d - c - 1 \in Nat /\ d = c + 1 + (d - c - 1)
      BY <1>1
    <3> QED  BY <3>1
  <2>2. d * n = c * n + n + k * n
    BY <2>1
  <2>3. k * n \in Nat /\ c * n \in Nat
    OBVIOUS
  <2> QED  BY <2>2, <2>3
<1>2. ~(a < b) /\ ~(b < a)
  <2>1. a * n \in Nat /\ b * n \in Nat
    OBVIOUS
  <2>2. ~(a < b)
    <3> SUFFICES ASSUME a < b PROVE FALSE
      OBVIOUS
    <3>1. a * n + x < b * n + y
      BY <1>1
    <3> QED  BY <3>1, <2>1
  <2>3. ~(b < a)
    <3> SUFFICES ASSUME b < a PROVE FALSE
      OBVIOUS
    <3>1. b * n + y < a * n + x
      BY <1>1
    <3> QED  BY <3>1, <2>1
  <2> QED  BY <2>2, <2>3
<1>3. a = b
  BY <1>2
<1>4. a * n \in Nat
  OBVIOUS
<1> QED  BY <1>3, <1>4

\* The digits of a number below n * m.
LEMMA DigitsBelow ==
  ASSUME NEW n \in Nat \ {0}, NEW m \in Nat, NEW a \in 0..m - 1, NEW x \in 0..n - 1
  PROVE  a * n + x \in 0..m * n - 1
<1>1. PICK k \in Nat : m = a + 1 + k
  <2>1. m - a - 1 \in Nat /\ m = a + 1 + (m - a - 1)
    OBVIOUS
  <2> QED  BY <2>1
<1>2. m * n = a * n + n + k * n
  BY <1>1
<1>3. k * n \in Nat /\ a * n \in Nat /\ m * n \in Nat
  OBVIOUS
<1> QED  BY <1>2, <1>3

MapSizes == [width : Nat \ {0}, height : Nat \ {0}, layers : Nat \ {0}]
SizedAs(map, size) ==
  map.width = size.width /\ map.height = size.height /\ map.layers = size.layers
Storage(map) == 0..map.width * map.height * map.layers - 1

\* The index of a cell is in the storage, and the runs of a layer and of a part
\* of a row hold the indices of their own cells only.
LEMMA IndexInStorage ==
  ASSUME NEW map, NEW size \in MapSizes, SizedAs(map, size),
         NEW layer \in 0..map.layers - 1, NEW p \in Points(map)
  PROVE  /\ PointIndex(map, p) \in 0..CellCount(map) - 1
         /\ TileIndex(map, layer, p) \in Storage(map)
         /\ TileIndex(map, layer, p) = layer * CellCount(map) + PointIndex(map, p)
<1> DEFINE w == map.width
           h == map.height
           l == map.layers
<1>1. w \in Nat \ {0} /\ h \in Nat \ {0} /\ l \in Nat \ {0}
  BY DEF MapSizes, SizedAs
<1>2. p[1] \in 0..w - 1 /\ p[2] \in 0..h - 1 /\ layer \in 0..l - 1
  BY DEF Points
<1> HIDE DEF w, h, l
<1>3. p[2] * w + p[1] \in 0..h * w - 1
  BY <1>1, <1>2, DigitsBelow
<1>4. h * w = w * h /\ w * h \in Nat \ {0}
  BY <1>1
<1>5. layer * (w * h) + (p[2] * w + p[1]) \in 0..l * (w * h) - 1
  <2> DEFINE n == w * h
             x == p[2] * w + p[1]
  <2>1. n \in Nat \ {0} /\ x \in 0..n - 1
    BY <1>3, <1>4
  <2> HIDE DEF n, x
  <2>2. layer * n + x \in 0..l * n - 1
    BY <1>1, <1>2, <2>1, DigitsBelow
  <2> QED  BY <2>2 DEF n, x
<1>6. l * (w * h) = w * h * l
  BY <1>1
<1> QED  BY <1>3, <1>4, <1>5, <1>6 DEF PointIndex, CellCount, TileIndex, Storage, w, h, l

LEMMA LayerRun ==
  ASSUME NEW map, NEW size \in MapSizes, SizedAs(map, size),
         NEW layer \in 0..map.layers - 1, NEW other \in 0..map.layers - 1, NEW p \in Points(map),
         TileIndex(map, layer, p) \in other * CellCount(map)
                                      .. other * CellCount(map) + CellCount(map) - 1
  PROVE  layer = other
<1> DEFINE n == CellCount(map)
           i == PointIndex(map, p)
           j == TileIndex(map, layer, p) - other * n
<1>1. n \in Nat \ {0}
  BY DEF MapSizes, SizedAs, CellCount
<1>2. i \in 0..n - 1 /\ TileIndex(map, layer, p) = layer * n + i
  BY IndexInStorage
<1>3. layer \in Nat /\ other \in Nat
  BY DEF MapSizes, SizedAs
<1> HIDE DEF n, i
<1>4. layer * n \in Nat /\ other * n \in Nat
  BY <1>1, <1>3
<1>5. j \in 0..n - 1 /\ layer * n + i = other * n + j
  BY <1>1, <1>2, <1>3, <1>4 DEF n
<1> HIDE DEF j
<1> QED  BY <1>1, <1>2, <1>3, <1>5, Digits

LEMMA RowRun ==
  ASSUME NEW map, NEW size \in MapSizes, SizedAs(map, size),
         NEW layer \in 0..map.layers - 1, NEW other \in 0..map.layers - 1,
         NEW p \in Points(map), NEW x \in Nat, NEW y \in 0..map.height - 1,
         NEW run \in Nat, x + run <= map.width,
         TileIndex(map, layer, p) \in TileIndex(map, other, <<x, y>>)
                                      .. TileIndex(map, other, <<x, y>>) + run - 1
  PROVE  layer = other /\ p[2] = y /\ p[1] \in x..x + run - 1
<1> DEFINE w == map.width
           h == map.height
           r == layer * h + p[2]
           s == other * h + y
           d == TileIndex(map, layer, p) - TileIndex(map, other, <<x, y>>)
<1>1. w \in Nat \ {0} /\ h \in Nat \ {0} /\ layer \in Nat /\ other \in Nat
  BY DEF MapSizes, SizedAs
<1>2. p[1] \in 0..w - 1 /\ p[2] \in 0..h - 1 /\ y \in 0..h - 1 /\ x + run <= w
  BY DEF Points
<1>3. /\ TileIndex(map, layer, p) = layer * (w * h) + (p[2] * w + p[1])
      /\ TileIndex(map, other, <<x, y>>) = other * (w * h) + (y * w + x)
  BY DEF TileIndex, PointIndex, CellCount
<1> HIDE DEF w, h
<1>4. /\ layer * (w * h) \in Nat /\ p[2] * w \in Nat
      /\ other * (w * h) \in Nat /\ y * w \in Nat
      /\ layer * h \in Nat /\ other * h \in Nat
  BY <1>1, <1>2
<1>5. /\ layer * (w * h) + p[2] * w = r * w
      /\ other * (w * h) + y * w = s * w
  BY <1>1, <1>2
<1>6. r \in Nat /\ s \in Nat
  BY <1>1, <1>2, <1>4
<1>7. d \in 0..run - 1
  BY <1>2, <1>3, <1>4
<1>8. r * w + p[1] = s * w + (x + d)
  <2> DEFINE a == layer * (w * h)
             b == p[2] * w
             c == other * (w * h)
             e == y * w
  <2>1. a \in Nat /\ b \in Nat /\ c \in Nat /\ e \in Nat /\ a + b = r * w /\ c + e = s * w
    BY <1>4, <1>5
  <2>2. d = (a + (b + p[1])) - (c + (e + x))
    BY <1>3
  <2> HIDE DEF a, b, c, e, d, r, s
  <2>3. r * w \in Nat /\ s * w \in Nat
    BY <2>1
  <2> QED  BY <1>2, <1>7, <2>1, <2>2, <2>3
<1> HIDE DEF d
<1>9. x + d \in 0..w - 1
  BY <1>1, <1>2, <1>7
<1>10. r = s /\ p[1] = x + d
  <2> HIDE DEF r, s
  <2> QED  BY <1>1, <1>2, <1>6, <1>8, <1>9, Digits
<1>11. layer = other /\ p[2] = y
  BY <1>1, <1>2, <1>10, Digits
<1> QED  BY <1>7, <1>10, <1>11

IsMap(map) ==
  /\ \E size \in MapSizes : SizedAs(map, size)
  /\ map.tiles \in [Storage(map) -> Tiles]
  /\ map = [width |-> map.width, height |-> map.height, layers |-> map.layers,
            tiles |-> map.tiles]

\* An edit leaves a map of the same size, with tile in the cells it covers.
Writes(new, map, layer, rect, tile) ==
  /\ IsMap(new)
  /\ new.width = map.width /\ new.height = map.height /\ new.layers = map.layers
  /\ \A c \in CellsOf(map) :
       Get(new, c[1], c[2]) = IF c[1] = layer /\ Covers(rect, c[2]) THEN tile
                              ELSE Get(map, c[1], c[2])

\* An edit that writes tile at the indices of run does so if these are the
\* indices of the cells it covers.
LEMMA RunWrites ==
  ASSUME NEW map, IsMap(map), NEW layer, NEW rect, NEW tile \in Tiles, NEW run,
         NEW tiles, tiles = [i \in Storage(map) |-> IF i \in run THEN tile ELSE map.tiles[i]],
         NEW new, new = [width |-> map.width, height |-> map.height,
                         layers |-> map.layers, tiles |-> tiles],
         \A c \in CellsOf(map) :
           TileIndex(map, c[1], c[2]) \in run <=> c[1] = layer /\ Covers(rect, c[2])
  PROVE  Writes(new, map, layer, rect, tile)
<1>1. PICK size \in MapSizes : SizedAs(map, size)
  BY DEF IsMap
<1>2. /\ new.width = map.width /\ new.height = map.height /\ new.layers = map.layers
      /\ new.tiles = tiles
  OBVIOUS
<1>3. Storage(new) = Storage(map) /\ SizedAs(new, size)
  BY <1>1, <1>2 DEF Storage, SizedAs
<1>4. tiles \in [Storage(map) -> Tiles]
  BY DEF IsMap
<1>5. IsMap(new)
  BY <1>2, <1>3, <1>4 DEF IsMap
<1>6. ASSUME NEW c \in CellsOf(map)
      PROVE  Get(new, c[1], c[2]) = IF c[1] = layer /\ Covers(rect, c[2]) THEN tile
                                    ELSE Get(map, c[1], c[2])
  <2>1. c[1] \in 0..map.layers - 1 /\ c[2] \in Points(map)
    BY DEF CellsOf
  <2>2. TileIndex(map, c[1], c[2]) \in Storage(map)
    BY <1>1, <2>1, IndexInStorage
  <2>3. TileIndex(new, c[1], c[2]) = TileIndex(map, c[1], c[2])
    BY <1>2 DEF TileIndex, PointIndex, CellCount
  <2> QED  BY <1>2, <2>2, <2>3 DEF Get
<1> QED  BY <1>2, <1>5, <1>6 DEF Writes

Cell(p) == [x |-> p[1], y |-> p[2], width |-> 1, height |-> 1]
WholeLayer(map) == [x |-> 0, y |-> 0, width |-> map.width, height |-> map.height]

LEMMA SetWrites ==
  ASSUME NEW map, IsMap(map), NEW layer \in 0..map.layers - 1, NEW p \in Points(map),
         NEW tile \in Tiles
  PROVE  Writes(Set(map, layer, p, tile), map, layer, Cell(p), tile)
<1>1. PICK size \in MapSizes : SizedAs(map, size)
  BY DEF IsMap
<1> DEFINE index == TileIndex(map, layer, p)
           tiles == [i \in Storage(map) |-> IF i \in {index} THEN tile ELSE map.tiles[i]]
<1>2. [map.tiles EXCEPT ![index] = tile] = tiles
  BY DEF IsMap
<1>3. Set(map, layer, p, tile)
        = [width |-> map.width, height |-> map.height, layers |-> map.layers, tiles |-> tiles]
  BY <1>2 DEF Set, IsMap
<1>4. ASSUME NEW c \in CellsOf(map)
      PROVE  TileIndex(map, c[1], c[2]) \in {index} <=> c[1] = layer /\ Covers(Cell(p), c[2])
  <2>1. c[1] \in 0..map.layers - 1 /\ c[2] \in Points(map)
    BY DEF CellsOf
  <2>2. /\ p = <<p[1], p[2]>> /\ c[2] = <<c[2][1], c[2][2]>>
        /\ p[1] \in Nat /\ p[2] \in 0..map.height - 1 /\ p[1] + 1 <= map.width
        /\ p[2] \in Nat /\ c[2][1] \in Nat /\ c[2][2] \in Nat
    BY <1>1, <2>1 DEF Points, MapSizes, SizedAs
  <2>3. index \in Nat
    BY <1>1, IndexInStorage DEF Storage
  <2>4. ASSUME TileIndex(map, c[1], c[2]) = index PROVE c[1] = layer /\ c[2] = p
    <3>1. TileIndex(map, c[1], c[2]) \in TileIndex(map, layer, <<p[1], p[2]>>)
                                         .. TileIndex(map, layer, <<p[1], p[2]>>) + 1 - 1
      BY <2>2, <2>3, <2>4
    <3>2. c[1] = layer /\ c[2][2] = p[2] /\ c[2][1] \in p[1]..p[1] + 1 - 1
      BY <1>1, <2>1, <2>2, <3>1, RowRun, SMTT(60)
    <3> QED  BY <2>2, <3>2
  <2>5. Covers(Cell(p), c[2]) <=> c[2][1] = p[1] /\ c[2][2] = p[2]
    BY <2>2 DEF Covers, Cell
  <2>6. Covers(Cell(p), c[2]) <=> c[2] = p
    BY <2>2, <2>5
  <2> QED  BY <2>4, <2>6
<1> HIDE DEF tiles, index
<1>5. tiles = [i \in Storage(map) |-> IF i \in {index} THEN tile ELSE map.tiles[i]]
  BY DEF tiles
<1> QED  BY <1>3, <1>4, <1>5, RunWrites

LEMMA FillLayerWrites ==
  ASSUME NEW map, IsMap(map), NEW layer \in 0..map.layers - 1, NEW tile \in Tiles
  PROVE  Writes(FillLayer(map, layer, tile), map, layer, WholeLayer(map), tile)
<1>1. PICK size \in MapSizes : SizedAs(map, size)
  BY DEF IsMap
<1> DEFINE start == layer * CellCount(map)
           run   == start .. start + CellCount(map) - 1
           tiles == [i \in Storage(map) |-> IF i \in run THEN tile ELSE map.tiles[i]]
<1>2. [i \in DOMAIN map.tiles |-> IF i \in run THEN tile ELSE map.tiles[i]] = tiles
  BY DEF IsMap
<1>3. FillLayer(map, layer, tile)
        = [width |-> map.width, height |-> map.height, layers |-> map.layers, tiles |-> tiles]
  <2>1. FillLayer(map, layer, tile)
          = [map EXCEPT !.tiles = [i \in DOMAIN map.tiles |-> IF i \in run THEN tile ELSE map.tiles[i]]]
    BY DEF FillLayer
  <2> HIDE DEF run, tiles
  <2> QED  BY <1>2, <2>1 DEF IsMap
<1>4. ASSUME NEW c \in CellsOf(map)
      PROVE  TileIndex(map, c[1], c[2]) \in run <=> c[1] = layer /\ Covers(WholeLayer(map), c[2])
  <2>1. c[1] \in 0..map.layers - 1 /\ c[2] \in Points(map)
    BY DEF CellsOf
  <2>2. Covers(WholeLayer(map), c[2])
    BY <1>1, <2>1 DEF Covers, WholeLayer, Points, MapSizes, SizedAs
  <2>3. TileIndex(map, c[1], c[2]) \in run => c[1] = layer
    BY <1>1, <2>1, LayerRun
  <2>4. ASSUME c[1] = layer PROVE TileIndex(map, c[1], c[2]) \in run
    <3>1. /\ PointIndex(map, c[2]) \in 0..CellCount(map) - 1
          /\ TileIndex(map, c[1], c[2]) = start + PointIndex(map, c[2])
      BY <1>1, <2>1, <2>4, IndexInStorage
    <3>2. start \in Nat /\ CellCount(map) \in Nat
      BY <1>1 DEF MapSizes, SizedAs, CellCount
    <3> HIDE DEF start
    <3> QED  BY <3>1, <3>2
  <2> QED  BY <2>2, <2>3, <2>4
<1> HIDE DEF tiles, run
<1>5. tiles = [i \in Storage(map) |-> IF i \in run THEN tile ELSE map.tiles[i]]
  BY DEF tiles
<1> QED  BY <1>3, <1>4, <1>5, RunWrites

RowOf(map, layer, rect, row) ==
  TileIndex(map, layer, <<rect.x, rect.y + row>>)
  .. TileIndex(map, layer, <<rect.x, rect.y + row>>) + rect.width - 1

LEMMA FillRectWrites ==
  ASSUME NEW map, IsMap(map), NEW layer \in 0..map.layers - 1, NEW tile \in Tiles,
         NEW rect \in [x : Int, y : Int, width : Int, height : Int],
         RegionStatus(map, layer, rect) = "ok"
  PROVE  Writes(FillRect(map, layer, rect, tile), map, layer, rect, tile)
<1>1. PICK size \in MapSizes : SizedAs(map, size)
  BY DEF IsMap
<1>2. /\ rect.x \in Nat /\ rect.y \in Nat /\ rect.width \in Nat /\ rect.height \in Nat
      /\ rect.x + rect.width <= map.width /\ rect.y + rect.height <= map.height
  BY <1>1 DEF RegionStatus, MapSizes, SizedAs
<1> DEFINE rows  == {i \in Storage(map) :
                       \E row \in 0..rect.height - 1 : i \in RowOf(map, layer, rect, row)}
           tiles == [i \in Storage(map) |-> IF i \in rows THEN tile ELSE map.tiles[i]]
<1>3. [i \in DOMAIN map.tiles |->
         IF \E row \in 0..rect.height - 1 : i \in RowOf(map, layer, rect, row)
         THEN tile ELSE map.tiles[i]] = tiles
  BY DEF IsMap
<1>4. FillRect(map, layer, rect, tile)
        = [width |-> map.width, height |-> map.height, layers |-> map.layers, tiles |-> tiles]
  <2>1. FillRect(map, layer, rect, tile)
          = [map EXCEPT !.tiles =
              [i \in DOMAIN map.tiles |->
                 IF \E row \in 0..rect.height - 1 : i \in RowOf(map, layer, rect, row)
                 THEN tile ELSE map.tiles[i]]]
    BY DEF FillRect, RowOf
  <2> HIDE DEF tiles
  <2> QED  BY <1>3, <2>1 DEF IsMap
<1>5. ASSUME NEW c \in CellsOf(map)
      PROVE  TileIndex(map, c[1], c[2]) \in rows <=> c[1] = layer /\ Covers(rect, c[2])
  <2>1. c[1] \in 0..map.layers - 1 /\ c[2] \in Points(map)
    BY DEF CellsOf
  <2>2. TileIndex(map, c[1], c[2]) \in Storage(map)
    BY <1>1, <2>1, IndexInStorage
  <2>3. c[2][1] \in Nat /\ c[2][2] \in Nat /\ map.width \in Nat /\ map.height \in Nat
    BY <1>1, <2>1 DEF Points, MapSizes, SizedAs
  <2>4. ASSUME NEW row \in 0..rect.height - 1,
               TileIndex(map, c[1], c[2]) \in RowOf(map, layer, rect, row)
        PROVE  c[1] = layer /\ Covers(rect, c[2])
    <3>1. rect.y + row \in 0..map.height - 1
      BY <1>2, <2>3
    <3>2. /\ c[1] = layer /\ c[2][2] = rect.y + row
          /\ c[2][1] \in rect.x..rect.x + rect.width - 1
      BY <1>1, <1>2, <2>1, <2>4, <3>1, RowRun, SMTT(60) DEF RowOf
    <3> QED  BY <1>2, <3>2 DEF Covers
  <2>5. ASSUME c[1] = layer, Covers(rect, c[2])
        PROVE  \E row \in 0..rect.height - 1 :
                 TileIndex(map, c[1], c[2]) \in RowOf(map, layer, rect, row)
    <3> DEFINE row == c[2][2] - rect.y
               a   == layer * CellCount(map)
               b   == c[2][2] * map.width
    <3>1. row \in 0..rect.height - 1 /\ rect.y + row = c[2][2]
      BY <1>2, <2>3, <2>5 DEF Covers
    <3>2. c[2][1] \in rect.x..rect.x + rect.width - 1
      BY <2>5 DEF Covers
    <3>3. /\ TileIndex(map, c[1], c[2]) = a + (b + c[2][1])
          /\ TileIndex(map, layer, <<rect.x, rect.y + row>>) = a + (b + rect.x)
      BY <2>5, <3>1 DEF TileIndex, PointIndex
    <3>4. a \in Nat /\ b \in Nat
      BY <1>1, <2>3 DEF CellCount, MapSizes, SizedAs
    <3> HIDE DEF row, a, b
    <3>5. TileIndex(map, c[1], c[2]) \in RowOf(map, layer, rect, row)
      BY <1>2, <2>3, <3>2, <3>3, <3>4 DEF RowOf
    <3> QED  BY <3>1, <3>5
  <2> QED  BY <2>2, <2>4, <2>5
<1> HIDE DEF tiles, rows
<1>6. tiles = [i \in Storage(map) |-> IF i \in rows THEN tile ELSE map.tiles[i]]
  BY DEF tiles
<1> QED  BY <1>4, <1>5, <1>6, RunWrites

\* The map is one that was created, and its cells hold what was painted.
EditorInv ==
  /\ edited = NoMap \/ IsMap(edited)
  /\ CellsHoldLastEdit

LEMMA NothingOnNoMap == CellsOf(NoMap) = {}
BY DEF CellsOf, NoMap

LEMMA EditStep ==
  ASSUME EditorInv, edited # NoMap, NEW map, NEW layer, NEW rect, NEW tile,
         Writes(map, edited, layer, rect, tile), Edits(map, layer, rect, tile)
  PROVE  EditorInv'
<1>1. IsMap(map) /\ edited' = map
  BY DEF Writes, Edits
<1>2. CellsOf(map) = CellsOf(edited)
  BY DEF Writes, CellsOf, Points
<1>3. ASSUME NEW c \in CellsOf(edited) PROVE Get(map, c[1], c[2]) = painted'[c]
  <2>1. painted'[c] = IF c[1] = layer /\ Covers(rect, c[2]) THEN tile ELSE painted[c]
    BY DEF Edits
  <2>2. Get(edited, c[1], c[2]) = painted[c]
    BY DEF EditorInv, CellsHoldLastEdit
  <2>3. Get(map, c[1], c[2]) = IF c[1] = layer /\ Covers(rect, c[2]) THEN tile
                               ELSE Get(edited, c[1], c[2])
    BY DEF Writes
  <2> QED  BY <2>1, <2>2, <2>3
<1> QED  BY <1>1, <1>2, <1>3 DEF EditorInv, CellsHoldLastEdit

LEMMA CreateStep ==
  ASSUME NEW size \in EditorSizes, NEW tile \in Tiles, NEW memory \in BOOLEAN,
         EditorConstants, SizeLimit \in Nat, Create(size, tile, memory)
  PROVE  EditorInv'
<1> DEFINE created == Created(size.width, size.height, size.layers, tile, memory)
<1>1. size.width \in Int /\ size.height \in Int /\ size.layers \in Nat
  BY DEF EditorConstants
<1>2. CASE created.status # "ok"
  <2>1. edited' = NoMap
    BY <1>2 DEF Create
  <2> QED  BY <2>1, NothingOnNoMap DEF EditorInv, CellsHoldLastEdit
<1>3. CASE created.status = "ok"
  <2> DEFINE cells == 0..size.width * size.height * size.layers - 1
             map   == [width |-> size.width, height |-> size.height, layers |-> size.layers,
                       tiles |-> [i \in cells |-> tile]]
  <2>1. /\ ~(size.width <= 0 \/ size.height <= 0 \/ size.layers = 0)
        /\ created = [status |-> "ok", map |-> map]
    BY <1>3 DEF Created
  <2>2. edited' = map /\ painted' = [c \in CellsOf(edited') |-> tile]
    BY <1>3, <2>1 DEF Create
  <2>3. map.width \in Nat \ {0} /\ map.height \in Nat \ {0} /\ map.layers \in Nat \ {0}
    BY <1>1, <2>1
  <2>4. Storage(map) = cells /\ map.tiles \in [cells -> Tiles]
    BY DEF Storage
  <2>5. \E s \in MapSizes : SizedAs(map, s)
    <3>1. [width |-> map.width, height |-> map.height, layers |-> map.layers] \in MapSizes
      BY <2>3 DEF MapSizes
    <3> QED  BY <3>1 DEF SizedAs
  <2>6. IsMap(map)
    BY <2>4, <2>5 DEF IsMap
  <2>7. ASSUME NEW c \in CellsOf(map) PROVE Get(map, c[1], c[2]) = tile
    <3>1. c[1] \in 0..map.layers - 1 /\ c[2] \in Points(map)
      BY DEF CellsOf
    <3>2. TileIndex(map, c[1], c[2]) \in Storage(map)
      <4> HIDE DEF map
      <4> QED  BY <2>5, <3>1, IndexInStorage
    <3>3. \A i \in cells : map.tiles[i] = tile
      OBVIOUS
    <3> HIDE DEF map, cells
    <3> QED  BY <2>4, <3>2, <3>3 DEF Get
  <2> HIDE DEF map
  <2> QED  BY <2>2, <2>6, <2>7 DEF EditorInv, CellsHoldLastEdit
<1> QED  BY <1>2, <1>3

LEMMA FillRegionStep ==
  ASSUME EditorInv, NEW layer \in 0..edited.layers - 1, NEW tile \in Tiles,
         NEW rect \in Regions(edited), NEW delta \in EditorDeltas,
         FillRegion(layer, rect, delta, tile), edited # NoMap
  PROVE  EditorInv'
<1> DEFINE moved == RectTranslate(rect, delta)
           to    == [rect EXCEPT !.x = rect.x + delta[1], !.y = rect.y + delta[2]]
<1>1. PICK size \in MapSizes : SizedAs(edited, size)
  BY DEF EditorInv, IsMap
<1>2. rect \in [x : Int, y : Int, width : Int, height : Int]
  BY <1>1 DEF Regions, MapSizes, SizedAs
<1>3. delta[1] \in Int /\ delta[2] \in Int
  BY DEF EditorDeltas
<1>4. moved.rect = to
  <2>1. moved.status = "ok"
    BY DEF FillRegion
  <2> QED  BY <2>1 DEF RectTranslate, PointOf
<1>5. to \in [x : Int, y : Int, width : Int, height : Int]
  <2>1. rect.x + delta[1] \in Int /\ rect.y + delta[2] \in Int
    BY <1>2, <1>3
  <2> QED  BY <1>2, <2>1, Zenon
<1>6. /\ RegionStatus(edited, layer, to) = "ok"
      /\ Edits(FillRect(edited, layer, to, tile), layer, to, tile)
  BY <1>4 DEF FillRegion
<1>7. IsMap(edited)
  BY DEF EditorInv
<1> HIDE DEF to, moved
<1>8. Writes(FillRect(edited, layer, to, tile), edited, layer, to, tile)
  BY <1>5, <1>6, <1>7, FillRectWrites
<1> QED  BY <1>6, <1>8, EditStep

LEMMA EditorStep ==
  ASSUME EditorInv, EditorNext, EditorConstants, SizeLimit \in Nat
  PROVE  EditorInv'
<1>1. ASSUME NEW size \in EditorSizes, NEW tile \in Tiles, NEW memory \in BOOLEAN,
             Create(size, tile, memory)
      PROVE  EditorInv'
  BY <1>1, CreateStep
<1>2. CASE Destroy
  BY <1>2, NothingOnNoMap DEF Destroy, EditorInv, CellsHoldLastEdit
<1>3. ASSUME NEW layer \in 0..edited.layers - 1, NEW tile \in Tiles,
             NEW p \in Points(edited), SetTile(layer, p, tile)
      PROVE  EditorInv'
  <2>1. edited # NoMap /\ Edits(Set(edited, layer, p, tile), layer, Cell(p), tile)
    BY <1>3 DEF SetTile, Edits, Cell
  <2>2. IsMap(edited)
    BY <2>1 DEF EditorInv
  <2>3. Writes(Set(edited, layer, p, tile), edited, layer, Cell(p), tile)
    BY <1>3, <2>2, SetWrites
  <2> QED  BY <2>1, <2>3, EditStep
<1>4. ASSUME NEW layer \in 0..edited.layers - 1, NEW tile \in Tiles, FillWholeLayer(layer, tile)
      PROVE  EditorInv'
  <2>1. edited # NoMap /\ Edits(FillLayer(edited, layer, tile), layer, WholeLayer(edited), tile)
    BY <1>4 DEF FillWholeLayer, Edits, WholeLayer
  <2>2. IsMap(edited)
    BY <2>1 DEF EditorInv
  <2>3. Writes(FillLayer(edited, layer, tile), edited, layer, WholeLayer(edited), tile)
    BY <1>4, <2>2, FillLayerWrites
  <2> QED  BY <2>1, <2>3, EditStep
<1>5. ASSUME NEW layer \in 0..edited.layers - 1, NEW tile \in Tiles,
             NEW rect \in Regions(edited), NEW delta \in EditorDeltas,
             FillRegion(layer, rect, delta, tile)
      PROVE  EditorInv'
  <2>1. edited # NoMap
    BY <1>5 DEF FillRegion, Edits
  <2> QED  BY <1>5, <2>1, FillRegionStep
<1> QED  BY <1>1, <1>2, <1>3, <1>4, <1>5 DEF EditorNext

\* Whatever the sizes of the maps: every cell holds the tile of the last edit
\* that covered it, because no two cells share an index and no run of a fill
\* leaves its row or its layer.
THEOREM CellsKeepLastEdit == EditorSpec => []CellsHoldLastEdit
<1>1. EditorStart => EditorInv
  BY NothingOnNoMap DEF EditorStart, EditorInv, CellsHoldLastEdit
<1>2. TileMapConstants /\ EditorConstants /\ EditorInv /\ [EditorNext]_editorVars => EditorInv'
  BY EditorStep DEF TileMapConstants, editorVars, EditorInv, CellsHoldLastEdit
<1>3. EditorInv => CellsHoldLastEdit
  BY DEF EditorInv
<1> QED  BY <1>1, <1>2, <1>3, TileMapConstants, EditorConstants, PTL DEF EditorSpec
=============================================================================
