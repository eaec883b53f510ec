------------------------------- MODULE Camera -------------------------------
(***************************************************************************)
(* Cameras over tile maps (camera.c): the origin of a viewport, kept on    *)
(* the map when it is clamped or centered.                                 *)
(***************************************************************************)
EXTENDS TileMap

CONSTANT Sizes      \* <<width, height>> of maps and viewports

ASSUME CameraConstants == Sizes \subseteq (1..CoordinateLimit - 1) \X (1..CoordinateLimit - 1)

VARIABLES
  camera,           \* [origin, viewport]
  centered          \* the map and the target the camera is centered on, if it is

cameraVars == <<camera, centered>>

NotCentered  == [is |-> FALSE]
Extent(size) == [width |-> size[1], height |-> size[2]]

ClampAxis_ToExtent(value, mapExtent, viewExtent) ==
  IF value < 0 THEN 0 ELSE IF value > mapExtent - 1 THEN mapExtent - 1 ELSE value

ClampAxis(value, mapExtent, viewExtent) ==
  LET maximum == IF mapExtent > viewExtent THEN mapExtent - viewExtent ELSE 0
  IN IF value < 0 THEN 0 ELSE IF value > maximum THEN maximum ELSE value

ClampToMap(from, map) ==
  [from EXCEPT !.origin = <<ClampAxis(@[1], map.width, from.viewport[1]),
                              ClampAxis(@[2], map.height, from.viewport[2])>>]

CenterOn(from, target, map) ==
  [from EXCEPT !.origin =
     <<ClampAxis(target[1] - from.viewport[1] \div 2, map.width, from.viewport[1]),
       ClampAxis(target[2] - from.viewport[2] \div 2, map.height, from.viewport[2])>>]

View(from) == [x |-> from.origin[1], y |-> from.origin[2],
                 width |-> from.viewport[1], height |-> from.viewport[2]]

WorldToScreen(from, p) == PointOf(<<p[1] - from.origin[1], p[2] - from.origin[2]>>)
ScreenToWorld(from, p) == PointOf(<<p[1] + from.origin[1], p[2] + from.origin[2]>>)

-----------------------------------------------------------------------------
CameraStart ==
  camera = [origin |-> <<0, 0>>, viewport |-> <<1, 1>>] /\ centered = NotCentered

CameraInit(size) == camera' = [origin |-> <<0, 0>>, viewport |-> size] /\ centered' = NotCentered

SetViewport(size) == camera' = [camera EXCEPT !.viewport = size] /\ centered' = NotCentered

Clamp(size) == camera' = ClampToMap(camera, Extent(size)) /\ centered' = NotCentered

Center(size, target) ==
  /\ camera' = CenterOn(camera, target, Extent(size))
  /\ centered' = [is |-> TRUE, on |-> target, map |-> Extent(size)]

CameraNext ==
  \/ \E size \in Sizes : CameraInit(size) \/ SetViewport(size) \/ Clamp(size)
  \/ \E size \in Sizes :
       \E target \in (0..size[1] - 1) \X (0..size[2] - 1) : Center(size, target)

CameraSpec == CameraStart /\ [][CameraNext]_cameraVars

-----------------------------------------------------------------------------
(* A camera centered on a cell of its map has the cell on the screen, and    *)
(* the way to the screen and back ends on it, on maps smaller and larger     *)
(* than the viewport; and it shows nothing beyond a map that fills it.       *)
TargetIsOnScreen ==
  centered.is =>
    LET onScreen == WorldToScreen(camera, centered.on)
    IN /\ onScreen.status = "ok"
       /\ onScreen.point[1] \in 0..camera.viewport[1] - 1
       /\ onScreen.point[2] \in 0..camera.viewport[2] - 1
       /\ ScreenToWorld(camera, onScreen.point).point = centered.on
       /\ View(camera).x >= 0 /\ View(camera).y >= 0
       /\ centered.map.width >= camera.viewport[1] =>
            View(camera).x + View(camera).width <= centered.map.width
       /\ centered.map.height >= camera.viewport[2] =>
            View(camera).y + View(camera).height <= centered.map.height

=============================================================================
