-------------------------------- MODULE World --------------------------------
(***************************************************************************)
(* The world component: path searches, fields of view, rays, cameras and   *)
(* edits of a map.  The calls run to their end before they return and only *)
(* read the map they are given, so that what a behaviour does is one       *)
(* caller's calls: a planner with its workspace, a viewer, a shooter of    *)
(* rays, a camera, or an editor.                                           *)
(***************************************************************************)
EXTENDS AStar, Fov, Camera, TileEditor

CONSTANTS
  Callers,          \* the callers of a behaviour, one of which it follows
  Rays              \* [map, layer, start, end, test]

ASSUME WorldConstants ==
  Callers \subseteq {"planner", "viewer", "shooter", "camera", "editor"}

VARIABLES
  caller,
  shot              \* the last ray and what came back

worldVars == <<searchVars, sight, cameraVars, editorVars, caller, shot>>

WorldInit ==
  /\ caller \in Callers
  /\ SearchInit /\ SightInit /\ CameraStart /\ EditorStart
  /\ shot = [status |-> "none"]

Plan == caller = "planner" /\ SearchNext
        /\ UNCHANGED <<caller, sight, shot, cameraVars, editorVars>>
Look == caller = "viewer" /\ SightNext
        /\ UNCHANGED <<caller, searchVars, shot, cameraVars, editorVars>>

Film == caller = "camera" /\ CameraNext
        /\ UNCHANGED <<caller, searchVars, sight, shot, editorVars>>

\* aforc_grid_raycast
Shoot(ray) ==
  /\ caller = "shooter" /\ shot.status = "none"
  /\ shot' = IF \E p \in {ray.start, ray.end} : PointStatus(ray.map, ray.layer, p) # "ok"
             THEN [status |-> "not_found", ray |-> ray, blocked |-> FALSE, hit |-> ray.end]
             ELSE LET cast == Raycast(ray.map, ray.layer, ray.start, ray.end, ray.test)
                  IN [status |-> "ok", ray |-> ray, blocked |-> cast.blocked, hit |-> cast.hit]
  /\ UNCHANGED <<caller, searchVars, sight, cameraVars, editorVars>>

Edit == caller = "editor" /\ EditorNext
        /\ UNCHANGED <<caller, searchVars, sight, shot, cameraVars>>

WorldNext ==
  \/ Plan
  \/ Look
  \/ \E ray \in Rays : Shoot(ray)
  \/ Film
  \/ Edit

WorldSpec == WorldInit /\ [][WorldNext]_worldVars

-----------------------------------------------------------------------------
(* The cells the segment between the centres of two cells touches, corners   *)
(* included, said without walking along it.                                  *)
Touches(start, end, p) ==
  LET dx == Absolute(end[1] - start[1])
      dy == Absolute(end[2] - start[2])
      i == IF start[1] < end[1] THEN p[1] - start[1] ELSE start[1] - p[1]
      j == IF start[2] < end[2] THEN p[2] - start[2] ELSE start[2] - p[2]
  IN i \in 0..dx /\ j \in 0..dy /\ 2 * Absolute(i * dy - j * dx) <= dx + dy

Strip(start, end) == [x |-> start[1], y |-> start[2],
                      width |-> end[1] - start[1] + 1, height |-> end[2] - start[2] + 1]

(* A ray is blocked if and only if the segment touches a blocked cell, a     *)
(* wall met at a corner included, and reports the nearest one, the           *)
(* horizontal neighbour before the vertical one; along a row to the right or *)
(* down a column it agrees with the scan of the strip it crosses.            *)
RayStopsFirst ==
  shot.status = "ok" =>
    LET ray == shot.ray
        walls == {p \in Points(ray.map) : Touches(ray.start, ray.end, p)
                                          /\ Matches(ray.map, ray.layer, p, ray.test)}
        Walked(p) == Absolute(p[1] - ray.start[1]) + Absolute(p[2] - ray.start[2])
        Across(p) == Absolute(p[1] - ray.start[1])
        strip == Strip(ray.start, ray.end)
    IN /\ shot.blocked <=> walls # {}
       /\ shot.blocked =>
            /\ shot.hit \in walls
            /\ \A p \in walls : \/ Walked(shot.hit) < Walked(p)
                                \/ Walked(shot.hit) = Walked(p) /\ Across(shot.hit) >= Across(p)
       /\ ~shot.blocked => shot.hit = ray.end
       /\ (strip.width = 1 /\ strip.height >= 1) \/ (strip.height = 1 /\ strip.width >= 1) =>
            LET scan == RectBlocked(ray.map, ray.layer, strip, ray.test)
            IN /\ scan.blocked = shot.blocked
               /\ scan.blocked => scan.first = shot.hit
=============================================================================
