--------------------------------- MODULE Fov ---------------------------------
(***************************************************************************)
(* Field of view (fov.c): shadow casting in eight octants, with a stack of *)
(* tasks in place of the recursion.  A task scans the rows of an octant    *)
(* from one distance on, between two slopes; a wall splits it.  A slope is *)
(* a fraction <<numerator, denominator>>, compared by cross products.  One *)
(* task is one step.  The buffer is the set of the cells marked visible.   *)
(***************************************************************************)
EXTENDS TileMap, FiniteSets

CONSTANTS
  InlineTasks,      \* FOV_INLINE_TASK_CAPACITY
  Views             \* the requests of callers: [map, layer, origin, radius, test, room]

ASSUME FovConstants == InlineTasks \in Nat \ {0}

VARIABLE sight      \* the running or the last computation

SightInit == sight = [phase |-> "idle"]

\* How an octant's columns and rows lie on the map.
Transforms == <<<<1, 0, 0, 1>>, <<0, 1, 1, 0>>, <<0, 1, -1, 0>>, <<-1, 0, 0, 1>>,
                <<-1, 0, 0, -1>>, <<0, -1, -1, 0>>, <<0, -1, 1, 0>>, <<1, 0, 0, -1>>>>

Cell(origin, octant, distance, lateral) ==
  LET t == Transforms[octant]
  IN <<origin[1] - lateral * t[1] - distance * t[2],
       origin[2] - lateral * t[3] - distance * t[4]>>

Below(s, t)         == s[1] * t[2] < t[1] * s[2]
LeftSlope(distance, lateral)  == <<2 * lateral + 1, 2 * distance - 1>>
RightSlope(distance, lateral) == <<2 * lateral - 1, 2 * distance + 1>>

WithinRadius(origin, p, radius) ==
  (p[1] - origin[1]) * (p[1] - origin[1]) + (p[2] - origin[2]) * (p[2] - origin[2])
    <= radius * radius

EffectiveRadius(map, origin, radius) ==
  LET edges == {origin[1], map.width - 1 - origin[1], origin[2], map.height - 1 - origin[2]}
      farthest == CHOOSE e \in edges : \A f \in edges : f <= e
  IN IF radius < farthest THEN radius ELSE farthest

\* The walls a scan sees: off the map everything, beyond the radius nothing.
Opaque(view, p) ==
  IF ~Contains(view.map, p) THEN TRUE
  ELSE /\ WithinRadius(view.origin, p, view.radius)
       /\ Matches(view.map, view.layer, p, view.test)

Root(octant) == [row |-> 1, start |-> <<1, 1>>, end |-> <<0, 1>>, octant |-> octant]

Finished(view, status, visible) ==
  [phase |-> "done", view |-> view, status |-> status, visible |-> visible]

\* aforc_fov_compute up to its octants.  It keeps nothing: one of a behaviour is enough.
Compute(view) ==
  /\ sight.phase = "idle"
  /\ sight' =
       IF PointStatus(view.map, view.layer, view.origin) # "ok"
       THEN Finished(view, "not_found", {})
       ELSE IF view.room < CellCount(view.map) THEN Finished(view, "limit", {})
       ELSE IF EffectiveRadius(view.map, view.origin, view.radius) = 0
       THEN Finished(view, "ok", {view.origin})
       ELSE [phase |-> "scanning", view |-> view, visible |-> {view.origin},
             stack |-> <<Root(1)>>, capacity |-> InlineTasks, octant |-> 1,
             radius |-> EffectiveRadius(view.map, view.origin, view.radius)]

\* fov_stack_push: a full stack doubles, as long as there is memory for it.
PushTask(scan, task) ==
  IF Len(scan.stack) = scan.capacity
  THEN IF scan.memory = 0 THEN [scan EXCEPT !.status = "memory"]
       ELSE [scan EXCEPT !.stack = Append(@, task), !.capacity = 2 * @, !.memory = @ - 1]
  ELSE [scan EXCEPT !.stack = Append(@, task)]

(* One cell of a row: scan has the slope where the open part of the row      *)
(* starts, whether a wall was just passed, and where it ends to the right.   *)
ScanCell_HideWalls(scan, view, task, distance, lateral, p, last) ==
  LET right  == RightSlope(distance, lateral)
      opaque == Opaque(view, p)
      seen   == IF ~opaque /\ WithinRadius(view.origin, p, view.radius)
                THEN [scan EXCEPT !.visible = @ \cup {p}] ELSE scan
  IN IF scan.blocked
     THEN IF opaque THEN [seen EXCEPT !.resume = right]
          ELSE [seen EXCEPT !.blocked = FALSE, !.start = scan.resume]
     ELSE IF opaque /\ ~last
     THEN [PushTask(seen, [task EXCEPT !.row = distance + 1, !.start = scan.start,
                                       !.end = LeftSlope(distance, lateral)])
             EXCEPT !.blocked = TRUE, !.resume = right]
     ELSE seen

ScanCell(scan, view, task, distance, lateral, p, last) ==
  LET right  == RightSlope(distance, lateral)
      opaque == Opaque(view, p)
      seen   == IF Contains(view.map, p) /\ WithinRadius(view.origin, p, view.radius)
                THEN [scan EXCEPT !.visible = @ \cup {p}] ELSE scan
  IN IF scan.blocked
     THEN IF opaque THEN [seen EXCEPT !.resume = right]
          ELSE [seen EXCEPT !.blocked = FALSE, !.start = scan.resume]
     ELSE IF opaque /\ ~last
     THEN [PushTask(seen, [task EXCEPT !.row = distance + 1, !.start = scan.start,
                                       !.end = LeftSlope(distance, lateral)])
             EXCEPT !.blocked = TRUE, !.resume = right]
     ELSE seen

\* fov_scan_task: cells from the diagonal to the axis, rows until one ends in a wall.
RECURSIVE ScanFrom(_, _, _, _, _, _)
ScanFrom(scan, view, task, radius, distance, lateral) ==
  IF scan.status # "ok" THEN scan
  ELSE IF lateral < 0 \/ Below(LeftSlope(distance, lateral), task.end)
  THEN IF distance = radius \/ scan.blocked THEN scan
       ELSE ScanFrom(scan, view, task, radius, distance + 1, distance + 1)
  ELSE ScanFrom(IF Below(scan.start, RightSlope(distance, lateral)) THEN scan
                ELSE ScanCell(scan, view, task, distance, lateral,
                              Cell(view.origin, task.octant, distance, lateral),
                              distance = radius),
                view, task, radius, distance, lateral - 1)

Scanned(task, memory) ==
  LET scan == [start |-> task.start, resume |-> task.start, blocked |-> FALSE,
               visible |-> sight.visible, status |-> "ok", memory |-> memory,
               stack |-> SubSeq(sight.stack, 1, Len(sight.stack) - 1),
               capacity |-> sight.capacity]
  IN IF Below(task.start, task.end) THEN scan
     ELSE ScanFrom(scan, sight.view, task, sight.radius, task.row, task.row)

\* The loop over the stack, and over the octants when it is empty.
Take(memory) ==
  /\ sight.phase = "scanning" /\ sight.stack # <<>>
  /\ LET scan == Scanned(sight.stack[Len(sight.stack)], memory)
     IN sight' = IF scan.status # "ok"
                 THEN Finished(sight.view, scan.status, scan.visible)
                 ELSE [sight EXCEPT !.visible = scan.visible, !.stack = scan.stack,
                                    !.capacity = scan.capacity]

NextOctant ==
  /\ sight.phase = "scanning" /\ sight.stack = <<>>
  /\ sight' = IF sight.octant = 8 THEN Finished(sight.view, "ok", sight.visible)
              ELSE [sight EXCEPT !.octant = @ + 1, !.stack = <<Root(sight.octant + 1)>>]

SightNext ==
  \/ \E view \in Views : Compute(view)
  \/ \E memory \in {0, 3} : Take(memory)
  \/ NextOctant

-----------------------------------------------------------------------------
(* What a cell's visibility means, said without scanning: a sight line is a  *)
(* slope in an octant, a wall in a nearer row hides the slopes strictly      *)
(* between its left and its right one, and a cell is seen if a slope it      *)
(* spans is hidden by nothing.  The ends of the spans are slopes enough.     *)
NearerWalls(view, octant, distance) ==
  {w \in (1..distance - 1) \X (0..distance - 1) :
     w[2] <= w[1] /\ Opaque(view, Cell(view.origin, octant, w[1], w[2]))}

SeenIn(view, octant, distance, lateral) ==
  LET walls == NearerWalls(view, octant, distance)
      ends  == {<<0, 1>>, <<1, 1>>, LeftSlope(distance, lateral), RightSlope(distance, lateral)}
                 \cup {LeftSlope(w[1], w[2]) : w \in walls}
                 \cup {RightSlope(w[1], w[2]) : w \in walls}
  IN \E s \in ends :
       /\ ~Below(s, <<0, 1>>) /\ ~Below(<<1, 1>>, s)
       /\ ~Below(s, RightSlope(distance, lateral)) /\ ~Below(LeftSlope(distance, lateral), s)
       /\ \A w \in walls : ~(Below(RightSlope(w[1], w[2]), s) /\ Below(s, LeftSlope(w[1], w[2])))

InSight(view) ==
  {view.origin} \cup
  {p \in (0..view.map.width - 1) \X (0..view.map.height - 1) :
     /\ WithinRadius(view.origin, p, view.radius)
     /\ \E octant \in 1..8, distance \in 1..EffectiveRadius(view.map, view.origin, view.radius) :
          \E lateral \in 0..distance :
            /\ Cell(view.origin, octant, distance, lateral) = p
            /\ SeenIn(view, octant, distance, lateral)}

Towards(origin, p) ==
  {q \in (p[1] - 1..p[1] + 1) \X (p[2] - 1..p[2] + 1) :
     (q[1] - origin[1]) * (q[1] - origin[1]) + (q[2] - origin[2]) * (q[2] - origin[2])
       < (p[1] - origin[1]) * (p[1] - origin[1]) + (p[2] - origin[2]) * (p[2] - origin[2])}

(* No cell in sight is missed, walls included, wherever the scan was split   *)
(* and however deep its stack grew; and sight never passes a closed row of   *)
(* walls: a marked cell has a neighbour nearer to the origin that is marked  *)
(* and no wall.  A computation that ran out of memory keeps to the latter.   *)
SightIsComplete ==
  sight.phase = "done" =>
    LET view == sight.view
    IN /\ sight.status = "ok" => InSight(view) \subseteq sight.visible
       /\ sight.status \notin {"ok", "memory"} => sight.visible = {}
       /\ \A p \in sight.visible \ {view.origin} :
            \E q \in Towards(view.origin, p) :
              q = view.origin \/ (q \in sight.visible /\ ~Opaque(view, q))

(* Cells behind walls are shadowed: no cell is marked that no straight line  *)
(* from the origin reaches without crossing a wall (world.h:194).            *)
ShadowsAreDark ==
  (sight.phase = "done" /\ sight.status = "ok") => sight.visible \subseteq InSight(sight.view)
=============================================================================
