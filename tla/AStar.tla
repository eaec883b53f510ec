-------------------------------- MODULE AStar --------------------------------
(***************************************************************************)
(* Path search (astar.c): a workspace whose nodes are reused from search   *)
(* to search, told apart by the epoch they were last touched in, and a     *)
(* binary heap of open nodes that knows where each node sits.  Positions   *)
(* in the heap count from one here, and zero stands for SIZE_MAX.  A       *)
(* request carries its map: maps change between searches.  One expansion   *)
(* of the search loop is one step.                                         *)
(***************************************************************************)
EXTENDS TileMap, FiniteSets

CONSTANTS
  EpochLimit,     \* UINT16_MAX
  CostLimit,      \* UINT64_MAX
  PathRequests,       \* the searches callers make
  Reservations,   \* the capacities callers reserve
  MaxSearches     \* bounds the searches of a behaviour

ASSUME AStarConstants ==
  /\ EpochLimit \in Nat \ {0} /\ CostLimit \in Nat
  /\ Reservations \subseteq Nat /\ MaxSearches \in Nat

VARIABLES
  workspace,      \* [capacity, epoch, nodes] of a workspace the caller keeps
  local,          \* the workspace of a search that allocates its own
  search          \* the running or the last search

searchVars == <<workspace, local, search>>

None    == 0
Fresh   == [parent |-> -1, position |-> None, cost |-> CostLimit, heuristic |-> CostLimit,
            score |-> CostLimit, epoch |-> 0, state |-> "unseen"]
Storage(cells) == [capacity |-> cells, epoch |-> 0, nodes |-> [i \in 0..cells - 1 |-> Fresh]]
Quiet   == [phase |-> "idle", count |-> 0]

SearchInit ==
  /\ workspace = Storage(0) /\ local = Storage(0)
  /\ search = Quiet

Idle == search.phase # "searching"

\* aforc_path_workspace_reserve: the epoch starts over with the new nodes.
Reserve(cells) ==
  /\ Idle /\ cells > workspace.capacity /\ search.count < MaxSearches
  /\ \/ workspace' = Storage(cells)
     \/ UNCHANGED workspace             \* one of three allocations fails
  /\ search' = [Quiet EXCEPT !.count = search.count]
  /\ UNCHANGED local

-----------------------------------------------------------------------------
\* The heap of open nodes: smaller score, then smaller heuristic, then index.
Less(nodes, i, j) ==
  \/ nodes[i].score < nodes[j].score
  \/ nodes[i].score = nodes[j].score
     /\ \/ nodes[i].heuristic < nodes[j].heuristic
        \/ nodes[i].heuristic = nodes[j].heuristic /\ i < j

Place(open, position, i) ==
  [open EXCEPT !.nodes[i].position = position, !.heap[position] = i]

Swap(open, left, right) ==
  Place(Place(open, left, open.heap[right]), right, open.heap[left])

RECURSIVE SiftUp(_, _)
SiftUp(open, position) ==
  IF position > 1 /\ Less(open.nodes, open.heap[position], open.heap[position \div 2])
  THEN SiftUp(Swap(open, position, position \div 2), position \div 2)
  ELSE open

\* The least of position and its children.
Best(open, position) ==
  LET family == {p \in {position, 2 * position, 2 * position + 1} : p <= Len(open.heap)}
  IN CHOOSE p \in family :
       \A q \in family : p = q \/ Less(open.nodes, open.heap[p], open.heap[q])

RECURSIVE SiftDown(_, _)
SiftDown(open, position) ==
  IF Best(open, position) = position THEN open
  ELSE SiftDown(Swap(open, position, Best(open, position)), Best(open, position))

Push(open, i) ==
  SiftUp(Place([open EXCEPT !.heap = Append(@, i)], Len(open.heap) + 1, i),
         Len(open.heap) + 1)

\* What is left once the first node of the heap is taken out and closed.
Pop(open) ==
  LET first == open.heap[1]
      last  == open.heap[Len(open.heap)]
      rest  == [heap  |-> SubSeq(open.heap, 1, Len(open.heap) - 1),
                nodes |-> [open.nodes EXCEPT ![first].position = None,
                                             ![first].state = "closed"]]
  IN IF rest.heap = <<>> THEN rest ELSE SiftDown(Place(rest, 1, last), 1)

-----------------------------------------------------------------------------
Absolute(n)    == IF n < 0 THEN -n ELSE n
PointAt(map, i) == <<i % map.width, i \div map.width>>

Heuristic(request, i) ==
  LET from == PointAt(request.map, i)
      dx == Absolute(from[1] - request.goal[1])
      dy == Absolute(from[2] - request.goal[2])
  IN IF ~request.diagonal THEN 10 * (dx + dy)
     ELSE 14 * (IF dx < dy THEN dx ELSE dy) + 10 * Absolute(dx - dy)

\* path_workspace_begin
NextEpoch_KeepNodes(ws) ==
  IF ws.epoch = EpochLimit THEN [ws EXCEPT !.epoch = 1] ELSE [ws EXCEPT !.epoch = @ + 1]

NextEpoch(ws) ==
  IF ws.epoch = EpochLimit THEN [Storage(ws.capacity) EXCEPT !.epoch = 1]
  ELSE [ws EXCEPT !.epoch = @ + 1]

\* path_workspace_node: a node of an earlier epoch starts over when it is touched.
Touched(nodes, epoch, i) ==
  IF nodes[i].epoch = epoch THEN nodes ELSE [nodes EXCEPT ![i] = [Fresh EXCEPT !.epoch = epoch]]

Directions == <<<<0, -1>>, <<-1, 0>>, <<1, 0>>, <<0, 1>>,
                <<-1, -1>>, <<1, -1>>, <<-1, 1>>, <<1, 1>>>>

\* path_request_prepare
Prepared(request) ==
  LET Blocked(p) == Matches(request.map, request.layer, p, request.test)
  IN IF \E p \in {request.start, request.goal} :
          PointStatus(request.map, request.layer, p) # "ok" THEN "not_found"
     ELSE IF request.unknown_flags THEN "invalid"
     ELSE IF Blocked(request.start) THEN "not_found"
     ELSE "ok"

Answer(request, status, length, path) ==
  [phase |-> "done", count |-> search.count + 1, request |-> request,
   status |-> status, length |-> length, path |-> path]

\* path_search up to its loop: the start alone is open.
Started(ws, request) ==
  LET begun == NextEpoch(ws)
      start == PointIndex(request.map, request.start)
      nodes == [Touched(begun.nodes, begun.epoch, start) EXCEPT
                  ![start].cost = 0, ![start].state = "open",
                  ![start].heuristic = Heuristic(request, start),
                  ![start].score = Heuristic(request, start)]
      open  == Push([nodes |-> nodes, heap |-> <<>>], start)
  IN [ws |-> [begun EXCEPT !.nodes = open.nodes],
      search |-> [phase |-> "searching", count |-> search.count, request |-> request,
                  heap |-> open.heap, visited |-> 0]]

SearchRefused(request, status, length) ==
  /\ search' = Answer(request, status, length, <<>>)
  /\ UNCHANGED <<workspace, local>>

\* aforc_pathfind_astar_workspace
SearchWith(request) ==
  /\ Idle /\ search.count < MaxSearches /\ request.own = FALSE
  /\ IF Prepared(request) # "ok" THEN SearchRefused(request, Prepared(request), 0)
     ELSE IF workspace.capacity < CellCount(request.map) THEN SearchRefused(request, "limit", 0)
     ELSE IF request.start = request.goal
     THEN /\ search' = Answer(request, "ok", 1, <<request.start>>)
          /\ UNCHANGED <<workspace, local>>
     ELSE /\ workspace' = Started(workspace, request).ws
          /\ search' = Started(workspace, request).search
          /\ UNCHANGED local

\* aforc_pathfind_astar: with nodes of its own, zeroed, and the caller's points.
SearchAlone(request) ==
  /\ Idle /\ search.count < MaxSearches /\ request.own
  /\ IF Prepared(request) # "ok" THEN SearchRefused(request, Prepared(request), 0)
     ELSE IF request.start = request.goal
     THEN IF request.points = 0 THEN SearchRefused(request, "limit", 1)
          ELSE /\ search' = Answer(request, "ok", 1, <<request.start>>)
               /\ UNCHANGED <<workspace, local>>
     ELSE \/ SearchRefused(request, "memory", 0)
          \/ /\ local' = Started(Storage(CellCount(request.map)), request).ws
             /\ search' = Started(Storage(CellCount(request.map)), request).search
             /\ UNCHANGED workspace

-----------------------------------------------------------------------------
Improve(state, request, from, i, cost) ==
  LET heuristic == IF state.nodes[i].state = "unseen" THEN Heuristic(request, i)
                   ELSE state.nodes[i].heuristic
      better == [state EXCEPT !.nodes = [@ EXCEPT
                   ![i].heuristic = heuristic, ![i].parent = from, ![i].cost = cost,
                   ![i].score = cost + heuristic, ![i].state = "open"]]
  IN IF cost + heuristic > CostLimit THEN [state EXCEPT !.status = "overflow"]
     ELSE IF state.nodes[i].state = "open"
          THEN SiftUp(better, state.nodes[i].position)
     ELSE IF Len(state.heap) >= CellCount(request.map)
          THEN [better EXCEPT !.status = "state"]
     ELSE Push(better, i)

\* One direction of the loop over the neighbours of from.
Relax(state, request, epoch, from, direction) ==
  LET here  == PointAt(request.map, from)
      there == <<here[1] + direction[1], here[2] + direction[2]>>
      i     == PointIndex(request.map, there)
      slanted == direction[1] # 0 /\ direction[2] # 0
      Blocked(p) == Matches(request.map, request.layer, p, request.test)
      reached == [state EXCEPT !.nodes = Touched(@, epoch, i)]
      cost == reached.nodes[from].cost + (IF slanted THEN 14 ELSE 10)
  IN IF ~Contains(request.map, there) THEN state
     ELSE IF \/ reached.nodes[i].state = "closed"
             \/ slanted /\ request.no_corners
                /\ (Blocked(<<there[1], here[2]>>) \/ Blocked(<<here[1], there[2]>>))
             \/ Blocked(there) THEN reached
     ELSE IF cost > CostLimit THEN [reached EXCEPT !.status = "overflow"]
     ELSE IF reached.nodes[i].state = "open" /\ cost >= reached.nodes[i].cost THEN reached
     ELSE Improve(reached, request, from, i, cost)

RECURSIVE RelaxFrom(_, _, _, _, _)
RelaxFrom(state, request, epoch, from, d) ==
  IF d > (IF request.diagonal THEN 8 ELSE 4) \/ state.status # "ok" THEN state
  ELSE RelaxFrom(Relax(state, request, epoch, from, Directions[d]),
                 request, epoch, from, d + 1)

\* path_write: the parents from the goal back, <<>> if they do not lead to the start.
RECURSIVE Trail(_, _, _, _)
Trail(map, nodes, start, path) ==
  LET cursor == PointIndex(map, Head(path))
  IN IF cursor = start THEN path
     ELSE IF nodes[cursor].parent = -1 \/ Len(path) >= CellCount(map) THEN <<>>
     ELSE Trail(map, nodes, start, <<PointAt(map, nodes[cursor].parent)>> \o path)

Written(request, nodes, capacity) ==
  LET path == Trail(request.map, nodes, PointIndex(request.map, request.start), <<request.goal>>)
  IN IF path = <<>> THEN Answer(request, "state", 0, <<>>)
     ELSE IF capacity < Len(path) THEN Answer(request, "limit", Len(path), <<>>)
     ELSE Answer(request, "ok", Len(path), path)

VisitLimit(request) ==
  IF request.max_visited = 0 \/ request.max_visited > CellCount(request.map)
  THEN CellCount(request.map) ELSE request.max_visited

ActiveStorage == IF search.request.own THEN local ELSE workspace

Leaves(ws) ==
  IF search.request.own THEN local' = ws /\ UNCHANGED workspace
  ELSE workspace' = ws /\ UNCHANGED local

\* A search that ends gives up the nodes that were its own.
SearchEnds(answer, ws) ==
  /\ search' = answer
  /\ local' = Storage(0)
  /\ workspace' = IF search.request.own THEN workspace ELSE ws

\* One round of the loop of path_search.
Expand(ws, request) ==
  LET open    == [nodes |-> ws.nodes, heap |-> search.heap]
      current == Head(search.heap)
      popped  == Pop(open)
      relaxed == RelaxFrom([nodes |-> popped.nodes, heap |-> popped.heap, status |-> "ok"],
                           request, ws.epoch, current, 1)
  IN IF search.heap = <<>> THEN SearchEnds(Answer(request, "not_found", 0, <<>>), ws)
     ELSE IF search.visited >= VisitLimit(request)
     THEN SearchEnds(Answer(request, "limit", 0, <<>>), ws)
     ELSE IF current = PointIndex(request.map, request.goal)
     THEN SearchEnds(Written(request, popped.nodes,
                       IF request.own THEN request.points ELSE ws.capacity),
               [ws EXCEPT !.nodes = popped.nodes])
     ELSE IF relaxed.status # "ok"
     THEN SearchEnds(Answer(request, relaxed.status, 0, <<>>), [ws EXCEPT !.nodes = relaxed.nodes])
     ELSE /\ search' = [search EXCEPT !.heap = relaxed.heap, !.visited = @ + 1]
          /\ Leaves([ws EXCEPT !.nodes = relaxed.nodes])

SearchStep == ~Idle /\ Expand(ActiveStorage, search.request)

SearchNext ==
  \/ \E cells \in Reservations : Reserve(cells)
  \/ \E request \in PathRequests : SearchWith(request) \/ SearchAlone(request)
  \/ SearchStep

-----------------------------------------------------------------------------
(* What a path is, said without the search: steps between open cells, with   *)
(* the costs of a step, and the least cost to every cell.                    *)
Walkable(request, p) ==
  Contains(request.map, p) /\ ~Matches(request.map, request.layer, p, request.test)

StepCost(p, q) == IF p[1] # q[1] /\ p[2] # q[2] THEN 14 ELSE 10

IsStep(request, p, q) ==
  /\ Walkable(request, p) /\ Walkable(request, q) /\ p # q
  /\ Absolute(p[1] - q[1]) <= 1 /\ Absolute(p[2] - q[2]) <= 1
  /\ p[1] # q[1] /\ p[2] # q[2] =>
       /\ request.diagonal
       /\ request.no_corners => Walkable(request, <<q[1], p[2]>>) /\ Walkable(request, <<p[1], q[2]>>)


LeastOf(costs) == CHOOSE c \in costs : \A d \in costs : c <= d

RECURSIVE Costs(_, _)
Costs(request, known) ==
  LET better == [p \in Points(request.map) |->
                   LeastOf({known[p]} \cup {known[q] + StepCost(q, p) :
                             q \in {r \in Points(request.map) : IsStep(request, r, p)}})]
  IN IF better = known THEN known ELSE Costs(request, better)

LeastCost(request) ==
  Costs(request, [p \in Points(request.map) |->
          IF p = request.start /\ Walkable(request, p) THEN 0 ELSE CostLimit])[request.goal]

RECURSIVE PathCost(_)
PathCost(path) ==
  IF Len(path) = 1 THEN 0 ELSE StepCost(path[1], path[2]) + PathCost(Tail(path))

(* The answer of a search is right, whatever maps and requests its workspace *)
(* served before: a path leads from start to goal over open cells and no     *)
(* path costs less; no path is denied that exists; a length that is reported *)
(* is that of the path; the errors of a broken search never come; and a      *)
(* limit is only answered by a search that was given one.  An epoch that     *)
(* comes round, a stale node or a wrong heuristic would go unnoticed.        *)
PathIsShortest ==
  (search.phase = "done" /\ search.request.unknown_flags = FALSE) =>
    LET request == search.request
        onMap == \A p \in {request.start, request.goal} :
                   PointStatus(request.map, request.layer, p) = "ok"
    IN /\ search.status \in {"ok", "not_found", "limit", "memory"}
       /\ search.status = "ok" =>
            /\ Len(search.path) = search.length
            /\ Head(search.path) = request.start
            /\ search.path[search.length] = request.goal
            /\ \A i \in 1..search.length - 1 :
                 IsStep(request, search.path[i], search.path[i + 1])
            /\ PathCost(search.path) = LeastCost(request)
       /\ search.status = "not_found" => ~onMap \/ LeastCost(request) = CostLimit
       /\ search.status = "limit" =>
            \/ ~request.own /\ workspace.capacity < CellCount(request.map)
            \/ request.max_visited \in 1..CellCount(request.map) - 1
            \/ request.own /\ request.points < search.length
       /\ search.status = "limit" /\ search.length > 0 => LeastCost(request) < CostLimit

(* The heap is a heap after every round, it holds the open nodes of this     *)
(* search and no other node, each once and each knowing where it sits, and   *)
(* a node's score is its cost and its heuristic: a node whose cost falls is  *)
(* moved from the place it says it has.                                      *)
OpenSetIsSound ==
  search.phase = "searching" =>
    LET nodes == ActiveStorage.nodes
        heap  == search.heap
    IN /\ \A p \in 2..Len(heap) : ~Less(nodes, heap[p], heap[p \div 2])
       /\ {heap[p] : p \in 1..Len(heap)}
            = {i \in DOMAIN nodes : nodes[i].epoch = ActiveStorage.epoch /\ nodes[i].state = "open"}
       /\ \A p \in 1..Len(heap) :
            LET node == nodes[heap[p]]
            IN node.position = p /\ node.score = node.cost + node.heuristic

\* A search in a workspace that earlier searches have used finds what a first one would,
\* and its open set is sound at every step of the way.
SearchIsExact == PathIsShortest /\ OpenSetIsSound
=============================================================================
