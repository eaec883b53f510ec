------------------------------ MODULE EcsViews ------------------------------
(***************************************************************************)
(* Views over the entity-component world, src/src/ecs/view.c: an iteration *)
(* over the entities that have every required component type, held by the  *)
(* application while it goes on changing the world.                        *)
(*                                                                         *)
(* rows is what the application received since the last reset, each row an *)
(* entity and the values of its required components in the required order; *)
(* the code keeps no such record.  A call of next that is refused, or that *)
(* finds nothing, changes nothing but the cursor.                          *)
(***************************************************************************)
EXTENDS Ecs

CONSTANTS
  View,             \* the views the application may hold
  Requirements      \* the lists of types it asks for

ASSUME ViewConfiguration == Requirements \subseteq Seq(1 .. MaxTypes)

VARIABLE views      \* the views that exist, each an iteration

viewVars == <<ecsVars, views>>

NoDriver == 0

\* reset_view_iteration: the first of the smallest required stores drives the
\* iteration; with no required type, the slots do.
SmallestStore(required) ==
  IF required = <<>> THEN NoDriver
  ELSE LET count(k) == Len(stores[required[k]].dense)
           first == CHOOSE k \in 1 .. Len(required) :
                      \A j \in 1 .. Len(required) :
                        count(k) < count(j) \/ (count(k) = count(j) /\ k <= j)
       IN  required[first]

Restarted(required) ==
  [required |-> required, driver |-> SmallestStore(required),
   cursor |-> 0, revision |-> revision, rows |-> <<>>]

\* Any list of distinct registered types may be asked for, from a cleanup too,
\* but not while the world is being destroyed.
ViewCreate(v, required) ==
  /\ AppTurn /\ open
  /\ calls # <<>> => Top.op # "dispose"
  /\ v \notin DOMAIN views
  /\ \A k \in 1 .. Len(required) : Registered(required[k])
  /\ \A j, k \in 1 .. Len(required) : required[j] = required[k] => j = k
  /\ views' = [u \in DOMAIN views \cup {v} |->
                 IF u = v THEN Restarted(required) ELSE views[u]]
  /\ UNCHANGED ecsVars

ViewDestroy(v) ==
  /\ AppTurn
  /\ v \in DOMAIN views
  /\ views' = [u \in DOMAIN views \ {v} |-> views[u]]
  /\ UNCHANGED ecsVars

\* Mutant: the cursor is not rewound.
ViewReset_KeepsCursor(v) ==
  /\ AppTurn
  /\ v \in DOMAIN views
  /\ ~cleanup_active
  /\ views' = [views EXCEPT ![v] = [Restarted(@.required) EXCEPT !.cursor = views[v].cursor]]
  /\ UNCHANGED ecsVars

ViewReset(v) ==
  /\ AppTurn
  /\ v \in DOMAIN views
  /\ ~cleanup_active
  /\ views' = [views EXCEPT ![v] = Restarted(@.required)]
  /\ UNCHANGED ecsVars

\* What the cursor runs over, and where.
Length(view) == IF view.driver = NoDriver THEN Len(slots)
                ELSE Len(stores[view.driver].dense)

Candidate(view, n) == IF view.driver = NoDriver THEN HandleOf(n)
                      ELSE stores[view.driver].dense[n]

\* The dense position of the candidate in each required store; the driver is
\* not looked up.
Position(view, n, t) == IF t = view.driver THEN n
                        ELSE Find(stores[t], Candidate(view, n))

Matches(view, n) ==
  IF view.driver = NoDriver THEN slots[n].alive
  ELSE \A k \in 1 .. Len(view.required) : Position(view, n, view.required[k]) # 0

Row(view, n) ==
  [entity |-> Candidate(view, n),
   values |-> [k \in 1 .. Len(view.required) |->
                 stores[view.required[k]].data[Position(view, n, view.required[k])]]]

\* Mutant: a view is read in the middle of an operation.
Current_InCleanup(view) == view.revision = revision

Current(view) == ~cleanup_active /\ view.revision = revision

\* aforc_ecs_view_next that finds an entity.
ViewNext(v) ==
  LET view  == views[v]
      ahead == {n \in view.cursor + 1 .. Length(view) : Matches(view, n)}
      found == CHOOSE n \in ahead : \A m \in ahead : n <= m
  IN  /\ AppTurn
      /\ v \in DOMAIN views
      /\ Current(view)
      /\ ahead # {}
      /\ views' = [views EXCEPT ![v] = [view EXCEPT !.cursor = found,
                                                    !.rows = Append(view.rows, Row(view, found))]]
      /\ UNCHANGED ecsVars

\* aforc_ecs_view_next that reaches the end.
ViewExhausted(v) ==
  LET view == views[v]
  IN  /\ AppTurn
      /\ v \in DOMAIN views
      /\ Current(view)
      /\ view.cursor < Length(view)
      /\ \A n \in view.cursor + 1 .. Length(view) : ~Matches(view, n)
      /\ views' = [views EXCEPT ![v].cursor = Length(view)]
      /\ UNCHANGED ecsVars

-----------------------------------------------------------------------------
ViewsInit == Init /\ views = <<>>

\* ecs.h: "Destroy it before its ECS."
DestroyUnviewed == DestroyWorld /\ views = <<>>

ViewStep ==
  \E v \in View :
    \/ \E required \in Requirements : ViewCreate(v, required)
    \/ ViewDestroy(v)
    \/ ViewReset(v)
    \/ ViewNext(v)
    \/ ViewExhausted(v)

WorldStep == /\ Application \/ DestroyUnviewed \/ Operation \/ CleanupReturns
             /\ UNCHANGED views

ViewsNext == WorldStep \/ ViewStep

ViewsSpec == ViewsInit /\ [][ViewsNext]_viewVars

-----------------------------------------------------------------------------
(* Correctness *)

\* The entities that have every required component, told by the components
\* themselves and not through a driver.
Matching(required) ==
  {e \in Live : \A k \in 1 .. Len(required) : e \in Members(stores[required[k]])}

Valued(e, required) == [k \in 1 .. Len(required) |-> ValueOf(<<e, required[k]>>)]

Seen(view) == {view.rows[n].entity : n \in 1 .. Len(view.rows)}

\* Whatever the application did to the world since the last call, a row that
\* next hands out is a matching entity it has not handed out since the reset,
\* with that entity's own values, and never one in the middle of an operation
\* that is taking components away.
RowsAreOfNow ==
  [][\A v \in DOMAIN views \cap DOMAIN views' :
       LET old == views[v] new == views'[v]
       IN  Len(new.rows) > Len(old.rows) =>
             LET row == new.rows[Len(new.rows)]
             IN  /\ calls = <<>>
                 /\ row.entity \in Matching(new.required) \ Seen(old)
                 /\ row.values = Valued(row.entity, new.required)]_viewVars

\* A view that was never refused has handed out every matching entity when it
\* reaches the end, whichever store drives it.
NothingIsSkipped ==
  \A v \in DOMAIN views :
    LET view == views[v]
    IN  calls = <<>> /\ view.revision = revision /\ view.cursor = Length(view) =>
          Seen(view) = Matching(view.required)
=============================================================================
