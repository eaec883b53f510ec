--------------------------------- MODULE Ecs ---------------------------------
(***************************************************************************)
(* The entity-component world of src/src/ecs: entity slots with            *)
(* generations and a free list, one sparse set per component type, and the *)
(* revision that dates every structural change.                            *)
(*                                                                         *)
(* The world is driven by one thread, but removing a component calls the   *)
(* application's cleanup callback in the middle of the operation, and the  *)
(* application may call any operation from there.  calls is the stack of   *)
(* operations in progress; the application moves when it is empty or when  *)
(* its top waits for a cleanup to return.  Between two callbacks an        *)
(* operation runs undisturbed, one store or one component at a step.       *)
(*                                                                         *)
(* Entity indices and component types are counted from 1, and 0 stands for *)
(* the invalid index.  An operation that is refused changes nothing and    *)
(* is not an action; so is one whose first allocation fails.               *)
(***************************************************************************)
EXTENDS Naturals, Sequences, FiniteSets, SparseSet

CONSTANTS
  MaxEntities,      \* config max_entities
  MaxTypes,         \* config max_component_types
  MaxGeneration,    \* UINT32_MAX, the generation that retires a slot
  MaxRevision,      \* UINT64_MAX, the revision nothing may change after
  InitialSlots,     \* config initial_entity_capacity
  InitialDense,     \* config initial_component_capacity
  InitialStores,    \* config initial_component_type_capacity
  Reservations,     \* the capacities the application asks for
  Values            \* what the bytes of a component may be

ASSUME EcsConfiguration ==
  /\ MaxEntities \in Nat \ {0} /\ MaxTypes \in Nat \ {0}
  /\ MaxGeneration \in Nat \ {0, 1} /\ MaxRevision \in Nat \ {0}
  /\ InitialSlots \in 0 .. MaxEntities
  /\ InitialDense \in 0 .. MaxEntities
  /\ InitialStores \in 0 .. MaxTypes
  /\ Reservations \subseteq Nat

VARIABLES
  open,             \* the world exists
  slots, slot_capacity, active_count, free_head,
  stores, store_capacity,
  revision,
  cleanup_active,
  calls             \* the operations in progress, the innermost last

entityVars == <<slots, slot_capacity, active_count, free_head>>
storeVars  == <<stores, store_capacity>>
ecsVars    == <<open, entityVars, storeVars, revision, cleanup_active, calls>>

Entity == [index : 1 .. MaxEntities, generation : 1 .. MaxGeneration]

\* AFORC_ENTITY_INVALID
NoEntity == [index |-> 0, generation |-> 0]

-----------------------------------------------------------------------------
(* Calls *)

\* store walks up to last; index is the component whose cleanup runs.
Call(op, entity, first, last) ==
  [op |-> op, entity |-> entity, store |-> first, last |-> last,
   at |-> "walk", index |-> 0]

Top        == calls[Len(calls)]
SetTop(c)  == calls' = [calls EXCEPT ![Len(calls)] = c]
Begin(c)   == calls' = Append(calls, c)
Return     == calls' = SubSeq(calls, 1, Len(calls) - 1)

AppTurn == \/ calls = <<>>
           \/ calls # <<>> /\ Top.at = "cleanup"

RequireMutable_AnyTime == open   \* mutant: allowed from a cleanup
RequireMutable  == open /\ ~cleanup_active
RequireRevision == revision # MaxRevision
CommitRevision  == revision' = revision + 1

Mutation == AppTurn /\ RequireMutable

ValidateEntity(e) ==
  /\ e.index \in 1 .. Len(slots)
  /\ slots[e.index].alive
  /\ slots[e.index].generation = e.generation

Registered(t) == t \in 1 .. Len(stores)

-----------------------------------------------------------------------------
(* Slots *)

\* A slot whose generation reaches the maximum is never used again.
Recycled(slot) ==
  [slot EXCEPT !.alive = FALSE,
               !.generation = IF slot.alive /\ @ # MaxGeneration
                              THEN @ + 1 ELSE @]

\* Mutant: no slot is ever retired.
Reusable_Ever(slot) == slot.generation <= MaxGeneration

Reusable(slot) == slot.generation # MaxGeneration

\* aforc_ecs_recycle_or_retire_slot on one slot.
RecycleOrRetireSlot(i) ==
  LET slot == Recycled(slots[i])
  IN  IF Reusable(slot)
      THEN /\ slots' = [slots EXCEPT ![i] = [slot EXCEPT !.next_free = free_head]]
           /\ free_head' = i
      ELSE /\ slots' = [slots EXCEPT ![i] = [slot EXCEPT !.next_free = 0]]
           /\ UNCHANGED free_head

\* The same for every slot, the last first, on an emptied free list: each
\* reusable slot is linked to the next reusable one above it.
RecycleEverySlot ==
  LET usable  == {i \in 1 .. Len(slots) : Reusable(Recycled(slots[i]))}
      Next(i) == IF \E j \in usable : j > i
                 THEN CHOOSE j \in usable :
                        j > i /\ \A k \in usable : k > i => j <= k
                 ELSE 0
  IN  /\ slots' = [i \in 1 .. Len(slots) |->
                     [Recycled(slots[i]) EXCEPT
                        !.next_free = IF i \in usable THEN Next(i) ELSE 0]]
      /\ free_head' = Next(0)

-----------------------------------------------------------------------------
(* Operations of the application *)

Init ==
  /\ open = FALSE
  /\ slots = <<>> /\ slot_capacity = 0 /\ active_count = 0 /\ free_head = 0
  /\ stores = <<>> /\ store_capacity = 0
  /\ revision = 0
  /\ cleanup_active = FALSE
  /\ calls = <<>>

\* aforc_ecs_create
CreateWorld ==
  /\ AppTurn /\ ~open
  /\ open' = TRUE
  /\ slots' = <<>> /\ active_count' = 0 /\ free_head' = 0
  /\ slot_capacity' = ChooseCapacity(0, InitialSlots, MaxEntities)
  /\ stores' = <<>>
  /\ store_capacity' = ChooseCapacity(0, InitialStores, MaxTypes)
  /\ revision' = 1
  /\ cleanup_active' = FALSE
  /\ UNCHANGED calls

\* Registration may fail after the table of stores has grown, when the first
\* reservation of the new store cannot be had; no revision is committed then.
RegisterComponent(cleanup, reservation) ==
  LET initial == IF reservation = 0 THEN InitialDense ELSE reservation
      grown   == ChooseCapacity(store_capacity, Len(stores) + 1, MaxTypes)
      store   == EmptyStore(cleanup, ChooseCapacity(0, initial, MaxEntities))
  IN  /\ Mutation
      /\ initial <= MaxEntities
      /\ Len(stores) < MaxTypes
      /\ RequireRevision
      /\ store_capacity' = grown
      /\ \/ stores' = Append(stores, store) /\ CommitRevision
         \/ initial # 0 /\ UNCHANGED <<stores, revision>>
      /\ UNCHANGED <<open, entityVars, cleanup_active, calls>>

ReserveEntities(capacity) ==
  /\ Mutation
  /\ capacity <= MaxEntities
  /\ capacity > slot_capacity
  /\ RequireRevision
  /\ slot_capacity' = ChooseCapacity(slot_capacity, capacity, MaxEntities)
  /\ CommitRevision
  /\ UNCHANGED <<open, slots, active_count, free_head, storeVars,
                 cleanup_active, calls>>

\* Mutant: the components move and the revision stays.
ReserveComponent_Undated(t, capacity) ==
  /\ Mutation
  /\ Registered(t)
  /\ capacity <= MaxEntities
  /\ capacity > stores[t].capacity
  /\ stores' = [stores EXCEPT ![t] = ReserveDense(@, capacity, MaxEntities)]
  /\ UNCHANGED <<open, entityVars, store_capacity, revision, cleanup_active, calls>>

ReserveComponent(t, capacity) ==
  /\ Mutation
  /\ Registered(t)
  /\ capacity <= MaxEntities
  /\ capacity > stores[t].capacity
  /\ RequireRevision
  /\ stores' = [stores EXCEPT ![t] = ReserveDense(@, capacity, MaxEntities)]
  /\ CommitRevision
  /\ UNCHANGED <<open, entityVars, store_capacity, cleanup_active, calls>>

\* aforc_ecs_create_entity, from the free list or with a new slot.
ReuseSlot ==
  /\ Mutation
  /\ RequireRevision
  /\ free_head # 0
  /\ slots' = [slots EXCEPT ![free_head].alive = TRUE,
                            ![free_head].next_free = 0]
  /\ free_head' = slots[free_head].next_free
  /\ active_count' = active_count + 1
  /\ CommitRevision
  /\ UNCHANGED <<open, slot_capacity, storeVars, cleanup_active, calls>>

NewSlot ==
  /\ Mutation
  /\ RequireRevision
  /\ free_head = 0
  /\ Len(slots) < MaxEntities
  /\ slot_capacity' = ChooseCapacity(slot_capacity, Len(slots) + 1, MaxEntities)
  /\ slots' = Append(slots, [generation |-> 1, next_free |-> 0, alive |-> TRUE])
  /\ active_count' = active_count + 1
  /\ CommitRevision
  /\ UNCHANGED <<open, free_head, storeVars, cleanup_active, calls>>

\* aforc_ecs_add.  The sparse cells may have grown when a later allocation
\* (of the staged value or of the dense arrays) fails; nothing else changed.
Add(e, t, value) ==
  LET prepared == ReserveSparse(stores[t], e.index, MaxEntities)
      ready    == ReserveDense(prepared, Len(prepared.dense) + 1, MaxEntities)
  IN  /\ Mutation
      /\ ValidateEntity(e)
      /\ Registered(t)
      /\ Find(stores[t], e) = 0
      /\ RequireRevision
      /\ \/ /\ stores' = [stores EXCEPT ![t] = Inserted(ready, e, value)]
            /\ CommitRevision
         \/ /\ Len(prepared.dense) + 1 > prepared.capacity
            /\ stores' = [stores EXCEPT ![t] = prepared]
            /\ UNCHANGED revision
      /\ UNCHANGED <<open, entityVars, store_capacity, cleanup_active, calls>>

Remove(e, t) ==
  /\ Mutation
  /\ ValidateEntity(e)
  /\ Registered(t)
  /\ Find(stores[t], e) # 0
  /\ RequireRevision
  /\ Begin(Call("remove", e, t, t))
  /\ UNCHANGED <<open, entityVars, storeVars, revision, cleanup_active>>

DestroyEntity(e) ==
  /\ Mutation
  /\ ValidateEntity(e)
  /\ RequireRevision
  /\ Begin(Call("destroy", e, 1, Len(stores)))
  /\ UNCHANGED <<open, entityVars, storeVars, revision, cleanup_active>>

Clear ==
  /\ Mutation
  /\ active_count # 0
  /\ RequireRevision
  /\ Begin(Call("clear", NoEntity, 1, Len(stores)))
  /\ UNCHANGED <<open, entityVars, storeVars, revision, cleanup_active>>

\* aforc_ecs_destroy
DestroyWorld ==
  /\ Mutation
  /\ Begin(Call("dispose", NoEntity, 1, Len(stores)))
  /\ UNCHANGED <<open, entityVars, storeVars, revision, cleanup_active>>

-----------------------------------------------------------------------------
(* Operations in progress *)

\* remove and destroy take the component of one entity; clear and dispose
\* take the last component of the store until it is empty.
Victim(c) ==
  IF c.op \in {"remove", "destroy"} THEN Find(stores[c.store], c.entity)
                                    ELSE Len(stores[c.store].dense)

Advance(c) == IF c.op \in {"remove", "destroy"}
              THEN [c EXCEPT !.store = @ + 1] ELSE c

Walking == calls # <<>> /\ Top.at = "walk" /\ Top.store <= Top.last
Walked(op) == /\ calls # <<>> /\ Top.op = op
              /\ Top.at = "walk" /\ Top.store > Top.last

SkipStore ==
  /\ Walking
  /\ Victim(Top) = 0
  /\ SetTop([Top EXCEPT !.store = @ + 1])
  /\ UNCHANGED <<open, entityVars, storeVars, revision, cleanup_active>>

\* A component with no cleanup is erased at once.
EraseSilently ==
  /\ Walking
  /\ Victim(Top) # 0 /\ ~stores[Top.store].cleanup
  /\ stores' = [stores EXCEPT ![Top.store] = Erased(@, Victim(Top))]
  /\ SetTop(Advance(Top))
  /\ UNCHANGED <<open, entityVars, store_capacity, revision, cleanup_active>>

\* invoke_cleanup calls the application.
BeginCleanup ==
  /\ Walking
  /\ Victim(Top) # 0 /\ stores[Top.store].cleanup
  /\ cleanup_active' = TRUE
  /\ SetTop([Top EXCEPT !.at = "cleanup", !.index = Victim(Top)])
  /\ UNCHANGED <<open, entityVars, storeVars, revision>>

\* The application returns, and the component is erased.
CleanupReturns ==
  /\ calls # <<>> /\ Top.at = "cleanup"
  /\ cleanup_active' = FALSE
  /\ stores' = [stores EXCEPT ![Top.store] = Erased(@, Top.index)]
  /\ SetTop(Advance([Top EXCEPT !.at = "walk", !.index = 0]))
  /\ UNCHANGED <<open, entityVars, store_capacity, revision>>

RemoveReturns ==
  /\ Walked("remove")
  /\ CommitRevision
  /\ Return
  /\ UNCHANGED <<open, entityVars, storeVars, cleanup_active>>

DestroyReturns ==
  /\ Walked("destroy")
  /\ RecycleOrRetireSlot(Top.entity.index)
  /\ active_count' = active_count - 1
  /\ CommitRevision
  /\ Return
  /\ UNCHANGED <<open, slot_capacity, storeVars, cleanup_active>>

ClearReturns ==
  /\ Walked("clear")
  /\ RecycleEverySlot
  /\ active_count' = 0
  /\ CommitRevision
  /\ Return
  /\ UNCHANGED <<open, slot_capacity, storeVars, cleanup_active>>

\* release_ecs_storage, and the world is freed.
DisposeReturns ==
  /\ Walked("dispose")
  /\ open' = FALSE
  /\ slots' = <<>> /\ slot_capacity' = 0 /\ active_count' = 0 /\ free_head' = 0
  /\ stores' = <<>> /\ store_capacity' = 0
  /\ revision' = 0
  /\ Return
  /\ UNCHANGED cleanup_active

-----------------------------------------------------------------------------
Application ==
  \/ CreateWorld
  \/ \E cleanup \in BOOLEAN, n \in Reservations : RegisterComponent(cleanup, n)
  \/ \E n \in Reservations : ReserveEntities(n)
  \/ \E t \in 1 .. MaxTypes, n \in Reservations : ReserveComponent(t, n)
  \/ ReuseSlot
  \/ NewSlot
  \/ \E e \in Entity, t \in 1 .. MaxTypes, v \in Values : Add(e, t, v)
  \/ \E e \in Entity, t \in 1 .. MaxTypes : Remove(e, t)
  \/ \E e \in Entity : DestroyEntity(e)
  \/ Clear

Operation ==
  \/ SkipStore
  \/ EraseSilently
  \/ BeginCleanup
  \/ RemoveReturns
  \/ DestroyReturns
  \/ ClearReturns
  \/ DisposeReturns

EcsNext == Application \/ DestroyWorld \/ Operation \/ CleanupReturns

Spec == Init /\ [][EcsNext]_ecsVars

-----------------------------------------------------------------------------
(* Correctness *)

HandleOf(i) == [index |-> i, generation |-> slots[i].generation]
Live      == {HandleOf(i) : i \in {j \in 1 .. Len(slots) : slots[j].alive}}

\* Every store is a sparse set of live entities: adding, swap-removal and a
\* growth that failed half way leave each component where a lookup by its
\* entity finds it, and no component outlives its entity.
StoresAreExact ==
  \A t \in 1 .. Len(stores) :
    /\ CellsMatch(stores[t])
    /\ Members(stores[t]) \subseteq Live

\* The slots that may be given out again.
Unused == {i \in 1 .. Len(slots) : ~slots[i].alive /\ Reusable(slots[i])}

\* S holds free_head and what follows each of its slots; 0 ends the list.
Closed(S) == free_head \in S /\ \A i \in S \ {0} : slots[i].next_free \in S

\* The free list, the least closed set, ends, and it holds exactly the dead slots
\* that are not retired; active_count counts the live ones.  A lost slot would lower
\* the number of entities for good, a slot linked twice would be given out twice.
FreeListIsExact ==
  /\ Closed(Unused \cup {0})
  /\ \A S \in SUBSET (Unused \cup {0}) : Closed(S) => S = Unused \cup {0}
  /\ active_count = Cardinality({i \in 1 .. Len(slots) : slots[i].alive})

\* Stores and slots agree after every operation, the refused and the half-done ones
\* included.
TablesAreExact == StoresAreExact /\ FreeListIsExact

\* ecs.h: "The component and entity remain queryable for the duration of the
\* callback", whatever the application calls from the callback, and when the
\* cleanup returns it is still that component which is erased.
CleanupTargetHolds ==
  calls # <<>> /\ Top.at = "cleanup" =>
    LET store == stores[Top.store]
    IN  /\ Top.index \in 1 .. Len(store.dense)
        /\ store.dense[Top.index] \in Live
        /\ Find(store, store.dense[Top.index]) = Top.index
        /\ Top.op \in {"remove", "destroy"} => store.dense[Top.index] = Top.entity

\* No component of a type with a cleanup leaves its store but in the step
\* that follows its own cleanup, and no step erases two components.
ErasedAfterCleanup ==
  \A t \in 1 .. Len(stores) \cap 1 .. Len(stores') :
    LET gone == Members(stores[t]) \ Members(stores'[t])
    IN  gone # {} =>
          /\ Cardinality(gone) = 1
          /\ stores[t].cleanup =>
               /\ calls # <<>> /\ Top.at = "cleanup" /\ Top.store = t
               /\ gone = {stores[t].dense[Top.index]}

\* A cleanup is called once for every component that goes, about a component that is
\* still there, whatever the application does meanwhile.
CleanupIsHonoured == [][ErasedAfterCleanup /\ CleanupTargetHolds']_ecsVars

\* Every structural change that becomes visible to the application, a
\* component or an entity come or gone or a table moved, is dated by a
\* revision that no earlier state had; nothing else is, and the revision
\* never wraps.
ChangesAreDated ==
  [][open /\ open' =>
       /\ revision' \in {revision, revision + 1}
       /\ (calls = <<>> /\ calls' = <<>> /\ revision' = revision) =>
            /\ Live' = Live
            /\ Len(stores') = Len(stores)
            /\ slot_capacity' = slot_capacity
            /\ \A t \in 1 .. Len(stores) :
                 /\ stores'[t].dense = stores[t].dense
                 /\ stores'[t].data = stores[t].data
                 /\ stores'[t].capacity = stores[t].capacity
       /\ (calls # <<>> /\ calls' = <<>>) => revision' = revision + 1]_ecsVars

\* The handles issued so far, read off the generations.
Issued ==
  UNION {{[index |-> i, generation |-> g] :
            g \in {n \in 1 .. MaxGeneration :
                     \/ n < slots[i].generation
                     \/ n = slots[i].generation /\ slots[i].alive}}
         : i \in 1 .. Len(slots)}

AttachedAt(t) == {<<e, t>> : e \in Members(stores[t])}
Attached      == UNION {AttachedAt(t) : t \in 1 .. Len(stores)}
ValueOf(x)    == stores[x[2]].data[Find(stores[x[2]], x[1])]

Promise == INSTANCE EntityStore WITH
  Handle    <- Entity,
  Type      <- 1 .. MaxTypes,
  Value     <- Values,
  issued    <- Issued,
  live      <- Live,
  component <- [x \in Attached |-> ValueOf(x)]

\* The world is an entity store: handles are issued once, a value stays with
\* its entity through every swap-removal, and an entity goes only when it has
\* nothing left.
KeepsPromise == Promise!Spec

=============================================================================
