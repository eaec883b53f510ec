------------------------------ MODULE SparseSet ------------------------------
(***************************************************************************)
(* The component store of src/src/ecs/component_store.c: a sparse set.     *)
(*                                                                         *)
(* dense and data are the packed arrays dense_entities and dense_data, in  *)
(* step with each other; count is their length.  sparse has one cell per   *)
(* entity index below sparse_capacity.  The source stores the dense        *)
(* position plus one in a cell and 0 for none; counted from 1, as a        *)
(* sequence is, the position itself is that number.  The bytes of a        *)
(* component are one value.                                                *)
(***************************************************************************)
EXTENDS Naturals, Sequences

\* aforc_ecs_choose_capacity: what is there when it is enough; otherwise the
\* capacity is doubled until it is, and set to the limit rather than pass it.
ChooseCapacity(current, required, limit) ==
  LET start  == IF current = 0 THEN 1 ELSE current
      enough == {c \in required .. limit :
                   c = limit \/ \E k \in 0 .. limit : c = start * 2^k}
  IN  IF required <= current THEN current
      ELSE CHOOSE c \in enough : \A d \in enough : c <= d

\* What registration builds: an empty store with its first reservation.
EmptyStore(cleanup, capacity) ==
  [dense |-> <<>>, data |-> <<>>, sparse |-> <<>>,
   capacity |-> capacity, cleanup |-> cleanup]

\* aforc_ecs_find_component: the dense position of an entity, 0 when absent.
\* A cell left by another entity of the same index is told by its handle.
Find(store, entity) ==
  IF /\ entity.index <= Len(store.sparse)
     /\ store.sparse[entity.index] \in 1 .. Len(store.dense)
     /\ store.dense[store.sparse[entity.index]] = entity
  THEN store.sparse[entity.index]
  ELSE 0

\* aforc_ecs_reserve_sparse: new cells are zeroed, old ones copied.
ReserveSparse(store, required, limit) ==
  LET capacity == ChooseCapacity(Len(store.sparse), required, limit)
  IN  [store EXCEPT !.sparse =
         [i \in 1 .. capacity |-> IF i <= Len(@) THEN @[i] ELSE 0]]

\* aforc_ecs_reserve_dense.
ReserveDense(store, required, limit) ==
  [store EXCEPT !.capacity = ChooseCapacity(@, required, limit)]

\* The writes of aforc_ecs_add, once the room is there.
Inserted(store, entity, value) ==
  [store EXCEPT !.dense = Append(@, entity),
                !.data = Append(@, value),
                !.sparse[entity.index] = Len(store.dense) + 1]

\* Mutant: the cell of the moved element keeps its old position.
Erased_CellStays(store, i) ==
  LET last == Len(store.dense)
      FillHole(seq) == SubSeq([seq EXCEPT ![i] = seq[last]], 1, last - 1)
  IN  [store EXCEPT !.dense = FillHole(@),
                    !.data = FillHole(@),
                    !.sparse[store.dense[i].index] = 0]

\* erase_component: the last element moves into the hole.
Erased(store, i) ==
  LET last    == Len(store.dense)
      removed == store.dense[i]
      moved   == store.dense[last]
      cell    == store.sparse[removed.index]
      FillHole(seq) == SubSeq([seq EXCEPT ![i] = seq[last]], 1, last - 1)
  IN  [store EXCEPT
         !.dense = FillHole(@),
         !.data = FillHole(@),
         !.sparse = IF i = last
                    THEN [@ EXCEPT ![removed.index] = 0]
                    ELSE [@ EXCEPT ![removed.index] = 0,
                                   ![moved.index] = cell]]

\* The entities that have the component.
Members(store) == {store.dense[i] : i \in 1 .. Len(store.dense)}

\* The cells and the dense array are inverse to each other: every element is
\* found through its cell, and a cell holds 0 or the position of the element
\* with its index.
CellsMatch(store) ==
  /\ Len(store.data) = Len(store.dense)
  /\ \A i \in 1 .. Len(store.dense) :
       /\ store.dense[i].index <= Len(store.sparse)
       /\ store.sparse[store.dense[i].index] = i
  /\ \A x \in 1 .. Len(store.sparse) :
       store.sparse[x] # 0 =>
         /\ store.sparse[x] <= Len(store.dense)
         /\ store.dense[store.sparse[x]].index = x
=============================================================================
