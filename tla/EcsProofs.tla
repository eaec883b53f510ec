------------------------------ MODULE EcsProofs ------------------------------
(***************************************************************************)
(* Theorems about the entity-component world, for any number of entities   *)
(* and component types, any generations, capacities and values: the tables *)
(* agree, cleanups are honoured, changes are dated, the world is an entity *)
(* store, and a view skips nothing.                                        *)
(***************************************************************************)
EXTENDS EcsViews, FiniteSetTheorems, WellFoundedInduction, SequenceTheorems, TLAPS

ComponentStore ==
  [dense : Seq(Entity), data : Seq(Values), sparse : Seq(Nat), capacity : Nat,
   cleanup : BOOLEAN]

-----------------------------------------------------------------------------
(* Numbers *)

SmallerPairs == {p \in Nat \X Nat : p[1] < p[2]}

LEMMA LeastElement ==
  ASSUME NEW T \in SUBSET Nat, T # {}
  PROVE  \E i \in T : \A j \in T : i <= j
<1>1. IsWellFoundedOn(SmallerPairs, Nat)
  BY NatLessThanWellFounded DEF OpToRel, SmallerPairs
<1>2. PICK i \in T : \A j \in T : ~(<<j, i>> \in SmallerPairs)
  BY <1>1, WFMin
<1>3. \A j \in T : ~(j < i)
  BY <1>2 DEF SmallerPairs
<1> QED  BY <1>3

LEMMA GreatestElement ==
  ASSUME NEW n \in Nat, NEW T \in SUBSET (0 .. n), T # {}
  PROVE  \E i \in T : \A j \in T : j <= i
<1> DEFINE below == {n - i : i \in T}
<1>0. \A i \in T : i \in Nat /\ n - i \in Nat
  OBVIOUS
<1>1. PICK k \in below : \A j \in below : k <= j
  <2>1. below \in SUBSET Nat /\ below # {}
    BY <1>0
  <2> HIDE DEF below
  <2> QED  BY <2>1, LeastElement
<1>2. PICK i \in T : k = n - i
  BY <1>1
<1>3. \A j \in T : n - i <= n - j
  BY <1>1, <1>2
<1> QED  BY <1>3

\* A capacity that was chosen is enough, and never less than there was.
LEMMA CapacityIsEnough ==
  ASSUME NEW current \in Nat, NEW required \in Nat, NEW limit \in Nat, required <= limit
  PROVE  LET c == ChooseCapacity(current, required, limit)
         IN  c \in Nat /\ required <= c /\ current <= c
<1> DEFINE start  == IF current = 0 THEN 1 ELSE current
           enough == {c \in required .. limit :
                        c = limit \/ \E k \in 0 .. limit : c = start * 2^k}
           least  == CHOOSE c \in enough : \A d \in enough : c <= d
<1>1. enough \in SUBSET Nat /\ limit \in enough /\ \A c \in enough : c \in Nat /\ required <= c
  OBVIOUS
<1>2. ChooseCapacity(current, required, limit) = IF required <= current THEN current ELSE least
  BY DEF ChooseCapacity
<1> HIDE DEF enough
<1>3. \E c \in enough : \A d \in enough : c <= d
  BY <1>1, LeastElement
<1>4. least \in enough
  BY <1>3
<1>5. least \in Nat /\ required <= least
  BY <1>1, <1>4
<1> HIDE DEF least
<1> QED  BY <1>2, <1>5

-----------------------------------------------------------------------------
(* Sparse sets *)

LEMMA EntityFields ==
  ASSUME NEW e \in Entity
  PROVE  /\ e.index \in 1 .. MaxEntities /\ e.generation \in 1 .. MaxGeneration
         /\ e.index \in Nat /\ e.generation \in Nat /\ 1 <= e.index
         /\ e = [index |-> e.index, generation |-> e.generation]
<1>1. MaxEntities \in Nat /\ MaxGeneration \in Nat
  BY EcsConfiguration
<1> QED  BY <1>1 DEF Entity

LEMMA EntityHasIndex ==
  ASSUME NEW d \in Seq(Entity), NEW k \in 1 .. Len(d)
  PROVE  d[k] \in Entity /\ d[k].index \in Nat /\ 1 <= d[k].index
<1>1. d[k] \in Entity
  OBVIOUS
<1> QED  BY <1>1, EntityFields

\* The entities of a store, found through their cells.
LEMMA FindIsExact ==
  ASSUME NEW s \in ComponentStore, CellsMatch(s), NEW e \in Entity
  PROVE  /\ Find(s, e) \in 0 .. Len(s.dense)
         /\ Find(s, e) # 0 <=> e \in Members(s)
         /\ Find(s, e) # 0 => s.dense[Find(s, e)] = e
         /\ \A i \in 1 .. Len(s.dense) : s.dense[i] = e => Find(s, e) = i
<1>1. /\ s.dense \in Seq(Entity) /\ s.sparse \in Seq(Nat)
      /\ e.index \in Nat \ {0}
  BY EntityFields DEF ComponentStore
<1>2. ASSUME NEW i \in 1 .. Len(s.dense), s.dense[i] = e  PROVE Find(s, e) = i
  <2>1. e.index <= Len(s.sparse) /\ s.sparse[e.index] = i
    BY <1>2, SMTT(60) DEF CellsMatch
  <2> QED  BY <1>2, <2>1 DEF Find
<1>3. Find(s, e) \in 0 .. Len(s.dense) /\ (Find(s, e) # 0 => s.dense[Find(s, e)] = e)
  BY <1>1, SMTT(60) DEF Find
<1> QED  BY <1>1, <1>2, <1>3 DEF Members

LEMMA HoleIsFilled ==
  ASSUME NEW S, NEW seq \in Seq(S), NEW i \in 1 .. Len(seq)
  PROVE  LET f == SubSeq([seq EXCEPT ![i] = seq[Len(seq)]], 1, Len(seq) - 1)
         IN  /\ f \in Seq(S) /\ Len(f) = Len(seq) - 1
             /\ \A k \in 1 .. Len(seq) - 1 : f[k] = IF k = i THEN seq[Len(seq)] ELSE seq[k]
<1> DEFINE g == [seq EXCEPT ![i] = seq[Len(seq)]]
<1>1. /\ g \in Seq(S) /\ Len(g) = Len(seq)
      /\ \A k \in 1 .. Len(seq) : g[k] = IF k = i THEN seq[Len(seq)] ELSE seq[k]
  OBVIOUS
<1>2. Len(seq) \in Nat \ {0}
  OBVIOUS
<1> HIDE DEF g
<1>3. PICK n \in Nat : n = Len(seq) - 1
  BY <1>2
<1>4. SubSeq(g, 1, n) \in Seq(S) /\ Len(SubSeq(g, 1, n)) = n /\ \A k \in 1 .. n : SubSeq(g, 1, n)[k] = g[k]
  BY <1>1, <1>2, <1>3
<1> QED  BY <1>1, <1>2, <1>3, <1>4 DEF g

\* The entities of a packed array and the cells that lead to them.
Elements(d) == {d[k] : k \in 1 .. Len(d)}
CellsLead(d, p) ==
  /\ \A k \in 1 .. Len(d) : d[k].index <= Len(p) /\ p[d[k].index] = k
  /\ \A x \in 1 .. Len(p) : p[x] # 0 => p[x] <= Len(d) /\ d[p[x]].index = x

\* The last element fills the hole, and its cell takes the position over.
Filled(d, i, e) ==
  /\ Len(e) = Len(d) - 1
  /\ \A k \in 1 .. Len(d) - 1 : e[k] = IF k = i THEN d[Len(d)] ELSE d[k]
Redirected(d, p, i, q) ==
  /\ Len(q) = Len(p)
  /\ \A x \in 1 .. Len(p) : q[x] = IF x = d[Len(d)].index /\ i # Len(d) THEN i
                                    ELSE IF x = d[i].index THEN 0 ELSE p[x]

LEMMA SwapRemoval ==
  ASSUME NEW d \in Seq(Entity), NEW p \in Seq(Nat), CellsLead(d, p), NEW i \in 1 .. Len(d),
         NEW e \in Seq(Entity), Filled(d, i, e), NEW q \in Seq(Nat), Redirected(d, p, i, q)
  PROVE  CellsLead(e, q) /\ Elements(e) = Elements(d) \ {d[i]}
<1> USE DEF Filled, Redirected
<1>0. Len(d) \in Nat \ {0} /\ Len(p) \in Nat /\ i \in Nat /\ 1 <= i /\ i <= Len(d)
  OBVIOUS
<1>1. ASSUME NEW k \in 1 .. Len(d)
      PROVE  d[k].index \in 1 .. Len(p) /\ p[d[k].index] = k
  <2>1. d[k] \in Entity
    OBVIOUS
  <2>2. d[k].index \in Nat /\ 1 <= d[k].index
    BY <2>1, EntityFields
  <2>3. d[k].index <= Len(p) /\ p[d[k].index] = k
    BY DEF CellsLead
  <2> QED  BY <1>0, <2>2, <2>3
<1>2. ASSUME NEW x \in 1 .. Len(p), p[x] # 0
      PROVE  p[x] \in 1 .. Len(d) /\ d[p[x]].index = x
  <2>1. p[x] \in Nat
    BY SMTT(60)
  <2>2. p[x] <= Len(d) /\ d[p[x]].index = x
    BY <1>2 DEF CellsLead
  <2> QED  BY <1>0, <1>2, <2>1, <2>2, SMTT(60)
<1>3. ASSUME NEW k \in 1 .. Len(e)
      PROVE  e[k].index <= Len(q) /\ q[e[k].index] = k
  <2>1. k \in Nat /\ 1 <= k /\ k <= Len(d) - 1
    BY <1>0
  <2>2. CASE k = i
    <3>1. e[k] = d[Len(d)] /\ i # Len(d)
      BY <1>0, <2>1, <2>2
    <3>2. d[Len(d)].index \in 1 .. Len(p)
      BY <1>0, <1>1
    <3>3. q[d[Len(d)].index] = i
      BY <3>1, <3>2
    <3> QED  BY <1>0, <2>2, <3>1, <3>2, <3>3, SMTT(60)
  <2>3. CASE k # i
    <3>1. e[k] = d[k] /\ k \in 1 .. Len(d)
      <4>1. k \in 1 .. Len(d) - 1 /\ k \in 1 .. Len(d)
        BY <1>0, <2>1
      <4> QED  BY <2>3, <4>1
    <3>2. d[k].index \in 1 .. Len(p) /\ p[d[k].index] = k
      BY <1>1, <3>1
    <3>3. p[d[Len(d)].index] = Len(d) /\ p[d[i].index] = i
      BY <1>0, <1>1, SMTT(60)
    <3>4. d[k].index # d[Len(d)].index /\ d[k].index # d[i].index
      <4>1. k # Len(d)
        BY <1>0, <2>1
      <4> QED  BY <2>3, <3>2, <3>3, <4>1
    <3>5. q[d[k].index] = k
      BY <3>2, <3>4
    <3> QED  BY <1>0, <3>1, <3>2, <3>5, SMTT(60)
  <2> QED  BY <2>2, <2>3
<1>4. ASSUME NEW x \in 1 .. Len(q), q[x] # 0
      PROVE  q[x] <= Len(e) /\ e[q[x]].index = x
  <2>0. x \in 1 .. Len(p)
    OBVIOUS
  <2>1. CASE x = d[Len(d)].index /\ i # Len(d)
    <3>1. q[x] = i /\ i \in 1 .. Len(d) - 1
      BY <1>0, <2>0, <2>1, SMTT(60)
    <3>2. e[i] = d[Len(d)]
      BY <3>1
    <3> QED  BY <1>0, <2>1, <3>1, <3>2
  <2>2. CASE ~(x = d[Len(d)].index /\ i # Len(d))
    <3>1. q[x] = p[x] /\ p[x] # 0 /\ x # d[i].index
      BY <1>4, <2>0, <2>2
    <3>2. p[x] \in 1 .. Len(d) /\ d[p[x]].index = x /\ p[x] # i
      BY <1>2, <2>0, <3>1
    <3>3. p[x] # Len(d)
      BY <2>2, <3>2
    <3>4. p[x] \in 1 .. Len(d) - 1
      BY <1>0, <3>2, <3>3, SMTT(60)
    <3>5. e[p[x]] = d[p[x]]
      BY <3>2, <3>4
    <3> QED  BY <1>0, <3>1, <3>2, <3>4, <3>5
  <2> QED  BY <2>1, <2>2
<1>5. ASSUME NEW j \in 1 .. Len(d), NEW k \in 1 .. Len(d), d[j] = d[k]
      PROVE  j = k
  <2>1. p[d[j].index] = j /\ p[d[k].index] = k
    BY <1>1
  <2> QED  BY <1>5, <2>1
<1>6. ASSUME NEW k \in 1 .. Len(e)
      PROVE  e[k] \in Elements(d) /\ e[k] # d[i]
  <2>1. PICK j \in 1 .. Len(d) : e[k] = d[j] /\ j # i
    <3>1. k \in 1 .. Len(d) /\ k # Len(d) /\ Len(d) \in 1 .. Len(d) /\ k \in 1 .. Len(d) - 1
      BY <1>0
    <3>2. e[k] = IF k = i THEN d[Len(d)] ELSE d[k]
      BY <3>1
    <3> QED  BY <3>1, <3>2
  <2> QED  BY <1>5, <2>1 DEF Elements
<1>7. ASSUME NEW k \in 1 .. Len(d), k # i
      PROVE  d[k] \in Elements(e)
  <2>1. CASE k = Len(d)
    <3>1. i \in 1 .. Len(e) /\ i \in 1 .. Len(d) - 1
      BY <1>0, <1>7, <2>1
    <3>2. e[i] = d[k]
      BY <2>1, <3>1
    <3> QED  BY <3>1, <3>2 DEF Elements
  <2>2. CASE k # Len(d)
    <3>1. k \in 1 .. Len(e) /\ k \in 1 .. Len(d) - 1
      BY <1>0, <1>7, <2>2, SMTT(60)
    <3>2. e[k] = d[k]
      BY <1>7, <3>1
    <3> QED  BY <3>1, <3>2 DEF Elements
  <2> QED  BY <2>1, <2>2
<1>8. ASSUME NEW y  PROVE y \in Elements(e) <=> y \in Elements(d) \ {d[i]}
  <2>1. ASSUME y \in Elements(e)  PROVE y \in Elements(d) \ {d[i]}
    <3>1. PICK k \in 1 .. Len(e) : y = e[k]
      BY <2>1 DEF Elements
    <3> QED  BY <1>6, <3>1
  <2>2. ASSUME y \in Elements(d) \ {d[i]}  PROVE y \in Elements(e)
    <3>1. PICK k \in 1 .. Len(d) : y = d[k]
      BY <2>2 DEF Elements
    <3> QED  BY <1>7, <2>2, <3>1
  <2> QED  BY <2>1, <2>2
<1>9. Elements(e) = Elements(d) \ {d[i]}
  BY <1>8
<1> QED  BY <1>3, <1>4, <1>9 DEF CellsLead

LEMMA StoreIsInverse ==
  ASSUME NEW s \in ComponentStore
  PROVE  /\ CellsMatch(s) <=> Len(s.data) = Len(s.dense) /\ CellsLead(s.dense, s.sparse)
         /\ Members(s) = Elements(s.dense)
         /\ s.dense \in Seq(Entity) /\ s.data \in Seq(Values) /\ s.sparse \in Seq(Nat)
         /\ s.capacity \in Nat /\ s.cleanup \in BOOLEAN
         /\ s = [dense |-> s.dense, data |-> s.data, sparse |-> s.sparse,
                 capacity |-> s.capacity, cleanup |-> s.cleanup]
BY DEF ComponentStore, CellsMatch, CellsLead, Members, Elements

\* A swap-removal takes one element, moves at most one, and keeps the cells in step.
LEMMA ErasedIsExact ==
  ASSUME NEW s \in ComponentStore, CellsMatch(s), NEW i \in 1 .. Len(s.dense)
  PROVE  LET r == Erased(s, i)
         IN  /\ r \in ComponentStore /\ CellsMatch(r)
             /\ Members(r) = Members(s) \ {s.dense[i]}
             /\ r.cleanup = s.cleanup /\ r.capacity = s.capacity
             /\ Len(r.dense) = Len(s.dense) - 1
             /\ \A k \in 1 .. Len(s.dense) - 1 :
                  /\ r.dense[k] = IF k = i THEN s.dense[Len(s.dense)] ELSE s.dense[k]
                  /\ r.data[k] = IF k = i THEN s.data[Len(s.dense)] ELSE s.data[k]
<1>1. PICK d \in Seq(Entity), v \in Seq(Values), p \in Seq(Nat), c \in Nat, b \in BOOLEAN :
        s = [dense |-> d, data |-> v, sparse |-> p, capacity |-> c, cleanup |-> b]
  BY StoreIsInverse
<1>2. CellsLead(d, p) /\ Len(v) = Len(d) /\ i \in 1 .. Len(d) /\ Len(d) \in Nat \ {0}
  BY <1>1, StoreIsInverse
<1>3. PICK e : e = SubSeq([d EXCEPT ![i] = d[Len(d)]], 1, Len(d) - 1)
  OBVIOUS
<1>4. PICK w : w = SubSeq([v EXCEPT ![i] = v[Len(v)]], 1, Len(v) - 1)
  OBVIOUS
<1>5. PICK q : q = IF i = Len(d) THEN [p EXCEPT ![d[i].index] = 0]
                   ELSE [p EXCEPT ![d[i].index] = 0, ![d[Len(d)].index] = i]
  OBVIOUS
<1>6. d[i].index \in 1 .. Len(p) /\ d[Len(d)].index \in 1 .. Len(p) /\ p[d[i].index] = i
  <2>1. d[i] \in Entity /\ d[Len(d)] \in Entity /\ Len(d) \in 1 .. Len(d)
    BY <1>2
  <2>2. /\ d[i].index \in Nat /\ 1 <= d[i].index
        /\ d[Len(d)].index \in Nat /\ 1 <= d[Len(d)].index
    BY <2>1, EntityFields
  <2>3. d[i].index <= Len(p) /\ d[Len(d)].index <= Len(p) /\ p[d[i].index] = i
    BY <1>2, <2>1 DEF CellsLead
  <2> QED  BY <2>2, <2>3, SMTT(60)
<1>7. /\ e \in Seq(Entity) /\ Len(e) = Len(d) - 1
      /\ \A k \in 1 .. Len(d) - 1 : e[k] = IF k = i THEN d[Len(d)] ELSE d[k]
  BY <1>2, <1>3, HoleIsFilled
<1>8. /\ w \in Seq(Values) /\ Len(w) = Len(d) - 1
      /\ \A k \in 1 .. Len(d) - 1 : w[k] = IF k = i THEN v[Len(d)] ELSE v[k]
  BY <1>2, <1>4, HoleIsFilled, SMTT(60)
<1>9. /\ q \in Seq(Nat) /\ Len(q) = Len(p)
      /\ \A x \in 1 .. Len(p) : q[x] = IF x = d[Len(d)].index /\ i # Len(d) THEN i
                                       ELSE IF x = d[i].index THEN 0 ELSE p[x]
  BY <1>2, <1>5, <1>6, SMTT(60)
<1>10. CellsLead(e, q) /\ Elements(e) = Elements(d) \ {d[i]}
  <2>1. Filled(d, i, e)
    BY <1>7 DEF Filled
  <2>2. Redirected(d, p, i, q)
    BY <1>9 DEF Redirected
  <2> QED  BY <1>2, <1>7, <1>9, <2>1, <2>2, SwapRemoval
<1>11. Erased(s, i) = [dense |-> e, data |-> w, sparse |-> q, capacity |-> c, cleanup |-> b]
  <2>1. e = SubSeq([s.dense EXCEPT ![i] = s.dense[Len(s.dense)]], 1, Len(s.dense) - 1)
    BY <1>1, <1>3
  <2>2. w = SubSeq([s.data EXCEPT ![i] = s.data[Len(s.dense)]], 1, Len(s.dense) - 1)
    BY <1>1, <1>2, <1>4
  <2>3. q = IF i = Len(s.dense)
            THEN [s.sparse EXCEPT ![s.dense[i].index] = 0]
            ELSE [s.sparse EXCEPT ![s.dense[i].index] = 0,
                                  ![s.dense[Len(s.dense)].index] = s.sparse[s.dense[i].index]]
    BY <1>1, <1>5, <1>6
  <2>4. Erased(s, i) = [s EXCEPT !.dense = e, !.data = w, !.sparse = q]
    BY <2>1, <2>2, <2>3 DEF Erased
  <2> QED  BY <1>1, <2>4
<1>12. PICK r : r = Erased(s, i)
  OBVIOUS
<1>13. r \in ComponentStore /\ r.dense = e /\ r.data = w /\ r.sparse = q /\ r.capacity = c /\ r.cleanup = b
  BY <1>7, <1>8, <1>9, <1>11, <1>12 DEF ComponentStore
<1>14. CellsMatch(r) /\ Members(r) = Members(s) \ {s.dense[i]}
  BY <1>1, <1>7, <1>8, <1>10, <1>13, StoreIsInverse
<1> QED  BY <1>1, <1>2, <1>7, <1>8, <1>12, <1>13, <1>14

\* A growth of the cells, and of the packed arrays, keeps what the store holds.
LEMMA SparseIsReserved ==
  ASSUME NEW s \in ComponentStore, CellsMatch(s), NEW n \in 0 .. MaxEntities
  PROVE  LET r == ReserveSparse(s, n, MaxEntities)
         IN  /\ r \in ComponentStore /\ CellsMatch(r) /\ n <= Len(r.sparse)
             /\ r.dense = s.dense /\ r.data = s.data
             /\ r.capacity = s.capacity /\ r.cleanup = s.cleanup
<1>1. PICK d \in Seq(Entity), v \in Seq(Values), p \in Seq(Nat), c \in Nat, b \in BOOLEAN :
        s = [dense |-> d, data |-> v, sparse |-> p, capacity |-> c, cleanup |-> b]
  BY StoreIsInverse
<1>2. CellsLead(d, p) /\ Len(v) = Len(d) /\ Len(p) \in Nat /\ Len(d) \in Nat
  BY <1>1, StoreIsInverse
<1>3. PICK k : k = ChooseCapacity(Len(p), n, MaxEntities)
  OBVIOUS
<1>4. k \in Nat /\ n <= k /\ Len(p) <= k
  BY <1>2, <1>3, CapacityIsEnough, EcsConfiguration
<1>5. PICK q : q = [x \in 1 .. k |-> IF x <= Len(p) THEN p[x] ELSE 0]
  OBVIOUS
<1>6. /\ q \in Seq(Nat) /\ Len(q) = k
      /\ \A x \in 1 .. k : q[x] = IF x <= Len(p) THEN p[x] ELSE 0
  BY <1>2, <1>4, <1>5
<1>7. CellsLead(d, q)
  <2>1. ASSUME NEW i \in 1 .. Len(d)  PROVE d[i].index <= Len(q) /\ q[d[i].index] = i
    <3>1. d[i].index \in Nat /\ 1 <= d[i].index
      BY EntityHasIndex
    <3>2. d[i].index <= Len(p) /\ p[d[i].index] = i
      BY <1>2 DEF CellsLead
    <3> QED  BY <1>2, <1>4, <1>6, <3>1, <3>2, SMTT(60)
  <2>2. ASSUME NEW x \in 1 .. Len(q), q[x] # 0  PROVE q[x] <= Len(d) /\ d[q[x]].index = x
    <3>1. x \in 1 .. Len(p) /\ q[x] = p[x]
      BY <1>2, <1>4, <1>6, <2>2
    <3> QED  BY <1>2, <2>2, <3>1 DEF CellsLead
  <2> QED  BY <2>1, <2>2 DEF CellsLead
<1>8. PICK r : r = ReserveSparse(s, n, MaxEntities)
  OBVIOUS
<1>9. r = [dense |-> d, data |-> v, sparse |-> q, capacity |-> c, cleanup |-> b]
  BY <1>1, <1>3, <1>5, <1>8 DEF ReserveSparse
<1>10. r \in ComponentStore
  BY <1>6, <1>9 DEF ComponentStore
<1>11. /\ r.dense = d /\ r.data = v /\ r.sparse = q /\ r.capacity = c /\ r.cleanup = b
       /\ s.dense = d /\ s.data = v /\ s.capacity = c /\ s.cleanup = b
  BY <1>1, <1>9
<1>12. CellsMatch(r)
  BY <1>2, <1>7, <1>10, <1>11, StoreIsInverse
<1> QED  BY <1>4, <1>6, <1>8, <1>10, <1>11, <1>12

LEMMA DenseIsReserved ==
  ASSUME NEW s \in ComponentStore, CellsMatch(s), NEW n \in 0 .. MaxEntities
  PROVE  LET r == ReserveDense(s, n, MaxEntities)
         IN  /\ r \in ComponentStore /\ CellsMatch(r)
             /\ r.dense = s.dense /\ r.data = s.data /\ r.sparse = s.sparse
             /\ r.cleanup = s.cleanup
<1>1. PICK k : k = ChooseCapacity(s.capacity, n, MaxEntities)
  OBVIOUS
<1>2. k \in Nat
  BY <1>1, StoreIsInverse, CapacityIsEnough, EcsConfiguration
<1>3. PICK r : r = ReserveDense(s, n, MaxEntities)
  OBVIOUS
<1>4. r = [dense |-> s.dense, data |-> s.data, sparse |-> s.sparse, capacity |-> k,
           cleanup |-> s.cleanup]
  BY <1>1, <1>3, StoreIsInverse DEF ReserveDense
<1>5. r \in ComponentStore
  BY <1>2, <1>4, StoreIsInverse DEF ComponentStore
<1>6. /\ r.dense = s.dense /\ r.data = s.data /\ r.sparse = s.sparse
      /\ r.cleanup = s.cleanup
  BY <1>4
<1>7. CellsMatch(r)
  BY <1>5, <1>6, StoreIsInverse
<1> QED  BY <1>3, <1>5, <1>6, <1>7

\* A component goes to the end of the packed arrays, and the cell of its entity leads
\* to it; nothing else moves.  No other component may have an entity of that index.
LEMMA InsertedIsExact ==
  ASSUME NEW s \in ComponentStore, CellsMatch(s), NEW e \in Entity, NEW z \in Values,
         e.index <= Len(s.sparse), \A m \in Members(s) : m.index # e.index
  PROVE  LET r == Inserted(s, e, z)
         IN  /\ r \in ComponentStore /\ CellsMatch(r)
             /\ Members(r) = Members(s) \cup {e}
             /\ r.dense = Append(s.dense, e) /\ r.data = Append(s.data, z)
             /\ r.cleanup = s.cleanup
<1>1. PICK d \in Seq(Entity), v \in Seq(Values), p \in Seq(Nat), c \in Nat, b \in BOOLEAN :
        s = [dense |-> d, data |-> v, sparse |-> p, capacity |-> c, cleanup |-> b]
  BY StoreIsInverse
<1>2. /\ CellsLead(d, p) /\ Len(v) = Len(d) /\ Len(p) \in Nat /\ Len(d) \in Nat
      /\ e.index <= Len(p) /\ Members(s) = Elements(d)
  BY <1>1, StoreIsInverse
<1>3. e.index \in 1 .. Len(p)
  BY <1>2, EntityFields
<1>4. \A k \in 1 .. Len(d) : d[k].index # e.index
  BY <1>2 DEF Elements
<1>5. PICK f : f = Append(d, e)
  OBVIOUS
<1>6. PICK q : q = [p EXCEPT ![e.index] = Len(d) + 1]
  OBVIOUS
<1>7. /\ f \in Seq(Entity) /\ Len(f) = Len(d) + 1
      /\ \A k \in 1 .. Len(d) + 1 : f[k] = IF k = Len(d) + 1 THEN e ELSE d[k]
  BY <1>2, <1>5
<1>8. /\ q \in Seq(Nat) /\ Len(q) = Len(p)
      /\ \A x \in 1 .. Len(p) : q[x] = IF x = e.index THEN Len(d) + 1 ELSE p[x]
  BY <1>2, <1>3, <1>6
<1>9. CellsLead(f, q)
  <2>1. ASSUME NEW k \in 1 .. Len(f)  PROVE f[k].index <= Len(q) /\ q[f[k].index] = k
    <3>1. CASE k = Len(d) + 1
      <4>1. f[k] = e
        BY <1>2, <1>7, <3>1
      <4>2. e.index <= Len(q) /\ q[e.index] = k
        BY <1>3, <1>8, <3>1, SMTT(60)
      <4> QED  BY <4>1, <4>2
    <3>2. CASE k # Len(d) + 1
      <4>1. k \in 1 .. Len(d) /\ f[k] = d[k]
        BY <1>2, <1>7, <3>2
      <4>2. d[k].index \in Nat /\ 1 <= d[k].index
        BY <4>1, EntityHasIndex
      <4>3. d[k].index <= Len(p) /\ p[d[k].index] = k
        BY <1>2, <4>1 DEF CellsLead
      <4>4. d[k].index \in 1 .. Len(p) /\ d[k].index # e.index
        BY <1>2, <1>4, <4>1, <4>2, <4>3
      <4> QED  BY <1>8, <4>1, <4>3, <4>4
    <3> QED  BY <3>1, <3>2
  <2>2. ASSUME NEW x \in 1 .. Len(q), q[x] # 0  PROVE q[x] <= Len(f) /\ f[q[x]].index = x
    <3>1. CASE x = e.index
      <4>1. q[x] = Len(d) + 1 /\ Len(d) + 1 \in 1 .. Len(d) + 1
        BY <1>2, <1>3, <1>8, <3>1, SMTT(60)
      <4> QED  BY <1>2, <1>7, <3>1, <4>1, SMTT(60)
    <3>2. CASE x # e.index
      <4>1. x \in 1 .. Len(p) /\ q[x] = p[x]
        BY <1>8, <3>2
      <4>2. p[x] \in Nat /\ p[x] # 0 /\ p[x] <= Len(d) /\ d[p[x]].index = x
        BY <1>2, <2>2, <4>1 DEF CellsLead
      <4>3. f[p[x]] = d[p[x]]
        BY <1>2, <1>7, <4>2, SMTT(60)
      <4> QED  BY <1>2, <1>7, <4>1, <4>2, <4>3
    <3> QED  BY <3>1, <3>2
  <2> QED  BY <2>1, <2>2 DEF CellsLead
<1>10. Elements(f) = Elements(d) \cup {e}
  <2>1. ASSUME NEW y \in Elements(f)  PROVE y \in Elements(d) \cup {e}
    <3>1. PICK k \in 1 .. Len(d) + 1 : y = f[k]
      BY <1>7 DEF Elements
    <3>2. k = Len(d) + 1 \/ k \in 1 .. Len(d)
      BY <1>2
    <3> QED  BY <1>7, <3>1, <3>2 DEF Elements
  <2>2. ASSUME NEW k \in 1 .. Len(d)  PROVE d[k] \in Elements(f)
    <3>1. k \in 1 .. Len(f) /\ f[k] = d[k]
      BY <1>2, <1>7
    <3> QED  BY <3>1 DEF Elements
  <2>3. e \in Elements(f)
    <3>1. Len(d) + 1 \in 1 .. Len(f) /\ f[Len(d) + 1] = e
      BY <1>2, <1>7
    <3> QED  BY <3>1 DEF Elements
  <2>4. \A y \in Elements(d) : y \in Elements(f)
    BY <2>2 DEF Elements
  <2> QED  BY <2>1, <2>3, <2>4
<1>11. PICK r : r = Inserted(s, e, z)
  OBVIOUS
<1>12. r = [dense |-> f, data |-> Append(v, z), sparse |-> q, capacity |-> c, cleanup |-> b]
  BY <1>1, <1>5, <1>6, <1>11 DEF Inserted
<1>13. Append(v, z) \in Seq(Values) /\ Len(Append(v, z)) = Len(f)
  BY <1>2, <1>7
<1>14. r \in ComponentStore
  BY <1>7, <1>8, <1>12, <1>13 DEF ComponentStore
<1>15. /\ r.dense = f /\ r.data = Append(v, z) /\ r.sparse = q /\ r.cleanup = b
       /\ s.dense = d /\ s.data = v /\ s.cleanup = b
  BY <1>1, <1>12
<1>16. CellsMatch(r) /\ Members(r) = Members(s) \cup {e}
  BY <1>2, <1>9, <1>10, <1>13, <1>14, <1>15, StoreIsInverse
<1> QED  BY <1>5, <1>11, <1>14, <1>15, <1>16

\* No value changes its entity when a component goes or comes.
LEMMA ValueIsInPlace ==
  ASSUME NEW s \in ComponentStore, CellsMatch(s), NEW k \in 1 .. Len(s.dense)
  PROVE  s.dense[k] \in Entity /\ Find(s, s.dense[k]) = k
<1>1. s.dense \in Seq(Entity)
  BY StoreIsInverse
<1>2. s.dense[k] \in Entity
  BY <1>1
<1> QED  BY <1>2, FindIsExact

LEMMA ErasedKeepsValues ==
  ASSUME NEW s \in ComponentStore, CellsMatch(s), NEW i \in 1 .. Len(s.dense)
  PROVE  LET r == Erased(s, i)
         IN  \A m \in Members(r) : r.data[Find(r, m)] = s.data[Find(s, m)]
<1>1. PICK r : r = Erased(s, i)
  OBVIOUS
<1>2. /\ r \in ComponentStore /\ CellsMatch(r) /\ Len(r.dense) = Len(s.dense) - 1
      /\ Len(s.dense) \in Nat /\ i \in Nat /\ i <= Len(s.dense)
  BY <1>1, ErasedIsExact, StoreIsInverse
<1>3. \A k \in 1 .. Len(s.dense) - 1 :
        /\ r.dense[k] = IF k = i THEN s.dense[Len(s.dense)] ELSE s.dense[k]
        /\ r.data[k] = IF k = i THEN s.data[Len(s.dense)] ELSE s.data[k]
  BY <1>1, ErasedIsExact, SMTT(60)
<1>4. ASSUME NEW m \in Members(r)  PROVE r.data[Find(r, m)] = s.data[Find(s, m)]
  <2>1. PICK k \in 1 .. Len(r.dense) : m = r.dense[k]
    BY DEF Members
  <2>2. Find(r, m) = k /\ k \in 1 .. Len(s.dense) - 1
    BY <1>2, <2>1, ValueIsInPlace
  <2>3. PICK j \in 1 .. Len(s.dense) : m = s.dense[j] /\ r.data[k] = s.data[j]
    <3>1. CASE k = i
      BY <1>2, <1>3, <2>1, <2>2, <3>1, SMTT(60)
    <3>2. CASE k # i
      BY <1>2, <1>3, <2>1, <2>2, <3>2
    <3> QED  BY <3>1, <3>2
  <2>4. Find(s, m) = j
    BY <2>3, ValueIsInPlace
  <2> QED  BY <2>2, <2>3, <2>4
<1> QED  BY <1>1, <1>4

LEMMA InsertedKeepsValues ==
  ASSUME NEW s \in ComponentStore, CellsMatch(s), NEW e \in Entity, NEW z \in Values,
         e.index <= Len(s.sparse), \A m \in Members(s) : m.index # e.index
  PROVE  LET r == Inserted(s, e, z)
         IN  /\ \A m \in Members(s) : r.data[Find(r, m)] = s.data[Find(s, m)]
             /\ r.data[Find(r, e)] = z
<1>1. PICK r : r = Inserted(s, e, z)
  OBVIOUS
<1>2. /\ r \in ComponentStore /\ CellsMatch(r)
      /\ r.dense = Append(s.dense, e) /\ r.data = Append(s.data, z)
  BY <1>1, InsertedIsExact
<1>3. s.dense \in Seq(Entity) /\ s.data \in Seq(Values) /\ Len(s.data) = Len(s.dense)
  BY StoreIsInverse
<1>4. PICK n \in Nat : n = Len(s.dense)
  BY <1>3
<1>5. /\ Len(r.dense) = n + 1 /\ r.dense[n + 1] = e /\ r.data[n + 1] = z
      /\ \A k \in 1 .. n : r.dense[k] = s.dense[k] /\ r.data[k] = s.data[k]
  BY <1>2, <1>3, <1>4, SMTT(60)
<1>6. r.data[Find(r, e)] = z
  <2>1. Find(r, e) = n + 1
    BY <1>2, <1>4, <1>5, ValueIsInPlace
  <2> QED  BY <1>5, <2>1
<1>7. ASSUME NEW m \in Members(s)  PROVE r.data[Find(r, m)] = s.data[Find(s, m)]
  <2>1. PICK k \in 1 .. n : m = s.dense[k]
    BY <1>4 DEF Members
  <2>2. Find(s, m) = k
    BY <1>4, <2>1, ValueIsInPlace
  <2>3. k \in 1 .. Len(r.dense) /\ r.dense[k] = m
    BY <1>4, <1>5, <2>1
  <2>4. Find(r, m) = k
    BY <1>2, <2>3, ValueIsInPlace
  <2> QED  BY <1>5, <2>2, <2>4
<1> QED  BY <1>1, <1>6, <1>7

-----------------------------------------------------------------------------
(* The free list *)

\* U holds the slots of a list that starts at h: every slot is the first or follows
\* one other, and the ranks fall along the list.
Ranked(U, next, h, rank) ==
  /\ h \in U \cup {0}
  /\ \A i \in U : next[i] # 0 =>
       next[i] \in U /\ rank[next[i]] < rank[i] /\ next[i] # h
  /\ \A i \in U : i = h \/ \E j \in U : next[j] = i
  /\ \A i, j \in U : next[i] = next[j] /\ next[i] # 0 => i = j

Linked(U, next, h) == \E n \in Nat : \E rank \in [U -> 1 .. n] : Ranked(U, next, h, rank)

\* A list ends, and following it reaches all of its slots.
LEMMA ListIsExact ==
  ASSUME NEW U \in SUBSET (Nat \ {0}), NEW next, NEW h, Linked(U, next, h)
  PROVE  /\ h \in U \cup {0} /\ \A i \in U : next[i] \in U \cup {0}
         /\ \A S \in SUBSET (U \cup {0}) :
              h \in S /\ (\A i \in S \ {0} : next[i] \in S) => S = U \cup {0}
<1>0. PICK n \in Nat : \E rank \in [U -> 1 .. n] : Ranked(U, next, h, rank)
  BY DEF Linked
<1>1. PICK rank \in [U -> 1 .. n] : Ranked(U, next, h, rank)
  BY <1>0
<1>2. h \in U \cup {0} /\ \A i \in U : next[i] \in U \cup {0}
  BY <1>1 DEF Ranked
<1>3. ASSUME NEW S \in SUBSET (U \cup {0}), h \in S, \A i \in S \ {0} : next[i] \in S
      PROVE  S = U \cup {0}
  <2>1. 0 \in S
    <3> SUFFICES ASSUME 0 \notin S  PROVE FALSE
      OBVIOUS
    <3> DEFINE R == {rank[i] : i \in S}
    <3>1. S \subseteq U /\ h \in S
      BY <1>3
    <3>2. R \in SUBSET Nat /\ R # {}
      <4>1. \A i \in S : rank[i] \in 1 .. n
        BY <3>1
      <4>2. 1 .. n \subseteq Nat
        OBVIOUS
      <4> QED  BY <3>1, <4>1, <4>2
    <3>3. PICK k \in R : \A j \in R : k <= j
      <4> HIDE DEF R
      <4> QED  BY <3>2, LeastElement
    <3>4. PICK i \in S : k = rank[i]
      BY <3>3
    <3>5. i \in U /\ i # 0 /\ next[i] \in S /\ next[i] # 0
      BY <1>3, <3>1
    <3>6. rank[next[i]] < rank[i] /\ rank[next[i]] \in R
      BY <1>1, <3>5 DEF Ranked
    <3>7. rank[i] \in 1 .. n /\ rank[next[i]] \in 1 .. n
      BY <3>1, <3>5
    <3> QED  BY <3>3, <3>4, <3>6, <3>7
  <2>2. U \subseteq S
    <3> SUFFICES ASSUME U \ S # {}  PROVE FALSE
      OBVIOUS
    <3> DEFINE R == {rank[i] : i \in U \ S}
    <3>1. R \in SUBSET (0 .. n) /\ R # {}
      <4>1. \A i \in U : rank[i] \in 1 .. n
        OBVIOUS
      <4>2. 1 .. n \subseteq 0 .. n
        OBVIOUS
      <4>3. \A i \in U \ S : rank[i] \in 0 .. n
        BY <4>1, <4>2
      <4>4. \A k \in R : k \in 0 .. n
        BY <4>3
      <4>5. PICK x \in U \ S : TRUE
        OBVIOUS
      <4>6. rank[x] \in R
        OBVIOUS
      <4> HIDE DEF R
      <4> QED  BY <4>4, <4>6
    <3>2. PICK k \in R : \A j \in R : j <= k
      <4> HIDE DEF R
      <4> QED  BY <3>1, GreatestElement
    <3>3. PICK i \in U \ S : k = rank[i]
      BY <3>2
    <3>4. PICK j \in U : next[j] = i
      BY <1>1, <1>3, <3>3 DEF Ranked
    <3>5. i # 0 /\ j # 0
      OBVIOUS
    <3>6. j \notin S
      BY <1>3, <3>3, <3>4, <3>5
    <3>7. rank[i] < rank[j] /\ rank[j] \in R
      BY <1>1, <3>4, <3>5, <3>6 DEF Ranked
    <3>8. rank[i] \in Nat /\ rank[j] \in Nat
      OBVIOUS
    <3> QED  BY <3>2, <3>3, <3>7, <3>8
  <2> QED  BY <2>1, <2>2
<1> QED  BY <1>2, <1>3

\* The list after a slot is put in front of it.
LEMMA Pushed ==
  ASSUME NEW U \in SUBSET (Nat \ {0}), NEW next, NEW h, Linked(U, next, h),
         NEW i \in Nat \ {0}, i \notin U,
         NEW later, later[i] = h, \A x \in U : later[x] = next[x]
  PROVE  Linked(U \cup {i}, later, i)
<1>0. PICK n \in Nat : \E rank \in [U -> 1 .. n] : Ranked(U, next, h, rank)
  BY DEF Linked
<1>1. PICK rank \in [U -> 1 .. n] : Ranked(U, next, h, rank)
  BY <1>0
<1>2. PICK V : V = U \cup {i}
  OBVIOUS
<1>3. PICK above : above = [x \in V |-> IF x = i THEN n + 1 ELSE rank[x]]
  OBVIOUS
<1>4. n + 1 \in Nat /\ above \in [V -> 1 .. n + 1]
  BY <1>2, <1>3
<1>5. /\ above[i] = n + 1
      /\ \A x \in U : above[x] = rank[x] /\ rank[x] \in Nat /\ rank[x] < n + 1 /\ x \in V
  BY <1>2, <1>3
<1>6. /\ h \in U \cup {0}
      /\ \A x \in U : next[x] # 0 =>
           next[x] \in U /\ rank[next[x]] < rank[x] /\ next[x] # h
      /\ \A x \in U : x = h \/ \E j \in U : next[j] = x
      /\ \A x, y \in U : next[x] = next[y] /\ next[x] # 0 => x = y
  BY <1>1 DEF Ranked
<1>7. i \in V /\ h # i
  BY <1>2, <1>6
<1>8. ASSUME NEW x \in V, later[x] # 0
      PROVE  later[x] \in V /\ above[later[x]] < above[x] /\ later[x] # i
  <2>1. CASE x = i
    <3>1. later[x] = h /\ h \in U
      BY <1>6, <1>8, <2>1
    <3> QED  BY <1>5, <1>7, <2>1, <3>1
  <2>2. CASE x # i
    <3>1. x \in U /\ later[x] = next[x] /\ next[x] \in U /\ rank[next[x]] < rank[x]
      BY <1>2, <1>6, <1>8, <2>2
    <3>2. above[next[x]] = rank[next[x]] /\ above[x] = rank[x]
      BY <1>5, <3>1
    <3>3. next[x] \in V /\ next[x] # i
      BY <1>2, <3>1
    <3> QED  BY <3>1, <3>2, <3>3
  <2> QED  BY <2>1, <2>2
<1>9. ASSUME NEW x \in V, x # i  PROVE \E j \in V : later[j] = x
  <2>1. x \in U
    BY <1>2, <1>9
  <2>2. CASE x = h
    BY <1>7, <2>2
  <2>3. CASE x # h
    <3>1. PICK j \in U : next[j] = x
      BY <1>6, <2>1, <2>3
    <3> QED  BY <1>5, <3>1
  <2> QED  BY <2>2, <2>3
<1>10. ASSUME NEW x \in V, NEW y \in V, later[x] = later[y], later[x] # 0  PROVE x = y
  <2>1. \A z \in U : later[z] # 0 => later[z] # h
    BY <1>6
  <2>2. CASE x = i \/ y = i
    BY <1>2, <1>10, <2>1, <2>2
  <2>3. CASE x # i /\ y # i
    BY <1>2, <1>6, <1>10, <2>3
  <2> QED  BY <2>2, <2>3
<1>11. Ranked(V, later, i, above)
  BY <1>7, <1>8, <1>9, <1>10 DEF Ranked
<1>12. Linked(V, later, i)
  BY <1>4, <1>11, Zenon DEF Linked
<1> QED  BY <1>2, <1>12

\* The list after its first slot is taken.
LEMMA Popped ==
  ASSUME NEW U \in SUBSET (Nat \ {0}), NEW next, NEW h, Linked(U, next, h), h # 0,
         NEW later, \A x \in U \ {h} : later[x] = next[x]
  PROVE  h \in U /\ Linked(U \ {h}, later, next[h])
<1>0. PICK n \in Nat : \E rank \in [U -> 1 .. n] : Ranked(U, next, h, rank)
  BY DEF Linked
<1>1. PICK rank \in [U -> 1 .. n] : Ranked(U, next, h, rank)
  BY <1>0
<1>2. PICK V : V = U \ {h}
  OBVIOUS
<1>3. PICK part : part = [x \in V |-> rank[x]]
  OBVIOUS
<1>4. part \in [V -> 1 .. n] /\ \A x \in V : part[x] = rank[x] /\ later[x] = next[x]
  BY <1>2, <1>3
<1>5. /\ h \in U
      /\ \A x \in U : next[x] # 0 =>
           next[x] \in U /\ rank[next[x]] < rank[x] /\ next[x] # h
      /\ \A x \in U : x = h \/ \E j \in U : next[j] = x
      /\ \A x, y \in U : next[x] = next[y] /\ next[x] # 0 => x = y
  BY <1>1 DEF Ranked
<1>6. next[h] \in V \cup {0}
  BY <1>2, <1>5
<1>7. ASSUME NEW x \in V, later[x] # 0
      PROVE  later[x] \in V /\ part[later[x]] < part[x] /\ later[x] # next[h]
  <2>1. x \in U /\ x # h /\ later[x] = next[x] /\ next[x] # 0
    BY <1>2, <1>4, <1>7
  <2>2. next[x] \in V /\ rank[next[x]] < rank[x]
    BY <1>2, <1>5, <2>1
  <2>3. next[x] # next[h]
    BY <1>5, <2>1
  <2> QED  BY <1>4, <2>1, <2>2, <2>3
<1>8. ASSUME NEW x \in V, x # next[h]  PROVE \E j \in V : later[j] = x
  <2>1. PICK j \in U : next[j] = x
    BY <1>2, <1>5
  <2>2. j \in V
    BY <1>2, <1>8, <2>1
  <2> QED  BY <1>4, <2>1, <2>2
<1>9. ASSUME NEW x \in V, NEW y \in V, later[x] = later[y], later[x] # 0  PROVE x = y
  BY <1>2, <1>4, <1>5, <1>9
<1>10. Ranked(V, later, next[h], part)
  BY <1>6, <1>7, <1>8, <1>9 DEF Ranked
<1>11. Linked(V, later, next[h])
  BY <1>4, <1>10, Zenon DEF Linked
<1> QED  BY <1>2, <1>5, <1>11

\* Slots linked upwards, each to the next one above it and 0 to the first.
NextAbove(U, i, x) == \/ x = 0 /\ \A j \in U : ~(j > i)
                      \/ x \in U /\ x > i /\ \A j \in U : j > i => x <= j

LinksUpwards(U, next, h) ==
  /\ \A i \in U : NextAbove(U, i, next[i])
  /\ NextAbove(U, 0, h)

LEMMA LinkedUpwards ==
  ASSUME NEW n \in Nat, NEW U \in SUBSET (1 .. n), NEW next, NEW h, LinksUpwards(U, next, h)
  PROVE  Linked(U, next, h)
<1>1. PICK rank : rank = [i \in U |-> n + 1 - i]
  OBVIOUS
<1>2. \A i \in U : i \in Nat /\ i > 0 /\ i <= n
  OBVIOUS
<1>3. rank \in [U -> 1 .. n] /\ \A i \in U : rank[i] = n + 1 - i
  BY <1>1, <1>2
<1>4. ASSUME NEW i \in U, next[i] # 0
      PROVE  next[i] \in U /\ next[i] > i /\ \A j \in U : j > i => next[i] <= j
  BY <1>4 DEF LinksUpwards, NextAbove
<1>5. ASSUME NEW i \in U  PROVE h \in U /\ h <= i
  BY <1>2 DEF LinksUpwards, NextAbove
<1>6. ASSUME NEW i \in U, next[i] # 0
      PROVE  next[i] \in U /\ rank[next[i]] < rank[i] /\ next[i] # h
  <2>1. next[i] \in U /\ next[i] > i /\ next[i] \in Nat /\ i \in Nat
    BY <1>2, <1>4, <1>6
  <2>2. h <= i /\ h \in Nat
    BY <1>2, <1>5
  <2>3. rank[i] = n + 1 - i /\ rank[next[i]] = n + 1 - next[i]
    BY <1>3, <2>1
  <2> QED  BY <2>1, <2>2, <2>3
<1>7. ASSUME NEW i \in U, i # h  PROVE \E j \in U : next[j] = i
  <2>1. h \in U /\ h < i
    <3>1. h \in U /\ h <= i /\ h \in Nat /\ i \in Nat
      BY <1>2, <1>5
    <3> QED  BY <1>7, <3>1
  <2> DEFINE T == {j \in U : j < i}
  <2>2. T \in SUBSET (0 .. n) /\ T # {}
    <3>1. h \in T
      BY <2>1
    <3>2. \A j \in U : j \in 0 .. n
      BY <1>2
    <3> QED  BY <3>1, <3>2
  <2>3. PICK j \in T : \A k \in T : k <= j
    <3> HIDE DEF T
    <3> QED  BY <2>2, GreatestElement
  <2>4. j \in U /\ j < i /\ i > j /\ j \in Nat /\ i \in Nat
    BY <1>2, <2>3
  <2>5. next[j] \in U /\ next[j] > j /\ next[j] <= i
    BY <2>4 DEF LinksUpwards, NextAbove
  <2>6. next[j] \in Nat
    BY <1>2, <2>5
  <2>7. ~(next[j] < i)
    <3> SUFFICES ASSUME next[j] < i  PROVE FALSE
      OBVIOUS
    <3>1. next[j] \in T
      BY <2>5
    <3>2. next[j] <= j
      BY <2>3, <3>1
    <3> QED  BY <2>4, <2>5, <2>6, <3>2
  <2>8. next[j] = i
    BY <2>4, <2>5, <2>6, <2>7
  <2> QED  BY <2>4, <2>8
<1>8. ASSUME NEW i \in U, NEW j \in U, next[i] = next[j], next[i] # 0  PROVE i = j
  <2>1. i \in Nat /\ j \in Nat /\ next[i] \in Nat
    BY <1>2, <1>4, <1>8
  <2>2. ~(j > i)
    <3> SUFFICES ASSUME j > i  PROVE FALSE
      OBVIOUS
    <3>1. next[i] <= j
      BY <1>4, <1>8
    <3>2. next[j] > j
      BY <1>4, <1>8
    <3> QED  BY <1>8, <2>1, <3>1, <3>2
  <2>3. ~(i > j)
    <3> SUFFICES ASSUME i > j  PROVE FALSE
      OBVIOUS
    <3>1. next[j] <= i
      BY <1>4, <1>8
    <3>2. next[i] > i
      BY <1>4, <1>8
    <3> QED  BY <1>8, <2>1, <3>1, <3>2
  <2> QED  BY <2>1, <2>2, <2>3
<1>9. h \in U \cup {0}
  BY DEF LinksUpwards, NextAbove
<1>10. Ranked(U, next, h, rank)
  BY <1>6, <1>7, <1>8, <1>9 DEF Ranked
<1> QED  BY <1>3, <1>10, Zenon DEF Linked

-----------------------------------------------------------------------------
(* Slots *)

Slot == [generation : 1 .. MaxGeneration, next_free : Nat, alive : BOOLEAN]

\* What Ecs says of slots, for any slots.
AliveIn(sl)  == {i \in 1 .. Len(sl) : sl[i].alive}
UnusedIn(sl) == {i \in 1 .. Len(sl) : ~sl[i].alive /\ Reusable(sl[i])}
LiveIn(sl)   == {[index |-> i, generation |-> sl[i].generation] : i \in AliveIn(sl)}
IssuedIn(sl) == {e \in Entity :
                   /\ e.index <= Len(sl)
                   /\ \/ e.generation < sl[e.index].generation
                      \/ e.generation = sl[e.index].generation /\ sl[e.index].alive}
NextIn(sl)   == [i \in 1 .. Len(sl) |-> sl[i].next_free]

SlotsOK(sl, h, count) ==
  /\ sl \in Seq(Slot) /\ Len(sl) <= MaxEntities
  /\ \A i \in 1 .. Len(sl) : sl[i].alive => Reusable(sl[i])
  /\ count = Cardinality(AliveIn(sl))
  /\ Linked(UnusedIn(sl), NextIn(sl), h)

LEMMA SlotFields ==
  ASSUME NEW sl \in Seq(Slot), NEW i \in 1 .. Len(sl)
  PROVE  /\ sl[i] \in Slot /\ sl[i].alive \in BOOLEAN /\ sl[i].next_free \in Nat
         /\ sl[i].generation \in Nat /\ 1 <= sl[i].generation
         /\ sl[i].generation <= MaxGeneration /\ MaxGeneration \in Nat
         /\ sl[i] = [generation |-> sl[i].generation, next_free |-> sl[i].next_free,
                     alive |-> sl[i].alive]
         /\ i \in Nat /\ 1 <= i /\ i <= Len(sl) /\ Len(sl) \in Nat
<1>1. sl[i] \in Slot
  OBVIOUS
<1>2. MaxGeneration \in Nat
  BY EcsConfiguration
<1>3. i \in Nat /\ 1 <= i /\ i <= Len(sl) /\ Len(sl) \in Nat
  OBVIOUS
<1> QED  BY <1>1, <1>2, <1>3, SMTT(60) DEF Slot

LEMMA SlotReplaced ==
  ASSUME NEW sl \in Seq(Slot), NEW i \in 1 .. Len(sl), NEW r \in Slot,
         NEW new, new = [sl EXCEPT ![i] = r]
  PROVE  /\ new \in Seq(Slot) /\ Len(new) = Len(sl) /\ new[i] = r
         /\ \A j \in 1 .. Len(sl) : j # i => new[j] = sl[j]
OBVIOUS

LEMMA SlotRevived ==
  ASSUME NEW slot \in Slot, NEW r, r = [[slot EXCEPT !.alive = TRUE] EXCEPT !.next_free = 0]
  PROVE  r \in Slot /\ r.alive /\ r.generation = slot.generation
<1>1. PICK lit : lit = [slot EXCEPT !.alive = TRUE]
  OBVIOUS
<1>2. lit \in Slot /\ lit.alive /\ lit.generation = slot.generation
  BY <1>1 DEF Slot
<1>3. r = [lit EXCEPT !.next_free = 0]
  BY <1>1
<1> QED  BY <1>2, <1>3 DEF Slot

\* A slot as the free list links it.
FreeSlot(slot, f) == [slot EXCEPT !.next_free = f]

LEMMA SlotGivenBack ==
  ASSUME NEW slot \in Slot, NEW f \in Nat, NEW r, r = FreeSlot(Recycled(slot), f)
  PROVE  /\ r \in Slot /\ ~r.alive /\ r.next_free = f /\ r.generation = Recycled(slot).generation
         /\ Recycled(slot).generation
              = IF slot.alive /\ slot.generation # MaxGeneration
                THEN slot.generation + 1 ELSE slot.generation
<1>4. PICK later : later = IF slot.alive /\ slot.generation # MaxGeneration
                           THEN slot.generation + 1 ELSE slot.generation
  OBVIOUS
<1>5. later \in 1 .. MaxGeneration
  <2>1. slot.generation \in 1 .. MaxGeneration
    BY DEF Slot
  <2> QED  BY <1>4, <2>1, EcsConfiguration
<1>6. PICK out : out = [slot EXCEPT !.alive = FALSE, !.generation = later]
  OBVIOUS
<1>7. Recycled(slot) = out
  BY <1>4, <1>6 DEF Recycled
<1>8. out \in Slot /\ ~out.alive /\ out.generation = later
  BY <1>5, <1>6 DEF Slot
<1>9. r = [out EXCEPT !.next_free = f]
  BY <1>7 DEF FreeSlot
<1>10. r \in Slot /\ ~r.alive /\ r.next_free = f /\ r.generation = later
  BY <1>8, <1>9 DEF Slot
<1> QED  BY <1>4, <1>7, <1>8, <1>10

\* The handle of a slot is an entity, and tells its slot and generation.
LEMMA HandleIsEntity ==
  ASSUME NEW sl \in Seq(Slot), Len(sl) <= MaxEntities, NEW i \in 1 .. Len(sl)
  PROVE  LET e == [index |-> i, generation |-> sl[i].generation]
         IN  e \in Entity /\ e.index = i /\ e.generation = sl[i].generation
<1>1. sl[i].generation \in 1 .. MaxGeneration
  <2>1. sl[i] \in Slot
    OBVIOUS
  <2> QED  BY <2>1 DEF Slot
<1>2. i \in 1 .. MaxEntities
  BY EcsConfiguration
<1> QED  BY <1>1, <1>2 DEF Entity

LEMMA LiveIsValid ==
  ASSUME NEW sl \in Seq(Slot), Len(sl) <= MaxEntities, NEW e \in Entity
  PROVE  e \in LiveIn(sl) <=> /\ e.index \in 1 .. Len(sl) /\ sl[e.index].alive
                              /\ sl[e.index].generation = e.generation
<1>1. ASSUME e \in LiveIn(sl)
      PROVE  /\ e.index \in 1 .. Len(sl) /\ sl[e.index].alive
             /\ sl[e.index].generation = e.generation
  <2>1. PICK i \in AliveIn(sl) : e = [index |-> i, generation |-> sl[i].generation]
    BY <1>1 DEF LiveIn
  <2> QED  BY <2>1 DEF AliveIn
<1>2. ASSUME e.index \in 1 .. Len(sl), sl[e.index].alive, sl[e.index].generation = e.generation
      PROVE  e \in LiveIn(sl)
  <2>1. e.index \in AliveIn(sl)
    BY <1>2 DEF AliveIn
  <2>2. e = [index |-> e.index, generation |-> sl[e.index].generation]
    BY <1>2, EntityFields
  <2> QED  BY <2>1, <2>2 DEF LiveIn
<1> QED  BY <1>1, <1>2

LEMMA LiveIsEntity ==
  ASSUME NEW sl \in Seq(Slot), Len(sl) <= MaxEntities
  PROVE  LiveIn(sl) \subseteq Entity
<1>1. ASSUME NEW e \in LiveIn(sl)  PROVE e \in Entity
  <2>1. PICK i \in AliveIn(sl) : e = [index |-> i, generation |-> sl[i].generation]
    BY DEF LiveIn
  <2>2. i \in 1 .. Len(sl)
    BY DEF AliveIn
  <2> QED  BY <2>1, <2>2, HandleIsEntity
<1> QED  BY <1>1

LEMMA IssuedIsExact ==
  ASSUME NEW sl \in Seq(Slot), Len(sl) <= MaxEntities
  PROVE  UNION {{[index |-> i, generation |-> g] :
                   g \in {n \in 1 .. MaxGeneration :
                            \/ n < sl[i].generation
                            \/ n = sl[i].generation /\ sl[i].alive}}
                : i \in 1 .. Len(sl)} = IssuedIn(sl)
<1> DEFINE Of(i) == {[index |-> i, generation |-> g] :
                       g \in {n \in 1 .. MaxGeneration :
                                \/ n < sl[i].generation
                                \/ n = sl[i].generation /\ sl[i].alive}}
           All   == UNION {Of(i) : i \in 1 .. Len(sl)}
<1>1. ASSUME NEW e \in All  PROVE e \in IssuedIn(sl)
  <2>1. PICK i \in 1 .. Len(sl) : e \in Of(i)
    OBVIOUS
  <2>2. PICK g \in 1 .. MaxGeneration :
          /\ e = [index |-> i, generation |-> g]
          /\ g < sl[i].generation \/ (g = sl[i].generation /\ sl[i].alive)
    BY <2>1
  <2>3. i \in 1 .. MaxEntities /\ i <= Len(sl)
    BY EcsConfiguration
  <2>4. e \in Entity /\ e.index = i /\ e.generation = g
    BY <2>2, <2>3 DEF Entity
  <2> QED  BY <2>2, <2>3, <2>4 DEF IssuedIn
<1>2. ASSUME NEW e \in IssuedIn(sl)  PROVE e \in All
  <2>1. /\ e \in Entity /\ e.index <= Len(sl)
        /\ \/ e.generation < sl[e.index].generation
           \/ e.generation = sl[e.index].generation /\ sl[e.index].alive
    BY DEF IssuedIn
  <2>2. e.index \in 1 .. Len(sl) /\ e.generation \in 1 .. MaxGeneration
    BY <2>1, EntityFields
  <2>3. e = [index |-> e.index, generation |-> e.generation]
    BY <2>1, EntityFields
  <2>4. e \in Of(e.index)
    BY <2>1, <2>2, <2>3
  <2> HIDE DEF Of
  <2> QED  BY <2>2, <2>4
<1> QED  BY <1>1, <1>2

\* Of two tables of slots that differ in slot i only, the handles of the other slots
\* are the same.
SameBut(sl, new, i) ==
  /\ Len(sl) <= Len(new) /\ Len(new) <= MaxEntities
  /\ \A j \in 1 .. Len(new) : j # i =>
       j <= Len(sl) /\ new[j].alive = sl[j].alive /\ new[j].generation = sl[j].generation

LEMMA OtherHandlesStay ==
  ASSUME NEW sl \in Seq(Slot), NEW new \in Seq(Slot), NEW i \in 1 .. Len(new),
         SameBut(sl, new, i), NEW x \in Entity, x.index # i
  PROVE  (x \in LiveIn(new) <=> x \in LiveIn(sl)) /\ (x \in IssuedIn(new) <=> x \in IssuedIn(sl))
<1>1. /\ Len(sl) \in Nat /\ Len(new) \in Nat /\ Len(sl) <= Len(new)
      /\ Len(new) <= MaxEntities /\ MaxEntities \in Nat /\ i \in Nat /\ 1 <= i
  BY EcsConfiguration DEF SameBut
<1>2. Len(sl) <= MaxEntities
  BY <1>1
<1>3. PICK k : k = x.index
  OBVIOUS
<1>4. k \in Nat /\ 1 <= k /\ k # i
  BY <1>3, EntityFields
<1>5. CASE k <= Len(sl)
  <2>1. k \in 1 .. Len(sl) /\ k \in 1 .. Len(new)
    BY <1>1, <1>4, <1>5
  <2>2. new[k].alive = sl[k].alive /\ new[k].generation = sl[k].generation
    BY <1>4, <2>1 DEF SameBut
  <2>3. x \in LiveIn(new) <=> x \in LiveIn(sl)
    BY <1>1, <1>2, <1>3, <2>1, <2>2, LiveIsValid
  <2> QED  BY <1>1, <1>3, <1>5, <2>1, <2>2, <2>3 DEF IssuedIn
<1>6. CASE ~(k <= Len(sl))
  <2>1. ~(k <= Len(new))
    <3> SUFFICES ASSUME k <= Len(new)  PROVE FALSE
      OBVIOUS
    <3>1. k \in 1 .. Len(new)
      BY <1>1, <1>4
    <3> QED  BY <1>4, <1>6, <3>1 DEF SameBut
  <2>2. x \notin LiveIn(new) /\ x \notin LiveIn(sl)
    BY <1>1, <1>2, <1>3, <1>6, <2>1, LiveIsValid
  <2> QED  BY <1>3, <1>6, <2>1, <2>2 DEF IssuedIn
<1> QED  BY <1>5, <1>6

LEMMA LinkedIsLocal ==
  ASSUME NEW U, NEW next, NEW h, Linked(U, next, h), NEW later, \A i \in U : later[i] = next[i]
  PROVE  Linked(U, later, h)
<1>0. PICK n \in Nat : \E rank \in [U -> 1 .. n] : Ranked(U, next, h, rank)
  BY DEF Linked
<1>1. PICK rank \in [U -> 1 .. n] : Ranked(U, next, h, rank)
  BY <1>0
<1>2. Ranked(U, later, h, rank)
  BY <1>1 DEF Ranked
<1> QED  BY <1>2, Zenon DEF Linked

LEMMA AliveIsFinite ==
  ASSUME NEW sl \in Seq(Slot)
  PROVE  IsFiniteSet(AliveIn(sl)) /\ Cardinality(AliveIn(sl)) \in Nat
<1>1. IsFiniteSet(1 .. Len(sl))
  BY FS_Interval
<1>2. AliveIn(sl) \in SUBSET (1 .. Len(sl))
  BY DEF AliveIn
<1> QED  BY <1>1, <1>2, FS_Subset, FS_CardinalityType

LEMMA UnusedIsPositive ==
  ASSUME NEW sl \in Seq(Slot)
  PROVE  UnusedIn(sl) \in SUBSET (Nat \ {0}) /\ UnusedIn(sl) \in SUBSET (1 .. Len(sl))
BY DEF UnusedIn

\* A new slot: a handle that was never issued.
LEMMA SlotAppended ==
  ASSUME NEW sl, NEW h, NEW count, SlotsOK(sl, h, count), Len(sl) < MaxEntities,
         NEW new, new = Append(sl, [generation |-> 1, next_free |-> 0, alive |-> TRUE])
  PROVE  /\ SlotsOK(new, h, count + 1)
         /\ \E e \in Entity : /\ e \notin IssuedIn(sl) /\ IssuedIn(new) = IssuedIn(sl) \cup {e}
                              /\ LiveIn(new) = LiveIn(sl) \cup {e}
<1>1. /\ sl \in Seq(Slot) /\ Len(sl) <= MaxEntities
      /\ \A j \in 1 .. Len(sl) : sl[j].alive => Reusable(sl[j])
      /\ count = Cardinality(AliveIn(sl))
      /\ Linked(UnusedIn(sl), NextIn(sl), h)
  BY DEF SlotsOK
<1>2. PICK r : r = [generation |-> 1, next_free |-> 0, alive |-> TRUE]
  OBVIOUS
<1>3. r \in Slot /\ r.generation = 1 /\ r.alive /\ Reusable(r)
  BY <1>2, EcsConfiguration DEF Slot, Reusable
<1>4. PICK n \in Nat : n = Len(sl) /\ n + 1 <= MaxEntities
  BY <1>1, EcsConfiguration
<1>5. /\ new \in Seq(Slot) /\ Len(new) = n + 1 /\ new[n + 1] = r
      /\ \A j \in 1 .. n : new[j] = sl[j]
  BY <1>1, <1>2, <1>3, <1>4
<1>6. \A j \in 1 .. n + 1 : j = n + 1 \/ j \in 1 .. n
  BY <1>4
<1>7. AliveIn(new) = AliveIn(sl) \cup {n + 1} /\ n + 1 \notin AliveIn(sl)
  BY <1>3, <1>4, <1>5, <1>6 DEF AliveIn
<1>8. UnusedIn(new) = UnusedIn(sl)
  BY <1>3, <1>4, <1>5, <1>6 DEF UnusedIn
<1>9. \A j \in UnusedIn(sl) : NextIn(new)[j] = NextIn(sl)[j]
  BY <1>4, <1>5 DEF UnusedIn, NextIn
<1>10. Linked(UnusedIn(new), NextIn(new), h)
  BY <1>1, <1>8, <1>9, LinkedIsLocal
<1>11. count + 1 = Cardinality(AliveIn(new))
  BY <1>1, <1>7, AliveIsFinite, FS_AddElement
<1>12. \A j \in 1 .. Len(new) : new[j].alive => Reusable(new[j])
  BY <1>1, <1>3, <1>4, <1>5, <1>6, ZenonT(60)
<1>13. SlotsOK(new, h, count + 1)
  BY <1>4, <1>5, <1>10, <1>11, <1>12 DEF SlotsOK
<1>14. PICK e : e = [index |-> n + 1, generation |-> 1]
  OBVIOUS
<1>15. e \in Entity /\ e.index = n + 1 /\ e.generation = 1
  BY <1>4, <1>14, EcsConfiguration DEF Entity
<1>16. SameBut(sl, new, n + 1)
  BY <1>4, <1>5, <1>6 DEF SameBut
<1>17. ASSUME NEW x \in Entity, x.index # n + 1
       PROVE  /\ (x \in LiveIn(new) <=> x \in LiveIn(sl))
              /\ (x \in IssuedIn(new) <=> x \in IssuedIn(sl)) /\ x # e
  <2>1. n + 1 \in 1 .. Len(new)
    BY <1>5
  <2>2. x # e
    BY <1>15, <1>17
  <2> QED  BY <1>1, <1>5, <1>16, <1>17, <2>1, <2>2, OtherHandlesStay, ZenonT(60)
<1>18. ASSUME NEW x \in Entity, x.index = n + 1
       PROVE  /\ x \notin LiveIn(sl) /\ x \notin IssuedIn(sl)
              /\ (x \in LiveIn(new) <=> x = e) /\ (x \in IssuedIn(new) <=> x = e)
  <2>1. x \notin LiveIn(sl) /\ x \notin IssuedIn(sl)
    BY <1>1, <1>4, <1>18, LiveIsValid DEF IssuedIn
  <2>2. x.generation \in Nat /\ 1 <= x.generation /\ x = [index |-> x.index, generation |-> x.generation]
    BY EntityFields, EcsConfiguration, SMTT(60)
  <2>3. x = e <=> x.generation = 1
    BY <1>14, <1>18, <2>2
  <2>4. n + 1 \in 1 .. Len(new)
    BY <1>5
  <2>5. x \in LiveIn(new) <=> x.generation = 1
    <3>1. Len(new) <= MaxEntities /\ new \in Seq(Slot)
      BY <1>4, <1>5
    <3>2. x \in LiveIn(new) <=> /\ x.index \in 1 .. Len(new) /\ new[x.index].alive
                                /\ new[x.index].generation = x.generation
      BY <3>1, LiveIsValid
    <3>3. x.index \in 1 .. Len(new) /\ new[x.index] = r
      BY <1>5, <1>18, <2>4
    <3> QED  BY <1>3, <3>2, <3>3
  <2>6. x \in IssuedIn(new) <=> x.generation = 1
    BY <1>3, <1>5, <1>18, <2>2, <2>4 DEF IssuedIn
  <2> QED  BY <2>1, <2>3, <2>5, <2>6
<1>19. LiveIn(new) = LiveIn(sl) \cup {e}
  <2>1. LiveIn(new) \subseteq Entity /\ LiveIn(sl) \subseteq Entity
    BY <1>1, <1>4, <1>5, LiveIsEntity
  <2> QED  BY <1>15, <1>17, <1>18, <2>1
<1>20. IssuedIn(new) = IssuedIn(sl) \cup {e} /\ e \notin IssuedIn(sl)
  <2>1. IssuedIn(new) \subseteq Entity /\ IssuedIn(sl) \subseteq Entity
    BY DEF IssuedIn
  <2> QED  BY <1>15, <1>17, <1>18, <2>1
<1> QED  BY <1>13, <1>15, <1>19, <1>20

\* The first free slot: the next generation's handle, which was never issued.
LEMMA SlotReused ==
  ASSUME NEW sl, NEW h, NEW count, SlotsOK(sl, h, count), h # 0,
         NEW new, new = [sl EXCEPT ![h].alive = TRUE, ![h].next_free = 0]
  PROVE  /\ SlotsOK(new, sl[h].next_free, count + 1)
         /\ \E e \in Entity : /\ e \notin IssuedIn(sl) /\ IssuedIn(new) = IssuedIn(sl) \cup {e}
                              /\ LiveIn(new) = LiveIn(sl) \cup {e}
<1>1. /\ sl \in Seq(Slot) /\ Len(sl) <= MaxEntities
      /\ \A j \in 1 .. Len(sl) : sl[j].alive => Reusable(sl[j])
      /\ count = Cardinality(AliveIn(sl))
      /\ Linked(UnusedIn(sl), NextIn(sl), h)
  BY DEF SlotsOK
<1>2. h \in UnusedIn(sl) /\ UnusedIn(sl) \in SUBSET (Nat \ {0})
  BY <1>1, UnusedIsPositive, Popped
<1>3. h \in 1 .. Len(sl) /\ ~sl[h].alive /\ Reusable(sl[h])
  BY <1>2 DEF UnusedIn
<1>4. PICK r : r = [[sl[h] EXCEPT !.alive = TRUE] EXCEPT !.next_free = 0]
  OBVIOUS
<1>5. r \in Slot /\ r.generation = sl[h].generation /\ r.alive /\ Reusable(r)
  <2>1. sl[h] \in Slot
    BY <1>1, <1>3, SlotFields
  <2>2. r \in Slot /\ r.generation = sl[h].generation /\ r.alive
    BY <1>4, <2>1, SlotRevived
  <2> QED  BY <1>3, <2>2 DEF Reusable
<1>6. new = [sl EXCEPT ![h] = r]
  <2>1. new = [[sl EXCEPT ![h] = [sl[h] EXCEPT !.alive = TRUE]]
                 EXCEPT ![h] = [@ EXCEPT !.next_free = 0]]
    BY <1>1, <1>3
  <2> QED  BY <1>1, <1>3, <1>4, <2>1
<1>7. /\ new \in Seq(Slot) /\ Len(new) = Len(sl) /\ new[h] = r
      /\ \A j \in 1 .. Len(sl) : j # h => new[j] = sl[j]
  <2>1. sl \in Seq(Slot) /\ h \in 1 .. Len(sl) /\ r \in Slot
    BY <1>1, <1>3, <1>5
  <2> QED  BY ONLY <1>6, <2>1, SlotReplaced
<1>8. AliveIn(new) = AliveIn(sl) \cup {h} /\ h \notin AliveIn(sl)
  BY <1>3, <1>5, <1>7 DEF AliveIn
<1>9. UnusedIn(new) = UnusedIn(sl) \ {h}
  BY <1>3, <1>5, <1>7 DEF UnusedIn
<1>10. \A j \in UnusedIn(sl) \ {h} : NextIn(new)[j] = NextIn(sl)[j]
  BY <1>7 DEF UnusedIn, NextIn
<1>11. Linked(UnusedIn(new), NextIn(new), sl[h].next_free)
  <2>1. NextIn(sl)[h] = sl[h].next_free
    BY <1>3 DEF NextIn
  <2>2. Linked(UnusedIn(sl) \ {h}, NextIn(new), NextIn(sl)[h])
    BY <1>1, <1>2, <1>10, Popped
  <2> QED  BY <1>9, <2>1, <2>2
<1>12. count + 1 = Cardinality(AliveIn(new))
  BY <1>1, <1>8, AliveIsFinite, FS_AddElement
<1>13. \A j \in 1 .. Len(new) : new[j].alive => Reusable(new[j])
  BY <1>1, <1>5, <1>7
<1>14. SlotsOK(new, sl[h].next_free, count + 1)
  BY <1>1, <1>7, <1>11, <1>12, <1>13 DEF SlotsOK
<1>15. PICK e : e = [index |-> h, generation |-> sl[h].generation]
  OBVIOUS
<1>16. e \in Entity /\ e.index = h /\ e.generation = sl[h].generation
  BY <1>1, <1>3, <1>15, HandleIsEntity
<1>17. SameBut(sl, new, h)
  BY <1>1, <1>7 DEF SameBut
<1>18. ASSUME NEW x \in Entity, x.index # h
       PROVE  /\ (x \in LiveIn(new) <=> x \in LiveIn(sl))
              /\ (x \in IssuedIn(new) <=> x \in IssuedIn(sl)) /\ x # e
  <2>1. h \in 1 .. Len(new)
    BY <1>3, <1>7
  <2>2. x # e
    BY <1>16, <1>18
  <2>3. sl \in Seq(Slot) /\ new \in Seq(Slot)
    BY <1>1, <1>7
  <2>4. (x \in LiveIn(new) <=> x \in LiveIn(sl)) /\ (x \in IssuedIn(new) <=> x \in IssuedIn(sl))
    BY ONLY <1>17, <1>18, <2>1, <2>3, OtherHandlesStay
  <2> QED  BY <2>2, <2>4
<1>19. ASSUME NEW x \in Entity, x.index = h
       PROVE  /\ x \notin LiveIn(sl) /\ (x \in LiveIn(new) <=> x = e)
              /\ (x \in IssuedIn(new) <=> x \in IssuedIn(sl) \/ x = e)
              /\ x = e => x \notin IssuedIn(sl)
  <2>1. x.generation \in Nat /\ x = [index |-> x.index, generation |-> x.generation]
    BY EntityFields
  <2>2. x = e <=> x.generation = sl[h].generation
    BY <1>15, <1>19, <2>1
  <2>3. sl[h].generation \in Nat
    BY <1>1, <1>3, SlotFields
  <2>4. x \notin LiveIn(sl) /\ (x \in LiveIn(new) <=> x = e)
    <3>1. x \in LiveIn(sl) <=> /\ x.index \in 1 .. Len(sl) /\ sl[x.index].alive
                               /\ sl[x.index].generation = x.generation
      BY <1>1, LiveIsValid
    <3>2. Len(new) <= MaxEntities /\ new \in Seq(Slot)
      BY <1>1, <1>7
    <3>3. x \in LiveIn(new) <=> /\ x.index \in 1 .. Len(new) /\ new[x.index].alive
                                /\ new[x.index].generation = x.generation
      BY <3>2, LiveIsValid
    <3>4. x.index \in 1 .. Len(new) /\ new[x.index] = r
      BY <1>3, <1>7, <1>19
    <3> QED  BY <1>3, <1>5, <1>19, <2>2, <3>1, <3>3, <3>4
  <2>5. x \in IssuedIn(sl) <=> x.generation < sl[h].generation
    BY <1>3, <1>19 DEF IssuedIn
  <2>6. x \in IssuedIn(new) <=> (x.generation < sl[h].generation \/ x.generation = sl[h].generation)
    BY <1>3, <1>5, <1>7, <1>19 DEF IssuedIn
  <2> QED  BY <2>1, <2>2, <2>3, <2>4, <2>5, <2>6
<1>20. LiveIn(new) = LiveIn(sl) \cup {e}
  <2>1. LiveIn(new) \subseteq Entity /\ LiveIn(sl) \subseteq Entity
    BY <1>1, <1>7, LiveIsEntity
  <2> QED  BY <1>16, <1>18, <1>19, <2>1
<1>21. IssuedIn(new) = IssuedIn(sl) \cup {e} /\ e \notin IssuedIn(sl)
  <2>1. IssuedIn(new) \subseteq Entity /\ IssuedIn(sl) \subseteq Entity
    BY DEF IssuedIn
  <2> QED  BY <1>16, <1>18, <1>19, <2>1
<1> QED  BY <1>14, <1>16, <1>20, <1>21

\* Handles of a slot whose entity is gone: none is live, and they are those of before.
LEMMA RecycledHandles ==
  ASSUME NEW sl \in Seq(Slot), NEW new \in Seq(Slot), Len(new) = Len(sl), Len(sl) <= MaxEntities,
         NEW i \in 1 .. Len(sl), ~new[i].alive, sl[i].alive => Reusable(sl[i]),
         new[i].generation = Recycled(sl[i]).generation, NEW x \in Entity, x.index = i
  PROVE  /\ x \notin LiveIn(new) /\ (x \in IssuedIn(new) <=> x \in IssuedIn(sl))
         /\ x \in LiveIn(sl) => x = [index |-> i, generation |-> sl[i].generation]
<1>1. /\ sl[i] \in Slot /\ sl[i].generation \in Nat /\ x.generation \in Nat
      /\ x = [index |-> x.index, generation |-> x.generation]
  BY SlotFields, EntityFields
<1>2. new[i].generation = IF sl[i].alive /\ sl[i].generation # MaxGeneration
                          THEN sl[i].generation + 1 ELSE sl[i].generation
  <2>1. PICK r : r = FreeSlot(Recycled(sl[i]), 0)
    OBVIOUS
  <2> QED  BY <1>1, <2>1, SlotGivenBack
<1>3. x \notin LiveIn(new)
  BY LiveIsValid
<1>4. x \in IssuedIn(new) <=> x.generation < new[i].generation
  BY DEF IssuedIn
<1>5. x \in IssuedIn(sl) <=> \/ x.generation < sl[i].generation
                             \/ x.generation = sl[i].generation /\ sl[i].alive
  <2>1. x \in IssuedIn(sl) <=>
          /\ x.index <= Len(sl)
          /\ \/ x.generation < sl[x.index].generation
             \/ x.generation = sl[x.index].generation /\ sl[x.index].alive
    BY DEF IssuedIn
  <2> QED  BY <2>1
<1>6. sl[i].alive => sl[i].generation # MaxGeneration
  BY DEF Reusable
<1>7. CASE sl[i].alive
  <2>1. new[i].generation = sl[i].generation + 1
    BY <1>2, <1>6, <1>7
  <2>2. x \in IssuedIn(new) <=> x \in IssuedIn(sl)
    BY <1>1, <1>4, <1>5, <1>7, <2>1
  <2> QED  BY <1>1, <1>3, <2>2, LiveIsValid
<1>8. CASE ~sl[i].alive
  <2>1. x \in IssuedIn(new) <=> x \in IssuedIn(sl)
    <3>1. new[i].generation = sl[i].generation
      BY <1>2, <1>8
    <3> QED  BY <1>4, <1>5, <1>8, <3>1
  <2> QED  BY <1>1, <1>3, <2>1, LiveIsValid
<1> QED  BY <1>7, <1>8

\* A slot is given back: it heads the free list, or is never used again.
GivenBack(sl, i, slot, f) == [sl EXCEPT ![i] = FreeSlot(slot, f)]

LEMMA SlotRecycled ==
  ASSUME NEW sl, NEW h, NEW count, SlotsOK(sl, h, count), NEW e \in Entity, e \in LiveIn(sl),
         NEW i, i = e.index, NEW slot, slot = Recycled(sl[i]),
         NEW f, f = (IF Reusable(slot) THEN h ELSE 0), NEW g, g = (IF Reusable(slot) THEN i ELSE h),
         NEW new, new = GivenBack(sl, i, slot, f)
  PROVE  /\ SlotsOK(new, g, count - 1)
         /\ LiveIn(new) = LiveIn(sl) \ {e} /\ IssuedIn(new) = IssuedIn(sl)
<1>1. /\ sl \in Seq(Slot) /\ Len(sl) <= MaxEntities
      /\ \A j \in 1 .. Len(sl) : sl[j].alive => Reusable(sl[j])
      /\ count = Cardinality(AliveIn(sl))
      /\ Linked(UnusedIn(sl), NextIn(sl), h)
  BY DEF SlotsOK
<1>2. i \in 1 .. Len(sl) /\ sl[i].alive /\ sl[i].generation = e.generation
  BY <1>1, LiveIsValid
<1>3. UnusedIn(sl) \in SUBSET (Nat \ {0}) /\ i \notin UnusedIn(sl) /\ i \in Nat \ {0}
  BY <1>1, <1>2, UnusedIsPositive DEF UnusedIn
<1>4. h \in Nat
  <2>1. h \in UnusedIn(sl) \cup {0}
    BY <1>1, <1>3, ListIsExact
  <2> QED  BY <1>3, <2>1
<1>5. f \in Nat
  BY <1>4
<1>6. PICK r : r = FreeSlot(slot, f)
  OBVIOUS
<1>7. /\ r \in Slot /\ ~r.alive /\ r.next_free = f /\ r.generation = Recycled(sl[i]).generation
      /\ r.generation = slot.generation
  <2>1. sl[i] \in Slot
    BY <1>1, <1>2, SlotFields
  <2>2. PICK old \in Slot : old = sl[i]
    BY <2>1
  <2>3. r = FreeSlot(Recycled(old), f)
    BY <1>6, <2>2
  <2>4. old \in Slot /\ f \in Nat
    BY <1>5, <2>2
  <2>5. /\ r \in Slot /\ ~r.alive /\ r.next_free = f
        /\ r.generation = Recycled(old).generation
    BY ONLY <2>3, <2>4, SlotGivenBack
  <2>6. slot = Recycled(old) /\ Recycled(old) = Recycled(sl[i])
    BY <2>2
  <2> QED  BY <2>5, <2>6
<1>8. Reusable(r) <=> Reusable(slot)
  BY <1>7 DEF Reusable
<1>9. new = [sl EXCEPT ![i] = r]
  BY <1>6 DEF GivenBack
<1>10. /\ new \in Seq(Slot) /\ Len(new) = Len(sl) /\ new[i] = r
       /\ \A j \in 1 .. Len(sl) : j # i => new[j] = sl[j]
  BY ONLY <1>1, <1>2, <1>7, <1>9, SlotReplaced, SMTT(60)
<1>11. AliveIn(new) = AliveIn(sl) \ {i} /\ i \in AliveIn(sl)
  BY <1>2, <1>7, <1>10 DEF AliveIn
<1>12. count - 1 = Cardinality(AliveIn(new))
  <2>1. IsFiniteSet(AliveIn(sl))
    BY <1>1, AliveIsFinite
  <2>2. Cardinality(AliveIn(sl) \ {i}) = Cardinality(AliveIn(sl)) - 1
    BY <1>11, <2>1, FS_RemoveElement
  <2> QED  BY <1>1, <1>11, <2>2
<1>13. \A j \in 1 .. Len(new) : new[j].alive => Reusable(new[j])
  BY <1>1, <1>7, <1>10, SMTT(60)
<1>14. \A j \in UnusedIn(sl) : NextIn(new)[j] = NextIn(sl)[j]
  BY <1>3, <1>10 DEF UnusedIn, NextIn
<1>15. Linked(UnusedIn(new), NextIn(new), g)
  <2>1. CASE Reusable(slot)
    <3>1. UnusedIn(new) = UnusedIn(sl) \cup {i}
      BY <1>2, <1>7, <1>8, <1>10, <2>1, SMTT(60) DEF UnusedIn
    <3>2. NextIn(new)[i] = h
      BY <1>2, <1>5, <1>7, <1>10, <2>1 DEF NextIn
    <3>3. Linked(UnusedIn(sl) \cup {i}, NextIn(new), i)
      BY <1>1, <1>3, <1>14, <3>2, Pushed
    <3> QED  BY <2>1, <3>1, <3>3
  <2>2. CASE ~Reusable(slot)
    <3>1. UnusedIn(new) = UnusedIn(sl)
      BY <1>3, <1>8, <1>10, <2>2 DEF UnusedIn
    <3>2. Linked(UnusedIn(sl), NextIn(new), h)
      BY <1>1, <1>14, LinkedIsLocal, SMTT(60)
    <3> QED  BY <2>2, <3>1, <3>2
  <2> QED  BY <2>1, <2>2
<1>16. SlotsOK(new, g, count - 1)
  BY <1>1, <1>10, <1>12, <1>13, <1>15, SMTT(60) DEF SlotsOK
<1>17. SameBut(sl, new, i)
  BY <1>1, <1>10 DEF SameBut
<1>18. ASSUME NEW x \in Entity, x.index # i
       PROVE  /\ (x \in LiveIn(new) <=> x \in LiveIn(sl))
              /\ (x \in IssuedIn(new) <=> x \in IssuedIn(sl)) /\ x # e
  <2>1. i \in 1 .. Len(new)
    BY <1>2, <1>10
  <2>2. x # e
    BY <1>18
  <2>3. sl \in Seq(Slot) /\ new \in Seq(Slot)
    BY <1>1, <1>10
  <2>4. (x \in LiveIn(new) <=> x \in LiveIn(sl)) /\ (x \in IssuedIn(new) <=> x \in IssuedIn(sl))
    BY ONLY <1>17, <1>18, <2>1, <2>3, OtherHandlesStay
  <2> QED  BY <2>2, <2>4
<1>19. ASSUME NEW x \in Entity, x.index = i
       PROVE  /\ x \notin LiveIn(new) /\ (x \in LiveIn(sl) => x = e)
              /\ (x \in IssuedIn(new) <=> x \in IssuedIn(sl))
  <2>1. e = [index |-> i, generation |-> sl[i].generation]
    BY <1>2, EntityFields
  <2>2. ~new[i].alive /\ (sl[i].alive => Reusable(sl[i])) /\ new[i].generation = Recycled(sl[i]).generation
    BY <1>1, <1>2, <1>7, <1>10
  <2>3. sl \in Seq(Slot) /\ new \in Seq(Slot) /\ Len(new) = Len(sl) /\ Len(sl) <= MaxEntities
    BY <1>1, <1>10
  <2>4. x \in Entity /\ x.index = i
    BY <1>19
  <2>5. /\ x \notin LiveIn(new) /\ (x \in IssuedIn(new) <=> x \in IssuedIn(sl))
        /\ x \in LiveIn(sl) => x = [index |-> i, generation |-> sl[i].generation]
    BY ONLY <1>2, <2>2, <2>3, <2>4, RecycledHandles, SMTT(60)
  <2> QED  BY <2>1, <2>5
<1>20. LiveIn(new) = LiveIn(sl) \ {e}
  <2>1. LiveIn(new) \subseteq Entity /\ LiveIn(sl) \subseteq Entity
    BY <1>1, <1>10, LiveIsEntity
  <2> QED  BY <1>18, <1>19, <2>1
<1>21. IssuedIn(new) = IssuedIn(sl)
  <2>1. IssuedIn(new) \subseteq Entity /\ IssuedIn(sl) \subseteq Entity
    BY DEF IssuedIn
  <2> QED  BY <1>18, <1>19, <2>1, SMTT(60)
<1> QED  BY <1>16, <1>20, <1>21

\* All slots are given back, and linked upwards.
UsableIn(sl) == {i \in 1 .. Len(sl) : Reusable(Recycled(sl[i]))}
AllGivenBack(sl, U, next) ==
  [i \in 1 .. Len(sl) |-> FreeSlot(Recycled(sl[i]), IF i \in U THEN next[i] ELSE 0)]

LEMMA SlotsRecycled ==
  ASSUME NEW sl, NEW h, NEW count, SlotsOK(sl, h, count), NEW U, U = UsableIn(sl),
         NEW next, NEW g, LinksUpwards(U, next, g), NEW new, new = AllGivenBack(sl, U, next)
  PROVE  SlotsOK(new, g, 0) /\ LiveIn(new) = {} /\ IssuedIn(new) = IssuedIn(sl)
<1>1. /\ sl \in Seq(Slot) /\ Len(sl) <= MaxEntities
      /\ \A j \in 1 .. Len(sl) : sl[j].alive => Reusable(sl[j])
  BY DEF SlotsOK
<1>2. Len(sl) \in Nat /\ U \in SUBSET (1 .. Len(sl))
  BY <1>1 DEF UsableIn
<1>3. \A i \in U : next[i] \in Nat
  BY <1>2 DEF LinksUpwards, NextAbove
<1>4. ASSUME NEW i \in 1 .. Len(sl)
      PROVE  /\ new[i] \in Slot /\ ~new[i].alive
             /\ new[i].next_free = IF i \in U THEN next[i] ELSE 0
             /\ new[i].generation = Recycled(sl[i]).generation
  <2>1. sl[i] \in Slot
    BY <1>1, SlotFields
  <2>2. PICK f \in Nat : f = IF i \in U THEN next[i] ELSE 0
    BY <1>3
  <2>3. PICK old \in Slot : old = sl[i]
    BY <2>1
  <2>4. PICK r : r = FreeSlot(Recycled(old), f)
    OBVIOUS
  <2>5. new[i] = r
    BY <2>2, <2>3, <2>4 DEF AllGivenBack
  <2>6. /\ r \in Slot /\ ~r.alive /\ r.next_free = f
        /\ r.generation = Recycled(old).generation
    BY <2>4, SlotGivenBack, ZenonT(60)
  <2> QED  BY <2>2, <2>3, <2>5, <2>6
<1>5. new \in Seq(Slot) /\ Len(new) = Len(sl)
  <2>1. DOMAIN new = 1 .. Len(sl) /\ new = [i \in DOMAIN new |-> new[i]]
    BY DEF AllGivenBack
  <2>2. new \in [1 .. Len(sl) -> Slot]
    BY <1>4, <2>1
  <2> QED  BY <1>2, <2>2
<1>6. AliveIn(new) = {}
  <2>1. \A i \in 1 .. Len(sl) : ~new[i].alive
    BY <1>4, Zenon
  <2> QED  BY <1>5, <2>1 DEF AliveIn
<1>7. UnusedIn(new) = U
  <2>1. \A i \in 1 .. Len(sl) : ~new[i].alive /\ (Reusable(new[i]) <=> Reusable(Recycled(sl[i])))
    BY <1>4, Zenon DEF Reusable
  <2>2. ASSUME NEW i \in 1 .. Len(sl)
        PROVE  (~new[i].alive /\ Reusable(new[i])) <=> Reusable(Recycled(sl[i]))
    BY <2>1, Zenon
  <2> QED  BY <1>5, <2>2, Zenon DEF UnusedIn, UsableIn
<1>8. Linked(U, next, g)
  BY <1>2, LinkedUpwards
<1>9. \A i \in U : NextIn(new)[i] = next[i]
  BY <1>2, <1>4, <1>5 DEF NextIn
<1>10. Linked(UnusedIn(new), NextIn(new), g)
  BY <1>7, <1>8, <1>9, LinkedIsLocal
<1>11. SlotsOK(new, g, 0)
  BY <1>1, <1>4, <1>5, <1>6, <1>10, FS_EmptySet DEF SlotsOK
<1>12. ASSUME NEW x \in Entity
       PROVE  x \notin LiveIn(new) /\ (x \in IssuedIn(new) <=> x \in IssuedIn(sl))
  <2>1. PICK i \in Nat : i = x.index /\ 1 <= i
    BY EntityFields
  <2>2. CASE i <= Len(sl)
    <3>1. i \in 1 .. Len(sl)
      BY <1>2, <2>1, <2>2
    <3>2. ~new[i].alive /\ (sl[i].alive => Reusable(sl[i])) /\ new[i].generation = Recycled(sl[i]).generation
      BY <1>1, <1>4, <3>1
    <3>3. sl \in Seq(Slot) /\ new \in Seq(Slot) /\ Len(new) = Len(sl) /\ Len(sl) <= MaxEntities
      BY <1>1, <1>5
    <3>4. x \in Entity /\ x.index = i
      BY <2>1
    <3> QED  BY ONLY <3>1, <3>2, <3>3, <3>4, RecycledHandles
  <2>3. CASE ~(i <= Len(sl))
    <3>1. x \notin LiveIn(new)
      <4>1. new \in Seq(Slot) /\ Len(new) <= MaxEntities /\ ~(x.index \in 1 .. Len(new))
        BY <1>1, <1>2, <1>5, <2>1, <2>3
      <4> QED  BY ONLY <1>12, <4>1, LiveIsValid
    <3>2. ~(x.index <= Len(sl)) /\ ~(x.index <= Len(new))
      BY <1>5, <2>1, <2>3
    <3>3. x \notin IssuedIn(sl) /\ x \notin IssuedIn(new)
      BY <3>2 DEF IssuedIn
    <3> QED  BY <3>1, <3>3
  <2> QED  BY <2>2, <2>3
<1>13. LiveIn(new) = {}
  <2>1. LiveIn(new) \subseteq Entity
    BY <1>1, <1>5, LiveIsEntity
  <2> QED  BY <1>12, <2>1
<1>14. IssuedIn(new) = IssuedIn(sl)
  <2>1. IssuedIn(new) \subseteq Entity /\ IssuedIn(sl) \subseteq Entity
    BY DEF IssuedIn
  <2> QED  BY <1>12, <2>1
<1> QED  BY <1>11, <1>13, <1>14

-----------------------------------------------------------------------------
(* Tables of stores *)

StoresOK(st, live) ==
  /\ st \in Seq(ComponentStore) /\ Len(st) <= MaxTypes
  /\ \A t \in 1 .. Len(st) : CellsMatch(st[t]) /\ Members(st[t]) \subseteq live

AttachedIn(st)  == UNION {{<<e, t>> : e \in Members(st[t])} : t \in 1 .. Len(st)}
ComponentIn(st) == [x \in AttachedIn(st) |-> st[x[2]].data[Find(st[x[2]], x[1])]]

WithStore(st, t, r)    == [st EXCEPT ![t] = r]
OthersKept(st, new, t) == \A u \in 1 .. Len(st) : u # t => new[u] = st[u]

LEMMA ReplacedIsOK ==
  ASSUME NEW st, NEW live, StoresOK(st, live), NEW t \in 1 .. Len(st),
         NEW r \in ComponentStore, CellsMatch(r), Members(r) \subseteq live,
         NEW new, new = WithStore(st, t, r)
  PROVE  /\ StoresOK(new, live) /\ Len(new) = Len(st) /\ new[t] = r
         /\ OthersKept(st, new, t)
<1>1. /\ st \in Seq(ComponentStore) /\ Len(st) <= MaxTypes
      /\ \A u \in 1 .. Len(st) : CellsMatch(st[u]) /\ Members(st[u]) \subseteq live
  BY DEF StoresOK
<1>2. /\ new \in Seq(ComponentStore) /\ Len(new) = Len(st) /\ new[t] = r
      /\ OthersKept(st, new, t)
  <2>1. st \in Seq(ComponentStore)
    BY <1>1
  <2> QED  BY <2>1 DEF WithStore, OthersKept
<1>3. \A u \in 1 .. Len(new) : CellsMatch(new[u]) /\ Members(new[u]) \subseteq live
  BY <1>1, <1>2 DEF OthersKept
<1> QED  BY <1>1, <1>2, <1>3 DEF StoresOK

LEMMA OneStoreIsOK ==
  ASSUME NEW st, NEW live, StoresOK(st, live), NEW t \in 1 .. Len(st)
  PROVE  /\ st[t] \in ComponentStore /\ CellsMatch(st[t]) /\ Members(st[t]) \subseteq live
         /\ st \in Seq(ComponentStore) /\ Len(st) \in Nat /\ Len(st) <= MaxTypes
         /\ t \in 1 .. MaxTypes /\ t \in Nat
<1>1. st \in Seq(ComponentStore) /\ Len(st) <= MaxTypes
  BY DEF StoresOK
<1>2. Len(st) \in Nat /\ t \in 1 .. MaxTypes /\ t \in Nat
  BY <1>1, EcsConfiguration
<1> QED  BY <1>1, <1>2 DEF StoresOK

LEMMA AttachedIsMember ==
  ASSUME NEW st, NEW e, NEW t
  PROVE  <<e, t>> \in AttachedIn(st) <=> t \in 1 .. Len(st) /\ e \in Members(st[t])
BY DEF AttachedIn

LEMMA AttachedIsPair ==
  ASSUME NEW st, NEW x \in AttachedIn(st)
  PROVE  \E t \in 1 .. Len(st) : \E e \in Members(st[t]) : x = <<e, t>>
BY DEF AttachedIn

\* What a step may do to the components: nothing, bring one, or take one.
ValueIn(store, e) == store.data[Find(store, e)]
SameStore(s, r)   == /\ Members(r) = Members(s)
                     /\ \A m \in Members(s) : ValueIn(r, m) = ValueIn(s, m)

KeepsComponents(st, new) ==
  /\ Len(st) <= Len(new)
  /\ \A t \in 1 .. Len(st) : SameStore(st[t], new[t])
  /\ \A t \in 1 .. Len(new) : t > Len(st) => Members(new[t]) = {}

BringsComponent(st, new, t, e, v) ==
  /\ Len(new) = Len(st) /\ t \in 1 .. Len(st)
  /\ OthersKept(st, new, t)
  /\ Members(new[t]) = Members(st[t]) \cup {e} /\ e \notin Members(st[t])
  /\ \A m \in Members(st[t]) : ValueIn(new[t], m) = ValueIn(st[t], m)
  /\ ValueIn(new[t], e) = v

TakesComponent(st, new, t, e) ==
  /\ Len(new) = Len(st) /\ t \in 1 .. Len(st)
  /\ OthersKept(st, new, t)
  /\ Members(new[t]) = Members(st[t]) \ {e} /\ e \in Members(st[t])
  /\ \A m \in Members(new[t]) : ValueIn(new[t], m) = ValueIn(st[t], m)

LEMMA ComponentsKept ==
  ASSUME NEW st \in Seq(ComponentStore), NEW new \in Seq(ComponentStore), KeepsComponents(st, new)
  PROVE  ComponentIn(new) = ComponentIn(st)
<1>1. \A t \in 1 .. Len(new) : t \in 1 .. Len(st) \/ t > Len(st)
  OBVIOUS
<1>2. \A t \in 1 .. Len(st) : t \in 1 .. Len(new)
  BY DEF KeepsComponents
<1>3. AttachedIn(new) = AttachedIn(st)
  <2>1. ASSUME NEW x \in AttachedIn(new)  PROVE x \in AttachedIn(st)
    <3>1. PICK t \in 1 .. Len(new) : \E e \in Members(new[t]) : x = <<e, t>>
      BY AttachedIsPair
    <3>2. PICK e \in Members(new[t]) : x = <<e, t>>
      BY <3>1
    <3>3. t \in 1 .. Len(st)
      BY <1>1, <3>2 DEF KeepsComponents
    <3>4. e \in Members(st[t])
      BY <3>2, <3>3 DEF KeepsComponents, SameStore
    <3> QED  BY <3>2, <3>3, <3>4, AttachedIsMember
  <2>2. ASSUME NEW x \in AttachedIn(st)  PROVE x \in AttachedIn(new)
    <3>1. PICK t \in 1 .. Len(st) : \E e \in Members(st[t]) : x = <<e, t>>
      BY AttachedIsPair
    <3>2. PICK e \in Members(st[t]) : x = <<e, t>>
      BY <3>1
    <3>3. t \in 1 .. Len(new) /\ e \in Members(new[t])
      BY <1>2, <3>2 DEF KeepsComponents, SameStore
    <3> QED  BY <3>2, <3>3, AttachedIsMember
  <2> QED  BY <2>1, <2>2
<1>4. ASSUME NEW x \in AttachedIn(st)
      PROVE  new[x[2]].data[Find(new[x[2]], x[1])] = st[x[2]].data[Find(st[x[2]], x[1])]
  <2>1. PICK t \in 1 .. Len(st) : \E e \in Members(st[t]) : x = <<e, t>>
    BY AttachedIsPair
  <2>2. PICK e \in Members(st[t]) : x = <<e, t>>
    BY <2>1
  <2>3. ValueIn(new[t], e) = ValueIn(st[t], e)
    BY DEF KeepsComponents, SameStore
  <2>4. x[1] = e /\ x[2] = t
    BY <2>2
  <2> QED  BY <2>3, <2>4 DEF ValueIn
<1> QED  BY <1>3, <1>4 DEF ComponentIn

\* A function with one more pair, and with one less.
With(f, x, v) == [y \in DOMAIN f \cup {x} |-> IF y = x THEN v ELSE f[y]]
Without(f, x) == [y \in DOMAIN f \ {x} |-> f[y]]

LEMMA ComponentBrought ==
  ASSUME NEW st, NEW new, NEW t, NEW e, NEW v, BringsComponent(st, new, t, e, v)
  PROVE  /\ <<e, t>> \notin AttachedIn(st)
         /\ ComponentIn(new) = With(ComponentIn(st), <<e, t>>, v)
<1>1. <<e, t>> \notin AttachedIn(st)
  BY AttachedIsMember DEF BringsComponent, OthersKept
<1>2. AttachedIn(new) = AttachedIn(st) \cup {<<e, t>>}
  <2>1. ASSUME NEW x \in AttachedIn(new)  PROVE x \in AttachedIn(st) \cup {<<e, t>>}
    <3>1. PICK u \in 1 .. Len(new) : \E d \in Members(new[u]) : x = <<d, u>>
      BY AttachedIsPair
    <3>2. PICK d \in Members(new[u]) : x = <<d, u>>
      BY <3>1
    <3>3. u \in 1 .. Len(st)
      BY DEF BringsComponent, OthersKept
    <3>4. d \in Members(st[u]) \/ (d = e /\ u = t)
      BY <3>3 DEF BringsComponent, OthersKept
    <3> QED  BY <3>2, <3>3, <3>4, AttachedIsMember
  <2>2. ASSUME NEW x \in AttachedIn(st)  PROVE x \in AttachedIn(new)
    <3>1. PICK u \in 1 .. Len(st) : \E d \in Members(st[u]) : x = <<d, u>>
      BY AttachedIsPair
    <3>2. PICK d \in Members(st[u]) : x = <<d, u>>
      BY <3>1
    <3>3. u \in 1 .. Len(new) /\ d \in Members(new[u])
      BY DEF BringsComponent, OthersKept
    <3> QED  BY <3>2, <3>3, AttachedIsMember
  <2>3. <<e, t>> \in AttachedIn(new)
    BY AttachedIsMember DEF BringsComponent, OthersKept
  <2> QED  BY <2>1, <2>2, <2>3
<1>3. ASSUME NEW x \in AttachedIn(new)
      PROVE  new[x[2]].data[Find(new[x[2]], x[1])] = IF x = <<e, t>> THEN v ELSE ComponentIn(st)[x]
  <2>1. CASE x = <<e, t>>
    <3>1. x[1] = e /\ x[2] = t
      BY <2>1
    <3> QED  BY <2>1, <3>1 DEF BringsComponent, OthersKept, ValueIn
  <2>2. CASE x # <<e, t>>
    <3>1. x \in AttachedIn(st)
      BY <1>2, <2>2
    <3>2. PICK u \in 1 .. Len(st) : \E d \in Members(st[u]) : x = <<d, u>>
      BY <3>1, AttachedIsPair
    <3>3. PICK d \in Members(st[u]) : x = <<d, u>>
      BY <3>2
    <3>4. x[1] = d /\ x[2] = u
      BY <3>3
    <3>5. ValueIn(new[u], d) = ValueIn(st[u], d)
      BY DEF BringsComponent, OthersKept
    <3>6. ComponentIn(st)[x] = ValueIn(st[u], d)
      BY <3>1, <3>4 DEF ComponentIn, ValueIn
    <3> QED  BY <2>2, <3>4, <3>5, <3>6 DEF ValueIn
  <2> QED  BY <2>1, <2>2
<1>4. ComponentIn(new) = [x \in AttachedIn(st) \cup {<<e, t>>} |->
                            IF x = <<e, t>> THEN v ELSE ComponentIn(st)[x]]
  BY <1>2, <1>3 DEF ComponentIn
<1>5. DOMAIN ComponentIn(st) = AttachedIn(st)
  BY DEF ComponentIn
<1> QED  BY <1>1, <1>4, <1>5 DEF With

LEMMA ComponentTaken ==
  ASSUME NEW st, NEW new, NEW t, NEW e, TakesComponent(st, new, t, e)
  PROVE  /\ <<e, t>> \in AttachedIn(st)
         /\ ComponentIn(new) = Without(ComponentIn(st), <<e, t>>)
<1>1. <<e, t>> \in AttachedIn(st)
  BY AttachedIsMember DEF TakesComponent, OthersKept
<1>2. AttachedIn(new) = AttachedIn(st) \ {<<e, t>>}
  <2>1. ASSUME NEW x \in AttachedIn(new)  PROVE x \in AttachedIn(st) \ {<<e, t>>}
    <3>1. PICK u \in 1 .. Len(new) : \E d \in Members(new[u]) : x = <<d, u>>
      BY AttachedIsPair
    <3>2. PICK d \in Members(new[u]) : x = <<d, u>>
      BY <3>1
    <3>3. u \in 1 .. Len(st)
      BY DEF TakesComponent, OthersKept
    <3>4. d \in Members(st[u]) /\ ~(d = e /\ u = t)
      BY <3>3 DEF TakesComponent, OthersKept
    <3>5. x # <<e, t>>
      BY <3>2, <3>4
    <3> QED  BY <3>2, <3>3, <3>4, <3>5, AttachedIsMember
  <2>2. ASSUME NEW x \in AttachedIn(st), x # <<e, t>>  PROVE x \in AttachedIn(new)
    <3>1. PICK u \in 1 .. Len(st) : \E d \in Members(st[u]) : x = <<d, u>>
      BY AttachedIsPair
    <3>2. PICK d \in Members(st[u]) : x = <<d, u>>
      BY <3>1
    <3>3. ~(d = e /\ u = t)
      BY <2>2, <3>2
    <3>4. u \in 1 .. Len(new) /\ d \in Members(new[u])
      BY <3>3 DEF TakesComponent, OthersKept
    <3> QED  BY <3>2, <3>4, AttachedIsMember
  <2> QED  BY <2>1, <2>2
<1>3. ASSUME NEW x \in AttachedIn(new)
      PROVE  new[x[2]].data[Find(new[x[2]], x[1])] = ComponentIn(st)[x]
  <2>1. x \in AttachedIn(st)
    BY <1>2
  <2>2. PICK u \in 1 .. Len(new) : \E d \in Members(new[u]) : x = <<d, u>>
    BY AttachedIsPair
  <2>3. PICK d \in Members(new[u]) : x = <<d, u>>
    BY <2>2
  <2>4. x[1] = d /\ x[2] = u
    BY <2>3
  <2>5. ValueIn(new[u], d) = ValueIn(st[u], d)
    BY DEF TakesComponent, OthersKept
  <2>6. ComponentIn(st)[x] = ValueIn(st[u], d)
    BY <2>1, <2>4 DEF ComponentIn, ValueIn
  <2> QED  BY <2>4, <2>5, <2>6 DEF ValueIn
<1>4. ComponentIn(new) = [x \in AttachedIn(st) \ {<<e, t>>} |-> ComponentIn(st)[x]]
  BY <1>2, <1>3 DEF ComponentIn
<1>5. DOMAIN ComponentIn(st) = AttachedIn(st)
  BY DEF ComponentIn
<1> QED  BY <1>1, <1>4, <1>5 DEF Without

\* A store has room for an entity it does not hold.
LEMMA RoomIsLeft ==
  ASSUME NEW s \in ComponentStore, CellsMatch(s), NEW e \in Entity,
         \A m \in Members(s) : m.index # e.index
  PROVE  Len(s.dense) + 1 \in 0 .. MaxEntities
<1>1. PICK d \in Seq(Entity) : d = s.dense
  BY StoreIsInverse
<1>2. PICK n \in Nat : n = Len(d)
  OBVIOUS
<1>3. MaxEntities \in Nat
  BY EcsConfiguration
<1>4. \A k \in 1 .. n : d[k] \in Entity /\ d[k].index # e.index /\ s.sparse[d[k].index] = k
  BY <1>1, <1>2 DEF CellsMatch, Members
<1>5. SUFFICES ASSUME n + 1 > MaxEntities  PROVE FALSE
  BY <1>1, <1>2, <1>3
<1>6. PICK f : f = [k \in 1 .. n + 1 |-> IF k = n + 1 THEN e.index ELSE d[k].index]
  OBVIOUS
<1>7. f \in [1 .. n + 1 -> 1 .. MaxEntities]
  <2>1. \A k \in 1 .. n + 1 : k = n + 1 \/ k \in 1 .. n
    OBVIOUS
  <2>2. e.index \in 1 .. MaxEntities /\ \A k \in 1 .. n : d[k].index \in 1 .. MaxEntities
    BY <1>4, EntityFields
  <2> QED  BY <1>6, <2>1, <2>2
<1>8. Cardinality(1 .. n + 1) = n + 1 /\ Cardinality(1 .. MaxEntities) = MaxEntities
  BY <1>3, FS_Interval, EcsConfiguration
<1>9. PICK x \in 1 .. n + 1, y \in 1 .. n + 1 : x # y /\ f[x] = f[y]
  <2>1. IsFiniteSet(1 .. n + 1) /\ IsFiniteSet(1 .. MaxEntities)
    BY <1>3, FS_Interval
  <2>2. Cardinality(1 .. MaxEntities) < Cardinality(1 .. n + 1)
    BY <1>3, <1>5, <1>8
  <2> QED  BY <1>7, <2>1, <2>2, FS_PigeonHole, ZenonT(60)
<1>10. CASE x = n + 1
  <2>1. y \in 1 .. n /\ f[y] = d[y].index /\ f[x] = e.index
    BY <1>6, <1>9, <1>10
  <2> QED  BY <1>4, <1>9, <2>1
<1>11. CASE y = n + 1
  <2>1. x \in 1 .. n /\ f[x] = d[x].index /\ f[y] = e.index
    BY <1>6, <1>9, <1>11
  <2> QED  BY <1>4, <1>9, <2>1
<1>12. CASE x # n + 1 /\ y # n + 1
  <2>1. x \in 1 .. n /\ f[x] = d[x].index /\ y \in 1 .. n /\ f[y] = d[y].index
    BY <1>6, <1>9, <1>12
  <2>2. s.sparse[d[x].index] = x /\ s.sparse[d[y].index] = y
    BY <1>4, <2>1
  <2>3. d[x].index = d[y].index
    BY <1>9, <2>1
  <2> QED  BY <1>9, <2>2, <2>3
<1> QED  BY <1>10, <1>11, <1>12

\* The packed arrays as they were, wherever they lie and however many cells there are.
SamePacked(s, r) == r.dense = s.dense /\ r.data = s.data /\ r.cleanup = s.cleanup

LEMMA PackedIsSame ==
  ASSUME NEW s \in ComponentStore, CellsMatch(s), NEW r \in ComponentStore, CellsMatch(r),
         SamePacked(s, r)
  PROVE  SameStore(s, r)
<1>1. Members(r) = Members(s)
  BY DEF SamePacked, Members
<1>2. ASSUME NEW m \in Members(s)  PROVE ValueIn(r, m) = ValueIn(s, m)
  <2>1. PICK k \in 1 .. Len(s.dense) : m = s.dense[k]
    BY DEF Members
  <2>2. Find(s, m) = k
    BY <2>1, ValueIsInPlace
  <2>3. k \in 1 .. Len(r.dense) /\ r.dense[k] = m
    BY <2>1 DEF SamePacked
  <2>4. Find(r, m) = k
    BY <2>3, ValueIsInPlace
  <2> QED  BY <2>2, <2>4 DEF SamePacked, ValueIn
<1> QED  BY <1>1, <1>2 DEF SameStore

\* One store was moved or got more cells.
LEMMA StoreMoved ==
  ASSUME NEW st, NEW live, StoresOK(st, live), NEW t \in 1 .. Len(st),
         NEW r \in ComponentStore, CellsMatch(r), SamePacked(st[t], r),
         NEW new, new = WithStore(st, t, r)
  PROVE  StoresOK(new, live) /\ KeepsComponents(st, new) /\ Len(new) = Len(st)
<1>1. st[t] \in ComponentStore /\ CellsMatch(st[t]) /\ Members(st[t]) \subseteq live /\ Len(st) \in Nat
  BY OneStoreIsOK
<1>2. SameStore(st[t], r)
  BY <1>1, PackedIsSame
<1>3. Members(r) \subseteq live
  BY <1>1, <1>2 DEF SameStore
<1>4. /\ StoresOK(new, live) /\ Len(new) = Len(st) /\ new[t] = r
      /\ OthersKept(st, new, t)
  BY <1>3, ReplacedIsOK
<1>5. ASSUME NEW u \in 1 .. Len(st)  PROVE SameStore(st[u], new[u])
  <2>1. CASE u = t
    BY <1>2, <1>4, <2>1
  <2>2. CASE u # t
    <3>1. new[u] = st[u]
      BY <1>4, <2>2 DEF OthersKept
    <3> QED  BY <3>1 DEF SameStore
  <2> QED  BY <2>1, <2>2
<1>6. KeepsComponents(st, new)
  BY <1>1, <1>4, <1>5 DEF KeepsComponents
<1> QED  BY <1>4, <1>6

LEMMA StoreRegistered ==
  ASSUME NEW st, NEW live, StoresOK(st, live), Len(st) < MaxTypes, NEW b \in BOOLEAN, NEW c \in Nat,
         NEW new, new = Append(st, EmptyStore(b, c))
  PROVE  StoresOK(new, live) /\ KeepsComponents(st, new)
<1>1. /\ st \in Seq(ComponentStore) /\ Len(st) \in Nat /\ MaxTypes \in Nat
      /\ \A t \in 1 .. Len(st) : CellsMatch(st[t]) /\ Members(st[t]) \subseteq live
  BY EcsConfiguration DEF StoresOK
<1>2. PICK r : r = EmptyStore(b, c)
  OBVIOUS
<1>3. r \in ComponentStore /\ CellsMatch(r) /\ Members(r) = {}
  <2>1. r.dense = <<>> /\ r.data = <<>> /\ r.sparse = <<>>
    BY <1>2 DEF EmptyStore
  <2>2. r \in ComponentStore
    BY <1>2 DEF EmptyStore, ComponentStore
  <2> QED  BY <2>1, <2>2 DEF CellsMatch, Members
<1>4. /\ new \in Seq(ComponentStore) /\ Len(new) = Len(st) + 1 /\ new[Len(st) + 1] = r
      /\ \A t \in 1 .. Len(st) : new[t] = st[t]
  BY <1>1, <1>2, <1>3
<1>5. \A t \in 1 .. Len(new) : t \in 1 .. Len(st) \/ t = Len(st) + 1
  BY <1>1, <1>4
<1>6. StoresOK(new, live)
  BY <1>1, <1>3, <1>4, <1>5 DEF StoresOK
<1>7. \A t \in 1 .. Len(st) : SameStore(st[t], new[t])
  BY <1>4 DEF SameStore
<1>8. KeepsComponents(st, new)
  BY <1>1, <1>3, <1>4, <1>5, <1>7 DEF KeepsComponents
<1> QED  BY <1>6, <1>8

\* Two entities of one index are not both live.
OneLiveEach(live) == \A x, y \in live : x.index = y.index => x = y

LEMMA LiveIsOneEach ==
  ASSUME NEW sl \in Seq(Slot), Len(sl) <= MaxEntities
  PROVE  OneLiveEach(LiveIn(sl))
<1> SUFFICES ASSUME NEW x \in LiveIn(sl), NEW y \in LiveIn(sl), x.index = y.index  PROVE x = y
  BY DEF OneLiveEach
<1>1. PICK i \in AliveIn(sl) : x = [index |-> i, generation |-> sl[i].generation]
  BY DEF LiveIn
<1>2. PICK j \in AliveIn(sl) : y = [index |-> j, generation |-> sl[j].generation]
  BY DEF LiveIn
<1>3. x.index = i /\ y.index = j
  BY <1>1, <1>2
<1> QED  BY <1>1, <1>2, <1>3

\* The cells were made first, then the packed arrays, and then the component is there.
LEMMA ComponentInserted ==
  ASSUME NEW st, NEW live, StoresOK(st, live), live \subseteq Entity, OneLiveEach(live),
         NEW t \in 1 .. Len(st), NEW e \in live, NEW v \in Values, Find(st[t], e) = 0,
         NEW prepared, prepared = ReserveSparse(st[t], e.index, MaxEntities),
         NEW ready, ready = ReserveDense(prepared, Len(prepared.dense) + 1, MaxEntities)
  PROVE  /\ \A new : new = WithStore(st, t, prepared) =>
              StoresOK(new, live) /\ KeepsComponents(st, new) /\ Len(new) = Len(st)
         /\ \A new : new = WithStore(st, t, Inserted(ready, e, v)) =>
              StoresOK(new, live) /\ BringsComponent(st, new, t, e, v)
<1>1. st[t] \in ComponentStore /\ CellsMatch(st[t]) /\ Members(st[t]) \subseteq live /\ Len(st) \in Nat
  BY OneStoreIsOK
<1>2. e \in Entity /\ e.index \in 0 .. MaxEntities
  BY EntityFields, EcsConfiguration, SMTT(60)
<1>3. e \notin Members(st[t])
  BY <1>1, <1>2, FindIsExact
<1>4. \A m \in Members(st[t]) : m.index # e.index
  BY <1>1, <1>3 DEF OneLiveEach
<1>5. /\ prepared \in ComponentStore /\ CellsMatch(prepared) /\ e.index <= Len(prepared.sparse)
      /\ SamePacked(st[t], prepared)
  BY <1>1, <1>2, SparseIsReserved DEF SamePacked
<1>6. Len(prepared.dense) + 1 \in 0 .. MaxEntities
  <2>1. Len(st[t].dense) + 1 \in 0 .. MaxEntities
    BY <1>1, <1>2, <1>4, RoomIsLeft
  <2> QED  BY <1>5, <2>1 DEF SamePacked
<1>7. /\ ready \in ComponentStore /\ CellsMatch(ready) /\ e.index <= Len(ready.sparse)
      /\ SamePacked(st[t], ready)
  BY <1>5, <1>6, DenseIsReserved DEF SamePacked
<1>8. SameStore(st[t], ready)
  BY <1>1, <1>7, PackedIsSame
<1>9. \A m \in Members(ready) : m.index # e.index
  BY <1>4, <1>8 DEF SameStore
<1>10. PICK r : r = Inserted(ready, e, v)
  OBVIOUS
<1>11. r \in ComponentStore /\ CellsMatch(r) /\ Members(r) = Members(ready) \cup {e}
  BY <1>2, <1>7, <1>9, <1>10, InsertedIsExact, SMTT(60)
<1>12. /\ \A m \in Members(ready) : ValueIn(r, m) = ValueIn(ready, m)
       /\ ValueIn(r, e) = v
  BY <1>2, <1>7, <1>9, <1>10, InsertedKeepsValues DEF ValueIn
<1>13. /\ Members(r) = Members(st[t]) \cup {e} /\ ValueIn(r, e) = v
       /\ \A m \in Members(st[t]) : ValueIn(r, m) = ValueIn(st[t], m)
  BY <1>8, <1>11, <1>12 DEF SameStore
<1>14. ASSUME NEW new, new = WithStore(st, t, prepared)
       PROVE  StoresOK(new, live) /\ KeepsComponents(st, new) /\ Len(new) = Len(st)
  BY <1>5, <1>14, StoreMoved
<1>15. ASSUME NEW new, new = WithStore(st, t, Inserted(ready, e, v))
       PROVE  StoresOK(new, live) /\ BringsComponent(st, new, t, e, v)
  <2>1. Members(r) \subseteq live
    BY <1>1, <1>13
  <2>2. /\ StoresOK(new, live) /\ Len(new) = Len(st) /\ new[t] = r
        /\ OthersKept(st, new, t)
    BY <1>10, <1>11, <1>15, <2>1, ReplacedIsOK
  <2> QED  BY <1>3, <1>13, <2>2 DEF BringsComponent
<1> QED  BY <1>14, <1>15

LEMMA ComponentErased ==
  ASSUME NEW st, NEW live, StoresOK(st, live), NEW t \in 1 .. Len(st), NEW i \in 1 .. Len(st[t].dense),
         NEW new, new = WithStore(st, t, Erased(st[t], i))
  PROVE  /\ StoresOK(new, live) /\ TakesComponent(st, new, t, st[t].dense[i])
         /\ \A u \in 1 .. Len(st) : new[u].cleanup = st[u].cleanup
<1>1. st[t] \in ComponentStore /\ CellsMatch(st[t]) /\ Members(st[t]) \subseteq live
  BY OneStoreIsOK
<1>2. PICK s \in ComponentStore : s = st[t]
  BY <1>1
<1>3. PICK r : r = Erased(s, i)
  OBVIOUS
<1>4. CellsMatch(s) /\ i \in 1 .. Len(s.dense)
  BY <1>1, <1>2
<1>5. /\ r \in ComponentStore /\ CellsMatch(r) /\ Members(r) = Members(s) \ {s.dense[i]}
      /\ r.cleanup = s.cleanup
  BY <1>3, <1>4, ErasedIsExact
<1>6. \A m \in Members(r) : ValueIn(r, m) = ValueIn(s, m)
  BY <1>3, <1>4, ErasedKeepsValues DEF ValueIn
<1>7. s.dense[i] \in Members(s)
  BY <1>4 DEF Members
<1>8. Members(r) \subseteq live
  BY <1>1, <1>2, <1>5
<1>9. /\ StoresOK(new, live) /\ Len(new) = Len(st) /\ new[t] = r
      /\ OthersKept(st, new, t)
  BY <1>2, <1>3, <1>5, <1>8, ReplacedIsOK
<1>10. TakesComponent(st, new, t, st[t].dense[i])
  BY <1>2, <1>5, <1>6, <1>7, <1>9 DEF TakesComponent
<1> QED  BY <1>2, <1>5, <1>9, <1>10 DEF OthersKept

-----------------------------------------------------------------------------
(* Operations in progress *)

CallRec == [op : {"remove", "destroy", "clear", "dispose"}, entity : Entity \cup {NoEntity},
            store : Nat, last : Nat, at : {"walk", "cleanup"}, index : Nat]

OfOne(c) == c.op \in {"remove", "destroy"}

VictimIn(st, c) == IF OfOne(c) THEN Find(st[c.store], c.entity) ELSE Len(st[c.store].dense)

\* An operation that walks the stores has left nothing of its entity, or nothing at
\* all, in those behind it.
Behind(c, st) ==
  /\ c.op = "destroy" => \A t \in 1 .. c.store - 1 : c.entity \notin Members(st[t])
  /\ c.op \in {"clear", "dispose"} => \A t \in 1 .. c.store - 1 : Members(st[t]) = {}

CallOK(c, st, live) ==
  /\ c \in CallRec /\ 1 <= c.store
  /\ c.op = "remove" => c.last \in 1 .. Len(st)
  /\ c.op # "remove" => c.last = Len(st)
  /\ OfOne(c) => c.entity \in live
  /\ Behind(c, st)
  /\ c.at = "cleanup" => /\ c.store <= c.last /\ st[c.store].cleanup
                         /\ c.index = VictimIn(st, c) /\ c.index # 0

LEMMA OneCall ==
  ASSUME NEW c, calls = <<c>>
  PROVE  /\ calls # <<>> /\ Top = c
         /\ \A x : SetTop(x) => calls' = <<x>>
         /\ Return => calls' = <<>>
<1>1. Len(calls) = 1 /\ calls # <<>> /\ Top = c
  BY DEF Top
<1>2. ASSUME NEW x, SetTop(x)  PROVE calls' = <<x>>
  BY <1>1, <1>2 DEF SetTop
<1>3. Return => calls' = <<>>
  BY <1>1 DEF Return
<1> QED  BY <1>1, <1>2, <1>3

LEMMA NewCall ==
  ASSUME calls = <<>>, NEW x, Begin(x)
  PROVE  calls' = <<x>>
BY DEF Begin

LEMMA CallFields ==
  ASSUME NEW c, NEW st, NEW live, CallOK(c, st, live)
  PROVE  /\ c \in CallRec /\ c.store \in Nat /\ c.last \in Nat /\ c.index \in Nat /\ 1 <= c.store
         /\ c.op \in {"remove", "destroy", "clear", "dispose"}
         /\ c.at \in {"walk", "cleanup"}
BY DEF CallOK, CallRec

LEMMA CallBegins ==
  ASSUME NEW st, NEW live, StoresOK(st, live), NEW x,
         \/ \E e \in live \cap Entity, t \in 1 .. Len(st) : x = Call("remove", e, t, t)
         \/ \E e \in live \cap Entity : x = Call("destroy", e, 1, Len(st))
         \/ \E op \in {"clear", "dispose"} : x = Call(op, NoEntity, 1, Len(st))
  PROVE  CallOK(x, st, live) /\ x.at = "walk"
<1>0. Len(st) \in Nat
  BY DEF StoresOK
<1>1. CASE \E e \in live \cap Entity, t \in 1 .. Len(st) : x = Call("remove", e, t, t)
  BY <1>0, <1>1 DEF Call, CallOK, CallRec, Behind, OfOne
<1>2. CASE \E e \in live \cap Entity : x = Call("destroy", e, 1, Len(st))
  BY <1>0, <1>2 DEF Call, CallOK, CallRec, Behind, OfOne
<1>3. CASE \E op \in {"clear", "dispose"} : x = Call(op, NoEntity, 1, Len(st))
  BY <1>0, <1>3 DEF Call, CallOK, CallRec, Behind, OfOne
<1> QED  BY <1>1, <1>2, <1>3

\* The same operation, further on.
Continues(c, x) == /\ x \in CallRec /\ x.op = c.op /\ x.entity = c.entity /\ x.last = c.last
                   /\ x.at = "walk"

LEMMA StoreAtWork ==
  ASSUME NEW st, NEW live, StoresOK(st, live), live \subseteq Entity, NEW c, CallOK(c, st, live),
         c.store <= c.last
  PROVE  /\ c.store \in 1 .. Len(st) /\ st[c.store] \in ComponentStore /\ CellsMatch(st[c.store])
         /\ VictimIn(st, c) \in 0 .. Len(st[c.store].dense)
         /\ OfOne(c) => /\ c.entity \in Entity
                        /\ VictimIn(st, c) # 0 <=> c.entity \in Members(st[c.store])
                        /\ VictimIn(st, c) # 0 => st[c.store].dense[VictimIn(st, c)] = c.entity
         /\ ~OfOne(c) => (VictimIn(st, c) = 0 <=> Members(st[c.store]) = {})
<1>1. c.store \in 1 .. Len(st)
  <2>1. c.store \in Nat /\ 1 <= c.store /\ Len(st) \in Nat /\ c.last \in Nat
    BY CallFields DEF StoresOK
  <2>2. c.last <= Len(st)
    BY <2>1 DEF CallOK
  <2> QED  BY <2>1, <2>2
<1>2. PICK s \in ComponentStore : s = st[c.store] /\ CellsMatch(s)
  BY <1>1, OneStoreIsOK
<1>3. CASE OfOne(c)
  <2>1. c.entity \in Entity
    BY <1>3 DEF CallOK
  <2> QED  BY <1>1, <1>2, <1>3, <2>1, FindIsExact DEF VictimIn
<1>4. CASE ~OfOne(c)
  <2>1. Len(s.dense) \in Nat
    BY StoreIsInverse
  <2>2. Len(s.dense) = 0 <=> Members(s) = {}
    <3>1. Len(s.dense) # 0 => s.dense[1] \in Members(s)
      BY <2>1 DEF Members
    <3>2. Len(s.dense) = 0 => Members(s) = {}
      BY DEF Members
    <3> QED  BY <3>1, <3>2
  <2> QED  BY <1>1, <1>2, <1>4, <2>1, <2>2 DEF VictimIn
<1> QED  BY <1>3, <1>4

LEMMA CallSkips ==
  ASSUME NEW st, NEW live, StoresOK(st, live), live \subseteq Entity, NEW c, CallOK(c, st, live),
         c.store <= c.last, VictimIn(st, c) = 0, NEW x, Continues(c, x), x.store = c.store + 1
  PROVE  CallOK(x, st, live)
<1>1. /\ c.store \in Nat /\ 1 <= c.store /\ x \in CallRec
  BY CallFields DEF Continues
<1>2. \A t \in 1 .. x.store - 1 : t \in 1 .. c.store - 1 \/ t = c.store
  BY <1>1
<1>3. /\ c.op = "destroy" => c.entity \notin Members(st[c.store])
      /\ c.op \in {"clear", "dispose"} => Members(st[c.store]) = {}
  BY StoreAtWork DEF OfOne
<1>4. Behind(x, st)
  BY <1>2, <1>3 DEF CallOK, Behind, Continues
<1> QED  BY <1>1, <1>4 DEF CallOK, Continues, OfOne

LEMMA CallErases ==
  ASSUME NEW st, NEW live, StoresOK(st, live), live \subseteq Entity, NEW c, CallOK(c, st, live),
         c.store <= c.last, VictimIn(st, c) # 0,
         NEW new, TakesComponent(st, new, c.store, st[c.store].dense[VictimIn(st, c)]),
         NEW x, Continues(c, x), x.store = IF OfOne(c) THEN c.store + 1 ELSE c.store
  PROVE  CallOK(x, new, live)
<1>1. /\ c.store \in Nat /\ 1 <= c.store /\ x \in CallRec /\ Len(new) = Len(st)
  BY CallFields DEF Continues, TakesComponent
<1>2. \A t \in 1 .. c.store - 1 : t \in 1 .. Len(st) /\ t # c.store /\ new[t] = st[t]
  <2>1. c.store \in 1 .. Len(st)
    BY StoreAtWork
  <2> QED  BY <1>1, <2>1 DEF TakesComponent, OthersKept
<1>3. CASE OfOne(c)
  <2>1. \A t \in 1 .. x.store - 1 : t \in 1 .. c.store - 1 \/ t = c.store
    BY <1>1, <1>3
  <2>2. c.entity \notin Members(new[c.store])
    BY <1>3, StoreAtWork DEF TakesComponent
  <2>3. Behind(x, new)
    BY <1>2, <1>3, <2>1, <2>2 DEF CallOK, Behind, Continues, OfOne
  <2> QED  BY <1>1, <1>3, <2>3 DEF CallOK, Continues, OfOne
<1>4. CASE ~OfOne(c)
  <2>1. Behind(x, new)
    BY <1>2, <1>4, ZenonT(60) DEF CallOK, Behind, Continues, OfOne
  <2> QED  BY <1>1, <1>4, <2>1 DEF CallOK, Continues, OfOne
<1> QED  BY <1>3, <1>4

LEMMA CallWaits ==
  ASSUME NEW st, NEW live, NEW c, CallOK(c, st, live), c.store <= c.last, st[c.store].cleanup,
         VictimIn(st, c) # 0, VictimIn(st, c) \in Nat,
         NEW x, x = [c EXCEPT !.at = "cleanup", !.index = VictimIn(st, c)]
  PROVE  CallOK(x, st, live) /\ x.at = "cleanup"
<1>1. PICK i \in Nat : i = VictimIn(st, c)
  OBVIOUS
<1>2. c \in CallRec
  BY CallFields
<1>3. x = [c EXCEPT !.at = "cleanup", !.index = i]
  BY <1>1
<1>4. /\ x \in CallRec /\ x.op = c.op /\ x.entity = c.entity /\ x.last = c.last
      /\ x.store = c.store /\ x.at = "cleanup" /\ x.index = i
  BY <1>2, <1>3, ZenonT(60) DEF CallRec
<1>5. VictimIn(st, x) = i
  BY <1>1, <1>4 DEF VictimIn, OfOne
<1>6. Behind(x, st)
  BY <1>4 DEF CallOK, Behind
<1> QED  BY <1>1, <1>4, <1>5, <1>6 DEF CallOK, OfOne

\* The records the steps write.
LEMMA CallMoves ==
  ASSUME NEW c \in CallRec
  PROVE  /\ c.at = "walk" => /\ Continues(c, [c EXCEPT !.store = @ + 1])
                             /\ [c EXCEPT !.store = @ + 1].store = c.store + 1
         /\ \A x : \/ x = Advance(c) /\ c.at = "walk"
                   \/ x = Advance([c EXCEPT !.at = "walk", !.index = 0])
                   => /\ Continues(c, x)
                      /\ x.store = IF OfOne(c) THEN c.store + 1 ELSE c.store
<1>1. ASSUME NEW d \in CallRec, d.at = "walk"
      PROVE  LET x == [d EXCEPT !.store = @ + 1]
             IN  /\ Continues(d, x) /\ x.store = d.store + 1
  BY <1>1 DEF CallRec, Continues
<1>2. ASSUME NEW d \in CallRec, d.at = "walk"
      PROVE  /\ Continues(d, Advance(d))
             /\ Advance(d).store = IF OfOne(d) THEN d.store + 1 ELSE d.store
  <2>1. CASE OfOne(d)
    BY <1>1, <1>2, <2>1 DEF Advance, OfOne
  <2>2. CASE ~OfOne(d)
    BY <1>2, <2>2 DEF Advance, OfOne, Continues
  <2> QED  BY <2>1, <2>2
<1>3. PICK w : w = [c EXCEPT !.at = "walk", !.index = 0]
  OBVIOUS
<1>4. /\ w \in CallRec /\ w.at = "walk" /\ w.op = c.op /\ w.entity = c.entity
      /\ w.last = c.last /\ w.store = c.store
  BY <1>3 DEF CallRec
<1>5. ASSUME NEW x, x = Advance(w)
      PROVE  Continues(c, x) /\ x.store = IF OfOne(c) THEN c.store + 1 ELSE c.store
  <2>1. Continues(w, x) /\ x.store = IF OfOne(w) THEN w.store + 1 ELSE w.store
    BY <1>2, <1>4, <1>5
  <2> QED  BY <1>4, <2>1 DEF Continues, OfOne
<1> QED  BY <1>1, <1>2, <1>3, <1>5

-----------------------------------------------------------------------------
(* The world *)

WorldInv ==
  /\ SlotsOK(slots, free_head, active_count)
  /\ StoresOK(stores, LiveIn(slots))
  /\ revision \in Nat
  /\ ~open => slots = <<>> /\ stores = <<>>

\* At most one operation is in progress, on a world that exists, and a cleanup is
\* active exactly while that operation waits for one.
CallInv ==
  /\ calls = <<>> \/ (open /\ \E c : calls = <<c>> /\ CallOK(c, stores, LiveIn(slots)))
  /\ cleanup_active <=> \E c : calls = <<c>> /\ c.at = "cleanup"

IInv == WorldInv /\ CallInv

\* What a step may do to the world.
Keeps      == slots' = slots /\ KeepsComponents(stores, stores')
Issues     == /\ stores' = stores
              /\ \E e \in Entity : /\ e \notin IssuedIn(slots)
                                   /\ IssuedIn(slots') = IssuedIn(slots) \cup {e}
                                   /\ LiveIn(slots') = LiveIn(slots) \cup {e}
Brings     == /\ slots' = slots
              /\ \E t \in 1 .. Len(stores), e \in LiveIn(slots), v \in Values :
                   BringsComponent(stores, stores', t, e, v)
Takes      == /\ slots' = slots
              /\ \E t \in 1 .. Len(stores), e \in LiveIn(slots) :
                   /\ TakesComponent(stores, stores', t, e)
                   /\ stores[t].cleanup => /\ calls # <<>> /\ Top.at = "cleanup" /\ Top.store = t
                                           /\ e = stores[t].dense[Top.index]
Retires    == /\ stores' = stores
              /\ \E e \in LiveIn(slots) : /\ \A t \in 1 .. Len(stores) : e \notin Members(stores[t])
                                          /\ LiveIn(slots') = LiveIn(slots) \ {e}
                                          /\ IssuedIn(slots') = IssuedIn(slots)
RetiresAll == /\ stores' = stores
              /\ \A t \in 1 .. Len(stores) : Members(stores[t]) = {}
              /\ LiveIn(slots') = {} /\ IssuedIn(slots') = IssuedIn(slots)
Forgets    == /\ slots' = <<>> /\ stores' = <<>>
              /\ \A t \in 1 .. Len(stores) : Members(stores[t]) = {}

Effect == Keeps \/ Issues \/ Brings \/ Takes \/ Retires \/ RetiresAll \/ Forgets

LEMMA WorldFacts ==
  ASSUME WorldInv
  PROVE  /\ SlotsOK(slots, free_head, active_count) /\ StoresOK(stores, LiveIn(slots))
         /\ slots \in Seq(Slot) /\ Len(slots) <= MaxEntities /\ Len(slots) \in Nat
         /\ stores \in Seq(ComponentStore) /\ Len(stores) \in Nat /\ Len(stores) <= MaxTypes
         /\ LiveIn(slots) \subseteq Entity /\ OneLiveEach(LiveIn(slots))
         /\ KeepsComponents(stores, stores) /\ revision \in Nat
<1>1. SlotsOK(slots, free_head, active_count) /\ StoresOK(stores, LiveIn(slots)) /\ revision \in Nat
  BY DEF WorldInv
<1>2. slots \in Seq(Slot) /\ Len(slots) <= MaxEntities /\ Len(slots) \in Nat
  BY <1>1 DEF SlotsOK
<1>3. stores \in Seq(ComponentStore) /\ Len(stores) \in Nat /\ Len(stores) <= MaxTypes
  BY <1>1 DEF StoresOK
<1>4. LiveIn(slots) \subseteq Entity /\ OneLiveEach(LiveIn(slots))
  BY <1>2, LiveIsEntity, LiveIsOneEach
<1>5. KeepsComponents(stores, stores)
  BY <1>3 DEF KeepsComponents, SameStore
<1> QED  BY <1>1, <1>2, <1>3, <1>4, <1>5

LEMMA MutationIsIdle ==
  ASSUME IInv, AppTurn, open => ~cleanup_active
  PROVE  calls = <<>> /\ ~cleanup_active
<1>1. CASE calls # <<>>
  <2>1. open /\ Top.at = "cleanup" /\ ~cleanup_active
    BY <1>1 DEF IInv, CallInv, AppTurn
  <2>2. PICK c : calls = <<c>>
    BY <1>1 DEF IInv, CallInv
  <2>3. Top = c
    BY <2>2, OneCall
  <2> QED  BY <2>1, <2>2, <2>3 DEF IInv, CallInv
<1>2. CASE calls = <<>>
  BY <1>2 DEF IInv, CallInv
<1> QED  BY <1>1, <1>2

LEMMA Working ==
  ASSUME IInv, calls # <<>>
  PROVE  /\ open
         /\ \E c : /\ calls = <<c>> /\ Top = c /\ CallOK(c, stores, LiveIn(slots))
                   /\ cleanup_active <=> c.at = "cleanup"
<1>1. PICK c : calls = <<c>> /\ open /\ CallOK(c, stores, LiveIn(slots))
  BY DEF IInv, CallInv
<1>2. Top = c
  BY <1>1, OneCall
<1>3. cleanup_active <=> c.at = "cleanup"
  <2>1. \A d : calls = <<d>> => d = c
    BY <1>1
  <2> QED  BY <1>1, <2>1 DEF IInv, CallInv
<1> QED  BY <1>1, <1>2, <1>3

LEMMA IdleAfter ==
  ASSUME calls' = <<>>, ~cleanup_active'
  PROVE  CallInv'
<1>1. ~ \E c : calls' = <<c>> /\ c.at = "cleanup"
  OBVIOUS
<1> QED  BY <1>1 DEF CallInv

LEMMA BusyAfter ==
  ASSUME open', NEW c, calls' = <<c>>, CallOK(c, stores', LiveIn(slots')),
         cleanup_active' <=> c.at = "cleanup"
  PROVE  CallInv'
<1>1. (\E d : calls' = <<d>> /\ d.at = "cleanup") <=> c.at = "cleanup"
  OBVIOUS
<1>2. \E d : calls' = <<d>> /\ CallOK(d, stores', LiveIn(slots'))
  OBVIOUS
<1> QED  BY <1>1, <1>2, Zenon DEF CallInv

LEMMA NothingThere ==
  /\ SlotsOK(<<>>, 0, 0) /\ StoresOK(<<>>, LiveIn(<<>>)) /\ LiveIn(<<>>) = {} /\ IssuedIn(<<>>) = {}
  /\ KeepsComponents(<<>>, <<>>)
<1>1. Len(<<>>) = 0 /\ MaxEntities \in Nat /\ MaxTypes \in Nat
  BY EcsConfiguration
<1>2. AliveIn(<<>>) = {} /\ UnusedIn(<<>>) = {}
  BY <1>1 DEF AliveIn, UnusedIn
<1>3. LiveIn(<<>>) = {}
  BY <1>2 DEF LiveIn
<1>4. IssuedIn(<<>>) = {}
  <2>1. ASSUME NEW e \in Entity  PROVE ~(e.index <= Len(<<>>))
    BY <1>1, EntityFields
  <2> QED  BY <2>1 DEF IssuedIn
<1>5. Linked({}, NextIn(<<>>), 0)
  <2>1. LinksUpwards({}, NextIn(<<>>), 0)
    BY DEF LinksUpwards, NextAbove
  <2>2. 0 \in Nat /\ {} \in SUBSET (1 .. 0)
    OBVIOUS
  <2> QED  BY <2>1, <2>2, LinkedUpwards
<1>6. SlotsOK(<<>>, 0, 0)
  <2>1. <<>> \in Seq(Slot) /\ Len(<<>>) <= MaxEntities /\ \A i \in 1 .. Len(<<>>) : FALSE
    BY <1>1
  <2>2. 0 = Cardinality(AliveIn(<<>>))
    BY <1>2, FS_EmptySet
  <2> QED  BY <1>2, <1>5, <2>1, <2>2 DEF SlotsOK
<1>7. StoresOK(<<>>, LiveIn(<<>>)) /\ KeepsComponents(<<>>, <<>>)
  BY <1>1 DEF StoresOK, KeepsComponents
<1> QED  BY <1>3, <1>4, <1>6, <1>7

LEMMA StartIsSound == Init => IInv
<1> SUFFICES ASSUME Init  PROVE IInv
  OBVIOUS
<1>1. /\ slots = <<>> /\ active_count = 0 /\ free_head = 0 /\ stores = <<>> /\ revision = 0
      /\ cleanup_active = FALSE /\ calls = <<>>
  BY DEF Init
<1>2. WorldInv
  BY <1>1, NothingThere DEF WorldInv
<1>3. ~ \E c : calls = <<c>> /\ c.at = "cleanup"
  BY <1>1
<1>4. CallInv
  BY <1>1, <1>3 DEF CallInv
<1> QED  BY <1>2, <1>4 DEF IInv

\* An operation of the application that is over at once, and changes stores or slots.
LEMMA AtOnce ==
  ASSUME IInv, calls = <<>>, ~cleanup_active, calls' = calls, cleanup_active' = cleanup_active,
         SlotsOK(slots', free_head', active_count'), StoresOK(stores', LiveIn(slots')),
         revision' \in Nat, open'
  PROVE  IInv'
<1>1. WorldInv'
  BY DEF WorldInv
<1>2. CallInv'
  BY IdleAfter
<1> QED  BY <1>1, <1>2 DEF IInv

LEMMA StoresStayOK ==
  ASSUME NEW st, NEW live, NEW later, StoresOK(st, live),
         live \subseteq later
  PROVE  StoresOK(st, later)
BY DEF StoresOK

LEMMA CreateWorldIsSound ==
  ASSUME IInv, CreateWorld
  PROVE  IInv' /\ Effect
<1>1. /\ AppTurn /\ ~open /\ open' = TRUE /\ slots' = <<>> /\ active_count' = 0 /\ free_head' = 0
      /\ stores' = <<>> /\ revision' = 1 /\ cleanup_active' = FALSE /\ calls' = calls
  BY DEF CreateWorld
<1>2. calls = <<>> /\ slots = <<>> /\ stores = <<>>
  BY <1>1, MutationIsIdle DEF IInv, WorldInv
<1>3. IInv'
  <2>1. WorldInv'
    BY <1>1, NothingThere DEF WorldInv
  <2>2. CallInv'
    BY <1>1, <1>2, IdleAfter
  <2> QED  BY <2>1, <2>2 DEF IInv
<1>4. Keeps
  BY <1>1, <1>2, NothingThere DEF Keeps
<1> QED  BY <1>3, <1>4 DEF Effect

LEMMA RegisterIsSound ==
  ASSUME IInv, NEW b \in BOOLEAN, NEW n \in Reservations, RegisterComponent(b, n)
  PROVE  IInv' /\ Effect
<1>1. PICK initial, store :
        /\ initial = (IF n = 0 THEN InitialDense ELSE n)
        /\ store = EmptyStore(b, ChooseCapacity(0, initial, MaxEntities))
        /\ Mutation /\ initial <= MaxEntities /\ Len(stores) < MaxTypes
        /\ (stores' = Append(stores, store) /\ revision' = revision + 1)
           \/ (stores' = stores /\ revision' = revision)
        /\ UNCHANGED <<open, entityVars, cleanup_active, calls>>
  BY Zenon DEF RegisterComponent, CommitRevision
<1>2. /\ calls = <<>> /\ ~cleanup_active /\ open
      /\ slots' = slots /\ free_head' = free_head /\ active_count' = active_count
      /\ open' = open /\ calls' = calls /\ cleanup_active' = cleanup_active
  BY <1>1, MutationIsIdle DEF Mutation, RequireMutable, entityVars
<1>3. initial \in Nat
  BY <1>1, EcsConfiguration
<1>4. PICK c \in Nat : c = ChooseCapacity(0, initial, MaxEntities)
  BY <1>1, <1>3, CapacityIsEnough, EcsConfiguration
<1>5. StoresOK(stores', LiveIn(slots)) /\ KeepsComponents(stores, stores') /\ revision' \in Nat
  <2>1. WorldInv
    BY DEF IInv
  <2>2. CASE stores' = Append(stores, store) /\ revision' = revision + 1
    <3>1. StoresOK(stores, LiveIn(slots)) /\ revision \in Nat
      BY <2>1, WorldFacts
    <3>2. stores' = Append(stores, EmptyStore(b, c)) /\ Len(stores) < MaxTypes
      BY <1>1, <1>4, <2>2
    <3>3. StoresOK(stores', LiveIn(slots)) /\ KeepsComponents(stores, stores')
      BY <3>1, <3>2, StoreRegistered
    <3> QED  BY <2>2, <3>1, <3>3
  <2>3. CASE stores' = stores /\ revision' = revision
    BY <2>1, <2>3, WorldFacts
  <2> QED  BY <1>1, <2>2, <2>3
<1>6. IInv'
  BY <1>2, <1>5, AtOnce, WorldFacts DEF IInv
<1> QED  BY <1>2, <1>5, <1>6 DEF Effect, Keeps

LEMMA ReserveEntitiesIsSound ==
  ASSUME IInv, NEW n, ReserveEntities(n)
  PROVE  IInv' /\ Effect
<1>1. /\ calls = <<>> /\ ~cleanup_active /\ open
      /\ slots' = slots /\ free_head' = free_head /\ active_count' = active_count
      /\ open' = open /\ calls' = calls /\ cleanup_active' = cleanup_active
      /\ stores' = stores /\ revision' = revision + 1
  BY MutationIsIdle DEF ReserveEntities, Mutation, RequireMutable, entityVars, storeVars,
       CommitRevision
<1>2. IInv'
  BY <1>1, AtOnce, WorldFacts DEF IInv
<1> QED  BY <1>1, <1>2, WorldFacts DEF Effect, Keeps, IInv

LEMMA ReserveComponentIsSound ==
  ASSUME IInv, NEW t, NEW n \in Reservations, ReserveComponent(t, n)
  PROVE  IInv' /\ Effect
<1>1. /\ calls = <<>> /\ ~cleanup_active /\ open
      /\ slots' = slots /\ free_head' = free_head /\ active_count' = active_count
      /\ open' = open /\ calls' = calls /\ cleanup_active' = cleanup_active
      /\ t \in 1 .. Len(stores) /\ n <= MaxEntities /\ revision' = revision + 1
  BY MutationIsIdle DEF ReserveComponent, Mutation, RequireMutable, entityVars,
       CommitRevision, Registered
<1>2. PICK s : s = stores[t]
  OBVIOUS
<1>3. PICK r : r = ReserveDense(s, n, MaxEntities)
  OBVIOUS
<1>4. stores' = WithStore(stores, t, r)
  BY <1>2, <1>3 DEF ReserveComponent, WithStore
<1>5. s \in ComponentStore /\ CellsMatch(s)
  BY <1>1, <1>2, WorldFacts, OneStoreIsOK DEF IInv
<1>6. r \in ComponentStore /\ CellsMatch(r) /\ SamePacked(s, r)
  BY <1>1, <1>3, <1>5, DenseIsReserved, EcsConfiguration, SMTT(60) DEF SamePacked
<1>7. StoresOK(stores', LiveIn(slots)) /\ KeepsComponents(stores, stores')
  BY <1>1, <1>2, <1>4, <1>6, WorldFacts, StoreMoved DEF IInv
<1>8. IInv'
  BY <1>1, <1>7, AtOnce, WorldFacts DEF IInv
<1> QED  BY <1>1, <1>7, <1>8 DEF Effect, Keeps

\* A new handle.
LEMMA EntityIssued ==
  ASSUME IInv, calls = <<>>, ~cleanup_active, calls' = calls, cleanup_active' = cleanup_active,
         open', SlotsOK(slots', free_head', active_count'), stores' = stores,
         revision' = revision + 1,
         \E e \in Entity : /\ e \notin IssuedIn(slots)
                           /\ IssuedIn(slots') = IssuedIn(slots) \cup {e}
                           /\ LiveIn(slots') = LiveIn(slots) \cup {e}
  PROVE  IInv' /\ Effect
<1>1. StoresOK(stores, LiveIn(slots)) /\ revision \in Nat
  BY WorldFacts DEF IInv
<1>2. LiveIn(slots) \subseteq LiveIn(slots')
  OBVIOUS
<1>3. StoresOK(stores', LiveIn(slots')) /\ revision' \in Nat
  BY <1>1, <1>2, StoresStayOK
<1>4. IInv'
  BY <1>3, AtOnce
<1> QED  BY <1>4 DEF Effect, Issues

LEMMA ReuseSlotIsSound ==
  ASSUME IInv, ReuseSlot
  PROVE  IInv' /\ Effect
<1>1. /\ calls = <<>> /\ ~cleanup_active /\ open
      /\ open' = open /\ calls' = calls /\ cleanup_active' = cleanup_active
      /\ stores' = stores /\ revision' = revision + 1
      /\ free_head # 0 /\ active_count' = active_count + 1
      /\ free_head' = slots[free_head].next_free
      /\ slots' = [slots EXCEPT ![free_head].alive = TRUE, ![free_head].next_free = 0]
  BY MutationIsIdle DEF ReuseSlot, Mutation, RequireMutable, storeVars, CommitRevision
<1>2. SlotsOK(slots, free_head, active_count)
  BY WorldFacts DEF IInv
<1>3. /\ SlotsOK(slots', slots[free_head].next_free, active_count + 1)
      /\ \E e \in Entity : /\ e \notin IssuedIn(slots)
                           /\ IssuedIn(slots') = IssuedIn(slots) \cup {e}
                           /\ LiveIn(slots') = LiveIn(slots) \cup {e}
  BY <1>1, <1>2, SlotReused, ZenonT(60)
<1>4. SlotsOK(slots', free_head', active_count')
  BY <1>1, <1>3
<1> QED  BY <1>1, <1>3, <1>4, EntityIssued

LEMMA NewSlotIsSound ==
  ASSUME IInv, NewSlot
  PROVE  IInv' /\ Effect
<1>1. /\ calls = <<>> /\ ~cleanup_active /\ open
      /\ open' = open /\ calls' = calls /\ cleanup_active' = cleanup_active
      /\ stores' = stores /\ revision' = revision + 1
      /\ free_head' = free_head /\ active_count' = active_count + 1 /\ Len(slots) < MaxEntities
      /\ slots' = Append(slots, [generation |-> 1, next_free |-> 0, alive |-> TRUE])
  BY MutationIsIdle DEF NewSlot, Mutation, RequireMutable, storeVars, CommitRevision
<1>2. SlotsOK(slots, free_head, active_count)
  BY WorldFacts DEF IInv
<1>3. /\ SlotsOK(slots', free_head, active_count + 1)
      /\ \E e \in Entity : /\ e \notin IssuedIn(slots)
                           /\ IssuedIn(slots') = IssuedIn(slots) \cup {e}
                           /\ LiveIn(slots') = LiveIn(slots) \cup {e}
  BY <1>1, <1>2, SlotAppended, ZenonT(60)
<1>4. SlotsOK(slots', free_head', active_count')
  BY <1>1, <1>3
<1> QED  BY <1>1, <1>3, <1>4, EntityIssued

LEMMA ValidIsLive ==
  ASSUME WorldInv, NEW e \in Entity, ValidateEntity(e)
  PROVE  e \in LiveIn(slots)
BY WorldFacts, LiveIsValid DEF ValidateEntity

LEMMA AddIsSound ==
  ASSUME IInv, NEW e \in Entity, NEW t, NEW v \in Values, Add(e, t, v)
  PROVE  IInv' /\ Effect
<1> DEFINE prepared == ReserveSparse(stores[t], e.index, MaxEntities)
           ready    == ReserveDense(prepared, Len(prepared.dense) + 1, MaxEntities)
<1>1. /\ calls = <<>> /\ ~cleanup_active /\ open
      /\ slots' = slots /\ free_head' = free_head /\ active_count' = active_count
      /\ open' = open /\ calls' = calls /\ cleanup_active' = cleanup_active
      /\ t \in 1 .. Len(stores) /\ e \in LiveIn(slots) /\ Find(stores[t], e) = 0
  BY MutationIsIdle, ValidIsLive DEF Add, Mutation, RequireMutable, entityVars, Registered, IInv
<1>2. PICK p : p = prepared
  OBVIOUS
<1>3. PICK r : r = ReserveDense(p, Len(p.dense) + 1, MaxEntities)
  OBVIOUS
<1>4. \/ stores' = WithStore(stores, t, Inserted(r, e, v)) /\ revision' = revision + 1
      \/ stores' = WithStore(stores, t, p) /\ revision' = revision
  BY <1>2, <1>3 DEF Add, WithStore, CommitRevision
<1>5. /\ StoresOK(stores, LiveIn(slots)) /\ LiveIn(slots) \subseteq Entity
      /\ OneLiveEach(LiveIn(slots)) /\ revision \in Nat
      /\ SlotsOK(slots, free_head, active_count)
  BY WorldFacts DEF IInv
<1>6. PICK live : live = LiveIn(slots)
  OBVIOUS
<1>7. /\ \A new : new = WithStore(stores, t, p) =>
           StoresOK(new, live) /\ KeepsComponents(stores, new) /\ Len(new) = Len(stores)
      /\ \A new : new = WithStore(stores, t, Inserted(r, e, v)) =>
           StoresOK(new, live) /\ BringsComponent(stores, new, t, e, v)
  BY <1>1, <1>2, <1>3, <1>5, <1>6, ComponentInserted
<1>8. CASE stores' = WithStore(stores, t, Inserted(r, e, v)) /\ revision' = revision + 1
  <2>1. StoresOK(stores', live) /\ BringsComponent(stores, stores', t, e, v) /\ revision' \in Nat
    BY <1>5, <1>7, <1>8
  <2>2. IInv'
    BY <1>1, <1>5, <1>6, <2>1, AtOnce
  <2>3. Brings
    BY <1>1, <2>1 DEF Brings
  <2> QED  BY <2>2, <2>3 DEF Effect
<1>9. CASE stores' = WithStore(stores, t, p) /\ revision' = revision
  <2>1. StoresOK(stores', live) /\ KeepsComponents(stores, stores') /\ revision' \in Nat
    BY <1>5, <1>7, <1>9
  <2>2. IInv'
    BY <1>1, <1>5, <1>6, <2>1, AtOnce
  <2>3. Keeps
    BY <1>1, <2>1 DEF Keeps
  <2> QED  BY <2>2, <2>3 DEF Effect
<1> QED  BY <1>4, <1>8, <1>9

\* An operation that walks the stores begins.
LEMMA WalkBegins ==
  ASSUME IInv, calls = <<>>, ~cleanup_active, open, NEW x, Begin(x),
         CallOK(x, stores, LiveIn(slots)), x.at = "walk",
         UNCHANGED <<open, entityVars, storeVars, revision, cleanup_active>>
  PROVE  IInv' /\ Effect
<1>1. /\ slots' = slots /\ free_head' = free_head /\ active_count' = active_count
      /\ stores' = stores /\ revision' = revision /\ open' = open
      /\ cleanup_active' = cleanup_active
  BY DEF entityVars, storeVars
<1>2. calls' = <<x>>
  BY NewCall
<1>3. CallInv'
  BY <1>1, <1>2, BusyAfter
<1>4. WorldInv'
  BY <1>1 DEF IInv, WorldInv
<1>5. Keeps
  BY <1>1, WorldFacts DEF Keeps, IInv
<1> QED  BY <1>3, <1>4, <1>5 DEF IInv, Effect

LEMMA WalksAreSound ==
  /\ \A e \in Entity, t \in 1 .. MaxTypes : IInv /\ Remove(e, t) => IInv' /\ Effect
  /\ \A e \in Entity : IInv /\ DestroyEntity(e) => IInv' /\ Effect
  /\ IInv /\ Clear => IInv' /\ Effect
  /\ IInv /\ DestroyWorld => IInv' /\ Effect
<1>1. ASSUME IInv, Mutation
      PROVE  /\ calls = <<>> /\ ~cleanup_active /\ open /\ StoresOK(stores, LiveIn(slots))
             /\ WorldInv
  BY <1>1, MutationIsIdle, WorldFacts DEF Mutation, RequireMutable, IInv
<1>2. ASSUME IInv, NEW e \in Entity, NEW t \in 1 .. MaxTypes, Remove(e, t)
      PROVE  IInv' /\ Effect
  <2>1. PICK x : x = Call("remove", e, t, t)
    OBVIOUS
  <2>2. /\ Mutation /\ ValidateEntity(e) /\ t \in 1 .. Len(stores) /\ Begin(x)
        /\ UNCHANGED <<open, entityVars, storeVars, revision, cleanup_active>>
    BY <1>2, <2>1 DEF Remove, Registered
  <2>3. e \in LiveIn(slots) \cap Entity
    BY <1>1, <1>2, <2>2, ValidIsLive
  <2>4. CallOK(x, stores, LiveIn(slots)) /\ x.at = "walk"
    BY <1>1, <1>2, <2>1, <2>2, <2>3, CallBegins
  <2> QED  BY <1>1, <1>2, <2>2, <2>4, WalkBegins
<1>3. ASSUME IInv, NEW e \in Entity, DestroyEntity(e)
      PROVE  IInv' /\ Effect
  <2>1. PICK x : x = Call("destroy", e, 1, Len(stores))
    OBVIOUS
  <2>2. /\ Mutation /\ ValidateEntity(e) /\ Begin(x)
        /\ UNCHANGED <<open, entityVars, storeVars, revision, cleanup_active>>
    BY <1>3, <2>1 DEF DestroyEntity
  <2>3. e \in LiveIn(slots) \cap Entity
    BY <1>1, <1>3, <2>2, ValidIsLive
  <2>4. CallOK(x, stores, LiveIn(slots)) /\ x.at = "walk"
    BY <1>1, <1>3, <2>1, <2>2, <2>3, CallBegins
  <2> QED  BY <1>1, <1>3, <2>2, <2>4, WalkBegins
<1>4. ASSUME IInv, NEW op \in {"clear", "dispose"}, Mutation,
             Begin(Call(op, NoEntity, 1, Len(stores))),
             UNCHANGED <<open, entityVars, storeVars, revision, cleanup_active>>
      PROVE  IInv' /\ Effect
  <2>1. PICK x : x = Call(op, NoEntity, 1, Len(stores))
    OBVIOUS
  <2>2. CallOK(x, stores, LiveIn(slots)) /\ x.at = "walk"
    BY <1>1, <1>4, <2>1, CallBegins
  <2> QED  BY <1>1, <1>4, <2>1, <2>2, WalkBegins
<1>5. ASSUME IInv, Clear  PROVE IInv' /\ Effect
  BY <1>4, <1>5 DEF Clear
<1>6. ASSUME IInv, DestroyWorld  PROVE IInv' /\ Effect
  BY <1>4, <1>6 DEF DestroyWorld
<1> QED  BY <1>2, <1>3, <1>5, <1>6

\* A step of an operation in progress: the slots stay, and so does the revision.
LEMMA WalkGoesOn ==
  ASSUME WorldInv, open, open' = open, slots' = slots, free_head' = free_head,
         active_count' = active_count, revision' = revision,
         StoresOK(stores', LiveIn(slots)), NEW x, calls' = <<x>>,
         CallOK(x, stores', LiveIn(slots)), cleanup_active' <=> x.at = "cleanup"
  PROVE  IInv'
<1>1. WorldInv'
  BY DEF WorldInv
<1>2. CallInv'
  BY BusyAfter
<1> QED  BY <1>1, <1>2 DEF IInv

LEMMA SkipIsSound == IInv /\ SkipStore => IInv' /\ Effect
<1> SUFFICES ASSUME IInv, SkipStore  PROVE IInv' /\ Effect
  OBVIOUS
<1>1. /\ calls # <<>> /\ Top.at = "walk" /\ Top.store <= Top.last /\ Victim(Top) = 0
      /\ SetTop([Top EXCEPT !.store = @ + 1])
      /\ open' = open /\ slots' = slots /\ free_head' = free_head
      /\ active_count' = active_count /\ stores' = stores /\ revision' = revision
      /\ cleanup_active' = cleanup_active
  BY DEF SkipStore, Walking, entityVars, storeVars
<1>2. PICK c : /\ calls = <<c>> /\ Top = c /\ CallOK(c, stores, LiveIn(slots))
               /\ cleanup_active <=> c.at = "cleanup"
  BY <1>1, Working
<1>3. open /\ WorldInv /\ StoresOK(stores, LiveIn(slots)) /\ LiveIn(slots) \subseteq Entity
  BY <1>1, Working, WorldFacts DEF IInv
<1>4. c.at = "walk" /\ c.store <= c.last /\ VictimIn(stores, c) = 0
  BY <1>1, <1>2 DEF Victim, VictimIn, OfOne
<1>5. PICK x : x = [c EXCEPT !.store = @ + 1]
  OBVIOUS
<1>6. Continues(c, x) /\ x.store = c.store + 1
  BY <1>2, <1>4, <1>5, CallFields, CallMoves
<1>7. CallOK(x, stores, LiveIn(slots))
  BY <1>2, <1>3, <1>4, <1>6, CallSkips
<1>8. calls' = <<x>>
  BY <1>1, <1>2, <1>5, OneCall
<1>9. ~cleanup_active' /\ x.at = "walk"
  BY <1>1, <1>2, <1>4, <1>6 DEF Continues
<1>10. IInv'
  BY <1>1, <1>3, <1>7, <1>8, <1>9, WalkGoesOn
<1>11. Keeps
  BY <1>1, <1>3, WorldFacts DEF Keeps
<1> QED  BY <1>10, <1>11 DEF Effect

LEMMA BeginCleanupIsSound == IInv /\ BeginCleanup => IInv' /\ Effect
<1> SUFFICES ASSUME IInv, BeginCleanup  PROVE IInv' /\ Effect
  OBVIOUS
<1>1. /\ calls # <<>> /\ Top.at = "walk" /\ Top.store <= Top.last /\ Victim(Top) # 0
      /\ stores[Top.store].cleanup
      /\ SetTop([Top EXCEPT !.at = "cleanup", !.index = Victim(Top)])
      /\ open' = open /\ slots' = slots /\ free_head' = free_head
      /\ active_count' = active_count /\ stores' = stores /\ revision' = revision
      /\ cleanup_active'
  BY DEF BeginCleanup, Walking, entityVars, storeVars
<1>2. PICK c : /\ calls = <<c>> /\ Top = c /\ CallOK(c, stores, LiveIn(slots))
               /\ cleanup_active <=> c.at = "cleanup"
  BY <1>1, Working
<1>3. open /\ WorldInv /\ StoresOK(stores, LiveIn(slots)) /\ LiveIn(slots) \subseteq Entity
  BY <1>1, Working, WorldFacts DEF IInv
<1>4. /\ c.store <= c.last /\ VictimIn(stores, c) # 0 /\ stores[c.store].cleanup
      /\ Victim(c) = VictimIn(stores, c)
  BY <1>1, <1>2 DEF Victim, VictimIn, OfOne
<1>5. VictimIn(stores, c) \in Nat
  BY <1>2, <1>3, <1>4, StoreAtWork, WorldFacts, SMTT(60)
<1>6. PICK x : x = [c EXCEPT !.at = "cleanup", !.index = VictimIn(stores, c)]
  OBVIOUS
<1>7. CallOK(x, stores, LiveIn(slots)) /\ x.at = "cleanup"
  BY <1>2, <1>4, <1>5, <1>6, CallWaits
<1>8. calls' = <<x>>
  BY <1>1, <1>2, <1>4, <1>6, OneCall
<1>9. IInv'
  BY <1>1, <1>3, <1>7, <1>8, WalkGoesOn
<1>10. Keeps
  BY <1>1, <1>3, WorldFacts DEF Keeps
<1> QED  BY <1>9, <1>10 DEF Effect

\* The component of a store at work goes, and its operation goes on.
LEMMA ErasureIsSound ==
  ASSUME IInv, NEW c, calls = <<c>>, CallOK(c, stores, LiveIn(slots)), c.store <= c.last,
         VictimIn(stores, c) # 0, stores[c.store].cleanup => c.at = "cleanup",
         stores' = WithStore(stores, c.store, Erased(stores[c.store], VictimIn(stores, c))),
         NEW x, Continues(c, x), x.store = IF OfOne(c) THEN c.store + 1 ELSE c.store,
         calls' = <<x>>, ~cleanup_active', open' = open, slots' = slots,
         free_head' = free_head, active_count' = active_count, revision' = revision,
         c.at = "cleanup" => c.index = VictimIn(stores, c)
  PROVE  IInv' /\ Effect
<1>1. Top = c /\ calls # <<>>
  BY OneCall
<1>2. open /\ WorldInv /\ StoresOK(stores, LiveIn(slots)) /\ LiveIn(slots) \subseteq Entity
  BY <1>1, Working, WorldFacts DEF IInv
<1>3. PICK t : t = c.store
  OBVIOUS
<1>4. PICK i : i = VictimIn(stores, c)
  OBVIOUS
<1>5. t \in 1 .. Len(stores) /\ i \in 1 .. Len(stores[t].dense)
  <2>1. t \in 1 .. Len(stores) /\ i \in 0 .. Len(stores[t].dense) /\ i # 0
    BY <1>2, <1>3, <1>4, StoreAtWork
  <2>2. stores[t] \in ComponentStore
    BY <1>2, <2>1, OneStoreIsOK
  <2>3. Len(stores[t].dense) \in Nat
    BY <2>2 DEF ComponentStore
  <2> QED  BY <2>1, <2>3
<1>6. PICK e : e = stores[t].dense[i]
  OBVIOUS
<1>7. StoresOK(stores', LiveIn(slots)) /\ TakesComponent(stores, stores', t, e)
  BY <1>2, <1>3, <1>4, <1>5, <1>6, ComponentErased
<1>8. CallOK(x, stores', LiveIn(slots))
  BY <1>2, <1>3, <1>4, <1>6, <1>7, CallErases
<1>9. x.at = "walk"
  BY DEF Continues
<1>10. IInv'
  BY <1>2, <1>7, <1>8, <1>9, WalkGoesOn
<1>11. e \in LiveIn(slots)
  BY <1>2, <1>5, <1>7, OneStoreIsOK DEF TakesComponent
<1>12. Takes
  BY <1>1, <1>3, <1>4, <1>5, <1>6, <1>7, <1>11 DEF Takes
<1> QED  BY <1>10, <1>12 DEF Effect

LEMMA EraseSilentlyIsSound == IInv /\ EraseSilently => IInv' /\ Effect
<1> SUFFICES ASSUME IInv, EraseSilently  PROVE IInv' /\ Effect
  OBVIOUS
<1>1. /\ calls # <<>> /\ Top.at = "walk" /\ Top.store <= Top.last /\ Victim(Top) # 0
      /\ ~stores[Top.store].cleanup
      /\ SetTop(Advance(Top))
      /\ stores' = [stores EXCEPT ![Top.store] = Erased(stores[Top.store], Victim(Top))]
      /\ open' = open /\ slots' = slots /\ free_head' = free_head
      /\ active_count' = active_count /\ revision' = revision
      /\ cleanup_active' = cleanup_active
  BY DEF EraseSilently, Walking, entityVars
<1>2. PICK c : /\ calls = <<c>> /\ Top = c /\ CallOK(c, stores, LiveIn(slots))
               /\ cleanup_active <=> c.at = "cleanup"
  BY <1>1, Working
<1>3. /\ c.store <= c.last /\ VictimIn(stores, c) # 0 /\ ~stores[c.store].cleanup
      /\ Victim(c) = VictimIn(stores, c) /\ c.at = "walk"
  BY <1>1, <1>2 DEF Victim, VictimIn, OfOne
<1>4. stores' = WithStore(stores, c.store, Erased(stores[c.store], VictimIn(stores, c)))
  BY <1>1, <1>2, <1>3 DEF WithStore
<1>5. PICK x : x = Advance(c)
  BY SMTT(60)
<1>6. Continues(c, x) /\ x.store = IF OfOne(c) THEN c.store + 1 ELSE c.store
  BY <1>2, <1>3, <1>5, CallFields, CallMoves
<1>7. calls' = <<x>> /\ ~cleanup_active'
  BY <1>1, <1>2, <1>3, <1>5, OneCall
<1> QED  BY <1>1, <1>2, <1>3, <1>4, <1>6, <1>7, ErasureIsSound

LEMMA CleanupReturnsIsSound == IInv /\ CleanupReturns => IInv' /\ Effect
<1> SUFFICES ASSUME IInv, CleanupReturns  PROVE IInv' /\ Effect
  OBVIOUS
<1>1. /\ calls # <<>> /\ Top.at = "cleanup" /\ ~cleanup_active'
      /\ SetTop(Advance([Top EXCEPT !.at = "walk", !.index = 0]))
      /\ stores' = [stores EXCEPT ![Top.store] = Erased(stores[Top.store], Top.index)]
      /\ open' = open /\ slots' = slots /\ free_head' = free_head
      /\ active_count' = active_count /\ revision' = revision
  BY DEF CleanupReturns, entityVars
<1>2. PICK c : /\ calls = <<c>> /\ Top = c /\ CallOK(c, stores, LiveIn(slots))
  BY <1>1, Working
<1>3. /\ c.at = "cleanup" /\ c.store <= c.last /\ c.index = VictimIn(stores, c)
      /\ VictimIn(stores, c) # 0
  BY <1>1, <1>2 DEF CallOK
<1>4. stores' = WithStore(stores, c.store, Erased(stores[c.store], VictimIn(stores, c)))
  BY <1>1, <1>2, <1>3 DEF WithStore
<1>5. PICK x : x = Advance([c EXCEPT !.at = "walk", !.index = 0])
  BY SMTT(60)
<1>6. Continues(c, x) /\ x.store = IF OfOne(c) THEN c.store + 1 ELSE c.store
  BY <1>2, <1>3, <1>5, CallFields, CallMoves
<1>7. calls' = <<x>>
  BY <1>1, <1>2, <1>5, OneCall
<1> QED  BY <1>1, <1>2, <1>3, <1>4, <1>6, <1>7, ErasureIsSound

\* An operation is over once it has passed every store.
LEMMA WalkEnds ==
  ASSUME IInv, NEW op \in {"remove", "destroy", "clear", "dispose"}, Walked(op), Return
  PROVE  /\ open /\ ~cleanup_active /\ calls' = <<>> /\ WorldInv
         /\ \E c : /\ calls = <<c>> /\ Top = c /\ CallOK(c, stores, LiveIn(slots)) /\ c.op = op
                   /\ op = "destroy" => /\ c.entity \in LiveIn(slots)
                                        /\ \A t \in 1 .. Len(stores) : c.entity \notin Members(stores[t])
                   /\ op \in {"clear", "dispose"} => \A t \in 1 .. Len(stores) : Members(stores[t]) = {}
<1>1. calls # <<>> /\ Top.op = op /\ Top.at = "walk" /\ Top.store > Top.last
  BY DEF Walked
<1>2. PICK c : /\ calls = <<c>> /\ Top = c /\ CallOK(c, stores, LiveIn(slots))
               /\ cleanup_active <=> c.at = "cleanup"
  BY <1>1, Working
<1>3. open /\ ~cleanup_active /\ calls' = <<>> /\ WorldInv
  BY <1>1, <1>2, Working, OneCall DEF IInv
<1>4. c.store \in Nat /\ c.last \in Nat /\ c.store > c.last /\ c.op = op
  BY <1>1, <1>2, CallFields
<1>5. op # "remove" => \A t \in 1 .. Len(stores) : t \in 1 .. c.store - 1
  <2>1. op # "remove" => c.last = Len(stores)
    BY <1>2, <1>4 DEF CallOK
  <2> QED  BY <1>4, <2>1
<1>6. Behind(c, stores) /\ (op = "destroy" => c.entity \in LiveIn(slots))
  BY <1>2, <1>4 DEF CallOK, OfOne
<1> QED  BY <1>2, <1>3, <1>4, <1>5, <1>6 DEF Behind

\* The world at rest again, later by one revision.
LEMMA RestsAfter ==
  ASSUME WorldInv, open, ~cleanup_active, calls' = <<>>, open' = open,
         cleanup_active' = cleanup_active, stores' = stores, revision' = revision + 1,
         SlotsOK(slots', free_head', active_count'), StoresOK(stores, LiveIn(slots'))
  PROVE  IInv'
<1>1. WorldInv'
  BY WorldFacts DEF WorldInv
<1>2. CallInv'
  BY IdleAfter
<1> QED  BY <1>1, <1>2 DEF IInv

LEMMA RemoveReturnsIsSound == IInv /\ RemoveReturns => IInv' /\ Effect
<1> SUFFICES ASSUME IInv, RemoveReturns  PROVE IInv' /\ Effect
  OBVIOUS
<1>1. /\ Walked("remove") /\ Return /\ open' = open /\ slots' = slots /\ free_head' = free_head
      /\ active_count' = active_count /\ stores' = stores /\ revision' = revision + 1
      /\ cleanup_active' = cleanup_active
  BY DEF RemoveReturns, entityVars, storeVars, CommitRevision
<1>2. open /\ ~cleanup_active /\ calls' = <<>> /\ WorldInv
  BY <1>1, WalkEnds
<1>3. IInv'
  BY <1>1, <1>2, RestsAfter, WorldFacts
<1>4. Keeps
  BY <1>1, <1>2, WorldFacts DEF Keeps
<1> QED  BY <1>3, <1>4 DEF Effect

\* What aforc_ecs_recycle_or_retire_slot writes.
LEMMA RecycledOrRetired ==
  ASSUME NEW i, RecycleOrRetireSlot(i), NEW slot, slot = Recycled(slots[i])
  PROVE  /\ slots' = GivenBack(slots, i, slot, IF Reusable(slot) THEN free_head ELSE 0)
         /\ free_head' = IF Reusable(slot) THEN i ELSE free_head
<1>1. CASE Reusable(slot)
  BY <1>1 DEF RecycleOrRetireSlot, GivenBack, FreeSlot
<1>2. CASE ~Reusable(slot)
  BY <1>2 DEF RecycleOrRetireSlot, GivenBack, FreeSlot
<1> QED  BY <1>1, <1>2

LEMMA DestroyReturnsIsSound == IInv /\ DestroyReturns => IInv' /\ Effect
<1> SUFFICES ASSUME IInv, DestroyReturns  PROVE IInv' /\ Effect
  OBVIOUS
<1>1. /\ Walked("destroy") /\ Return /\ open' = open /\ RecycleOrRetireSlot(Top.entity.index)
      /\ active_count' = active_count - 1 /\ stores' = stores /\ revision' = revision + 1
      /\ cleanup_active' = cleanup_active
  BY DEF DestroyReturns, storeVars, CommitRevision
<1>2. open /\ ~cleanup_active /\ calls' = <<>> /\ WorldInv
  BY <1>1, WalkEnds
<1>3. PICK c : /\ Top = c /\ c.entity \in LiveIn(slots)
               /\ \A t \in 1 .. Len(stores) : c.entity \notin Members(stores[t])
  BY <1>1, WalkEnds
<1>4. PICK e \in LiveIn(slots) : e = c.entity
  BY <1>3
<1>5. PICK i : i = e.index
  OBVIOUS
<1>6. PICK slot : slot = Recycled(slots[i])
  OBVIOUS
<1>7. /\ SlotsOK(slots, free_head, active_count) /\ StoresOK(stores, LiveIn(slots))
      /\ e \in Entity
  BY <1>2, WorldFacts
<1>8. RecycleOrRetireSlot(i)
  BY <1>1, <1>3, <1>4, <1>5
<1>9. PICK f, g : /\ f = (IF Reusable(slot) THEN free_head ELSE 0)
                  /\ g = (IF Reusable(slot) THEN i ELSE free_head)
  OBVIOUS
<1>10. slots' = GivenBack(slots, i, slot, f) /\ free_head' = g
  BY <1>6, <1>8, <1>9, RecycledOrRetired
<1>11. /\ SlotsOK(slots', g, active_count - 1)
       /\ LiveIn(slots') = LiveIn(slots) \ {e} /\ IssuedIn(slots') = IssuedIn(slots)
  BY <1>5, <1>6, <1>7, <1>9, <1>10, SlotRecycled
<1>12. SlotsOK(slots', free_head', active_count')
  BY <1>1, <1>10, <1>11
<1>13. \A t \in 1 .. Len(stores) : e \notin Members(stores[t])
  BY <1>3, <1>4
<1>14. StoresOK(stores, LiveIn(slots'))
  BY <1>7, <1>11, <1>13 DEF StoresOK
<1>15. IInv'
  BY <1>1, <1>2, <1>12, <1>14, RestsAfter
<1>16. Retires
  BY <1>1, <1>11, <1>13 DEF Retires
<1> QED  BY <1>15, <1>16 DEF Effect

\* The slot that follows i when all are linked upwards.
FirstAbove(U, i) == IF \E j \in U : j > i
                    THEN CHOOSE j \in U : j > i /\ \A k \in U : k > i => j <= k
                    ELSE 0

LEMMA FollowsAbove ==
  ASSUME NEW n \in Nat, NEW U \in SUBSET (1 .. n), NEW i \in Nat,
         NEW x, x = FirstAbove(U, i)
  PROVE  NextAbove(U, i, x)
<1>1. CASE \E j \in U : j > i
  <2>1. PICK T : T = {j \in U : j > i}
    OBVIOUS
  <2>2. T \in SUBSET Nat /\ T # {}
    <3>1. U \subseteq Nat
      OBVIOUS
    <3> QED  BY <1>1, <2>1, <3>1
  <2>3. PICK m \in T : \A k \in T : m <= k
    BY <2>2, LeastElement
  <2>4. m \in U /\ m > i /\ \A k \in U : k > i => m <= k
    BY <2>1, <2>3
  <2>5. \E j \in U : j > i /\ \A k \in U : k > i => j <= k
    BY <2>4
  <2>6. x \in U /\ x > i /\ \A k \in U : k > i => x <= k
    BY <1>1, <2>5 DEF FirstAbove
  <2> QED  BY <2>6 DEF NextAbove
<1>2. CASE ~ \E j \in U : j > i
  BY <1>2 DEF NextAbove, FirstAbove
<1> QED  BY <1>1, <1>2

\* What aforc_ecs_clear writes.
LEMMA EverySlotRecycled ==
  ASSUME RecycleEverySlot, Len(slots) \in Nat, NEW U, U = UsableIn(slots)
  PROVE  \E next : /\ LinksUpwards(U, next, free_head')
                   /\ slots' = AllGivenBack(slots, U, next)
<1>1. /\ slots' = [i \in 1 .. Len(slots) |->
                     [Recycled(slots[i]) EXCEPT
                        !.next_free = IF i \in U THEN FirstAbove(U, i) ELSE 0]]
      /\ free_head' = FirstAbove(U, 0)
  BY DEF RecycleEverySlot, FirstAbove, UsableIn
<1>2. PICK next : next = [i \in U |-> FirstAbove(U, i)]
  OBVIOUS
<1>3. U \in SUBSET (1 .. Len(slots))
  BY DEF UsableIn
<1>4. ASSUME NEW i \in Nat  PROVE NextAbove(U, i, FirstAbove(U, i))
  BY <1>3, FollowsAbove
<1>5. \A i \in U : next[i] = FirstAbove(U, i) /\ i \in Nat
  BY <1>2, <1>3
<1>6. LinksUpwards(U, next, free_head')
  BY <1>1, <1>4, <1>5 DEF LinksUpwards
<1>7. slots' = AllGivenBack(slots, U, next)
  BY <1>1, <1>5 DEF AllGivenBack, FreeSlot
<1> QED  BY <1>6, <1>7

LEMMA ClearReturnsIsSound == IInv /\ ClearReturns => IInv' /\ Effect
<1> SUFFICES ASSUME IInv, ClearReturns  PROVE IInv' /\ Effect
  OBVIOUS
<1>1. /\ Walked("clear") /\ Return /\ open' = open /\ RecycleEverySlot
      /\ active_count' = 0 /\ stores' = stores /\ revision' = revision + 1
      /\ cleanup_active' = cleanup_active
  BY DEF ClearReturns, storeVars, CommitRevision
<1>2. /\ open /\ ~cleanup_active /\ calls' = <<>> /\ WorldInv
      /\ \A t \in 1 .. Len(stores) : Members(stores[t]) = {}
  BY <1>1, WalkEnds
<1>3. /\ SlotsOK(slots, free_head, active_count) /\ StoresOK(stores, LiveIn(slots))
      /\ Len(slots) \in Nat
  BY <1>2, WorldFacts
<1>4. PICK U : U = UsableIn(slots)
  OBVIOUS
<1>5. PICK next : LinksUpwards(U, next, free_head') /\ slots' = AllGivenBack(slots, U, next)
  BY <1>1, <1>3, <1>4, EverySlotRecycled
<1>6. /\ SlotsOK(slots', free_head', 0) /\ LiveIn(slots') = {}
      /\ IssuedIn(slots') = IssuedIn(slots)
  BY <1>3, <1>4, <1>5, SlotsRecycled
<1>7. SlotsOK(slots', free_head', active_count')
  BY <1>1, <1>6
<1>8. StoresOK(stores, LiveIn(slots'))
  BY <1>2, <1>3 DEF StoresOK
<1>9. IInv'
  BY <1>1, <1>2, <1>7, <1>8, RestsAfter
<1>10. RetiresAll
  BY <1>1, <1>2, <1>6 DEF RetiresAll
<1> QED  BY <1>9, <1>10 DEF Effect

LEMMA DisposeReturnsIsSound == IInv /\ DisposeReturns => IInv' /\ Effect
<1> SUFFICES ASSUME IInv, DisposeReturns  PROVE IInv' /\ Effect
  OBVIOUS
<1>1. /\ Walked("dispose") /\ Return /\ slots' = <<>> /\ active_count' = 0 /\ free_head' = 0
      /\ stores' = <<>> /\ revision' = 0 /\ cleanup_active' = cleanup_active
  BY DEF DisposeReturns
<1>2. /\ ~cleanup_active /\ calls' = <<>>
      /\ \A t \in 1 .. Len(stores) : Members(stores[t]) = {}
  BY <1>1, WalkEnds
<1>3. WorldInv'
  BY <1>1, NothingThere DEF WorldInv
<1>4. CallInv'
  BY <1>1, <1>2, IdleAfter
<1>5. Forgets
  BY <1>1, <1>2 DEF Forgets
<1> QED  BY <1>3, <1>4, <1>5 DEF IInv, Effect

LEMMA StepIsSound == IInv /\ EcsNext => IInv' /\ Effect
<1> SUFFICES ASSUME IInv, EcsNext  PROVE IInv' /\ Effect
  OBVIOUS
<1>1. CASE Application
  BY <1>1, CreateWorldIsSound, RegisterIsSound, ReserveEntitiesIsSound, ReserveComponentIsSound,
     ReuseSlotIsSound, NewSlotIsSound, AddIsSound, WalksAreSound DEF Application
<1>2. CASE Operation
  BY <1>2, SkipIsSound, EraseSilentlyIsSound, BeginCleanupIsSound, RemoveReturnsIsSound,
     DestroyReturnsIsSound, ClearReturnsIsSound, DisposeReturnsIsSound DEF Operation
<1>3. CASE DestroyWorld
  BY <1>3, WalksAreSound
<1>4. CASE CleanupReturns
  BY <1>4, CleanupReturnsIsSound
<1> QED  BY <1>1, <1>2, <1>3, <1>4 DEF EcsNext

LEMMA StutterIsSound == IInv /\ UNCHANGED ecsVars => IInv'
<1> SUFFICES ASSUME IInv, UNCHANGED ecsVars  PROVE IInv'
  OBVIOUS
<1>1. /\ slots' = slots /\ free_head' = free_head /\ active_count' = active_count
      /\ stores' = stores /\ revision' = revision /\ open' = open
      /\ cleanup_active' = cleanup_active /\ calls' = calls
  BY DEF ecsVars, entityVars, storeVars
<1>2. WorldInv'
  BY <1>1 DEF IInv, WorldInv
<1>3. CallInv'
  BY <1>1 DEF IInv, CallInv
<1> QED  BY <1>2, <1>3 DEF IInv

LEMMA Invariance == Spec => []IInv
<1>1. IInv /\ [EcsNext]_ecsVars => IInv'
  BY StepIsSound, StutterIsSound
<1> QED  BY <1>1, StartIsSound, PTL DEF Spec

-----------------------------------------------------------------------------
(* Tables *)

LEMMA LiveIsLiveIn == Live = LiveIn(slots)
BY DEF Live, HandleOf, LiveIn, AliveIn

LEMMA TablesAgree == IInv => TablesAreExact
<1> SUFFICES ASSUME IInv  PROVE TablesAreExact
  OBVIOUS
<1>1. /\ SlotsOK(slots, free_head, active_count) /\ StoresOK(stores, LiveIn(slots))
      /\ slots \in Seq(Slot)
  BY WorldFacts DEF IInv
<1>2. StoresAreExact
  BY <1>1, LiveIsLiveIn DEF StoresAreExact, StoresOK
<1>3. Unused = UnusedIn(slots)
  BY DEF Unused, UnusedIn
<1>4. UnusedIn(slots) \in SUBSET (Nat \ {0}) /\ UnusedIn(slots) \in SUBSET (1 .. Len(slots))
  BY <1>1, UnusedIsPositive
<1>5. Linked(UnusedIn(slots), NextIn(slots), free_head)
  BY <1>1 DEF SlotsOK
<1>6. /\ free_head \in UnusedIn(slots) \cup {0}
      /\ \A i \in UnusedIn(slots) : NextIn(slots)[i] \in UnusedIn(slots) \cup {0}
      /\ \A S \in SUBSET (UnusedIn(slots) \cup {0}) :
           free_head \in S /\ (\A i \in S \ {0} : NextIn(slots)[i] \in S)
             => S = UnusedIn(slots) \cup {0}
  BY <1>4, <1>5, ListIsExact
<1>7. \A i \in UnusedIn(slots) : NextIn(slots)[i] = slots[i].next_free
  BY <1>4 DEF NextIn
<1>8. Closed(Unused \cup {0})
  BY <1>3, <1>6, <1>7 DEF Closed
<1>9. ASSUME NEW S \in SUBSET (Unused \cup {0}), Closed(S)
      PROVE  S = Unused \cup {0}
  <2>1. free_head \in S /\ \A i \in S \ {0} : NextIn(slots)[i] \in S
    BY <1>3, <1>7, <1>9 DEF Closed
  <2> QED  BY <1>3, <1>6, <1>9, <2>1
<1>10. active_count = Cardinality({i \in 1 .. Len(slots) : slots[i].alive})
  BY <1>1 DEF SlotsOK, AliveIn
<1> QED  BY <1>2, <1>8, <1>9, <1>10 DEF TablesAreExact, FreeListIsExact

\* For any number of entities and types: after every operation of the world, each component
\* is found through the cell of its entity, none outlives its entity, and the free list of
\* ecs_entity.c holds exactly the dead slots that are not retired.
THEOREM TablesStayExact == Spec => []TablesAreExact
BY Invariance, TablesAgree, PTL

-----------------------------------------------------------------------------
(* Cleanups *)

LEMMA TargetHolds == IInv => CleanupTargetHolds
<1> SUFFICES ASSUME IInv, calls # <<>>, Top.at = "cleanup"
             PROVE  LET store == stores[Top.store]
                    IN  /\ Top.index \in 1 .. Len(store.dense)
                        /\ store.dense[Top.index] \in Live
                        /\ Find(store, store.dense[Top.index]) = Top.index
                        /\ Top.op \in {"remove", "destroy"} => store.dense[Top.index] = Top.entity
  BY DEF CleanupTargetHolds
<1>1. PICK c : calls = <<c>> /\ Top = c /\ CallOK(c, stores, LiveIn(slots))
  BY Working
<1>2. StoresOK(stores, LiveIn(slots)) /\ LiveIn(slots) \subseteq Entity
  BY WorldFacts DEF IInv
<1>3. /\ c.at = "cleanup" /\ c.store <= c.last /\ c.index = VictimIn(stores, c)
      /\ VictimIn(stores, c) # 0
  BY <1>1 DEF CallOK
<1>4. PICK s : s = stores[c.store]
  OBVIOUS
<1>5. /\ c.store \in 1 .. Len(stores) /\ s \in ComponentStore /\ CellsMatch(s)
      /\ c.index \in 0 .. Len(s.dense)
      /\ OfOne(c) => s.dense[c.index] = c.entity
  BY <1>1, <1>2, <1>3, <1>4, StoreAtWork
<1>6. c.index \in 1 .. Len(s.dense)
  <2>1. Len(s.dense) \in Nat
    BY <1>5, StoreIsInverse
  <2> QED  BY <1>3, <1>5, <2>1
<1>7. Find(s, s.dense[c.index]) = c.index
  BY <1>5, <1>6, ValueIsInPlace
<1>8. s.dense[c.index] \in LiveIn(slots)
  BY <1>2, <1>4, <1>5, <1>6, OneStoreIsOK DEF Members
<1> QED  BY <1>1, <1>4, <1>5, <1>6, <1>7, <1>8, LiveIsLiveIn DEF OfOne

LEMMA ErasureFollowsCleanup == IInv /\ Effect => ErasedAfterCleanup
<1> SUFFICES ASSUME IInv, Effect, NEW t \in 1 .. Len(stores) \cap 1 .. Len(stores'),
                    Members(stores[t]) \ Members(stores'[t]) # {}
             PROVE  /\ Cardinality(Members(stores[t]) \ Members(stores'[t])) = 1
                    /\ stores[t].cleanup =>
                         /\ calls # <<>> /\ Top.at = "cleanup" /\ Top.store = t
                         /\ Members(stores[t]) \ Members(stores'[t])
                              = {stores[t].dense[Top.index]}
  BY Zenon DEF ErasedAfterCleanup
<1>1. ~(stores' = stores)
  OBVIOUS
<1>2. ~Keeps
  BY DEF Keeps, KeepsComponents, SameStore
<1>3. ~Brings
  <2>1. ASSUME NEW u, NEW e, NEW v, BringsComponent(stores, stores', u, e, v)  PROVE FALSE
    <3>1. CASE u = t
      BY <2>1, <3>1 DEF BringsComponent
    <3>2. CASE u # t
      BY <2>1, <3>2 DEF BringsComponent, OthersKept
    <3> QED  BY <3>1, <3>2
  <2> QED  BY <2>1 DEF Brings
<1>4. ~Forgets
  BY DEF Forgets
<1>5. Takes
  BY <1>1, <1>2, <1>3, <1>4 DEF Effect, Issues, Retires, RetiresAll
<1>6. PICK u \in 1 .. Len(stores), e \in LiveIn(slots) :
        /\ TakesComponent(stores, stores', u, e)
        /\ stores[u].cleanup => /\ calls # <<>> /\ Top.at = "cleanup" /\ Top.store = u
                                /\ e = stores[u].dense[Top.index]
  BY <1>5 DEF Takes
<1>7. u = t
  BY <1>6 DEF TakesComponent, OthersKept
<1>8. Members(stores[t]) \ Members(stores'[t]) = {e}
  BY <1>6, <1>7 DEF TakesComponent
<1>9. Cardinality({e}) = 1
  BY FS_Singleton
<1> QED  BY <1>6, <1>7, <1>8, <1>9

\* A component with a cleanup leaves its store only when its own cleanup has returned, and
\* while the cleanup runs the component and its entity are there, whatever the application
\* calls from it, in every store and for any number of components.
THEOREM CleanupsAreHonoured == Spec => CleanupIsHonoured
<1>1. IInv /\ [EcsNext]_ecsVars => [ErasedAfterCleanup]_ecsVars
  BY StepIsSound, ErasureFollowsCleanup
<1>2. Spec => []CleanupTargetHolds
  BY Invariance, TargetHolds, PTL
<1>3. Spec => [][ErasedAfterCleanup]_ecsVars
  BY <1>1, Invariance, PTL DEF Spec
<1> QED  BY <1>2, <1>3, PTL DEF CleanupIsHonoured

-----------------------------------------------------------------------------
(* Revisions *)

\* What the application can see and is not told of.
SeesTheSame ==
  /\ slots' = slots /\ Live' = Live /\ Len(stores') = Len(stores) /\ slot_capacity' = slot_capacity
  /\ \A t \in 1 .. Len(stores) :
       /\ stores'[t].dense = stores[t].dense
       /\ stores'[t].data = stores[t].data
       /\ stores'[t].capacity = stores[t].capacity

Dated ==
  open /\ open' =>
    /\ revision' \in {revision, revision + 1}
    /\ (calls = <<>> /\ calls' = <<>> /\ revision' = revision) => SeesTheSame
    /\ (calls # <<>> /\ calls' = <<>>) => revision' = revision + 1

\* An operation that commits a revision, one that changes nothing that is seen, and a step
\* of one in progress.
LEMMA CommitIsDated ==
  ASSUME WorldInv, CommitRevision
  PROVE  Dated
<1>1. revision \in Nat /\ revision' = revision + 1
  BY WorldFacts DEF CommitRevision
<1> QED  BY <1>1 DEF Dated

LEMMA SightIsDated ==
  ASSUME revision' = revision, SeesTheSame, calls = <<>> \/ calls' # <<>>
  PROVE  Dated
BY DEF Dated

LEMMA StayingIsSeen ==
  ASSUME stores' = stores, slots' = slots, slot_capacity' = slot_capacity
  PROVE  SeesTheSame
BY DEF SeesTheSame, Live, HandleOf

LEMMA CallsGoOn ==
  ASSUME revision' = revision, calls # <<>>, calls' # <<>>
  PROVE  Dated
BY DEF Dated

LEMMA ApplicationIsDated == IInv /\ Application => Dated
<1> SUFFICES ASSUME IInv, Application  PROVE Dated
  OBVIOUS
<1>1. WorldInv
  BY DEF IInv
<1>2. CASE CreateWorld
  BY <1>2 DEF CreateWorld, Dated
<1>3. ASSUME NEW b \in BOOLEAN, NEW n \in Reservations, RegisterComponent(b, n)  PROVE Dated
  <2>1. \/ CommitRevision
        \/ stores' = stores /\ revision' = revision
    BY <1>3 DEF RegisterComponent
  <2>2. slots' = slots /\ slot_capacity' = slot_capacity
    BY <1>3 DEF RegisterComponent, entityVars
  <2>3. calls = <<>>
    BY <1>3, MutationIsIdle DEF RegisterComponent, Mutation, RequireMutable
  <2> QED  BY <1>1, <2>1, <2>2, <2>3, CommitIsDated, SightIsDated, StayingIsSeen
<1>4. ASSUME NEW n \in Reservations, ReserveEntities(n)  PROVE Dated
  BY <1>1, <1>4, CommitIsDated DEF ReserveEntities
<1>5. ASSUME NEW t \in 1 .. MaxTypes, NEW n \in Reservations, ReserveComponent(t, n)  PROVE Dated
  BY <1>1, <1>5, CommitIsDated DEF ReserveComponent
<1>6. CASE ReuseSlot
  BY <1>1, <1>6, CommitIsDated DEF ReuseSlot
<1>7. CASE NewSlot
  BY <1>1, <1>7, CommitIsDated DEF NewSlot
<1>8. ASSUME NEW e \in Entity, NEW t \in 1 .. MaxTypes, NEW v \in Values, Add(e, t, v)
      PROVE  Dated
  <2>1. PICK p : p = ReserveSparse(stores[t], e.index, MaxEntities)
    OBVIOUS
  <2>2. \/ CommitRevision
        \/ stores' = [stores EXCEPT ![t] = p] /\ revision' = revision
    BY <1>8, <2>1 DEF Add
  <2>3. /\ slots' = slots /\ slot_capacity' = slot_capacity /\ calls = <<>>
        /\ t \in 1 .. Len(stores)
    BY <1>8, MutationIsIdle DEF Add, entityVars, Mutation, RequireMutable, Registered
  <2>4. CASE stores' = [stores EXCEPT ![t] = p] /\ revision' = revision
    <3>1. StoresOK(stores, LiveIn(slots))
      BY <1>1, WorldFacts
    <3>2. stores[t] \in ComponentStore /\ CellsMatch(stores[t]) /\ stores \in Seq(ComponentStore)
      BY <2>3, <3>1, OneStoreIsOK
    <3>3. e.index \in 0 .. MaxEntities
      BY EntityFields, EcsConfiguration
    <3>4. p.dense = stores[t].dense /\ p.data = stores[t].data /\ p.capacity = stores[t].capacity
      BY <2>1, <3>2, <3>3, SparseIsReserved
    <3>5. /\ Len(stores') = Len(stores)
          /\ \A u \in 1 .. Len(stores) : stores'[u] = IF u = t THEN p ELSE stores[u]
      BY <2>3, <2>4, <3>2
    <3>6. SeesTheSame
      BY <2>3, <3>4, <3>5 DEF SeesTheSame, Live, HandleOf
    <3> QED  BY <2>3, <2>4, <3>6, SightIsDated
  <2> QED  BY <1>1, <2>2, <2>4, CommitIsDated
<1>9. ASSUME revision' = revision, stores' = stores, slots' = slots,
             slot_capacity' = slot_capacity, Mutation, NEW x, Begin(x)
      PROVE  Dated
  <2>1. calls = <<>>
    BY <1>9, MutationIsIdle DEF Mutation, RequireMutable
  <2> QED  BY <1>9, <2>1, SightIsDated, StayingIsSeen
<1>10. ASSUME NEW e \in Entity, NEW t \in 1 .. MaxTypes, Remove(e, t)  PROVE Dated
  BY <1>9, <1>10 DEF Remove, entityVars, storeVars
<1>11. ASSUME NEW e \in Entity, DestroyEntity(e)  PROVE Dated
  BY <1>9, <1>11 DEF DestroyEntity, entityVars, storeVars
<1>12. CASE Clear
  BY <1>9, <1>12 DEF Clear, entityVars, storeVars
<1> QED  BY <1>2, <1>3, <1>4, <1>5, <1>6, <1>7, <1>8, <1>10, <1>11, <1>12 DEF Application

LEMMA OperationIsDated == IInv /\ (DestroyWorld \/ Operation \/ CleanupReturns) => Dated
<1> SUFFICES ASSUME IInv, DestroyWorld \/ Operation \/ CleanupReturns  PROVE Dated
  OBVIOUS
<1>1. WorldInv
  BY DEF IInv
<1>2. ASSUME calls # <<>>, NEW x, SetTop(x)  PROVE calls' # <<>>
  <2>1. PICK c : calls = <<c>>
    BY <1>2, Working
  <2> QED  BY <1>2, <2>1, OneCall
<1>3. CASE DestroyWorld
  <2>1. /\ calls = <<>> /\ revision' = revision /\ stores' = stores /\ slots' = slots
        /\ slot_capacity' = slot_capacity
    BY <1>3, MutationIsIdle DEF DestroyWorld, Mutation, RequireMutable, entityVars, storeVars
  <2> QED  BY <2>1, SightIsDated, StayingIsSeen
<1>4. CASE SkipStore
  BY <1>2, <1>4, CallsGoOn DEF SkipStore, Walking
<1>5. CASE EraseSilently
  BY <1>2, <1>5, CallsGoOn DEF EraseSilently, Walking
<1>6. CASE BeginCleanup
  BY <1>2, <1>6, CallsGoOn DEF BeginCleanup, Walking
<1>7. CASE CleanupReturns
  BY <1>2, <1>7, CallsGoOn DEF CleanupReturns
<1>8. CASE RemoveReturns
  BY <1>1, <1>8, CommitIsDated DEF RemoveReturns
<1>9. CASE DestroyReturns
  BY <1>1, <1>9, CommitIsDated DEF DestroyReturns
<1>10. CASE ClearReturns
  BY <1>1, <1>10, CommitIsDated DEF ClearReturns
<1>11. CASE DisposeReturns
  BY <1>11 DEF DisposeReturns, Dated
<1> QED  BY <1>3, <1>4, <1>5, <1>6, <1>7, <1>8, <1>9, <1>10, <1>11 DEF Operation

\* Whatever the application can see change, an entity, a component or a table that moved, is
\* dated by a revision that follows the last one, for any number of entities, types and
\* reservations: a view that finds the revision it was made at has nothing stale in it.
THEOREM ChangesStayDated == Spec => ChangesAreDated
<1>1. IInv /\ [EcsNext]_ecsVars => [Dated]_ecsVars
  BY ApplicationIsDated, OperationIsDated DEF EcsNext
<1>2. Spec => [][Dated]_ecsVars
  BY <1>1, Invariance, PTL DEF Spec
<1> QED  BY <1>2, PTL DEF ChangesAreDated, Dated, SeesTheSame

-----------------------------------------------------------------------------
(* Refinement *)

\* The handles and the components of the specification, read off the tables.
Abstracts == /\ Issued = IssuedIn(slots) /\ Live = LiveIn(slots)
             /\ [x \in Attached |-> ValueOf(x)] = ComponentIn(stores)

LEMMA AbstractState == WorldInv => Abstracts
<1> SUFFICES ASSUME WorldInv  PROVE Abstracts
  OBVIOUS
<1>1. Issued = IssuedIn(slots)
  BY WorldFacts, IssuedIsExact DEF Issued
<1>2. Attached = AttachedIn(stores)
  BY DEF Attached, AttachedAt, AttachedIn
<1>3. [x \in Attached |-> ValueOf(x)] = ComponentIn(stores)
  BY <1>2 DEF ValueOf, ComponentIn
<1> QED  BY <1>1, <1>3, LiveIsLiveIn DEF Abstracts

LEMMA AbstractLater ==
  ASSUME WorldInv'
  PROVE  /\ Issued' = IssuedIn(slots') /\ Live' = LiveIn(slots')
         /\ [x \in Attached |-> ValueOf(x)]' = ComponentIn(stores')
<1>1. WorldInv' => Abstracts'
  BY AbstractState, PTL
<1> QED  BY <1>1 DEF Abstracts

LEMMA PromiseAtStart == Init => Promise!Init
<1> SUFFICES ASSUME Init  PROVE Promise!Init
  OBVIOUS
<1>1. slots = <<>> /\ stores = <<>> /\ WorldInv
  BY StartIsSound DEF Init, IInv
<1>2. Issued = {} /\ Live = {} /\ [x \in Attached |-> ValueOf(x)] = ComponentIn(<<>>)
  BY <1>1, AbstractState, NothingThere DEF Abstracts
<1>3. ComponentIn(<<>>) = <<>>
  <2>1. AttachedIn(<<>>) = {}
    BY DEF AttachedIn
  <2> QED  BY <2>1 DEF ComponentIn
<1> QED  BY <1>2, <1>3 DEF Promise!Init

\* Each effect is a step of the entity store, or none.
LEMMA EffectIsPromised ==
  ASSUME IInv, IInv', Effect
  PROVE  Promise!Next \/ UNCHANGED Promise!vars
<1> DEFINE component == [x \in Attached |-> ValueOf(x)]
<1>1. /\ WorldInv /\ WorldInv'
      /\ stores \in Seq(ComponentStore) /\ slots \in Seq(Slot) /\ Len(stores) <= MaxTypes
      /\ Len(stores) \in Nat
  BY WorldFacts DEF IInv
<1>2. Issued = IssuedIn(slots) /\ Live = LiveIn(slots) /\ component = ComponentIn(stores)
  BY <1>1, AbstractState DEF Abstracts
<1>3. Issued' = IssuedIn(slots') /\ Live' = LiveIn(slots') /\ component' = ComponentIn(stores')
  BY <1>1, AbstractLater
<1>4. DOMAIN component = AttachedIn(stores)
  BY <1>2 DEF ComponentIn
<1>5. stores' \in Seq(ComponentStore)
  BY <1>1 DEF WorldInv, StoresOK
<1> HIDE DEF component
<1>6. CASE Keeps
  <2>1. ComponentIn(stores') = ComponentIn(stores)
    BY <1>1, <1>5, <1>6, ComponentsKept DEF Keeps
  <2>2. Issued' = Issued /\ Live' = Live /\ component' = component
    BY <1>2, <1>3, <1>6, <2>1 DEF Keeps
  <2> QED  BY <2>2 DEF Promise!vars, component
<1>7. CASE Issues
  <2>1. PICK e \in Entity : /\ e \notin Issued /\ Issued' = Issued \cup {e}
                            /\ Live' = Live \cup {e}
    BY <1>2, <1>3, <1>7 DEF Issues
  <2>2. component' = component
    BY <1>2, <1>3, <1>7 DEF Issues
  <2> QED  BY <2>1, <2>2 DEF Promise!Next, Promise!Create, component
<1>8. CASE Brings
  <2>1. PICK t, e, v : /\ t \in 1 .. Len(stores) /\ e \in Live /\ v \in Values
                       /\ BringsComponent(stores, stores', t, e, v)
    BY <1>2, <1>8 DEF Brings
  <2>2. Issued' = Issued /\ Live' = Live /\ t \in 1 .. MaxTypes
    BY <1>1, <1>2, <1>3, <1>8, <2>1, EcsConfiguration DEF Brings
  <2>3. /\ <<e, t>> \notin DOMAIN component
        /\ component' = [x \in DOMAIN component \cup {<<e, t>>} |->
                           IF x = <<e, t>> THEN v ELSE component[x]]
    <3>1. BringsComponent(stores, stores', t, e, v)
      BY <2>1
    <3>2. /\ <<e, t>> \notin AttachedIn(stores)
          /\ ComponentIn(stores') = With(ComponentIn(stores), <<e, t>>, v)
      BY ONLY <3>1, ComponentBrought
    <3>3. <<e, t>> \notin DOMAIN component /\ component' = With(component, <<e, t>>, v)
      BY <1>2, <1>3, <1>4, <3>2
    <3> QED  BY <3>3, Zenon DEF With
  <2>4. \E h \in Live, u \in 1 .. MaxTypes, z \in Values :
          /\ <<h, u>> \notin DOMAIN component
          /\ component' = [x \in DOMAIN component \cup {<<h, u>>} |->
                             IF x = <<h, u>> THEN z ELSE component[x]]
          /\ Issued' = Issued /\ Live' = Live
    BY <2>1, <2>2, <2>3, Zenon
  <2>5. Promise!Attach
    BY <2>4, Zenon DEF Promise!Attach, component
  <2> QED  BY <2>5 DEF Promise!Next
<1>9. CASE Takes
  <2>1. PICK t \in 1 .. Len(stores), e \in LiveIn(slots) :
          TakesComponent(stores, stores', t, e)
    BY <1>9 DEF Takes
  <2>2. Issued' = Issued /\ Live' = Live
    BY <1>2, <1>3, <1>9 DEF Takes
  <2>3. PICK x : x = <<e, t>>
    OBVIOUS
  <2>4. /\ x \in DOMAIN component
        /\ component' = [y \in DOMAIN component \ {x} |-> component[y]]
    <3>1. x \in DOMAIN component /\ component' = Without(component, x)
      BY <1>2, <1>3, <1>4, <2>1, <2>3, ComponentTaken
    <3> QED  BY <3>1 DEF Without
  <2>5. Promise!Detach
    BY <2>2, <2>4, Zenon DEF Promise!Detach, Promise!Restrict, component
  <2> QED  BY <2>5 DEF Promise!Next
<1>10. CASE Retires
  <2>1. PICK e \in Live : /\ \A t \in 1 .. Len(stores) : e \notin Members(stores[t])
                          /\ Live' = Live \ {e} /\ Issued' = Issued
    BY <1>2, <1>3, <1>10 DEF Retires
  <2>2. component' = component
    BY <1>2, <1>3, <1>10 DEF Retires
  <2>3. \A t \in 1 .. MaxTypes : <<e, t>> \notin DOMAIN component
    BY <1>4, <2>1, AttachedIsMember
  <2> QED  BY <2>1, <2>2, <2>3 DEF Promise!Next, Promise!Retire, component
<1>11. ASSUME \A t \in 1 .. Len(stores) : Members(stores[t]) = {}
       PROVE  DOMAIN component = {}
  BY <1>4, <1>11 DEF AttachedIn
<1>12. CASE RetiresAll
  <2>1. /\ Live' = {} /\ Issued' = Issued /\ component' = component
        /\ DOMAIN component = {}
    BY <1>2, <1>3, <1>11, <1>12 DEF RetiresAll
  <2> QED  BY <2>1 DEF Promise!Next, Promise!RetireAll, component
<1>13. CASE Forgets
  <2>1. Live' = {} /\ Issued' = {} /\ DOMAIN component = {}
    BY <1>2, <1>3, <1>11, <1>13, NothingThere DEF Forgets
  <2>2. component' = component
    <3>1. AttachedIn(stores) = {} /\ AttachedIn(<<>>) = {}
      BY <1>4, <2>1 DEF AttachedIn
    <3>2. ComponentIn(stores) = ComponentIn(<<>>)
      BY <3>1 DEF ComponentIn
    <3> QED  BY <1>2, <1>3, <1>13, <3>2 DEF Forgets
  <2> QED  BY <2>1, <2>2 DEF Promise!Next, Promise!Forget, component
<1> QED  BY <1>6, <1>7, <1>8, <1>9, <1>10, <1>12, <1>13 DEF Effect

LEMMA StutterIsPromised ==
  ASSUME IInv, IInv', UNCHANGED ecsVars
  PROVE  UNCHANGED Promise!vars
<1>1. WorldInv /\ WorldInv' /\ slots' = slots /\ stores' = stores
  BY DEF IInv, ecsVars, entityVars, storeVars
<1>2. /\ Issued = IssuedIn(slots) /\ Live = LiveIn(slots)
      /\ [x \in Attached |-> ValueOf(x)] = ComponentIn(stores)
  BY <1>1, AbstractState DEF Abstracts
<1>3. /\ Issued' = IssuedIn(slots') /\ Live' = LiveIn(slots')
      /\ [x \in Attached |-> ValueOf(x)]' = ComponentIn(stores')
  BY <1>1, AbstractLater
<1> QED  BY <1>1, <1>2, <1>3 DEF Promise!vars

\* The world of src/src/ecs is an entity store, for any number of entities, types, generations
\* and values: no handle is given out twice in the life of a world, no step brings, takes or
\* changes any component but the one it is about, and an entity goes with nothing left.
THEOREM PromiseIsKept == Spec => KeepsPromise
<1>1. IInv /\ IInv' /\ [EcsNext]_ecsVars => [Promise!Next]_(Promise!vars)
  BY StepIsSound, EffectIsPromised, StutterIsPromised
<1> QED  BY <1>1, Invariance, PromiseAtStart, PTL DEF Spec, KeepsPromise, Promise!Spec


-----------------------------------------------------------------------------
(* Views *)

RowRec  == [entity : Entity, values : Seq(Values)]
ViewRec == [required : Seq(1 .. MaxTypes), driver : Nat, cursor : Nat, revision : Nat,
            rows : Seq(RowRec)]

\* The list of types of a view lasts: they stay registered, and one of them, or the
\* slots, drives it.
Driven(view) ==
  /\ \A n \in 1 .. Len(view.required) : view.required[n] \in 1 .. Len(stores)
  /\ \/ view.required = <<>> /\ view.driver = NoDriver
     \/ \E n \in 1 .. Len(view.required) : view.driver = view.required[n]

\* Behind the cursor of a view of the present world is what it handed out.
CandidatesTo(view, n) == {Candidate(view, m) : m \in 1 .. n}
Positioned(view) ==
  /\ view.cursor <= Length(view)
  /\ Seen(view) = CandidatesTo(view, view.cursor) \cap Matching(view.required)

ViewOK(view) ==
  /\ view \in ViewRec /\ Driven(view)
  /\ view.revision <= revision
  /\ calls = <<>> /\ view.revision = revision => Positioned(view)

\* A world that is viewed exists, and is not being destroyed.
Lasting == open /\ (calls # <<>> => Top.op # "dispose")

ViewInv ==
  /\ \A v \in DOMAIN views : ViewOK(views[v])
  /\ DOMAIN views # {} => Lasting

LEMMA ViewFields ==
  ASSUME NEW view \in ViewRec
  PROVE  /\ view.required \in Seq(1 .. MaxTypes) /\ view.driver \in Nat /\ view.cursor \in Nat
         /\ view.revision \in Nat /\ view.rows \in Seq(RowRec)
         /\ Len(view.required) \in Nat /\ Len(view.rows) \in Nat
BY DEF ViewRec

\* A driver is either none, for a view that requires nothing, or a registered type that is
\* required.
LEMMA Drives ==
  ASSUME NEW view \in ViewRec, Driven(view)
  PROVE  \/ /\ view.driver = NoDriver /\ view.required = <<>>
            /\ Length(view) = Len(slots) /\ \A n : Candidate(view, n) = HandleOf(n)
         \/ /\ view.driver # NoDriver /\ view.driver \in 1 .. Len(stores)
            /\ \E n \in 1 .. Len(view.required) : view.driver = view.required[n]
            /\ Length(view) = Len(stores[view.driver].dense)
            /\ \A n : Candidate(view, n) = stores[view.driver].dense[n]
<1>1. CASE view.required = <<>> /\ view.driver = NoDriver
  BY <1>1 DEF Length, Candidate
<1>2. CASE \E n \in 1 .. Len(view.required) : view.driver = view.required[n]
  <2>1. PICK n \in 1 .. Len(view.required) : view.driver = view.required[n]
    BY <1>2
  <2>2. view.driver \in 1 .. Len(stores)
    BY <2>1 DEF Driven
  <2>3. view.driver # NoDriver
    BY <2>2 DEF NoDriver
  <2> QED  BY <1>2, <2>2, <2>3 DEF Length, Candidate
<1> QED  BY <1>1, <1>2 DEF Driven

LEMMA LengthIsNatural ==
  ASSUME WorldInv, NEW view \in ViewRec, Driven(view)
  PROVE  Length(view) \in Nat
<1>1. CASE Length(view) = Len(slots)
  BY <1>1, WorldFacts
<1>2. CASE view.driver \in 1 .. Len(stores) /\ Length(view) = Len(stores[view.driver].dense)
  <2>1. PICK s : s = stores[view.driver]
    OBVIOUS
  <2>2. s.dense \in Seq(Entity)
    BY <1>2, <2>1, WorldFacts, OneStoreIsOK, StoreIsInverse
  <2> QED  BY <1>2, <2>1, <2>2
<1> QED  BY <1>1, <1>2, Drives

\* The handles of the slots are told apart by their index.
LEMMA HandlesDiffer ==
  ASSUME WorldInv, NEW i \in 1 .. Len(slots)
  PROVE  /\ HandleOf(i) \in Entity /\ HandleOf(i).index = i
         /\ HandleOf(i) \in Live <=> slots[i].alive
<1>1. slots \in Seq(Slot) /\ Len(slots) <= MaxEntities
  BY WorldFacts
<1>2. PICK e : e = HandleOf(i)
  OBVIOUS
<1>3. e \in Entity /\ e.index = i /\ e.generation = slots[i].generation
  BY <1>1, <1>2, HandleIsEntity DEF HandleOf
<1>4. e \in LiveIn(slots) <=> slots[i].alive
  BY <1>1, <1>3, LiveIsValid
<1> QED  BY <1>2, <1>3, <1>4, LiveIsLiveIn

\* What a view runs over are entities, no two of them the same.
LEMMA CandidatesDiffer ==
  ASSUME WorldInv, NEW view \in ViewRec, Driven(view),
         NEW n \in 1 .. Length(view), NEW m \in 1 .. Length(view)
  PROVE  /\ Candidate(view, n) \in Entity
         /\ Candidate(view, n) = Candidate(view, m) => n = m
<1>1. CASE /\ Length(view) = Len(slots) /\ \A j : Candidate(view, j) = HandleOf(j)
  BY <1>1, HandlesDiffer
<1>2. CASE /\ view.driver \in 1 .. Len(stores) /\ Length(view) = Len(stores[view.driver].dense)
           /\ \A j : Candidate(view, j) = stores[view.driver].dense[j]
  <2>1. PICK s : s = stores[view.driver]
    OBVIOUS
  <2>2. s \in ComponentStore /\ CellsMatch(s)
    BY <1>2, <2>1, WorldFacts, OneStoreIsOK
  <2>3. s.dense[n] \in Entity /\ Find(s, s.dense[n]) = n /\ Find(s, s.dense[m]) = m
    BY <1>2, <2>1, <2>2, ValueIsInPlace
  <2> QED  BY <1>2, <2>1, <2>3
<1> QED  BY <1>1, <1>2, Drives

\* The entities of a store, in a world whose tables agree.
LEMMA MemberIsFound ==
  ASSUME WorldInv, NEW t \in 1 .. Len(stores), NEW e \in Entity
  PROVE  /\ Find(stores[t], e) # 0 <=> e \in Members(stores[t])
         /\ Find(stores[t], e) # 0 => Find(stores[t], e) \in 1 .. Len(stores[t].data)
         /\ stores[t].data \in Seq(Values)
<1>1. PICK s : s = stores[t]
  OBVIOUS
<1>2. s \in ComponentStore /\ CellsMatch(s)
  BY <1>1, WorldFacts, OneStoreIsOK
<1>3. Len(s.data) = Len(s.dense) /\ s.data \in Seq(Values) /\ s.dense \in Seq(Entity)
  BY <1>2, StoreIsInverse
<1>4. /\ Find(s, e) # 0 <=> e \in Members(s)
      /\ Find(s, e) \in 0 .. Len(s.dense)
  BY <1>2, FindIsExact
<1> QED  BY <1>1, <1>3, <1>4

\* A position is where a lookup finds the candidate, in the driver too.
LEMMA PositionIsFound ==
  ASSUME WorldInv, NEW view \in ViewRec, Driven(view), view.driver # NoDriver,
         NEW n \in 1 .. Length(view), NEW t \in 1 .. Len(stores)
  PROVE  Position(view, n, t) = Find(stores[t], Candidate(view, n))
<1>1. /\ view.driver \in 1 .. Len(stores) /\ Length(view) = Len(stores[view.driver].dense)
      /\ \A j : Candidate(view, j) = stores[view.driver].dense[j]
  BY Drives
<1>2. CASE t = view.driver
  <2>1. PICK s : s = stores[t]
    OBVIOUS
  <2>2. s \in ComponentStore /\ CellsMatch(s)
    BY <2>1, WorldFacts, OneStoreIsOK
  <2>3. Find(s, s.dense[n]) = n
    BY <1>1, <1>2, <2>1, <2>2, ValueIsInPlace
  <2> QED  BY <1>1, <1>2, <2>1, <2>3 DEF Position
<1>3. CASE t # view.driver
  BY <1>3 DEF Position
<1> QED  BY <1>2, <1>3

\* The test of a candidate tells whether it has every required component.
LEMMA MatchIsExact ==
  ASSUME WorldInv, NEW view \in ViewRec, Driven(view), NEW n \in 1 .. Length(view)
  PROVE  Matches(view, n) <=> Candidate(view, n) \in Matching(view.required)
<1>1. PICK e : e = Candidate(view, n)
  OBVIOUS
<1>2. e \in Entity
  BY <1>1, CandidatesDiffer
<1>3. CASE view.driver = NoDriver
  <2>1. view.required = <<>> /\ Length(view) = Len(slots) /\ e = HandleOf(n)
    BY <1>1, <1>3, Drives
  <2>2. Matching(view.required) = Live
    BY <2>1 DEF Matching
  <2>3. e \in Live <=> slots[n].alive
    BY <2>1, HandlesDiffer
  <2> QED  BY <1>1, <1>3, <2>2, <2>3 DEF Matches
<1>4. CASE view.driver # NoDriver
  <2>1. \A k \in 1 .. Len(view.required) : view.required[k] \in 1 .. Len(stores)
    BY DEF Driven
  <2>2. ASSUME NEW k \in 1 .. Len(view.required)
        PROVE  Position(view, n, view.required[k]) # 0 <=> e \in Members(stores[view.required[k]])
    <3>1. PICK t : t = view.required[k]
      OBVIOUS
    <3>2. t \in 1 .. Len(stores)
      BY <2>1, <3>1
    <3>3. Position(view, n, t) = Find(stores[t], e)
      BY <1>1, <1>4, <3>2, PositionIsFound
    <3>4. Find(stores[t], e) # 0 <=> e \in Members(stores[t])
      BY <1>2, <3>2, MemberIsFound
    <3> QED  BY <3>1, <3>3, <3>4
  <2>3. Matches(view, n) <=> \A k \in 1 .. Len(view.required) : e \in Members(stores[view.required[k]])
    BY <1>4, <2>2 DEF Matches
  <2>4. e \in Live
    <3>1. /\ view.driver \in 1 .. Len(stores) /\ Length(view) = Len(stores[view.driver].dense)
          /\ e = stores[view.driver].dense[n]
      BY <1>1, <1>4, Drives
    <3>2. Members(stores[view.driver]) \subseteq LiveIn(slots)
      BY <3>1, WorldFacts, OneStoreIsOK
    <3>3. e \in Members(stores[view.driver])
      BY <3>1 DEF Members
    <3> QED  BY <3>2, <3>3, LiveIsLiveIn
  <2> QED  BY <1>1, <2>3, <2>4 DEF Matching
<1> QED  BY <1>3, <1>4

\* Every matching entity is among the candidates.
LEMMA MatchingIsAhead ==
  ASSUME WorldInv, NEW view \in ViewRec, Driven(view), NEW e \in Matching(view.required)
  PROVE  \E n \in 1 .. Length(view) : e = Candidate(view, n)
<1>1. CASE view.driver = NoDriver
  <2>1. Length(view) = Len(slots) /\ \A n : Candidate(view, n) = HandleOf(n)
    BY <1>1, Drives
  <2>2. PICK n \in 1 .. Len(slots) : e = HandleOf(n)
    BY DEF Matching, Live
  <2> QED  BY <2>1, <2>2
<1>2. CASE view.driver # NoDriver
  <2>1. /\ Length(view) = Len(stores[view.driver].dense)
        /\ \A n : Candidate(view, n) = stores[view.driver].dense[n]
        /\ \E k \in 1 .. Len(view.required) : view.driver = view.required[k]
    BY <1>2, Drives
  <2>2. e \in Members(stores[view.driver])
    BY <2>1 DEF Matching
  <2> QED  BY <2>1, <2>2 DEF Members
<1> QED  BY <1>1, <1>2

LEMMA ViewStands ==
  ASSUME UNCHANGED ecsVars, NEW view, ViewOK(view)
  PROVE  ViewOK(view)'
<1>1. /\ slots' = slots /\ stores' = stores /\ revision' = revision /\ calls' = calls
      /\ open' = open
  BY DEF ecsVars, entityVars, storeVars
<1> QED  BY <1>1, ZenonT(60) DEF ViewOK, Driven, Positioned, Length, CandidatesTo, Candidate, HandleOf, Matching, Live

\* The position of a view depends on what the application sees of the world.
LEMMA PositionIsKept ==
  ASSUME SeesTheSame, NEW view \in ViewRec, Driven(view), Positioned(view)
  PROVE  Positioned(view)'
<1>1. /\ slots' = slots /\ Live' = Live /\ Len(stores') = Len(stores)
      /\ \A t \in 1 .. Len(stores) : stores'[t].dense = stores[t].dense
  BY DEF SeesTheSame
<1>2. view.driver = NoDriver \/ view.driver \in 1 .. Len(stores)
  BY Drives
<1>3. Length(view)' = Length(view)
  BY <1>1, <1>2 DEF Length
<1>4. \A n : Candidate(view, n)' = Candidate(view, n)
  BY <1>1, <1>2 DEF Candidate, HandleOf
<1>5. Matching(view.required)' = Matching(view.required)
  <2>1. ASSUME NEW k \in 1 .. Len(view.required)
        PROVE  Members(stores'[view.required[k]]) = Members(stores[view.required[k]])
    <3>1. view.required[k] \in 1 .. Len(stores)
      BY DEF Driven
    <3> QED  BY <1>1, <3>1 DEF Members
  <2> QED  BY <1>1, <2>1 DEF Matching
<1>6. CandidatesTo(view, view.cursor)' = CandidatesTo(view, view.cursor)
  BY <1>4 DEF CandidatesTo
<1> QED  BY <1>3, <1>5, <1>6 DEF Positioned

\* A world that is not being destroyed keeps its types and lasts through any step but the
\* start of its destruction.
LEMMA ApplicationLasts ==
  ASSUME IInv, Application, Lasting
  PROVE  Lasting' /\ Len(stores) <= Len(stores')
<1>1. WorldInv /\ open /\ Len(stores) \in Nat /\ stores \in Seq(ComponentStore)
  BY WorldFacts DEF IInv, Lasting
<1>2. ASSUME open' = open, calls' = calls  PROVE Lasting'
  BY <1>2 DEF Lasting, Top
<1>3. ASSUME stores' = stores  PROVE Len(stores) <= Len(stores')
  BY <1>1, <1>3
<1>4. CASE CreateWorld
  BY <1>1, <1>4 DEF CreateWorld
<1>5. ASSUME NEW b \in BOOLEAN, NEW n \in Reservations, RegisterComponent(b, n)
      PROVE  Lasting' /\ Len(stores) <= Len(stores')
  <2>1. open' = open /\ calls' = calls
    BY <1>5 DEF RegisterComponent
  <2>2. stores' = stores \/ \E s : stores' = Append(stores, s)
    BY <1>5 DEF RegisterComponent
  <2>3. ASSUME NEW s, stores' = Append(stores, s)  PROVE Len(stores) <= Len(stores')
    <3>1. Len(stores') = Len(stores) + 1
      BY <1>1, <2>3
    <3> QED  BY <1>1, <3>1
  <2> QED  BY <1>2, <1>3, <2>1, <2>2, <2>3
<1>6. ASSUME NEW n \in Reservations, ReserveEntities(n)
      PROVE  Lasting' /\ Len(stores) <= Len(stores')
  BY <1>2, <1>3, <1>6 DEF ReserveEntities, storeVars
<1>7. ASSUME NEW t, NEW s, stores' = [stores EXCEPT ![t] = s]
      PROVE  Len(stores) <= Len(stores')
  <2>1. Len(stores') = Len(stores)
    BY <1>1, <1>7
  <2> QED  BY <1>1, <2>1
<1>8. ASSUME NEW t \in 1 .. MaxTypes, NEW n \in Reservations, ReserveComponent(t, n)
      PROVE  Lasting' /\ Len(stores) <= Len(stores')
  BY <1>2, <1>7, <1>8 DEF ReserveComponent
<1>9. CASE ReuseSlot
  BY <1>2, <1>3, <1>9 DEF ReuseSlot, storeVars
<1>10. CASE NewSlot
  BY <1>2, <1>3, <1>10 DEF NewSlot, storeVars
<1>11. ASSUME NEW e \in Entity, NEW t \in 1 .. MaxTypes, NEW v \in Values, Add(e, t, v)
       PROVE  Lasting' /\ Len(stores) <= Len(stores')
  <2>1. open' = open /\ calls' = calls /\ \E s : stores' = [stores EXCEPT ![t] = s]
    BY <1>11 DEF Add
  <2> QED  BY <1>2, <1>7, <2>1
<1>12. ASSUME open' = open, stores' = stores, Mutation, NEW x, Begin(x), x.op # "dispose"
       PROVE  Lasting' /\ Len(stores) <= Len(stores')
  <2>1. calls = <<>>
    BY <1>12, MutationIsIdle DEF Mutation, RequireMutable
  <2>2. calls' = <<x>>
    BY <1>12, <2>1, NewCall
  <2>3. Top' = x
    BY <2>2 DEF Top
  <2> QED  BY <1>1, <1>3, <1>12, <2>3 DEF Lasting
<1>13. ASSUME NEW e \in Entity, NEW t \in 1 .. MaxTypes, Remove(e, t)
       PROVE  Lasting' /\ Len(stores) <= Len(stores')
  BY <1>12, <1>13 DEF Remove, storeVars, Call
<1>14. ASSUME NEW e \in Entity, DestroyEntity(e)
       PROVE  Lasting' /\ Len(stores) <= Len(stores')
  BY <1>12, <1>14 DEF DestroyEntity, storeVars, Call
<1>15. CASE Clear
  BY <1>12, <1>15 DEF Clear, storeVars, Call
<1> QED
  BY <1>4, <1>5, <1>6, <1>8, <1>9, <1>10, <1>11, <1>13, <1>14, <1>15 DEF Application

LEMMA OperationLasts ==
  ASSUME IInv, Operation \/ CleanupReturns, Lasting
  PROVE  Lasting' /\ Len(stores) <= Len(stores')
<1>1. calls # <<>>
  BY DEF Operation, CleanupReturns, SkipStore, EraseSilently, BeginCleanup, RemoveReturns,
         DestroyReturns, ClearReturns, DisposeReturns, Walking, Walked
<1>2. PICK c : /\ open /\ calls = <<c>> /\ Top = c /\ CallOK(c, stores, LiveIn(slots))
  BY <1>1, Working
<1>3. c \in CallRec /\ c.op # "dispose"
  BY <1>1, <1>2 DEF Lasting, CallOK
<1>4. Len(stores) \in Nat /\ stores \in Seq(ComponentStore)
  BY WorldFacts DEF IInv
<1>5. ASSUME NEW x, SetTop(x), x.op = c.op, open' = open  PROVE Lasting'
  <2>1. calls' = <<x>>
    BY <1>2, <1>5, OneCall
  <2>2. Top' = x
    BY <2>1 DEF Top
  <2> QED  BY <1>2, <1>3, <1>5, <2>2 DEF Lasting
<1>6. ASSUME Return, open' = open  PROVE Lasting'
  <2>1. calls' = <<>>
    BY <1>2, <1>6, OneCall
  <2> QED  BY <1>2, <1>6, <2>1 DEF Lasting
<1>7. ASSUME stores' = stores  PROVE Len(stores) <= Len(stores')
  BY <1>4, <1>7
<1>8. ASSUME NEW t, NEW s, stores' = [stores EXCEPT ![t] = s]
      PROVE  Len(stores) <= Len(stores')
  <2>1. Len(stores') = Len(stores)
    BY <1>4, <1>8
  <2> QED  BY <1>4, <2>1
<1>9. Advance(c).op = c.op
  BY <1>3 DEF Advance, CallRec
<1>10. CASE SkipStore
  <2>1. PICK x : x = [c EXCEPT !.store = c.store + 1]
    OBVIOUS
  <2>2. SetTop(x) /\ open' = open /\ stores' = stores
    BY <1>2, <1>10, <2>1 DEF SkipStore, storeVars
  <2>3. x.op = c.op
    BY <1>3, <2>1 DEF CallRec
  <2> QED  BY <1>5, <1>7, <2>2, <2>3
<1>11. CASE EraseSilently
  <2>1. SetTop(Advance(c)) /\ open' = open /\ \E s : stores' = [stores EXCEPT ![c.store] = s]
    BY <1>2, <1>11 DEF EraseSilently
  <2> QED  BY <1>5, <1>8, <1>9, <2>1
<1>12. CASE BeginCleanup
  <2>1. PICK x : x = [c EXCEPT !.at = "cleanup", !.index = Victim(c)]
    OBVIOUS
  <2>2. SetTop(x) /\ open' = open /\ stores' = stores
    BY <1>2, <1>12, <2>1 DEF BeginCleanup, storeVars
  <2>3. x.op = c.op
    BY <1>3, <2>1 DEF CallRec
  <2> QED  BY <1>5, <1>7, <2>2, <2>3
<1>13. CASE CleanupReturns
  <2>1. PICK w : w = [c EXCEPT !.at = "walk", !.index = 0]
    OBVIOUS
  <2>2. PICK x : x = Advance(w)
    OBVIOUS
  <2>3. SetTop(x) /\ open' = open /\ \E s : stores' = [stores EXCEPT ![c.store] = s]
    BY <1>2, <1>13, <2>1, <2>2 DEF CleanupReturns
  <2>4. w \in CallRec /\ w.op = c.op
    BY <1>3, <2>1 DEF CallRec
  <2>5. x.op = w.op
    BY <2>2, <2>4 DEF Advance, CallRec
  <2> QED  BY <1>5, <1>8, <2>3, <2>4, <2>5
<1>14. CASE RemoveReturns
  BY <1>6, <1>7, <1>14 DEF RemoveReturns, storeVars
<1>15. CASE DestroyReturns
  BY <1>6, <1>7, <1>15 DEF DestroyReturns, storeVars
<1>16. CASE ClearReturns
  BY <1>6, <1>7, <1>16 DEF ClearReturns, storeVars
<1>17. CASE DisposeReturns
  BY <1>2, <1>3, <1>17 DEF DisposeReturns, Walked
<1> QED
  BY <1>10, <1>11, <1>12, <1>13, <1>14, <1>15, <1>16, <1>17 DEF Operation

\* A step of the world leaves every view standing: one of the present world stays where it
\* is, or the revision has gone past it.
LEMMA WorldIsOfOne ==
  ASSUME WorldStep
  PROVE  EcsNext /\ views' = views
BY DEF WorldStep, EcsNext, DestroyUnviewed

LEMMA WorldKeepsViews ==
  ASSUME IInv, ViewInv, WorldStep
  PROVE  ViewInv'
<1>1. EcsNext /\ views' = views
  BY WorldIsOfOne
<1>2. CASE DOMAIN views = {}
  BY <1>1, <1>2 DEF ViewInv
<1>3. CASE DOMAIN views # {}
  <2>1. Lasting
    BY <1>3 DEF ViewInv
  <2>2. ~DestroyUnviewed
    BY <1>3 DEF DestroyUnviewed
  <2>3. Lasting' /\ Len(stores) <= Len(stores')
    BY <2>1, <2>2, ApplicationLasts, OperationLasts DEF WorldStep
  <2>4. Dated
    BY <1>1, ApplicationIsDated, OperationIsDated DEF EcsNext
  <2>5. revision \in Nat /\ Len(stores) \in Nat
    BY WorldFacts DEF IInv
  <2>6. Len(stores') \in Nat
    <3>1. IInv'
      BY <1>1, StepIsSound
    <3> QED  BY <3>1 DEF IInv, WorldInv, StoresOK
  <2>7. open /\ open'
    BY <2>1, <2>3 DEF Lasting
  <2>8. ASSUME NEW view, ViewOK(view)  PROVE ViewOK(view)'
    <3>1. view \in ViewRec /\ Driven(view) /\ view.revision <= revision /\ view.revision \in Nat
      BY <2>8, ViewFields DEF ViewOK
    <3>2. Driven(view)'
      <4>1. \A t \in 1 .. Len(stores) : t \in 1 .. Len(stores')
        BY <2>3, <2>5, <2>6
      <4> QED  BY <3>1, <4>1 DEF Driven
    <3>3. view.revision <= revision'
      BY <2>4, <2>5, <2>7, <3>1 DEF Dated
    <3>4. ASSUME calls' = <<>>, view.revision = revision'  PROVE Positioned(view)'
      <4>1. revision' = revision /\ calls = <<>>
        BY <2>4, <2>5, <2>7, <3>1, <3>4 DEF Dated
      <4>2. SeesTheSame
        BY <2>4, <2>7, <3>4, <4>1 DEF Dated
      <4> QED  BY <2>8, <3>1, <3>4, <4>1, <4>2, PositionIsKept DEF ViewOK
    <3> QED  BY <3>1, <3>2, <3>3, <3>4 DEF ViewOK
  <2> QED  BY <1>1, <2>3, <2>8 DEF ViewInv
<1> QED  BY <1>2, <1>3

\* What a step of the cursor hands out.
LEMMA RowIsExact ==
  ASSUME WorldInv, NEW view \in ViewRec, Driven(view), NEW n \in 1 .. Length(view), Matches(view, n)
  PROVE  /\ Row(view, n) \in RowRec /\ Row(view, n).entity = Candidate(view, n)
         /\ Row(view, n).values = Valued(Candidate(view, n), view.required)
<1>1. PICK e : e = Candidate(view, n)
  OBVIOUS
<1>2. e \in Entity
  BY <1>1, CandidatesDiffer
<1>3. \A k \in 1 .. Len(view.required) : view.required[k] \in 1 .. Len(stores)
  BY DEF Driven
<1>4. ASSUME NEW k \in 1 .. Len(view.required)
      PROVE  /\ Position(view, n, view.required[k]) = Find(stores[view.required[k]], e)
             /\ ValueOf(<<e, view.required[k]>>) \in Values
  <2>1. PICK t : t = view.required[k]
    OBVIOUS
  <2>2. t \in 1 .. Len(stores)
    BY <1>3, <2>1
  <2>3. view.driver # NoDriver
    <3>1. CASE view.required = <<>>
      BY <3>1
    <3>2. CASE view.required # <<>>
      BY <3>2, Drives
    <3> QED  BY <3>1, <3>2
  <2>4. Position(view, n, t) = Find(stores[t], e)
    BY <1>1, <2>2, <2>3, PositionIsFound
  <2>5. e \in Members(stores[t])
    <3>1. e \in Matching(view.required)
      BY <1>1, MatchIsExact
    <3> QED  BY <2>1, <3>1 DEF Matching
  <2>6. Find(stores[t], e) \in 1 .. Len(stores[t].data) /\ stores[t].data \in Seq(Values)
    BY <1>2, <2>2, <2>5, MemberIsFound
  <2>7. ValueOf(<<e, t>>) \in Values
    <3>1. ValueOf(<<e, t>>) = stores[t].data[Find(stores[t], e)]
      BY DEF ValueOf
    <3> QED  BY <2>6, <3>1
  <2> QED  BY <2>1, <2>4, <2>7
<1>5. Row(view, n).entity = e /\ Row(view, n).values = Valued(e, view.required)
  BY <1>1, <1>4 DEF Row, Valued, ValueOf
<1>6. Valued(e, view.required) \in Seq(Values)
  <2>1. Len(view.required) \in Nat
    BY ViewFields, SMTT(60)
  <2> QED  BY <1>4, <2>1 DEF Valued
<1>7. Row(view, n) = [entity |-> e, values |-> Valued(e, view.required)]
  BY <1>1, <1>4 DEF Row, Valued, ValueOf
<1> QED  BY <1>1, <1>2, <1>5, <1>6, <1>7 DEF RowRec

LEMMA SeenGrows ==
  ASSUME NEW view \in ViewRec, NEW new, NEW row, new.rows = Append(view.rows, row)
  PROVE  /\ Seen(new) = Seen(view) \cup {row.entity}
         /\ Len(new.rows) = Len(view.rows) + 1 /\ new.rows[Len(new.rows)] = row
<1>1. view.rows \in Seq(RowRec) /\ Len(view.rows) \in Nat
  BY ViewFields
<1>2. PICK len \in Nat : len = Len(view.rows)
  BY <1>1
<1>3. /\ Len(new.rows) = len + 1 /\ new.rows[len + 1] = row
      /\ \A n \in 1 .. len : new.rows[n] = view.rows[n]
  BY <1>1, <1>2
<1>4. 1 .. len + 1 = 1 .. len \cup {len + 1}
  OBVIOUS
<1> QED  BY <1>2, <1>3, <1>4 DEF Seen

\* From cursor to n nothing matches but perhaps n itself.
LEMMA CursorMoves ==
  ASSUME WorldInv, NEW view \in ViewRec, Driven(view), Positioned(view),
         NEW n \in view.cursor .. Length(view),
         \A m \in view.cursor + 1 .. n - 1 : ~Matches(view, m)
  PROVE  CandidatesTo(view, n) \cap Matching(view.required)
           = IF n > view.cursor /\ Matches(view, n) THEN Seen(view) \cup {Candidate(view, n)}
             ELSE Seen(view)
<1>1. view.cursor \in Nat /\ n \in Nat /\ n <= Length(view) /\ Length(view) \in Nat
  <2>1. view.cursor \in Nat /\ Length(view) \in Nat
    BY ViewFields, LengthIsNatural
  <2> QED  BY <2>1
<1>2. Seen(view) = CandidatesTo(view, view.cursor) \cap Matching(view.required)
  BY DEF Positioned
<1>3. ASSUME NEW e \in CandidatesTo(view, n) \cap Matching(view.required), e \notin Seen(view)
      PROVE  n > view.cursor /\ Matches(view, n) /\ e = Candidate(view, n)
  <2>1. PICK m \in 1 .. n : e = Candidate(view, m)
    BY DEF CandidatesTo
  <2>2. m \in 1 .. Length(view) /\ Matches(view, m)
    <3>1. m \in 1 .. Length(view)
      BY <1>1
    <3> QED  BY <2>1, <3>1, MatchIsExact
  <2>3. ~(m <= view.cursor)
    <3>1. ASSUME m <= view.cursor  PROVE FALSE
      <4>1. m \in 1 .. view.cursor
        BY <1>1, <3>1
      <4>2. e \in CandidatesTo(view, view.cursor)
        BY <2>1, <4>1 DEF CandidatesTo
      <4> QED  BY <1>2, <1>3, <4>2
    <3> QED  BY <3>1
  <2>4. ~(m \in view.cursor + 1 .. n - 1)
    BY <2>2
  <2>5. m = n /\ n > view.cursor
    BY <1>1, <2>3, <2>4
  <2> QED  BY <2>1, <2>2, <2>5
<1>4. Seen(view) \subseteq CandidatesTo(view, n) \cap Matching(view.required)
  <2>1. \A m \in 1 .. view.cursor : m \in 1 .. n
    BY <1>1
  <2> QED  BY <1>2, <2>1 DEF CandidatesTo
<1>5. ASSUME n > view.cursor, Matches(view, n)
      PROVE  Candidate(view, n) \in CandidatesTo(view, n) \cap Matching(view.required)
  <2>1. n \in 1 .. n /\ n \in 1 .. Length(view)
    BY <1>1, <1>5
  <2>2. Candidate(view, n) \in Matching(view.required)
    BY <1>5, <2>1, MatchIsExact
  <2> QED  BY <2>1, <2>2 DEF CandidatesTo
<1>6. CASE n > view.cursor /\ Matches(view, n)
  <2>1. CandidatesTo(view, n) \cap Matching(view.required) = Seen(view) \cup {Candidate(view, n)}
    BY <1>3, <1>4, <1>5, <1>6
  <2> QED  BY <1>6, <2>1
<1>7. CASE ~(n > view.cursor /\ Matches(view, n))
  <2>1. CandidatesTo(view, n) \cap Matching(view.required) = Seen(view)
    BY <1>3, <1>4, <1>7
  <2> QED  BY <1>7, <2>1
<1> QED  BY <1>6, <1>7

\* A view that starts, or starts again.
LEMMA LeastDrives ==
  ASSUME WorldInv, NEW required \in Seq(1 .. MaxTypes), required # <<>>,
         \A n \in 1 .. Len(required) : required[n] \in 1 .. Len(stores)
  PROVE  \E n \in 1 .. Len(required) : SmallestStore(required) = required[n]
<1> DEFINE Count(n)  == Len(stores[required[n]].dense)
           Leads(n)  == \A j \in 1 .. Len(required) :
                          Count(n) < Count(j) \/ (Count(n) = Count(j) /\ n <= j)
           counts    == {Count(n) : n \in 1 .. Len(required)}
<1>1. ASSUME NEW n \in 1 .. Len(required)  PROVE Count(n) \in Nat
  <2>1. PICK t : t = required[n]
    OBVIOUS
  <2>2. stores[t] \in ComponentStore
    BY <2>1, WorldFacts, OneStoreIsOK
  <2>3. stores[t].dense \in Seq(Entity)
    BY <2>2, StoreIsInverse
  <2> QED  BY <2>1, <2>3
<1>2. Len(required) \in Nat /\ 1 \in 1 .. Len(required)
  OBVIOUS
<1>3. PICK least \in counts : \A c \in counts : least <= c
  <2>1. counts \in SUBSET Nat /\ counts # {}
    BY <1>1, <1>2
  <2> HIDE DEF counts
  <2> QED  BY <2>1, LeastElement
<1> DEFINE holders == {n \in 1 .. Len(required) : Count(n) = least}
<1>4. PICK first \in holders : \A n \in holders : first <= n
  <2>1. holders \in SUBSET Nat /\ holders # {}
    BY <1>3
  <2> HIDE DEF holders
  <2> QED  BY <2>1, LeastElement
<1>5. first \in 1 .. Len(required) /\ Leads(first)
  <2>1. ASSUME NEW j \in 1 .. Len(required)
        PROVE  Count(first) < Count(j) \/ (Count(first) = Count(j) /\ first <= j)
    <3>1. Count(first) = least /\ least <= Count(j) /\ Count(j) \in Nat /\ least \in Nat
      BY <1>1, <1>3, <1>4
    <3>2. Count(j) = least => first <= j
      BY <1>4
    <3> HIDE DEF Count
    <3> QED  BY <3>1, <3>2
  <2> QED  BY <1>4, <2>1
<1>6. SmallestStore(required) = required[CHOOSE n \in 1 .. Len(required) : Leads(n)]
  BY DEF SmallestStore
<1> HIDE DEF Leads
<1>7. (CHOOSE n \in 1 .. Len(required) : Leads(n)) \in 1 .. Len(required)
  BY <1>5
<1> QED  BY <1>6, <1>7

LEMMA StartsOver ==
  ASSUME WorldInv, NEW required \in Seq(1 .. MaxTypes),
         \A n \in 1 .. Len(required) : required[n] \in 1 .. Len(stores)
  PROVE  ViewOK(Restarted(required)) /\ Len(Restarted(required).rows) = 0
<1>1. PICK view : view = Restarted(required)
  OBVIOUS
<1>2. /\ view.required = required /\ view.driver = SmallestStore(required) /\ view.cursor = 0
      /\ view.revision = revision /\ view.rows = <<>>
      /\ view = [required |-> required, driver |-> view.driver, cursor |-> 0,
                 revision |-> revision, rows |-> <<>>]
  BY <1>1 DEF Restarted
<1>3. Driven(view) /\ view.driver \in Nat
  <2>1. CASE required = <<>>
    BY <1>2, <2>1 DEF Driven, SmallestStore, NoDriver
  <2>2. CASE required # <<>>
    <3>1. PICK n \in 1 .. Len(required) : view.driver = required[n]
      BY <1>2, <2>2, LeastDrives
    <3>2. required[n] \in Nat
      OBVIOUS
    <3> QED  BY <1>2, <3>1, <3>2 DEF Driven
  <2> QED  BY <2>1, <2>2
<1>4. revision \in Nat /\ Len(stores) \in Nat /\ Len(slots) \in Nat
  BY WorldFacts
<1>5. view \in ViewRec
  <2>0. <<>> \in Seq(RowRec)
    OBVIOUS
  <2>1. PICK rows \in Seq(RowRec) : rows = <<>>
    BY <2>0, Zenon
  <2>2. view = [required |-> required, driver |-> view.driver, cursor |-> 0,
                revision |-> revision, rows |-> rows]
    BY <1>2, <2>1
  <2> QED  BY <1>3, <1>4, <2>2 DEF ViewRec
<1>6. Positioned(view)
  <2>1. 0 <= Length(view)
    BY <1>3, <1>5, LengthIsNatural
  <2>2. Seen(view) = {} /\ CandidatesTo(view, 0) = {}
    BY <1>2 DEF Seen, CandidatesTo
  <2> QED  BY <1>2, <2>1, <2>2 DEF Positioned
<1> QED  BY <1>1, <1>2, <1>3, <1>4, <1>5, <1>6 DEF ViewOK

\* What RowsAreOfNow says of a step.
HandsOut(old, new) ==
  Len(new.rows) > Len(old.rows) =>
    LET row == new.rows[Len(new.rows)]
    IN  /\ calls = <<>>
        /\ row.entity \in Matching(new.required) \ Seen(old)
        /\ row.values = Valued(row.entity, new.required)
RowsOfNow == \A v \in DOMAIN views \cap DOMAIN views' : HandsOut(views[v], views'[v])

LEMMA ViewsChange ==
  ASSUME UNCHANGED ecsVars, ViewInv, Lasting,
         \A u \in DOMAIN views' : \/ u \in DOMAIN views /\ views'[u] = views[u]
                                  \/ /\ ViewOK(views'[u])
                                     /\ u \in DOMAIN views => HandsOut(views[u], views'[u])
  PROVE  ViewInv' /\ RowsOfNow
<1>1. Lasting'
  <2>1. open' = open /\ calls' = calls
    BY DEF ecsVars
  <2> QED  BY <2>1 DEF Lasting, Top
<1>2. ASSUME NEW u \in DOMAIN views'
      PROVE  ViewOK(views[u])' /\ (u \in DOMAIN views => HandsOut(views[u], views'[u]))
  <2>1. PICK new : new = views'[u]
    OBVIOUS
  <2>2. CASE u \in DOMAIN views /\ new = views[u]
    <3>1. ViewOK(new)
      BY <2>2 DEF ViewInv
    <3>2. ViewOK(new)'
      BY <3>1, ViewStands
    <3>3. Len(new.rows) \in Nat
      BY <3>1, ViewFields DEF ViewOK
    <3>4. HandsOut(new, new)
      BY <3>3 DEF HandsOut
    <3> QED  BY <2>1, <2>2, <3>2, <3>4
  <2>3. CASE ViewOK(new) /\ (u \in DOMAIN views => HandsOut(views[u], new))
    <3>1. ViewOK(new)'
      BY <2>3, ViewStands
    <3> QED  BY <2>1, <2>3, <3>1
  <2> QED  BY <2>1, <2>2, <2>3
<1>3. ViewInv'
  BY <1>1, <1>2 DEF ViewInv
<1> QED  BY <1>2, <1>3 DEF RowsOfNow

LEMMA NothingNew ==
  ASSUME NEW old, NEW new, Len(new.rows) = 0, ViewOK(old)
  PROVE  HandsOut(old, new)
<1>1. Len(old.rows) \in Nat
  BY ViewFields DEF ViewOK
<1> QED  BY <1>1 DEF HandsOut

LEMMA ViewCreateIsSound ==
  ASSUME IInv, ViewInv, NEW v, NEW required \in Requirements, ViewCreate(v, required)
  PROVE  ViewInv' /\ RowsOfNow
<1>1. required \in Seq(1 .. MaxTypes) /\ \A n \in 1 .. Len(required) : required[n] \in 1 .. Len(stores)
  BY ViewConfiguration DEF ViewCreate, Registered
<1>2. WorldInv /\ Lasting /\ UNCHANGED ecsVars
  BY DEF IInv, ViewCreate, Lasting
<1>3. PICK view : view = Restarted(required)
  OBVIOUS
<1>4. ViewOK(view)
  BY <1>1, <1>2, <1>3, StartsOver
<1>5. /\ DOMAIN views' = DOMAIN views \cup {v} /\ v \notin DOMAIN views
      /\ \A u \in DOMAIN views' : views'[u] = IF u = v THEN view ELSE views[u]
  BY <1>3 DEF ViewCreate
<1>6. \A u \in DOMAIN views' : \/ u \in DOMAIN views /\ views'[u] = views[u]
                               \/ /\ ViewOK(views'[u])
                                  /\ u \in DOMAIN views => HandsOut(views[u], views'[u])
  <2>1. ASSUME NEW u \in DOMAIN views', u = v  PROVE views'[u] = view /\ u \notin DOMAIN views
    BY <1>5, <2>1
  <2>2. ASSUME NEW u \in DOMAIN views', u # v  PROVE views'[u] = views[u] /\ u \in DOMAIN views
    BY <1>5, <2>2
  <2> QED  BY <1>4, <2>1, <2>2
<1> QED  BY <1>2, <1>6, ViewsChange

LEMMA ViewDestroyIsSound ==
  ASSUME ViewInv, NEW v, ViewDestroy(v)
  PROVE  ViewInv' /\ RowsOfNow
<1>1. UNCHANGED ecsVars /\ v \in DOMAIN views
  BY DEF ViewDestroy
<1>2. /\ DOMAIN views' = DOMAIN views \ {v}
      /\ \A u \in DOMAIN views' : views'[u] = views[u]
  BY DEF ViewDestroy
<1>3. Lasting
  BY <1>1 DEF ViewInv
<1> QED  BY <1>1, <1>2, <1>3, ViewsChange

\* A step that moves one view.
LEMMA ViewMoves ==
  ASSUME ViewInv, UNCHANGED ecsVars, NEW v \in DOMAIN views, NEW new,
         DOMAIN views' = DOMAIN views,
         \A u \in DOMAIN views : views'[u] = IF u = v THEN new ELSE views[u],
         ViewOK(new), HandsOut(views[v], new)
  PROVE  ViewInv' /\ RowsOfNow
<1>1. Lasting
  BY DEF ViewInv
<1>2. \A u \in DOMAIN views' : \/ u \in DOMAIN views /\ views'[u] = views[u]
                               \/ /\ ViewOK(views'[u])
                                  /\ u \in DOMAIN views => HandsOut(views[u], views'[u])
  <2>1. views'[v] = new
    OBVIOUS
  <2>2. \A u \in DOMAIN views' : u # v => u \in DOMAIN views /\ views'[u] = views[u]
    OBVIOUS
  <2> QED  BY <2>1, <2>2
<1> QED  BY <1>1, <1>2, ViewsChange

LEMMA ViewResetIsSound ==
  ASSUME IInv, ViewInv, NEW v, ViewReset(v)
  PROVE  ViewInv' /\ RowsOfNow
<1>1. v \in DOMAIN views /\ UNCHANGED ecsVars /\ WorldInv
  BY DEF IInv, ViewReset
<1>2. PICK old : old = views[v]
  OBVIOUS
<1>3. PICK new : new = Restarted(old.required)
  OBVIOUS
<1>4. ViewOK(old) /\ old \in ViewRec
  BY <1>1, <1>2 DEF ViewInv, ViewOK
<1>5. old.required \in Seq(1 .. MaxTypes)
  BY <1>4, ViewFields
<1>6. \A n \in 1 .. Len(old.required) : old.required[n] \in 1 .. Len(stores)
  BY <1>4 DEF ViewOK, Driven
<1>7. ViewOK(new) /\ Len(new.rows) = 0
  BY <1>1, <1>3, <1>5, <1>6, StartsOver
<1>8. HandsOut(old, new)
  BY <1>4, <1>7, NothingNew
<1>9. /\ DOMAIN views' = DOMAIN views
      /\ \A u \in DOMAIN views : views'[u] = IF u = v THEN new ELSE views[u]
  BY <1>1, <1>2, <1>3 DEF ViewReset
<1> QED  BY <1>1, <1>2, <1>7, <1>8, <1>9, ViewMoves

\* A view that is not refused is of the present world, and no operation is in progress.
LEMMA AtRest ==
  ASSUME IInv, ViewInv, NEW v \in DOMAIN views, AppTurn, Current(views[v])
  PROVE  calls = <<>> /\ Positioned(views[v])
<1>1. calls = <<>>
  BY MutationIsIdle DEF Current
<1>2. ViewOK(views[v])
  BY DEF ViewInv
<1> QED  BY <1>1, <1>2 DEF Current, ViewOK

LEMMA ViewNextIsSound ==
  ASSUME IInv, ViewInv, NEW v, ViewNext(v)
  PROVE  ViewInv' /\ RowsOfNow
<1>1. v \in DOMAIN views /\ AppTurn /\ Current(views[v]) /\ UNCHANGED ecsVars /\ WorldInv
  BY DEF IInv, ViewNext
<1>2. PICK old : old = views[v]
  OBVIOUS
<1>3. ViewOK(old) /\ old \in ViewRec /\ Driven(old)
  BY <1>1, <1>2 DEF ViewInv, ViewOK
<1>4. calls = <<>> /\ Positioned(old)
  BY <1>1, <1>2, AtRest
<1> DEFINE ahead == {n \in old.cursor + 1 .. Length(old) : Matches(old, n)}
           found == CHOOSE n \in ahead : \A m \in ahead : n <= m
<1>5. old.cursor \in Nat /\ Length(old) \in Nat
  BY <1>1, <1>3, ViewFields, LengthIsNatural
<1>6. ahead # {}
  BY <1>2 DEF ViewNext
<1>7. found \in ahead /\ \A m \in ahead : found <= m
  <2>1. ahead \in SUBSET Nat
    BY <1>5
  <2> HIDE DEF ahead
  <2>2. \E n \in ahead : \A m \in ahead : n <= m
    BY <1>6, <2>1, LeastElement
  <2> QED  BY <2>2
<1>8. PICK n : n = found
  OBVIOUS
<1>9. PICK row : row = Row(old, n)
  OBVIOUS
<1>10. PICK past : past = [old EXCEPT !.cursor = n]
  OBVIOUS
<1>11. PICK new : new = [past EXCEPT !.rows = Append(old.rows, row)]
  OBVIOUS
<1>12. /\ DOMAIN views' = DOMAIN views
       /\ \A u \in DOMAIN views : views'[u] = IF u = v THEN new ELSE views[u]
  <2>1. views' = [views EXCEPT ![v] = [old EXCEPT !.cursor = n, !.rows = Append(old.rows, row)]]
    BY <1>2, <1>8, <1>9 DEF ViewNext
  <2>2. [old EXCEPT !.cursor = n, !.rows = Append(old.rows, row)] = new
    BY <1>3, <1>10, <1>11 DEF ViewRec
  <2> QED  BY <2>1, <2>2
<1>13. /\ n \in old.cursor + 1 .. Length(old) /\ Matches(old, n)
       /\ \A m \in old.cursor + 1 .. n - 1 : ~Matches(old, m)
  <2>1. n \in old.cursor + 1 .. Length(old) /\ Matches(old, n)
    BY <1>7, <1>8
  <2>2. ASSUME NEW m \in old.cursor + 1 .. n - 1, Matches(old, m)  PROVE FALSE
    <3>1. m \in ahead
      BY <1>5, <2>1, <2>2
    <3>2. n <= m
      BY <1>7, <1>8, <3>1
    <3> QED  BY <1>5, <2>1, <3>2
  <2> QED  BY <2>1, <2>2
<1> HIDE DEF found, ahead
<1>14. /\ n \in Nat /\ n \in 1 .. Length(old) /\ n \in old.cursor .. Length(old) /\ n > old.cursor
       /\ ~(n \in 1 .. old.cursor)
  BY <1>5, <1>13
<1>15. /\ row \in RowRec /\ row.entity = Candidate(old, n)
       /\ row.values = Valued(row.entity, old.required)
  BY <1>1, <1>3, <1>9, <1>13, <1>14, RowIsExact
<1>16. /\ new \in ViewRec /\ new.required = old.required /\ new.driver = old.driver
       /\ new.cursor = n /\ new.revision = old.revision /\ new.rows = Append(old.rows, row)
  <2>1. /\ past \in ViewRec /\ past.required = old.required /\ past.driver = old.driver
        /\ past.cursor = n /\ past.revision = old.revision
    BY <1>3, <1>10, <1>14 DEF ViewRec
  <2>2. PICK rows \in Seq(RowRec) : rows = Append(old.rows, row)
    <3>1. Append(old.rows, row) \in Seq(RowRec)
      BY <1>3, <1>15, ViewFields
    <3> QED  BY <3>1, Zenon
  <2> QED  BY <1>11, <2>1, <2>2 DEF ViewRec
<1>17. /\ Seen(new) = Seen(old) \cup {Candidate(old, n)}
       /\ Len(new.rows) = Len(old.rows) + 1 /\ new.rows[Len(new.rows)] = row
  BY <1>3, <1>15, <1>16, SeenGrows
<1>18. Length(new) = Length(old) /\ CandidatesTo(new, n) = CandidatesTo(old, n) /\ Driven(new)
  BY <1>3, <1>16 DEF Length, CandidatesTo, Candidate, Driven
<1>19. Positioned(new)
  <2>1. CandidatesTo(old, n) \cap Matching(old.required) = Seen(old) \cup {Candidate(old, n)}
    BY <1>1, <1>3, <1>4, <1>13, <1>14, CursorMoves
  <2>2. n <= Length(old)
    BY <1>5, <1>14
  <2> QED  BY <1>16, <1>17, <1>18, <2>1, <2>2 DEF Positioned
<1>20. ViewOK(new)
  BY <1>3, <1>16, <1>18, <1>19 DEF ViewOK
<1>21. Candidate(old, n) \in Matching(old.required) \ Seen(old)
  <2>1. Candidate(old, n) \in Matching(old.required)
    BY <1>1, <1>3, <1>13, <1>14, MatchIsExact
  <2>2. ASSUME Candidate(old, n) \in Seen(old)  PROVE FALSE
    <3>1. PICK m \in 1 .. old.cursor : Candidate(old, n) = Candidate(old, m)
      BY <1>4, <2>2 DEF Positioned, CandidatesTo
    <3>2. m \in 1 .. Length(old)
      BY <1>4, <1>5 DEF Positioned
    <3>3. n = m
      BY <1>1, <1>3, <1>14, <3>1, <3>2, CandidatesDiffer
    <3> QED  BY <1>14, <3>1, <3>3
  <2> QED  BY <2>1, <2>2
<1>22. HandsOut(old, new)
  BY <1>4, <1>15, <1>16, <1>17, <1>21 DEF HandsOut
<1> QED  BY <1>1, <1>2, <1>12, <1>20, <1>22, ViewMoves

LEMMA ViewExhaustedIsSound ==
  ASSUME IInv, ViewInv, NEW v, ViewExhausted(v)
  PROVE  ViewInv' /\ RowsOfNow
<1>1. v \in DOMAIN views /\ AppTurn /\ Current(views[v]) /\ UNCHANGED ecsVars /\ WorldInv
  BY DEF IInv, ViewExhausted
<1>2. PICK old : old = views[v]
  OBVIOUS
<1>3. ViewOK(old) /\ old \in ViewRec /\ Driven(old)
  BY <1>1, <1>2 DEF ViewInv, ViewOK
<1>4. calls = <<>> /\ Positioned(old)
  BY <1>1, <1>2, AtRest
<1>5. PICK n : n = Length(old)
  OBVIOUS
<1>6. old.cursor \in Nat /\ n \in Nat /\ old.cursor < n
  BY <1>1, <1>2, <1>3, <1>5, ViewFields, LengthIsNatural DEF ViewExhausted
<1>7. \A m \in old.cursor + 1 .. n : ~Matches(old, m)
  BY <1>2, <1>5 DEF ViewExhausted
<1>8. PICK new : new = [old EXCEPT !.cursor = n]
  OBVIOUS
<1>9. /\ DOMAIN views' = DOMAIN views
      /\ \A u \in DOMAIN views : views'[u] = IF u = v THEN new ELSE views[u]
  BY <1>2, <1>5, <1>8 DEF ViewExhausted
<1>10. /\ new \in ViewRec /\ new.required = old.required /\ new.driver = old.driver
       /\ new.cursor = n /\ new.revision = old.revision /\ new.rows = old.rows
  BY <1>3, <1>6, <1>8 DEF ViewRec
<1>11. /\ Length(new) = Length(old) /\ CandidatesTo(new, n) = CandidatesTo(old, n) /\ Driven(new)
       /\ Seen(new) = Seen(old)
  BY <1>3, <1>10 DEF Length, CandidatesTo, Candidate, Driven, Seen
<1>12. Positioned(new)
  <2>1. n \in old.cursor .. Length(old) /\ n \in old.cursor + 1 .. n
    BY <1>5, <1>6
  <2>2. ~Matches(old, n) /\ \A m \in old.cursor + 1 .. n - 1 : ~Matches(old, m)
    BY <1>6, <1>7, <2>1
  <2>3. CandidatesTo(old, n) \cap Matching(old.required) = Seen(old)
    BY <1>1, <1>3, <1>4, <2>1, <2>2, CursorMoves
  <2> QED  BY <1>5, <1>6, <1>10, <1>11, <2>3 DEF Positioned
<1>13. ViewOK(new)
  BY <1>3, <1>10, <1>11, <1>12 DEF ViewOK
<1>14. HandsOut(old, new)
  <2>1. Len(old.rows) \in Nat
    BY <1>3, ViewFields
  <2> QED  BY <1>10, <2>1 DEF HandsOut
<1> QED  BY <1>1, <1>2, <1>9, <1>13, <1>14, ViewMoves

LEMMA ViewsStepIsSound == IInv /\ ViewInv /\ ViewsNext => IInv' /\ ViewInv' /\ RowsOfNow
<1> SUFFICES ASSUME IInv, ViewInv, ViewsNext  PROVE IInv' /\ ViewInv' /\ RowsOfNow
  OBVIOUS
<1>1. CASE WorldStep
  <2>1. EcsNext /\ views' = views
    BY <1>1, WorldIsOfOne
  <2>2. ASSUME NEW v \in DOMAIN views  PROVE HandsOut(views[v], views[v])
    <3>1. Len(views[v].rows) \in Nat
      BY ViewFields DEF ViewInv, ViewOK
    <3> QED  BY <3>1 DEF HandsOut
  <2> QED  BY <1>1, <2>1, <2>2, StepIsSound, WorldKeepsViews DEF RowsOfNow
<1>2. CASE ViewStep
  <2>1. UNCHANGED ecsVars
    BY <1>2 DEF ViewStep, ViewCreate, ViewDestroy, ViewReset, ViewNext, ViewExhausted
  <2>2. ViewInv' /\ RowsOfNow
    BY <1>2, ViewCreateIsSound, ViewDestroyIsSound, ViewResetIsSound, ViewNextIsSound,
       ViewExhaustedIsSound DEF ViewStep
  <2> QED  BY <2>1, <2>2, StutterIsSound
<1> QED  BY <1>1, <1>2 DEF ViewsNext

LEMMA ViewsStandStill == IInv /\ ViewInv /\ UNCHANGED viewVars => IInv' /\ ViewInv'
<1> SUFFICES ASSUME IInv, ViewInv, UNCHANGED viewVars  PROVE IInv' /\ ViewInv'
  OBVIOUS
<1>1. UNCHANGED ecsVars /\ views' = views
  BY DEF viewVars
<1>2. CASE DOMAIN views = {}
  BY <1>1, <1>2, StutterIsSound DEF ViewInv
<1>3. CASE DOMAIN views # {}
  BY <1>1, <1>3, StutterIsSound, ViewsChange DEF ViewInv
<1> QED  BY <1>2, <1>3

LEMMA ViewsInvariance == ViewsSpec => [](IInv /\ ViewInv)
<1>1. ViewsInit => IInv /\ ViewInv
  <2>1. DOMAIN <<>> = {}
    OBVIOUS
  <2> QED  BY <2>1, StartIsSound DEF ViewsInit, ViewInv
<1>2. IInv /\ ViewInv /\ [ViewsNext]_viewVars => (IInv /\ ViewInv)'
  BY ViewsStepIsSound, ViewsStandStill
<1> QED  BY <1>1, <1>2, PTL DEF ViewsSpec

LEMMA EndIsReached == IInv /\ ViewInv => NothingIsSkipped
<1> SUFFICES ASSUME IInv, ViewInv  PROVE NothingIsSkipped
  OBVIOUS
<1>1. ASSUME NEW v \in DOMAIN views, calls = <<>>, views[v].revision = revision,
             views[v].cursor = Length(views[v])
      PROVE  Seen(views[v]) = Matching(views[v].required)
  <2>1. PICK view : view = views[v]
    OBVIOUS
  <2>2. view \in ViewRec /\ Driven(view) /\ Positioned(view) /\ WorldInv
    BY <1>1, <2>1 DEF IInv, ViewInv, ViewOK
  <2>3. Matching(view.required) \subseteq CandidatesTo(view, Length(view))
    BY <2>2, MatchingIsAhead DEF CandidatesTo
  <2> QED  BY <1>1, <2>1, <2>2, <2>3 DEF Positioned
<1> QED  BY <1>1 DEF NothingIsSkipped

\* For any number of entities, types and views, and whatever the application does to the world
\* between two calls: a view that aforc_ecs_view_next never refused has handed out every
\* entity with the required components when it reaches the end, whichever store drives it.
THEOREM NothingGetsSkipped == ViewsSpec => []NothingIsSkipped
BY ViewsInvariance, EndIsReached, PTL

\* Each row that aforc_ecs_view_next hands out is a matching entity of the present world that
\* the view has not handed out before, with its own values, and never one in the middle of an
\* operation that takes components away.
THEOREM RowsStayOfNow == ViewsSpec => RowsAreOfNow
<1>1. IInv /\ ViewInv /\ [ViewsNext]_viewVars => [RowsOfNow]_viewVars
  BY ViewsStepIsSound
<1>2. ViewsSpec => [][RowsOfNow]_viewVars
  BY <1>1, ViewsInvariance, PTL DEF ViewsSpec
<1> QED  BY <1>2, PTL DEF RowsAreOfNow, RowsOfNow, HandsOut
=============================================================================
