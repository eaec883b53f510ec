--------------------------- MODULE ToolkitProofs ---------------------------
(***************************************************************************)
(* The parts an application drives on its own, for all capacities,         *)
(* durations, lifetimes, steps, frames, menus and rows: the caches of a    *)
(* particle pool are exact, animations and tweens follow their clock, and  *)
(* a menu follows its items.                                               *)
(***************************************************************************)
EXTENDS ParticlePool, Effects, UiMenu, FiniteSetTheorems, WellFoundedInduction, TLAPS

-----------------------------------------------------------------------------
(* The particle pool.                                                        *)

DataOK ==
  /\ particles \in [Slots -> [active : BOOLEAN, age : Nat, lifetime : Nat]]
  /\ free \in SUBSET Slots
  /\ active_count \in 0..Capacity
  /\ free_head \in Slots \cup {FreeNone}
  /\ used_high_water \in 0..Capacity

\* What CachesAreExact says of a pool in use, and that its particles are alive.
Exact ==
  /\ FreeIsInactive /\ HeadIsLowest /\ HighWaterIsHighest /\ CountIsActive
  /\ ActiveHaveTime

ControlOK ==
  /\ initialized \in BOOLEAN
  /\ emitting \in 0..Capacity
  /\ status \in {"ok", "limit", "invalid_argument", "state"}

IInv ==
  /\ DataOK /\ ControlOK
  /\ RoomToEmit
  /\ initialized => Exact /\ status # "state"

-----------------------------------------------------------------------------
(* Numbers and sets of slots.                                                *)

\* The least-number principle, from the well-foundedness of < on Nat.
SmallerPairs == {p \in Nat \X Nat : p[1] < p[2]}

LEMMA LeastElement ==
  ASSUME NEW T \in SUBSET Nat, T # {}
  PROVE  \E i \in T : \A j \in T : i <= j
<1>1. IsWellFoundedOn(SmallerPairs, Nat)
  BY NatLessThanWellFounded DEF OpToRel, SmallerPairs
<1>2. PICK i \in T : \A j \in T : ~(<<j, i>> \in SmallerPairs)
  BY <1>1, WFMin
<1>3. \A j \in T : ~(j < i)
  BY <1>2 DEF SmallerPairs
<1> QED  BY <1>3

LEMMA Induction ==
  ASSUME NEW S, 0 \in S, \A n \in Nat : n \in S => n + 1 \in S
  PROVE  \A n \in Nat : n \in S
<1> DEFINE T == {n \in Nat : n \notin S}
<1>1. SUFFICES ASSUME T # {} PROVE FALSE
  OBVIOUS
<1>2. IsWellFoundedOn(SmallerPairs, Nat)
  BY NatLessThanWellFounded DEF OpToRel, SmallerPairs
<1>3. PICK n \in T : \A m \in T : <<m, n>> \notin SmallerPairs
  <2> HIDE DEF T
  <2>1. T \in SUBSET Nat
    BY DEF T
  <2> QED  BY <1>1, <1>2, <2>1, WFMin
<1>4. n \in Nat /\ n # 0 /\ n \notin S
  OBVIOUS
<1>5. n - 1 \in S
  <2>1. n - 1 \in Nat /\ <<n - 1, n>> \in SmallerPairs
    BY <1>4 DEF SmallerPairs
  <2> QED  BY <1>3, <2>1
<1>6. n - 1 \in Nat /\ n = (n - 1) + 1
  BY <1>4
<1> QED  BY <1>4, <1>5, <1>6

LEMMA SlotsAreNumbers ==
  ASSUME PoolConstants
  PROVE  Slots \in SUBSET Nat /\ FreeNone \notin Slots /\ FreeNone \in Nat
BY DEF PoolConstants, Slots, FreeNone

LEMMA BelowIsSlot ==
  ASSUME PoolConstants, NEW n \in Nat, 0 < n, n <= Capacity
  PROVE  n - 1 \in Slots
BY DEF PoolConstants, Slots

\* The lowest free slot from a start, or none.
LEMMA LowestFrom ==
  ASSUME PoolConstants, NEW S \in SUBSET Slots, NEW start \in Nat
  PROVE  \/ /\ FindFreeFrom(S, start) = FreeNone
            /\ \A i \in S : i < start
         \/ /\ FindFreeFrom(S, start) \in S
            /\ FindFreeFrom(S, start) >= start
            /\ \A i \in S : i >= start => FindFreeFrom(S, start) <= i
<1> DEFINE T == {i \in S : i >= start}
           IsLowest(i) == i >= start /\ \A j \in S : j >= start => i <= j
<1>1. S \in SUBSET Nat
  BY SlotsAreNumbers
<1>2. CASE T = {}
  BY <1>1, <1>2 DEF FindFreeFrom
<1>3. CASE T # {}
  <2>1. PICK i \in T : \A j \in T : i <= j
    BY <1>1, <1>3, LeastElement
  <2>2. i \in S /\ IsLowest(i)
    BY <2>1
  <2>3. FindFreeFrom(S, start) = CHOOSE k \in S : IsLowest(k)
    BY <1>3 DEF FindFreeFrom
  <2>4. FindFreeFrom(S, start) \in S /\ IsLowest(FindFreeFrom(S, start))
    <3> HIDE DEF IsLowest
    <3> QED  BY <2>2, <2>3
  <2> QED  BY <2>4
<1> QED  BY <1>2, <1>3

\* One past the highest slot below a limit that is not free.
LEMMA HighestBelow ==
  ASSUME PoolConstants, NEW S \in SUBSET Slots, NEW limit \in 0..Capacity
  PROVE  /\ ActiveHighWater(S, limit) \in 0..limit
         /\ \A i \in Slots : ActiveHighWater(S, limit) <= i /\ i < limit => i \in S
         /\ ActiveHighWater(S, limit) > 0 => ActiveHighWater(S, limit) - 1 \notin S
<1> DEFINE T == {d \in Nat : \E i \in 0..limit - 1 : i \notin S /\ d + i = limit - 1}
           IsHighest(n) == n - 1 \notin S /\ \A i \in n..limit - 1 : i \in S
<1>0. Capacity \in Nat /\ Slots = 0..Capacity - 1 /\ limit \in Nat /\ limit <= Capacity
  BY DEF PoolConstants, Slots
<1>1. CASE \A i \in 0..limit - 1 : i \in S
  BY <1>0, <1>1 DEF ActiveHighWater
<1>2. CASE \E i \in 0..limit - 1 : i \notin S
  <2>1. T \in SUBSET Nat /\ T # {}
    <3>1. PICK i \in 0..limit - 1 : i \notin S
      BY <1>2
    <3>2. limit - 1 - i \in Nat /\ (limit - 1 - i) + i = limit - 1
      BY <1>0, <3>1
    <3>3. limit - 1 - i \in T
      BY <3>1, <3>2
    <3> QED  BY <3>3
  <2>2. PICK d \in T : \A e \in T : d <= e
    <3> HIDE DEF T
    <3> QED  BY <2>1, LeastElement
  <2>3. PICK h \in 0..limit - 1 : h \notin S /\ d + h = limit - 1
    OBVIOUS
  <2>4. h + 1 \in 1..limit /\ IsHighest(h + 1)
    <3>1. h + 1 - 1 \notin S /\ h + 1 \in 1..limit
      BY <1>0, <2>3
    <3>2. ASSUME NEW i \in h + 1..limit - 1, i \notin S  PROVE FALSE
      <4>1. /\ i \in 0..limit - 1 /\ limit - 1 - i \in Nat
            /\ limit - 1 - i < d /\ (limit - 1 - i) + i = limit - 1
        BY <1>0, <2>3
      <4>2. limit - 1 - i \in T
        BY <3>2, <4>1
      <4>3. d <= limit - 1 - i
        BY <2>2, <4>2
      <4> QED  BY <4>1, <4>3
    <3> QED  BY <3>1, <3>2
  <2>5. ActiveHighWater(S, limit) = CHOOSE n \in 1..limit : IsHighest(n)
    BY <1>2 DEF ActiveHighWater
  <2>6. ActiveHighWater(S, limit) \in 1..limit /\ IsHighest(ActiveHighWater(S, limit))
    <3> HIDE DEF IsHighest
    <3> QED  BY <2>4, <2>5
  <2> QED  BY <1>0, <2>6
<1> QED  BY <1>1, <1>2

\* Counting slots.
LEMMA CountSlots ==
  ASSUME PoolConstants, NEW A \in SUBSET Slots
  PROVE  /\ IsFiniteSet(A)
         /\ Cardinality(A) \in 0..Capacity
         /\ Cardinality(A) = 0 <=> A = {}
         /\ Cardinality(A) = Capacity <=> A = Slots
         /\ \A high \in Nat : (\A i \in A : i < high) => Cardinality(A) <= high
<1>1. Capacity \in Nat /\ Slots = 0..Capacity - 1
  BY DEF PoolConstants, Slots
<1>2. IsFiniteSet(Slots) /\ Cardinality(Slots) = Capacity
  BY <1>1, FS_Interval
<1>3. /\ IsFiniteSet(A) /\ Cardinality(A) <= Capacity
      /\ Cardinality(A) = Capacity => A = Slots
  BY <1>2, FS_Subset
<1>4. Cardinality(A) \in Nat
  BY <1>3, FS_CardinalityType
<1>5. Cardinality(A) = 0 <=> A = {}
  BY <1>3, FS_EmptySet
<1>6. ASSUME NEW high \in Nat, \A i \in A : i < high
      PROVE  Cardinality(A) <= high
  <2>1. A \in SUBSET (0..high - 1)
    BY <1>1, <1>6
  <2>2. IsFiniteSet(0..high - 1) /\ Cardinality(0..high - 1) = high
    BY FS_Interval
  <2>3. Cardinality(A) <= Cardinality(0..high - 1)
    BY <2>1, <2>2, FS_Subset
  <2> QED  BY <2>2, <2>3
<1> QED  BY <1>1, <1>2, <1>3, <1>4, <1>5, <1>6

-----------------------------------------------------------------------------
(* What exact caches say.                                                    *)

LEMMA CacheFacts ==
  ASSUME PoolConstants, DataOK, Exact
  PROVE  /\ Active \in SUBSET Slots
         /\ active_count = 0 <=> Active = {}
         /\ active_count = Capacity <=> free = {}
         /\ active_count <= used_high_water
         /\ free_head = FreeNone <=> free = {}
         /\ free # {} => free_head \in free
<1>1. Active \in SUBSET Slots
  BY DEF Active
<1>2. active_count = Cardinality(Active) /\ used_high_water \in Nat
  BY DEF Exact, CountIsActive, DataOK
<1>3. active_count = 0 <=> Active = {}
  BY <1>1, <1>2, CountSlots
<1>4. active_count = Capacity <=> free = {}
  BY <1>1, <1>2, CountSlots, SMTT(60) DEF Exact, FreeIsInactive
<1>5. active_count <= used_high_water
  BY <1>1, <1>2, CountSlots DEF Exact, HighWaterIsHighest
<1>6. free_head = FreeNone <=> free = {}
  BY SlotsAreNumbers DEF Exact, HeadIsLowest, DataOK
<1>7. free # {} => free_head \in free
  BY DEF Exact, HeadIsLowest
<1> QED  BY <1>1, <1>3, <1>4, <1>5, <1>6, <1>7

\* A pool with exact caches passes the check of aforc_particle_pool_ready.
LEMMA ExactIsReady ==
  ASSUME PoolConstants, DataOK, Exact, initialized
  PROVE  Ready
<1>0. Capacity \in Nat \ {0} /\ Slots = 0..Capacity - 1 /\ used_high_water \in 0..Capacity
  BY DEF PoolConstants, Slots, DataOK
<1>1. active_count <= used_high_water /\ used_high_water <= Capacity
  BY <1>0, CacheFacts
<1>2. CASE active_count = 0
  <2>1. Active = {} /\ free = Slots /\ 0 \in free
    BY <1>0, <1>2, CacheFacts DEF Exact, FreeIsInactive
  <2>2. free_head = 0
    <3>1. free_head \in free /\ free_head <= 0
      BY <2>1, CacheFacts DEF Exact, HeadIsLowest
    <3> QED  BY <1>0, <2>1, <3>1
  <2>3. used_high_water = 0
    BY <1>0, <2>1 DEF Exact, HighWaterIsHighest
  <2>4. ~particles[0].active
    BY <2>1 DEF Active
  <2> QED  BY <1>1, <1>2, <2>1, <2>2, <2>3, <2>4 DEF Ready
<1>3. CASE active_count # 0
  <2>1. used_high_water > 0
    BY <1>0, <1>1, <1>3 DEF DataOK
  <2>2. used_high_water - 1 \in Active
    BY <2>1 DEF Exact, HighWaterIsHighest
  <2>3. particles[used_high_water - 1].active /\ used_high_water - 1 \notin free
    BY <2>2 DEF Exact, FreeIsInactive, Active
  <2>4. CASE active_count = Capacity
    BY <1>1, <1>3, <2>1, <2>3, <2>4, CacheFacts DEF Ready
  <2>5. CASE active_count # Capacity
    <3>1. free_head \in free
      BY <2>5, CacheFacts
    <3>2. free_head \in Slots /\ free_head \notin Active
      BY <3>1 DEF Exact, FreeIsInactive
    <3>3. ~particles[free_head].active
      BY <3>2 DEF Active
    <3> QED  BY <1>1, <1>3, <2>1, <2>3, <2>5, <3>1, <3>3 DEF Ready
  <2> QED  BY <2>4, <2>5
<1> QED  BY <1>2, <1>3

-----------------------------------------------------------------------------
(* What changes the slots keeps the caches exact.                            *)

LEMMA ResetIsExact ==
  ASSUME PoolConstants, ResetStorage
  PROVE  DataOK' /\ Exact'
<1>0. Capacity \in Nat \ {0} /\ Slots = 0..Capacity - 1
  BY DEF PoolConstants, Slots
<1>1. /\ particles' = [i \in Slots |-> [active |-> FALSE, age |-> 0, lifetime |-> 0]]
      /\ free' = Slots /\ active_count' = 0 /\ free_head' = 0 /\ used_high_water' = 0
  BY DEF ResetStorage, Unused
<1>2. DataOK'
  BY <1>0, <1>1 DEF DataOK
<1>3. Active' = {}
  BY <1>1 DEF Active
<1>4. Cardinality(Active') = 0
  BY <1>3, FS_EmptySet
<1>5. CountIsActive' /\ FreeIsInactive' /\ ActiveHaveTime' /\ HighWaterIsHighest'
  BY <1>1, <1>3, <1>4 DEF CountIsActive, FreeIsInactive, ActiveHaveTime, HighWaterIsHighest
<1>6. HeadIsLowest'
  BY <1>0, <1>1 DEF HeadIsLowest
<1> QED  BY <1>2, <1>5, <1>6 DEF Exact

\* While there is room, the checks of activate_free pass.
LEMMA RoomToActivate ==
  ASSUME PoolConstants, DataOK, Exact, active_count < Capacity
  PROVE  CanActivate
<1> DEFINE next == FindFreeFrom(free, free_head + 1)
<1>0. /\ Capacity \in Nat \ {0} /\ Slots = 0..Capacity - 1
      /\ active_count \in Nat /\ free \in SUBSET Slots /\ Active \in SUBSET Slots
  BY DEF PoolConstants, Slots, DataOK, Active
<1>1. free_head \in free
  BY <1>0, CacheFacts
<1>2. free_head \in Slots /\ ~particles[free_head].active
  BY <1>1 DEF Exact, FreeIsInactive, Active
<1>3. \A i \in free : free_head <= i
  BY <1>0, <1>1, SlotsAreNumbers DEF Exact, HeadIsLowest
<1>4. \/ next = FreeNone /\ free = {free_head}
      \/ next # FreeNone /\ free # {free_head}
  <2>1. free_head + 1 \in Nat
    BY <1>0, <1>2
  <2>2. \/ next = FreeNone /\ \A i \in free : i < free_head + 1
        \/ next \in free /\ next >= free_head + 1
    BY <1>0, <2>1, LowestFrom
  <2>3. CASE next = FreeNone /\ \A i \in free : i < free_head + 1
    <3>1. ASSUME NEW i \in free  PROVE i = free_head
      <4>1. i \in Nat /\ free_head \in Nat /\ i < free_head + 1 /\ free_head <= i
        BY <1>0, <1>2, <1>3, <2>3
      <4> QED  BY <4>1
    <3> QED  BY <1>1, <2>3, <3>1
  <2>4. CASE next \in free /\ next >= free_head + 1
    BY <1>0, <1>1, <1>2, <2>4, SlotsAreNumbers
  <2> QED  BY <2>2, <2>3, <2>4
<1>5. free = {free_head} <=> active_count + 1 = Capacity
  <2>1. /\ active_count = Cardinality(Active) /\ IsFiniteSet(Active)
        /\ free = Slots \ Active
    BY <1>0, CountSlots DEF Exact, CountIsActive, FreeIsInactive
  <2>2. free_head \notin Active /\ Active \cup {free_head} \in SUBSET Slots
    BY <1>0, <1>1, <1>2, <2>1
  <2>3. Cardinality(Active \cup {free_head}) = active_count + 1
    BY <2>1, <2>2, FS_AddElement
  <2>4. active_count + 1 = Capacity <=> Active \cup {free_head} = Slots
    <3>1. Cardinality(Active \cup {free_head}) = Capacity <=> Active \cup {free_head} = Slots
      BY <2>2, CountSlots
    <3> QED  BY <2>3, <3>1
  <2> QED  BY <1>1, <2>1, <2>2, <2>4
<1> HIDE DEF next
<1>6. active_count + 1 < Capacity => next # FreeNone
  BY <1>0, <1>4, <1>5
<1>7. active_count + 1 = Capacity => next = FreeNone
  BY <1>4, <1>5
<1> QED  BY <1>1, <1>2, <1>6, <1>7 DEF CanActivate, next

LEMMA ActivateIsExact ==
  ASSUME PoolConstants, DataOK, Exact, CanActivate, active_count < Capacity,
         NEW lifetime \in Lifetimes, Activate(lifetime)
  PROVE  DataOK' /\ Exact' /\ active_count' = active_count + 1
<1>0. /\ Capacity \in Nat \ {0} /\ Slots = 0..Capacity - 1 /\ lifetime \in Nat \ {0}
      /\ active_count \in 0..Capacity /\ used_high_water \in 0..Capacity
      /\ free \in SUBSET Slots /\ Active \in SUBSET Slots
      /\ particles \in [Slots -> [active : BOOLEAN, age : Nat, lifetime : Nat]]
  BY DEF PoolConstants, Slots, DataOK, Active
<1>1. free_head \in Slots /\ free_head \in free /\ free_head \notin Active
  BY DEF CanActivate, Active
<1>2. /\ particles' = [particles EXCEPT
           ![free_head] = [active |-> TRUE, age |-> 0, lifetime |-> lifetime]]
      /\ free' = free \ {free_head}
      /\ active_count' = active_count + 1
      /\ free_head' = FindFreeFrom(free, free_head + 1)
      /\ used_high_water' = IF used_high_water <= free_head THEN free_head + 1
                            ELSE used_high_water
  BY DEF Activate
<1>3. Active' = Active \cup {free_head}
  BY <1>0, <1>1, <1>2 DEF Active
<1>4. \/ free_head' = FreeNone /\ \A i \in free : i < free_head + 1
      \/ /\ free_head' \in free /\ free_head' >= free_head + 1
         /\ \A i \in free : i >= free_head + 1 => free_head' <= i
  <2>1. free_head + 1 \in Nat
    BY <1>0, <1>1
  <2> QED  BY <1>0, <1>2, <2>1, LowestFrom
<1>5. \A i \in free : free_head <= i
  BY <1>1 DEF Exact, HeadIsLowest
<1>6. DataOK'
  <2>1. particles' \in [Slots -> [active : BOOLEAN, age : Nat, lifetime : Nat]]
    BY <1>0, <1>1, <1>2
  <2>2. free_head' \in Slots \cup {FreeNone}
    BY <1>0, <1>4
  <2>3. used_high_water' \in 0..Capacity /\ active_count' \in 0..Capacity
    BY <1>0, <1>1, <1>2
  <2> QED  BY <1>0, <1>2, <2>1, <2>2, <2>3 DEF DataOK
<1>7. FreeIsInactive'
  BY <1>0, <1>2, <1>3 DEF Exact, FreeIsInactive
<1>8. HeadIsLowest'
  <2>1. CASE free_head' = FreeNone /\ \A i \in free : i < free_head + 1
    <3>1. free' = {}
      BY <1>0, <1>1, <1>2, <1>5, <2>1
    <3> QED  BY <2>1, <3>1 DEF HeadIsLowest
  <2>2. CASE /\ free_head' \in free /\ free_head' >= free_head + 1
             /\ \A i \in free : i >= free_head + 1 => free_head' <= i
    <3>1. free_head' \in free'
      BY <1>0, <1>1, <1>2, <2>2
    <3>2. \A i \in free' : i >= free_head + 1
      BY <1>0, <1>1, <1>2, <1>5
    <3> QED  BY <1>2, <2>2, <3>1, <3>2 DEF HeadIsLowest
  <2> QED  BY <1>4, <2>1, <2>2
<1>9. HighWaterIsHighest'
  <2>1. \A i \in Active : i < used_high_water
    BY DEF Exact, HighWaterIsHighest
  <2>2. \A i \in Active' : i < used_high_water'
    BY <1>0, <1>1, <1>2, <1>3, <2>1
  <2>3. used_high_water' - 1 \in Active'
    <3>1. CASE used_high_water <= free_head
      BY <1>0, <1>1, <1>2, <1>3, <3>1
    <3>2. CASE ~(used_high_water <= free_head)
      <4>1. used_high_water > 0 /\ used_high_water' = used_high_water
        BY <1>0, <1>1, <1>2, <3>2
      <4> QED  BY <1>3, <4>1 DEF Exact, HighWaterIsHighest
    <3> QED  BY <3>1, <3>2
  <2> QED  BY <2>2, <2>3 DEF HighWaterIsHighest
<1>10. CountIsActive'
  <2>1. Cardinality(Active \cup {free_head}) = Cardinality(Active) + 1
    BY <1>0, <1>1, CountSlots, FS_AddElement
  <2> QED  BY <1>2, <1>3, <2>1 DEF Exact, CountIsActive
<1>11. ActiveHaveTime'
  <2>1. \A i \in Active : particles[i].age < particles[i].lifetime /\ i # free_head
    BY <1>1 DEF Exact, ActiveHaveTime
  <2> QED  BY <1>0, <1>1, <1>2, <1>3, <2>1 DEF ActiveHaveTime
<1> QED  BY <1>2, <1>6, <1>7, <1>8, <1>9, <1>10, <1>11 DEF Exact

LEMMA ReleaseIsExact ==
  ASSUME PoolConstants, DataOK, Exact, NEW i \in Active, Release(i)
  PROVE  DataOK' /\ Exact'
<1>0. /\ Capacity \in Nat \ {0} /\ Slots = 0..Capacity - 1
      /\ active_count \in 0..Capacity /\ used_high_water \in 0..Capacity
      /\ free \in SUBSET Slots /\ Active \in SUBSET Slots /\ i \in Slots
      /\ particles \in [Slots -> [active : BOOLEAN, age : Nat, lifetime : Nat]]
  BY DEF PoolConstants, Slots, DataOK, Active
<1>1. i \notin free
  BY DEF Exact, FreeIsInactive
<1>2. /\ particles' = [particles EXCEPT ![i].active = FALSE]
      /\ free' = free \cup {i}
      /\ free_head' = IF free_head = FreeNone \/ i < free_head THEN i ELSE free_head
      /\ active_count' = active_count - 1
      /\ used_high_water' =
           IF i + 1 = used_high_water
           THEN IF active_count' = 0 THEN 0 ELSE ActiveHighWater(free', used_high_water)
           ELSE used_high_water
  BY DEF Release
<1>3. /\ Active' = Active \ {i}
      /\ \A j \in Active' : particles'[j] = particles[j]
  BY <1>0, <1>2 DEF Active
<1>4. FreeIsInactive' /\ free' \in SUBSET Slots
  BY <1>0, <1>2, <1>3, SMTT(60) DEF Exact, FreeIsInactive
<1>5. active_count' = Cardinality(Active') /\ active_count' \in 0..Capacity
  <2>1. IsFiniteSet(Active) /\ active_count = Cardinality(Active)
    BY <1>0, CountSlots DEF Exact, CountIsActive
  <2>2. Cardinality(Active \ {i}) = active_count - 1
    BY <2>1, FS_RemoveElement
  <2>3. active_count # 0
    BY <2>1, <1>0, CountSlots
  <2> QED  BY <1>0, <1>2, <1>3, <2>2, <2>3, SMTT(60)
<1>6. HeadIsLowest' /\ free_head' \in Slots \cup {FreeNone}
  <2>1. CASE free = {} /\ free_head = FreeNone
    BY <1>0, <1>2, <2>1 DEF HeadIsLowest
  <2>2. CASE free_head \in free /\ \A j \in free : free_head <= j
    <3>1. free_head # FreeNone
      BY <1>0, <2>2, SlotsAreNumbers
    <3> QED  BY <1>0, <1>2, <2>2, <3>1, SMTT(60) DEF HeadIsLowest
  <2> QED  BY <2>1, <2>2 DEF Exact, HeadIsLowest
<1>7. HighWaterIsHighest' /\ used_high_water' \in 0..Capacity
  <2>0. \A j \in Active : j < used_high_water
    BY DEF Exact, HighWaterIsHighest
  <2>1. CASE i + 1 # used_high_water
    <3>1. used_high_water > 0 /\ used_high_water - 1 \in Active /\ used_high_water - 1 # i
      BY <1>0, <2>0, <2>1 DEF Exact, HighWaterIsHighest
    <3>2. used_high_water - 1 \in Active'
      BY <1>3, <3>1
    <3> QED  BY <1>0, <1>2, <1>3, <2>0, <2>1, <3>2 DEF HighWaterIsHighest
  <2>2. CASE i + 1 = used_high_water /\ active_count' = 0
    <3>1. Active' = {}
      BY <1>0, <1>3, <1>5, <2>2, CountSlots
    <3> QED  BY <1>0, <1>2, <2>2, <3>1 DEF HighWaterIsHighest
  <2>3. CASE i + 1 = used_high_water /\ active_count' # 0
    <3>1. used_high_water' = ActiveHighWater(free', used_high_water)
      BY <1>2, <2>3
    <3>2. /\ used_high_water' \in 0..used_high_water
          /\ \A j \in Slots : used_high_water' <= j /\ j < used_high_water => j \in free'
          /\ used_high_water' > 0 => used_high_water' - 1 \notin free'
      BY <1>0, <1>4, <3>1, HighestBelow
    <3>3. ASSUME NEW j \in Active'  PROVE j < used_high_water'
      <4>1. j \in Slots /\ j < used_high_water /\ j \notin free'
        BY <1>0, <1>3, <1>4, <2>0 DEF FreeIsInactive
      <4> QED  BY <1>0, <3>2, <4>1
    <3>4. used_high_water' > 0 => used_high_water' - 1 \in Active'
      <4>1. used_high_water' \in Nat /\ used_high_water' <= Capacity
        BY <1>0, <3>2
      <4>2. ASSUME used_high_water' > 0  PROVE used_high_water' - 1 \in Slots
        BY <4>1, <4>2, BelowIsSlot
      <4> QED  BY <1>4, <3>2, <4>2 DEF FreeIsInactive
    <3> QED  BY <1>0, <3>2, <3>3, <3>4 DEF HighWaterIsHighest
  <2> QED  BY <2>1, <2>2, <2>3
<1>8. particles' \in [Slots -> [active : BOOLEAN, age : Nat, lifetime : Nat]]
  BY <1>0, <1>2, ZenonT(60)
<1>9. ActiveHaveTime'
  BY <1>3 DEF Exact, ActiveHaveTime
<1> QED  BY <1>4, <1>5, <1>6, <1>7, <1>8, <1>9 DEF DataOK, Exact, CountIsActive

\* An update of a pool with exact caches gets to the end of the used slots.
LEMMA UpdateReachesAll ==
  ASSUME PoolConstants, DataOK, Exact
  PROVE  Reached = used_high_water
<1>1. ASSUME NEW i \in 0..used_high_water - 1  PROVE ~Inconsistent(i)
  <2>1. i \in Slots
    BY DEF Slots, DataOK, PoolConstants
  <2>2. i \in free <=> i \notin Active
    BY <2>1 DEF Exact, FreeIsInactive
  <2>3. i \in Active <=> particles[i].active
    BY <2>1 DEF Active
  <2>4. particles[i].active \in BOOLEAN
    BY <2>1 DEF DataOK
  <2>5. particles[i] \in [active : BOOLEAN, age : Nat, lifetime : Nat]
    BY <2>1 DEF DataOK
  <2>6. particles[i].active => ~(particles[i].age >= particles[i].lifetime)
    BY <2>3, <2>5 DEF Exact, ActiveHaveTime
  <2>7. (i \in free) # particles[i].active
    BY <2>2, <2>3, <2>4
  <2> QED  BY <2>6, <2>7 DEF Inconsistent
<1>2. {i \in 0..used_high_water - 1 : Inconsistent(i)} = {}
  BY <1>1
<1> QED  BY <1>2 DEF Reached

LEMMA UpdateIsExact ==
  ASSUME PoolConstants, DataOK, Exact, NEW delta \in Deltas, Update(delta)
  PROVE  DataOK' /\ Exact' /\ status' = "ok"
<1> DEFINE Gone  == Expired(used_high_water, delta)
           first == FindFreeFrom(Gone, 0)
<1>0. /\ Capacity \in Nat \ {0} /\ Slots = 0..Capacity - 1 /\ delta \in Nat \ {0}
      /\ active_count \in 0..Capacity /\ used_high_water \in 0..Capacity
      /\ free \in SUBSET Slots /\ Active \in SUBSET Slots
      /\ particles \in [Slots -> [active : BOOLEAN, age : Nat, lifetime : Nat]]
  BY DEF PoolConstants, Slots, DataOK, Active
<1>1. /\ particles' = [i \in Slots |->
                         IF i < used_high_water THEN Aged(i, delta) ELSE particles[i]]
      /\ free' = free \cup Gone
      /\ active_count' = active_count - Cardinality(Gone)
      /\ free_head' = IF Gone # {} /\ (free_head = FreeNone \/ first < free_head)
                      THEN first ELSE free_head
      /\ used_high_water' =
           IF Gone # {} /\ ~particles'[used_high_water - 1].active
           THEN IF active_count' = 0 THEN 0 ELSE ActiveHighWater(free', used_high_water)
           ELSE used_high_water
      /\ status' = "ok"
  BY UpdateReachesAll DEF Update
<1>2. /\ Gone \in SUBSET Active
      /\ \A i \in Slots : i \in Gone <=> i < used_high_water /\ Expires(i, delta)
  <2>1. \A i \in 0..used_high_water - 1 : i \in Slots
    BY <1>0
  <2>2. \A i \in Slots : i < used_high_water => i \in 0..used_high_water - 1
    BY <1>0
  <2>3. \A i \in Slots : Expires(i, delta) => i \in Active
    BY DEF Expires, Active
  <2> QED  BY <1>0, <2>1, <2>2, <2>3 DEF Expired
<1>3. \A i \in Active : i < used_high_water
  BY DEF Exact, HighWaterIsHighest
<1> HIDE DEF Gone
<1>4. ASSUME NEW i \in Slots
      PROVE  /\ particles'[i] \in [active : BOOLEAN, age : Nat, lifetime : Nat]
             /\ particles'[i].active <=> particles[i].active /\ i \notin Gone
             /\ particles'[i].active => particles'[i].age < particles'[i].lifetime
  <2>1. particles[i] \in [active : BOOLEAN, age : Nat, lifetime : Nat]
    BY <1>0
  <2>2. CASE Expires(i, delta)
    <3>1. i \in Active /\ i < used_high_water
      BY <1>3, <2>2 DEF Expires, Active
    <3>2. i \in Gone
      BY <1>2, <2>2, <3>1
    <3>3. particles'[i] = [particles[i] EXCEPT !.age = particles[i].lifetime, !.active = FALSE]
      BY <1>1, <2>2, <3>1 DEF Aged
    <3> QED  BY <2>1, <3>2, <3>3
  <2>3. CASE ~Expires(i, delta) /\ particles[i].active
    <3>1. i \in Active /\ i < used_high_water /\ i \notin Gone
      BY <1>2, <1>3, <2>3 DEF Active
    <3>2. particles'[i] = [particles[i] EXCEPT !.age = particles[i].age + delta]
      BY <1>1, <2>3, <3>1 DEF Aged
    <3>3. ~(delta >= particles[i].lifetime - particles[i].age)
      BY <2>3 DEF Expires
    <3> QED  BY <1>0, <2>1, <2>3, <3>1, <3>2, <3>3, SMTT(60)
  <2>4. CASE ~particles[i].active
    <3>1. particles'[i] = particles[i]
      BY <1>1, <2>4 DEF Aged, Expires
    <3> QED  BY <2>1, <2>4, <3>1
  <2> QED  BY <2>2, <2>3, <2>4
<1>5. Active' = Active \ Gone
  BY <1>4 DEF Active
<1>6. FreeIsInactive' /\ free' \in SUBSET Slots
  BY <1>0, <1>1, <1>2, <1>5 DEF Exact, FreeIsInactive
<1>7. active_count' = Cardinality(Active') /\ active_count' \in 0..Capacity
  <2>1. IsFiniteSet(Active) /\ active_count = Cardinality(Active)
    BY <1>0, CountSlots DEF Exact, CountIsActive
  <2>2. Cardinality(Active \ Gone) = Cardinality(Active) - Cardinality(Active \cap Gone)
    BY <2>1, FS_Difference
  <2>3. Active \cap Gone = Gone
    BY <1>2
  <2>4. active_count' = Cardinality(Active')
    BY <1>1, <1>5, <2>1, <2>2, <2>3
  <2>5. Active' \in SUBSET Slots
    BY <1>0, <1>5
  <2> QED  BY <2>4, <2>5, CountSlots
<1>8. HeadIsLowest' /\ free_head' \in Slots \cup {FreeNone}
  <2>0. \/ free = {} /\ free_head = FreeNone
        \/ free_head \in free /\ free_head # FreeNone /\ \A j \in free : free_head <= j
    BY <1>0, SlotsAreNumbers DEF Exact, HeadIsLowest
  <2>1. CASE Gone = {}
    BY <1>0, <1>1, <2>0, <2>1 DEF HeadIsLowest
  <2>2. CASE Gone # {}
    <3>1. first \in Gone /\ \A j \in Gone : first <= j
      <4>1. Gone \in SUBSET Slots /\ \A j \in Gone : j >= 0
        BY <1>0, <1>2
      <4>2. \/ \A j \in Gone : j < 0
            \/ first \in Gone /\ \A j \in Gone : j >= 0 => first <= j
        <5>1. 0 \in Nat
          OBVIOUS
        <5> QED  BY <4>1, <5>1, LowestFrom
      <4>3. \A j \in Gone : j \in Nat
        BY <4>1, SlotsAreNumbers
      <4> QED  BY <2>2, <4>1, <4>2, <4>3
    <3> HIDE DEF first
    <3>2. CASE free = {} /\ free_head = FreeNone
      BY <1>0, <1>1, <1>2, <2>2, <3>1, <3>2 DEF HeadIsLowest
    <3>3. CASE free_head \in free /\ free_head # FreeNone /\ \A j \in free : free_head <= j
      <4>1. CASE first < free_head
        <5>1. free_head' = first /\ \A j \in free : first <= j
          BY <1>0, <1>1, <1>2, <2>2, <3>1, <3>3, <4>1
        <5> QED  BY <1>0, <1>1, <1>2, <3>1, <5>1 DEF HeadIsLowest
      <4>2. CASE ~(first < free_head)
        <5>1. free_head' = free_head /\ \A j \in Gone : free_head <= j
          BY <1>0, <1>1, <1>2, <2>2, <3>1, <3>3, <4>2
        <5> QED  BY <1>0, <1>1, <3>3, <5>1 DEF HeadIsLowest
      <4> QED  BY <4>1, <4>2
    <3> QED  BY <2>0, <3>2, <3>3
  <2> QED  BY <2>1, <2>2
<1> HIDE DEF first
<1>9. HighWaterIsHighest' /\ used_high_water' \in 0..Capacity
  <2>1. CASE ~(Gone # {} /\ ~particles'[used_high_water - 1].active)
    <3>1. used_high_water' = used_high_water
      BY <1>1, <2>1
    <3>2. used_high_water > 0 => used_high_water - 1 \in Active'
      <4>1. CASE Gone = {}
        BY <1>5, <4>1 DEF Exact, HighWaterIsHighest
      <4>2. ASSUME particles'[used_high_water - 1].active, used_high_water > 0
            PROVE  used_high_water - 1 \in Active'
        <5>1. used_high_water - 1 \in Slots
          BY <1>0, <4>2
        <5> QED  BY <4>2, <5>1 DEF Active
      <4> QED  BY <2>1, <4>1, <4>2
    <3> QED  BY <1>0, <1>3, <1>5, <3>1, <3>2 DEF HighWaterIsHighest
  <2>2. CASE Gone # {} /\ ~particles'[used_high_water - 1].active /\ active_count' = 0
    <3>1. Active' = {}
      BY <1>0, <1>5, <1>7, <2>2, CountSlots
    <3> QED  BY <1>0, <1>1, <2>2, <3>1 DEF HighWaterIsHighest
  <2>3. CASE Gone # {} /\ ~particles'[used_high_water - 1].active /\ active_count' # 0
    <3>1. used_high_water' = ActiveHighWater(free', used_high_water)
      BY <1>1, <2>3
    <3>2. /\ used_high_water' \in 0..used_high_water
          /\ \A j \in Slots : used_high_water' <= j /\ j < used_high_water => j \in free'
          /\ used_high_water' > 0 => used_high_water' - 1 \notin free'
      BY <1>0, <1>6, <3>1, HighestBelow
    <3>3. ASSUME NEW j \in Active'  PROVE j < used_high_water'
      <4>1. j \in Slots /\ j < used_high_water /\ j \notin free'
        BY <1>0, <1>3, <1>5, <1>6 DEF FreeIsInactive
      <4> QED  BY <1>0, <3>2, <4>1
    <3>4. used_high_water' > 0 => used_high_water' - 1 \in Active'
      <4>1. used_high_water' \in Nat /\ used_high_water' <= Capacity
        BY <1>0, <3>2
      <4>2. ASSUME used_high_water' > 0  PROVE used_high_water' - 1 \in Slots
        BY <4>1, <4>2, BelowIsSlot
      <4> QED  BY <1>6, <3>2, <4>2 DEF FreeIsInactive
    <3> QED  BY <1>0, <3>2, <3>3, <3>4 DEF HighWaterIsHighest
  <2> QED  BY <2>1, <2>2, <2>3
<1>10. particles' \in [Slots -> [active : BOOLEAN, age : Nat, lifetime : Nat]]
  <2>1. particles' = [i \in Slots |-> particles'[i]]
    BY <1>1
  <2> QED  BY <1>4, <2>1
<1>11. ActiveHaveTime'
  BY <1>4 DEF ActiveHaveTime, Active
<1> QED  BY <1>1, <1>6, <1>7, <1>8, <1>9, <1>10, <1>11 DEF DataOK, Exact, CountIsActive

-----------------------------------------------------------------------------
(* The invariant.                                                            *)

LEMMA InitImpliesInv == PoolConstants /\ Init => IInv
<1> SUFFICES ASSUME PoolConstants, Init  PROVE IInv
  OBVIOUS
<1>1. DataOK
  BY DEF DataOK, Init, Unused, PoolConstants, Slots
<1>2. emitting \in 0..Capacity /\ RoomToEmit
  BY DEF Init, RoomToEmit, PoolConstants
<1> QED  BY <1>1, <1>2 DEF IInv, ControlOK, Init

\* A step that leaves the slots and their caches alone.
CacheVars == <<particles, free, active_count, free_head, used_high_water>>

LEMMA CachesUnchanged ==
  ASSUME UNCHANGED CacheVars
  PROVE  (DataOK' <=> DataOK) /\ (Exact' <=> Exact)
BY DEF CacheVars, DataOK, Exact, FreeIsInactive, HeadIsLowest, HighWaterIsHighest,
       CountIsActive, ActiveHaveTime, Active

LEMMA NextKeepsInv ==
  ASSUME PoolConstants, IInv, [Next]_poolVars
  PROVE  IInv'
<1>0. /\ DataOK /\ initialized \in BOOLEAN /\ emitting \in 0..Capacity
      /\ status \in {"ok", "limit", "invalid_argument", "state"}
      /\ RoomToEmit /\ (initialized => Exact /\ status # "state")
      /\ Capacity \in Nat \ {0} /\ active_count \in 0..Capacity
  BY DEF IInv, ControlOK, PoolConstants, DataOK
<1>1. CASE PoolInit
  BY <1>0, <1>1, ResetIsExact DEF IInv, ControlOK, PoolInit, RoomToEmit
<1>2. CASE Dispose
  <2>1. DataOK'
    <3>1. \A i \in Slots : Unused \in [active : BOOLEAN, age : Nat, lifetime : Nat]
      BY DEF Unused
    <3>2. particles' \in [Slots -> [active : BOOLEAN, age : Nat, lifetime : Nat]]
      BY <1>0, <1>2, <3>1 DEF Dispose, DataOK
    <3>3. free' \in SUBSET Slots
      BY <1>0, <1>2 DEF Dispose, DataOK
    <3>4. 0 \in Slots /\ 0 \in 0..Capacity
      BY <1>0 DEF Slots
    <3> QED  BY <1>2, <3>2, <3>3, <3>4 DEF Dispose, DataOK
  <2>2. emitting' = emitting /\ emitting' = 0 /\ status' = status
    BY <1>2 DEF Dispose
  <2>3. initialized' = FALSE
    BY <1>2 DEF Dispose
  <2>4. RoomToEmit'
    BY <2>2 DEF RoomToEmit
  <2>5. ControlOK'
    BY <1>0, <2>2, <2>3 DEF ControlOK
  <2> QED  BY <2>1, <2>3, <2>4, <2>5 DEF IInv
<1>3. CASE Clear
  BY <1>0, <1>3, ResetIsExact DEF IInv, ControlOK, Clear, RoomToEmit
<1>4. CASE NotReady
  <2>1. ~initialized
    BY <1>0, <1>4, ExactIsReady DEF NotReady
  <2>2. UNCHANGED CacheVars /\ UNCHANGED <<initialized, emitting>> /\ status' = "state"
    BY <1>4 DEF NotReady, Fails, CacheVars
  <2> QED  BY <1>0, <1>4, <2>1, <2>2, CachesUnchanged DEF IInv, ControlOK, RoomToEmit, NotReady
<1>5. ASSUME NEW lifetime \in Lifetimes, Spawn(lifetime)  PROVE IInv'
  <2>0. initialized /\ Exact /\ emitting = 0
    BY <1>0, <1>5 DEF Spawn, Ready
  <2>1. CASE active_count = Capacity
    <3>1. UNCHANGED CacheVars /\ UNCHANGED <<initialized, emitting>> /\ status' = "limit"
      BY <1>5, <2>1 DEF Spawn, Fails, CacheVars
    <3> QED  BY <1>0, <2>0, <3>1, CachesUnchanged DEF IInv, ControlOK, RoomToEmit
  <2>2. CASE active_count # Capacity
    <3>1. active_count < Capacity
      BY <1>0, <2>2
    <3>2. CanActivate
      BY <1>0, <2>0, <3>1, RoomToActivate
    <3>3. Activate(lifetime) /\ status' = "ok" /\ UNCHANGED <<initialized, emitting>>
      BY <1>5, <2>2, <3>2 DEF Spawn
    <3>4. DataOK' /\ Exact'
      BY <1>0, <2>0, <3>1, <3>2, <3>3, ActivateIsExact
    <3> QED  BY <1>0, <2>0, <3>3, <3>4 DEF IInv, ControlOK, RoomToEmit
  <2> QED  BY <2>1, <2>2
<1>6. ASSUME NEW lifetime \in Lifetimes, EmitOne(lifetime)  PROVE IInv'
  <2>0. initialized /\ Exact /\ emitting > 0 /\ emitting <= Capacity - active_count
    BY <1>0, <1>6 DEF EmitOne, RoomToEmit
  <2>1. active_count < Capacity
    BY <1>0, <2>0
  <2>2. CanActivate
    BY <1>0, <2>0, <2>1, RoomToActivate
  <2>3. Activate(lifetime) /\ emitting' = emitting - 1 /\ UNCHANGED <<initialized, status>>
    BY <1>6, <2>2 DEF EmitOne
  <2>4. DataOK' /\ Exact' /\ active_count' = active_count + 1
    BY <1>0, <2>0, <2>1, <2>2, <2>3, ActivateIsExact
  <2>5. emitting' \in 0..Capacity /\ emitting' <= Capacity - active_count'
    BY <1>0, <2>0, <2>3, <2>4
  <2>6. RoomToEmit'
    BY <2>0, <2>3, <2>5 DEF RoomToEmit
  <2> QED  BY <1>0, <2>3, <2>4, <2>5, <2>6 DEF IInv, ControlOK
<1>7. ASSUME NEW requested \in Requests, Emit(requested)  PROVE IInv'
  <2>1. /\ initialized /\ requested \in Nat
        /\ emitting' = IF requested > Capacity - active_count
                       THEN Capacity - active_count ELSE requested
        /\ UNCHANGED CacheVars /\ UNCHANGED initialized /\ status' \in {"ok", "limit"}
    BY <1>7 DEF Emit, Ready, CacheVars, PoolConstants
  <2>2. emitting' \in 0..Capacity /\ emitting' <= Capacity - active_count
    BY <1>0, <2>1
  <2>3. RoomToEmit'
    BY <2>1, <2>2 DEF RoomToEmit, CacheVars
  <2> QED  BY <1>0, <2>1, <2>2, <2>3, CachesUnchanged DEF IInv, ControlOK
<1>8. ASSUME NEW i \in 0..Capacity, Kill(i)  PROVE IInv'
  <2>0. initialized /\ Exact /\ emitting = 0
    BY <1>0, <1>8 DEF Kill, Ready
  <2>1. CASE i \notin Slots \/ ~particles[i].active
    <3>1. i \in Slots => particles[i].active # (i \in free)
      <4>1. i \in Slots => (i \in free <=> i \notin Active) /\ (i \in Active <=> particles[i].active)
        BY <2>0 DEF Exact, FreeIsInactive, Active
      <4>2. i \in Slots => particles[i].active \in BOOLEAN
        BY <1>0 DEF DataOK
      <4> QED  BY <4>1, <4>2
    <3>2. /\ UNCHANGED CacheVars /\ UNCHANGED <<initialized, emitting>>
          /\ status' \in {"ok", "invalid_argument"}
      BY <1>8, <2>1, <3>1 DEF Kill, Fails, CacheVars
    <3> QED  BY <1>0, <2>0, <3>2, CachesUnchanged DEF IInv, ControlOK, RoomToEmit
  <2>2. CASE i \in Slots /\ particles[i].active
    <3>1. i \in Active /\ i \notin free
      BY <2>0, <2>2 DEF Exact, FreeIsInactive, Active
    <3>2. particles[i].active \in BOOLEAN
      BY <1>0, <2>2 DEF DataOK
    <3>3. particles[i].active # (i \in free)
      BY <2>2, <3>1, <3>2
    <3>4. Release(i) /\ status' = "ok" /\ UNCHANGED <<initialized, emitting>>
      BY <1>8, <2>2, <3>3 DEF Kill
    <3>5. DataOK' /\ Exact'
      BY <1>0, <2>0, <3>1, <3>4, ReleaseIsExact
    <3> QED  BY <1>0, <2>0, <3>4, <3>5 DEF IInv, ControlOK, RoomToEmit
  <2> QED  BY <2>1, <2>2
<1>9. ASSUME NEW delta \in Deltas, Update(delta)  PROVE IInv'
  <2>1. initialized /\ Exact /\ emitting = 0 /\ UNCHANGED <<initialized, emitting>>
    BY <1>0, <1>9 DEF Update, Ready
  <2>2. DataOK' /\ Exact' /\ status' = "ok"
    BY <1>0, <1>9, <2>1, UpdateIsExact
  <2> QED  BY <1>0, <2>1, <2>2 DEF IInv, ControlOK, RoomToEmit
<1>10. CASE UNCHANGED poolVars
  <2>1. UNCHANGED CacheVars /\ UNCHANGED <<initialized, emitting, status>>
    BY <1>10 DEF poolVars, CacheVars
  <2> QED  BY <1>0, <2>1, CachesUnchanged DEF IInv, ControlOK, RoomToEmit, CacheVars
<1> QED  BY <1>1, <1>2, <1>3, <1>4, <1>5, <1>6, <1>7, <1>8, <1>9, <1>10 DEF Next

(* IInv is an invariant of the pool (particles.c, particle_emitter.c).       *)
THEOREM InvariantHolds == Spec => []IInv
<1>1. Init => IInv
  BY PoolConstants, InitImpliesInv
<1>2. IInv /\ [Next]_poolVars => IInv'
  BY PoolConstants, NextKeepsInv
<1> QED  BY <1>1, <1>2, PTL DEF Spec

(* Every field of the pool (effects.h) keeps its type, and no index leaves   *)
(* the storage.                                                              *)
THEOREM PoolTypes == Spec => []TypeOK
<1>1. IInv => TypeOK
  BY DEF IInv, DataOK, ControlOK, TypeOK
<1> QED  BY <1>1, InvariantHolds, PTL

(* The caches of the pool (particles.c) are exact after any sequence of      *)
(* calls, for every capacity: free_head is the lowest free slot,             *)
(* used_high_water one past the highest active one, active_count their       *)
(* number, and a slot is free exactly when it is not active.                 *)
THEOREM CachesStayExact == Spec => []CachesAreExact
<1>1. IInv => CachesAreExact
  BY DEF IInv, Exact, CachesAreExact
<1> QED  BY <1>1, InvariantHolds, PTL

(* No check of the library for a corrupt pool ever fails (ready,             *)
(* activate_free, release and update in particles.c), for every capacity: a  *)
(* call on a pool in use returns AFORC_ERROR_STATE only if someone else has  *)
(* written to it.                                                            *)
THEOREM PoolStaysConsistent == Spec => []NeverCorrupt
<1>1. IInv => NeverCorrupt
  BY PoolConstants, ExactIsReady DEF IInv, NeverCorrupt
<1> QED  BY <1>1, InvariantHolds, PTL

-----------------------------------------------------------------------------
(* The scans over words of bits.                                             *)

\* A number as a word and a bit of it.
LEMMA WordAndBit ==
  ASSUME NEW bits \in Nat \ {0}, NEW i \in Nat
  PROVE  /\ i \div bits \in Nat /\ i % bits \in 0..bits - 1
         /\ i = (i \div bits) * bits + (i % bits)
<1> DEFINE q == i \div bits
           r == i % bits
<1>1. q \in Int /\ r \in 0..bits - 1 /\ i = bits * q + r
  OBVIOUS
<1> HIDE DEF q, r
<1>2. q \in Nat
  <2>1. q <= -1 => bits * q <= -bits
    BY <1>1
  <2>2. bits * q \in Int
    BY <1>1
  <2> QED  BY <1>1, <2>1, <2>2
<1>3. bits * q = q * bits
  BY <1>2
<1>4. i = q * bits + r
  BY <1>1, <1>3
<1> QED  BY <1>1, <1>2, <1>4 DEF q, r

\* A later word begins where an earlier one ends, or behind it.
LEMMA LaterWord ==
  ASSUME NEW bits \in Nat, NEW v \in Nat, NEW w \in Nat, v < w
  PROVE  v * bits + bits <= w * bits /\ v * bits \in Nat /\ w * bits \in Nat
<1>1. PICK k \in Nat : w = v + 1 + k
  <2>1. w - v - 1 \in Nat /\ w = v + 1 + (w - v - 1)
    OBVIOUS
  <2> QED  BY <2>1
<1>2. w * bits = v * bits + bits + k * bits
  BY <1>1
<1>3. k * bits \in Nat /\ v * bits \in Nat
  OBVIOUS
<1> QED  BY <1>2, <1>3

\* The words hold the pool.
LEMMA WordsHoldSlots ==
  ASSUME PoolConstants, NEW bits \in Nat \ {0}
  PROVE  /\ WordCount(bits) \in Nat
         /\ Capacity <= WordCount(bits) * bits
         /\ \A i \in 0..Capacity - 1 : i \div bits < WordCount(bits)
<1> DEFINE m == WordCount(bits)
<1>1. PICK c \in Nat : c = Capacity /\ c > 0
  BY DEF PoolConstants
<1>2. PICK t \in Nat : t = c + bits - 1
  BY <1>1
<1>3. m = t \div bits
  BY <1>1, <1>2 DEF WordCount
<1>4. m \in Nat /\ t % bits \in 0..bits - 1 /\ t = m * bits + (t % bits)
  BY <1>3, WordAndBit, ZenonT(60)
<1> HIDE DEF m
<1>5. m * bits \in Nat
  BY <1>4
<1>6. c <= m * bits
  BY <1>2, <1>4, <1>5
<1>7. ASSUME NEW i \in Nat, i < c  PROVE i \div bits < m
  <2>1. PICK q \in Nat : q = i \div bits
    BY WordAndBit
  <2>2. PICK r \in 0..bits - 1 : i = q * bits + r
    BY <2>1, WordAndBit, ZenonT(60)
  <2>3. PICK x \in Nat, y \in Nat : x = m * bits /\ y = q * bits
    BY <1>5
  <2>4. y <= i /\ c <= x
    BY <1>6, <2>2, <2>3
  <2>5. ASSUME m < q  PROVE FALSE
    <3>1. x + bits <= y
      BY <1>4, <2>3, <2>5, LaterWord
    <3> QED  BY <1>7, <2>4, <3>1
  <2>6. ASSUME m = q  PROVE FALSE
    <3>1. x = y
      BY <2>3, <2>6
    <3> QED  BY <1>7, <2>4, <3>1
  <2> QED  BY <1>4, <2>1, <2>5, <2>6
<1> QED  BY <1>1, <1>4, <1>6, <1>7, SMTT(60) DEF m

\* What a downward or an upward table of words says at each word is all it says.
Upwards(f, a, m, Met, value) ==
  \A w \in a..m - 1 : f[w] = IF w \in Met THEN value[w] ELSE f[w + 1]

Downwards(f, m, Met, value) ==
  \A w \in 0..m : f[w] = IF w \in Met THEN value[w] ELSE IF w = 0 THEN 0 ELSE f[w - 1]

LEMMA SameUpwards ==
  ASSUME NEW a \in Nat, NEW m \in Nat, NEW f, NEW g, NEW Met, NEW value,
         f[m] = g[m], Upwards(f, a, m, Met, value), Upwards(g, a, m, Met, value)
  PROVE  \A w \in a..m : f[w] = g[w]
<1> DEFINE K == {k \in Nat : \A w \in a..m : w + k = m => f[w] = g[w]}
<1>1. 0 \in K
  OBVIOUS
<1>2. ASSUME NEW k \in Nat, k \in K  PROVE k + 1 \in K
  <2>1. SUFFICES ASSUME NEW w \in a..m, w + (k + 1) = m PROVE f[w] = g[w]
    OBVIOUS
  <2>2. w \in a..m - 1 /\ w + 1 \in a..m /\ (w + 1) + k = m
    BY <2>1
  <2>3. f[w + 1] = g[w + 1]
    BY <1>2, <2>2
  <2> QED  BY <2>2, <2>3 DEF Upwards
<1>3. \A k \in Nat : k \in K
  <2> HIDE DEF K
  <2> QED  BY <1>1, <1>2, Induction
<1>4. ASSUME NEW w \in a..m  PROVE f[w] = g[w]
  <2>1. m - w \in Nat /\ w + (m - w) = m
    OBVIOUS
  <2> QED  BY <1>3, <2>1
<1> QED  BY <1>4

LEMMA SameDownwards ==
  ASSUME NEW m \in Nat, NEW f, NEW g, NEW Met, NEW value,
         Downwards(f, m, Met, value), Downwards(g, m, Met, value)
  PROVE  \A w \in 0..m : f[w] = g[w]
<1> DEFINE K == {k \in Nat : k \in 0..m => f[k] = g[k]}
<1>1. 0 \in K
  <2>1. 0 \in 0..m
    OBVIOUS
  <2> QED  BY <2>1 DEF Downwards
<1>2. ASSUME NEW k \in Nat, k \in K  PROVE k + 1 \in K
  <2>1. SUFFICES ASSUME k + 1 \in 0..m PROVE f[k + 1] = g[k + 1]
    OBVIOUS
  <2>2. PICK w \in 0..m : w = k + 1 /\ w # 0 /\ w - 1 = k /\ k \in 0..m
    BY <2>1
  <2>3. f[k] = g[k]
    BY <1>2, <2>2
  <2>4. f[w] = IF w \in Met THEN value[w] ELSE f[k]
    BY <2>2 DEF Downwards
  <2>5. g[w] = IF w \in Met THEN value[w] ELSE g[k]
    BY <2>2 DEF Downwards
  <2>6. f[w] = g[w]
    BY <2>3, <2>4, <2>5
  <2> QED  BY <2>2, <2>6
<1>3. \A k \in Nat : k \in K
  <2> HIDE DEF K
  <2> QED  BY <1>1, <1>2, Induction
<1> QED  BY <1>3

\* Each scan finds one slot or none.
IsLowestFrom(S, start, i) ==
  \/ i = FreeNone /\ \A j \in S : j < start
  \/ i \in S /\ i >= start /\ \A j \in S : j >= start => i <= j

LEMMA LowestIsFound ==
  ASSUME PoolConstants, NEW S \in SUBSET Slots, NEW start \in Nat, NEW i,
         IsLowestFrom(S, start, i)
  PROVE  FindFreeFrom(S, start) = i
<1>1. S \in SUBSET Nat /\ FreeNone \notin S
  BY SlotsAreNumbers
<1>2. IsLowestFrom(S, start, FindFreeFrom(S, start))
  BY LowestFrom DEF IsLowestFrom
<1>3. PICK f : f = FindFreeFrom(S, start) /\ IsLowestFrom(S, start, f)
  BY <1>2
<1>4. CASE f \in S /\ i \in S
  <2>1. f >= start /\ i >= start /\ f <= i /\ i <= f
    BY <1>1, <1>3, <1>4 DEF IsLowestFrom
  <2> QED  BY <1>1, <1>3, <1>4, <2>1
<1>5. CASE f \notin S
  <2>1. f = FreeNone /\ \A j \in S : j < start
    BY <1>3, <1>5 DEF IsLowestFrom
  <2>2. ASSUME i \in S  PROVE FALSE
    <3>1. i < start /\ i >= start
      BY <1>1, <2>1, <2>2 DEF IsLowestFrom
    <3> QED  BY <1>1, <2>2, <3>1
  <2> QED  BY <1>3, <2>1, <2>2 DEF IsLowestFrom
<1>6. CASE i \notin S
  <2>1. i = FreeNone /\ \A j \in S : j < start
    BY <1>6 DEF IsLowestFrom
  <2>2. ASSUME f \in S  PROVE FALSE
    <3>1. f < start /\ f >= start
      BY <1>1, <1>3, <2>1, <2>2 DEF IsLowestFrom
    <3> QED  BY <1>1, <2>2, <3>1
  <2> QED  BY <1>3, <2>1, <2>2 DEF IsLowestFrom
<1> QED  BY <1>4, <1>5, <1>6

LEMMA LowestSetBitIs ==
  ASSUME NEW word \in SUBSET Nat, word # {}
  PROVE  LowestSetBit(word) \in word /\ \A c \in word : LowestSetBit(word) <= c
<1>1. \E b \in word : \A c \in word : b <= c
  BY LeastElement
<1> QED  BY <1>1 DEF LowestSetBit

\* The bits of a word that the scan looks at, and where it is with the word.
MaskedFrom(bits, slots, start, w) ==
  IF w = start \div bits THEN {b \in Words(bits, slots)[w] : b >= start % bits}
  ELSE Words(bits, slots)[w]

FromWord(bits, start, w) == IF w = start \div bits THEN start ELSE w * bits

LEMMA FromWordLies ==
  ASSUME PoolConstants, NEW bits \in Nat \ {0}, NEW start \in Nat, NEW w \in Nat,
         start \div bits <= w
  PROVE  /\ FromWord(bits, start, w) \in Nat
         /\ w * bits <= FromWord(bits, start, w)
         /\ FromWord(bits, start, w) < w * bits + bits
         /\ FromWord(bits, start, w + 1) = w * bits + bits
<1>1. PICK a \in Nat, r \in 0..bits - 1 : a = start \div bits /\ start = a * bits + r
  BY WordAndBit
<1>2. a * bits \in Nat /\ w * bits \in Nat /\ (w + 1) * bits = w * bits + bits
  OBVIOUS
<1>3. w + 1 # a
  BY <1>1
<1> QED  BY <1>1, <1>2, <1>3 DEF FromWord

LEMMA MaskedAre ==
  ASSUME PoolConstants, NEW bits \in Nat \ {0}, NEW slots \in SUBSET Slots, NEW start \in Nat,
         NEW w \in 0..WordCount(bits) - 1, start \div bits <= w
  PROVE  MaskedFrom(bits, slots, start, w)
           = {b \in 0..bits - 1 : w * bits + b \in slots /\ FromWord(bits, start, w) <= w * bits + b}
<1>1. PICK a \in Nat, r \in 0..bits - 1 :
        a = start \div bits /\ r = start % bits /\ start = a * bits + r
  BY WordAndBit, ZenonT(60)
<1>2. Words(bits, slots)[w] = {b \in 0..bits - 1 : w * bits + b \in slots}
  BY DEF Words
<1>3. w \in Nat /\ a * bits \in Nat /\ w * bits \in Nat
  BY <1>1, WordsHoldSlots
<1>4. CASE w = a
  <2>1. \A b \in 0..bits - 1 : b >= r <=> start <= w * bits + b
    BY <1>1, <1>3, <1>4
  <2> QED  BY <1>1, <1>2, <1>4, <2>1 DEF MaskedFrom, FromWord
<1>5. CASE w # a
  <2>1. \A b \in 0..bits - 1 : w * bits <= w * bits + b
    BY <1>3
  <2> QED  BY <1>1, <1>2, <1>5, <2>1 DEF MaskedFrom, FromWord
<1> QED  BY <1>4, <1>5

\* What there is to find from a word on.
LEMMA FoundAtWord ==
  ASSUME PoolConstants, NEW bits \in Nat \ {0}, NEW slots \in SUBSET Slots, NEW start \in Nat,
         NEW w \in 0..WordCount(bits) - 1, start \div bits <= w,
         NEW masked, masked = MaskedFrom(bits, slots, start, w)
  PROVE  FindFreeFrom(slots, FromWord(bits, start, w))
           = IF masked # {} THEN w * bits + LowestSetBit(masked)
             ELSE FindFreeFrom(slots, FromWord(bits, start, w + 1))
<1>1. w \in Nat /\ slots \in SUBSET Nat
  BY WordsHoldSlots, SlotsAreNumbers
<1>2. PICK from \in Nat, base \in Nat :
        /\ from = FromWord(bits, start, w) /\ base = w * bits
        /\ base <= from /\ from < base + bits /\ FromWord(bits, start, w + 1) = base + bits
  <2>1. FromWord(bits, start, w) \in Nat
    BY <1>1, FromWordLies
  <2>3. w * bits \in Nat
    BY <1>1
  <2>2. /\ w * bits <= FromWord(bits, start, w)
        /\ FromWord(bits, start, w) < w * bits + bits
        /\ FromWord(bits, start, w + 1) = w * bits + bits
    BY <1>1, FromWordLies
  <2> QED  BY <2>1, <2>2, <2>3, Zenon
<1>3. masked = {b \in 0..bits - 1 : base + b \in slots /\ from <= base + b}
  BY <1>2, MaskedAre
<1>4. ASSUME NEW j \in slots, j >= from
      PROVE  j >= base + bits \/ \E b \in masked : j = base + b
  <2>1. CASE j < base + bits
    <3>1. j - base \in 0..bits - 1 /\ base + (j - base) = j
      BY <1>1, <1>2, <1>4, <2>1
    <3> QED  BY <1>3, <1>4, <3>1
  <2> QED  BY <1>1, <2>1
<1>5. CASE masked # {}
  <2>1. masked \in SUBSET Nat
    BY <1>3
  <2>2. PICK b \in masked : b = LowestSetBit(masked) /\ \A c \in masked : b <= c
    BY <1>5, <2>1, LowestSetBitIs
  <2>3. b \in 0..bits - 1 /\ base + b \in slots /\ from <= base + b
    BY <1>3, <2>2
  <2>4. ASSUME NEW j \in slots, j >= from  PROVE base + b <= j
    <3>1. CASE j >= base + bits
      BY <1>1, <2>3, <3>1
    <3>2. CASE \E c \in masked : j = base + c
      <4>1. PICK c \in masked : j = base + c
        BY <3>2
      <4>2. b <= c /\ c \in Nat
        BY <2>1, <2>2
      <4> QED  BY <2>3, <4>1, <4>2
    <3> QED  BY <1>4, <2>4, <3>1, <3>2
  <2>5. IsLowestFrom(slots, from, base + b)
    BY <2>3, <2>4 DEF IsLowestFrom
  <2> QED  BY <1>2, <1>5, <2>2, <2>5, LowestIsFound
<1>6. CASE masked = {}
  <2>1. PICK i : i = FindFreeFrom(slots, base + bits) /\ IsLowestFrom(slots, base + bits, i)
    <3>1. base + bits \in Nat
      OBVIOUS
    <3> QED  BY <3>1, LowestFrom, SMTT(60) DEF IsLowestFrom
  <2>2. \A j \in slots : j >= from => j >= base + bits
    BY <1>4, <1>6
  <2>3. \A j \in slots : j < base + bits => j < from
    BY <1>1, <2>2
  <2>4. IsLowestFrom(slots, from, i)
    <3>1. CASE i = FreeNone /\ \A j \in slots : j < base + bits
      BY <2>3, <3>1 DEF IsLowestFrom
    <3>2. CASE i \in slots /\ i >= base + bits /\ \A j \in slots : j >= base + bits => i <= j
      <4>1. i >= from
        BY <1>1, <1>2, <3>2
      <4> QED  BY <2>2, <3>2, <4>1 DEF IsLowestFrom
    <3> QED  BY <2>1, <3>1, <3>2 DEF IsLowestFrom
  <2> QED  BY <1>2, <1>6, <2>1, <2>4, LowestIsFound
<1> QED  BY <1>5, <1>6

\* The upward scan: what it has at a word is what there is to find from the word on.
LEMMA ScanFreeFinds ==
  ASSUME PoolConstants, NEW bits \in Nat \ {0}, NEW slots \in SUBSET Slots,
         NEW start \in 0..Capacity
  PROVE  ScanFreeFrom(bits, Words(bits, slots), start) = FindFreeFrom(slots, start)
<1>1. Capacity \in Nat \ {0} /\ slots \in SUBSET (0..Capacity - 1) /\ start \in Nat
  BY DEF PoolConstants, Slots
<1>2. CASE start >= Capacity
  <2>1. ~(\E i \in slots : i >= start)
    BY <1>1, <1>2
  <2> QED  BY <1>2, <2>1 DEF ScanFreeFrom, FindFreeFrom
<1>3. CASE start < Capacity
  <2>1. PICK a \in Nat, m \in Nat : a = start \div bits /\ m = WordCount(bits) /\ a < m
    <3>1. start \in 0..Capacity - 1
      BY <1>1, <1>3
    <3> QED  BY <1>1, <3>1, WordAndBit, WordsHoldSlots
  <2> DEFINE Masked(w) == MaskedFrom(bits, slots, start, w)
             IsScan(scan) ==
               scan = [w \in a..m |-> IF w = m THEN FreeNone
                                      ELSE IF Masked(w) # {} THEN w * bits + LowestSetBit(Masked(w))
                                      ELSE scan[w + 1]]
             found == [w \in a..m |-> FindFreeFrom(slots, FromWord(bits, start, w))]
  <2>2. found[m] = FreeNone
    <3>1. m # a /\ m * bits \in Nat /\ Capacity <= m * bits
      <4>1. Capacity <= WordCount(bits) * bits
        BY WordsHoldSlots
      <4> QED  BY <2>1, <4>1
    <3>2. FromWord(bits, start, m) = m * bits
      BY <2>1, <3>1 DEF FromWord
    <3>3. ~(\E i \in slots : i >= m * bits)
      BY <1>1, <3>1
    <3> QED  BY <2>1, <3>2, <3>3 DEF FindFreeFrom
  <2>3. \A w \in a..m - 1 :
          found[w] = IF Masked(w) # {} THEN w * bits + LowestSetBit(Masked(w)) ELSE found[w + 1]
    <3>1. SUFFICES ASSUME NEW w \in a..m - 1
                   PROVE  FindFreeFrom(slots, FromWord(bits, start, w))
                            = IF Masked(w) # {} THEN w * bits + LowestSetBit(Masked(w))
                              ELSE FindFreeFrom(slots, FromWord(bits, start, w + 1))
      BY <2>1, SMTT(60)
    <3>2. w \in 0..WordCount(bits) - 1 /\ start \div bits <= w
      BY <2>1
    <3> QED  BY <3>2, FoundAtWord, SMTT(60)
  <2>4. IsScan(found)
    <3>1. \A w \in a..m : found[w] = IF w = m THEN FreeNone
                                     ELSE IF Masked(w) # {} THEN w * bits + LowestSetBit(Masked(w))
                                     ELSE found[w + 1]
      <4> HIDE DEF found, Masked
      <4> QED  BY <2>1, <2>2, <2>3
    <3>2. found = [w \in a..m |-> found[w]]
      OBVIOUS
    <3> HIDE DEF found, Masked
    <3> QED  BY <3>1, <3>2
  <2>5. ASSUME NEW scan, IsScan(scan)  PROVE scan[a] = found[a]
    <3> DEFINE Met == {w \in a..m - 1 : Masked(w) # {}}
               value == [w \in a..m |-> w * bits + LowestSetBit(Masked(w))]
    <3>1. \A w \in a..m : scan[w] = IF w = m THEN FreeNone
                                    ELSE IF Masked(w) # {} THEN w * bits + LowestSetBit(Masked(w))
                                    ELSE scan[w + 1]
      <4> HIDE DEF found, Masked
      <4> QED  BY <2>5, Zenon
    <3>2. scan[m] = found[m]
      BY <2>1, <2>2, <3>1
    <3>3. Upwards(scan, a, m, Met, value)
      <4> HIDE DEF found, Masked
      <4> QED  BY <2>1, <3>1, SMTT(60) DEF Upwards
    <3>4. Upwards(found, a, m, Met, value)
      <4> HIDE DEF found, Masked
      <4> QED  BY <2>1, <2>3 DEF Upwards
    <3> HIDE DEF found, Met, value
    <3>5. \A w \in a..m : scan[w] = found[w]
      BY <3>2, <3>3, <3>4, SameUpwards
    <3> QED  BY <2>1, <3>5
  <2>6. PICK scan : IsScan(scan) /\ ScanFreeFrom(bits, Words(bits, slots), start) = scan[a]
    <3>1. ScanFreeFrom(bits, Words(bits, slots), start) = (CHOOSE scan : IsScan(scan))[a]
      BY <1>3, <2>1 DEF ScanFreeFrom, MaskedFrom
    <3> HIDE DEF IsScan
    <3> QED  BY <2>4, <3>1
  <2>7. found[a] = FindFreeFrom(slots, start)
    BY <2>1 DEF FromWord
  <2> HIDE DEF found, IsScan
  <2> QED  BY <2>5, <2>6, <2>7
<1> QED  BY <1>1, <1>2, <1>3

\* The end of the slots in use, the same downwards.
IsEndBelow(S, limit, n) ==
  /\ n \in 0..limit
  /\ \A i \in n..limit - 1 : i \in S
  /\ n > 0 => n - 1 \notin S

LEMMA EndIsFound ==
  ASSUME PoolConstants, NEW S \in SUBSET Slots, NEW limit \in 0..Capacity, NEW n,
         IsEndBelow(S, limit, n)
  PROVE  ActiveHighWater(S, limit) = n
<1>1. Capacity \in Nat /\ Slots = 0..Capacity - 1 /\ limit \in Nat
  BY DEF PoolConstants, Slots
<1>2. PICK e : e = ActiveHighWater(S, limit)
  OBVIOUS
<1>3. /\ e \in 0..limit
      /\ e > 0 => e - 1 \notin S
      /\ \A i \in Slots : e <= i /\ i < limit => i \in S
  BY <1>2, HighestBelow
<1>4. /\ n \in 0..limit
      /\ n > 0 => n - 1 \notin S
      /\ \A i \in n..limit - 1 : i \in S
  BY DEF IsEndBelow
<1>5. ASSUME n < e  PROVE FALSE
  <2>1. e - 1 \in n..limit - 1 /\ e > 0
    BY <1>1, <1>3, <1>4, <1>5
  <2> QED  BY <1>3, <1>4, <2>1
<1>6. ASSUME e < n  PROVE FALSE
  <2>1. n - 1 \in Slots /\ e <= n - 1 /\ n - 1 < limit /\ n > 0
    BY <1>1, <1>3, <1>4, <1>6
  <2> QED  BY <1>3, <1>4, <2>1
<1> QED  BY <1>1, <1>2, <1>3, <1>4, <1>5, <1>6

LEMMA HighestSetBitIs ==
  ASSUME NEW bits \in Nat, NEW word \in SUBSET (0..bits - 1), word # {}
  PROVE  HighestSetBit(word) \in word /\ \A c \in word : c <= HighestSetBit(word)
<1> DEFINE T == {d \in Nat : \E b \in word : d + b = bits}
<1>1. T \in SUBSET Nat /\ T # {}
  <2>1. PICK b \in word : TRUE
    OBVIOUS
  <2>2. bits - b \in Nat /\ (bits - b) + b = bits
    BY <2>1
  <2> QED  BY <2>1, <2>2
<1>2. PICK d \in T : \A e \in T : d <= e
  <2> HIDE DEF T
  <2> QED  BY <1>1, LeastElement
<1>3. PICK b \in word : d + b = bits
  OBVIOUS
<1>4. ASSUME NEW c \in word  PROVE c <= b
  <2>1. bits - c \in Nat /\ (bits - c) + c = bits
    OBVIOUS
  <2>2. d <= bits - c
    BY <1>2, <2>1
  <2> QED  BY <1>3, <2>2
<1> QED  BY <1>3, <1>4 DEF HighestSetBit

\* The clear bits of a word that the scan looks at, and where it is with the word.
OccupiedTo(bits, slots, limit, w) ==
  (IF w = (limit - 1) \div bits THEN 0..(limit - 1) % bits ELSE 0..bits - 1)
    \ Words(bits, slots)[w]

ToWord(bits, limit, w) == IF w = (limit - 1) \div bits THEN limit ELSE w * bits + bits

LEMMA ToWordLies ==
  ASSUME NEW bits \in Nat \ {0}, NEW limit \in Nat \ {0}, NEW w \in Nat,
         w <= (limit - 1) \div bits
  PROVE  /\ ToWord(bits, limit, w) \in 0..limit
         /\ w * bits < ToWord(bits, limit, w)
         /\ ToWord(bits, limit, w) <= w * bits + bits
         /\ w > 0 => ToWord(bits, limit, w - 1) = w * bits
<1>1. PICK k \in Nat : k = limit - 1 /\ limit = k + 1
  OBVIOUS
<1>2. PICK a \in Nat, r \in 0..bits - 1 : a = (limit - 1) \div bits /\ k = a * bits + r
  BY <1>1, WordAndBit
<1>3. a * bits \in Nat /\ w * bits \in Nat
  OBVIOUS
<1>4. w # a => w * bits + bits <= a * bits
  BY <1>2, LaterWord
<1>5. w > 0 => w - 1 # a /\ (w - 1) * bits + bits = w * bits
  BY <1>2
<1>6. CASE w = a
  BY <1>1, <1>2, <1>3, <1>5, <1>6 DEF ToWord
<1>7. CASE w # a
  BY <1>1, <1>2, <1>3, <1>4, <1>5, <1>7 DEF ToWord
<1> QED  BY <1>6, <1>7

LEMMA OccupiedAre ==
  ASSUME PoolConstants, NEW bits \in Nat \ {0}, NEW slots \in SUBSET Slots,
         NEW limit \in Nat \ {0}, NEW w \in 0..WordCount(bits) - 1, w <= (limit - 1) \div bits
  PROVE  OccupiedTo(bits, slots, limit, w)
           = {b \in 0..bits - 1 : w * bits + b \notin slots /\ w * bits + b < ToWord(bits, limit, w)}
<1>1. PICK k \in Nat : k = limit - 1 /\ limit = k + 1
  OBVIOUS
<1>2. PICK a \in Nat, r \in 0..bits - 1 :
        a = (limit - 1) \div bits /\ r = (limit - 1) % bits /\ k = a * bits + r
  <2>1. PICK a \in Nat, r \in 0..bits - 1 :
          a = k \div bits /\ r = k % bits /\ k = a * bits + r
    BY WordAndBit, ZenonT(60)
  <2> QED  BY <1>1, <2>1, Zenon
<1>3. Words(bits, slots)[w] = {b \in 0..bits - 1 : w * bits + b \in slots}
  BY DEF Words
<1>4. w \in Nat /\ a * bits \in Nat /\ w * bits \in Nat
  BY <1>2, WordsHoldSlots
<1>5. CASE w = a
  <2>1. \A b \in 0..bits - 1 : b <= r <=> w * bits + b < limit
    BY <1>1, <1>2, <1>4, <1>5
  <2>2. OccupiedTo(bits, slots, limit, w) = (0..r) \ Words(bits, slots)[w]
    BY <1>2, <1>5 DEF OccupiedTo
  <2>3. ToWord(bits, limit, w) = limit
    BY <1>2, <1>5 DEF ToWord
  <2>4. \A b : b \in 0..r <=> b \in 0..bits - 1 /\ b <= r
    BY <1>2
  <2> QED  BY <1>3, <2>1, <2>2, <2>3, <2>4
<1>6. CASE w # a
  <2>1. \A b \in 0..bits - 1 : w * bits + b < w * bits + bits
    BY <1>4
  <2>2. OccupiedTo(bits, slots, limit, w) = (0..bits - 1) \ Words(bits, slots)[w]
    BY <1>2, <1>6 DEF OccupiedTo
  <2>3. ToWord(bits, limit, w) = w * bits + bits
    BY <1>2, <1>6 DEF ToWord
  <2> QED  BY <1>3, <2>1, <2>2, <2>3
<1> QED  BY <1>5, <1>6

\* What there is to find up to a word.
EndIsAtWord(bits, slots, limit, w, occupied) ==
  ActiveHighWater(slots, ToWord(bits, limit, w))
    = IF occupied # {} THEN w * bits + HighestSetBit(occupied) + 1
      ELSE IF w = 0 THEN 0 ELSE ActiveHighWater(slots, ToWord(bits, limit, w - 1))

LEMMA EndAtWord ==
  ASSUME PoolConstants, NEW bits \in Nat \ {0}, NEW slots \in SUBSET Slots,
         NEW limit \in 1..Capacity, NEW w \in 0..WordCount(bits) - 1, w <= (limit - 1) \div bits,
         NEW occupied, occupied = OccupiedTo(bits, slots, limit, w)
  PROVE  EndIsAtWord(bits, slots, limit, w, occupied)
<1>1. w \in Nat /\ limit \in Nat \ {0} /\ Capacity \in Nat /\ Slots = 0..Capacity - 1
  BY WordsHoldSlots DEF PoolConstants, Slots
<1>2. PICK to \in 0..limit, base \in Nat :
        /\ to = ToWord(bits, limit, w) /\ base = w * bits
        /\ base < to /\ to <= base + bits /\ (w > 0 => ToWord(bits, limit, w - 1) = base)
  <2>1. ToWord(bits, limit, w) \in 0..limit
    BY <1>1, ToWordLies
  <2>2. /\ w * bits < ToWord(bits, limit, w)
        /\ ToWord(bits, limit, w) <= w * bits + bits
        /\ w > 0 => ToWord(bits, limit, w - 1) = w * bits
    BY <1>1, ToWordLies
  <2>3. w * bits \in Nat
    BY <1>1
  <2> QED  BY <2>1, <2>2, <2>3, Zenon
<1>3. occupied = {b \in 0..bits - 1 : base + b \notin slots /\ base + b < to}
  BY <1>1, <1>2, OccupiedAre, SMTT(60)
<1>4. to \in Nat /\ to \in 0..Capacity /\ base \in 0..Capacity
  BY <1>1, <1>2
<1>5. ASSUME NEW i \in base..to - 1, i \notin slots
      PROVE  \E b \in occupied : i = base + b
  <2>1. i - base \in 0..bits - 1 /\ base + (i - base) = i /\ i < to
    BY <1>2, <1>4
  <2> QED  BY <1>3, <1>5, <2>1
<1>6. CASE occupied # {}
  <2>1. occupied \in SUBSET (0..bits - 1)
    BY <1>3
  <2>2. PICK b \in occupied : b = HighestSetBit(occupied) /\ \A c \in occupied : c <= b
    BY <1>6, <2>1, HighestSetBitIs
  <2>3. b \in 0..bits - 1 /\ base + b \notin slots /\ base + b < to
    BY <1>3, <2>2
  <2>4. ASSUME NEW i \in base + b + 1..to - 1, i \notin slots  PROVE FALSE
    <3>1. i \in base..to - 1
      BY <1>4, <2>3
    <3>2. PICK c \in occupied : i = base + c
      BY <1>5, <2>4, <3>1
    <3>3. c <= b /\ c \in 0..bits - 1
      BY <2>1, <2>2
    <3> QED  BY <1>4, <2>3, <3>2, <3>3
  <2>5. IsEndBelow(slots, to, base + b + 1)
    <3>1. base + b + 1 \in 0..to /\ (base + b + 1) - 1 = base + b
      BY <1>4, <2>3
    <3> QED  BY <2>3, <2>4, <3>1 DEF IsEndBelow
  <2> QED  BY <1>2, <1>4, <1>6, <2>2, <2>5, EndIsFound DEF EndIsAtWord
<1>7. CASE occupied = {}
  <2>1. \A i \in base..to - 1 : i \in slots
    BY <1>5, <1>7
  <2>2. CASE w = 0
    <3>1. base = 0
      BY <1>2, <2>2
    <3>2. IsEndBelow(slots, to, 0)
      BY <1>4, <2>1, <3>1 DEF IsEndBelow
    <3> QED  BY <1>2, <1>4, <1>7, <2>2, <3>2, EndIsFound DEF EndIsAtWord
  <2>3. CASE w # 0
    <3>1. PICK n : n = ActiveHighWater(slots, base)
      OBVIOUS
    <3>2. /\ n \in 0..base
          /\ n > 0 => n - 1 \notin slots
          /\ \A i \in Slots : n <= i /\ i < base => i \in slots
      BY <1>4, <3>1, HighestBelow
    <3>3. ASSUME NEW i \in n..to - 1  PROVE i \in slots
      <4>1. CASE i < base
        <5>1. i \in Slots /\ n <= i
          BY <1>1, <1>4, <3>2, <4>1
        <5> QED  BY <3>2, <4>1, <5>1
      <4>2. CASE i >= base
        <5>1. i \in base..to - 1
          BY <1>4, <3>2, <4>2
        <5> QED  BY <2>1, <5>1
      <4> QED  BY <1>4, <3>2, <4>1, <4>2
    <3>4. n \in 0..to
      BY <1>2, <1>4, <3>2
    <3>5. IsEndBelow(slots, to, n)
      BY <3>2, <3>3, <3>4 DEF IsEndBelow
    <3>6. w > 0
      BY <1>1, <2>3
    <3> QED  BY <1>2, <1>4, <1>7, <2>3, <3>1, <3>5, <3>6, EndIsFound DEF EndIsAtWord
  <2> QED  BY <2>2, <2>3
<1> QED  BY <1>6, <1>7

\* The downward scan: what it has at a word is what there is to find up to the word.
LEMMA ScanEndFinds ==
  ASSUME PoolConstants, NEW bits \in Nat \ {0}, NEW slots \in SUBSET Slots,
         NEW limit \in 0..Capacity
  PROVE  ScanHighWater(bits, Words(bits, slots), limit) = ActiveHighWater(slots, limit)
<1>1. Capacity \in Nat \ {0} /\ limit \in Nat
  BY DEF PoolConstants
<1>2. CASE limit = 0
  <2>1. ~(\E i \in 0..limit - 1 : i \notin slots)
    BY <1>2
  <2> QED  BY <1>2, <2>1 DEF ScanHighWater, ActiveHighWater
<1>3. CASE limit # 0
  <2>1. PICK m \in Nat : m = (limit - 1) \div bits /\ m < WordCount(bits)
    <3>1. limit - 1 \in 0..Capacity - 1 /\ limit - 1 \in Nat
      BY <1>1, <1>3
    <3> QED  BY <1>1, <3>1, WordAndBit, WordsHoldSlots
  <2> DEFINE Occupied(w) == OccupiedTo(bits, slots, limit, w)
             IsScan(scan) ==
               scan = [w \in 0..m |->
                         IF Occupied(w) # {} THEN w * bits + HighestSetBit(Occupied(w)) + 1
                         ELSE IF w = 0 THEN 0 ELSE scan[w - 1]]
             found == [w \in 0..m |-> ActiveHighWater(slots, ToWord(bits, limit, w))]
             Met   == {w \in 0..m : Occupied(w) # {}}
             value == [w \in 0..m |-> w * bits + HighestSetBit(Occupied(w)) + 1]
  <2>2. ASSUME NEW w \in 0..m
        PROVE  found[w] = IF Occupied(w) # {} THEN w * bits + HighestSetBit(Occupied(w)) + 1
                          ELSE IF w = 0 THEN 0 ELSE found[w - 1]
    <3>1. w \in 0..WordCount(bits) - 1 /\ w <= (limit - 1) \div bits /\ limit \in 1..Capacity
      BY <1>1, <1>3, <2>1, WordsHoldSlots
    <3>2. w # 0 => w - 1 \in 0..m
      BY <2>1
    <3>3. ActiveHighWater(slots, ToWord(bits, limit, w))
            = IF Occupied(w) # {} THEN w * bits + HighestSetBit(Occupied(w)) + 1
              ELSE IF w = 0 THEN 0 ELSE ActiveHighWater(slots, ToWord(bits, limit, w - 1))
      <4>1. EndIsAtWord(bits, slots, limit, w, Occupied(w))
        BY <3>1, EndAtWord
      <4> HIDE DEF Occupied
      <4> QED  BY <4>1 DEF EndIsAtWord
    <3> HIDE DEF Occupied
    <3> QED  BY <3>2, <3>3
  <2>3. found = [w \in 0..m |-> found[w]]
    OBVIOUS
  <2>4. IsScan(found)
    <3> HIDE DEF found, Occupied
    <3> QED  BY <2>2, <2>3
  <2>5. ASSUME NEW scan, IsScan(scan)  PROVE scan[m] = found[m]
    <3>1. \A w \in 0..m : scan[w] = IF Occupied(w) # {} THEN w * bits + HighestSetBit(Occupied(w)) + 1
                                    ELSE IF w = 0 THEN 0 ELSE scan[w - 1]
      <4> HIDE DEF found, Occupied
      <4> QED  BY <2>5, Zenon
    <3>2. Downwards(scan, m, Met, value)
      <4> HIDE DEF found, Occupied
      <4> QED  BY <3>1 DEF Downwards
    <3>3. Downwards(found, m, Met, value)
      <4> HIDE DEF found, Occupied
      <4> QED  BY <2>2 DEF Downwards
    <3> HIDE DEF found, Met, value
    <3>4. \A w \in 0..m : scan[w] = found[w]
      BY <2>1, <3>2, <3>3, SameDownwards
    <3> QED  BY <2>1, <3>4
  <2>6. PICK scan : IsScan(scan) /\ ScanHighWater(bits, Words(bits, slots), limit) = scan[m]
    <3>1. ScanHighWater(bits, Words(bits, slots), limit) = (CHOOSE scan : IsScan(scan))[m]
      BY <1>3, <2>1 DEF ScanHighWater, OccupiedTo
    <3> HIDE DEF IsScan
    <3> QED  BY <2>4, <3>1
  <2>7. found[m] = ActiveHighWater(slots, limit)
    BY <2>1 DEF ToWord
  <2> HIDE DEF found, IsScan
  <2> QED  BY <2>5, <2>6, <2>7
<1> QED  BY <1>2, <1>3

\* For words of any size the scans find what the pool takes them for, from every start
\* and under every limit (aforc_particle_find_free_from and
\* particle_pool_active_high_water).
THEOREM ScansStayExact == Spec => []ScansAreExact
<1>1. IInv => ScansAreExact
  <2>1. SUFFICES ASSUME IInv PROVE ScansAreExact
    OBVIOUS
  <2>2. free \in SUBSET Slots
    BY <2>1 DEF IInv, DataOK
  <2>3. ASSUME NEW bits \in 1..Capacity, NEW n \in 0..Capacity
        PROVE  /\ ScanFreeFrom(bits, Words(bits, free), n) = FindFreeFrom(free, n)
               /\ ScanHighWater(bits, Words(bits, free), n) = ActiveHighWater(free, n)
    <3>1. bits \in Nat \ {0}
      BY PoolConstants DEF PoolConstants
    <3> QED  BY <2>2, <3>1, PoolConstants, ScanFreeFinds, ScanEndFinds
  <2> QED  BY <2>3 DEF ScansAreExact
<1> QED  BY <1>1, InvariantHolds, PTL

-----------------------------------------------------------------------------
(* Tweens: the clock of a tween is the time it has run for, up to its        *)
(* duration, after any sequence of updates, pauses and restarts.             *)

Tweens == [start : Ends \cup {0}, end : Ends \cup {0}, duration_ms : Nat, elapsed_ms : Nat,
           easing : Easings, paused : BOOLEAN, finished : BOOLEAN, initialized : BOOLEAN]

\* One that runs has a duration; whether it has finished is a matter of its clock.
TweenInv ==
  /\ tween \in Tweens /\ clock \in Nat
  /\ tween.initialized => tween.duration_ms > 0
  /\ TweenFollowsClock

LEMMA TweenBegins == TweenStart => TweenInv
BY DEF TweenStart, NoTween, TweenInv, Tweens, Easings, TweenFollowsClock

LEMMA TweenStep == TweenConstants /\ TweenInv /\ TweenNext => TweenInv'
<1> SUFFICES ASSUME TweenConstants, TweenInv, TweenNext PROVE TweenInv'
  OBVIOUS
<1>1. ASSUME NEW start \in Ends, NEW end \in Ends, NEW duration \in Durations,
             NEW easing \in Easings, TweenInit(start, end, duration, easing)
      PROVE  TweenInv'
  <2>1. duration \in Nat
    BY DEF TweenConstants
  <2>2. tween' = [start |-> start, end |-> end, duration_ms |-> duration, elapsed_ms |-> 0,
                  easing |-> easing, paused |-> FALSE, finished |-> FALSE, initialized |-> TRUE]
    BY <1>1 DEF TweenInit, NoTween
  <2>3. tween' \in Tweens
    BY <2>1, <2>2 DEF Tweens
  <2>4. duration > 0 /\ clock' = 0
    BY <1>1 DEF TweenInit
  <2> QED  BY <2>1, <2>2, <2>3, <2>4 DEF TweenInv, TweenFollowsClock
<1>2. ASSUME TweenDispose PROVE TweenInv'
  BY <1>2 DEF TweenDispose, NoTween, TweenInv, Tweens, Easings, TweenFollowsClock
<1>3. ASSUME TweenRestart PROVE TweenInv'
  <2>1. /\ tween' \in Tweens /\ tween'.elapsed_ms = 0 /\ ~tween'.finished
        /\ tween'.initialized /\ tween'.duration_ms = tween.duration_ms
    BY <1>3 DEF TweenRestart, TweenReady, TweenInv, Tweens
  <2> QED  BY <1>3, <2>1 DEF TweenRestart, TweenInv, Tweens, TweenFollowsClock, TweenReady
<1>4. ASSUME NEW paused \in BOOLEAN, TweenPause(paused) PROVE TweenInv'
  BY <1>4 DEF TweenPause, TweenReady, TweenInv, Tweens, TweenFollowsClock
<1>5. ASSUME NEW delta \in Steps, TweenUpdate(delta) PROVE TweenInv'
  <2>1. /\ delta \in Nat /\ tween.initialized /\ tween.duration_ms > 0
        /\ tween.duration_ms \in Nat /\ tween.elapsed_ms \in Nat /\ clock \in Nat
        /\ tween.elapsed_ms = IF clock < tween.duration_ms THEN clock ELSE tween.duration_ms
        /\ tween.finished <=> clock >= tween.duration_ms
    BY <1>5 DEF TweenUpdate, TweenReady, TweenInv, Tweens, TweenFollowsClock, TweenConstants
  <2>2. CASE tween.paused
    BY <1>5, <2>2 DEF TweenUpdate, TweenInv, TweenFollowsClock
  <2>3. CASE ~tween.paused /\ (tween.finished \/ delta = 0)
    BY <1>5, <2>1, <2>3 DEF TweenUpdate, TweenInv, TweenFollowsClock
  <2>4. CASE ~tween.paused /\ ~(tween.finished \/ delta = 0)
    <3>1. clock' = clock + delta /\ tween.elapsed_ms = clock /\ clock < tween.duration_ms
      BY <1>5, <2>1, <2>4 DEF TweenUpdate
    <3>2. CASE delta >= tween.duration_ms - tween.elapsed_ms
      <4>1. tween' = [tween EXCEPT !.elapsed_ms = tween.duration_ms, !.finished = TRUE]
        BY <1>5, <2>4, <3>2 DEF TweenUpdate
      <4>2. tween' \in Tweens
        BY <4>1 DEF TweenInv, Tweens
      <4>3. /\ tween'.elapsed_ms = tween.duration_ms /\ tween'.finished = TRUE
            /\ tween'.duration_ms = tween.duration_ms
        BY <4>1 DEF TweenInv, Tweens
      <4> QED  BY <2>1, <3>1, <3>2, <4>2, <4>3 DEF TweenInv, TweenFollowsClock
    <3>3. CASE ~(delta >= tween.duration_ms - tween.elapsed_ms)
      <4>1. tween' = [tween EXCEPT !.elapsed_ms = tween.elapsed_ms + delta]
        BY <1>5, <2>4, <3>3 DEF TweenUpdate
      <4> QED  BY <2>1, <2>4, <3>1, <3>3, <4>1 DEF TweenInv, Tweens, TweenFollowsClock
    <3> QED  BY <3>2, <3>3
  <2> QED  BY <2>2, <2>3, <2>4
<1> QED  BY <1>1, <1>2, <1>3, <1>4, <1>5 DEF TweenNext

\* Steps that overrun the end, steps while paused and restarts on the way: the
\* tween is where its clock says, and finished exactly when its time is up.
THEOREM TweenKeepsTime == TweenSpec => []TweenFollowsClock
<1>1. TweenConstants /\ TweenInv /\ [TweenNext]_tweenVars => TweenInv'
  BY TweenStep DEF tweenVars, TweenInv, TweenFollowsClock
<1>2. TweenInv => TweenFollowsClock
  BY DEF TweenInv
<1> QED  BY <1>1, <1>2, TweenBegins, TweenConstants, PTL DEF TweenSpec

-----------------------------------------------------------------------------
(* Menus: the lowest and the highest of a set of indices, and counting round *)
(* a menu.                                                                   *)

LEMMA LowestOf ==
  ASSUME NEW S \in SUBSET Nat, S # {}
  PROVE  Lowest(S) \in S /\ \A j \in S : Lowest(S) <= j
<1>1. \E i \in S : \A j \in S : i <= j
  BY LeastElement
<1> QED  BY <1>1 DEF Lowest

LEMMA HighestOf ==
  ASSUME NEW n \in Nat, NEW S \in SUBSET (0 .. n), S # {}
  PROVE  Highest(S) \in S
<1> DEFINE below == {n - i : i \in S}
<1>1. PICK k \in below : \A j \in below : k <= j
  <2>0. \A i \in S : n - i \in Nat
    OBVIOUS
  <2>1. below \in SUBSET Nat /\ below # {}
    BY <2>0
  <2> HIDE DEF below
  <2> QED  BY <2>1, LeastElement
<1>2. PICK i \in S : k = n - i
  BY <1>1
<1>3. \A j \in S : n - i <= n - j
  BY <1>1, <1>2
<1>4. \A j \in S : j <= i
  BY <1>3
<1> QED  BY <1>4 DEF Highest

LEMMA Round ==
  ASSUME NEW n \in Nat \ {0}, NEW x \in Int
  PROVE  /\ x \in 0..n - 1 => x % n = x
         /\ x \in n..2 * n - 1 => x % n = x - n
         /\ x \in -n..-1 => x % n = x + n
<1> DEFINE q == x \div n
           r == x % n
<1>1. q \in Int /\ r \in 0..n - 1 /\ x = n * q + r
  OBVIOUS
<1> HIDE DEF q, r
<1>2. n * q \in Int /\ n * (q - 1) = n * q - n /\ n * (q + 1) = n * q + n
  BY <1>1
<1>3. q >= 1 => n * q >= n
  BY <1>1
<1>4. q <= -1 => n * q <= -n
  BY <1>1
<1>5. q >= 2 => n * q >= 2 * n
  BY <1>1
<1>6. q <= -2 => n * q <= -2 * n
  BY <1>1
<1>7. q = 0 => n * q = 0
  OBVIOUS
<1>8. q = 1 => n * q = n
  OBVIOUS
<1>9. q = -1 => n * q = -n
  OBVIOUS
<1>10. x \in 0..n - 1 => q = 0
  BY <1>1, <1>3, <1>4
<1>11. x \in n..2 * n - 1 => q = 1
  BY <1>1, <1>4, <1>5, <1>7
<1>12. x \in -n..-1 => q = -1
  BY <1>1, <1>3, <1>6, <1>7
<1>13. r = x - n * q
  BY <1>1, <1>2
<1> QED  BY <1>7, <1>8, <1>9, <1>10, <1>11, <1>12, <1>13 DEF r

LEMMA RoundBack ==
  ASSUME NEW n \in Nat \ {0}, NEW x \in Int, n <= x, x < 2 * n
  PROVE  x % n = x - n
<1>1. x \in n..2 * n - 1
  OBVIOUS
<1> QED  BY <1>1, Round

LEMMA EnabledIndices ==
  ASSUME items \in Seq(BOOLEAN)
  PROVE  /\ Count \in Nat /\ EnabledOnes \in SUBSET Nat
         /\ FirstEnabled \in EnabledOnes \cup {NoIndex}
         /\ LastEnabled \in EnabledOnes \cup {NoIndex}
         /\ EnabledOnes # {} => FirstEnabled \in EnabledOnes /\ LastEnabled \in EnabledOnes
<1>1. Count \in Nat /\ EnabledOnes \in SUBSET Nat
  BY DEF Count, EnabledOnes
<1>2. CASE EnabledOnes = {}
  BY <1>1, <1>2 DEF FirstEnabled, LastEnabled, Lowest, Highest
<1>3. CASE EnabledOnes # {}
  <2>1. EnabledOnes \in SUBSET (0 .. Count)
    BY <1>1 DEF EnabledOnes
  <2>2. FirstEnabled \in EnabledOnes
    BY <1>1, <1>3, LowestOf DEF FirstEnabled
  <2>3. LastEnabled \in EnabledOnes
    BY <1>1, <1>3, <2>1, HighestOf DEF LastEnabled
  <2> QED  BY <1>1, <2>2, <2>3
<1> QED  BY <1>2, <1>3

\* The steps after which a walk from current meets an enabled item.
Meets(current, wrap, forward) ==
  {k \in 1..Count - 1 :
     /\ wrap \/ (IF forward THEN current + k ELSE current - k) \in 0..Count - 1
     /\ Enabled((IF forward THEN current + k ELSE current - k) % Count)}

LEMMA NextEnabledMeets ==
  ASSUME items \in Seq(BOOLEAN), NEW current \in 0..Count - 1,
         NEW wrap \in BOOLEAN, NEW forward \in BOOLEAN
  PROVE  \/ Meets(current, wrap, forward) = {} /\ NextEnabled(current, wrap, forward) = NoIndex
         \/ \E k \in Meets(current, wrap, forward) :
              /\ \A j \in Meets(current, wrap, forward) : k <= j
              /\ NextEnabled(current, wrap, forward)
                   = (IF forward THEN current + k ELSE current - k) % Count
              /\ NextEnabled(current, wrap, forward) \in EnabledOnes
<1>1. Count \in Nat /\ Count # 0
  BY DEF Count
<1>2. NextEnabled(current, wrap, forward)
        = IF Meets(current, wrap, forward) = {} THEN NoIndex
          ELSE (IF forward THEN current + Lowest(Meets(current, wrap, forward))
                ELSE current - Lowest(Meets(current, wrap, forward))) % Count
  BY DEF NextEnabled, Meets
<1>3. Meets(current, wrap, forward) \in SUBSET Nat
  BY <1>1 DEF Meets
<1>4. CASE Meets(current, wrap, forward) # {}
  <2> DEFINE k  == Lowest(Meets(current, wrap, forward))
             at == IF forward THEN current + k ELSE current - k
  <2>1. k \in Meets(current, wrap, forward) /\ \A j \in Meets(current, wrap, forward) : k <= j
    BY <1>3, <1>4, LowestOf
  <2>2. k \in 1..Count - 1 /\ Enabled(at % Count)
    BY <2>1 DEF Meets
  <2>3. at \in Int
    BY <1>1, <2>2
  <2>4. at % Count \in 0..Count - 1
    BY <1>1, <2>3
  <2>5. at % Count \in EnabledOnes
    BY <2>2, <2>4 DEF EnabledOnes
  <2>6. NextEnabled(current, wrap, forward) = at % Count
    BY <1>2, <1>4
  <2> QED  BY <2>1, <2>5, <2>6
<1> QED  BY <1>2, <1>4

\* The item that down goes to is left by up for the item it came from: what lies
\* between them is disabled, seen from either end.
LEMMA DownThenUp ==
  ASSUME items \in Seq(BOOLEAN), NEW current \in EnabledOnes, NEW wrap \in BOOLEAN,
         NextEnabled(current, wrap, TRUE) # NoIndex
  PROVE  NextEnabled(NextEnabled(current, wrap, TRUE), wrap, FALSE) = current
<1> DEFINE n == Count
           down == NextEnabled(current, wrap, TRUE)
<1>1. n \in Nat \ {0} /\ current \in 0..n - 1 /\ Enabled(current)
  BY DEF Count, EnabledOnes
<1>2. PICK k \in Meets(current, wrap, TRUE) :
        /\ \A j \in Meets(current, wrap, TRUE) : k <= j
        /\ down = (current + k) % n /\ down \in EnabledOnes
  BY <1>1, NextEnabledMeets
<1>3. k \in 1..n - 1 /\ (wrap \/ current + k \in 0..n - 1)
  BY <1>2 DEF Meets
<1>4. down \in 0..n - 1
  BY <1>2 DEF EnabledOnes
<1> HIDE DEF down, n
<1>5. \/ down = current + k /\ current + k \in 0..n - 1
      \/ down = (current + k) - n /\ current + k \in n..2 * n - 1 /\ wrap
  <2> DEFINE x == current + k
  <2>1. x \in 0..2 * n - 1 /\ (wrap \/ x \in 0..n - 1) /\ down = x % n
    BY <1>1, <1>2, <1>3
  <2> HIDE DEF x
  <2>2. CASE x \in 0..n - 1
    <3>1. down = x
      BY <1>1, <2>1, <2>2, Round
    <3> QED  BY <2>2, <3>1 DEF x
  <2>3. CASE x \in n..2 * n - 1
    <3>1. down = x - n
      <4>1. x \in Int /\ n <= x /\ x < 2 * n
        BY <1>1, <2>3
      <4>2. x % n = x - n
        BY <1>1, <4>1, RoundBack
      <4> QED  BY <2>1, <4>2
    <3>2. wrap
      BY <1>1, <2>1, <2>3
    <3>3. down = (current + k) - n /\ current + k \in n..2 * n - 1
      BY <1>1, <2>3, <3>1 DEF x
    <3> QED  BY <3>2, <3>3, Zenon
  <2> QED  BY <1>1, <2>1, <2>2, <2>3
<1>6. ASSUME NEW j \in 1..k
      PROVE  (down - j) % n = (current + (k - j)) % n
  <2>1. CASE down = current + k
    BY <1>1, <1>3, <1>6, <2>1
  <2>2. CASE down = (current + k) - n
    <3> DEFINE x == current + (k - j)
    <3>1. x \in 0..2 * n - 1 /\ down - j = x - n
      BY <1>1, <1>3, <1>6, <2>2
    <3> HIDE DEF x
    <3>2. CASE x \in 0..n - 1
      <4>1. x - n \in -n..-1 /\ x - n + n = x
        BY <1>1, <3>2
      <4>2. (x - n) % n = x - n + n /\ x % n = x
        BY <1>1, <3>2, <4>1, Round
      <4> QED  BY <3>1, <4>1, <4>2 DEF x
    <3>3. CASE x \in n..2 * n - 1
      <4>1. x - n \in 0..n - 1
        BY <1>1, <3>3
      <4>2. x \in Int /\ n <= x /\ x < 2 * n
        BY <1>1, <3>3
      <4>3. x % n = x - n
        BY <1>1, <4>2, RoundBack
      <4>4. (x - n) % n = x - n
        <5> DEFINE y == x - n
        <5>1. y \in 0..n - 1
          BY <4>1
        <5> HIDE DEF y
        <5>2. y % n = y
          BY <1>1, <5>1, Round, SMTT(60)
        <5> QED  BY <5>2 DEF y
      <4>5. (down - j) % n = x % n
        BY <3>1, <4>3, <4>4, Zenon
      <4> QED  BY <4>5, Zenon DEF x
    <3> QED  BY <1>1, <3>1, <3>2, <3>3
  <2> QED  BY <1>5, <2>1, <2>2
<1>7. (down - k) % n = current
  <2>1. (down - k) % n = (current + (k - k)) % n
    BY <1>3, <1>6
  <2>2. current + (k - k) = current
    BY <1>1, <1>3
  <2> QED  BY <1>1, <2>1, <2>2, Round
<1>8. k \in Meets(down, wrap, FALSE)
  <2>1. wrap \/ down - k \in 0..n - 1
    BY <1>1, <1>3, <1>5
  <2> QED  BY <1>1, <1>3, <1>7, <2>1 DEF Meets, n
<1>9. ASSUME NEW j \in Meets(down, wrap, FALSE), j < k PROVE FALSE
  <2>1. j \in 1..n - 1 /\ Enabled((down - j) % n)
    BY <1>9 DEF Meets, n
  <2>2. j \in 1..k /\ k - j \in 1..n - 1 /\ k - j < k
    BY <1>1, <1>3, <1>9, <2>1
  <2>3. Enabled((current + (k - j)) % n)
    BY <1>6, <2>1, <2>2
  <2>4. wrap \/ current + (k - j) \in 0..n - 1
    BY <1>1, <1>3, <2>2
  <2>5. k - j \in Meets(current, wrap, TRUE)
    BY <2>2, <2>3, <2>4 DEF Meets, n
  <2>6. k <= k - j
    BY <1>2, <2>5
  <2> QED  BY <1>3, <2>1, <2>6
<1>10. PICK i \in Meets(down, wrap, FALSE) :
         /\ \A j \in Meets(down, wrap, FALSE) : i <= j
         /\ NextEnabled(down, wrap, FALSE) = (down - i) % n
  BY <1>4, <1>8, NextEnabledMeets DEF n
<1>11. i \in Nat /\ i <= k
  BY <1>1, <1>8, <1>10 DEF Meets, n
<1>12. i = k
  <2>1. ~(i < k)
    BY <1>9
  <2> QED  BY <1>3, <1>11, <2>1
<1>13. NextEnabled(down, wrap, FALSE) = current
  BY <1>7, <1>10, <1>12
<1> QED  BY <1>13 DEF down

-----------------------------------------------------------------------------
(* Menus: what an event leaves.                                              *)

Menus  == [selected : Nat \cup {NoIndex}, scroll : Nat, wrap : BOOLEAN]
Events == {"up", "down", "home", "end", "activate"}

\* A menu whose selection and scroll are within the items.
Within(state) ==
  /\ state \in Menus
  /\ state.selected \in 0..Count - 1 \cup {NoIndex}
  /\ state.scroll <= Count

OnEnabled(state) == Within(state) /\ state.selected \in EnabledOnes \cup {NoIndex}

LEMMA RepairedIsEnabled ==
  ASSUME items \in Seq(BOOLEAN), NEW state, Within(state)
  PROVE  OnEnabled(Repaired(state))
<1>1. CASE state.selected # NoIndex /\ ~Enabled(state.selected)
  <2>1. Repaired(state) = [selected |-> FirstEnabled, scroll |-> state.scroll, wrap |-> state.wrap]
    BY <1>1 DEF Repaired, Within, Menus
  <2>2. FirstEnabled \in EnabledOnes \cup {NoIndex} /\ EnabledOnes \in SUBSET Nat
    BY EnabledIndices
  <2>3. FirstEnabled \in 0..Count - 1 \cup {NoIndex}
    BY <2>2 DEF EnabledOnes
  <2> QED  BY <2>1, <2>2, <2>3 DEF OnEnabled, Within, Menus
<1>2. CASE ~(state.selected # NoIndex /\ ~Enabled(state.selected))
  <2>1. Repaired(state) = state
    BY <1>2 DEF Repaired
  <2>2. state.selected \in EnabledOnes \cup {NoIndex}
    BY <1>2 DEF Within, EnabledOnes
  <2> QED  BY <2>1, <2>2 DEF OnEnabled
<1> QED  BY <1>1, <1>2

LEMMA ScrolledShowsSelection ==
  ASSUME items \in Seq(BOOLEAN), NEW state, Within(state), NEW rows \in Nat
  PROVE  /\ Within(Scrolled(state, rows))
         /\ Scrolled(state, rows).selected = state.selected
         /\ (state.selected # NoIndex /\ rows > 0) =>
              state.selected \in Scrolled(state, rows).scroll
                                 .. Scrolled(state, rows).scroll + rows - 1
<1> DEFINE moved  == IF rows = 0 \/ state.selected < state.scroll THEN state.selected
                     ELSE IF state.selected - state.scroll >= rows
                     THEN state.selected - rows + 1 ELSE state.scroll
           scroll == IF state.selected = NoIndex THEN 0
                     ELSE IF moved > Count THEN Count ELSE moved
<1>1. Scrolled(state, rows) = [selected |-> state.selected, scroll |-> scroll, wrap |-> state.wrap]
  <2>1. Scrolled(state, rows) = [state EXCEPT !.scroll = scroll]
    BY DEF Scrolled
  <2> HIDE DEF scroll
  <2> QED  BY <2>1 DEF Within, Menus
<1>2. Count \in Nat
  BY DEF Count
<1>3. /\ state.selected \in Nat \cup {NoIndex} /\ state.scroll \in Nat /\ state.wrap \in BOOLEAN
      /\ state.selected \in 0..Count - 1 \cup {NoIndex} /\ state.scroll <= Count
  BY DEF Within, Menus
<1>4. /\ scroll \in Nat /\ scroll <= Count
      /\ (state.selected # NoIndex /\ rows > 0) => state.selected \in scroll..scroll + rows - 1
  <2>1. CASE state.selected = NoIndex
    BY <1>2, <2>1
  <2>2. CASE state.selected # NoIndex
    <3>1. state.selected \in Nat /\ state.selected < Count
      BY <1>2, <1>3, <2>2 DEF NoIndex
    <3>2. moved \in Nat /\ moved <= Count
      BY <1>2, <1>3, <3>1, SMTT(60)
    <3>3. scroll = moved
      BY <1>2, <2>2, <3>2
    <3>4. rows > 0 => state.selected \in moved..moved + rows - 1
      BY <1>2, <1>3, <3>1, SMTT(60)
    <3> HIDE DEF moved, scroll
    <3> QED  BY <3>2, <3>3, <3>4
  <2> QED  BY <2>1, <2>2
<1> HIDE DEF scroll
<1> QED  BY <1>1, <1>3, <1>4 DEF Within, Menus

LEMMA TargetIsEnabled ==
  ASSUME items \in Seq(BOOLEAN), NEW state, OnEnabled(state), NEW event \in Events
  PROVE  /\ Target(state, event) \in EnabledOnes \cup {NoIndex}
         /\ (Target(state, event) = NoIndex /\ state.selected # NoIndex) => EnabledOnes = {}
<1> DEFINE moved == IF state.selected = NoIndex
                    THEN IF event = "down" THEN FirstEnabled ELSE LastEnabled
                    ELSE NextEnabled(state.selected, state.wrap, event = "down")
<1>1. /\ FirstEnabled \in EnabledOnes \cup {NoIndex} /\ LastEnabled \in EnabledOnes \cup {NoIndex}
      /\ EnabledOnes # {} => FirstEnabled \in EnabledOnes /\ LastEnabled \in EnabledOnes
      /\ EnabledOnes \in SUBSET Nat
  BY EnabledIndices
<1>2. /\ state.selected \in EnabledOnes \cup {NoIndex} /\ state.wrap \in BOOLEAN
      /\ state.selected # NoIndex => state.selected \in 0..Count - 1
  BY DEF OnEnabled, Within, Menus
<1>3. moved \in EnabledOnes \cup {NoIndex}
  <2>1. CASE state.selected = NoIndex
    BY <1>1, <2>1
  <2>2. CASE state.selected # NoIndex
    <3>1. (event = "down") \in BOOLEAN
      OBVIOUS
    <3>2. NextEnabled(state.selected, state.wrap, event = "down") \in EnabledOnes \cup {NoIndex}
      BY <1>2, <2>2, <3>1, NextEnabledMeets
    <3> QED  BY <2>2, <3>2
  <2> QED  BY <2>1, <2>2
<1>4. Target(state, event) =
        CASE event = "home" -> FirstEnabled
          [] event = "end"  -> LastEnabled
          [] event \in {"up", "down"} -> IF moved = NoIndex THEN state.selected ELSE moved
          [] OTHER -> state.selected
  BY DEF Target
<1>5. NoIndex \notin EnabledOnes
  BY <1>1 DEF NoIndex
<1> HIDE DEF moved
<1>6. CASE event = "home"
  BY <1>1, <1>4, <1>5, <1>6
<1>7. CASE event = "end"
  BY <1>1, <1>4, <1>5, <1>7
<1>8. CASE event \in {"up", "down"}
  <2>1. Target(state, event) = IF moved = NoIndex THEN state.selected ELSE moved
    BY <1>4, <1>8
  <2> QED  BY <1>2, <1>3, <2>1
<1>9. CASE event = "activate"
  BY <1>2, <1>4, <1>9
<1> QED  BY <1>6, <1>7, <1>8, <1>9 DEF Events

LEMMA UpUndoesDown ==
  ASSUME items \in Seq(BOOLEAN), NEW state, OnEnabled(state), state.selected # NoIndex,
         Target(state, "down") # state.selected
  PROVE  Target([state EXCEPT !.selected = Target(state, "down")], "up") = state.selected
<1> DEFINE s    == state.selected
           next == NextEnabled(s, state.wrap, TRUE)
           back == [state EXCEPT !.selected = next]
<1>1. s \in EnabledOnes /\ state.wrap \in BOOLEAN /\ state \in Menus
  BY DEF OnEnabled, Within, Menus
<1>2. Target(state, "down") = IF next = NoIndex THEN s ELSE next
  BY DEF Target
<1>3. next # NoIndex /\ Target(state, "down") = next
  BY <1>2
<1>4. back.selected = next /\ back.wrap = state.wrap
  BY <1>1 DEF Menus
<1>5. NextEnabled(next, state.wrap, FALSE) = s
  BY <1>1, <1>3, DownThenUp
<1>6. s # NoIndex
  OBVIOUS
<1> HIDE DEF s, next, back
<1>7. Target(back, "up") = IF NextEnabled(next, state.wrap, FALSE) = NoIndex THEN next
                           ELSE NextEnabled(next, state.wrap, FALSE)
  BY <1>3, <1>4 DEF Target
<1>8. Target(back, "up") = s
  BY <1>5, <1>6, <1>7
<1> QED  BY <1>3, <1>8 DEF s, back

\* What MenuFollowsItems says of a menu m that an event was answered with r.
Follows(m, r) ==
  /\ m.selected # NoIndex => Enabled(m.selected)
  /\ m.selected = NoIndex /\ r.action = "selection" => EnabledOnes = {}
  /\ (m.selected # NoIndex /\ r.rows > 0) => m.selected \in m.scroll..m.scroll + r.rows - 1
  /\ r.action = "activated" => r.index = m.selected
  /\ m.selected # NoIndex =>
       LET down == Target(m, "down")
       IN down # m.selected => Target([m EXCEPT !.selected = down], "up") = m.selected

MenuInv ==
  /\ items \in Seq(BOOLEAN) /\ menu \in Menus
  /\ focus \in [index : Nat \cup {NoIndex}, count : Nat, wrap : BOOLEAN]
  /\ MenuFollowsItems

LEMMA FollowsWhenEnabled ==
  ASSUME items \in Seq(BOOLEAN), NEW m, OnEnabled(m), NEW r,
         m.selected = NoIndex /\ r.action = "selection" => EnabledOnes = {},
         (m.selected # NoIndex /\ r.rows > 0) => m.selected \in m.scroll..m.scroll + r.rows - 1,
         r.action = "activated" => r.index = m.selected
  PROVE  Follows(m, r)
<1>1. m.selected # NoIndex => Enabled(m.selected)
  BY DEF OnEnabled, EnabledOnes
<1>2. ASSUME m.selected # NoIndex, Target(m, "down") # m.selected
      PROVE  Target([m EXCEPT !.selected = Target(m, "down")], "up") = m.selected
  BY <1>2, UpUndoesDown
<1> QED  BY <1>1, <1>2 DEF Follows

\* An answer is one that MenuFollowsItems speaks of.
LEMMA HandledFollows ==
  ASSUME items \in Seq(BOOLEAN), Within(menu),
         NEW rows \in Nat, NEW focused \in BOOLEAN, NEW event \in Events,
         NEW handled, handled = Handled(rows, focused, event)
  PROVE  /\ handled.menu \in Menus
         /\ Follows(handled.menu, [status |-> "ok", action |-> handled.action,
                                   index |-> handled.index, rows |-> rows])
<1> DEFINE shown  == Scrolled(Repaired(menu), rows)
           target == Target(shown, event)
           asked  == [shown EXCEPT !.selected = target]
           reply2 == [status |-> "ok", action |-> handled.action,
                      index |-> handled.index, rows |-> rows]
<1>1. OnEnabled(Repaired(menu)) /\ Within(Repaired(menu))
  BY RepairedIsEnabled DEF OnEnabled
<1>2. /\ Within(shown) /\ shown.selected = Repaired(menu).selected
      /\ (shown.selected # NoIndex /\ rows > 0) =>
           shown.selected \in shown.scroll..shown.scroll + rows - 1
  <2>1. /\ Within(shown) /\ shown.selected = Repaired(menu).selected
        /\ (Repaired(menu).selected # NoIndex /\ rows > 0) =>
             Repaired(menu).selected \in shown.scroll..shown.scroll + rows - 1
    BY <1>1, ScrolledShowsSelection
  <2> HIDE DEF shown
  <2> QED  BY <2>1
<1>3. OnEnabled(shown)
  BY <1>1, <1>2 DEF OnEnabled
<1>4. /\ target \in EnabledOnes \cup {NoIndex}
      /\ (target = NoIndex /\ shown.selected # NoIndex) => EnabledOnes = {}
  <2> HIDE DEF shown
  <2> QED  BY <1>3, TargetIsEnabled
<1>5. handled = IF ~focused THEN [menu |-> shown, action |-> "none", index |-> NoIndex]
                ELSE IF event = "activate" /\ shown.selected # NoIndex
                THEN [menu |-> shown, action |-> "activated", index |-> shown.selected]
                ELSE IF target # shown.selected
                THEN [menu |-> Scrolled(asked, rows), action |-> "selection", index |-> target]
                ELSE [menu |-> shown, action |-> "none", index |-> NoIndex]
  BY DEF Handled
<1> HIDE DEF shown, target
<1>6. reply2.action = handled.action /\ reply2.index = handled.index /\ reply2.rows = rows
  OBVIOUS
<1>7. CASE handled.menu = shown /\ (\/ handled.action = "none"
                                    \/ handled.action = "activated" /\ handled.index = shown.selected)
  <2> HIDE DEF reply2
  <2>1. Follows(shown, reply2)
    BY <1>2, <1>3, <1>6, <1>7, FollowsWhenEnabled
  <2>2. shown \in Menus
    BY <1>2 DEF Within
  <2> QED  BY <1>7, <2>1, <2>2 DEF reply2
<1>8. CASE /\ target # shown.selected
           /\ handled = [menu |-> Scrolled(asked, rows), action |-> "selection", index |-> target]
  <2>1. asked = [selected |-> target, scroll |-> shown.scroll, wrap |-> shown.wrap]
    BY <1>2, SMTT(60) DEF Within, Menus
  <2>2. target \in 0..Count - 1 \cup {NoIndex} /\ target \in Nat \cup {NoIndex}
    <3>1. EnabledOnes \in SUBSET Nat
      BY EnabledIndices
    <3> QED  BY <1>4, <3>1 DEF EnabledOnes
  <2>3. Within(asked)
    BY <1>2, <2>1, <2>2 DEF Within, Menus
  <2>4. asked.selected = target
    BY <2>1
  <2> HIDE DEF asked
  <2>5. /\ Within(Scrolled(asked, rows)) /\ Scrolled(asked, rows).selected = target
        /\ (target # NoIndex /\ rows > 0) =>
             target \in Scrolled(asked, rows).scroll..Scrolled(asked, rows).scroll + rows - 1
    BY <2>3, <2>4, ScrolledShowsSelection
  <2>6. OnEnabled(Scrolled(asked, rows))
    BY <1>4, <2>5 DEF OnEnabled
  <2>7. target = NoIndex => EnabledOnes = {}
    BY <1>4, <1>8
  <2>8. handled.menu = Scrolled(asked, rows) /\ handled.action = "selection"
    BY <1>8
  <2> HIDE DEF reply2
  <2>9. Follows(Scrolled(asked, rows), reply2)
    BY <1>6, <2>5, <2>6, <2>7, <2>8, FollowsWhenEnabled
  <2> QED  BY <2>5, <2>8, <2>9 DEF Within, reply2
<1> QED  BY <1>5, <1>7, <1>8

NextIsFirstMet ==
  \A c, w, f :
    NextEnabled(c, w, f)
      = IF Meets(c, w, f) = {} THEN NoIndex
        ELSE (IF f THEN c + Lowest(Meets(c, w, f)) ELSE c - Lowest(Meets(c, w, f))) % Count

LEMMA FirstMetIsNext == NextIsFirstMet
BY DEF NextIsFirstMet, NextEnabled, Meets

\* Nothing that is asked of the items changes while they stay.
LEMMA ItemsStay ==
  ASSUME items' = items
  PROVE  /\ Count' = Count /\ EnabledOnes' = EnabledOnes
         /\ \A i : Enabled(i)' = Enabled(i)
         /\ \A m, event : Target(m, event)' = Target(m, event)
<1>1. Count' = Count /\ \A i : Enabled(i)' = Enabled(i)
  BY DEF Count, Enabled
<1>2. EnabledOnes' = EnabledOnes
  BY <1>1 DEF EnabledOnes
<1>3. FirstEnabled' = FirstEnabled /\ LastEnabled' = LastEnabled
  BY <1>2 DEF FirstEnabled, LastEnabled
<1>4. \A c, w, f : NextEnabled(c, w, f)' = NextEnabled(c, w, f)
  <2>1. \A c, w, f : Meets(c, w, f)' = Meets(c, w, f)
    BY <1>1 DEF Meets
  <2>2. NextIsFirstMet' /\ NextIsFirstMet
    BY FirstMetIsNext, PTL
  <2> QED  BY <1>1, <2>1, <2>2 DEF NextIsFirstMet
<1>5. \A m, event : Target(m, event)' = Target(m, event)
  BY <1>3, <1>4 DEF Target
<1> QED  BY <1>1, <1>2, <1>5

LEMMA HandleStep ==
  ASSUME MenuInv, NEW rows \in Nat, NEW focused \in BOOLEAN, NEW event \in Events,
         Handle(rows, focused, event)
  PROVE  MenuInv'
<1>1. items' = items /\ focus' = focus /\ items \in Seq(BOOLEAN) /\ menu \in Menus
  BY DEF Handle, MenuInv
<1>2. Count' = Count /\ Count \in Nat
  BY <1>1 DEF Count
<1>3. CASE (menu.selected # NoIndex /\ menu.selected >= Count) \/ menu.scroll > Count
  <2>1. reply' = Said("state", "none", NoIndex) /\ menu' = menu
    BY <1>3 DEF Handle
  <2>2. menu.selected >= Count \/ menu.scroll > Count
    BY <1>3
  <2> QED  BY <1>1, <1>2, <2>1, <2>2 DEF MenuInv, MenuFollowsItems, Said
<1>4. CASE ~((menu.selected # NoIndex /\ menu.selected >= Count) \/ menu.scroll > Count) /\ Count = 0
  <2>1. /\ menu' = [menu EXCEPT !.selected = NoIndex, !.scroll = 0]
        /\ reply' = Said("ok", "none", NoIndex)
    BY <1>4 DEF Handle
  <2>2. menu' = [selected |-> NoIndex, scroll |-> 0, wrap |-> menu.wrap]
    BY <1>1, <2>1 DEF Menus
  <2>3. menu' \in Menus
    BY <1>1, <2>2 DEF Menus
  <2> QED  BY <1>1, <1>2, <1>4, <2>1, <2>3 DEF MenuInv, MenuFollowsItems, Said
<1>5. CASE ~((menu.selected # NoIndex /\ menu.selected >= Count) \/ menu.scroll > Count) /\ Count # 0
  <2>1. Within(menu)
    BY <1>1, <1>2, <1>5 DEF Within, Menus
  <2>2. PICK handled : handled = Handled(rows, focused, event)
    OBVIOUS
  <2>3. /\ menu' = handled.menu
        /\ reply' = [status |-> "ok", action |-> handled.action,
                     index |-> handled.index, rows |-> rows]
    BY <1>5, <2>2 DEF Handle
  <2>4. menu' \in Menus /\ Follows(menu', reply')
    BY <1>1, <2>1, <2>2, <2>3, HandledFollows
  <2>5. Follows(menu, reply)'
    BY <1>1, <2>4, ItemsStay DEF Follows
  <2>6. reply'.status = "ok"
    BY <2>3
  <2> QED  BY <1>1, <2>4, <2>5, <2>6 DEF MenuInv, MenuFollowsItems, Follows
<1> QED  BY <1>3, <1>4, <1>5

LEMMA EnabledFromInRange ==
  ASSUME items \in Seq(BOOLEAN), NEW start \in Nat, Count # 0
  PROVE  EnabledFrom(start) \in Nat \cup {NoIndex}
<1> DEFINE steps == {k \in 0..Count - 1 : Enabled((start + k) % Count)}
<1>1. Count \in Nat /\ steps \in SUBSET Nat
  BY DEF Count
<1>2. EnabledFrom(start) = IF steps = {} THEN NoIndex ELSE (start + Lowest(steps)) % Count
  BY DEF EnabledFrom
<1> HIDE DEF steps
<1>3. CASE steps # {}
  <2>1. Lowest(steps) \in Nat
    BY <1>1, <1>3, LowestOf
  <2>2. (start + Lowest(steps)) % Count \in Nat
    BY <1>1, <2>1
  <2> QED  BY <1>2, <1>3, <2>2
<1> QED  BY <1>2, <1>3

LEMMA MenuStep ==
  ASSUME MenuInv, MenuConstants, MenuNext \/ FocusNext
  PROVE  MenuInv'
<1>1. ASSUME NEW list \in ItemLists, SetItems(list) PROVE MenuInv'
  <2>1. PICK n \in 0..MaxItems : list \in [1..n -> BOOLEAN]
    BY DEF ItemLists
  <2>2. list \in Seq(BOOLEAN)
    BY <2>1 DEF MenuConstants
  <2> QED  BY <1>1, <2>2 DEF SetItems, MenuInv, MenuFollowsItems, Said
<1>2. ASSUME NEW start \in {NoIndex} \cup 0..MaxItems - 1, NEW wrap \in BOOLEAN,
             MenuInit(start, wrap)
      PROVE  MenuInv'
  <2>1. items' = items /\ focus' = focus
    BY <1>2 DEF MenuInit
  <2>2. CASE Count > 0 /\ start >= Count
    BY <1>2, <2>1, <2>2 DEF MenuInit, MenuInv, MenuFollowsItems, Said
  <2>3. CASE ~(Count > 0 /\ start >= Count)
    <3> DEFINE from == IF start = NoIndex THEN 0 ELSE start
               selected == IF Count = 0 THEN NoIndex ELSE EnabledFrom(from)
    <3>1. /\ menu' = [selected |-> selected, scroll |-> 0, wrap |-> wrap]
          /\ reply' = Said("init", "none", NoIndex)
      BY <1>2, <2>3 DEF MenuInit
    <3>2. from \in Nat
      BY DEF MenuConstants, NoIndex
    <3>3. selected \in Nat \cup {NoIndex}
      <4> HIDE DEF from
      <4> QED  BY <3>2, EnabledFromInRange DEF MenuInv
    <3> HIDE DEF selected
    <3>4. menu' \in Menus
      BY <3>1, <3>3 DEF Menus
    <3> QED  BY <2>1, <3>1, <3>4 DEF MenuInv, MenuFollowsItems, Said
  <2> QED  BY <2>2, <2>3
<1>3. ASSUME NEW rows \in 0..MaxRows, NEW focused \in BOOLEAN,
             NEW event \in {"up", "down", "home", "end", "activate"},
             Handle(rows, focused, event)
      PROVE  MenuInv'
  <2>1. rows \in Nat /\ event \in Events
    BY DEF MenuConstants, Events
  <2> QED  BY <1>3, <2>1, HandleStep
<1>4. ASSUME NEW count \in {0, 2, 3}, NEW wrap \in BOOLEAN, NEW start \in 0..2,
             FocusInit(count, start, wrap)
      PROVE  MenuInv'
  BY <1>4 DEF FocusInit, MenuInv, MenuFollowsItems, Said
<1>5. ASSUME NEW event \in {"next", "previous"}, FocusHandle(event) PROVE MenuInv'
  <2>1. CASE focus.count = 0 \/ FocusTarget(event) = focus.index
    BY <1>5, <2>1 DEF FocusHandle, MenuInv, MenuFollowsItems, Said
  <2>2. CASE ~(focus.count = 0 \/ FocusTarget(event) = focus.index)
    <3>1. focus.count \in Nat \ {0} /\ focus.index \in 0..focus.count - 1 /\ focus.wrap \in BOOLEAN
      BY <2>2 DEF MenuInv, MenuFollowsItems
    <3>2. FocusTarget(event) \in 0..focus.count - 1
      BY <3>1 DEF FocusTarget
    <3>3. focus' = [index |-> FocusTarget(event), count |-> focus.count, wrap |-> focus.wrap]
      BY <1>5, <2>2 DEF FocusHandle, MenuInv
    <3>4. focus' \in [index : Nat \cup {NoIndex}, count : Nat, wrap : BOOLEAN]
      BY <3>1, <3>2, <3>3
    <3>5. focus'.index \in 0..focus'.count - 1
      BY <3>2, <3>3
    <3>6. items' = items /\ menu' = menu /\ reply' = Said("focus", "focus", FocusTarget(event))
      BY <1>5, <2>2 DEF FocusHandle
    <3>7. reply'.status = "focus"
      BY <3>6 DEF Said
    <3> QED  BY <3>4, <3>5, <3>6, <3>7 DEF MenuInv, MenuFollowsItems
  <2> QED  BY <2>1, <2>2
<1>6. ASSUME NEW enabled \in BOOLEAN, ButtonHandle(1, enabled) PROVE MenuInv'
  BY <1>6 DEF ButtonHandle, MenuInv, MenuFollowsItems, Said
<1> QED  BY <1>1, <1>2, <1>3, <1>4, <1>5, <1>6 DEF MenuNext, FocusNext

\* Whatever the application does to its items between two events, for menus of
\* any length and any number of rows: what an answered event leaves selected is
\* enabled and shown, up undoes down, and a menu whose items went away refuses.
THEOREM MenusFollowItems == MenuSpec => []MenuFollowsItems
<1>1. MenuStart => MenuInv
  BY DEF MenuStart, MenuInv, Menus, MenuFollowsItems, Said, NoIndex
<1>2. MenuConstants /\ MenuInv /\ [MenuNext \/ FocusNext]_menuVars => MenuInv'
  <2>1. MenuConstants /\ MenuInv /\ UNCHANGED menuVars => MenuInv'
    <3> SUFFICES ASSUME MenuInv, items' = items, menu' = menu, focus' = focus, reply' = reply
                 PROVE  MenuInv'
      BY DEF menuVars
    <3>1. Follows(menu, reply)' <=> Follows(menu, reply)
      BY ItemsStay DEF Follows
    <3>2. Count' = Count
      BY DEF Count
    <3> QED  BY <3>1, <3>2 DEF MenuInv, MenuFollowsItems, Follows
  <2> QED  BY <2>1, MenuStep
<1>3. MenuInv => MenuFollowsItems
  BY DEF MenuInv
<1> QED  BY <1>1, <1>2, <1>3, MenuConstants, PTL DEF MenuSpec

-----------------------------------------------------------------------------
(* Animations: a number of whole cycles and a part of one.                   *)

LEMMA LessCycles ==
  ASSUME NEW n \in Nat \ {0}, NEW a \in Nat, NEW b \in Nat, NEW x \in 0..n - 1, NEW y \in 0..n - 1,
         a < b
  PROVE  a * n + x < b * n + y
<1>1. PICK k \in Nat : b = a + 1 + k
  <2>1. b - a - 1 \in Nat /\ b = a + 1 + (b - a - 1)
    OBVIOUS
  <2> QED  BY <2>1
<1>2. b * n = a * n + n + k * n
  BY <1>1
<1>3. k * n \in Nat /\ a * n \in Nat
  OBVIOUS
<1> QED  BY <1>2, <1>3

LEMMA PartOfCycle ==
  ASSUME NEW n \in Nat \ {0}, NEW a \in Nat, NEW x \in 0..n - 1
  PROVE  (a * n + x) % n = x
<1> DEFINE t == a * n + x
           b == t \div n
           y == t % n
<1>1. t \in Nat
  OBVIOUS
<1>2. b \in Int /\ y \in 0..n - 1 /\ t = n * b + y
  <2> HIDE DEF t
  <2> QED  BY <1>1
<1>3. a * n \in Nat /\ t = a * n + x
  OBVIOUS
<1> HIDE DEF t, b, y
<1>4. b \in Nat
  <2>1. b <= -1 => n * b <= -n
    BY <1>2
  <2>2. n * b \in Int
    BY <1>2
  <2> QED  BY <1>1, <1>2, <2>1, <2>2
<1>5. n * b = b * n
  BY <1>4
<1>6. a * n + x = b * n + y
  BY <1>2, <1>3, <1>5
<1>7. ~(a < b)
  BY <1>2, <1>3, <1>4, <1>6, LessCycles
<1>8. ~(b < a)
  BY <1>2, <1>3, <1>4, <1>6, LessCycles
<1>9. a = b
  BY <1>4, <1>7, <1>8
<1>10. x = y
  BY <1>2, <1>3, <1>6, <1>9
<1> QED  BY <1>10 DEF y, t

LEMMA WholeCycles ==
  ASSUME NEW n \in Nat \ {0}, NEW t \in Nat
  PROVE  \E c \in Nat, r \in 0..n - 1 : t = c * n + r /\ r = t % n
<1> DEFINE b == t \div n
           y == t % n
<1>1. b \in Int /\ y \in 0..n - 1 /\ t = n * b + y
  OBVIOUS
<1> HIDE DEF b
<1>2. b \in Nat
  <2> HIDE DEF y
  <2>1. b <= -1 => n * b <= -n
    BY <1>1
  <2>2. n * b \in Int
    BY <1>1
  <2> QED  BY <1>1, <2>1, <2>2
<1>3. n * b = b * n
  BY <1>2
<1> HIDE DEF y
<1>4. t = b * n + y
  BY <1>1, <1>3
<1> QED  BY <1>1, <1>2, <1>4 DEF y

(* When the frames of a list begin.                                          *)

IsTable(from, w, most) ==
  from = [i \in 1..most |-> IF i = 1 THEN 0 ELSE from[i - 1] + w[i - 1]]

LEMMA TableExists ==
  ASSUME NEW w, NEW most \in Nat
  PROVE  \E from : IsTable(from, w, most + 1)
<1> DEFINE K == {k \in Nat : \E from : IsTable(from, w, k + 1)}
<1>1. 0 \in K
  <2>1. IsTable([i \in 1..0 + 1 |-> 0], w, 0 + 1)
    BY DEF IsTable
  <2> QED  BY <2>1
<1>2. ASSUME NEW k \in Nat, k \in K  PROVE k + 1 \in K
  <2>1. PICK from : IsTable(from, w, k + 1)
    BY <1>2
  <2> DEFINE more == [i \in 1..k + 1 + 1 |-> IF i = k + 1 + 1 THEN from[k + 1] + w[k + 1] ELSE from[i]]
  <2>2. \A i \in 1..k + 1 : from[i] = IF i = 1 THEN 0 ELSE from[i - 1] + w[i - 1]
    BY <2>1, Zenon DEF IsTable
  <2>3. ASSUME NEW i \in 1..k + 1 + 1
        PROVE  more[i] = IF i = 1 THEN 0 ELSE more[i - 1] + w[i - 1]
    <3>1. CASE i = 1
      BY <2>2, <3>1
    <3>2. CASE i = k + 1 + 1
      <4>1. more[i] = from[k + 1] + w[k + 1] /\ more[i - 1] = from[k + 1] /\ i # 1 /\ i - 1 = k + 1
        BY <3>2
      <4> HIDE DEF more
      <4> QED  BY <4>1
    <3>3. CASE i \in 2..k + 1
      <4>1. more[i] = from[i] /\ more[i - 1] = from[i - 1] /\ i \in 1..k + 1 /\ i # 1
        BY <3>3
      <4> HIDE DEF more
      <4> QED  BY <4>1, <2>2
    <3> QED  BY <3>1, <3>2, <3>3
  <2>4. IsTable(more, w, k + 1 + 1)
    <3>1. more = [i \in 1..k + 1 + 1 |-> more[i]]
      OBVIOUS
    <3> HIDE DEF more
    <3> QED  BY <2>3, <3>1, Zenon DEF IsTable
  <2> HIDE DEF more
  <2> QED  BY <2>4
<1>3. \A k \in Nat : k \in K
  <2> HIDE DEF K
  <2> QED  BY <1>1, <1>2, Induction
<1> QED  BY <1>3

LEMMA BeginsTable ==
  ASSUME NEW w, Len(w) \in Nat
  PROVE  IsTable(Begins(w), w, Len(w) + 1)
<1>1. \E from : IsTable(from, w, Len(w) + 1)
  BY TableExists
<1>2. Begins(w) = CHOOSE from : IsTable(from, w, Len(w) + 1)
  BY DEF Begins, IsTable
<1> QED  BY <1>1, <1>2, Zenon

\* Each frame begins where the one before it ends.
Timed(from, w, n) ==
  /\ from[1] = 0
  /\ \A i \in 1..n : from[i + 1] = from[i] + w[i]
  /\ \A i \in 1..n + 1 : from[i] \in Nat

LEMMA BeginsTimed ==
  ASSUME NEW w, NEW n \in Nat, Len(w) = n, \A i \in 1..n : w[i] \in Nat
  PROVE  Timed(Begins(w), w, n)
<1>1. PICK from : from = Begins(w)
  OBVIOUS
<1>2. IsTable(from, w, n + 1)
  BY <1>1, BeginsTable
<1>3. \A i \in 1..n + 1 : from[i] = IF i = 1 THEN 0 ELSE from[i - 1] + w[i - 1]
  BY <1>2, Zenon DEF IsTable
<1>4. from[1] = 0
  BY <1>3
<1>5. ASSUME NEW i \in 1..n  PROVE from[i + 1] = from[i] + w[i]
  <2>1. PICK j \in 1..n + 1 : j = i + 1 /\ j # 1 /\ j - 1 = i
    OBVIOUS
  <2> QED  BY <1>3, <2>1
<1>6. \A k \in Nat : k + 1 \in 1..n + 1 => from[k + 1] \in Nat
  <2> DEFINE K == {k \in Nat : k + 1 \in 1..n + 1 => from[k + 1] \in Nat}
  <2>1. 0 \in K
    BY <1>4
  <2>2. ASSUME NEW k \in Nat, k \in K  PROVE k + 1 \in K
    <3>1. SUFFICES ASSUME (k + 1) + 1 \in 1..n + 1 PROVE from[(k + 1) + 1] \in Nat
      OBVIOUS
    <3>2. PICK i \in 1..n : i = k + 1
      BY <3>1
    <3>3. from[i] \in Nat /\ from[i + 1] = from[i] + w[i] /\ w[i] \in Nat
      BY <1>5, <2>2, <3>2
    <3> QED  BY <3>2, <3>3
  <2>3. \A k \in Nat : k \in K
    <3> HIDE DEF K
    <3> QED  BY <2>1, <2>2, Induction
  <2> QED  BY <2>3
<1>7. ASSUME NEW i \in 1..n + 1  PROVE from[i] \in Nat
  <2>1. PICK k \in Nat : k = i - 1 /\ i = k + 1
    OBVIOUS
  <2> QED  BY <1>6, <2>1
<1> QED  BY <1>1, <1>4, <1>5, <1>7 DEF Timed

\* A later frame does not begin earlier.
LEMMA TimedOrder ==
  ASSUME NEW from, NEW w, NEW n \in Nat, Timed(from, w, n), \A i \in 1..n : w[i] \in Nat,
         NEW i \in 1..n + 1, NEW j \in 1..n + 1, i <= j
  PROVE  from[i] <= from[j]
<1> DEFINE K == {k \in Nat : i + k \in 1..n + 1 => from[i] <= from[i + k]}
<1>1. 0 \in K
  <2>1. from[i] \in Nat /\ i + 0 = i
    BY DEF Timed
  <2> QED  BY <2>1
<1>2. ASSUME NEW k \in Nat, k \in K  PROVE k + 1 \in K
  <2>1. SUFFICES ASSUME i + (k + 1) \in 1..n + 1  PROVE from[i] <= from[i + (k + 1)]
    OBVIOUS
  <2>2. PICK l \in 1..n : l = i + k /\ l + 1 = i + (k + 1)
    BY <2>1
  <2>3. from[i] <= from[l] /\ from[i] \in Nat /\ from[l] \in Nat /\ w[l] \in Nat
    BY <1>2, <2>2 DEF Timed
  <2>4. from[l + 1] = from[l] + w[l]
    BY DEF Timed
  <2> QED  BY <2>2, <2>3, <2>4
<1>3. \A k \in Nat : k \in K
  <2> HIDE DEF K
  <2> QED  BY <1>1, <1>2, Induction
<1>4. PICK k \in Nat : k = j - i /\ i + k = j
  OBVIOUS
<1> QED  BY <1>3, <1>4

\* The order in which a cycle of m frames shows the n frames of a list: the way out
\* and, to and fro, the way back.
WayOut(cycle, m) == \A i \in 1..m : cycle[i].index = i - 1 /\ cycle[i].direction = 1
WayBack(cycle, n, m) == \A i \in n..m : cycle[i].index = 2 * n - 1 - i /\ cycle[i].direction = -1

Straight(mode, n) == mode # "ping_pong" \/ n = 1

Laid(cycle, w, list, mode, n, m) ==
  /\ n \in Nat \ {0} /\ m \in Nat \ {0}
  /\ Len(cycle) = m /\ DOMAIN cycle = 1..m /\ Len(w) = m /\ DOMAIN w = 1..m
  /\ \A i \in 1..m : w[i] = list[cycle[i].index + 1]
  /\ Straight(mode, n) => m = n /\ WayOut(cycle, n)
  /\ ~Straight(mode, n) => n >= 2 /\ m = 2 * (n - 1) /\ WayOut(cycle, n - 1) /\ WayBack(cycle, n, m)

LEMMA CycleLaid ==
  ASSUME NEW list, NEW n \in Nat \ {0}, Len(list) = n, NEW mode
  PROVE  \E m \in Nat \ {0} : Laid(Cycle(list, mode), Shown(list, mode), list, mode, n, m)
<1>1. PICK cycle, w : cycle = Cycle(list, mode) /\ w = Shown(list, mode)
  OBVIOUS
<1>2. w = [i \in DOMAIN cycle |-> list[cycle[i].index + 1]]
  BY <1>1 DEF Shown
<1>3. CASE Straight(mode, n)
  <2>1. cycle = [i \in 1..n |-> [index |-> i - 1, direction |-> 1]]
    BY <1>1, <1>3 DEF Cycle, Straight
  <2>2. Len(cycle) = n /\ DOMAIN cycle = 1..n /\ WayOut(cycle, n)
    BY <2>1 DEF WayOut
  <2>3. Len(w) = n /\ DOMAIN w = 1..n /\ \A i \in 1..n : w[i] = list[cycle[i].index + 1]
    BY <1>2, <2>2
  <2> QED  BY <1>1, <1>3, <2>2, <2>3 DEF Laid
<1>4. CASE ~Straight(mode, n)
  <2>1. cycle = [i \in 1..2 * (n - 1) |->
                   IF i < n THEN [index |-> i - 1, direction |-> 1]
                   ELSE [index |-> 2 * n - 1 - i, direction |-> -1]]
    BY <1>1, <1>4 DEF Cycle, Straight
  <2>2. PICK m \in Nat \ {0} : m = 2 * (n - 1) /\ n >= 2
    BY <1>4 DEF Straight
  <2>3. /\ Len(cycle) = m /\ DOMAIN cycle = 1..m
        /\ WayOut(cycle, n - 1) /\ WayBack(cycle, n, m)
    BY <2>1, <2>2 DEF WayOut, WayBack
  <2>4. Len(w) = m /\ DOMAIN w = 1..m /\ \A i \in 1..m : w[i] = list[cycle[i].index + 1]
    BY <1>2, <2>3
  <2> QED  BY <1>1, <1>4, <2>2, <2>3, <2>4 DEF Laid
<1> QED  BY <1>3, <1>4

\* Where each frame of the cycle is on the list.
LEMMA LaidInRange ==
  ASSUME NEW cycle, NEW w, NEW list, NEW mode, NEW n, NEW m, Laid(cycle, w, list, mode, n, m),
         NEW i \in 1..m
  PROVE  cycle[i].index \in 0..n - 1 /\ cycle[i].index + 1 \in 1..n /\ cycle[i].direction \in {1, -1}
<1>1. CASE Straight(mode, n)
  BY <1>1 DEF Laid, WayOut
<1>2. CASE ~Straight(mode, n) /\ i \in 1..n - 1
  BY <1>2 DEF Laid, WayOut
<1>3. CASE ~Straight(mode, n) /\ i \in n..m
  BY <1>3, SMTT(60) DEF Laid, WayBack
<1>4. i \in 1..n - 1 \/ i \in n..m \/ Straight(mode, n)
  BY DEF Laid
<1> QED  BY <1>1, <1>2, <1>3, <1>4

\* The way back takes as long as what it goes back over.
LEMMA BackTakes ==
  ASSUME NEW cycle, NEW w, NEW list, NEW mode, NEW n, NEW m, Laid(cycle, w, list, mode, n, m),
         ~Straight(mode, n), \A i \in 1..n : list[i] \in Nat,
         NEW from, Timed(from, w, m), NEW all, Timed(all, list, n)
  PROVE  /\ \A i \in 0..n - 1 : from[i + 1] = all[i + 1]
         /\ \A j \in 0..n - 1 : from[n + j] = all[n] + (all[n + 1] - all[(n + 1) - j])
<1>1. n \in Nat /\ n >= 2 /\ m = 2 * (n - 1) /\ m \in Nat
  BY DEF Laid
<1>2. \A i \in Nat : i \in 0..n - 1 => from[i + 1] = all[i + 1]
  <2> DEFINE K == {i \in Nat : i \in 0..n - 1 => from[i + 1] = all[i + 1]}
  <2>1. 0 \in K
    BY DEF Timed
  <2>2. ASSUME NEW i \in Nat, i \in K  PROVE i + 1 \in K
    <3>1. SUFFICES ASSUME i + 1 \in 0..n - 1  PROVE from[(i + 1) + 1] = all[(i + 1) + 1]
      OBVIOUS
    <3>2. PICK k \in 1..n - 1 : k = i + 1 /\ k \in 1..m /\ k \in 1..n
      BY <1>1, <3>1
    <3>3. from[k] = all[k]
      BY <1>1, <2>2, <3>2
    <3>4. w[k] = list[k]
      <4>1. cycle[k].index = k - 1
        BY <3>2 DEF Laid, WayOut
      <4>2. w[k] = list[cycle[k].index + 1]
        BY <3>2 DEF Laid
      <4>3. (k - 1) + 1 = k
        BY <3>2
      <4> QED  BY <4>1, <4>2, <4>3
    <3>5. from[k + 1] = from[k] + w[k] /\ all[k + 1] = all[k] + list[k]
      BY <3>2 DEF Timed
    <3> QED  BY <3>2, <3>3, <3>4, <3>5
  <2>3. \A i \in Nat : i \in K
    <3> HIDE DEF K
    <3> QED  BY <2>1, <2>2, Induction
  <2> QED  BY <2>3
<1>3. \A j \in Nat : j \in 0..n - 1 => from[n + j] = all[n] + (all[n + 1] - all[(n + 1) - j])
  <2> DEFINE K == {j \in Nat : j \in 0..n - 1 =>
                     from[n + j] = all[n] + (all[n + 1] - all[(n + 1) - j])}
  <2>1. 0 \in K
    <3>1. PICK i \in Nat : i = n - 1 /\ i + 1 = n /\ i \in 0..n - 1
      BY <1>1
    <3>2. from[n] = all[n]
      BY <1>2, <3>1
    <3>3. n + 0 = n /\ (n + 1) - 0 = n + 1 /\ n \in 1..n + 1 /\ n + 1 \in 1..n + 1
      BY <1>1
    <3>4. all[n + 1] \in Nat /\ all[n] \in Nat
      BY <3>3 DEF Timed
    <3> QED  BY <3>2, <3>3, <3>4
  <2>2. ASSUME NEW j \in Nat, j \in K  PROVE j + 1 \in K
    <3>1. SUFFICES ASSUME j + 1 \in 0..n - 1
                   PROVE  from[n + (j + 1)] = all[n] + (all[n + 1] - all[(n + 1) - (j + 1)])
      OBVIOUS
    <3>2. PICK k \in n..m : k = n + j /\ k + 1 = n + (j + 1) /\ k \in 1..m
      BY <1>1, <3>1
    <3>3. PICK l \in 1..n : l = n - j /\ (n + 1) - (j + 1) = l /\ (n + 1) - j = l + 1
      BY <1>1, <3>1
    <3>4. from[k] = all[n] + (all[n + 1] - all[l + 1])
      BY <1>1, <2>2, <3>1, <3>2, <3>3
    <3>5. w[k] = list[l]
      <4>1. cycle[k].index = 2 * n - 1 - k
        BY <3>2 DEF Laid, WayBack
      <4>2. w[k] = list[cycle[k].index + 1]
        BY <3>2 DEF Laid
      <4>3. (2 * n - 1 - k) + 1 = l
        BY <1>1, <3>2, <3>3
      <4> QED  BY <4>1, <4>2, <4>3
    <3>6. from[k + 1] = from[k] + w[k] /\ all[l + 1] = all[l] + list[l]
      BY <3>2, <3>3 DEF Timed
    <3>7. all[n] \in Nat /\ all[n + 1] \in Nat /\ all[l] \in Nat /\ all[l + 1] \in Nat /\ list[l] \in Nat
      BY <1>1, <3>3 DEF Timed
    <3>8. from[k + 1] = all[n] + (all[n + 1] - all[l])
      BY <3>4, <3>5, <3>6, <3>7
    <3> QED  BY <3>2, <3>3, <3>8
  <2>3. \A i \in Nat : i \in K
    <3> HIDE DEF K
    <3> QED  BY <2>1, <2>2, Induction
  <2> QED  BY <2>3
<1>4. \A j \in 0..n - 1 : j \in Nat
  OBVIOUS
<1> QED  BY <1>2, <1>3, <1>4

LEMMA SameTimes ==
  ASSUME NEW from, NEW w, NEW all, NEW v, NEW n \in Nat, Timed(from, w, n), Timed(all, v, n),
         \A i \in 1..n : w[i] = v[i]
  PROVE  \A i \in 1..n + 1 : from[i] = all[i]
<1> DEFINE K == {k \in Nat : k \in 0..n => from[k + 1] = all[k + 1]}
<1>1. 0 \in K
  BY DEF Timed
<1>2. ASSUME NEW k \in Nat, k \in K  PROVE k + 1 \in K
  <2>1. SUFFICES ASSUME k + 1 \in 0..n  PROVE from[(k + 1) + 1] = all[(k + 1) + 1]
    OBVIOUS
  <2>2. PICK i \in 1..n : i = k + 1
    BY <2>1
  <2>3. from[i] = all[i] /\ w[i] = v[i]
    BY <1>2, <2>2
  <2>4. from[i + 1] = from[i] + w[i] /\ all[i + 1] = all[i] + v[i]
    BY DEF Timed
  <2> QED  BY <2>2, <2>3, <2>4
<1>3. \A k \in Nat : k \in K
  <2> HIDE DEF K
  <2> QED  BY <1>1, <1>2, Induction
<1>4. ASSUME NEW i \in 1..n + 1  PROVE from[i] = all[i]
  <2>1. PICK k \in Nat : k = i - 1 /\ i = k + 1
    OBVIOUS
  <2> QED  BY <1>3, <2>1
<1> QED  BY <1>4

\* The duration that animation.c computes is when the cycle ends.
LEMMA CycleTakes ==
  ASSUME NEW cycle, NEW w, NEW list, NEW mode, NEW n, NEW m, Laid(cycle, w, list, mode, n, m),
         Len(list) = n, \A i \in 1..n : list[i] \in Nat,
         NEW from, Timed(from, w, m), NEW all, Timed(all, list, n), all = Begins(list)
  PROVE  from[m + 1] = CycleDuration(list, mode)
<1>1. n \in Nat \ {0}
  BY DEF Laid
<1>2. CASE Straight(mode, n)
  <2>1. m = n /\ \A i \in 1..n : w[i] = list[i]
    <3>1. m = n /\ \A i \in 1..n : cycle[i].index = i - 1 /\ w[i] = list[cycle[i].index + 1]
      BY <1>2 DEF Laid, WayOut
    <3>2. \A i \in 1..n : (i - 1) + 1 = i
      OBVIOUS
    <3> QED  BY <3>1, <3>2, ZenonT(60)
  <2>2. from[n + 1] = all[n + 1]
    <3>1. \A i \in 1..n + 1 : from[i] = all[i]
      BY <1>1, <2>1, SameTimes
    <3> QED  BY <1>1, <3>1
  <2>3. CycleDuration(list, mode) = all[n + 1]
    BY <1>1, <1>2 DEF CycleDuration, Straight
  <2> QED  BY <2>1, <2>2, <2>3
<1>3. CASE ~Straight(mode, n)
  <2>1. n \in Nat /\ n >= 2 /\ m = 2 * (n - 1) /\ mode = "ping_pong"
    BY <1>1, <1>3 DEF Laid, Straight
  <2>2. PICK j \in 0..n - 1 : j = n - 1 /\ n + j = m + 1 /\ (n + 1) - j = 2
    BY <2>1
  <2>3. from[m + 1] = all[n] + (all[n + 1] - all[2])
    <3>1. \A i \in 0..n - 1 : from[n + i] = all[n] + (all[n + 1] - all[(n + 1) - i])
      BY <1>3, BackTakes, SMTT(60)
    <3> QED  BY <2>2, <3>1
  <2>4. all[2] = list[1] /\ all[n + 1] = all[n] + list[n]
    <3>1. 1 \in 1..n /\ n \in 1..n /\ 1 + 1 = 2
      BY <2>1
    <3>2. all[1 + 1] = all[1] + list[1] /\ all[1] = 0 /\ list[1] \in Nat /\ all[n + 1] = all[n] + list[n]
      BY <3>1 DEF Timed
    <3> QED  BY <3>1, <3>2
  <2>5. all[n] \in Nat /\ all[n + 1] \in Nat /\ list[1] \in Nat /\ list[n] \in Nat
    BY <2>1 DEF Timed
  <2>6. CycleDuration(list, mode) = IF n > 2 THEN 2 * all[n + 1] - list[1] - list[n] ELSE all[n + 1]
    BY <2>1 DEF CycleDuration
  <2>7. n > 2 \/ n = 2
    BY <2>1
  <2>8. n = 2 => all[n] = all[2]
    OBVIOUS
  <2> QED  BY <2>3, <2>4, <2>5, <2>6, <2>7, <2>8, SMTT(60)
<1> QED  BY <1>2, <1>3

\* A zero beyond the times a word holds is behind an overflow, which is found instead.
LEMMA NoFrameIsEmpty ==
  ASSUME NEW list, NEW n \in Nat \ {0}, Len(list) = n, \A i \in 1..n : list[i] \in Nat, NEW mode,
         NEW all, Timed(all, list, n), all = Begins(list), TimeMax \in Nat,
         CycleDuration(list, mode) <= TimeMax,
         \A i \in 1..n : ~(list[i] = 0 /\ all[i] <= TimeMax)
  PROVE  \A i \in 1..n : list[i] > 0
<1>1. all[n + 1] <= TimeMax
  <2>1. all[n + 1] \in Nat
    BY DEF Timed
  <2>2. CASE mode = "ping_pong" /\ n > 2
    <3>1. CycleDuration(list, mode) = 2 * all[n + 1] - list[1] - list[n]
      BY <2>2 DEF CycleDuration
    <3>2. list[1] \in Nat /\ list[n] \in Nat /\ all[n] \in Nat /\ all[2] \in Nat
      BY <2>2 DEF Timed
    <3>3. all[n + 1] = all[n] + list[n]
      BY DEF Timed
    <3>4. all[2] = list[1]
      <4>1. all[1 + 1] = all[1] + list[1] /\ all[1] = 0 /\ 1 + 1 = 2
        BY DEF Timed
      <4> QED  BY <3>2, <4>1
    <3>5. all[2] <= all[n]
      BY <2>2, TimedOrder
    <3> QED  BY <2>1, <3>1, <3>2, <3>3, <3>4, <3>5, SMTT(60)
  <2>3. CASE ~(mode = "ping_pong" /\ n > 2)
    BY <2>3 DEF CycleDuration
  <2> QED  BY <2>2, <2>3
<1>2. ASSUME NEW i \in 1..n  PROVE list[i] > 0
  <2>1. all[i] <= all[n + 1]
    BY TimedOrder
  <2>2. all[i] \in Nat /\ all[n + 1] \in Nat
    BY DEF Timed
  <2>3. all[i] <= TimeMax
    BY <1>1, <2>1, <2>2
  <2> QED  BY <2>3
<1> QED  BY <1>2

(* Where an animation is on its course: what a cycle shows, when, and how    *)
(* long it takes.                                                            *)

Course(c, list, mode) ==
  /\ mode \in Modes /\ Len(list) = c.n /\ \A i \in 1..c.n : list[i] \in Nat \ {0}
  /\ Laid(c.cycle, c.w, list, mode, c.n, c.m) /\ Timed(c.from, c.w, c.m)
  /\ c.t = c.from[c.m + 1] /\ c.t \in Nat \ {0}
  /\ \A i \in 1..c.m : c.w[i] \in Nat \ {0}

Playable(list) ==
  list \in FrameLists /\ Len(list) \in Nat \ {0} /\ \A i \in 1..Len(list) : list[i] \in Nat \ {0}

CourseOf(list, mode) ==
  [n |-> Len(list), m |-> Len(Cycle(list, mode)), cycle |-> Cycle(list, mode),
   w |-> Shown(list, mode), from |-> Begins(Shown(list, mode)), t |-> CycleDuration(list, mode)]

LEMMA CourseOfList ==
  ASSUME NEW list, Playable(list), NEW mode \in Modes
  PROVE  Course(CourseOf(list, mode), list, mode)
<1>1. PICK n \in Nat \ {0} : n = Len(list)
  BY DEF Playable
<1>2. PICK cycle, w, from, all : /\ cycle = Cycle(list, mode) /\ w = Shown(list, mode)
                                 /\ from = Begins(w) /\ all = Begins(list)
  OBVIOUS
<1>3. PICK m \in Nat \ {0} : Laid(cycle, w, list, mode, n, m)
  BY <1>1, <1>2, CycleLaid
<1>4. \A i \in 1..n : list[i] \in Nat \ {0} /\ list[i] \in Nat
  BY <1>1 DEF Playable
<1>5. \A i \in 1..m : w[i] \in Nat \ {0} /\ w[i] \in Nat
  <2>1. ASSUME NEW i \in 1..m  PROVE w[i] \in Nat \ {0}
    <3>1. cycle[i].index + 1 \in 1..n
      BY <1>3, LaidInRange
    <3>2. w[i] = list[cycle[i].index + 1]
      BY <1>3 DEF Laid
    <3> QED  BY <1>4, <3>1, <3>2
  <2> QED  BY <2>1
<1>6. Len(w) = m
  BY <1>3 DEF Laid
<1>7. Timed(from, w, m)
  BY <1>2, <1>5, <1>6, BeginsTimed
<1>8. Timed(all, list, n)
  BY <1>1, <1>2, <1>4, BeginsTimed
<1>9. from[m + 1] = CycleDuration(list, mode)
  BY <1>1, <1>2, <1>3, <1>4, <1>7, <1>8, CycleTakes
<1>10. from[m + 1] \in Nat \ {0}
  <2>1. from[m] \in Nat /\ from[m + 1] = from[m] + w[m] /\ w[m] \in Nat \ {0}
    BY <1>5, <1>7 DEF Timed
  <2> QED  BY <2>1
<1>11. PICK c : c = CourseOf(list, mode)
  OBVIOUS
<1>12. /\ c.n = n /\ c.m = m /\ c.cycle = cycle /\ c.w = w /\ c.from = from /\ c.t = from[m + 1]
  <2>1. Len(cycle) = m
    BY <1>3 DEF Laid
  <2> QED  BY <1>1, <1>2, <1>9, <1>11, <2>1 DEF CourseOf
<1>13. Course(c, list, mode)
  BY <1>1, <1>3, <1>4, <1>5, <1>7, <1>10, <1>12 DEF Course
<1> QED  BY <1>11, <1>13

Animations ==
  [frames : FrameLists, frame_index : Nat, frame_elapsed_ms : Nat, cycle_duration_ms : Nat,
   mode : Modes, direction : {1, -1}, paused : BOOLEAN, finished : BOOLEAN, initialized : {TRUE}]

\* The same animation, but for where it is.
Moved(a, b) ==
  /\ b \in Animations /\ b.frames = a.frames /\ b.mode = a.mode
  /\ b.cycle_duration_ms = a.cycle_duration_ms /\ b.paused = a.paused

\* It shows the k-th frame of its cycle for the (q + 1)-th time.
Faces(c, a, k, q) ==
  /\ ~a.finished /\ k \in 1..c.m /\ q \in Nat /\ (a.mode = "once" => q = 0)
  /\ a.frame_index = c.cycle[k].index /\ a.direction = c.cycle[k].direction

Shows(c, a, time, k, q) ==
  /\ Faces(c, a, k, q)
  /\ a.frame_elapsed_ms \in 0..c.w[k] - 1
  /\ time = q * c.t + (c.from[k] + a.frame_elapsed_ms)

Ended(c, a, time) ==
  /\ a.finished /\ a.mode = "once" /\ time >= c.t
  /\ a.frame_index = c.n - 1 /\ a.frame_elapsed_ms = a.frames[c.n]

OnCourse(c, a, time) == time \in Nat /\ (Ended(c, a, time) \/ \E k, q : Shows(c, a, time, k, q))

\* The beginning of a frame.
LEMMA FrameStarts ==
  ASSUME NEW c, NEW a, Course(c, a.frames, a.mode), NEW k, NEW q, Faces(c, a, k, q),
         a.frame_elapsed_ms = 0, NEW time, time = q * c.t + c.from[k]
  PROVE  OnCourse(c, a, time)
<1>1. c.w[k] \in Nat \ {0} /\ c.from[k] \in Nat /\ c.t \in Nat /\ q \in Nat
  <2>1. k \in 1..c.m /\ q \in Nat
    BY DEF Faces
  <2>2. c.w[k] \in Nat \ {0} /\ c.t \in Nat
    BY <2>1 DEF Course
  <2>3. c.m \in Nat /\ \A i \in 1..c.m + 1 : c.from[i] \in Nat
    BY DEF Course, Timed, Laid
  <2> QED  BY <2>1, <2>2, <2>3
<1>2. q * c.t \in Nat
  BY <1>1
<1>3. Shows(c, a, time, k, q)
  <2>1. c.from[k] + a.frame_elapsed_ms = c.from[k] /\ a.frame_elapsed_ms \in 0..c.w[k] - 1
    BY <1>1
  <2> QED  BY <2>1 DEF Shows
<1> QED  BY <1>1, <1>2, <1>3 DEF OnCourse

\* After the last frame comes the first, a cycle later.
LEMMA CycleStarts ==
  ASSUME NEW c, NEW a, Course(c, a.frames, a.mode), NEW q \in Nat, Faces(c, a, 1, q + 1),
         a.frame_elapsed_ms = 0, NEW time, time = q * c.t + c.from[c.m + 1]
  PROVE  OnCourse(c, a, time)
<1>1. c.from[1] = 0 /\ c.t = c.from[c.m + 1] /\ c.t \in Nat
  BY DEF Course, Timed
<1>2. (q + 1) * c.t = q * c.t + c.t
  BY <1>1
<1>3. (q + 1) * c.t \in Nat
  BY <1>1
<1>4. time = (q + 1) * c.t + c.from[1]
  BY <1>1, <1>2, <1>3
<1>5. PICK first, later : first = 1 /\ later = q + 1
  OBVIOUS
<1> QED  BY <1>4, <1>5, FrameStarts

\* What next is to an animation a whose frame has ended, b being the frame begun anew.
Succeeds(a, last, b, next) ==
  /\ a.mode = "once" /\ a.frame_index < last => next = [b EXCEPT !.frame_index = @ + 1]
  /\ a.mode = "once" /\ ~(a.frame_index < last)
       => next = [a EXCEPT !.frame_elapsed_ms = a.frames[last + 1], !.finished = TRUE]
  /\ a.mode = "loop" => next = [b EXCEPT !.frame_index = (@ + 1) % (last + 1)]
  /\ a.mode = "ping_pong" /\ last = 0 => next = b
  /\ a.mode = "ping_pong" /\ last > 0
       => next = [b EXCEPT !.frame_index = @ + a.direction,
                           !.direction = IF a.direction > 0 /\ a.frame_index + a.direction = last THEN -1
                                         ELSE IF a.direction < 0 /\ a.frame_index + a.direction = 0 THEN 1
                                         ELSE a.direction]

LEMMA NextFrameModes ==
  ASSUME NEW a, NEW last \in Nat, last = Len(a.frames) - 1, a.frame_index \in Nat, NEW next, next = NextFrame(a),
         NEW b, b = [a EXCEPT !.frame_elapsed_ms = 0]
  PROVE  Succeeds(a, last, b, next)
<1> DEFINE onward == [b EXCEPT !.frame_index = @ + 1]
           ended  == [a EXCEPT !.frame_elapsed_ms = a.frames[last + 1], !.finished = TRUE]
           same   == b
           round  == [b EXCEPT !.frame_index = (@ + 1) % (last + 1)]
           turned == [b EXCEPT !.frame_index = @ + a.direction,
                               !.direction = IF a.direction > 0 /\ a.frame_index + a.direction = last THEN -1
                                             ELSE IF a.direction < 0 /\ a.frame_index + a.direction = 0 THEN 1
                                             ELSE a.direction]
           early  == a.frame_index < last
           late   == a.frame_index >= last
           alone  == last = 0
           many   == last > 0
<1>1. next = CASE a.mode = "once" /\ early -> onward
               [] a.mode = "once" /\ late -> ended
               [] a.mode = "loop" -> round
               [] a.mode = "ping_pong" /\ alone -> same
               [] a.mode = "ping_pong" /\ many -> turned
  BY Zenon DEF NextFrame
<1>2. (late <=> ~early) /\ ~(alone /\ many)
  <2>1. \A i, k : i \in Nat /\ k \in Nat => (i >= k <=> ~(i < k)) /\ ~(k = 0 /\ k > 0)
    OBVIOUS
  <2> QED  BY <2>1, Zenon
<1> HIDE DEF onward, ended, same, round, turned, early, late, alone, many
<1>3. /\ a.mode = "once" /\ early => next = onward
      /\ a.mode = "once" /\ ~early => next = ended
      /\ a.mode = "loop" => next = round
      /\ a.mode = "ping_pong" /\ alone => next = same
      /\ a.mode = "ping_pong" /\ many => next = turned
  BY <1>1, <1>2
<1> QED  BY <1>3, Zenon DEF Succeeds, onward, ended, same, round, turned, early, alone, many

\* What the course shows after its k-th frame.
LEMMA StraightOn ==
  ASSUME NEW c, NEW list, NEW mode, Course(c, list, mode), Straight(mode, c.n)
  PROVE  /\ c.m = c.n /\ c.n \in Nat \ {0}
         /\ \A k \in 1..c.m : c.cycle[k].index = k - 1 /\ c.cycle[k].direction = 1
BY DEF Course, Laid, WayOut

LEMMA ToAndFro ==
  ASSUME NEW c, NEW list, NEW mode, Course(c, list, mode), ~Straight(mode, c.n)
  PROVE  /\ c.n \in Nat /\ c.n >= 2 /\ c.m = 2 * (c.n - 1)
         /\ \A k \in 1..c.n - 1 : c.cycle[k].index = k - 1 /\ c.cycle[k].direction = 1
         /\ \A k \in c.n..c.m : c.cycle[k].index = 2 * c.n - 1 - k /\ c.cycle[k].direction = -1
BY DEF Course, Laid, WayOut, WayBack

\* The frame after the one that has just ended, where nothing turns.
LEMMA NextFrameStraight ==
  ASSUME NEW c, NEW a \in Animations, Course(c, a.frames, a.mode), Straight(a.mode, c.n),
         NEW k, NEW q, Faces(c, a, k, q), NEW b, b = NextFrame(a),
         NEW time, time = q * c.t + c.from[k + 1]
  PROVE  Moved(a, b) /\ OnCourse(c, b, time)
<1>1. PICK n \in Nat \ {0} : n = c.n /\ n = c.m
  BY StraightOn
<1>12. Len(a.frames) = n
  BY <1>1 DEF Course
<1>2. k \in 1..n /\ q \in Nat /\ ~a.finished /\ a.frame_index = k - 1 /\ a.direction = 1
  BY <1>1, StraightOn DEF Faces
<1>3. \A j \in 1..n : c.cycle[j].index = j - 1 /\ c.cycle[j].direction = 1
  BY <1>1, StraightOn
<1>4. a.mode \in Modes /\ c.t \in Nat \ {0} /\ c.t = c.from[n + 1]
  BY <1>1 DEF Course
<1>9. PICK z : z = [a EXCEPT !.frame_elapsed_ms = 0]
  OBVIOUS
<1>10. /\ a.mode = "once" /\ a.frame_index < n - 1 => b = [z EXCEPT !.frame_index = @ + 1]
       /\ a.mode = "once" /\ ~(a.frame_index < n - 1)
            => b = [a EXCEPT !.frame_elapsed_ms = a.frames[(n - 1) + 1], !.finished = TRUE]
       /\ a.mode = "loop" => b = [z EXCEPT !.frame_index = (@ + 1) % ((n - 1) + 1)]
       /\ a.mode = "ping_pong" /\ n - 1 = 0 => b = z
  <2>1. PICK last \in Nat : last = n - 1
    OBVIOUS
  <2>2. last = Len(a.frames) - 1
    BY <1>12, <2>1, Zenon
  <2>3. a.frame_index \in Nat
    BY DEF Animations
  <2>4. Succeeds(a, last, z, b)
    BY <1>9, <2>2, <2>3, NextFrameModes, Zenon
  <2> QED  BY <2>1, <2>4, Zenon DEF Succeeds
<1>11. z \in Animations /\ z.frame_index = k - 1 /\ z.frame_elapsed_ms = 0 /\ z.direction = 1
       /\ z.finished = FALSE /\ z.mode = a.mode /\ z.frames = a.frames
       /\ z.cycle_duration_ms = a.cycle_duration_ms /\ z.paused = a.paused
  BY <1>2, <1>9 DEF Animations
<1>5. CASE k < n
  <2>1. b = [z EXCEPT !.frame_index = k]
    <3>1. CASE a.mode = "once"
      <4>1. a.frame_index < n - 1
        BY <1>1, <1>2, <1>5
      <4>2. b = [z EXCEPT !.frame_index = @ + 1]
        BY <1>10, <3>1, <4>1
      <4> QED  BY <1>2, <1>11, <4>2 DEF Animations
    <3>2. CASE a.mode = "loop"
      <4>1. b = [z EXCEPT !.frame_index = (@ + 1) % ((n - 1) + 1)]
        BY <1>10, <3>2
      <4>2. ((k - 1) + 1) % ((n - 1) + 1) = k
        <5>1. k \in 0..n - 1 /\ (k - 1) + 1 = k /\ (n - 1) + 1 = n
          BY <1>2, <1>5
        <5>2. k % n = k
          BY <5>1, Round, SMTT(60)
        <5> QED  BY <5>1, <5>2
      <4> QED  BY <1>2, <1>11, <4>1, <4>2 DEF Animations
    <3>3. a.mode # "ping_pong"
      <4>1. n # 1
        BY <1>2, <1>5
      <4> QED  BY <1>1, <4>1, Zenon DEF Straight
    <3> QED  BY <1>4, <3>1, <3>2, <3>3 DEF Modes
  <2>2. Moved(a, b)
    <3>1. k \in Nat
      BY <1>2
    <3>2. b \in Animations /\ b.frames = z.frames /\ b.mode = z.mode
          /\ b.cycle_duration_ms = z.cycle_duration_ms /\ b.paused = z.paused
      BY <1>11, <2>1, <3>1, ZenonT(60) DEF Animations
    <3> QED  BY <1>11, <3>2 DEF Moved
  <2>3. b.frame_index = k /\ b.frame_elapsed_ms = 0 /\ b.direction = 1 /\ ~b.finished
        /\ b.mode = a.mode /\ b.frames = a.frames
    BY <1>2, <1>11, <2>1 DEF Animations
  <2>4. PICK j \in 1..n : j = k + 1
    BY <1>2, <1>5
  <2>5. Faces(c, b, j, q)
    <3>1. c.cycle[j].index = k /\ c.cycle[j].direction = 1
      BY <1>2, <1>3, <2>4
    <3> QED  BY <1>1, <2>3, <2>4, <3>1 DEF Faces
  <2>6. time = q * c.t + c.from[j] /\ Course(c, b.frames, b.mode)
    BY <2>3, <2>4
  <2> QED  BY <2>2, <2>3, <2>5, <2>6, FrameStarts
<1>6. CASE k = n /\ a.mode = "once"
  <2>1. b = [a EXCEPT !.frame_elapsed_ms = a.frames[(n - 1) + 1], !.finished = TRUE]
    <3>1. ~(a.frame_index < n - 1)
      BY <1>1, <1>2, <1>6
    <3> QED  BY <1>1, <1>6, <1>10, <3>1
  <2>2. (n - 1) + 1 = n /\ a.frames[n] \in Nat
    BY <1>1, SMTT(60) DEF Course
  <2>3. b = [a EXCEPT !.frame_elapsed_ms = a.frames[n], !.finished = TRUE]
    BY <2>1, <2>2
  <2>4. Moved(a, b)
    BY <2>2, <2>3, ZenonT(60) DEF Moved, Animations
  <2>5. b.finished /\ b.mode = "once" /\ b.frame_index = c.n - 1 /\ b.frame_elapsed_ms = b.frames[c.n]
    BY <1>1, <1>2, <1>6, <2>3 DEF Animations
  <2>6. time = c.t
    <3>1. q = 0
      BY <1>6 DEF Faces
    <3>2. time = c.from[n + 1] /\ c.t = c.from[n + 1]
      BY <1>4, <1>6, <3>1
    <3> QED  BY <3>2
  <2>7. time \in Nat /\ time >= c.t
    BY <1>4, <2>6
  <2> QED  BY <2>4, <2>5, <2>7 DEF Ended, OnCourse
<1>7. CASE k = n /\ a.mode # "once"
  <2>1. b = [z EXCEPT !.frame_index = 0]
    <3>1. CASE a.mode = "loop"
      <4>1. b = [z EXCEPT !.frame_index = (@ + 1) % ((n - 1) + 1)]
        BY <1>10, <3>1
      <4>2. ((k - 1) + 1) % ((n - 1) + 1) = 0
        <5>1. n \in n..2 * n - 1 /\ (k - 1) + 1 = n /\ (n - 1) + 1 = n
          BY <1>7
        <5>2. n % n = 0
          BY <5>1, Round
        <5> QED  BY <5>1, <5>2
      <4> QED  BY <1>2, <1>11, <4>1, <4>2 DEF Animations
    <3>2. CASE a.mode = "ping_pong"
      <4>1. n = 1 /\ n - 1 = 0
        BY <1>1, <3>2 DEF Straight
      <4>2. b = z
        BY <1>1, <1>10, <3>2, <4>1
      <4>3. z.frame_index = 0
        BY <1>7, <1>11, <4>1
      <4> QED  BY <1>11, <4>2, <4>3 DEF Animations
    <3> QED  BY <1>4, <1>7, <3>1, <3>2 DEF Modes
  <2>2. Moved(a, b)
    BY <1>11, <2>1, ZenonT(60) DEF Moved, Animations
  <2>3. b.frame_index = 0 /\ b.frame_elapsed_ms = 0 /\ b.direction = 1 /\ ~b.finished
        /\ b.mode = a.mode /\ b.frames = a.frames
    BY <1>2, <1>11, <2>1 DEF Animations
  <2>4. Faces(c, b, 1, q + 1)
    <3>1. c.cycle[1].index = 0 /\ c.cycle[1].direction = 1 /\ 1 \in 1..c.m /\ q + 1 \in Nat
      BY <1>1, <1>2, <1>3
    <3> QED  BY <1>7, <2>3, <3>1 DEF Faces
  <2>5. time = q * c.t + c.from[c.m + 1] /\ Course(c, b.frames, b.mode)
    BY <1>1, <1>7, <2>3
  <2> QED  BY <1>2, <2>2, <2>3, <2>4, <2>5, CycleStarts
<1> QED  BY <1>2, <1>5, <1>6, <1>7

\* And to and fro.
LEMMA NextFrameTurning ==
  ASSUME NEW c, NEW a \in Animations, Course(c, a.frames, a.mode), ~Straight(a.mode, c.n),
         NEW k, NEW q, Faces(c, a, k, q), NEW b, b = NextFrame(a),
         NEW time, time = q * c.t + c.from[k + 1]
  PROVE  Moved(a, b) /\ OnCourse(c, b, time)
<1>1. PICK n \in Nat, m \in Nat : n = c.n /\ m = c.m /\ n >= 2 /\ m = 2 * (n - 1)
  BY ToAndFro
<1>13. Len(a.frames) = n
  BY <1>1 DEF Course
<1>2. k \in 1..m /\ q \in Nat /\ ~a.finished /\ a.mode = "ping_pong"
      /\ a.frame_index = c.cycle[k].index /\ a.direction = c.cycle[k].direction
  BY <1>1 DEF Faces, Straight
<1>3. /\ \A j \in 1..n - 1 : c.cycle[j].index = j - 1 /\ c.cycle[j].direction = 1
      /\ \A j \in n..m : c.cycle[j].index = 2 * n - 1 - j /\ c.cycle[j].direction = -1
  <2>1. /\ \A j \in 1..c.n - 1 : c.cycle[j].index = j - 1 /\ c.cycle[j].direction = 1
        /\ \A j \in c.n..c.m : c.cycle[j].index = 2 * c.n - 1 - j /\ c.cycle[j].direction = -1
    BY ToAndFro
  <2> QED  BY <1>1, <2>1, Zenon
<1> DEFINE index == a.frame_index + a.direction
           way == IF a.direction > 0 /\ index = n - 1 THEN -1
                  ELSE IF a.direction < 0 /\ index = 0 THEN 1 ELSE a.direction
<1>14. PICK z : z = [a EXCEPT !.frame_elapsed_ms = 0]
  OBVIOUS
<1>12. z \in Animations /\ z.frame_index = a.frame_index /\ z.frame_elapsed_ms = 0
       /\ z.finished = FALSE /\ z.mode = a.mode /\ z.frames = a.frames
       /\ z.cycle_duration_ms = a.cycle_duration_ms /\ z.paused = a.paused
  BY <1>2, <1>14 DEF Animations
<1>4. b = [z EXCEPT !.frame_index = @ + a.direction, !.direction = way]
  <2>1. PICK last \in Nat : last = n - 1 /\ last > 0
    BY <1>1
  <2>2. last = Len(a.frames) - 1
    BY <1>13, <2>1, Zenon
  <2>3. a.frame_index \in Nat
    BY DEF Animations
  <2>4. Succeeds(a, last, z, b)
    BY <1>14, <2>2, <2>3, NextFrameModes, Zenon
  <2> QED  BY <1>2, <2>1, <2>4, Zenon DEF Succeeds
<1>5. b = [z EXCEPT !.frame_index = index, !.direction = way]
  <2> HIDE DEF way
  <2> QED  BY <1>4, <1>12 DEF Animations
<1>6. PICK j \in 1..m : /\ j = IF k < m THEN k + 1 ELSE 1
                        /\ index = c.cycle[j].index /\ way = c.cycle[j].direction
                        /\ index \in Nat /\ way \in {1, -1}
  <2>1. CASE k < n - 1
    <3>1. a.frame_index = k - 1 /\ a.direction = 1
      BY <1>2, <1>3, <2>1
    <3>2. PICK j \in 1..m : j = k + 1 /\ k < m
      BY <1>1, <1>2, <2>1
    <3>3. index = k
      BY <1>2, <3>1
    <3>4. CASE k < n - 2
      <4>1. c.cycle[j].index = k /\ c.cycle[j].direction = 1
        BY <1>1, <1>2, <1>3, <3>2, <3>4
      <4>2. way = 1
        BY <1>1, <1>2, <3>1, <3>3, <3>4
      <4> QED  BY <1>2, <3>2, <3>3, <4>1, <4>2
    <3>5. CASE k = n - 2
      <4>1. c.cycle[j].index = k /\ c.cycle[j].direction = 1
        <5>1. j \in 1..n - 1 /\ j - 1 = k
          BY <1>1, <1>2, <3>2, <3>5
        <5> QED  BY <1>3, <5>1
      <4>2. way = 1
        BY <1>1, <1>2, <3>1, <3>3, <3>5
      <4> QED  BY <1>2, <3>2, <3>3, <4>1, <4>2
    <3> QED  BY <1>1, <1>2, <2>1, <3>4, <3>5
  <2>2. CASE k = n - 1
    <3>1. a.frame_index = k - 1 /\ a.direction = 1
      BY <1>1, <1>2, <1>3, <2>2
    <3>2. index = k /\ way = -1
      BY <1>1, <1>2, <2>2, <3>1
    <3>3. CASE k < m
      <4>1. PICK j \in n..m : j = k + 1 /\ j \in 1..m
        BY <1>1, <1>2, <2>2, <3>3
      <4>2. c.cycle[j].index = k /\ c.cycle[j].direction = -1
        BY <1>1, <1>3, <2>2, <4>1
      <4> QED  BY <1>2, <3>2, <3>3, <4>1, <4>2
    <3>4. k < m
      BY <1>1, <2>2
    <3> QED  BY <3>3, <3>4
  <2>3. CASE k \in n..m - 1
    <3>1. a.frame_index = 2 * n - 1 - k /\ a.direction = -1
      BY <1>1, <1>2, <1>3, <2>3
    <3>2. PICK j \in n..m : j = k + 1 /\ j \in 1..m /\ k < m
      BY <1>1, <1>2, <2>3
    <3>3. index = 2 * n - 2 - k /\ index \in Nat /\ index # 0
      BY <1>1, <1>2, <2>3, <3>1
    <3>4. way = -1
      BY <3>1, <3>3
    <3>5. c.cycle[j].index = index /\ c.cycle[j].direction = -1
      <4>1. c.cycle[j].index = 2 * n - 1 - j /\ c.cycle[j].direction = -1
        BY <1>3, <3>2
      <4>2. 2 * n - 1 - j = 2 * n - 2 - k
        BY <1>1, <1>2, <3>2
      <4> QED  BY <3>3, <4>1, <4>2
    <3> QED  BY <3>2, <3>3, <3>4, <3>5
  <2>4. CASE k = m
    <3>1. a.frame_index = 1 /\ a.direction = -1
      BY <1>1, <1>2, <1>3, <2>4
    <3>2. index = 0 /\ way = 1
      BY <3>1
    <3>3. PICK j \in 1..m : j = 1 /\ j \in 1..n - 1
      BY <1>1
    <3>4. c.cycle[j].index = 0 /\ c.cycle[j].direction = 1
      BY <1>3, <3>3
    <3> QED  BY <1>2, <2>4, <3>2, <3>3, <3>4
  <2>5. k < n - 1 \/ k = n - 1 \/ k \in n..m - 1 \/ k = m
    BY <1>1, <1>2, SMTT(60)
  <2> QED  BY <2>1, <2>2, <2>3, <2>4, <2>5, SMTT(60)
<1> HIDE DEF index, way
<1>7. Moved(a, b)
  BY <1>5, <1>6, <1>12, ZenonT(60) DEF Moved, Animations
<1>8. b.frame_index = index /\ b.frame_elapsed_ms = 0 /\ b.direction = way /\ ~b.finished
      /\ b.mode = a.mode /\ b.frames = a.frames
  BY <1>5, <1>12 DEF Animations
<1>9. Course(c, b.frames, b.mode)
  BY <1>8
<1>10. CASE k < m
  <2>1. j = k + 1 /\ time = q * c.t + c.from[j]
    BY <1>6, <1>10
  <2>2. Faces(c, b, j, q)
    BY <1>1, <1>2, <1>6, <1>8 DEF Faces
  <2> QED  BY <1>7, <1>8, <1>9, <2>1, <2>2, FrameStarts
<1>11. CASE k = m
  <2>1. j = 1 /\ time = q * c.t + c.from[c.m + 1] /\ q + 1 \in Nat
    BY <1>1, <1>2, <1>6, <1>11, SMTT(60)
  <2>2. Faces(c, b, 1, q + 1)
    BY <1>1, <1>2, <1>6, <1>8, <2>1 DEF Faces
  <2> QED  BY <1>2, <1>7, <1>8, <1>9, <2>1, <2>2, CycleStarts, SMTT(60)
<1> QED  BY <1>2, <1>10, <1>11

LEMMA NextFrameFollows ==
  ASSUME NEW c, NEW a \in Animations, Course(c, a.frames, a.mode),
         NEW k, NEW q, Faces(c, a, k, q), NEW b, b = NextFrame(a),
         NEW time, time = q * c.t + c.from[k + 1]
  PROVE  Moved(a, b) /\ OnCourse(c, b, time)
BY NextFrameStraight, NextFrameTurning

(* The loop that lets the frames play.                                       *)

\* A turn of it takes some of the time that is left, and plays for that long.
Takes(c, a, time, left, next) ==
  \E spent \in 0..left :
    /\ Moved(a, next.animation) /\ OnCourse(c, next.animation, time + spent)
    /\ next.left = left - spent
    /\ left # 0 /\ ~a.finished => spent # 0

LEMMA AdvanceTakes ==
  ASSUME NEW c, NEW turn, NEW a \in Animations, a = turn.animation, Course(c, a.frames, a.mode),
         NEW left \in Nat, left = turn.left, NEW time, OnCourse(c, a, time),
         NEW next, next = Advance(turn)
  PROVE  Takes(c, a, time, left, next)
<1>1. time \in Nat
  BY DEF OnCourse
<1>2. CASE left = 0 \/ a.finished
  <2>1. next = turn
    BY <1>2 DEF Advance
  <2>2. Moved(a, a)
    BY DEF Moved
  <2>3. time + 0 = time /\ left - 0 = left /\ 0 \in 0..left
    BY <1>1
  <2> QED  BY <1>2, <2>1, <2>2, <2>3 DEF Takes
<1>3. CASE left # 0 /\ ~a.finished
  <2>1. PICK k, q : Shows(c, a, time, k, q)
    BY <1>3 DEF OnCourse, Ended
  <2>2. PICK e \in Nat, w \in Nat \ {0}, from \in Nat, t \in Nat, whole \in Nat :
          /\ e = a.frame_elapsed_ms /\ w = c.w[k] /\ from = c.from[k] /\ t = c.t /\ whole = q * c.t
          /\ e < w /\ time = whole + (from + e) /\ c.from[k + 1] = from + w
    <3>1. k \in 1..c.m /\ q \in Nat /\ a.frame_elapsed_ms \in 0..c.w[k] - 1
          /\ time = q * c.t + (c.from[k] + a.frame_elapsed_ms)
      BY <2>1 DEF Shows, Faces
    <3>2. /\ c.w[k] \in Nat \ {0} /\ c.from[k] \in Nat /\ c.t \in Nat
          /\ c.from[k + 1] = c.from[k] + c.w[k] /\ c.m \in Nat
      BY <3>1 DEF Course, Timed, Laid
    <3>3. q * c.t \in Nat
      BY <3>1, <3>2
    <3>4. PICK e \in Nat, w \in Nat \ {0}, from \in Nat, t \in Nat, whole \in Nat :
            /\ e = a.frame_elapsed_ms /\ w = c.w[k] /\ from = c.from[k] /\ t = c.t
            /\ whole = q * c.t
      <4>1. a.frame_elapsed_ms \in Nat
        BY <3>1, <3>2
      <4> QED  BY <3>2, <3>3, <4>1
    <3>5. e < w
      BY <3>1, <3>4
    <3> QED  BY <3>1, <3>2, <3>4, <3>5, Zenon
  <2>3. a.frames[a.frame_index + 1] = w
    <3>1. k \in 1..c.m /\ a.frame_index = c.cycle[k].index
      BY <2>1 DEF Shows, Faces
    <3>2. c.w[k] = a.frames[c.cycle[k].index + 1]
      BY <3>1 DEF Course, Laid
    <3> QED  BY <2>2, <3>1, <3>2
  <2>4. next = IF left < w - e
               THEN [animation |-> [a EXCEPT !.frame_elapsed_ms = e + left], left |-> 0]
               ELSE [animation |-> NextFrame(a), left |-> left - (w - e)]
    <3>1. next = IF left < a.frames[a.frame_index + 1] - a.frame_elapsed_ms
                 THEN [animation |-> [a EXCEPT !.frame_elapsed_ms = @ + left], left |-> 0]
                 ELSE [animation |-> NextFrame(a),
                       left |-> left - (a.frames[a.frame_index + 1] - a.frame_elapsed_ms)]
      BY <1>3, Zenon DEF Advance
    <3> QED  BY <2>2, <2>3, <3>1, Zenon
  <2>5. CASE left < w - e
    <3>1. PICK b : b = [a EXCEPT !.frame_elapsed_ms = e + left]
      OBVIOUS
    <3>2. next.animation = b /\ next.left = 0
      BY <2>4, <2>5, <3>1
    <3>3. e + left \in Nat
      OBVIOUS
    <3>4. Moved(a, b)
      BY <3>1, <3>3 DEF Moved, Animations
    <3>5. b.frame_elapsed_ms = e + left /\ b.finished = a.finished /\ b.mode = a.mode
          /\ b.frame_index = a.frame_index /\ b.direction = a.direction
      BY <3>1 DEF Animations
    <3>6. Shows(c, b, time + left, k, q)
      <4>1. Faces(c, b, k, q)
        BY <2>1, <3>5 DEF Shows, Faces
      <4>2. b.frame_elapsed_ms \in 0..c.w[k] - 1
        BY <2>2, <2>5, <3>5
      <4>3. time + left = q * c.t + (c.from[k] + b.frame_elapsed_ms)
        <5>1. time + left = whole + (from + (e + left))
          BY <2>2
        <5> QED  BY <2>2, <3>5, <5>1
      <4> QED  BY <4>1, <4>2, <4>3 DEF Shows
    <3>7. OnCourse(c, b, time + left)
      BY <1>1, <3>6 DEF OnCourse
    <3>8. left \in 0..left /\ left - left = 0
      OBVIOUS
    <3> QED  BY <1>3, <3>2, <3>4, <3>7, <3>8 DEF Takes
  <2>6. CASE ~(left < w - e)
    <3>1. PICK b : b = NextFrame(a)
      OBVIOUS
    <3>2. next.animation = b /\ next.left = left - (w - e)
      BY <2>4, <2>6, <3>1
    <3>3. PICK spent \in 0..left : spent = w - e /\ spent # 0
      BY <2>2, <2>6
    <3>4. time + spent = whole + (from + w)
      BY <2>2, <3>3
    <3>5. time + spent = q * c.t + c.from[k + 1]
      BY <2>2, <3>4
    <3>6. Faces(c, a, k, q)
      BY <2>1 DEF Shows
    <3>7. PICK then : then = time + spent
      OBVIOUS
    <3>8. Moved(a, b) /\ OnCourse(c, b, then)
      BY <3>1, <3>5, <3>6, <3>7, NextFrameFollows
    <3> QED  BY <3>2, <3>3, <3>7, <3>8 DEF Takes
  <2> QED  BY <2>5, <2>6
<1> QED  BY <1>2, <1>3

\* The turns of the loop.
IsPlaying(turn, first, most) ==
  turn = [n \in 0..most |-> IF n = 0 THEN first ELSE Advance(turn[n - 1])]

LEMMA PlayingExists ==
  ASSUME NEW first, NEW most \in Nat
  PROVE  \E turn : IsPlaying(turn, first, most)
<1> DEFINE K == {k \in Nat : \E turn : IsPlaying(turn, first, k)}
<1>1. 0 \in K
  <2>1. IsPlaying([n \in 0..0 |-> first], first, 0)
    BY DEF IsPlaying
  <2> QED  BY <2>1
<1>2. ASSUME NEW k \in Nat, k \in K  PROVE k + 1 \in K
  <2>1. PICK turn : IsPlaying(turn, first, k)
    BY <1>2
  <2> DEFINE more == [n \in 0..k + 1 |-> IF n = k + 1 THEN Advance(turn[k]) ELSE turn[n]]
  <2>2. \A n \in 0..k : turn[n] = IF n = 0 THEN first ELSE Advance(turn[n - 1])
    BY <2>1, Zenon DEF IsPlaying
  <2>3. ASSUME NEW n \in 0..k + 1
        PROVE  more[n] = IF n = 0 THEN first ELSE Advance(more[n - 1])
    <3>1. CASE n = 0
      BY <2>2, <3>1
    <3>2. CASE n = k + 1
      <4>1. more[n] = Advance(turn[k]) /\ more[n - 1] = turn[k] /\ n # 0
        BY <3>2
      <4> HIDE DEF more
      <4> QED  BY <4>1
    <3>3. CASE n \in 1..k
      <4>1. more[n] = turn[n] /\ more[n - 1] = turn[n - 1] /\ n \in 0..k /\ n # 0
        BY <3>3
      <4> HIDE DEF more
      <4> QED  BY <4>1, <2>2
    <3> QED  BY <3>1, <3>2, <3>3
  <2>4. IsPlaying(more, first, k + 1)
    <3>1. more = [n \in 0..k + 1 |-> more[n]]
      OBVIOUS
    <3> HIDE DEF more
    <3> QED  BY <2>3, <3>1, Zenon DEF IsPlaying
  <2> HIDE DEF more
  <2> QED  BY <2>4
<1>3. \A k \in Nat : k \in K
  <2> HIDE DEF K
  <2> QED  BY <1>1, <1>2, Induction
<1> QED  BY <1>3

\* An animation that plays for a while is where it is to be after it.
LEMMA AdvancedFollows ==
  ASSUME NEW c, NEW a \in Animations, Course(c, a.frames, a.mode), NEW time, OnCourse(c, a, time),
         NEW delta \in Nat, NEW b, b = Advanced(a, delta)
  PROVE  Moved(a, b) /\ OnCourse(c, b, time + delta)
<1>1. PICK first : first = [animation |-> a, left |-> delta]
  OBVIOUS
<1>2. PICK turn : IsPlaying(turn, first, delta) /\ b = turn[delta].animation
  <2>1. \E turn : IsPlaying(turn, first, delta)
    BY PlayingExists
  <2>2. b = (CHOOSE turn : IsPlaying(turn, first, delta))[delta].animation
    BY <1>1 DEF Advanced, IsPlaying
  <2> QED  BY <2>1, <2>2, Zenon
<1>3. \A n \in 0..delta : turn[n] = IF n = 0 THEN first ELSE Advance(turn[n - 1])
  BY <1>2, Zenon DEF IsPlaying
<1>4. time \in Nat
  BY DEF OnCourse
<1> DEFINE Played(n) == \E spent \in 0..delta :
                          /\ Moved(a, turn[n].animation)
                          /\ OnCourse(c, turn[n].animation, time + spent)
                          /\ turn[n].left = delta - spent
                          /\ spent < n => turn[n].animation.finished
           K == {n \in Nat : n \in 0..delta => Played(n)}
<1>5. 0 \in K
  <2>1. turn[0] = first
    BY <1>3
  <2>2. Moved(a, a) /\ time + 0 = time /\ delta - 0 = delta /\ 0 \in 0..delta
    BY <1>4 DEF Moved
  <2>3. first.animation = a /\ first.left = delta
    BY <1>1
  <2>4. Played(0)
    BY <2>1, <2>2, <2>3
  <2> HIDE DEF Played
  <2> QED  BY <2>4
<1>6. ASSUME NEW n \in Nat, n \in K  PROVE n + 1 \in K
  <2>1. SUFFICES ASSUME n + 1 \in 0..delta  PROVE Played(n + 1)
    OBVIOUS
  <2>2. n \in 0..delta
    BY <2>1
  <2>3. PICK spent \in 0..delta :
          /\ Moved(a, turn[n].animation) /\ OnCourse(c, turn[n].animation, time + spent)
          /\ turn[n].left = delta - spent /\ (spent < n => turn[n].animation.finished)
    BY <1>6, <2>2
  <2>4. PICK here, then : here = turn[n] /\ then = turn[n + 1]
    OBVIOUS
  <2>5. then = Advance(here)
    <3>1. PICK j \in 0..delta : j = n + 1 /\ j # 0 /\ j - 1 = n
      BY <2>1
    <3> QED  BY <1>3, <2>4, <3>1
  <2>6. PICK d \in Animations, left \in 0..delta, since \in Nat :
          d = here.animation /\ left = here.left /\ since = time + spent /\ left = delta - spent
    <3>1. here.animation \in Animations
      BY <2>3, <2>4 DEF Moved
    <3>2. delta - spent \in 0..delta /\ time + spent \in Nat
      BY <1>4
    <3> QED  BY <2>3, <2>4, <3>1, <3>2
  <2>7. Takes(c, d, since, left, then)
    <3>1. Course(c, d.frames, d.mode) /\ OnCourse(c, d, since) /\ left \in Nat
      BY <2>3, <2>4, <2>6 DEF Moved
    <3> QED  BY <2>5, <2>6, <3>1, AdvanceTakes
  <2>8. PICK more \in 0..left :
          /\ Moved(d, then.animation) /\ OnCourse(c, then.animation, since + more)
          /\ then.left = left - more /\ (left # 0 /\ ~d.finished => more # 0)
    BY <2>7 DEF Takes
  <2>9. PICK all \in 0..delta : all = spent + more /\ since + more = time + all /\ left - more = delta - all
    BY <1>4, <2>6
  <2>10. Moved(a, then.animation)
    BY <2>3, <2>4, <2>6, <2>8 DEF Moved
  <2>11. all < n + 1 => then.animation.finished
    <3>1. SUFFICES ASSUME all < n + 1, ~then.animation.finished  PROVE FALSE
      OBVIOUS
    <3>2. more = 0 \/ more # 0
      OBVIOUS
    <3>3. ~d.finished => more # 0
      <4>1. SUFFICES ASSUME ~d.finished, more = 0  PROVE FALSE
        OBVIOUS
      <4>2. left = 0
        BY <2>8, <4>1
      <4>3. spent = delta
        BY <2>6, <4>2
      <4>4. all = delta
        BY <2>9, <4>1, <4>3
      <4> QED  BY <2>1, <3>1, <4>4
    <3>4. ~d.finished => spent >= n
      BY <2>3, <2>4, <2>6
    <3>5. d.finished
      BY <2>9, <3>1, <3>3, <3>4
    <3>6. then = here
      BY <2>4, <2>5, <2>6, <3>5 DEF Advance
    <3> QED  BY <2>6, <3>1, <3>5, <3>6
  <2> HIDE DEF K
  <2> QED  BY <2>4, <2>8, <2>9, <2>10, <2>11
<1>7. \A n \in Nat : n \in K
  <2> HIDE DEF K
  <2> QED  BY <1>5, <1>6, Induction
<1>8. Played(delta)
  BY <1>7
<1>9. PICK spent \in 0..delta :
        Moved(a, b) /\ OnCourse(c, b, time + spent) /\ (spent < delta => b.finished)
  BY <1>2, <1>8
<1>10. CASE spent = delta
  BY <1>9, <1>10
<1>11. CASE spent < delta
  <2>1. PICK early \in Nat, late \in Nat : early = time + spent /\ late = time + delta /\ early <= late
    BY <1>4
  <2>2. Ended(c, b, early)
    BY <1>9, <1>11, <2>1 DEF OnCourse, Shows, Faces
  <2>3. c.t \in Nat
    BY DEF Course
  <2>4. Ended(c, b, late)
    BY <2>1, <2>2, <2>3 DEF Ended
  <2> QED  BY <1>9, <2>1, <2>4 DEF OnCourse
<1> QED  BY <1>10, <1>11

(* The calls.                                                                *)

Playing(a, time) ==
  /\ a \in Animations /\ Playable(a.frames)
  /\ a.cycle_duration_ms = CycleDuration(a.frames, a.mode)
  /\ OnCourse(CourseOf(a.frames, a.mode), a, time)

\* An animation that was initialized is where the time it has run for says.
AnimationInv == played \in Nat /\ (animation = NoAnimation \/ Playing(animation, played))

\* The beginning of the first cycle.
LEMMA FirstFrame ==
  ASSUME NEW a \in Animations, Playable(a.frames), a.cycle_duration_ms = CycleDuration(a.frames, a.mode),
         a.frame_index = 0, a.frame_elapsed_ms = 0, a.direction = 1, ~a.finished
  PROVE  Playing(a, 0)
<1>1. PICK c : c = CourseOf(a.frames, a.mode)
  OBVIOUS
<1>2. a.mode \in Modes
  BY DEF Animations
<1>3. Course(c, a.frames, a.mode)
  BY <1>1, <1>2, CourseOfList
<1>4. c.cycle[1].index = 0 /\ c.cycle[1].direction = 1 /\ 1 \in 1..c.m
  <2>1. c.m \in Nat \ {0}
    BY <1>3 DEF Course, Laid
  <2>2. CASE Straight(a.mode, c.n)
    BY <1>3, <2>1, <2>2, StraightOn
  <2>3. CASE ~Straight(a.mode, c.n)
    <3>1. c.n \in Nat /\ c.n >= 2 /\ \A k \in 1..c.n - 1 : c.cycle[k].index = k - 1 /\ c.cycle[k].direction = 1
      BY <1>3, <2>3, ToAndFro
    <3> QED  BY <2>1, <3>1
  <2> QED  BY <2>2, <2>3
<1>5. PICK k, q : k = 1 /\ q = 0
  OBVIOUS
<1>6. Faces(c, a, k, q)
  BY <1>4, <1>5 DEF Faces
<1>7. 0 = q * c.t + c.from[k]
  BY <1>3, <1>5 DEF Course, Timed
<1>8. OnCourse(c, a, 0)
  BY <1>3, <1>6, <1>7, FrameStarts
<1> QED  BY <1>1, <1>8 DEF Playing

LEMMA FrameListsHold ==
  ASSUME AnimationConstants, NEW list \in FrameLists
  PROVE  Len(list) \in Nat /\ DOMAIN list = 1..Len(list) /\ TimeMax \in Nat
         /\ \A i \in 1..Len(list) : list[i] \in Nat
<1>1. list \in Seq(0..TimeMax) /\ TimeMax \in Nat
  BY DEF AnimationConstants
<1> QED  BY <1>1

LEMMA InitPlays ==
  ASSUME AnimationConstants, AnimationInv, NEW list \in FrameLists, NEW mode \in Modes,
         AnimationInit(list, mode)
  PROVE  AnimationInv'
<1>1. CASE UNCHANGED <<animation, played>>
  BY <1>1 DEF AnimationInv
<1>2. CASE ~UNCHANGED <<animation, played>>
  <2>1. /\ list # <<>> /\ ~\E i \in DOMAIN list : list[i] = 0 /\ Begins(list)[i] <= TimeMax
        /\ ~(CycleDuration(list, mode) > TimeMax) /\ played' = 0
        /\ animation' = [NoAnimation EXCEPT !.frames = list, !.mode = mode, !.direction = 1,
                           !.cycle_duration_ms = CycleDuration(list, mode), !.initialized = TRUE]
    BY <1>2 DEF AnimationInit
  <2>2. PICK n \in Nat : n = Len(list) /\ DOMAIN list = 1..n
    BY FrameListsHold
  <2>3. n # 0
    BY <2>1, <2>2, FrameListsHold DEF AnimationConstants
  <2>4. PICK all, t : all = Begins(list) /\ t = CycleDuration(list, mode)
    OBVIOUS
  <2>5. Timed(all, list, n) /\ \A i \in 1..n : list[i] \in Nat
    BY <2>2, <2>4, FrameListsHold, BeginsTimed
  <2>6. t \in Int
    <3>1. all[n + 1] \in Nat
      BY <2>5 DEF Timed
    <3>2. n > 2 => list[1] \in Nat /\ list[n] \in Nat
      BY <2>5
    <3> QED  BY <2>2, <2>4, <3>1, <3>2 DEF CycleDuration
  <2>7. TimeMax \in Nat
    BY DEF AnimationConstants
  <2>8. t <= TimeMax
    BY <2>1, <2>4, <2>6, <2>7
  <2>9. \A i \in 1..n : list[i] > 0
    <3>1. \A i \in 1..n : ~(list[i] = 0 /\ all[i] <= TimeMax)
      BY <2>1, <2>2, <2>4
    <3>2. n \in Nat \ {0} /\ Len(list) = n
      BY <2>2, <2>3
    <3> QED  BY <2>4, <2>5, <2>7, <2>8, <3>1, <3>2, NoFrameIsEmpty
  <2>10. Playable(list)
    BY <2>2, <2>3, <2>5, <2>9 DEF Playable
  <2>11. t \in Nat
    <3>1. Course(CourseOf(list, mode), list, mode)
      BY <2>10, CourseOfList
    <3>2. CourseOf(list, mode).t = t
      BY <2>4 DEF CourseOf
    <3> QED  BY <3>1, <3>2 DEF Course
  <2>12. PICK a : a = animation'
    OBVIOUS
  <2>13. a = [frames |-> list, frame_index |-> 0, frame_elapsed_ms |-> 0, cycle_duration_ms |-> t,
              mode |-> mode, direction |-> 1, paused |-> FALSE, finished |-> FALSE,
              initialized |-> TRUE]
    BY <2>1, <2>4, <2>12 DEF NoAnimation
  <2>14. a \in Animations
    BY <2>11, <2>13 DEF Animations
  <2>15. /\ a.frames = list /\ a.mode = mode /\ a.frame_index = 0 /\ a.frame_elapsed_ms = 0
         /\ a.direction = 1 /\ ~a.finished /\ a.cycle_duration_ms = CycleDuration(list, mode)
    BY <2>4, <2>13
  <2>16. Playing(a, 0)
    BY <2>10, <2>14, <2>15, FirstFrame
  <2> QED  BY <2>1, <2>12, <2>16 DEF AnimationInv
<1> QED  BY <1>1, <1>2

LEMMA RestartPlays ==
  ASSUME AnimationInv, AnimationRestart  PROVE AnimationInv'
<1>1. CASE ~AnimationReady
  BY <1>1 DEF AnimationRestart, Refused, AnimationInv
<1>2. CASE AnimationReady
  <2>1. PICK a, b : a = animation /\ b = animation'
    OBVIOUS
  <2>2. Playing(a, played)
    BY <1>2, <2>1 DEF AnimationInv, AnimationReady, NoAnimation
  <2>3. played' = 0 /\ b = [a EXCEPT !.frame_index = 0, !.frame_elapsed_ms = 0,
                              !.direction = 1, !.paused = FALSE, !.finished = FALSE]
    BY <1>2, <2>1 DEF AnimationRestart
  <2>4. a \in Animations
    BY <2>2 DEF Playing
  <2>5. b \in Animations
    BY <2>3, <2>4 DEF Animations
  <2>6. /\ b.frames = a.frames /\ b.mode = a.mode /\ b.frame_index = 0 /\ b.frame_elapsed_ms = 0
        /\ b.direction = 1 /\ ~b.finished /\ b.cycle_duration_ms = a.cycle_duration_ms
    BY <2>3, <2>4 DEF Animations
  <2>7. Playing(b, 0)
    BY <2>2, <2>5, <2>6, FirstFrame DEF Playing
  <2> QED  BY <2>1, <2>3, <2>7 DEF AnimationInv
<1> QED  BY <1>1, <1>2

LEMMA PausePlays ==
  ASSUME AnimationInv, NEW paused \in BOOLEAN, AnimationPause(paused)  PROVE AnimationInv'
<1>1. CASE ~AnimationReady
  BY <1>1 DEF AnimationPause, Refused, AnimationInv
<1>2. CASE AnimationReady
  <2>1. PICK a, b : a = animation /\ b = animation'
    OBVIOUS
  <2>2. Playing(a, played)
    BY <1>2, <2>1 DEF AnimationInv, AnimationReady, NoAnimation
  <2>3. played' = played /\ b = [a EXCEPT !.paused = paused]
    BY <1>2, <2>1 DEF AnimationPause
  <2>4. a \in Animations
    BY <2>2 DEF Playing
  <2>5. b \in Animations
    BY <2>3, <2>4 DEF Animations
  <2>6. /\ b.frames = a.frames /\ b.mode = a.mode /\ b.frame_index = a.frame_index
        /\ b.frame_elapsed_ms = a.frame_elapsed_ms /\ b.direction = a.direction
        /\ b.finished = a.finished /\ b.cycle_duration_ms = a.cycle_duration_ms
    BY <2>3, <2>4 DEF Animations
  <2>7. PICK c : c = CourseOf(a.frames, a.mode)
    OBVIOUS
  <2>8. OnCourse(c, a, played)
    BY <2>2, <2>7 DEF Playing
  <2>9. OnCourse(c, b, played)
    BY <2>6, <2>8 DEF OnCourse, Ended, Shows, Faces
  <2>10. Playing(b, played)
    BY <2>2, <2>5, <2>6, <2>7, <2>9 DEF Playing
  <2> QED  BY <2>1, <2>3, <2>10 DEF AnimationInv
<1> QED  BY <1>1, <1>2

\* What stays true of an animation that has played for longer.
LEMMA EndedStays ==
  ASSUME NEW c, NEW a, NEW time, NEW delta \in Nat, OnCourse(c, a, time), c.t \in Nat,
         a.finished \/ delta = 0
  PROVE  OnCourse(c, a, time + delta)
<1>1. time \in Nat /\ time + delta \in Nat
  BY DEF OnCourse
<1>2. CASE delta = 0
  <2>1. time + delta = time
    BY <1>1, <1>2
  <2> QED  BY <2>1
<1>3. CASE a.finished
  <2>1. Ended(c, a, time)
    BY <1>3 DEF OnCourse, Shows, Faces
  <2>2. Ended(c, a, time + delta)
    BY <1>1, <2>1 DEF Ended
  <2> QED  BY <1>1, <2>2 DEF OnCourse
<1> QED  BY <1>2, <1>3

\* Whole cycles make no difference to an animation that repeats.
LEMMA CyclesRepeat ==
  ASSUME NEW c, NEW a, NEW time \in Nat, NEW times \in Nat, NEW part \in Nat,
         OnCourse(c, a, time + part), c.t \in Nat, c.m \in Nat, a.mode # "once",
         \A k \in 1..c.m : c.from[k] \in Nat /\ c.w[k] \in Nat
  PROVE  OnCourse(c, a, time + (times * c.t + part))
<1>1. PICK k, q : Shows(c, a, time + part, k, q)
  BY DEF OnCourse, Ended
<1>2. PICK from \in Nat, e \in Nat, t \in Nat : from = c.from[k] /\ e = a.frame_elapsed_ms /\ t = c.t
  <2>1. k \in 1..c.m /\ a.frame_elapsed_ms \in 0..c.w[k] - 1
    BY <1>1 DEF Shows, Faces
  <2>2. c.from[k] \in Nat /\ c.w[k] \in Nat
    BY <2>1
  <2> QED  BY <2>1, <2>2
<1>3. q \in Nat /\ time + part = q * t + (from + e)
  BY <1>1, <1>2 DEF Shows, Faces
<1>4. q * t \in Nat /\ times * t \in Nat /\ (q + times) * t = q * t + times * t /\ q + times \in Nat
  BY <1>3
<1>5. time + (times * t + part) = (q + times) * t + (from + e)
  BY <1>3, <1>4
<1>6. PICK later \in Nat, then \in Nat : later = q + times /\ then = time + (times * t + part)
  BY <1>4
<1>7. Shows(c, a, then, k, later)
  BY <1>1, <1>2, <1>5, <1>6 DEF Shows, Faces
<1> QED  BY <1>2, <1>6, <1>7 DEF OnCourse

LEMMA UpdatePlays ==
  ASSUME AnimationConstants, AnimationInv, NEW delta \in 0..TimeMax, AnimationUpdate(delta)
  PROVE  AnimationInv'
<1>1. CASE UNCHANGED <<animation, played>>
  BY <1>1 DEF AnimationInv
<1>2. CASE AnimationReady /\ ~animation.paused
  <2>1. PICK a, b : a = animation /\ b = animation'
    OBVIOUS
  <2>2. Playing(a, played) /\ played \in Nat /\ a \in Animations
    BY <1>2, <2>1 DEF AnimationInv, AnimationReady, NoAnimation, Playing
  <2>3. delta \in Nat
    BY DEF AnimationConstants
  <2>4. PICK c : c = CourseOf(a.frames, a.mode)
    OBVIOUS
  <2>5. Course(c, a.frames, a.mode) /\ OnCourse(c, a, played)
    BY <2>2, <2>4, CourseOfList DEF Playing, Animations
  <2>6. c.t \in Nat \ {0} /\ a.cycle_duration_ms = c.t
    BY <2>2, <2>4, <2>5 DEF Course, CourseOf, Playing
  <2>7. /\ played' = played + delta
        /\ b = IF a.finished \/ delta = 0 THEN a
               ELSE Advanced(a, IF a.mode = "once" THEN delta ELSE delta % a.cycle_duration_ms)
    BY <1>2, <2>1 DEF AnimationUpdate
  <2>8. Moved(a, b) /\ OnCourse(c, b, played + delta)
    <3>1. CASE a.finished \/ delta = 0
      <4>1. b = a
        BY <2>7, <3>1
      <4>2. OnCourse(c, a, played + delta)
        BY <2>3, <2>5, <2>6, <3>1, EndedStays
      <4> QED  BY <2>2, <4>1, <4>2 DEF Moved
    <3>2. CASE ~(a.finished \/ delta = 0) /\ a.mode = "once"
      <4>1. b = Advanced(a, delta)
        BY <2>7, <3>2
      <4> QED  BY <2>2, <2>3, <2>5, <4>1, AdvancedFollows
    <3>3. CASE ~(a.finished \/ delta = 0) /\ a.mode # "once"
      <4>1. PICK times \in Nat, part \in 0..c.t - 1 : delta = times * c.t + part /\ part = delta % c.t
        BY <2>3, <2>6, WholeCycles
      <4>2. b = Advanced(a, part)
        BY <2>6, <2>7, <3>3, <4>1
      <4>3. part \in Nat
        BY <2>6
      <4>4. Moved(a, b) /\ OnCourse(c, b, played + part)
        BY <2>2, <2>5, <4>2, <4>3, AdvancedFollows
      <4>5. b.mode # "once"
        BY <3>3, <4>4 DEF Moved
      <4>6. c.m \in Nat /\ \A k \in 1..c.m : c.from[k] \in Nat /\ c.w[k] \in Nat
        <5>1. c.m \in Nat /\ \A k \in 1..c.m : c.w[k] \in Nat \ {0}
          BY <2>5 DEF Course, Laid
        <5>2. \A k \in 1..c.m + 1 : c.from[k] \in Nat
          BY <2>5 DEF Course, Timed
        <5> QED  BY <5>1, <5>2
      <4>7. OnCourse(c, b, played + (times * c.t + part))
        BY <2>2, <2>6, <4>3, <4>4, <4>5, <4>6, CyclesRepeat
      <4> QED  BY <4>1, <4>4, <4>7
    <3> QED  BY <3>1, <3>2, <3>3
  <2>9. Playing(b, played + delta)
    BY <2>2, <2>4, <2>8 DEF Moved, Playing
  <2>10. played + delta \in Nat
    BY <2>2, <2>3
  <2> QED  BY <2>1, <2>7, <2>9, <2>10 DEF AnimationInv
<1>3. UNCHANGED <<animation, played>> \/ (AnimationReady /\ ~animation.paused)
  BY DEF AnimationUpdate, Refused
<1> QED  BY <1>1, <1>2, <1>3

\* Where the course has an animation is where AnimationFollowsClock wants it.
LEMMA OnCourseFollowsClock == AnimationInv => AnimationFollowsClock
<1>1. SUFFICES ASSUME AnimationInv, animation.initialized  PROVE AnimationFollowsClock
  BY DEF AnimationFollowsClock
<1>2. PICK a, list, mode : a = animation /\ list = a.frames /\ mode = a.mode
  OBVIOUS
<1>3. Playing(a, played) /\ played \in Nat
  BY <1>1, <1>2 DEF AnimationInv, NoAnimation
<1>4. PICK c : c = CourseOf(list, mode)
  OBVIOUS
<1>5. Course(c, list, mode) /\ OnCourse(c, a, played)
  BY <1>2, <1>3, <1>4, CourseOfList DEF Playing, Animations
<1>6. PICK cycle, from, w : /\ cycle = Cycle(list, mode) /\ from = Begins(Shown(list, mode))
                            /\ w = c.w /\ cycle = c.cycle /\ from = c.from
  BY <1>4 DEF CourseOf
<1>7. PICK n \in Nat \ {0}, m \in Nat \ {0}, t \in Nat \ {0} :
        n = c.n /\ n = Len(list) /\ m = c.m /\ m = Len(cycle) /\ DOMAIN cycle = 1..m
        /\ t = c.t /\ t = from[m + 1]
  BY <1>5, <1>6 DEF Course, Laid
<1>8. CASE a.finished
  <2>1. Ended(c, a, played)
    BY <1>5, <1>8 DEF OnCourse, Shows, Faces
  <2>2. /\ a.mode = "once" /\ played >= from[Len(cycle) + 1]
        /\ a.frame_index = Len(list) - 1 /\ a.frame_elapsed_ms = list[Len(list)]
    BY <1>2, <1>7, <2>1 DEF Ended
  <2> QED  BY <1>2, <1>6, <1>8, <2>2, Zenon DEF AnimationFollowsClock
<1>9. CASE ~a.finished
  <2>1. PICK k, q : Shows(c, a, played, k, q)
    BY <1>5, <1>9 DEF OnCourse, Ended
  <2>2. Timed(from, w, m) /\ \A i \in 1..m : w[i] \in Nat \ {0}
    BY <1>5, <1>6, <1>7 DEF Course
  <2>3. /\ k \in 1..m /\ q \in Nat /\ (a.mode = "once" => q = 0)
        /\ a.frame_index = cycle[k].index /\ a.direction = cycle[k].direction
        /\ a.frame_elapsed_ms \in 0..w[k] - 1
        /\ played = q * t + (from[k] + a.frame_elapsed_ms)
    BY <1>6, <1>7, <2>1 DEF Shows, Faces
  <2>4. PICK e \in Nat, b \in Nat : e = a.frame_elapsed_ms /\ b = from[k] /\ from[k + 1] \in Nat
                                    /\ b + e < from[k + 1]
    BY <2>2, <2>3 DEF Timed
  <2>5. \A i \in 1..m : w[i] \in Nat
    BY <2>2
  <2>6. from[k + 1] <= t
    BY <1>7, <2>2, <2>3, <2>5, TimedOrder, SMTT(60)
  <2>7. PICK r \in 0..t - 1 : r = b + e
    BY <2>4, <2>6
  <2>8. played % t = r /\ played = q * t + r
    <3>1. played = q * t + r
      BY <2>3, <2>4, <2>7
    <3> QED  BY <2>3, <3>1, PartOfCycle
  <2>9. \A i \in 1..m : r \in from[i]..from[i + 1] - 1 <=> i = k
    <3>1. r \in from[k]..from[k + 1] - 1
      BY <2>4, <2>7
    <3>2. ASSUME NEW i \in 1..m, r \in from[i]..from[i + 1] - 1  PROVE i = k
      <4>1. from[i] \in Nat /\ from[i + 1] \in Nat
        BY <2>2 DEF Timed
      <4>2. ~(i < k)
        <5>1. i < k => from[i + 1] <= from[k]
          BY <2>2, <2>3, <2>5, TimedOrder
        <5> QED  BY <2>4, <2>7, <3>2, <4>1, <5>1
      <4>3. ~(k < i)
        <5>1. k < i => from[k + 1] <= from[i]
          BY <2>2, <2>3, <2>5, TimedOrder
        <5> QED  BY <2>4, <2>7, <3>2, <4>1, <5>1
      <4> QED  BY <2>3, <4>2, <4>3
    <3> QED  BY <3>1, <3>2
  <2>10. (CHOOSE i \in DOMAIN cycle : played % from[Len(cycle) + 1] \in from[i]..from[i + 1] - 1) = k
    <3>1. \A i \in DOMAIN cycle : played % from[Len(cycle) + 1] \in from[i]..from[i + 1] - 1 <=> i = k
      BY <1>7, <2>8, <2>9
    <3>2. k \in DOMAIN cycle
      BY <1>7, <2>3
    <3> QED  BY <3>1, <3>2
  <2>11. ~(a.mode = "once" /\ played >= from[Len(cycle) + 1])
    <3>1. q = 0 => played < t
      BY <2>8
    <3> QED  BY <1>3, <1>7, <2>3, <3>1
  <2>12. a.frame_elapsed_ms = (played % from[Len(cycle) + 1]) - from[k]
    BY <1>7, <2>4, <2>7, <2>8, SMTT(60)
  <2> QED  BY <1>2, <1>6, <1>9, <2>3, <2>10, <2>11, <2>12, Zenon DEF AnimationFollowsClock
<1> QED  BY <1>8, <1>9, SMTT(60)

\* Updates of any size, pauses and restarts on the way: an animation shows what the time
\* it has run for says.
THEOREM AnimationsFollowTheClock == AnimationSpec => []AnimationFollowsClock
<1>1. AnimationStart => AnimationInv
  BY DEF AnimationStart, AnimationInv
<1>2. AnimationConstants /\ AnimationInv /\ [AnimationNext]_animationVars => AnimationInv'
  <2>1. SUFFICES ASSUME AnimationConstants, AnimationInv, [AnimationNext]_animationVars
                 PROVE  AnimationInv'
    OBVIOUS
  <2>2. CASE AnimationDispose
    BY <2>2 DEF AnimationDispose, AnimationInv
  <2>3. CASE UNCHANGED animationVars
    BY <2>1, <2>3 DEF animationVars, AnimationInv
  <2> QED  BY <2>1, <2>2, <2>3, InitPlays, RestartPlays, PausePlays, UpdatePlays DEF AnimationNext
<1> QED  BY <1>1, <1>2, OnCourseFollowsClock, AnimationConstants, PTL DEF AnimationSpec

(* Curves: products of larger numbers are larger.                            *)

LEMMA Products ==
  ASSUME NEW a \in Nat, NEW b \in Nat, NEW x \in Nat, NEW y \in Nat, a <= b, x <= y
  PROVE  a * x \in Nat /\ b * y \in Nat /\ a * x <= b * y
<1>1. PICK k \in Nat, l \in Nat : b = a + k /\ y = x + l
  <2>1. b - a \in Nat /\ y - x \in Nat /\ b = a + (b - a) /\ y = x + (y - x)
    OBVIOUS
  <2> QED  BY <2>1
<1>2. b * y = a * x + a * l + k * x + k * l
  BY <1>1
<1>3. a * x \in Nat /\ a * l \in Nat /\ k * x \in Nat /\ k * l \in Nat
  OBVIOUS
<1> QED  BY <1>2, <1>3

LEMMA Powers ==
  ASSUME NEW a \in Nat, NEW b \in Nat, a <= b
  PROVE  /\ a * a \in Nat /\ b * b \in Nat /\ a * a <= b * b
         /\ a * a * a \in Nat /\ b * b * b \in Nat /\ a * a * a <= b * b * b
<1>1. PICK x, y : x = a * a /\ y = b * b
  OBVIOUS
<1>2. x \in Nat /\ y \in Nat /\ x <= y
  BY <1>1, Products
<1>3. x * a \in Nat /\ y * b \in Nat /\ x * a <= y * b
  BY <1>2, Products
<1> QED  BY <1>1, <1>2, <1>3

LEMMA EasedEnds ==
  ASSUME NEW easing \in Easings, NEW d \in Nat \ {0}
  PROVE  Eased(easing, 0, d) = 0 /\ Eased(easing, d, d) = d * d * d
<1>1. d - 0 = d /\ d - d = 0 /\ 2 * 0 < d /\ ~(2 * d < d)
  OBVIOUS
<1>2. CASE easing = "linear"
  BY <1>1, <1>2 DEF Eased
<1>3. CASE easing = "quadratic_in"
  BY <1>1, <1>3 DEF Eased
<1>4. CASE easing = "quadratic_out"
  BY <1>1, <1>4 DEF Eased
<1>5. CASE easing = "quadratic_in_out"
  BY <1>1, <1>5 DEF Eased
<1>6. CASE easing = "cubic_in"
  BY <1>1, <1>6 DEF Eased
<1>7. CASE easing = "cubic_out"
  BY <1>1, <1>7 DEF Eased
<1>8. CASE easing = "cubic_in_out"
  BY <1>1, <1>8 DEF Eased
<1> QED  BY <1>2, <1>3, <1>4, <1>5, <1>6, <1>7, <1>8 DEF Easings

\* Where the first half of a curve meets the second.
LEMMA HalvesMeet ==
  ASSUME NEW f \in Nat, NEW r \in Nat, NEW d \in Nat, 2 * f <= d, 2 * r <= d
  PROVE  /\ 2 * (f * f) + 2 * (r * r) <= d * d
         /\ 4 * (f * f * f) + 4 * (r * r * r) <= d * d * d
<1>1. PICK g \in Nat, s \in Nat : g = 2 * f /\ s = 2 * r /\ g <= d /\ s <= d
  OBVIOUS
<1>2. g * g <= d * d /\ s * s <= d * d /\ g * g * g <= d * d * d /\ s * s * s <= d * d * d
  BY <1>1, Powers
<1>3. g * g = 4 * (f * f) /\ s * s = 4 * (r * r)
  BY <1>1
<1>4. g * g * g = 8 * (f * f * f) /\ s * s * s = 8 * (r * r * r)
  BY <1>1
<1>5. PICK f2 \in Nat, f3 \in Nat, r2 \in Nat, r3 \in Nat, d2 \in Nat, d3 \in Nat :
        /\ f2 = f * f /\ f3 = f * f * f /\ r2 = r * r /\ r3 = r * r * r
        /\ d2 = d * d /\ d3 = d * d * d
  <2>1. f * f \in Nat /\ f * f * f \in Nat /\ r * r \in Nat /\ r * r * r \in Nat
        /\ d * d \in Nat /\ d * d * d \in Nat
    BY Powers
  <2> QED  BY <2>1
<1>6. 4 * f2 <= d2 /\ 4 * r2 <= d2 /\ 8 * f3 <= d3 /\ 8 * r3 <= d3
  BY <1>2, <1>3, <1>4, <1>5
<1>7. 2 * f2 + 2 * r2 <= d2 /\ 4 * f3 + 4 * r3 <= d3
  BY <1>6
<1> QED  BY <1>5, <1>7

\* Where a curve is at two steps that follow each other.
LEMMA EasedRises ==
  ASSUME NEW easing \in Easings, NEW d \in Nat \ {0}, NEW f \in 0..d - 1
  PROVE  /\ Eased(easing, f, d) \in Int /\ Eased(easing, f + 1, d) \in Int
         /\ Eased(easing, f, d) <= Eased(easing, f + 1, d)
<1>1. PICK e \in Nat, r \in Nat, u \in Nat :
        e = f + 1 /\ r = d - e /\ u = d - f /\ u = r + 1 /\ f \in Nat /\ f <= e /\ r <= u
  OBVIOUS
<1>2. /\ f * f \in Nat /\ e * e \in Nat /\ f * f <= e * e
      /\ f * f * f \in Nat /\ e * e * e \in Nat /\ f * f * f <= e * e * e
  BY <1>1, Powers
<1>3. /\ r * r \in Nat /\ u * u \in Nat /\ r * r <= u * u
      /\ r * r * r \in Nat /\ u * u * u \in Nat /\ r * r * r <= u * u * u
  BY <1>1, Powers
<1>4. PICK d2 \in Nat, d3 \in Nat : d2 = d * d /\ d3 = d * d * d /\ d3 = d2 * d
  <2>1. d * d \in Nat /\ d * d * d \in Nat
    BY Powers
  <2> QED  BY <2>1
<1>5. PICK f2 \in Nat, e2 \in Nat, r2 \in Nat, u2 \in Nat :
        f2 = f * f /\ e2 = e * e /\ r2 = r * r /\ u2 = u * u /\ f2 <= e2 /\ r2 <= u2
  BY <1>2, <1>3
<1>6. PICK f3 \in Nat, e3 \in Nat, r3 \in Nat, u3 \in Nat :
        f3 = f * f * f /\ e3 = e * e * e /\ r3 = r * r * r /\ u3 = u * u * u
        /\ f3 <= e3 /\ r3 <= u3
  BY <1>2, <1>3
<1>7. /\ f2 * d \in Nat /\ e2 * d \in Nat /\ f2 * d <= e2 * d
      /\ r2 * d \in Nat /\ u2 * d \in Nat /\ r2 * d <= u2 * d
  BY <1>5, Products
<1>8. CASE easing = "linear"
  <2>1. Eased(easing, f, d) = f * d * d /\ Eased(easing, e, d) = e * d * d
    BY <1>8 DEF Eased
  <2>2. f * d * d = f * d2 /\ e * d * d = e * d2
    BY <1>4
  <2>3. f * d2 \in Nat /\ e * d2 \in Nat /\ f * d2 <= e * d2
    BY <1>1, Products
  <2> QED  BY <1>1, <2>1, <2>2, <2>3
<1>9. CASE easing = "quadratic_in"
  <2>1. Eased(easing, f, d) = f2 * d /\ Eased(easing, e, d) = e2 * d
    BY <1>5, <1>9 DEF Eased
  <2> QED  BY <1>1, <1>7, <2>1
<1>10. CASE easing = "quadratic_out"
  <2>1. Eased(easing, f, d) = d3 - u2 * d /\ Eased(easing, e, d) = d3 - r2 * d
    BY <1>1, <1>4, <1>5, <1>10 DEF Eased
  <2> QED  BY <1>1, <1>7, <2>1
<1>11. CASE easing = "cubic_in"
  <2>1. Eased(easing, f, d) = f3 /\ Eased(easing, e, d) = e3
    BY <1>6, <1>11 DEF Eased
  <2> QED  BY <1>1, <1>6, <2>1
<1>12. CASE easing = "cubic_out"
  <2>1. Eased(easing, f, d) = d3 - u3 /\ Eased(easing, e, d) = d3 - r3
    BY <1>1, <1>4, <1>6, <1>12 DEF Eased
  <2> QED  BY <1>1, <1>6, <2>1
<1>13. ~(2 * e < d) => 2 * r <= d
  BY <1>1
<1>14. 2 * f < d /\ ~(2 * e < d) => 2 * f2 + 2 * r2 <= d2 /\ 4 * f3 + 4 * r3 <= d3
  <2>1. SUFFICES ASSUME 2 * f < d, ~(2 * e < d)
                 PROVE  2 * f2 + 2 * r2 <= d2 /\ 4 * f3 + 4 * r3 <= d3
    OBVIOUS
  <2>2. 2 * f <= d /\ 2 * r <= d
    BY <1>1, <1>13, <2>1
  <2> QED  BY <1>1, <1>4, <1>5, <1>6, <2>2, HalvesMeet
<1>15. 2 * e < d => 2 * f < d
  BY <1>1
<1>16. CASE easing = "quadratic_in_out"
  <2>1. /\ Eased(easing, f, d) = IF 2 * f < d THEN 2 * f * f * d ELSE d * d * d - 2 * u * u * d
        /\ Eased(easing, e, d) = IF 2 * e < d THEN 2 * e * e * d ELSE d * d * d - 2 * r * r * d
    BY <1>1, <1>16 DEF Eased
  <2>2. /\ 2 * f * f * d = 2 * (f2 * d) /\ 2 * u * u * d = 2 * (u2 * d)
        /\ 2 * e * e * d = 2 * (e2 * d) /\ 2 * r * r * d = 2 * (r2 * d)
    BY <1>1, <1>5
  <2>3. PICK fd \in Nat, ed \in Nat, rd \in Nat, ud \in Nat :
          fd = f2 * d /\ ed = e2 * d /\ rd = r2 * d /\ ud = u2 * d /\ fd <= ed /\ rd <= ud
    BY <1>7
  <2>4. /\ Eased(easing, f, d) = IF 2 * f < d THEN 2 * fd ELSE d3 - 2 * ud
        /\ Eased(easing, e, d) = IF 2 * e < d THEN 2 * ed ELSE d3 - 2 * rd
    BY <1>4, <2>1, <2>2, <2>3
  <2>5. 2 * f < d /\ ~(2 * e < d) => 2 * fd + 2 * rd <= d3
    <3>1. SUFFICES ASSUME 2 * f2 + 2 * r2 <= d2  PROVE 2 * fd + 2 * rd <= d3
      BY <1>14
    <3>2. PICK both \in Nat : both = 2 * f2 + 2 * r2 /\ both <= d2
      BY <3>1
    <3>3. both * d <= d2 * d
      BY <3>2, Products
    <3>4. both * d = 2 * fd + 2 * rd
      BY <2>3, <3>2
    <3> QED  BY <1>4, <3>3, <3>4
  <2> QED  BY <1>1, <1>15, <2>3, <2>4, <2>5
<1>17. CASE easing = "cubic_in_out"
  <2>1. /\ Eased(easing, f, d) = IF 2 * f < d THEN 4 * f * f * f ELSE d * d * d - 4 * u * u * u
        /\ Eased(easing, e, d) = IF 2 * e < d THEN 4 * e * e * e ELSE d * d * d - 4 * r * r * r
    BY <1>1, <1>17 DEF Eased
  <2>2. /\ 4 * f * f * f = 4 * f3 /\ 4 * u * u * u = 4 * u3
        /\ 4 * e * e * e = 4 * e3 /\ 4 * r * r * r = 4 * r3
    BY <1>1, <1>6
  <2>3. /\ Eased(easing, f, d) = IF 2 * f < d THEN 4 * f3 ELSE d3 - 4 * u3
        /\ Eased(easing, e, d) = IF 2 * e < d THEN 4 * e3 ELSE d3 - 4 * r3
    BY <1>4, <2>1, <2>2
  <2> QED  BY <1>1, <1>6, <1>14, <1>15, <2>3
<1> QED  BY <1>8, <1>9, <1>10, <1>11, <1>12, <1>16, <1>17 DEF Easings

LEMMA SampleAt ==
  ASSUME NEW t \in Tweens, NEW e \in Nat, NEW x, x = Eased(t.easing, e, t.duration_ms)
  PROVE  LET d == t.duration_ms
         IN Sample([t EXCEPT !.elapsed_ms = e]) = t.start * (d * d * d - x) + t.end * x
<1>1. PICK s : s = [t EXCEPT !.elapsed_ms = e]
  OBVIOUS
<1>2. s.start = t.start /\ s.end = t.end /\ s.duration_ms = t.duration_ms
      /\ s.elapsed_ms = e /\ s.easing = t.easing
  BY <1>1 DEF Tweens
<1>3. Sample(s) = s.start * (s.duration_ms * s.duration_ms * s.duration_ms
                               - Eased(s.easing, s.elapsed_ms, s.duration_ms))
                    + s.end * Eased(s.easing, s.elapsed_ms, s.duration_ms)
  BY Zenon DEF Sample
<1> QED  BY <1>1, <1>2, <1>3, Zenon

\* The curve of a tween that has begun starts and ends on its ends and does not turn back.
LEMMA CurvesStay ==
  ASSUME TweenConstants, TweenInv  PROVE CurvesStayBetween
<1>1. SUFFICES ASSUME tween.initialized  PROVE CurvesStayBetween
  BY DEF CurvesStayBetween
<1>2. PICK a \in Int, b \in Int, d \in Nat \ {0}, easing \in Easings :
        a = tween.start /\ b = tween.end /\ d = tween.duration_ms /\ easing = tween.easing
  <2>1. tween \in Tweens /\ tween.duration_ms > 0
    BY <1>1 DEF TweenInv
  <2>2. Ends \subseteq Int
    BY DEF TweenConstants
  <2>3. tween.start \in Int /\ tween.end \in Int
    <3>1. tween.start \in Ends \cup {0} /\ tween.end \in Ends \cup {0}
      BY <2>1 DEF Tweens
    <3>2. Ends \cup {0} \subseteq Int
      BY <2>2
    <3> QED  BY <3>1, <3>2, Zenon
  <2>4. tween.duration_ms \in Nat \ {0} /\ tween.easing \in Easings
    BY <2>1 DEF Tweens
  <2> QED  BY <2>3, <2>4
<1> DEFINE At(e) == Sample([tween EXCEPT !.elapsed_ms = e])
<1>3. ASSUME NEW e \in Nat, NEW x, x = Eased(easing, e, d)
      PROVE  At(e) = a * (d * d * d - x) + b * x
  <2>1. tween \in Tweens
    BY DEF TweenInv
  <2> QED  BY <1>2, <1>3, <2>1, SampleAt, ZenonT(60)
<1>4. PICK cube \in Nat : cube = d * d * d
  <2>1. d * d * d \in Nat
    BY Powers
  <2> QED  BY <2>1
<1> HIDE DEF At
<1>5. At(0) = a * d * d * d /\ At(d) = b * d * d * d
  <2>1. At(0) = a * (d * d * d - 0) + b * 0 /\ At(d) = a * (d * d * d - d * d * d) + b * (d * d * d)
    <3>1. PICK none \in Nat : none = 0
      OBVIOUS
    <3>2. At(none) = a * (d * d * d - none) + b * none
      BY <1>3, <3>1, EasedEnds
    <3>3. At(d) = a * (d * d * d - d * d * d) + b * (d * d * d)
      BY <1>3, EasedEnds
    <3> QED  BY <3>1, <3>2, <3>3
  <2>2. a * (d * d * d - 0) + b * 0 = a * d * d * d
    BY <1>4
  <2>3. a * (d * d * d - d * d * d) + b * (d * d * d) = b * d * d * d
    BY <1>4
  <2> QED  BY <2>1, <2>2, <2>3
<1>6. ASSUME NEW e \in 1..d
      PROVE  IF a <= b THEN At(e - 1) <= At(e) ELSE At(e) <= At(e - 1)
  <2>1. PICK f \in 0..d - 1 : f = e - 1 /\ f + 1 = e /\ f \in Nat /\ e \in Nat
    BY <1>6
  <2>2. PICK x \in Int, y \in Int : x = Eased(easing, f, d) /\ y = Eased(easing, e, d) /\ x <= y
    BY <1>2, <2>1, EasedRises
  <2>3. At(f) = a * (cube - x) + b * x /\ At(e) = a * (cube - y) + b * y
    BY <1>3, <1>4, <2>1, <2>2
  <2>4. At(f) = a * cube + (b - a) * x /\ At(e) = a * cube + (b - a) * y
    BY <2>3
  <2>5. PICK k \in Nat, base \in Int : y = x + k /\ base = a * cube
    <3>1. y - x \in Nat /\ y = x + (y - x) /\ a * cube \in Int
      BY <2>2
    <3> QED  BY <3>1
  <2>6. (b - a) * y = (b - a) * x + (b - a) * k /\ (b - a) * x \in Int
    BY <2>5
  <2>7. CASE a <= b
    <3>1. (b - a) * k \in Nat
      <4>1. PICK l \in Nat : l = b - a
        BY <2>7
      <4>2. l * k \in Nat
        OBVIOUS
      <4> QED  BY <4>1, <4>2
    <3> QED  BY <2>1, <2>4, <2>5, <2>6, <2>7, <3>1
  <2>8. CASE ~(a <= b)
    <3>1. PICK l \in Nat : l = a - b /\ b - a = -l
      BY <2>8
    <3>2. l * k \in Nat /\ (-l) * k = -(l * k)
      OBVIOUS
    <3>3. (b - a) * k = -(l * k)
      BY <3>1, <3>2
    <3> QED  BY <2>1, <2>4, <2>5, <2>6, <2>8, <3>2, <3>3
  <2> QED  BY <2>7, <2>8
<1>7. /\ At(0) = tween.start * d * d * d /\ At(d) = tween.end * d * d * d
      /\ \A e \in 1..d : IF tween.start <= tween.end THEN At(e - 1) <= At(e) ELSE At(e) <= At(e - 1)
  BY <1>2, <1>5, <1>6
<1> QED  BY <1>2, <1>7 DEF CurvesStayBetween, At

\* What plays follows its clock: see AnimationInv and TweenInv for why.
THEOREM EffectsPlayByTheClock == AnimationSpec /\ TweenSpec => []EffectsFollowClock
<1>1. TweenConstants /\ TweenInv /\ [TweenNext]_tweenVars => TweenInv'
  BY TweenStep DEF tweenVars, TweenInv, TweenFollowsClock
<1>2. TweenSpec => []TweenInv
  BY <1>1, TweenBegins, TweenConstants, PTL DEF TweenSpec
<1>3. TweenConstants /\ TweenInv /\ AnimationFollowsClock => EffectsFollowClock
  BY CurvesStay DEF EffectsFollowClock, TweenInv
<1> QED  BY <1>2, <1>3, AnimationsFollowTheClock, TweenConstants, PTL
=============================================================================
