---------------------------- MODULE ParticlePool ----------------------------
(***************************************************************************)
(* The particle pool of the effects (particles.c, particle_emitter.c,      *)
(* effects_internal.h): slots that are taken lowest first, a cached lowest *)
(* free slot, and a cached end of the slots in use that updates and draws  *)
(* do not look beyond.  Here the free slots are a set, which the scans of  *)
(* the words of bits they are kept in must agree with.  Motion, cells and  *)
(* the random generator are left out: a description is its lifetime.       *)
(***************************************************************************)
EXTENDS Integers, FiniteSets

CONSTANTS
  Capacity,        \* pool->capacity
  Lifetimes,       \* the lifetimes of descriptions, in ms
  Deltas,          \* the steps of updates, in ms
  Requests         \* how many particles an emit asks for

ASSUME PoolConstants ==
  /\ Capacity \in Nat \ {0}
  /\ Lifetimes \subseteq Nat \ {0}
  /\ Deltas \subseteq Nat \ {0}
  /\ Requests \subseteq Nat

VARIABLES
  initialized,
  particles,       \* slot -> [active, age, lifetime]
  free,            \* the slots whose free bit is set
  active_count,
  free_head,       \* the lowest free slot, FreeNone if there is none
  used_high_water, \* one past the highest slot in use
  emitting,        \* particles a running emit has still to activate
  status           \* what the last call returned

poolVars == <<initialized, particles, free, active_count, free_head,
              used_high_water, emitting, status>>

Slots    == 0..Capacity - 1
FreeNone == Capacity + 1
Unused   == [active |-> FALSE, age |-> 0, lifetime |-> 0]
Active   == {i \in Slots : particles[i].active}

-----------------------------------------------------------------------------
FindFreeFrom(slots, start) ==
  IF \E i \in slots : i >= start
  THEN CHOOSE i \in slots : i >= start /\ \A j \in slots : j >= start => i <= j
  ELSE FreeNone

\* One past the highest slot below limit that is not free.
ActiveHighWater(slots, limit) ==
  IF \E i \in 0..limit - 1 : i \notin slots
  THEN CHOOSE n \in 1..limit : n - 1 \notin slots /\ \A i \in n..limit - 1 : i \in slots
  ELSE 0

-----------------------------------------------------------------------------
(* The words of free bits that the free slots are kept in, and the scans     *)
(* over them, for words of any size: a word is the set of its bits that are  *)
(* set.  The pool goes on with what the scans find.                          *)

\* aforc_particle_free_word_count, for words of bits bits.
WordCount(bits) == (Capacity + bits - 1) \div bits

\* The words as mark_free, mark_occupied and reset_storage leave them: the bits
\* beyond the capacity are never set.
Words(bits, slots) ==
  [w \in 0..WordCount(bits) - 1 |-> {b \in 0..bits - 1 : w * bits + b \in slots}]

LowestSetBit(word)  == CHOOSE b \in word : \A c \in word : b <= c
HighestSetBit(word) == CHOOSE b \in word : \A c \in word : c <= b

ScanFreeFrom_NoMask(bits, words, start) ==
  LET Masked(w) == words[w]
      Scan[w \in start \div bits .. WordCount(bits)] ==
        IF w = WordCount(bits) THEN FreeNone
        ELSE IF Masked(w) # {} THEN w * bits + LowestSetBit(Masked(w))
        ELSE Scan[w + 1]
  IN IF start >= Capacity THEN FreeNone ELSE Scan[start \div bits]

\* aforc_particle_find_free_from: the first word without its bits below start,
\* then whole words.
ScanFreeFrom(bits, words, start) ==
  LET Masked(w) == IF w = start \div bits
                   THEN {b \in words[w] : b >= start % bits} ELSE words[w]
      Scan[w \in start \div bits .. WordCount(bits)] ==
        IF w = WordCount(bits) THEN FreeNone
        ELSE IF Masked(w) # {} THEN w * bits + LowestSetBit(Masked(w))
        ELSE Scan[w + 1]
  IN IF start >= Capacity THEN FreeNone ELSE Scan[start \div bits]

\* particle_pool_active_high_water: the clear bits of the last word that counts,
\* without those from limit on, then of whole words downwards.
ScanHighWater(bits, words, limit) ==
  LET last == (limit - 1) \div bits
      Occupied(w) == (IF w = last THEN 0..(limit - 1) % bits ELSE 0..bits - 1) \ words[w]
      Scan[w \in 0..last] ==
        IF Occupied(w) # {} THEN w * bits + HighestSetBit(Occupied(w)) + 1
        ELSE IF w = 0 THEN 0 ELSE Scan[w - 1]
  IN IF limit = 0 THEN 0 ELSE Scan[last]

-----------------------------------------------------------------------------
Ready ==
  /\ initialized
  /\ active_count <= used_high_water /\ used_high_water <= Capacity
  /\ IF active_count = 0
     THEN free_head = 0 /\ used_high_water = 0 /\ 0 \in free /\ ~particles[0].active
     ELSE /\ used_high_water > 0
          /\ particles[used_high_water - 1].active
          /\ used_high_water - 1 \notin free
          /\ IF active_count = Capacity
             THEN free_head = FreeNone
             ELSE free_head \in free /\ ~particles[free_head].active

Init ==
  /\ initialized = FALSE
  /\ particles = [i \in Slots |-> Unused]
  /\ free = {}
  /\ active_count = 0 /\ free_head = 0 /\ used_high_water = 0
  /\ emitting = 0 /\ status = "ok"

\* particle_pool_reset_storage
ResetStorage ==
  /\ particles' = [i \in Slots |-> Unused]
  /\ free' = Slots
  /\ active_count' = 0 /\ free_head' = 0 /\ used_high_water' = 0

PoolInit ==
  /\ emitting = 0
  /\ ResetStorage
  /\ initialized' = TRUE /\ status' = "ok"
  /\ UNCHANGED emitting

Fails(result) ==
  /\ status' = result
  /\ UNCHANGED <<initialized, particles, free, active_count, free_head,
                 used_high_water, emitting>>

NotReady == emitting = 0 /\ ~Ready /\ Fails("state")

Dispose ==
  /\ emitting = 0
  /\ initialized' = FALSE
  /\ particles' = IF Ready THEN [i \in Slots |-> Unused] ELSE particles
  /\ free' = IF Ready THEN {} ELSE free
  /\ active_count' = 0 /\ free_head' = 0 /\ used_high_water' = 0
  /\ UNCHANGED <<emitting, status>>

Clear ==
  /\ emitting = 0 /\ Ready
  /\ ResetStorage
  /\ status' = "ok" /\ UNCHANGED <<initialized, emitting>>

-----------------------------------------------------------------------------
\* aforc_particle_pool_activate_free: its own checks, then the lowest free slot.
CanActivate ==
  /\ free_head \in Slots
  /\ ~particles[free_head].active /\ free_head \in free
  /\ LET next == FindFreeFrom(free, free_head + 1) IN
       /\ active_count + 1 < Capacity => next # FreeNone
       /\ active_count + 1 = Capacity => next = FreeNone

Activate(lifetime) ==
  /\ particles' = [particles EXCEPT
       ![free_head] = [active |-> TRUE, age |-> 0, lifetime |-> lifetime]]
  /\ free' = free \ {free_head}
  /\ active_count' = active_count + 1
  /\ free_head' = FindFreeFrom(free, free_head + 1)
  /\ used_high_water' = IF used_high_water <= free_head THEN free_head + 1
                        ELSE used_high_water

Spawn(lifetime) ==
  /\ emitting = 0 /\ Ready
  /\ IF active_count = Capacity THEN Fails("limit")
     ELSE IF ~CanActivate THEN Fails("state")
     ELSE Activate(lifetime) /\ status' = "ok" /\ UNCHANGED <<initialized, emitting>>

\* emit asks for more than fits: what fits is activated, and the status says so.
Emit(requested) ==
  /\ emitting = 0 /\ Ready
  /\ LET room == Capacity - active_count IN
       /\ emitting' = IF requested > room THEN room ELSE requested
       /\ status' = IF requested > room THEN "limit" ELSE "ok"
  /\ UNCHANGED <<initialized, particles, free, active_count, free_head, used_high_water>>

\* One round of the loop of emit.
EmitOne(lifetime) ==
  /\ emitting > 0
  /\ IF CanActivate
     THEN /\ Activate(lifetime)
          /\ emitting' = emitting - 1
          /\ UNCHANGED status
     ELSE /\ emitting' = 0 /\ status' = "state"
          /\ UNCHANGED <<particles, free, active_count, free_head, used_high_water>>
  /\ UNCHANGED initialized

\* Mutant: the end of the slots in use stays where it was.
Release_KeepHighWater(i) ==
  /\ particles' = [particles EXCEPT ![i].active = FALSE]
  /\ free' = free \cup {i}
  /\ free_head' = IF free_head = FreeNone \/ i < free_head THEN i ELSE free_head
  /\ active_count' = active_count - 1
  /\ UNCHANGED used_high_water

\* particle_pool_release
Release(i) ==
  /\ particles' = [particles EXCEPT ![i].active = FALSE]
  /\ free' = free \cup {i}
  /\ free_head' = IF free_head = FreeNone \/ i < free_head THEN i ELSE free_head
  /\ active_count' = active_count - 1
  /\ used_high_water' =
       IF i + 1 = used_high_water
       THEN IF active_count' = 0 THEN 0 ELSE ActiveHighWater(free', used_high_water)
       ELSE used_high_water

Kill(i) ==
  /\ emitting = 0 /\ Ready
  /\ IF i \notin Slots THEN Fails("invalid_argument")
     ELSE IF particles[i].active = (i \in free) THEN Fails("state")
     ELSE IF ~particles[i].active THEN Fails("ok")
     ELSE Release(i) /\ status' = "ok" /\ UNCHANGED <<initialized, emitting>>

\* update stops at a slot it finds inconsistent; slots before it are done.
Inconsistent(i) ==
  \/ (i \in free) = particles[i].active
  \/ particles[i].active /\ particles[i].age >= particles[i].lifetime

Expires(i, delta) ==
  particles[i].active /\ delta >= particles[i].lifetime - particles[i].age

Aged(i, delta) ==
  IF Expires(i, delta)
  THEN [particles[i] EXCEPT !.age = particles[i].lifetime, !.active = FALSE]
  ELSE IF particles[i].active THEN [particles[i] EXCEPT !.age = @ + delta]
  ELSE particles[i]

Expired(upto, delta) == {i \in 0..upto - 1 : Expires(i, delta)}

\* One past the slots an update gets to.
Reached ==
  LET inconsistent == {i \in 0..used_high_water - 1 : Inconsistent(i)} IN
  IF inconsistent = {} THEN used_high_water
  ELSE CHOOSE i \in inconsistent : \A j \in inconsistent : i <= j

Update(delta) ==
  /\ emitting = 0 /\ Ready
  /\ LET expired == Expired(Reached, delta)
         done    == Reached = used_high_water
         first   == FindFreeFrom(expired, 0)
     IN /\ particles' = [i \in Slots |-> IF i < Reached THEN Aged(i, delta) ELSE particles[i]]
        /\ free' = free \cup expired
        /\ active_count' = active_count - Cardinality(expired)
        /\ free_head' = IF done /\ expired # {} /\ (free_head = FreeNone \/ first < free_head)
                        THEN first ELSE free_head
        /\ used_high_water' =
             IF done /\ expired # {} /\ ~particles'[used_high_water - 1].active
             THEN IF active_count' = 0 THEN 0 ELSE ActiveHighWater(free', used_high_water)
             ELSE used_high_water
        /\ status' = IF done THEN "ok" ELSE "state"
  /\ UNCHANGED <<initialized, emitting>>

Next ==
  \/ PoolInit \/ Dispose \/ Clear \/ NotReady
  \/ \E lifetime \in Lifetimes : Spawn(lifetime) \/ EmitOne(lifetime)
  \/ \E requested \in Requests : Emit(requested)
  \/ \E i \in 0..Capacity : Kill(i)
  \/ \E delta \in Deltas : Update(delta)

Spec == Init /\ [][Next]_poolVars

-----------------------------------------------------------------------------
(* Properties.                                                               *)

TypeOK ==
  /\ initialized \in BOOLEAN
  /\ particles \in [Slots -> [active : BOOLEAN, age : Nat, lifetime : Nat]]
  /\ free \subseteq Slots
  /\ active_count \in 0..Capacity
  /\ free_head \in Slots \cup {FreeNone}
  /\ used_high_water \in 0..Capacity
  /\ emitting \in 0..Capacity
  /\ status \in {"ok", "limit", "invalid_argument", "state"}

\* A slot is active or free, never both and never neither.
FreeIsInactive == free = Slots \ Active

\* free_head is the lowest free slot.
HeadIsLowest ==
  \/ free = {} /\ free_head = FreeNone
  \/ free_head \in free /\ \A i \in free : free_head <= i

\* used_high_water is one past the highest active slot.
HighWaterIsHighest ==
  /\ \A i \in Active : i < used_high_water
  /\ used_high_water > 0 => used_high_water - 1 \in Active

CountIsActive == active_count = Cardinality(Active)

\* An active particle has time to live.
ActiveHaveTime == \A i \in Active : particles[i].age < particles[i].lifetime

\* A running emit has room for what it still owes.
RoomToEmit == emitting > 0 => initialized /\ emitting <= Capacity - active_count

(* The caches of the pool are exact (particles.c): free_head and             *)
(* used_high_water agree with the particles after any sequence of spawns,    *)
(* emits, kills and updates.  A head that is too high hides free slots and   *)
(* makes a spawn fail with room left; an end that is too low hides active    *)
(* particles from update and draw.                                           *)
CachesAreExact ==
  initialized => /\ FreeIsInactive /\ HeadIsLowest /\ HighWaterIsHighest
                 /\ CountIsActive

(* Every check that answers AFORC_ERROR_STATE (aforc_particle_pool_ready,    *)
(* activate_free, release, update) is a check for corruption by others: a    *)
(* pool in use that only the library touches never fails one.                *)
NeverCorrupt == initialized => status # "state" /\ Ready

(* The two scans find what the pool takes them for (FindFreeFrom and         *)
(* ActiveHighWater), from every start and under every limit, for words of    *)
(* one bit up to one word for the whole pool: a mask that is off by one at a *)
(* word's edge would hide a slot or find one below the start.                *)
ScansAreExact ==
  initialized => \A bits \in 1..Capacity :
    LET words == Words(bits, free)
    IN \A n \in 0..Capacity :
         /\ ScanFreeFrom(bits, words, n) = FindFreeFrom(free, n)
         /\ ScanHighWater(bits, words, n) = ActiveHighWater(free, n)
=============================================================================
