-------------------------- MODULE SceneStackProofs --------------------------
(***************************************************************************)
(* Theorems about the scene stack, for every set of scenes, every capacity *)
(* and every choice of propagation flags.                                  *)
(***************************************************************************)
EXTENDS SceneStack, SequenceTheorems, FiniteSetTheorems, WellFoundedInduction, TLAPS

\* The operations in progress, each with the callbacks it can be waiting for.
Stages ==
  ({"push"} \X {"pause", "enter", "undo"})
    \union ({"replace"} \X {"pause", "enter", "undo", "leave"})
    \union ({"pop"} \X {"leave", "resume"})
    \union ({"dispose"} \X {"leave"})
    \union (Walk \X {"call"})

\* The calls in progress seen as a set, and the operations of the stack among them.
\* An engine that owns the stack may have calls of its own in progress, under one
\* of the stack's or over it.
Records(c)  == {c[i] : i \in 1 .. Len(c)}
StackOps(c) == {r \in Records(c) : r.fn \in StackOp}

\* At most one operation of the stack is in progress.
AtMostOne(c) ==
  /\ \E S : c \in Seq(S)
  /\ \A i, j \in 1 .. Len(c) : {c[i].fn, c[j].fn} \subseteq StackOp => i = j

\* Exactly the operation r is in progress, or none is.
Waiting(c, r) == AtMostOne(c) /\ StackOps(c) = {r}
Calm(c)       == AtMostOne(c) /\ StackOps(c) = {}

\* A walk that has come to the scene at k was let through by all the scenes above.
Reached(kind, k) ==
  \A j \in k + 1 .. Len(items) :
    (IF kind = "event" THEN "events" ELSE FlagFor(kind)) \in flags[items[j]]

\* What the operation in progress relies on.
ReliesOn(r) ==
  /\ r \in StackCall /\ open
  /\ <<r.fn, r.pc>> \in Stages
  /\ r.fn \in {"push", "replace"} => r.arg \in Scenes
  /\ r.fn = "push" => Len(items) < Capacity
  /\ items = <<>> => r.fn = "push" /\ r.pc = "enter"
  /\ r.fn \in Walk => r.idx \in 1 .. Len(items) /\ Reached(r.fn, r.idx)

CallInv ==
  /\ AtMostOne(calls)
  /\ dispatching \in BOOLEAN
  /\ dispatching <=> StackOps(calls) # {}
  /\ \A r \in StackOps(calls) : ReliesOn(r)

\* The parts that do not speak of the calls in progress.
DataOK ==
  /\ items \in Seq(Scenes) /\ Len(items) <= Capacity
  /\ open \in BOOLEAN
  /\ ret \in Statuses
  /\ life \in Seq({"active", "paused"}) /\ Len(life) = Len(items)
  /\ held \in [Scenes -> Int]
  /\ \A i \in 1 .. Len(items) - 1 : life[i] = "paused"

\* The top scene is paused from the moment pause returned until it is resumed.
TopPaused(r) == r.pc \in {"enter", "undo", "resume"} \/ (r.fn = "replace" /\ r.pc = "leave")

LifeInv ==
  items # <<>> /\ (\A r \in StackOps(calls) : r.fn # "dispose") =>
    life[Len(items)] = IF \E r \in StackOps(calls) : TopPaused(r) THEN "paused" ELSE "active"

\* A replacement is entered before the scene it replaces leaves.
Entering(r, s) == r.fn = "replace" /\ r.pc = "leave" /\ r.arg = s

HeldInv ==
  \A s \in Scenes :
    held[s] = Occurrences(items, s)
                + IF \E r \in StackOps(calls) : Entering(r, s) THEN 1 ELSE 0

IInv == DataOK /\ CallInv /\ LifeInv /\ HeldInv

-----------------------------------------------------------------------------
(* Counting the places of a scene in a sequence.                           *)

LEMMA OccurrencesEmpty == \A s : Occurrences(<<>>, s) = 0
  BY FS_EmptySet DEF Occurrences

\* A scene put on top occurs once more, and nothing else changes its count.
LEMMA OccurrencesAppend ==
  ASSUME NEW q \in Seq(Scenes), NEW x \in Scenes, NEW s
  PROVE  /\ Occurrences(q, s) \in Nat
         /\ Occurrences(Append(q, x), s) = Occurrences(q, s) + IF x = s THEN 1 ELSE 0
<1> DEFINE P == {i \in DOMAIN q : q[i] = s}
           A == {i \in DOMAIN Append(q, x) : Append(q, x)[i] = s}
<1>1. Len(q) \in Nat /\ DOMAIN q = 1 .. Len(q)
  OBVIOUS
<1>2. IsFiniteSet(P) /\ Cardinality(P) \in Nat
  <2>1. IsFiniteSet(1 .. Len(q))
    BY <1>1, FS_Interval
  <2>2. P \in SUBSET (1 .. Len(q))
    BY <1>1
  <2> QED  BY <2>1, <2>2, FS_Subset, FS_CardinalityType
<1>3. A = IF x = s THEN P \union {Len(q) + 1} ELSE P
  <2>1. /\ DOMAIN Append(q, x) = 1 .. Len(q) + 1
        /\ \A i \in 1 .. Len(q) : Append(q, x)[i] = q[i]
        /\ Append(q, x)[Len(q) + 1] = x
    BY AppendProperties
  <2> QED  BY <1>1, <2>1
<1>4. Len(q) + 1 \notin P
  BY <1>1
<1>5. Occurrences(q, s) = Cardinality(P) /\ Occurrences(Append(q, x), s) = Cardinality(A)
  BY DEF Occurrences
<1>6. Cardinality(P \union {Len(q) + 1}) = Cardinality(P) + 1
  BY <1>2, <1>4, FS_AddElement
<1> HIDE DEF P, A
<1> QED  BY <1>2, <1>3, <1>5, <1>6

LEMMA PrefixLength ==
  ASSUME NEW S, NEW q \in Seq(S), NEW n \in 0 .. Len(q)
  PROVE  Len(SubSeq(q, 1, n)) = n
  OBVIOUS

LEMMA BelowProperties ==
  ASSUME NEW S, NEW q \in Seq(S), q # <<>>
  PROVE  /\ Below(q) \in Seq(S)
         /\ Len(Below(q)) = Len(q) - 1
         /\ \A i \in 1 .. Len(q) - 1 : Below(q)[i] = q[i]
         /\ Below(q) = <<>> <=> Len(q) = 1
         /\ q = Append(Below(q), q[Len(q)])
         /\ \A x \in S : [q EXCEPT ![Len(q)] = x] = Append(Below(q), x)
<1>1. Len(q) \in Nat \ {0} /\ Len(q) - 1 \in 0 .. Len(q)
  OBVIOUS
<1>2. Len(Below(q)) = Len(q) - 1
  BY <1>1, PrefixLength, Zenon DEF Below
<1>3. /\ Below(q) \in Seq(S)
      /\ \A i \in 1 .. Len(q) - 1 : Below(q)[i] = q[i]
  BY DEF Below
<1>4. q = Append(Below(q), q[Len(q)])
  BY DEF Below
<1>5. ASSUME NEW x \in S
      PROVE  [q EXCEPT ![Len(q)] = x] = Append(Below(q), x)
  <2>1. /\ [q EXCEPT ![Len(q)] = x] \in Seq(S)
        /\ Len([q EXCEPT ![Len(q)] = x]) = Len(q)
        /\ \A i \in 1 .. Len(q) :
             [q EXCEPT ![Len(q)] = x][i] = IF i = Len(q) THEN x ELSE q[i]
    BY <1>1, ExceptSeq
  <2>2. /\ Append(Below(q), x) \in Seq(S)
        /\ Len(Append(Below(q), x)) = Len(q)
        /\ \A i \in 1 .. Len(q) :
             Append(Below(q), x)[i] = IF i = Len(q) THEN x ELSE q[i]
    BY <1>1, <1>2, <1>3, AppendProperties
  <2> QED  BY <2>1, <2>2, SeqEqual, ZenonT(60)
<1>6. Below(q) = <<>> <=> Len(q) = 1
  BY <1>1, <1>2, <1>3, EmptySeq
<1> QED  BY <1>2, <1>3, <1>4, <1>5, <1>6

\* The least-number principle, from the well-foundedness of < on Nat.
SmallerPairs == {p \in Nat \X Nat : p[1] < p[2]}

LEMMA LeastElement ==
  ASSUME NEW T \in SUBSET Nat, T # {}
  PROVE  \E i \in T : \A j \in T : ~(j < i)
<1>1. IsWellFoundedOn(SmallerPairs, Nat)
  BY NatLessThanWellFounded DEF OpToRel, SmallerPairs
<1>2. \E i \in T : \A j \in T : ~(<<j, i>> \in SmallerPairs)
  BY <1>1, WFMin
<1> QED  BY <1>2 DEF SmallerPairs

\* Where a walk starts: the flags let it down from the top as far as First.
LEMMA FirstProperties ==
  ASSUME SceneAssumption, items \in Seq(Scenes), items # <<>>, NEW kind
  PROVE  /\ First(kind) \in 1 .. Len(items)
         /\ \A j \in First(kind) + 1 .. Len(items) : FlagFor(kind) \in flags[items[j]]
<1> DEFINE Lets(i) == \A j \in i + 1 .. Len(items) : FlagFor(kind) \in flags[items[j]]
           T == {i \in 1 .. Len(items) : Lets(i)}
           Lowest(i) == Lets(i) /\ (i = 1 \/ FlagFor(kind) \notin flags[items[i]])
<1>1. Len(items) \in T
  OBVIOUS
<1>2. PICK i \in T : \A j \in T : ~(j < i)
  <2>1. T \in SUBSET Nat /\ T # {}
    BY <1>1
  <2> HIDE DEF T
  <2> QED  BY <2>1, LeastElement
<1>3. i = 1 \/ FlagFor(kind) \notin flags[items[i]]
  <2>1. SUFFICES ASSUME i # 1, FlagFor(kind) \in flags[items[i]]
                 PROVE  FALSE
    OBVIOUS
  <2>2. i - 1 \in 1 .. Len(items) /\ i - 1 < i
    BY <2>1
  <2>3. Lets(i - 1)
    BY <2>1
  <2> QED  BY <1>2, <2>2, <2>3
<1>4. i \in 1 .. Len(items) /\ Lowest(i)
  BY <1>3
<1>5. First(kind) = CHOOSE k \in 1 .. Len(items) : Lowest(k)
  BY DEF First
<1>6. First(kind) \in 1 .. Len(items) /\ Lowest(First(kind))
  <2> HIDE DEF Lowest
  <2> QED  BY <1>4, <1>5
<1> QED  BY <1>6

-----------------------------------------------------------------------------
(* How an operation begins, goes on and returns.                           *)

IsRecord(r) == r = [fn |-> r.fn, pc |-> r.pc, arg |-> r.arg, idx |-> r.idx]

\* What a call of the stack made by c comes to: it is refused, or begins.
Entered(c) ==
  \/ calls' = c /\ dispatching' = dispatching
  \/ /\ ~dispatching /\ dispatching' = TRUE
     /\ \E r : IsRecord(r) /\ r.fn \in StackOp /\ calls' = Append(c, r)

LEMMA StackCalls ==
  ASSUME NEW c,
         \/ \E s : Push(c, s) \/ Replace(c, s)
         \/ Pop(c)
         \/ \E kind \in FrameWalk : DispatchFrames(c, kind)
         \/ DispatchEvent(c) \/ Dispose(c)
  PROVE  Entered(c)
<1>1. \A why : Refuse(c, why) => Entered(c)
  BY DEF Refuse, Entered
<1>2. ASSUME NEW fn \in StackOp, NEW pc, NEW arg, NEW idx, Begin(c, Call(fn, pc, arg, idx)), ~dispatching
      PROVE  Entered(c)
  <2>1. IsRecord(Call(fn, pc, arg, idx)) /\ Call(fn, pc, arg, idx).fn = fn
    BY DEF IsRecord, Call
  <2> QED  BY <1>2, <2>1 DEF Begin, Entered
<1>3. CanMutate => ~dispatching
  BY DEF CanMutate
<1>4. FrameWalk \cup {"push", "pop", "replace", "dispose", "event"} \subseteq StackOp
  BY DEF StackOp, Walk, Mutation
<1>5. ASSUME NEW kind \in FrameWalk, DispatchFrames(c, kind)  PROVE Entered(c)
  BY <1>1, <1>2, <1>3, <1>4, <1>5 DEF DispatchFrames
<1>6. CASE DispatchEvent(c)
  BY <1>1, <1>2, <1>3, <1>4, <1>6 DEF DispatchEvent
<1>7. CASE Dispose(c)
  BY <1>1, <1>2, <1>3, <1>4, <1>7 DEF Dispose
<1>8. ASSUME NEW s, Push(c, s)  PROVE Entered(c)
  BY <1>1, <1>2, <1>3, <1>4, <1>8 DEF Push, BeginEnter
<1>9. ASSUME NEW s, Replace(c, s)  PROVE Entered(c)
  BY <1>1, <1>2, <1>3, <1>4, <1>8, <1>9 DEF Replace, BeginEnter
<1>10. ASSUME Pop(c)  PROVE Entered(c)
  BY <1>1, <1>2, <1>3, <1>4, <1>10 DEF Pop
<1> QED  BY <1>5, <1>6, <1>7, <1>8, <1>9, <1>10

\* What the return of a callback comes to: the operation it belongs to returns, or
\* waits for another callback.
LEMMA CallbackOnTop == CallbackReturns => calls # <<>> /\ Top.fn \in StackOp
BY DEF CallbackReturns, Running, StackOp, Walk, FrameWalk, Mutation, PauseReturns, PushEntered,
       ReplaceEntered, EnterRejected, UndoReturns, ReplaceLeft, PopLeft, ResumeReturns,
       DisposeLeft, WalkReturns, EventReturns

LEMMA CallbackMoves ==
  ASSUME CallbackReturns, IsRecord(Top)
  PROVE  \/ calls' = Callers /\ dispatching' = FALSE
         \/ /\ dispatching' = dispatching
            /\ \/ calls' = calls
               \/ \E r : IsRecord(r) /\ r.fn = Top.fn /\ calls' = Append(Callers, r)
<1>1. \A pc : IsRecord([Top EXCEPT !.pc = pc]) /\ [Top EXCEPT !.pc = pc].fn = Top.fn
  BY DEF IsRecord
<1>2. /\ IsRecord([Top EXCEPT !.idx = @ + 1]) /\ [Top EXCEPT !.idx = @ + 1].fn = Top.fn
      /\ IsRecord([Top EXCEPT !.idx = @ - 1]) /\ [Top EXCEPT !.idx = @ - 1].fn = Top.fn
  BY DEF IsRecord
<1>3. ASSUME NEW pc, calls' = At(pc), UNCHANGED dispatching
      PROVE  /\ dispatching' = dispatching
             /\ \E r : IsRecord(r) /\ r.fn = Top.fn /\ calls' = Append(Callers, r)
  BY <1>1, <1>3 DEF At
<1>4. ASSUME NEW status, Finish(status)  PROVE calls' = Callers /\ dispatching' = FALSE
  BY <1>4 DEF Finish
<1>5. CASE PauseReturns
  BY <1>3, <1>5 DEF PauseReturns
<1>6. CASE PushEntered
  BY <1>4, <1>6 DEF PushEntered
<1>7. CASE ReplaceEntered
  BY <1>3, <1>7 DEF ReplaceEntered
<1>8. CASE EnterRejected
  BY <1>3, <1>4, <1>8 DEF EnterRejected
<1>9. CASE UndoReturns
  BY <1>4, <1>9 DEF UndoReturns
<1>10. CASE ReplaceLeft
  BY <1>4, <1>10 DEF ReplaceLeft
<1>11. CASE PopLeft
  BY <1>3, <1>4, <1>11 DEF PopLeft
<1>12. CASE ResumeReturns
  BY <1>4, <1>12 DEF ResumeReturns
<1>13. CASE DisposeLeft
  BY <1>4, <1>13 DEF DisposeLeft
<1>14. ASSUME NEW status, WalkReturns(status)
       PROVE  \/ calls' = Callers /\ dispatching' = FALSE
              \/ /\ dispatching' = dispatching
                 /\ \E r : IsRecord(r) /\ r.fn = Top.fn /\ calls' = Append(Callers, r)
  BY <1>2, <1>4, <1>14 DEF WalkReturns
<1>15. ASSUME NEW status, NEW handled, EventReturns(status, handled)
       PROVE  \/ calls' = Callers /\ dispatching' = FALSE
              \/ /\ dispatching' = dispatching
                 /\ \E r : IsRecord(r) /\ r.fn = Top.fn /\ calls' = Append(Callers, r)
  BY <1>2, <1>4, <1>15 DEF EventReturns
<1> QED  BY <1>5, <1>6, <1>7, <1>8, <1>9, <1>10, <1>11, <1>12, <1>13, <1>14, <1>15 DEF CallbackReturns

\* An operation of the stack is called.
LEMMA Begun ==
  ASSUME NEW c, Calm(c), NEW r, r.fn \in StackOp
  PROVE  Waiting(Append(c, r), r)
<1> DEFINE d == Append(c, r)
           n == Len(c)
<1>1. PICK S : c \in Seq(S)
  BY DEF Calm, AtMostOne
<1>2. /\ n \in Nat /\ Len(d) = n + 1 /\ d \in Seq(S \cup {r})
      /\ \A i \in 1 .. n : d[i] = c[i]
      /\ d[n + 1] = r
  <2>1. c \in Seq(S \cup {r})
    BY <1>1
  <2> QED  BY <2>1, AppendProperties
<1>3. \A i \in 1 .. n : c[i].fn \notin StackOp
  BY DEF Calm, StackOps, Records
<1> HIDE DEF d, n
<1>4. AtMostOne(d)
  BY <1>2, <1>3 DEF AtMostOne
<1>5. StackOps(d) = {r}
  BY <1>2, <1>3 DEF StackOps, Records
<1> QED  BY <1>4, <1>5 DEF Waiting, d

\* The operation of the stack on top of the calls is the only one.
LEMMA OnTop ==
  ASSUME AtMostOne(calls), calls # <<>>, Top.fn \in StackOp
  PROVE  StackOps(calls) = {Top} /\ Calm(Callers)
<1> DEFINE n == Len(calls)
<1>1. PICK S : calls \in Seq(S)
  BY DEF AtMostOne
<1>2. n \in Nat \ {0} /\ n - 1 \in 0 .. n
  BY <1>1
<1> DEFINE m == n - 1
<1>3. m \in 0 .. n /\ n = m + 1 /\ Callers = SubSeq(calls, 1, m)
  BY <1>2 DEF Callers
<1>4. Top = calls[n]
  BY DEF Top
<1> HIDE DEF m, n
<1>5. Callers \in Seq(S) /\ Len(Callers) = m /\ \A i \in 1 .. m : Callers[i] = calls[i]
  <2>1. m \in 0 .. Len(calls)
    BY <1>3 DEF n
  <2>2. Len(SubSeq(calls, 1, m)) = m /\ \A i \in 1 .. m : SubSeq(calls, 1, m)[i] = calls[i]
    BY <1>1, <2>1
  <2> QED  BY <1>1, <1>3, <2>1, <2>2
<1>6. \A i \in 1 .. n : calls[i].fn \in StackOp => i = n
  BY <1>2, <1>4 DEF AtMostOne, n
<1>7. StackOps(calls) = {Top}
  BY <1>2, <1>4, <1>6 DEF StackOps, Records, n
<1>8. \A i \in 1 .. m : Callers[i].fn \notin StackOp
  BY <1>2, <1>3, <1>5, <1>6
<1>9. AtMostOne(Callers) /\ StackOps(Callers) = {}
  BY <1>5, <1>8 DEF AtMostOne, StackOps, Records
<1> QED  BY <1>7, <1>9 DEF Calm

Names == Walk \cup {"push", "pop", "replace", "dispose"}

LEMMA StackNames == Names = StackOp
BY DEF Names, StackOp, Mutation

\* An operation that waits for a callback with the record r keeps IInv, when r
\* and the data satisfy what that stage of that operation promises.
LEMMA WaitKeepsIInv ==
  ASSUME DataOK', dispatching' = TRUE, open',
         NEW r \in StackCall, Waiting(calls', r),
         <<r.fn, r.pc>> \in Stages,
         r.fn \in {"push", "replace"} => r.arg \in Scenes,
         r.fn = "push" => Len(items') < Capacity,
         items' = <<>> => r.fn = "push" /\ r.pc = "enter",
         r.fn \in Walk => r.idx \in 1 .. Len(items') /\ Reached(r.fn, r.idx)',
         items' # <<>> /\ r.fn # "dispose" =>
           life'[Len(items')] =
             IF r.pc \in {"enter", "undo", "resume"} \/ (r.fn = "replace" /\ r.pc = "leave")
             THEN "paused" ELSE "active",
         \A s \in Scenes :
           held'[s] = Occurrences(items', s)
                        + IF r.fn = "replace" /\ r.pc = "leave" /\ r.arg = s THEN 1 ELSE 0
  PROVE  IInv'
<1>1. AtMostOne(calls') /\ StackOps(calls') = {r}
  BY DEF Waiting
<1>2. ReliesOn(r)'
  BY DEF ReliesOn
<1>3. CallInv'
  BY <1>1, <1>2 DEF CallInv
<1>4. LifeInv'
  BY <1>1 DEF LifeInv, TopPaused
<1>5. HeldInv'
  BY <1>1 DEF HeldInv, Entering
<1> QED  BY <1>3, <1>4, <1>5 DEF IInv

\* An operation that returns leaves the top scene active and the enters matched.
LEMMA ReturnKeepsIInv ==
  ASSUME DataOK', dispatching' = FALSE, Calm(calls'),
         items' # <<>> => life'[Len(items')] = "active",
         \A s \in Scenes : held'[s] = Occurrences(items', s)
  PROVE  IInv'
<1>1. AtMostOne(calls') /\ StackOps(calls') = {}
  BY DEF Calm
<1>2. CallInv'
  BY <1>1 DEF CallInv
<1>3. LifeInv'
  BY <1>1 DEF LifeInv
<1>4. HeldInv'
  <2>1. \A s \in Scenes : Occurrences(items', s) \in Int
    BY DEF DataOK
  <2> QED  BY <1>1, <2>1 DEF HeldInv
<1> QED  BY <1>2, <1>3, <1>4 DEF IInv

-----------------------------------------------------------------------------
(* The application's calls, which c makes: the application itself, or an   *)
(* engine that carries out its commands.                                   *)

Caller(c) == AtMostOne(c) /\ StackOps(c) = StackOps(calls)

LEMMA RefusalKeepsIInv ==
  ASSUME IInv, Caller(calls'), UNCHANGED <<items, dispatching, life, held>>,
         open' \in BOOLEAN, dispatching => open' = open, ret' \in Statuses
  PROVE  IInv'
<1>1. DataOK'
  BY DEF IInv, DataOK
<1>2. ASSUME NEW r \in StackOps(calls)  PROVE ReliesOn(r)'
  <2>1. ReliesOn(r) /\ open' = open
    BY DEF IInv, CallInv
  <2>2. \A kind, k : Reached(kind, k)' <=> Reached(kind, k)
    BY DEF Reached, FlagFor
  <2> QED  BY <2>1, <2>2 DEF ReliesOn
<1>3. CallInv' /\ LifeInv' /\ HeldInv'
  BY <1>2 DEF IInv, CallInv, LifeInv, HeldInv, Caller
<1> QED  BY <1>1, <1>3 DEF IInv

LEMMA Refused ==
  ASSUME IInv, NEW c, Caller(c), NEW why \in Statuses, Refuse(c, why),
         UNCHANGED <<items, open, life, held>>
  PROVE  IInv'
<1>1. Caller(calls') /\ ret' \in Statuses /\ UNCHANGED dispatching /\ open' \in BOOLEAN
  BY DEF Refuse, IInv, DataOK
<1> QED  BY <1>1, RefusalKeepsIInv

LEMMA Statused == {"ok", "state", "limit", "not_found", "rejected"} = Statuses
BY DEF Statuses

\* Between operations the stack is balanced.
LEMMA Quiescent ==
  ASSUME IInv, ~dispatching
  PROVE  /\ StackOps(calls) = {}
         /\ DataOK
         /\ items # <<>> => life[Len(items)] = "active"
         /\ \A s \in Scenes : held[s] = Occurrences(items, s) /\ Occurrences(items, s) \in Nat
<1>1. StackOps(calls) = {} /\ DataOK
  BY DEF IInv, CallInv
<1>2. items # <<>> => life[Len(items)] = "active"
  BY <1>1 DEF IInv, LifeInv
<1>3. ASSUME NEW s \in Scenes
      PROVE  held[s] = Occurrences(items, s) /\ Occurrences(items, s) \in Nat
  <2>1. Occurrences(items, s) \in Nat
    BY OccurrencesAppend, <1>1 DEF DataOK
  <2> QED  BY <1>1, <2>1 DEF IInv, HeldInv
<1> QED  BY <1>1, <1>2, <1>3

LEMMA BeginKeepsIInv ==
  ASSUME IInv, CanMutate, UNCHANGED <<items, open, life, held>>,
         NEW c, Caller(c),
         NEW r \in StackCall, Begin(c, r),
         <<r.fn, r.pc>> \in Stages,
         r.pc \notin {"undo", "resume"}, r.fn = "replace" => r.pc # "leave",
         r.fn \in {"push", "replace"} => r.arg \in Scenes,
         r.fn = "push" => Len(items) < Capacity,
         IF items = <<>> THEN r.fn = "push" /\ r.pc = "enter" ELSE r.pc # "enter",
         r.fn \in Walk => r.idx \in 1 .. Len(items) /\ Reached(r.fn, r.idx)
  PROVE  IInv'
<1>1. ~dispatching /\ open
  BY DEF CanMutate
<1>2. /\ StackOps(calls) = {}
      /\ DataOK
      /\ items # <<>> => life[Len(items)] = "active"
      /\ \A s \in Scenes : held[s] = Occurrences(items, s) /\ Occurrences(items, s) \in Nat
  BY <1>1, Quiescent
<1>3. Waiting(calls', r) /\ dispatching' = TRUE /\ ret' = ret
  <2>1. Calm(c) /\ r.fn \in StackOp
    BY <1>2 DEF Caller, Calm, StackCall
  <2> QED  BY <2>1, Begun DEF Begin
<1>4. DataOK'
  BY <1>2, <1>3 DEF DataOK
<1>5. \A s \in Scenes :
        held'[s] = Occurrences(items', s)
                     + IF r.fn = "replace" /\ r.pc = "leave" /\ r.arg = s THEN 1 ELSE 0
  BY <1>2
<1>6. r.fn \in Walk => r.idx \in 1 .. Len(items') /\ Reached(r.fn, r.idx)'
  BY DEF Reached
<1> QED  BY <1>1, <1>2, <1>3, <1>4, <1>5, <1>6, WaitKeepsIInv

LEMMA PushKeepsIInv ==
  ASSUME IInv, NEW c, Caller(c), NEW s \in Scenes, Push(c, s), UNCHANGED <<items, open, life, held>>
  PROVE  IInv'
<1>1. CASE ~CanMutate
  BY <1>1, Refused, Statused DEF Push
<1>2. CASE CanMutate /\ Len(items) = Capacity
  BY <1>2, Refused, Statused DEF Push
<1>3. CASE CanMutate /\ Len(items) # Capacity
  <2> DEFINE r == Call("push", IF items = <<>> THEN "enter" ELSE "pause", s, 0)
  <2>1. r \in StackCall
    BY DEF Call, StackCall, StackOp, Mutation
  <2>2. Begin(c, r)
    BY <1>3 DEF Push, BeginEnter
  <2>3. Len(items) < Capacity
    BY <1>3, SceneAssumption DEF IInv, DataOK
  <2>4. /\ r.fn = "push" /\ r.arg = s
        /\ r.pc = IF items = <<>> THEN "enter" ELSE "pause"
    BY DEF Call
  <2>5. <<r.fn, r.pc>> \in Stages
    BY <2>4 DEF Stages
  <2> HIDE DEF r
  <2> QED  BY <1>3, <2>1, <2>2, <2>3, <2>4, <2>5, BeginKeepsIInv DEF Walk, FrameWalk
<1> QED  BY <1>1, <1>2, <1>3

LEMMA ReplaceKeepsIInv ==
  ASSUME IInv, NEW c, Caller(c), NEW s \in Scenes, Replace(c, s), UNCHANGED <<items, open, life, held>>
  PROVE  IInv'
<1>1. CASE ~CanMutate
  BY <1>1, Refused, Statused DEF Replace
<1>2. CASE CanMutate /\ items = <<>>
  BY <1>2, PushKeepsIInv DEF Replace
<1>3. CASE CanMutate /\ items # <<>>
  <2> DEFINE r == Call("replace", "pause", s, 0)
  <2>1. r \in StackCall
    BY DEF Call, StackCall, StackOp, Mutation
  <2>2. Begin(c, r)
    BY <1>3 DEF Replace, BeginEnter
  <2>3. r.fn = "replace" /\ r.arg = s /\ r.pc = "pause"
    BY DEF Call
  <2>4. <<r.fn, r.pc>> \in Stages
    BY <2>3 DEF Stages
  <2> HIDE DEF r
  <2> QED  BY <1>3, <2>1, <2>2, <2>3, <2>4, BeginKeepsIInv DEF Walk, FrameWalk
<1> QED  BY <1>1, <1>2, <1>3

LEMMA PopKeepsIInv ==
  ASSUME IInv, NEW c, Caller(c), Pop(c), UNCHANGED <<items, open, life, held>>
  PROVE  IInv'
<1>1. CASE ~CanMutate
  BY <1>1, Refused, Statused DEF Pop
<1>2. CASE CanMutate /\ items = <<>>
  BY <1>2, Refused, Statused DEF Pop
<1>3. CASE CanMutate /\ items # <<>>
  <2> DEFINE r == Call("pop", "leave", NoScene, 0)
  <2>1. r \in StackCall
    BY DEF Call, StackCall, StackOp, Mutation
  <2>2. Begin(c, r)
    BY <1>3 DEF Pop
  <2>3. r.fn = "pop" /\ r.pc = "leave"
    BY DEF Call
  <2>4. <<r.fn, r.pc>> \in Stages
    BY <2>3 DEF Stages
  <2> HIDE DEF r
  <2> QED  BY <1>3, <2>1, <2>2, <2>3, <2>4, BeginKeepsIInv DEF Walk, FrameWalk
<1> QED  BY <1>1, <1>2, <1>3

LEMMA DispatchFramesKeepsIInv ==
  ASSUME IInv, NEW c, Caller(c), NEW kind \in FrameWalk, DispatchFrames(c, kind),
         UNCHANGED <<items, open, life, held>>
  PROVE  IInv'
<1>1. CASE ~CanMutate
  BY <1>1, Refused, Statused DEF DispatchFrames
<1>2. CASE CanMutate /\ items = <<>>
  BY <1>2, Refused, Statused DEF DispatchFrames
<1>3. CASE CanMutate /\ items # <<>>
  <2> DEFINE r == Call(kind, "call", NoScene, First(kind))
  <2>1. /\ First(kind) \in 1 .. Len(items)
        /\ Reached(kind, First(kind))
    BY <1>3, SceneAssumption, FirstProperties DEF IInv, DataOK, Reached, FrameWalk
  <2>2. r \in StackCall
    <3>1. First(kind) \in Nat
      BY <2>1 DEF IInv, DataOK
    <3> QED  BY <3>1 DEF Call, StackCall, StackOp, Walk
  <2>3. Begin(c, r)
    BY <1>3 DEF DispatchFrames
  <2>4. r.fn = kind /\ r.pc = "call" /\ r.idx = First(kind)
    BY DEF Call
  <2>5. <<r.fn, r.pc>> \in Stages /\ r.fn \notin {"push", "replace", "event"}
    BY <2>4 DEF Stages, Walk, FrameWalk
  <2> HIDE DEF r
  <2> QED  BY <1>3, <2>1, <2>2, <2>3, <2>4, <2>5, BeginKeepsIInv
<1> QED  BY <1>1, <1>2, <1>3

LEMMA DispatchEventKeepsIInv ==
  ASSUME IInv, NEW c, Caller(c), DispatchEvent(c), UNCHANGED <<items, open, life, held>>
  PROVE  IInv'
<1>1. CASE ~CanMutate
  BY <1>1, Refused, Statused DEF DispatchEvent
<1>2. CASE CanMutate /\ items = <<>>
  BY <1>2, Refused, Statused DEF DispatchEvent
<1>3. CASE CanMutate /\ items # <<>>
  <2> DEFINE r == Call("event", "call", NoScene, Len(items))
  <2>1. Len(items) \in Nat /\ Len(items) \in 1 .. Len(items)
    BY <1>3, EmptySeq DEF IInv, DataOK
  <2>2. r \in StackCall
    BY <2>1 DEF Call, StackCall, StackOp, Walk
  <2>3. Begin(c, r)
    BY <1>3 DEF DispatchEvent
  <2>4. r.fn = "event" /\ r.pc = "call" /\ r.idx = Len(items)
    BY DEF Call
  <2>5. <<r.fn, r.pc>> \in Stages
    BY <2>4 DEF Stages, Walk
  <2>6. Reached("event", Len(items))
    BY <2>1 DEF Reached
  <2> HIDE DEF r
  <2> QED  BY <1>3, <2>1, <2>2, <2>3, <2>4, <2>5, <2>6, BeginKeepsIInv
<1> QED  BY <1>1, <1>2, <1>3

LEMMA DisposeKeepsIInv ==
  ASSUME IInv, NEW c, Caller(c), Dispose(c), UNCHANGED <<items, life, held>>
  PROVE  IInv'
<1>1. CASE ~(CanMutate /\ items # <<>>)
  <2>1. Refuse(c, "ok") /\ open' = (open /\ dispatching)
    BY <1>1 DEF Dispose
  <2>2. Caller(calls') /\ ret' \in Statuses /\ UNCHANGED dispatching
    BY <2>1 DEF Refuse, Statuses
  <2>3. open' \in BOOLEAN /\ (dispatching => open' = open)
    BY <2>1 DEF IInv, DataOK, CallInv
  <2> QED  BY <2>2, <2>3, RefusalKeepsIInv
<1>2. CASE CanMutate /\ items # <<>>
  <2> DEFINE r == Call("dispose", "leave", NoScene, Len(items))
  <2>1. r \in StackCall
    <3>1. Len(items) \in Nat
      BY DEF IInv, DataOK
    <3> QED  BY <3>1 DEF Call, StackCall, StackOp, Mutation
  <2>2. Begin(c, r) /\ open' = open
    BY <1>2 DEF Dispose
  <2>3. r.fn = "dispose" /\ r.pc = "leave"
    BY DEF Call
  <2>4. <<r.fn, r.pc>> \in Stages
    BY <2>3 DEF Stages
  <2> HIDE DEF r
  <2> QED  BY <1>2, <2>1, <2>2, <2>3, <2>4, BeginKeepsIInv DEF Walk, FrameWalk
<1> QED  BY <1>1, <1>2

-----------------------------------------------------------------------------
(* Returns of callbacks.                                                   *)

LEMMA Facts ==
  ASSUME IInv, calls # <<>>, Top.fn \in Names
  PROVE  /\ StackOps(calls) = {Top} /\ Calm(Callers)
         /\ dispatching = TRUE /\ ReliesOn(Top)
<1>1. StackOps(calls) = {Top} /\ Calm(Callers)
  BY OnTop, StackNames DEF IInv, CallInv
<1> QED  BY <1>1 DEF IInv, CallInv

\* An operation that moves on to its next callback, its record otherwise the same.
LEMMA AtProperties ==
  ASSUME IInv, calls # <<>>, Top.fn \in Names,
         NEW pc \in {"pause", "enter", "undo", "leave", "resume", "call"}
  PROVE  \E r \in StackCall :
           /\ Waiting(At(pc), r)
           /\ r.fn = Top.fn /\ r.pc = pc /\ r.arg = Top.arg /\ r.idx = Top.idx
<1>1. Top \in StackCall /\ Calm(Callers)
  BY Facts DEF ReliesOn
<1> DEFINE r == [Top EXCEPT !.pc = pc]
<1>2. r \in StackCall /\ r.fn = Top.fn /\ r.pc = pc /\ r.arg = Top.arg /\ r.idx = Top.idx
  BY <1>1 DEF StackCall
<1>3. Waiting(At(pc), r)
  <2>1. r.fn \in StackOp
    BY <1>2, StackNames
  <2> HIDE DEF r
  <2>2. Waiting(Append(Callers, r), r)
    BY <1>1, <2>1, Begun
  <2> QED  BY <2>2 DEF At, r
<1> QED  BY <1>2, <1>3

LEMMA IInvData == ASSUME IInv PROVE DataOK /\ Len(items) \in Nat
<1>1. DataOK
  BY DEF IInv
<1> QED  BY <1>1 DEF DataOK

\* How often a scene is on the stack while the operation on top is in progress.
LEMMA Counts ==
  ASSUME IInv, calls # <<>>, Top.fn \in Names
  PROVE  \A s \in Scenes :
           /\ Occurrences(items, s) \in Nat
           /\ ~(Top.fn = "replace" /\ Top.pc = "leave") => held[s] = Occurrences(items, s)
           /\ Top.fn = "replace" /\ Top.pc = "leave" =>
                held[s] = Occurrences(items, s) + IF Top.arg = s THEN 1 ELSE 0
<1> TAKE s \in Scenes
<1>1. Occurrences(items, s) \in Nat
  BY OccurrencesAppend DEF IInv, DataOK
<1>2. StackOps(calls) = {Top}
  BY Facts
<1> QED  BY <1>1, <1>2 DEF IInv, HeldInv, Entering

\* What the top scene has been told.
LEMMA TopTold ==
  ASSUME IInv, calls # <<>>, Top.fn \in Names \ {"dispose"}, items # <<>>
  PROVE  life[Len(items)] = IF TopPaused(Top) THEN "paused" ELSE "active"
<1>1. StackOps(calls) = {Top}
  BY Facts
<1> QED  BY <1>1 DEF IInv, LifeInv

\* Telling the top scene that it is active or paused.
LEMMA SetTopProperties ==
  ASSUME DataOK, items # <<>>, NEW st \in {"active", "paused"}
  PROVE  /\ SetTop(st) \in Seq({"active", "paused"})
         /\ Len(SetTop(st)) = Len(items)
         /\ SetTop(st)[Len(items)] = st
         /\ \A i \in 1 .. Len(items) - 1 : SetTop(st)[i] = "paused"
<1>1. Len(items) \in Nat \ {0} /\ Len(life) = Len(items) /\ Len(life) \in 1 .. Len(life)
  BY EmptySeq DEF DataOK
<1>2. SetTop(st) = [life EXCEPT ![Len(life)] = st]
  BY DEF SetTop
<1>3. life \in Seq({"active", "paused"})
  BY DEF DataOK
<1>4. /\ SetTop(st) \in Seq({"active", "paused"})
      /\ Len(SetTop(st)) = Len(life)
      /\ \A i \in 1 .. Len(life) : SetTop(st)[i] = IF i = Len(life) THEN st ELSE life[i]
  BY <1>1, <1>2, <1>3, ExceptSeq
<1>5. SetTop(st)[Len(items)] = st
  BY <1>1, <1>4
<1>6. ASSUME NEW i \in 1 .. Len(items) - 1  PROVE SetTop(st)[i] = "paused"
  <2>1. i \in 1 .. Len(life) /\ i # Len(life)
    BY <1>1
  <2>2. life[i] = "paused"
    BY DEF DataOK
  <2> QED  BY <1>4, <2>1, <2>2
<1> QED  BY <1>1, <1>4, <1>5, <1>6

LEMMA PauseReturnsKeepsIInv ==
  ASSUME IInv, PauseReturns
  PROVE  IInv'
<1>1. calls # <<>> /\ Top.fn \in {"push", "replace"} /\ Top.pc = "pause"
  BY DEF PauseReturns, Running
<1>2. /\ life' = SetTop("paused") /\ calls' = At("enter")
      /\ UNCHANGED <<items, dispatching, open, ret, held>>
  BY DEF PauseReturns
<1>3. PICK r \in StackCall :
        Waiting(calls', r) /\ r.fn = Top.fn /\ r.pc = "enter" /\ r.arg = Top.arg
  BY <1>1, <1>2, AtProperties DEF Names
<1>4. items # <<>>
  BY <1>1, Facts DEF ReliesOn, Names
<1>5. DataOK' /\ life'[Len(items')] = "paused"
  BY <1>2, <1>4, SetTopProperties, IInvData DEF DataOK
<1>6. \A s \in Scenes : held'[s] = Occurrences(items', s) /\ Occurrences(items', s) \in Nat
  BY <1>1, <1>2, Counts DEF Names
<1>7. <<r.fn, r.pc>> \in Stages /\ r.fn \notin Walk /\ r.fn # "dispose"
  BY <1>1, <1>3 DEF Stages, Walk, FrameWalk
<1>8. dispatching' = TRUE /\ open' /\ r.arg \in Scenes /\ (r.fn = "push" => Len(items') < Capacity)
  BY <1>1, <1>2, <1>3, Facts DEF ReliesOn, Names
<1> QED  BY <1>2, <1>3, <1>4, <1>5, <1>6, <1>7, <1>8, WaitKeepsIInv

LEMMA PushEnteredKeepsIInv ==
  ASSUME IInv, PushEntered
  PROVE  IInv'
<1>1. calls # <<>> /\ Top.fn = "push" /\ Top.pc = "enter"
  BY DEF PushEntered, Running
<1>2. /\ items' = Append(items, Top.arg) /\ life' = Append(life, "active")
      /\ held' = [held EXCEPT ![Top.arg] = @ + 1]
      /\ calls' = Callers /\ ret' = "ok" /\ dispatching' = FALSE /\ open' = open
  BY DEF PushEntered, Acquire, Finish
<1>3. DataOK /\ Len(items) \in Nat /\ Top.arg \in Scenes /\ Calm(Callers) /\ Len(items) < Capacity
  BY <1>1, Facts, IInvData DEF ReliesOn, Names
<1>4. /\ items' \in Seq(Scenes) /\ Len(items') = Len(items) + 1
      /\ life' \in Seq({"active", "paused"}) /\ Len(life') = Len(items) + 1
      /\ life'[Len(items')] = "active"
      /\ \A i \in 1 .. Len(items) : life'[i] = life[i]
  BY <1>2, <1>3, AppendProperties DEF DataOK
<1>5. \A i \in 1 .. Len(items') - 1 : life'[i] = "paused"
  <2>1. items # <<>> => life[Len(items)] = "paused"
    BY <1>1, TopTold DEF TopPaused, Names
  <2>2. \A i \in 1 .. Len(items) : i # Len(items) => life[i] = "paused"
    BY <1>3 DEF DataOK
  <2>3. \A i \in 1 .. Len(items) : items # <<>>
    BY <1>3, EmptySeq
  <2> QED  BY <1>3, <1>4, <2>1, <2>2, <2>3
<1>6. Len(items') <= Capacity
  BY <1>3, <1>4, SceneAssumption
<1>7. DataOK'
  BY <1>2, <1>3, <1>4, <1>5, <1>6 DEF DataOK, Statuses
<1>8. ASSUME NEW s \in Scenes  PROVE held'[s] = Occurrences(items', s)
  <2>1. held[s] = Occurrences(items, s) /\ Occurrences(items, s) \in Nat
    BY <1>1, Counts DEF Names
  <2>2. Occurrences(items', s) = Occurrences(items, s) + IF Top.arg = s THEN 1 ELSE 0
    BY <1>2, <1>3, OccurrencesAppend DEF DataOK
  <2>3. held'[s] = IF Top.arg = s THEN held[s] + 1 ELSE held[s]
    BY <1>2, <1>3 DEF DataOK
  <2> QED  BY <2>1, <2>2, <2>3
<1> QED  BY <1>2, <1>3, <1>4, <1>7, <1>8, ReturnKeepsIInv

LEMMA ReplaceEnteredKeepsIInv ==
  ASSUME IInv, ReplaceEntered
  PROVE  IInv'
<1>1. calls # <<>> /\ Top.fn = "replace" /\ Top.pc = "enter"
  BY DEF ReplaceEntered, Running
<1>2. /\ calls' = At("leave") /\ held' = [held EXCEPT ![Top.arg] = @ + 1]
      /\ UNCHANGED <<items, dispatching, open, ret, life>>
  BY DEF ReplaceEntered, Acquire
<1>3. PICK r \in StackCall :
        Waiting(calls', r) /\ r.fn = "replace" /\ r.pc = "leave" /\ r.arg = Top.arg
  BY <1>1, <1>2, AtProperties DEF Names
<1>4. /\ DataOK /\ items # <<>> /\ r.arg \in Scenes
      /\ dispatching' = TRUE /\ open' /\ life'[Len(items')] = "paused"
  BY <1>1, <1>2, <1>3, Facts, IInvData, TopTold DEF TopPaused, ReliesOn, Names
<1>5. DataOK'
  BY <1>2, <1>3, <1>4 DEF DataOK
<1>6. ASSUME NEW s \in Scenes
      PROVE  held'[s] = Occurrences(items', s) + IF r.arg = s THEN 1 ELSE 0
  <2>1. held[s] = Occurrences(items, s) /\ Occurrences(items, s) \in Nat
    BY <1>1, Counts DEF Names
  <2>2. held'[s] = IF r.arg = s THEN held[s] + 1 ELSE held[s]
    BY <1>2, <1>3, <1>4 DEF DataOK
  <2> QED  BY <1>2, <2>1, <2>2
<1>7. <<r.fn, r.pc>> \in Stages /\ r.fn \notin Walk
  BY <1>3 DEF Stages, Walk, FrameWalk
<1> QED  BY <1>2, <1>3, <1>4, <1>5, <1>6, <1>7, WaitKeepsIInv

LEMMA EnterRejectedKeepsIInv ==
  ASSUME IInv, EnterRejected
  PROVE  IInv'
<1>1. calls # <<>> /\ Top.fn \in {"push", "replace"} /\ Top.pc = "enter"
  BY DEF EnterRejected, Running
<1>2. UNCHANGED <<items, open, life, held>>
  BY DEF EnterRejected
<1>3. \A s \in Scenes : held'[s] = Occurrences(items', s) /\ Occurrences(items', s) \in Nat
  BY <1>1, <1>2, Counts DEF Names
<1>4. CASE items = <<>>
  <2>1. Calm(calls') /\ dispatching' = FALSE /\ ret' = "rejected"
    BY <1>1, <1>4, Facts DEF EnterRejected, Finish, ReliesOn, Names
  <2>2. DataOK'
    BY <1>2, <2>1, IInvData DEF DataOK, Statuses
  <2> QED  BY <1>2, <1>3, <1>4, <2>1, <2>2, ReturnKeepsIInv
<1>5. CASE items # <<>>
  <2>1. calls' = At("undo") /\ UNCHANGED <<dispatching, ret>>
    BY <1>5 DEF EnterRejected
  <2>2. PICK r \in StackCall :
          Waiting(calls', r) /\ r.fn = Top.fn /\ r.pc = "undo" /\ r.arg = Top.arg
    BY <1>1, <2>1, AtProperties DEF Names
  <2>3. /\ dispatching' = TRUE /\ open' /\ life'[Len(items')] = "paused"
        /\ r.arg \in Scenes /\ (r.fn = "push" => Len(items') < Capacity)
    BY <1>1, <1>2, <1>5, <2>1, <2>2, Facts, TopTold DEF TopPaused, ReliesOn, Names
  <2>4. DataOK'
    BY <1>2, <2>1, IInvData DEF DataOK
  <2>5. <<r.fn, r.pc>> \in Stages /\ r.fn \notin Walk /\ r.fn # "dispose"
    BY <1>1, <2>2 DEF Stages, Walk, FrameWalk
  <2> QED  BY <1>2, <1>3, <1>5, <2>2, <2>3, <2>4, <2>5, WaitKeepsIInv
<1> QED  BY <1>4, <1>5

LEMMA UndoReturnsKeepsIInv ==
  ASSUME IInv, UndoReturns
  PROVE  IInv'
<1>1. calls # <<>> /\ Top.fn \in {"push", "replace"} /\ Top.pc = "undo"
  BY DEF UndoReturns, Running
<1>2. /\ life' = SetTop("active") /\ UNCHANGED <<items, open, held>>
      /\ calls' = Callers /\ dispatching' = FALSE /\ ret' = "rejected"
  BY DEF UndoReturns, Finish
<1>3. items # <<>> /\ Calm(Callers)
  BY <1>1, Facts DEF ReliesOn, Names
<1>4. DataOK' /\ life'[Len(items')] = "active"
  BY <1>2, <1>3, SetTopProperties, IInvData DEF DataOK, Statuses
<1>5. \A s \in Scenes : held'[s] = Occurrences(items', s)
  BY <1>1, <1>2, Counts DEF Names
<1> QED  BY <1>2, <1>3, <1>4, <1>5, ReturnKeepsIInv

LEMMA ResumeReturnsKeepsIInv ==
  ASSUME IInv, ResumeReturns
  PROVE  IInv'
<1>1. calls # <<>> /\ Top.fn = "pop" /\ Top.pc = "resume"
  BY DEF ResumeReturns, Running
<1>2. /\ life' = SetTop("active") /\ UNCHANGED <<items, open, held>>
      /\ calls' = Callers /\ dispatching' = FALSE /\ ret' = "ok"
  BY DEF ResumeReturns, Finish
<1>3. items # <<>> /\ Calm(Callers)
  BY <1>1, Facts DEF ReliesOn, Names
<1>4. DataOK' /\ life'[Len(items')] = "active"
  BY <1>2, <1>3, SetTopProperties, IInvData DEF DataOK, Statuses
<1>5. \A s \in Scenes : held'[s] = Occurrences(items', s)
  BY <1>1, <1>2, Counts DEF Names
<1> QED  BY <1>2, <1>3, <1>4, <1>5, ReturnKeepsIInv

LEMMA ReplaceLeftKeepsIInv ==
  ASSUME IInv, ReplaceLeft
  PROVE  IInv'
<1>1. calls # <<>> /\ Top.fn = "replace" /\ Top.pc = "leave"
  BY DEF ReplaceLeft, Running
<1>2. /\ items' = [items EXCEPT ![Len(items)] = Top.arg] /\ life' = SetTop("active")
      /\ held' = [held EXCEPT ![items[Len(items)]] = @ - 1]
      /\ calls' = Callers /\ ret' = "ok" /\ dispatching' = FALSE /\ open' = open
  BY DEF ReplaceLeft, Release, TopScene, Finish
<1>3. items # <<>> /\ Calm(Callers) /\ Top.arg \in Scenes /\ DataOK
  BY <1>1, Facts, IInvData DEF ReliesOn, Names
<1>4. items \in Seq(Scenes) /\ Len(items) \in 1 .. Len(items) /\ items[Len(items)] \in Scenes
  BY <1>3, EmptySeq DEF DataOK
<1>5. items' \in Seq(Scenes) /\ Len(items') = Len(items)
  BY <1>2, <1>3, <1>4, ExceptSeq
<1>6. DataOK' /\ life'[Len(items')] = "active"
  BY <1>2, <1>3, <1>5, SetTopProperties DEF DataOK, Statuses
<1>7. ASSUME NEW s \in Scenes  PROVE held'[s] = Occurrences(items', s)
  <2> DEFINE n == Occurrences(Below(items), s)
             top == items[Len(items)]
  <2>1. Below(items) \in Seq(Scenes) /\ items = Append(Below(items), top)
        /\ items' = Append(Below(items), Top.arg)
    BY <1>2, <1>3, <1>4, BelowProperties
  <2>2. /\ n \in Nat
        /\ Occurrences(items, s) = n + IF top = s THEN 1 ELSE 0
        /\ Occurrences(items', s) = n + IF Top.arg = s THEN 1 ELSE 0
    <3> HIDE DEF top
    <3>1. Below(items) \in Seq(Scenes) /\ top \in Scenes /\ Top.arg \in Scenes
      BY <1>3, <1>4, <2>1 DEF top
    <3>2. \A x \in Scenes :
            /\ n \in Nat
            /\ Occurrences(Append(Below(items), x), s) = n + IF x = s THEN 1 ELSE 0
      BY <3>1, OccurrencesAppend
    <3>3. /\ Occurrences(items, s) = Occurrences(Append(Below(items), top), s)
          /\ Occurrences(items', s) = Occurrences(Append(Below(items), Top.arg), s)
      BY <2>1, Zenon
    <3> QED  BY <3>1, <3>2, <3>3, Zenon
  <2>3. held[s] = Occurrences(items, s) + IF Top.arg = s THEN 1 ELSE 0
    BY <1>1, Counts DEF Names
  <2>4. held'[s] = IF top = s THEN held[s] - 1 ELSE held[s]
    BY <1>2, <1>3, <1>4 DEF DataOK
  <2> HIDE DEF n, top
  <2> QED  BY <2>2, <2>3, <2>4
<1> QED  BY <1>2, <1>3, <1>6, <1>7, ReturnKeepsIInv

\* The top scene leaves and its place on the stack goes with it.
LEMMA TopLeaves ==
  ASSUME IInv, calls # <<>>, Top.fn \in {"pop", "dispose"}, Top.pc = "leave",
         items' = Below(items), life' = Below(life), Release(items[Len(items)]),
         open' \in BOOLEAN, ret' \in Statuses
  PROVE  /\ DataOK'
         /\ items # <<>>
         /\ Len(items') = Len(items) - 1
         /\ items' # <<>> => life'[Len(items')] = "paused"
         /\ \A s \in Scenes :
              held'[s] = Occurrences(items', s) /\ Occurrences(items', s) \in Nat
<1>1. items # <<>> /\ DataOK /\ Len(items) \in Nat /\ Capacity \in Nat
  BY Facts, IInvData, SceneAssumption DEF ReliesOn, Names
<1>2. items \in Seq(Scenes) /\ Len(items) \in Nat \ {0} /\ items[Len(items)] \in Scenes
  BY <1>1, EmptySeq DEF DataOK
<1>3. /\ items' \in Seq(Scenes) /\ Len(items') = Len(items) - 1
      /\ items = Append(items', items[Len(items)])
  BY <1>1, <1>2, BelowProperties
<1>4. life \in Seq({"active", "paused"}) /\ Len(life) = Len(items) /\ life # <<>>
  BY <1>1, <1>2, EmptySeq DEF DataOK
<1>5. /\ life' \in Seq({"active", "paused"}) /\ Len(life') = Len(items')
      /\ \A i \in 1 .. Len(items) - 1 : life'[i] = life[i]
  BY <1>3, <1>4, BelowProperties
<1>6. \A i \in 1 .. Len(items') : life'[i] = "paused"
  BY <1>1, <1>3, <1>5 DEF DataOK
<1>7. items' # <<>> => Len(items') \in 1 .. Len(items')
  BY <1>3, EmptySeq
<1>8. held' \in [Scenes -> Int]
  BY <1>1, <1>2 DEF DataOK, Release
<1>9. Len(items') <= Capacity /\ \A i \in 1 .. Len(items') - 1 : life'[i] = "paused"
  BY <1>1, <1>2, <1>3, <1>6 DEF DataOK
<1>10. DataOK'
  BY <1>3, <1>5, <1>8, <1>9 DEF DataOK
<1>11. ASSUME NEW s \in Scenes
       PROVE  held'[s] = Occurrences(items', s) /\ Occurrences(items', s) \in Nat
  <2> DEFINE top == items[Len(items)]
  <2>1. held[s] = Occurrences(items, s)
    BY Counts DEF Names
  <2>2. held'[s] = IF top = s THEN held[s] - 1 ELSE held[s]
    BY <1>1, <1>2 DEF DataOK, Release
  <2>3. top \in Scenes /\ items = Append(items', top)
    BY <1>2, <1>3
  <2> HIDE DEF top
  <2>4. /\ Occurrences(items', s) \in Nat
        /\ Occurrences(items, s) = Occurrences(items', s) + IF top = s THEN 1 ELSE 0
    <3>1. items' \in Seq(Scenes) /\ top \in Scenes
      BY <1>3, <2>3
    <3>2. /\ Occurrences(items', s) \in Nat
          /\ Occurrences(Append(items', top), s)
               = Occurrences(items', s) + IF top = s THEN 1 ELSE 0
      BY <3>1, OccurrencesAppend
    <3>3. items = Append(items', top)
      BY <2>3
    <3>4. Occurrences(items, s) = Occurrences(Append(items', top), s)
      BY <3>3, Zenon
    <3> QED  BY <3>2, <3>4, Zenon
  <2> QED  BY <2>1, <2>2, <2>4
<1> QED  BY <1>1, <1>3, <1>6, <1>7, <1>10, <1>11

LEMMA PopLeftKeepsIInv ==
  ASSUME IInv, PopLeft
  PROVE  IInv'
<1>1. calls # <<>> /\ Top.fn = "pop" /\ Top.pc = "leave"
  BY DEF PopLeft, Running
<1>2. /\ items' = Below(items) /\ life' = Below(life) /\ open' = open
      /\ Release(items[Len(items)])
  BY DEF PopLeft, TopScene
<1>3. Calm(Callers) /\ open /\ dispatching = TRUE /\ DataOK
  BY <1>1, Facts, IInvData DEF ReliesOn, Names
<1>4. ret' \in Statuses /\ open' \in BOOLEAN
  BY <1>2, <1>3 DEF PopLeft, Finish, Statuses, DataOK
<1>5. /\ DataOK' /\ items # <<>> /\ Len(items') = Len(items) - 1
      /\ items' # <<>> => life'[Len(items')] = "paused"
      /\ \A s \in Scenes :
           held'[s] = Occurrences(items', s) /\ Occurrences(items', s) \in Nat
  BY <1>1, <1>2, <1>4, TopLeaves DEF Names
<1>6. CASE Len(items) > 1
  <2>1. calls' = At("resume") /\ UNCHANGED <<dispatching, ret>>
    BY <1>6 DEF PopLeft
  <2>2. PICK r \in StackCall : Waiting(calls', r) /\ r.fn = "pop" /\ r.pc = "resume"
    BY <1>1, <2>1, AtProperties DEF Names
  <2>3. items' # <<>>
    BY <1>5, <1>6, EmptySeq
  <2>4. <<r.fn, r.pc>> \in Stages /\ r.fn \notin Walk
    BY <2>2 DEF Stages, Walk, FrameWalk
  <2> QED  BY <1>2, <1>3, <1>5, <2>1, <2>2, <2>3, <2>4, WaitKeepsIInv
<1>7. CASE ~(Len(items) > 1)
  <2>1. Calm(calls') /\ dispatching' = FALSE
    BY <1>3, <1>7 DEF PopLeft, Finish
  <2>2. items' = <<>>
    BY <1>2, <1>5, <1>7, EmptySeq, IInvData DEF DataOK
  <2> QED  BY <1>5, <2>1, <2>2, ReturnKeepsIInv
<1> QED  BY <1>6, <1>7

LEMMA DisposeLeftKeepsIInv ==
  ASSUME IInv, DisposeLeft
  PROVE  IInv'
<1>1. calls # <<>> /\ Top.fn = "dispose" /\ Top.pc = "leave"
  BY DEF DisposeLeft, Running
<1>2. /\ items' = Below(items) /\ life' = Below(life)
      /\ Release(items[Len(items)])
  BY DEF DisposeLeft, TopScene
<1>3. /\ Calm(Callers) /\ open /\ dispatching = TRUE /\ DataOK
      /\ Top \in StackCall /\ Waiting(calls, Top) /\ <<Top.fn, Top.pc>> \in Stages
  BY <1>1, Facts, IInvData DEF IInv, CallInv, ReliesOn, Waiting, Names
<1>4. ret' \in Statuses /\ open' \in BOOLEAN
  BY <1>3 DEF DisposeLeft, Finish, Statuses, DataOK
<1>5. /\ DataOK' /\ items # <<>> /\ Len(items') = Len(items) - 1
      /\ \A s \in Scenes :
           held'[s] = Occurrences(items', s) /\ Occurrences(items', s) \in Nat
  BY <1>1, <1>2, <1>4, TopLeaves DEF Names
<1>6. CASE Len(items) > 1
  <2>1. UNCHANGED <<open, calls, dispatching, ret>>
    BY <1>6 DEF DisposeLeft
  <2>2. items' # <<>>
    BY <1>5, <1>6, EmptySeq
  <2>3. PICK r \in StackCall : r = Top
    BY <1>3
  <2>4. /\ Waiting(calls', r) /\ r.fn = "dispose" /\ r.pc = "leave"
        /\ <<r.fn, r.pc>> \in Stages /\ r.fn \notin Walk
    BY <1>1, <1>3, <2>1, <2>3 DEF Walk, FrameWalk
  <2> QED  BY <1>3, <1>5, <2>1, <2>2, <2>4, WaitKeepsIInv
<1>7. CASE ~(Len(items) > 1)
  <2>1. Calm(calls') /\ dispatching' = FALSE
    BY <1>3, <1>7 DEF DisposeLeft, Finish
  <2>2. items' = <<>>
    BY <1>2, <1>5, <1>7, EmptySeq, IInvData DEF DataOK
  <2> QED  BY <1>5, <2>1, <2>2, ReturnKeepsIInv
<1> QED  BY <1>6, <1>7

\* A walk that stops after any callback returns with the stack as it was.
LEMMA WalkStops ==
  ASSUME IInv, calls # <<>>, Top.fn \in Walk, UNCHANGED <<items, open, life, held>>,
         NEW status \in Statuses, Finish(status)
  PROVE  IInv'
<1>1. Calm(calls') /\ dispatching' = FALSE /\ ret' = status
  BY Facts DEF Finish, ReliesOn, Names
<1>2. DataOK'
  BY <1>1, IInvData DEF DataOK
<1>3. items # <<>> => life[Len(items)] = "active"
  <2>1. Top.fn \notin {"dispose", "replace"} /\ Top.pc = "call"
    BY Facts DEF Stages, Walk, FrameWalk, ReliesOn, Names
  <2> QED  BY <2>1, TopTold DEF TopPaused, Names
<1>4. \A s \in Scenes : held[s] = Occurrences(items, s)
  <2>1. Top.fn # "replace"
    BY DEF Walk, FrameWalk
  <2> QED  BY <2>1, Counts DEF Names
<1> QED  BY <1>1, <1>2, <1>3, <1>4, ReturnKeepsIInv

\* A walk that moves to the scene at k, which the flags let it reach.
LEMMA WalkMoves ==
  ASSUME IInv, calls # <<>>, Top.fn \in Walk,
         UNCHANGED <<items, dispatching, open, ret, life, held>>,
         NEW k \in 1 .. Len(items),
         calls' = Append(Callers, [Top EXCEPT !.idx = k]),
         Reached(Top.fn, k)
  PROVE  IInv'
<1> DEFINE r == [Top EXCEPT !.idx = k]
<1>1. /\ Top \in StackCall /\ Calm(Callers) /\ dispatching = TRUE /\ open
      /\ items # <<>> /\ <<Top.fn, Top.pc>> \in Stages
  BY Facts DEF Walk, FrameWalk, ReliesOn, Names
<1>2. Len(items) \in Nat /\ DataOK
  BY IInvData
<1>3. r \in StackCall /\ r.fn = Top.fn /\ r.pc = Top.pc /\ r.idx = k /\ Waiting(calls', r)
  <2>1. r \in StackCall /\ r.fn = Top.fn /\ r.pc = Top.pc /\ r.idx = k
    BY <1>1, <1>2 DEF StackCall
  <2>2. r.fn \in StackOp /\ calls' = Append(Callers, r)
    BY <2>1 DEF StackOp
  <2> HIDE DEF r
  <2> QED  BY <1>1, <2>1, <2>2, Begun
<1>4. r.fn \notin {"push", "replace", "dispose"} /\ r.pc = "call"
  BY <1>1, <1>3 DEF Stages, Walk, FrameWalk
<1>5. life[Len(items)] = "active"
  BY <1>1, <1>3, <1>4, TopTold DEF TopPaused, Names
<1>6. \A s \in Scenes : held[s] = Occurrences(items, s) /\ Occurrences(items, s) \in Nat
  BY <1>3, <1>4, Counts DEF Names
<1>7. DataOK'
  BY <1>2 DEF DataOK
<1>8. \A s \in Scenes :
        held'[s] = Occurrences(items', s)
                     + IF r.fn = "replace" /\ r.pc = "leave" /\ r.arg = s THEN 1 ELSE 0
  BY <1>4, <1>6
<1> HIDE DEF r
<1>9. PICK q \in StackCall : q = r
  BY <1>3
<1>10. q.idx \in 1 .. Len(items') /\ Reached(q.fn, q.idx)'
  <2>1. Reached(q.fn, q.idx)
    BY <1>3, <1>9
  <2> QED  BY <1>3, <1>9, <2>1 DEF Reached, FlagFor
<1> QED  BY <1>1, <1>3, <1>4, <1>5, <1>7, <1>8, <1>9, <1>10, WaitKeepsIInv

LEMMA WalkReturnsKeepsIInv ==
  ASSUME IInv, NEW status \in {"ok", "rejected"}, WalkReturns(status)
  PROVE  IInv'
<1>1. calls # <<>> /\ Top.fn \in FrameWalk /\ UNCHANGED <<items, open, life, held>>
  BY DEF WalkReturns, Running
<1>2. Top.fn \in Walk /\ Top.fn # "event" /\ status \in Statuses
  BY <1>1 DEF Walk, FrameWalk, Statuses
<1>3. CASE status = "ok" /\ Top.idx < Len(items)
  <2>1. Top.idx \in 1 .. Len(items) /\ Len(items) \in Nat
    BY <1>1, <1>2, Facts, IInvData DEF ReliesOn, Names
  <2>2. Top.idx + 1 \in 1 .. Len(items)
    BY <1>3, <2>1
  <2>3. calls' = Append(Callers, [Top EXCEPT !.idx = Top.idx + 1])
        /\ UNCHANGED <<dispatching, ret>>
    BY <1>3 DEF WalkReturns
  <2>4. \A j \in Top.idx + 1 .. Len(items) : FlagFor(Top.fn) \in flags[items[j]]
    BY <1>1, <1>2, Facts DEF ReliesOn, Reached, Names
  <2>5. Reached(Top.fn, Top.idx + 1)
    BY <1>2, <2>1, <2>4 DEF Reached
  <2> QED  BY <1>1, <1>2, <2>2, <2>3, <2>5, WalkMoves
<1>4. CASE ~(status = "ok" /\ Top.idx < Len(items))
  <2>1. Finish(status)
    BY <1>4 DEF WalkReturns
  <2> QED  BY <1>1, <1>2, <2>1, WalkStops
<1> QED  BY <1>3, <1>4

LEMMA EventReturnsKeepsIInv ==
  ASSUME IInv, NEW status \in {"ok", "rejected"}, NEW handled \in BOOLEAN,
         EventReturns(status, handled)
  PROVE  IInv'
<1>1. calls # <<>> /\ Top.fn = "event" /\ UNCHANGED <<items, open, life, held>>
  BY DEF EventReturns, Running
<1>2. Top.fn \in Walk /\ status \in Statuses
  BY <1>1 DEF Walk, Statuses
<1> DEFINE On == /\ status = "ok" /\ ~handled
                 /\ "events" \in flags[items[Top.idx]]
                 /\ Top.idx > 1
<1>3. CASE On
  <2>1. Top.idx \in 1 .. Len(items) /\ Len(items) \in Nat
    BY <1>1, <1>2, Facts, IInvData DEF ReliesOn, Names
  <2>2. Top.idx - 1 \in 1 .. Len(items) /\ (Top.idx - 1) + 1 = Top.idx
    BY <1>3, <2>1
  <2>3. calls' = Append(Callers, [Top EXCEPT !.idx = Top.idx - 1])
        /\ UNCHANGED <<dispatching, ret>>
    BY <1>3 DEF EventReturns
  <2>4. \A j \in Top.idx + 1 .. Len(items) : "events" \in flags[items[j]]
    BY <1>1, <1>2, Facts DEF ReliesOn, Reached, Names
  <2>5. \A j \in (Top.idx - 1) + 1 .. Len(items) : "events" \in flags[items[j]]
    <3> SUFFICES ASSUME NEW j \in Top.idx .. Len(items)  PROVE "events" \in flags[items[j]]
      BY <2>2
    <3>1. j = Top.idx \/ j \in Top.idx + 1 .. Len(items)
      BY <2>1
    <3> QED  BY <1>3, <2>4, <3>1
  <2>6. Reached(Top.fn, Top.idx - 1)
    BY <1>1, <2>5 DEF Reached
  <2> QED  BY <1>1, <1>2, <2>2, <2>3, <2>6, WalkMoves
<1>4. CASE ~On
  <2>1. Finish(status)
    BY <1>4 DEF EventReturns
  <2> QED  BY <1>1, <1>2, <2>1, WalkStops
<1> QED  BY <1>3, <1>4

-----------------------------------------------------------------------------
(* The theorems.                                                           *)

LEMMA InitEstablishesIInv == Init => IInv
<1> SUFFICES ASSUME Init  PROVE IInv
  OBVIOUS
<1>1. /\ items = <<>> /\ life = <<>> /\ calls = <<>> /\ dispatching = FALSE
      /\ open = TRUE /\ ret = "ok" /\ held = [s \in Scenes |-> 0]
  BY DEF Init
<1>2. DataOK
  <2>1. items \in Seq(Scenes) /\ life \in Seq({"active", "paused"})
    BY <1>1, EmptySeq
  <2>2. Len(items) = 0 /\ Len(life) = 0 /\ Len(items) <= Capacity
    BY <1>1, EmptySeq, SceneAssumption
  <2>3. held \in [Scenes -> Int] /\ ret \in Statuses /\ open \in BOOLEAN
    BY <1>1 DEF Statuses
  <2> QED  BY <2>1, <2>2, <2>3 DEF DataOK
<1>3. AtMostOne(calls) /\ StackOps(calls) = {}
  <2>1. calls \in Seq({}) /\ Len(calls) = 0
    BY <1>1, EmptySeq
  <2> QED  BY <2>1 DEF AtMostOne, StackOps, Records
<1>4. CallInv /\ LifeInv
  BY <1>1, <1>3 DEF CallInv, LifeInv
<1>5. HeldInv
  BY <1>1, <1>3, OccurrencesEmpty DEF HeldInv
<1> QED  BY <1>2, <1>4, <1>5 DEF IInv

LEMMA CallbackReturnsKeepsIInv == IInv /\ CallbackReturns => IInv'
<1> SUFFICES ASSUME IInv, CallbackReturns  PROVE IInv'
  OBVIOUS
<1>1. CASE PauseReturns    BY <1>1, PauseReturnsKeepsIInv
<1>2. CASE PushEntered     BY <1>2, PushEnteredKeepsIInv
<1>3. CASE ReplaceEntered  BY <1>3, ReplaceEnteredKeepsIInv
<1>4. CASE EnterRejected   BY <1>4, EnterRejectedKeepsIInv
<1>5. CASE UndoReturns     BY <1>5, UndoReturnsKeepsIInv
<1>6. CASE ReplaceLeft     BY <1>6, ReplaceLeftKeepsIInv
<1>7. CASE PopLeft         BY <1>7, PopLeftKeepsIInv
<1>8. CASE ResumeReturns   BY <1>8, ResumeReturnsKeepsIInv
<1>9. CASE DisposeLeft     BY <1>9, DisposeLeftKeepsIInv
<1>10. CASE \E status \in {"ok", "rejected"} : WalkReturns(status)
  BY <1>10, WalkReturnsKeepsIInv
<1>11. CASE \E status \in {"ok", "rejected"}, handled \in BOOLEAN :
              EventReturns(status, handled)
  BY <1>11, EventReturnsKeepsIInv
<1> QED
  BY <1>1, <1>2, <1>3, <1>4, <1>5, <1>6, <1>7, <1>8, <1>9, <1>10, <1>11 DEF CallbackReturns

LEMMA CallerItself == IInv => Caller(calls)
BY DEF IInv, CallInv, Caller

LEMMA NextKeepsIInv == IInv /\ [Next]_stackVars => IInv'
<1> SUFFICES ASSUME IInv, [Next]_stackVars  PROVE IInv'
  OBVIOUS
<1> Caller(calls)
  BY CallerItself
<1>1. CASE AppPush          BY <1>1, PushKeepsIInv DEF AppPush
<1>2. CASE AppReplace       BY <1>2, ReplaceKeepsIInv DEF AppReplace
<1>3. CASE AppPop           BY <1>3, PopKeepsIInv DEF AppPop
<1>4. CASE AppWalk          BY <1>4, DispatchFramesKeepsIInv DEF AppWalk
<1>5. CASE AppEvent         BY <1>5, DispatchEventKeepsIInv DEF AppEvent
<1>6. CASE AppDispose       BY <1>6, DisposeKeepsIInv DEF AppDispose
<1>7. CASE CallbackReturns  BY <1>7, CallbackReturnsKeepsIInv
<1>8. CASE UNCHANGED stackVars
  <2>1. Caller(calls') /\ ret' \in Statuses /\ open' \in BOOLEAN
    BY <1>8 DEF stackVars, IInv, DataOK
  <2> QED  BY <1>8, <2>1, RefusalKeepsIInv DEF stackVars
<1> QED  BY <1>1, <1>2, <1>3, <1>4, <1>5, <1>6, <1>7, <1>8 DEF Next

LEMMA Invariance == Spec => []IInv
  BY InitEstablishesIInv, NextKeepsIInv, PTL DEF Spec

\* What the invariant says of every state, and of every step that a walk sees.
LEMMA Soundness == IInv => StackIsSound
<1> SUFFICES ASSUME IInv  PROVE StackIsSound
  OBVIOUS
<1>1. calls = <<>> => OnlyTopActive /\ LeavesMatchEnters
  <2> SUFFICES ASSUME calls = <<>>  PROVE OnlyTopActive /\ LeavesMatchEnters
    OBVIOUS
  <2>1. StackOps(calls) = {} /\ ~dispatching
    <3>1. Len(calls) = 0
      OBVIOUS
    <3>2. Records(calls) = {}
      BY <3>1 DEF Records
    <3> QED  BY <3>2 DEF StackOps, IInv, CallInv
  <2>2. OnlyTopActive
    <3>1. DOMAIN items = 1 .. Len(items) /\ Len(items) \in Nat
      BY DEF IInv, DataOK
    <3> QED  BY <2>1, <3>1, Quiescent DEF DataOK, OnlyTopActive
  <2>3. LeavesMatchEnters
    BY <2>1, Quiescent DEF LeavesMatchEnters
  <2> QED  BY <2>2, <2>3
<1>2. DispatchReach
  <2> SUFFICES ASSUME NEW i \in DOMAIN calls, calls[i].fn \in Walk
               PROVE  Reached(calls[i].fn, calls[i].idx)
    BY DEF DispatchReach, Reached
  <2>1. i \in 1 .. Len(calls)
    BY DEF IInv, CallInv, AtMostOne
  <2>2. calls[i] \in StackOps(calls)
    BY <2>1 DEF StackOps, Records, StackOp
  <2> QED  BY <2>2 DEF IInv, CallInv, ReliesOn
<1> QED  BY <1>1, <1>2 DEF StackIsSound, OnlyTopActive, LeavesMatchEnters

LEMMA Stability == IInv /\ CallbackReturns /\ InProgress(Walk) => items' = items
<1> SUFFICES ASSUME IInv, CallbackReturns, InProgress(Walk)  PROVE items' = items
  OBVIOUS
<1>1. calls # <<>> /\ Top.fn \in StackOp
  BY CallbackOnTop
<1>2. StackOps(calls) = {Top}
  BY <1>1, OnTop DEF IInv, CallInv
<1>3. PICK i \in DOMAIN calls : calls[i].fn \in Walk
  BY DEF InProgress
<1>4. calls[i] \in StackOps(calls)
  <2>1. i \in 1 .. Len(calls)
    BY DEF IInv, CallInv, AtMostOne
  <2> QED  BY <1>3, <2>1 DEF StackOps, Records, StackOp
<1>5. Top.fn \notin {"push", "pop", "replace", "dispose"}
  BY <1>2, <1>3, <1>4 DEF Walk, FrameWalk
<1> QED
  BY <1>5 DEF CallbackReturns, PauseReturns, PushEntered, ReplaceEntered, EnterRejected,
     UndoReturns, ReplaceLeft, PopLeft, ResumeReturns, DisposeLeft, WalkReturns, EventReturns,
     Running

\* Without an engine there are no other calls than the stack's.
Bare == \A i \in 1 .. Len(calls) : calls[i].fn \in StackOp

LEMMA BareCalls ==
  ASSUME IInv, Bare
  PROVE  calls \in Seq(StackCall) /\ Len(calls) \in {0, 1} /\ (calls = <<>> <=> Len(calls) = 0)
<1>1. PICK S : calls \in Seq(S)
  BY DEF IInv, CallInv, AtMostOne
<1>2. \A i \in 1 .. Len(calls) : calls[i] \in StackCall
  BY DEF Bare, IInv, CallInv, ReliesOn, StackOps, Records
<1>3. \A i, j \in 1 .. Len(calls) : i = j
  BY DEF Bare, IInv, CallInv, AtMostOne
<1>4. Len(calls) \in Nat /\ (calls = <<>> <=> Len(calls) = 0)
  BY <1>1, EmptySeq
<1>5. Len(calls) \in {0, 1}
  <2> SUFFICES ASSUME Len(calls) >= 2  PROVE FALSE
    BY <1>4
  <2>1. 1 \in 1 .. Len(calls) /\ 2 \in 1 .. Len(calls)
    BY <1>4
  <2>2. 1 = 2
    BY <1>3, <2>1, Zenon
  <2> QED  BY <2>2
<1> QED  BY <1>1, <1>2, <1>4, <1>5

LEMMA BareInvariance == Spec => [](IInv /\ Bare)
<1>1. Init => Bare
  BY DEF Init, Bare
<1>2. ASSUME IInv, Bare, [Next]_stackVars  PROVE Bare'
  <2>1. PICK S : calls \in Seq(S)
    BY <1>2 DEF IInv, CallInv, AtMostOne
  <2>2. \A r : /\ Len(Append(calls, r)) = Len(calls) + 1
               /\ \A i \in 1 .. Len(calls) : Append(calls, r)[i] = calls[i]
               /\ Append(calls, r)[Len(calls) + 1] = r
    <3> TAKE r
    <3>1. calls \in Seq(S \cup {r})
      BY <2>1
    <3> QED  BY <3>1, AppendProperties
  <2>3. CASE Entered(calls)
    BY <1>2, <2>1, <2>2, <2>3 DEF Entered, Bare
  <2>4. CASE CallbackReturns
    <3>1. calls # <<>> /\ Top.fn \in StackOp
      BY <2>4, CallbackOnTop
    <3>2. Len(calls) = 1 /\ ReliesOn(Top) /\ Calm(Callers)
      BY <1>2, <3>1, BareCalls, Facts, StackNames
    <3>3. Len(Callers) = 0 /\ Callers = <<>>
      BY <3>2, SubSeqEmpty DEF Callers
    <3>4. IsRecord(Top)
      BY <3>2 DEF ReliesOn, StackCall, IsRecord
    <3>5. \/ calls' = Callers \/ calls' = calls
          \/ \E r : r.fn = Top.fn /\ calls' = Append(Callers, r)
      BY <2>4, <3>4, CallbackMoves
    <3>6. ASSUME NEW r, r.fn = Top.fn, calls' = Append(Callers, r)  PROVE Bare'
      BY <3>1, <3>3, <3>6 DEF Bare
    <3> QED  BY <1>2, <3>3, <3>5, <3>6 DEF Bare
  <2>5. CASE UNCHANGED stackVars
    BY <1>2, <2>5 DEF stackVars, Bare
  <2>6. CASE Next /\ ~CallbackReturns
    <3>1. \/ \E s : Push(calls, s) \/ Replace(calls, s)
          \/ Pop(calls)
          \/ \E kind \in FrameWalk : DispatchFrames(calls, kind)
          \/ DispatchEvent(calls) \/ Dispose(calls)
      BY <2>6 DEF Next, AppPush, AppReplace, AppPop, AppWalk, AppEvent, AppDispose
    <3>2. Entered(calls)
      BY <3>1, StackCalls
    <3> QED  BY <2>3, <3>2
  <2> QED  BY <1>2, <2>4, <2>5, <2>6
<1> QED  BY <1>1, <1>2, Invariance, PTL DEF Spec

\* The variables keep their types, and the stack never holds more scenes than
\* the capacity it was allocated with (aforc_scene_stack_push).
THEOREM TypeCorrect == Spec => []TypeOK
<1>1. IInv /\ Bare => TypeOK
  BY BareCalls DEF IInv, DataOK, CallInv, TypeOK
<1> QED  BY <1>1, BareInvariance, PTL

\* At most one operation is in progress, and dispatching says whether one is:
\* no callback can begin an operation inside the one that runs it.
THEOREM NoNesting == Spec => []OneOperation
<1>1. ASSUME IInv, Bare  PROVE OneOperation
  <2>1. Len(calls) \in {0, 1} /\ (calls = <<>> <=> Len(calls) = 0)
    BY <1>1, BareCalls
  <2>2. StackOps(calls) # {} <=> calls # <<>>
    <3>1. CASE Len(calls) = 0
      BY <2>1, <3>1 DEF StackOps, Records
    <3>2. CASE Len(calls) = 1
      <4>1. 1 \in 1 .. Len(calls)
        BY <3>2
      <4>2. calls[1] \in StackOps(calls)
        BY <1>1, <4>1 DEF Bare, StackOps, Records
      <4> QED  BY <2>1, <3>2, <4>2
    <3> QED  BY <2>1, <3>1, <3>2
  <2>3. dispatching <=> calls # <<>>
    BY <1>1, <2>2, Zenon DEF IInv, CallInv
  <2> QED  BY <2>1, <2>3 DEF OneOperation
<1> QED  BY <1>1, BareInvariance, PTL

\* Between operations the top scene is active and every other one paused,
\* whatever enters were rejected on the way.
THEOREM TopIsActive == Spec => []OnlyTopActive
<1>1. IInv => OnlyTopActive
  BY Soundness DEF StackIsSound
<1> QED  BY <1>1, Invariance, PTL

\* Between operations a scene has entered once more than it has left for every
\* place it has on the stack: no lifecycle callback is lost or repeated.
THEOREM LifecycleIsBalanced == Spec => []LeavesMatchEnters
<1>1. IInv => LeavesMatchEnters
  BY Soundness DEF StackIsSound
<1> QED  BY <1>1, Invariance, PTL

\* A dispatch only reaches scenes that every scene above lets it through to.
THEOREM WalksRespectFlags == Spec => []DispatchReach
<1>1. IInv => DispatchReach
  BY Soundness DEF StackIsSound
<1> QED  BY <1>1, Invariance, PTL

\* The stack is sound: between operations the top scene alone is active and
\* every enter is matched, and no walk skips a scene that holds it back.
THEOREM StackStaysSound == Spec => []StackIsSound
BY Soundness, Invariance, PTL

\* Nothing moves under a walk: while a dispatch is in progress no step changes
\* the scenes on the stack.
THEOREM WalksAreStable == Spec => WalkIsStable
<1>1. IInv /\ [Next]_stackVars => [InProgress(Walk) => items' = items]_stackVars
  BY Stability DEF stackVars, Next, AppPush, AppReplace, AppPop, AppWalk, AppEvent, AppDispose
<1> QED  BY <1>1, Invariance, PTL DEF Spec, WalkIsStable

=============================================================================
