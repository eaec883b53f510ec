---------------------------- MODULE EngineProofs ----------------------------
(***************************************************************************)
(* Theorems about the engine, for every configuration, every set of scenes *)
(* and any number of frames, runs and requests: who owns the engine, when  *)
(* it may be destroyed, what the clock adds, the order of the commands, and*)
(* what the scene stack promises while the engine drives it.               *)
(***************************************************************************)
EXTENDS Engine, SceneStackProofs

\* Two operations of one kind are never in progress together, and all operations of
\* the scene stack are one kind.
Alike(r, s) == r.fn = s.fn \/ {r.fn, s.fn} \subseteq StackOp

\* Commands are applied by a frame, a run begins outside every frame, and a
\* destruction outside everything.
WellNested(c) ==
  /\ \E S : c \in Seq(S)
  /\ \A i \in 1 .. Len(c) :
       /\ IsRecord(c[i])
       /\ \A j \in 1 .. i - 1 : ~Alike(c[i], c[j])
       /\ c[i].fn = "destroy" => i = 1
       /\ c[i].fn = "apply" => i > 1 /\ c[i - 1].fn = "frame"
       /\ c[i].fn = "run" => \A j \in 1 .. i - 1 : c[j].fn # "frame"

-----------------------------------------------------------------------------
(* Calls and returns *)

LEMMA CallersProperties ==
  ASSUME WellNested(calls), calls # <<>>
  PROVE  /\ Len(calls) \in Nat \ {0} /\ Len(Callers) = Len(calls) - 1
         /\ \A i \in 1 .. Len(calls) - 1 : Callers[i] = calls[i]
         /\ \E S : Callers \in Seq(S) /\ calls \in Seq(S)
<1>1. PICK S : calls \in Seq(S)
  BY DEF WellNested
<1>2. Len(calls) \in Nat \ {0} /\ Len(calls) - 1 \in 0 .. Len(calls)
  BY <1>1
<1>3. Callers \in Seq(S)
  BY <1>1, <1>2 DEF Callers
<1>4. Len(Callers) = Len(calls) - 1 /\ \A i \in 1 .. Len(calls) - 1 : Callers[i] = calls[i]
  <2> DEFINE n == Len(calls) - 1
  <2>1. n \in 0 .. Len(calls)
    BY <1>2
  <2> HIDE DEF n
  <2>2. Len(SubSeq(calls, 1, n)) = n /\ \A i \in 1 .. n : SubSeq(calls, 1, n)[i] = calls[i]
    BY <1>1, <2>1
  <2> QED  BY <2>2 DEF Callers, n
<1>5. \E T : Callers \in Seq(T) /\ calls \in Seq(T)
  BY <1>1, <1>3, Zenon
<1> QED  BY <1>2, <1>4, <1>5

\* An operation returns: the others stay in progress.
LEMMA Returned ==
  ASSUME WellNested(calls), calls # <<>>
  PROVE  /\ WellNested(Callers)
         /\ Top \in Records(calls) /\ IsRecord(Top)
         /\ Records(Callers) = Records(calls) \ {Top}
         /\ \A r \in Records(Callers) : ~Alike(r, Top) /\ r.fn # Top.fn
         /\ Top.fn = "destroy" => Callers = <<>>
         /\ Top.fn = "frame" => \A r \in Records(calls) : r.fn # "apply"
         /\ Top.fn = "run" => \A r \in Records(calls) : r.fn # "frame"
<1> DEFINE n == Len(calls)
<1>1. /\ n \in Nat \ {0} /\ Len(Callers) = n - 1
      /\ \A i \in 1 .. n - 1 : Callers[i] = calls[i]
  BY CallersProperties
<1>2. PICK S : Callers \in Seq(S) /\ calls \in Seq(S)
  BY CallersProperties
<1> HIDE DEF n
<1>3. Top = calls[n]
  BY DEF Top, n
<1>4. \A i \in 1 .. n : 
       /\ IsRecord(calls[i])
       /\ \A j \in 1 .. i - 1 : ~Alike(calls[i], calls[j])
       /\ calls[i].fn = "destroy" => i = 1
       /\ calls[i].fn = "apply" => i > 1 /\ calls[i - 1].fn = "frame"
       /\ calls[i].fn = "run" => \A j \in 1 .. i - 1 : calls[j].fn # "frame"
  BY DEF WellNested, n
<1>5. WellNested(Callers)
  BY <1>1, <1>2, <1>4, SMTT(60) DEF WellNested
<1>6. \A i \in 1 .. n - 1 : ~Alike(calls[i], Top) /\ calls[i].fn # Top.fn
  BY <1>1, <1>3, <1>4 DEF Alike
<1>7. Records(Callers) = {calls[i] : i \in 1 .. n - 1} /\ Records(calls) = {calls[i] : i \in 1 .. n}
  BY <1>1 DEF Records, n
<1>8. Records(Callers) = Records(calls) \ {Top} /\ Top \in Records(calls)
  BY <1>1, <1>3, <1>6, <1>7
<1>9. Top.fn = "destroy" => Callers = <<>>
  <2>1. Top.fn = "destroy" => n = 1
    BY <1>1, <1>3, <1>4
  <2> QED  BY <1>1, <1>2, <2>1, EmptySeq
<1>10. Top.fn = "frame" => \A r \in Records(calls) : r.fn # "apply"
  <2> SUFFICES ASSUME Top.fn = "frame", NEW i \in 1 .. n, calls[i].fn = "apply"  PROVE FALSE
    BY <1>7
  <2>1. i > 1 /\ calls[i - 1].fn = "frame"
    BY <1>4
  <2>2. i - 1 \in 1 .. n - 1
    BY <1>1, <2>1
  <2> QED  BY <2>1, <2>2, <1>6
<1>11. Top.fn = "run" => \A r \in Records(calls) : r.fn # "frame"
  BY <1>1, <1>3, <1>4, <1>7
<1> QED  BY <1>1, <1>3, <1>4, <1>5, <1>6, <1>7, <1>8, <1>9, <1>10, <1>11

\* An operation is called.
LEMMA Called ==
  ASSUME NEW c, WellNested(c), NEW r, IsRecord(r),
         \A s \in Records(c) : ~Alike(r, s),
         r.fn = "destroy" => c = <<>>,
         r.fn = "apply" => c # <<>> /\ c[Len(c)].fn = "frame",
         r.fn = "run" => \A s \in Records(c) : s.fn # "frame"
  PROVE  /\ WellNested(Append(c, r))
         /\ Records(Append(c, r)) = Records(c) \cup {r}
<1> DEFINE d == Append(c, r)
           n == Len(c)
<1>1. PICK S : c \in Seq(S)
  BY DEF WellNested
<1>2. n \in Nat
  BY <1>1
<1>3. /\ d \in Seq(S \cup {r}) /\ Len(d) = n + 1
      /\ \A i \in 1 .. n : d[i] = c[i]
      /\ d[n + 1] = r
  <2>1. c \in Seq(S \cup {r})
    BY <1>1
  <2> QED  BY <2>1, AppendProperties
<1>4. \A i \in 1 .. n : c[i] \in Records(c)
  BY DEF Records
<1>5. c = <<>> <=> n = 0
  BY <1>1, EmptySeq
<1>6. \A i \in 1 .. n + 1 :
       /\ IsRecord(d[i])
       /\ \A j \in 1 .. i - 1 : ~Alike(d[i], d[j])
       /\ d[i].fn = "destroy" => i = 1
       /\ d[i].fn = "apply" => i > 1 /\ d[i - 1].fn = "frame"
       /\ d[i].fn = "run" => \A j \in 1 .. i - 1 : d[j].fn # "frame"
  <2> SUFFICES ASSUME NEW i \in 1 .. n + 1
               PROVE  /\ IsRecord(d[i])
                      /\ \A j \in 1 .. i - 1 : ~Alike(d[i], d[j])
                      /\ d[i].fn = "destroy" => i = 1
                      /\ d[i].fn = "apply" => i > 1 /\ d[i - 1].fn = "frame"
                      /\ d[i].fn = "run" => \A j \in 1 .. i - 1 : d[j].fn # "frame"
    OBVIOUS
  <2> HIDE DEF d
  <2>1. CASE i = n + 1
    BY <1>2, <1>3, <1>4, <1>5, <2>1 DEF n
  <2>2. CASE i \in 1 .. n
    BY <1>2, <1>3, <2>2, SMTT(60) DEF WellNested, n
  <2> QED  BY <1>2, <2>1, <2>2
<1>7. WellNested(d)
  BY <1>2, <1>3, <1>6 DEF WellNested
<1>8. Records(d) = Records(c) \cup {r}
  BY <1>2, <1>3 DEF Records
<1> QED  BY <1>7, <1>8

\* An operation goes on: its record is replaced by another of its kind.
LEMMA Renewed ==
  ASSUME WellNested(calls), calls # <<>>, NEW r, IsRecord(r),
         r.fn = Top.fn \/ (r.fn \in StackOp /\ Top.fn \in StackOp)
  PROVE  /\ WellNested(Append(Callers, r))
         /\ Records(Append(Callers, r)) = (Records(calls) \ {Top}) \cup {r}
<1> DEFINE n == Len(calls)
<1>1. /\ n \in Nat \ {0} /\ Len(Callers) = n - 1
      /\ \A i \in 1 .. n - 1 : Callers[i] = calls[i]
  BY CallersProperties
<1>2. \E S : Callers \in Seq(S)
  BY CallersProperties
<1>3. /\ WellNested(Callers) /\ Records(Callers) = Records(calls) \ {Top}
      /\ \A s \in Records(Callers) : ~Alike(s, Top)
  BY Returned
<1>4. \A s \in Records(Callers) : ~Alike(r, s)
  BY <1>3 DEF Alike
<1>5. \A i \in 1 .. n : 
       /\ calls[i].fn = "destroy" => i = 1
       /\ calls[i].fn = "apply" => i > 1 /\ calls[i - 1].fn = "frame"
       /\ calls[i].fn = "run" => \A j \in 1 .. i - 1 : calls[j].fn # "frame"
  BY DEF WellNested, n
<1>6. Records(Callers) = {calls[i] : i \in 1 .. n - 1}
  BY <1>1 DEF Records
<1> HIDE DEF n
<1>7. Top = calls[n]
  BY DEF Top, n
<1>8. \A fn \in StackOp : fn \notin {"destroy", "apply", "run"}
  BY DEF StackOp, Walk, FrameWalk, Mutation
<1>9. r.fn = "destroy" => Callers = <<>>
  BY <1>1, <1>2, <1>5, <1>7, <1>8, EmptySeq
<1>10. r.fn = "apply" => Callers # <<>> /\ Callers[Len(Callers)].fn = "frame"
  <2> SUFFICES ASSUME r.fn = "apply"  PROVE Callers # <<>> /\ Callers[Len(Callers)].fn = "frame"
    OBVIOUS
  <2>1. n > 1 /\ calls[n - 1].fn = "frame"
    BY <1>1, <1>5, <1>7, <1>8
  <2>2. n - 1 \in 1 .. n - 1
    BY <1>1, <2>1
  <2> QED  BY <1>1, <1>2, <2>1, <2>2, EmptySeq
<1>11. r.fn = "run" => \A s \in Records(Callers) : s.fn # "frame"
  BY <1>1, <1>5, <1>6, <1>7, <1>8
<1> QED  BY <1>3, <1>4, <1>9, <1>10, <1>11, Called

-----------------------------------------------------------------------------
(* The engine's operations and the stack's *)

Own(c)        == {r \in Records(c) : r.fn \notin StackOp}
Dispatches(c) == \E r \in Records(c) : r.fn \in StackOp

\* The dispatching flag is exact, and so is everything below c.
Exact(c) == WellNested(c) /\ (dispatching <=> Dispatches(c))

LEMMA Executes ==
  ASSUME NEW c, NEW cmd, Execute(c, cmd)
  PROVE  Entered(c)
BY StackCalls DEF Execute

\* A call of the stack changes nothing the engine has in progress.
LEMMA StackEntered ==
  ASSUME NEW c, Exact(c), Entered(c)
  PROVE  /\ WellNested(calls') /\ (dispatching' <=> Dispatches(calls'))
         /\ Own(calls') = Own(c)
<1>1. CASE calls' = c /\ dispatching' = dispatching
  BY <1>1 DEF Exact
<1>2. CASE /\ ~dispatching /\ dispatching' = TRUE
           /\ \E r : IsRecord(r) /\ r.fn \in StackOp /\ calls' = Append(c, r)
  <2>1. PICK r : IsRecord(r) /\ r.fn \in StackOp /\ calls' = Append(c, r)
    BY <1>2
  <2>2. \A s \in Records(c) : s.fn \notin StackOp
    BY <1>2 DEF Exact, Dispatches
  <2>3. r.fn \notin {"destroy", "apply", "run"}
    BY <2>1 DEF StackOp, Walk, FrameWalk, Mutation
  <2>4. WellNested(calls') /\ Records(calls') = Records(c) \cup {r}
    <3>1. \A s \in Records(c) : ~Alike(r, s)
      BY <2>1, <2>2 DEF Alike
    <3> QED  BY <2>1, <2>3, <3>1, Called DEF Exact
  <2> QED  BY <1>2, <2>1, <2>4 DEF Own, Dispatches
<1> QED  BY <1>1, <1>2 DEF Entered

\* Nor does the return of a callback of the stack.
LEMMA StackReturns ==
  ASSUME Exact(calls), CallbackReturns
  PROVE  /\ WellNested(calls') /\ (dispatching' <=> Dispatches(calls'))
         /\ Own(calls') = Own(calls)
         /\ calls # <<>>
<1>1. calls # <<>> /\ Top.fn \in StackOp
  BY CallbackOnTop
<1>2. /\ WellNested(Callers) /\ Top \in Records(calls) /\ IsRecord(Top)
      /\ Records(Callers) = Records(calls) \ {Top}
      /\ \A r \in Records(Callers) : ~Alike(r, Top)
  BY <1>1, Returned DEF Exact
<1>3. dispatching
  BY <1>1, <1>2 DEF Exact, Dispatches
<1>4. \/ calls' = Callers /\ dispatching' = FALSE
      \/ /\ dispatching' = dispatching
         /\ \/ calls' = calls
            \/ \E r : IsRecord(r) /\ r.fn = Top.fn /\ calls' = Append(Callers, r)
  BY <1>2, CallbackMoves
<1>5. CASE calls' = Callers /\ dispatching' = FALSE
  BY <1>1, <1>2, <1>5 DEF Own, Dispatches, Alike
<1>6. CASE calls' = calls /\ dispatching' = dispatching
  BY <1>1, <1>6 DEF Exact
<1>7. ASSUME NEW r, IsRecord(r), r.fn = Top.fn, calls' = Append(Callers, r), dispatching' = dispatching
      PROVE  /\ WellNested(calls') /\ (dispatching' <=> Dispatches(calls'))
             /\ Own(calls') = Own(calls)
  <2>1. WellNested(calls') /\ Records(calls') = (Records(calls) \ {Top}) \cup {r}
    BY <1>1, <1>7, Renewed DEF Exact
  <2> QED  BY <1>1, <1>3, <1>7, <2>1 DEF Own, Dispatches
<1> QED  BY <1>1, <1>4, <1>5, <1>6, <1>7

EngineOp == {"apply", "frame", "run", "destroy"}

\* The engine operation on top returns, or goes on with another record.
LEMMA EngineReturns ==
  ASSUME Exact(calls), calls # <<>>, Top.fn \in EngineOp
  PROVE  /\ Exact(Callers) /\ Own(Callers) = Own(calls) \ {Top}
         /\ Top \in Own(calls) /\ IsRecord(Top)
         /\ \A r \in Own(calls) : r.fn = Top.fn => r = Top
         /\ Top.fn = "destroy" => Callers = <<>>
         /\ Top.fn = "frame" => \A r \in Own(calls) : r.fn # "apply"
         /\ Top.fn = "run" => \A r \in Own(calls) : r.fn # "frame"
<1>1. Top.fn \notin StackOp
  BY DEF EngineOp, StackOp, Walk, FrameWalk, Mutation
<1>2. /\ WellNested(Callers)
      /\ Top \in Records(calls) /\ IsRecord(Top)
      /\ Records(Callers) = Records(calls) \ {Top}
      /\ \A r \in Records(Callers) : r.fn # Top.fn
      /\ Top.fn = "destroy" => Callers = <<>>
      /\ Top.fn = "frame" => \A r \in Records(calls) : r.fn # "apply"
      /\ Top.fn = "run" => \A r \in Records(calls) : r.fn # "frame"
  BY Returned DEF Exact
<1> QED  BY <1>1, <1>2 DEF Exact, Own, Dispatches

LEMMA EngineGoesOn ==
  ASSUME Exact(calls), calls # <<>>, Top.fn \in EngineOp, NEW r, IsRecord(r), r.fn = Top.fn
  PROVE  /\ Exact(Append(Callers, r))
         /\ Own(Append(Callers, r)) = (Own(calls) \ {Top}) \cup {r}
<1>1. Top.fn \notin StackOp
  BY DEF EngineOp, StackOp, Walk, FrameWalk, Mutation
<1>2. /\ WellNested(Append(Callers, r))
      /\ Records(Append(Callers, r)) = (Records(calls) \ {Top}) \cup {r}
  BY Renewed DEF Exact
<1> QED  BY <1>1, <1>2 DEF Exact, Own, Dispatches

LEMMA TopGoesOn ==
  ASSUME Exact(calls), calls # <<>>, Top.fn \in EngineOp, NEW pc
  PROVE  /\ Exact(At(pc)) /\ At(pc) # <<>> /\ At(pc)[Len(At(pc))] = [Top EXCEPT !.pc = pc]
         /\ Own(At(pc)) = (Own(calls) \ {Top}) \cup {[Top EXCEPT !.pc = pc]}
         /\ IsRecord([Top EXCEPT !.pc = pc]) /\ [Top EXCEPT !.pc = pc].fn = Top.fn
         /\ [Top EXCEPT !.pc = pc].pc = pc /\ [Top EXCEPT !.pc = pc].idx = Top.idx
         /\ [Top EXCEPT !.pc = pc].arg = Top.arg
<1>1. IsRecord(Top)
  BY EngineReturns
<1>2. /\ IsRecord([Top EXCEPT !.pc = pc]) /\ [Top EXCEPT !.pc = pc].fn = Top.fn
      /\ [Top EXCEPT !.pc = pc].pc = pc /\ [Top EXCEPT !.pc = pc].idx = Top.idx
      /\ [Top EXCEPT !.pc = pc].arg = Top.arg
  BY <1>1 DEF IsRecord
<1>3. PICK S : Callers \in Seq(S)
  BY CallersProperties DEF Exact
<1>4. At(pc) # <<>> /\ At(pc)[Len(At(pc))] = [Top EXCEPT !.pc = pc]
  <2>1. Callers \in Seq(S \cup {[Top EXCEPT !.pc = pc]})
    BY <1>3
  <2> QED  BY <2>1, AppendProperties DEF At
<1> QED  BY <1>2, <1>4, EngineGoesOn DEF At

Idle(c) == c = <<>>

\* An engine operation is called.
LEMMA EngineCalls ==
  ASSUME NEW c, Exact(c), NEW fn \in EngineOp, NEW pc, NEW arg, NEW idx,
         \A s \in Own(c) : s.fn # fn,
         fn = "destroy" => Idle(c),
         fn = "apply" => c # <<>> /\ c[Len(c)].fn = "frame",
         fn = "run" => \A s \in Own(c) : s.fn # "frame"
  PROVE  /\ Exact(Append(c, Call(fn, pc, arg, idx)))
         /\ Own(Append(c, Call(fn, pc, arg, idx))) = Own(c) \cup {Call(fn, pc, arg, idx)}
<1> DEFINE r == Call(fn, pc, arg, idx)
<1>1. IsRecord(r) /\ r.fn = fn /\ fn \notin StackOp
  BY DEF Call, IsRecord, EngineOp, StackOp, Walk, FrameWalk, Mutation
<1> HIDE DEF r
<1>2. \A s \in Records(c) : ~Alike(r, s)
  BY <1>1 DEF Own, Alike
<1>3. fn = "run" => \A s \in Records(c) : s.fn # "frame"
  BY DEF Own, StackOp, Walk, FrameWalk, Mutation
<1>4. WellNested(Append(c, r)) /\ Records(Append(c, r)) = Records(c) \cup {r}
  BY <1>1, <1>2, <1>3, Called DEF Exact, Idle
<1>5. Exact(Append(c, r)) /\ Own(Append(c, r)) = Own(c) \cup {r}
  BY <1>1, <1>4 DEF Exact, Own, Dispatches
<1> QED  BY <1>5 DEF r

-----------------------------------------------------------------------------
(* What each step has in progress *)

Has(own, fn) == \E r \in own : r.fn = fn

\* frame_active and the states of a run say what is in progress, and nothing is in
\* an engine that has been destroyed.
OwnershipInv ==
  /\ Exact(calls)
  /\ frameActive <=> Has(Own(calls), "frame")
  /\ state \in {"RUNNING", "STOPPING"} <=> Has(Own(calls), "run")
  /\ ~alive => calls = <<>>

\* The engine operations in progress once the top one has become r.
Become(r) == (Own(calls) \ {Top}) \cup {r}
Moved(pc) == Become([Top EXCEPT !.pc = pc])
Without   == Own(calls) \ {Top}

StillExact == WellNested(calls') /\ (dispatching' <=> Dispatches(calls'))

NewApply == Call("apply", "next", NoScene, 0)

\* A step keeps the flag of the stack exact and has exactly these operations of the
\* engine in progress: first the commands, then the frame, the run, and the rest.
LEMMA ApplyMoves ==
  ASSUME OwnershipInv
  PROVE  /\ ApplyTakes => /\ StillExact
                          /\ Own(calls') = Become(Call("apply", "wait", Head(queue), Len(queue) - 1))
         /\ ApplyDone => StillExact /\ Own(calls') = Without
         /\ ApplyResumes => /\ StillExact
                            /\ Own(calls') = IF ret = "ok" THEN Moved("next") ELSE Without
<1> USE DEF Resumes, Running, EngineOp
<1> Exact(calls)
  BY DEF OwnershipInv
<1>1. ASSUME ApplyTakes
      PROVE  /\ StillExact
             /\ Own(calls') = Become(Call("apply", "wait", Head(queue), Len(queue) - 1))
  <2> DEFINE r == Call("apply", "wait", Head(queue), Len(queue) - 1)
  <2>1. IsRecord(r) /\ r.fn = "apply"
    BY DEF IsRecord, Call
  <2>2. calls # <<>> /\ Top.fn = "apply" /\ Execute(Append(Callers, r), Head(queue))
    BY <1>1 DEF ApplyTakes
  <2> HIDE DEF r
  <2>3. Exact(Append(Callers, r)) /\ Own(Append(Callers, r)) = Become(r)
    BY <2>1, <2>2, EngineGoesOn DEF Become
  <2>4. Entered(Append(Callers, r))
    BY <2>2, Executes
  <2> QED  BY <2>3, <2>4, StackEntered DEF StillExact, r
<1>2. ASSUME ApplyDone  PROVE StillExact /\ Own(calls') = Without
  <2>1. calls # <<>> /\ Top.fn = "apply" /\ calls' = Callers /\ dispatching' = dispatching
    BY <1>2 DEF ApplyDone, Return
  <2> QED  BY <2>1, EngineReturns DEF Exact, StillExact, Without
<1>3. ASSUME ApplyResumes
      PROVE StillExact /\ Own(calls') = IF ret = "ok" THEN Moved("next") ELSE Without
  <2>1. /\ calls # <<>> /\ Top.fn = "apply" /\ dispatching' = dispatching
        /\ calls' = IF ret = "ok" THEN At("next") ELSE Callers
    BY <1>3 DEF ApplyResumes, Return
  <2> QED  BY <2>1, EngineReturns, TopGoesOn DEF Exact, StillExact, Without, Moved, Become
<1> QED  BY <1>1, <1>2, <1>3

\* The frame applies the commands, with c as its own record on top.
LEMMA AppliesCommands ==
  ASSUME NEW c, Exact(c), c # <<>>, c[Len(c)].fn = "frame",
         \A s \in Own(c) : s.fn # "apply", CallApply(c)
  PROVE  StillExact /\ Own(calls') = Own(c) \cup {NewApply}
<1>1. Exact(Append(c, NewApply)) /\ Own(Append(c, NewApply)) = Own(c) \cup {NewApply}
  BY EngineCalls DEF EngineOp, NewApply
<1> QED  BY <1>1 DEF CallApply, StillExact, Exact, NewApply

\* Where there is no frame, no command is being applied.
LEMMA ApplyNeedsFrame ==
  ASSUME Exact(calls), \A r \in Own(calls) : r.fn # "frame"
  PROVE  \A r \in Own(calls) : r.fn # "apply"
<1> SUFFICES ASSUME NEW i \in 1 .. Len(calls), calls[i].fn = "apply"  PROVE FALSE
  BY DEF Own, Records
<1>1. i > 1 /\ calls[i - 1].fn = "frame" /\ Len(calls) \in Nat
  BY DEF Exact, WellNested
<1>2. i - 1 \in 1 .. Len(calls)
  BY <1>1
<1>3. calls[i - 1] \in Own(calls)
  BY <1>1, <1>2 DEF Own, Records, StackOp, Walk, FrameWalk, Mutation
<1> QED  BY <1>1, <1>3

LEMMA FixedOrUpdateMoves ==
  ASSUME Exact(calls), calls # <<>>, Top.fn = "frame", NEW n, FixedOrUpdate(n)
  PROVE  /\ StillExact
         /\ Own(calls') = IF acc >= Step /\ n < MaxUpdates THEN Moved("fixed") ELSE Moved("update")
<1>1. Exact(At("fixed")) /\ Exact(At("update")) /\ Own(At("fixed")) = Moved("fixed")
      /\ Own(At("update")) = Moved("update")
  BY TopGoesOn DEF EngineOp, Moved, Become
<1>2. CASE acc >= Step /\ n < MaxUpdates
  <2>1. Entered(At("fixed"))
    BY <1>2, StackCalls DEF FixedOrUpdate, FrameWalk
  <2> QED  BY <1>1, <1>2, <2>1, StackEntered DEF StillExact
<1>3. CASE ~(acc >= Step /\ n < MaxUpdates)
  <2>1. Entered(At("update"))
    BY <1>3, StackCalls DEF FixedOrUpdate, FrameWalk
  <2> QED  BY <1>1, <1>3, <2>1, StackEntered DEF StillExact
<1> QED  BY <1>2, <1>3

LEMMA FrameMoves ==
  ASSUME OwnershipInv
  PROVE  /\ FrameEnds => StillExact /\ Own(calls') = Without
         /\ SampleClock => StillExact /\ Own(calls') = Become(Call("frame", "begin", NoScene, 0))
         /\ \A status : BeginHookReturns(status) =>
              /\ StillExact
              /\ Own(calls') = IF status # "ok" \/ quit THEN Without
                               ELSE IF acc >= Step /\ 0 < MaxUpdates THEN Moved("fixed") ELSE Moved("update")
         /\ FixedReturns =>
              /\ StillExact
              /\ Own(calls') = IF ret # "ok" THEN Without
                               ELSE Become(Call("frame", "fixed_commands", NoScene, Top.idx + 1)) \cup {NewApply}
         /\ AfterFixedCommands =>
              /\ StillExact
              /\ Own(calls') = IF acc >= Step /\ Top.idx < MaxUpdates THEN Moved("fixed") ELSE Moved("update")
         /\ UpdateReturns =>
              /\ StillExact
              /\ Own(calls') = IF ret # "ok" THEN Without ELSE Moved("update_commands") \cup {NewApply}
         /\ AfterUpdateCommands => StillExact /\ Own(calls') = Moved("render")
         /\ RenderReturns => /\ StillExact
                             /\ Own(calls') = IF ret # "ok" THEN Without ELSE Moved("present")
         /\ \A status : PresentReturns(status) =>
              /\ StillExact
              /\ Own(calls') = IF status # "ok" THEN Without ELSE Moved("present_commands") \cup {NewApply}
         /\ FrameDone => StillExact /\ Own(calls') = Without
<1> USE DEF Resumes, Running, EngineOp
<1> Exact(calls)
  BY DEF OwnershipInv
<1>1. ASSUME calls # <<>>, Top.fn = "frame"
      PROVE  /\ \A status : EndFrame(status) => StillExact /\ Own(calls') = Without
             /\ \A pc : /\ calls' = At(pc) /\ dispatching' = dispatching => StillExact /\ Own(calls') = Moved(pc)
                        /\ CallApply(At(pc)) => StillExact /\ Own(calls') = Moved(pc) \cup {NewApply}
             /\ \A kind \in FrameWalk : \A pc : DispatchFrames(At(pc), kind) =>
                  StillExact /\ Own(calls') = Moved(pc)
             /\ \A pc, n :
                  LET r == Call("frame", pc, NoScene, n)
                  IN  /\ calls' = Append(Callers, r) /\ dispatching' = dispatching =>
                           StillExact /\ Own(calls') = Become(r)
                      /\ CallApply(Append(Callers, r)) =>
                           StillExact /\ Own(calls') = Become(r) \cup {NewApply}
  <2>1. /\ Exact(Callers) /\ Own(Callers) = Without
        /\ \A r \in Own(calls) : r.fn # "apply"
    BY <1>1, EngineReturns DEF Without
  <2>2. ASSUME NEW status, EndFrame(status)  PROVE StillExact /\ Own(calls') = Without
    BY <2>1, <2>2 DEF EndFrame, Return, Exact, StillExact
  <2>3. ASSUME NEW pc
        PROVE  /\ Exact(At(pc)) /\ Own(At(pc)) = Moved(pc) /\ At(pc) # <<>>
               /\ At(pc)[Len(At(pc))].fn = "frame"
               /\ \A r \in Own(At(pc)) : r.fn # "apply"
    <3> DEFINE t == [Top EXCEPT !.pc = pc]
    <3>1. /\ Exact(At(pc)) /\ At(pc) # <<>> /\ At(pc)[Len(At(pc))] = t
          /\ Own(At(pc)) = Become(t) /\ t.fn = "frame"
      BY <1>1, TopGoesOn DEF Become
    <3>2. Become(t) = Moved(pc)
      BY DEF Moved
    <3> HIDE DEF t
    <3> QED  BY <2>1, <3>1, <3>2 DEF Become
  <2>4. ASSUME NEW pc, calls' = At(pc), dispatching' = dispatching
        PROVE  StillExact /\ Own(calls') = Moved(pc)
    BY <2>3, <2>4 DEF Exact, StillExact
  <2>5. ASSUME NEW pc, CallApply(At(pc))
        PROVE  StillExact /\ Own(calls') = Moved(pc) \cup {NewApply}
    BY <2>3, <2>5, AppliesCommands
  <2>6. ASSUME NEW kind \in FrameWalk, NEW pc, DispatchFrames(At(pc), kind)
        PROVE  StillExact /\ Own(calls') = Moved(pc)
    <3>1. Entered(At(pc))
      BY <2>6, StackCalls
    <3> QED  BY <2>3, <3>1, StackEntered DEF StillExact
  <2>7. ASSUME NEW pc, NEW n
        PROVE  LET r == Call("frame", pc, NoScene, n)
               IN  /\ calls' = Append(Callers, r) /\ dispatching' = dispatching =>
                        StillExact /\ Own(calls') = Become(r)
                   /\ CallApply(Append(Callers, r)) =>
                        StillExact /\ Own(calls') = Become(r) \cup {NewApply}
    <3> DEFINE r == Call("frame", pc, NoScene, n)
    <3>1. IsRecord(r) /\ r.fn = "frame"
      BY DEF IsRecord, Call
    <3> HIDE DEF r
    <3>2. Exact(Append(Callers, r)) /\ Own(Append(Callers, r)) = Become(r)
      BY <1>1, <3>1, EngineGoesOn DEF Become
    <3>3. PICK S : Callers \in Seq(S)
      BY <1>1, CallersProperties DEF Exact
    <3>4. Append(Callers, r) # <<>> /\ Append(Callers, r)[Len(Append(Callers, r))] = r
      <4>1. Callers \in Seq(S \cup {r})
        BY <3>3
      <4> QED  BY <4>1, AppendProperties
    <3>5. \A s \in Own(Append(Callers, r)) : s.fn # "apply"
      BY <2>1, <3>1, <3>2 DEF Become
    <3>6. CallApply(Append(Callers, r)) => StillExact /\ Own(calls') = Become(r) \cup {NewApply}
      BY <3>1, <3>2, <3>4, <3>5, AppliesCommands
    <3>7. calls' = Append(Callers, r) /\ dispatching' = dispatching =>
             StillExact /\ Own(calls') = Become(r)
      BY <3>2 DEF Exact, StillExact
    <3> QED  BY <3>6, <3>7 DEF r
  <2> QED  BY <2>2, <2>4, <2>5, <2>6, <2>7
<1>2. FrameEnds => StillExact /\ Own(calls') = Without
  BY <1>1 DEF FrameEnds
<1>3. SampleClock => StillExact /\ Own(calls') = Become(Call("frame", "begin", NoScene, 0))
  BY <1>1 DEF SampleClock
<1>4. ASSUME NEW status, BeginHookReturns(status)
      PROVE  /\ StillExact
             /\ Own(calls') = IF status # "ok" \/ quit THEN Without
                              ELSE IF acc >= Step /\ 0 < MaxUpdates THEN Moved("fixed") ELSE Moved("update")
  BY <1>1, <1>4, FixedOrUpdateMoves DEF BeginHookReturns
<1>5. FixedReturns =>
        /\ StillExact
        /\ Own(calls') = IF ret # "ok" THEN Without
                         ELSE Become(Call("frame", "fixed_commands", NoScene, Top.idx + 1)) \cup {NewApply}
  BY <1>1 DEF FixedReturns
<1>6. AfterFixedCommands =>
        /\ StillExact
        /\ Own(calls') = IF acc >= Step /\ Top.idx < MaxUpdates THEN Moved("fixed") ELSE Moved("update")
  BY FixedOrUpdateMoves DEF AfterFixedCommands
<1>7. UpdateReturns =>
        /\ StillExact
        /\ Own(calls') = IF ret # "ok" THEN Without ELSE Moved("update_commands") \cup {NewApply}
  BY <1>1 DEF UpdateReturns
<1>8. AfterUpdateCommands => StillExact /\ Own(calls') = Moved("render")
  BY <1>1 DEF AfterUpdateCommands, FrameWalk
<1>9. RenderReturns => /\ StillExact
                       /\ Own(calls') = IF ret # "ok" THEN Without ELSE Moved("present")
  BY <1>1 DEF RenderReturns
<1>10. ASSUME NEW status, PresentReturns(status)
       PROVE  /\ StillExact
              /\ Own(calls') = IF status # "ok" THEN Without ELSE Moved("present_commands") \cup {NewApply}
  BY <1>1, <1>10 DEF PresentReturns
<1>11. FrameDone => StillExact /\ Own(calls') = Without
  BY <1>1 DEF FrameDone
<1> QED  BY <1>2, <1>3, <1>4, <1>5, <1>6, <1>7, <1>8, <1>9, <1>10, <1>11

LEMMA RunMoves ==
  ASSUME OwnershipInv
  PROVE  /\ \A now : EngineFrame(now) =>
              /\ StillExact
              /\ Own(calls') = IF state = "CREATED" /\ ~frameActive
                               THEN Own(calls) \cup {Call("frame", "commands", NoScene, now), NewApply}
                               ELSE Own(calls)
         /\ EngineRun =>
              /\ StillExact
              /\ Own(calls') = IF state \in {"CREATED", "STOPPED"} /\ ~frameActive
                               THEN Own(calls) \cup {Call("run", "poll", NoScene, clock')}
                               ELSE Own(calls)
         /\ \A status : PollReturns(status) =>
              /\ StillExact
              /\ Own(calls') = IF status # "ok" \/ quit THEN Without
                               ELSE Moved("frame") \cup {Call("frame", "commands", NoScene, Top.idx), NewApply}
         /\ RunFrameReturns =>
              /\ StillExact
              /\ Own(calls') = IF FrameStops THEN Without
                               ELSE Become(Call("run", "poll", NoScene, clock'))
<1> USE DEF Resumes, Running, EngineOp
<1> Exact(calls)
  BY DEF OwnershipInv
<1>1. ASSUME NEW c, Exact(c), NEW now, BeginFrame(c, now), \A r \in Own(c) : r.fn # "frame",
             \A r \in Own(c) : r.fn # "apply"
      PROVE  StillExact /\ Own(calls') = Own(c) \cup {Call("frame", "commands", NoScene, now), NewApply}
  <2> DEFINE f == Call("frame", "commands", NoScene, now)
  <2>1. Exact(Append(c, f)) /\ Own(Append(c, f)) = Own(c) \cup {f}
    BY <1>1, EngineCalls
  <2>2. f.fn = "frame"
    BY DEF Call
  <2> HIDE DEF f
  <2>3. PICK S : c \in Seq(S)
    BY <1>1 DEF Exact, WellNested
  <2>4. Append(c, f) # <<>> /\ Append(c, f)[Len(Append(c, f))] = f
    <3>1. c \in Seq(S \cup {f})
      BY <2>3
    <3> QED  BY <3>1, AppendProperties
  <2>5. CallApply(Append(c, f))
    BY <1>1 DEF BeginFrame, f
  <2>6. StillExact /\ Own(calls') = Own(Append(c, f)) \cup {NewApply}
    BY <1>1, <2>1, <2>2, <2>4, <2>5, AppliesCommands
  <2> QED  BY <2>1, <2>6 DEF f
<1>2. ASSUME ~frameActive  PROVE \A r \in Own(calls) : r.fn \notin {"frame", "apply"}
  BY <1>2, ApplyNeedsFrame DEF OwnershipInv, Has
<1>3. ASSUME NEW now, EngineFrame(now)
      PROVE  /\ StillExact
             /\ Own(calls') = IF state = "CREATED" /\ ~frameActive
                              THEN Own(calls) \cup {Call("frame", "commands", NoScene, now), NewApply}
                              ELSE Own(calls)
  BY <1>1, <1>2, <1>3 DEF EngineFrame, Refuse, Exact, StillExact
<1>4. ASSUME EngineRun
      PROVE  /\ StillExact
             /\ Own(calls') = IF state \in {"CREATED", "STOPPED"} /\ ~frameActive
                              THEN Own(calls) \cup {Call("run", "poll", NoScene, clock')}
                              ELSE Own(calls)
  <2>1. CASE state \in {"CREATED", "STOPPED"} /\ ~frameActive
    <3>1. \A r \in Own(calls) : r.fn # "run"
      BY <2>1 DEF OwnershipInv, Has
    <3>2. calls' = Append(calls, Call("run", "poll", NoScene, clock')) /\ dispatching' = dispatching
      BY <1>4, <2>1 DEF EngineRun, Poll
    <3>3. /\ Exact(Append(calls, Call("run", "poll", NoScene, clock')))
          /\ Own(Append(calls, Call("run", "poll", NoScene, clock'))) =
               Own(calls) \cup {Call("run", "poll", NoScene, clock')}
      BY <1>2, <2>1, <3>1, EngineCalls
    <3> QED  BY <2>1, <3>2, <3>3 DEF Exact, StillExact
  <2>2. CASE ~(state \in {"CREATED", "STOPPED"} /\ ~frameActive)
    BY <1>4, <2>2 DEF EngineRun, Refuse, Exact, StillExact
  <2> QED  BY <2>1, <2>2
<1>5. ASSUME NEW status, PollReturns(status)
      PROVE  /\ StillExact
             /\ Own(calls') = IF status # "ok" \/ quit THEN Without
                              ELSE Moved("frame") \cup {Call("frame", "commands", NoScene, Top.idx), NewApply}
  <2>1. calls # <<>> /\ Top.fn = "run"
    BY <1>5 DEF PollReturns
  <2>2. /\ Exact(Callers) /\ Own(Callers) = Without
        /\ \A r \in Own(calls) : r.fn \notin {"frame", "apply"}
    BY <2>1, EngineReturns, ApplyNeedsFrame DEF Without
  <2>3. CASE status # "ok" \/ quit
    BY <1>5, <2>2, <2>3 DEF PollReturns, StopRun, Return, Exact, StillExact
  <2>4. CASE ~(status # "ok" \/ quit)
    <3>1. BeginFrame(At("frame"), Top.idx)
      BY <1>5, <2>4 DEF PollReturns
    <3>2. Exact(At("frame")) /\ Own(At("frame")) = Moved("frame") /\ [Top EXCEPT !.pc = "frame"].fn = "run"
      BY <2>1, TopGoesOn DEF Moved, Become
    <3>3. \A r \in Own(At("frame")) : r.fn \notin {"frame", "apply"}
      BY <2>2, <3>2 DEF Moved, Become
    <3> QED  BY <1>1, <2>4, <3>1, <3>2, <3>3
  <2> QED  BY <2>3, <2>4
<1>6. ASSUME RunFrameReturns
      PROVE  /\ StillExact
             /\ Own(calls') = IF FrameStops THEN Without
                              ELSE Become(Call("run", "poll", NoScene, clock'))
  <2>1. calls # <<>> /\ Top.fn = "run"
    BY <1>6 DEF RunFrameReturns
  <2>2. CASE FrameStops
    <3>1. Exact(Callers) /\ Own(Callers) = Without
      BY <2>1, EngineReturns DEF Without
    <3> QED  BY <1>6, <2>2, <3>1 DEF RunFrameReturns, StopRun, Return, Exact, StillExact
  <2>3. CASE ~FrameStops
    <3> DEFINE r == Call("run", "poll", NoScene, clock')
    <3>1. IsRecord(r) /\ r.fn = "run"
      BY DEF IsRecord, Call
    <3>2. calls' = Append(Callers, r) /\ dispatching' = dispatching
      BY <1>6, <2>3 DEF RunFrameReturns, Poll
    <3> HIDE DEF r
    <3>3. Exact(Append(Callers, r)) /\ Own(Append(Callers, r)) = Become(r)
      BY <2>1, <3>1, EngineGoesOn DEF Become
    <3> QED  BY <2>3, <3>2, <3>3 DEF Exact, StillExact, r
  <2> QED  BY <2>2, <2>3
<1> QED  BY <1>3, <1>4, <1>5, <1>6

LEMMA DestroyBegins ==
  ASSUME Exact(calls), Idle(calls), Own(calls) = {}
  PROVE  LET r == Call("destroy", "wait", NoScene, 0)
         IN  Exact(Append(calls, r)) /\ Own(Append(calls, r)) = {r}
<1>1. "destroy" \in EngineOp /\ \A s \in Own(calls) : s.fn # "destroy"
  BY DEF EngineOp
<1> QED  BY <1>1, EngineCalls

LEMMA OtherMoves ==
  ASSUME OwnershipInv
  PROVE  /\ \A cmd : EngineQueueSceneCommand(cmd) => StillExact /\ Own(calls') = Own(calls)
         /\ RequestQuit => StillExact /\ Own(calls') = Own(calls)
         /\ EngineDispatchEvent => StillExact /\ Own(calls') = Own(calls)
         /\ EngineDestroy =>
              /\ StillExact
              /\ Busy => Own(calls') = Own(calls)
              /\ ~Busy => Own(calls) = {} /\ Own(calls') = {Call("destroy", "wait", NoScene, 0)}
         /\ DestroyReturns => /\ StillExact /\ calls' = <<>> /\ Own(calls') = {}
                              /\ Own(calls) = {Top}
         /\ EngineCreate => StillExact /\ calls = <<>> /\ calls' = <<>>
         /\ SceneCallbackReturns => StillExact /\ Own(calls') = Own(calls)
<1> USE DEF Resumes, Running, EngineOp
<1> Exact(calls)
  BY DEF OwnershipInv
<1> calls' = calls /\ dispatching' = dispatching => StillExact /\ Own(calls') = Own(calls)
  BY DEF Exact, StillExact
<1>1. ASSUME NEW cmd, EngineQueueSceneCommand(cmd)  PROVE StillExact /\ Own(calls') = Own(calls)
  BY <1>1 DEF EngineQueueSceneCommand
<1>2. ASSUME RequestQuit  PROVE StillExact /\ Own(calls') = Own(calls)
  BY <1>2 DEF RequestQuit, stackVars
<1>3. ASSUME EngineDispatchEvent  PROVE StillExact /\ Own(calls') = Own(calls)
  BY <1>3, StackCalls, StackEntered DEF EngineDispatchEvent, StillExact
<1>4. ASSUME EngineDestroy, Busy  PROVE StillExact /\ Own(calls') = Own(calls)
  BY <1>4 DEF EngineDestroy, Refuse
<1>5. ASSUME EngineDestroy, ~Busy
      PROVE  StillExact /\ Own(calls) = {} /\ Own(calls') = {Call("destroy", "wait", NoScene, 0)}
  <2>1. calls = <<>>
    <3>1. ~dispatching /\ \A r \in Own(calls) : r.fn \notin {"frame", "run"}
      BY <1>5 DEF Busy, OwnershipInv, Has
    <3>2. calls # <<>> => Top \in Records(calls)
      BY Returned DEF Exact
    <3>3. calls # <<>> => Top.fn \notin StackOp \cup {"frame", "run"}
      BY <3>1, <3>2 DEF Exact, Dispatches, Own
    <3> QED  BY <1>5, <3>3 DEF EngineDestroy, AppInControl, InCallback
  <2>2. Own(calls) = {}
    BY <2>1 DEF Own, Records
  <2>3. LET c == Append(calls, Call("destroy", "wait", NoScene, 0))
        IN  Exact(c) /\ Own(c) = {Call("destroy", "wait", NoScene, 0)} /\ Entered(c)
    BY <1>5, <2>1, <2>2, DestroyBegins, StackCalls DEF EngineDestroy, Idle
  <2> QED  BY <2>2, <2>3, StackEntered DEF StillExact
<1>6. ASSUME DestroyReturns
      PROVE  StillExact /\ calls' = <<>> /\ Own(calls') = {} /\ Own(calls) = {Top}
  <2>1. /\ calls # <<>> /\ Top.fn = "destroy" /\ calls' = Callers /\ dispatching' = dispatching
    BY <1>6 DEF DestroyReturns, Return
  <2>2. Exact(Callers) /\ Callers = <<>> /\ Own(Callers) = Own(calls) \ {Top} /\ Top \in Own(calls)
    BY <2>1, EngineReturns
  <2>3. Own(Callers) = {}
    BY <2>2 DEF Own, Records
  <2> QED  BY <2>1, <2>2, <2>3 DEF Exact, StillExact
<1>7. ASSUME EngineCreate  PROVE StillExact /\ calls = <<>> /\ calls' = <<>>
  BY <1>7 DEF EngineCreate
<1>8. ASSUME SceneCallbackReturns  PROVE StillExact /\ Own(calls') = Own(calls)
  BY <1>8, StackReturns DEF SceneCallbackReturns, StillExact
<1> QED  BY <1>1, <1>2, <1>3, <1>4, <1>5, <1>6, <1>7, <1>8

-----------------------------------------------------------------------------
(* Ownership *)

\* Which kinds of operations are in progress after the top one has moved.
LEMMA Kinds ==
  /\ \A own, r, fn : Has(own \cup {r}, fn) <=> Has(own, fn) \/ r.fn = fn
  /\ \A own, r, s, fn : Has(own \cup {r, s}, fn) <=> Has(own, fn) \/ r.fn = fn \/ s.fn = fn
  /\ \A fn, pc, arg, idx : Call(fn, pc, arg, idx).fn = fn
  /\ NewApply.fn = "apply"
  /\ \A fn : ~Has({}, fn)
BY DEF Has, Call, NewApply

LEMMA KindsOnTop ==
  ASSUME Exact(calls), calls # <<>>, Top.fn \in EngineOp
  PROVE  /\ Has(Own(calls), Top.fn)
         /\ \A fn : Has(Without, fn) <=> Has(Own(calls), fn) /\ fn # Top.fn
         /\ \A r, fn : r.fn = Top.fn => (Has(Become(r), fn) <=> Has(Own(calls), fn))
         /\ \A pc, fn : Has(Moved(pc), fn) <=> Has(Own(calls), fn)
<1>1. /\ Top \in Own(calls)
      /\ \A r \in Own(calls) : r.fn = Top.fn => r = Top
      /\ \A pc : [Top EXCEPT !.pc = pc].fn = Top.fn
  BY EngineReturns, TopGoesOn
<1>2. \A fn : Has(Without, fn) <=> Has(Own(calls), fn) /\ fn # Top.fn
  BY <1>1 DEF Has, Without
<1>3. \A r, fn : r.fn = Top.fn => (Has(Become(r), fn) <=> Has(Own(calls), fn))
  BY <1>1 DEF Has, Become
<1>4. \A pc, fn : Has(Moved(pc), fn) <=> Has(Own(calls), fn)
  BY <1>1, <1>3 DEF Moved
<1> QED  BY <1>1, <1>2, <1>3, <1>4 DEF Has

LEMMA OwnershipInit == EngineInit => OwnershipInv
<1> SUFFICES ASSUME EngineInit  PROVE OwnershipInv
  OBVIOUS
<1>1. calls = <<>> /\ ~dispatching /\ ~frameActive /\ state = "CREATED"
  BY DEF EngineInit, Init
<1>2. WellNested(<<>>)
  <2>1. <<>> \in Seq({})
    OBVIOUS
  <2> QED  BY <2>1 DEF WellNested
<1>3. Records(<<>>) = {}
  BY DEF Records
<1> QED  BY <1>1, <1>2, <1>3 DEF OwnershipInv, Exact, Dispatches, Own, Has

\* Every step keeps the owners.
LEMMA OwnershipStep ==
  ASSUME OwnershipInv, [EngineNext]_vars
  PROVE  OwnershipInv'
<1> USE Kinds, KindsOnTop DEF Resumes, Running, EngineOp, OwnershipInv, Exact, StillExact
<1>1. CASE UNCHANGED vars
  BY <1>1 DEF vars, stackVars, engineVars, modeVars
<1>2. ASSUME ApplyTakes  PROVE OwnershipInv'
  BY <1>2, ApplyMoves DEF ApplyTakes, modeVars
<1>3. ASSUME ApplyDone  PROVE OwnershipInv'
  BY <1>3, ApplyMoves DEF ApplyDone, modeVars
<1>4. ASSUME ApplyResumes  PROVE OwnershipInv'
  BY <1>4, ApplyMoves DEF ApplyResumes, modeVars
<1>5. ASSUME FrameEnds  PROVE OwnershipInv'
  <2>1. /\ alive /\ alive' /\ calls # <<>> /\ Top.fn = "frame" /\ state' = state
        /\ ~frameActive'
    BY <1>5 DEF FrameEnds, EndFrame, modeVars
  <2> QED  BY <1>5, <2>1, FrameMoves
<1>6. ASSUME SampleClock  PROVE OwnershipInv'
  BY <1>6, FrameMoves DEF SampleClock, modeVars
<1>7. ASSUME NEW status, BeginHookReturns(status)  PROVE OwnershipInv'
  <2>1. /\ alive /\ alive' /\ calls # <<>> /\ Top.fn = "frame" /\ state' = state
        /\ IF status # "ok" \/ quit THEN ~frameActive' ELSE frameActive' = frameActive
    BY <1>7 DEF BeginHookReturns, EndFrame, FixedOrUpdate, modeVars
  <2> QED  BY <1>7, <2>1, FrameMoves
<1>8. ASSUME FixedReturns  PROVE OwnershipInv'
  <2>1. /\ alive /\ alive' /\ calls # <<>> /\ Top.fn = "frame" /\ state' = state
        /\ IF ret # "ok" THEN ~frameActive' ELSE frameActive' = frameActive
    BY <1>8 DEF FixedReturns, EndFrame, modeVars
  <2>2. CASE ret # "ok"
    BY <1>8, <2>1, <2>2, FrameMoves
  <2>3. CASE ~(ret # "ok")
    <3> DEFINE r == Call("frame", "fixed_commands", NoScene, Top.idx + 1)
    <3>1. StillExact /\ Own(calls') = Become(r) \cup {NewApply}
      BY <1>8, <2>3, FrameMoves
    <3>2. r.fn = "frame"
      BY DEF Call
    <3> HIDE DEF r
    <3>3. \A fn : Has(Become(r), fn) <=> Has(Own(calls), fn)
      BY <2>1, <3>2
    <3>4. \A fn : Has(Own(calls'), fn) <=> Has(Own(calls), fn) \/ fn = "apply"
      BY <3>1, <3>3
    <3> QED  BY <2>1, <2>3, <3>1, <3>4, ZenonT(60)
  <2> QED  BY <2>2, <2>3
<1>9. ASSUME AfterFixedCommands  PROVE OwnershipInv'
  BY <1>9, FrameMoves DEF AfterFixedCommands, FixedOrUpdate, modeVars
<1>10. ASSUME UpdateReturns  PROVE OwnershipInv'
  <2>1. /\ alive /\ alive' /\ calls # <<>> /\ Top.fn = "frame" /\ state' = state
        /\ IF ret # "ok" THEN ~frameActive' ELSE frameActive' = frameActive
    BY <1>10 DEF UpdateReturns, EndFrame, modeVars
  <2>2. CASE ret # "ok"
    BY <1>10, <2>1, <2>2, FrameMoves
  <2>3. CASE ~(ret # "ok")
    <3>1. StillExact /\ Own(calls') = Moved("update_commands") \cup {NewApply}
      BY <1>10, <2>3, FrameMoves
    <3>2. \A fn : Has(Own(calls'), fn) <=> Has(Own(calls), fn) \/ fn = "apply"
      BY <2>1, <3>1, SMTT(60)
    <3> QED  BY <2>1, <2>3, <3>1, <3>2, ZenonT(60)
  <2> QED  BY <2>2, <2>3
<1>11. ASSUME AfterUpdateCommands  PROVE OwnershipInv'
  BY <1>11, FrameMoves DEF AfterUpdateCommands, modeVars
<1>12. ASSUME RenderReturns  PROVE OwnershipInv'
  <2>1. /\ alive /\ alive' /\ calls # <<>> /\ Top.fn = "frame" /\ state' = state
        /\ IF ret # "ok" THEN ~frameActive' ELSE frameActive' = frameActive
    BY <1>12 DEF RenderReturns, EndFrame, modeVars
  <2> QED  BY <1>12, <2>1, FrameMoves
<1>13. ASSUME NEW status, PresentReturns(status)  PROVE OwnershipInv'
  <2>1. /\ alive /\ alive' /\ calls # <<>> /\ Top.fn = "frame" /\ state' = state
        /\ IF status # "ok" THEN ~frameActive' ELSE frameActive' = frameActive
    BY <1>13 DEF PresentReturns, EndFrame, modeVars
  <2> QED  BY <1>13, <2>1, FrameMoves, SMTT(60)
<1>14. ASSUME FrameDone  PROVE OwnershipInv'
  <2>1. /\ alive /\ alive' /\ calls # <<>> /\ Top.fn = "frame" /\ state' = state
        /\ ~frameActive'
    BY <1>14 DEF FrameDone, EndFrame, modeVars
  <2> QED  BY <1>14, <2>1, FrameMoves
<1>15. ASSUME NEW now, EngineFrame(now)  PROVE OwnershipInv'
  <2>1. /\ alive /\ alive' /\ state' = state
        /\ IF state = "CREATED" /\ ~frameActive THEN frameActive' ELSE frameActive' = frameActive
    BY <1>15 DEF EngineFrame, BeginFrame, modeVars, AppInControl
  <2> QED  BY <1>15, <2>1, RunMoves
<1>16. ASSUME EngineRun  PROVE OwnershipInv'
  <2>1. /\ alive /\ alive' /\ frameActive' = frameActive
        /\ IF state \in {"CREATED", "STOPPED"} /\ ~frameActive THEN state' = "RUNNING" ELSE state' = state
    BY <1>16 DEF EngineRun, modeVars, AppInControl
  <2> QED  BY <1>16, <2>1, RunMoves
<1>17. ASSUME NEW status, PollReturns(status)  PROVE OwnershipInv'
  <2>1. /\ alive /\ alive' /\ calls # <<>> /\ Top.fn = "run"
        /\ IF status # "ok" \/ quit
           THEN state' = "STOPPED" /\ frameActive' = frameActive
           ELSE state' = state /\ frameActive'
    BY <1>17 DEF PollReturns, StopRun, BeginFrame, modeVars, AppInControl
  <2>2. CASE status # "ok" \/ quit
    BY <1>17, <2>1, <2>2, RunMoves
  <2>3. CASE ~(status # "ok" \/ quit)
    <3>1. StillExact /\ Own(calls') = Moved("frame") \cup {Call("frame", "commands", NoScene, Top.idx), NewApply}
      BY <1>17, <2>3, RunMoves
    <3>2. \A fn : Has(Own(calls'), fn) <=> Has(Own(calls), fn) \/ fn \in {"frame", "apply"}
      BY <2>1, <3>1, SMTT(60)
    <3> QED  BY <2>1, <2>3, <3>1, <3>2
  <2> QED  BY <2>2, <2>3
<1>18. ASSUME RunFrameReturns  PROVE OwnershipInv'
  <2>1. /\ alive /\ alive' /\ calls # <<>> /\ Top.fn = "run" /\ frameActive' = frameActive
        /\ IF FrameStops THEN state' = "STOPPED" ELSE state' = state
    BY <1>18 DEF RunFrameReturns, StopRun, modeVars, AppInControl
  <2> QED  BY <1>18, <2>1, RunMoves
<1>19. ASSUME NEW cmd, EngineQueueSceneCommand(cmd)  PROVE OwnershipInv'
  BY <1>19, OtherMoves DEF EngineQueueSceneCommand, modeVars
<1>20. ASSUME RequestQuit  PROVE OwnershipInv'
  <2>1. /\ alive /\ alive' /\ frameActive' = frameActive
        /\ state' = state \/ {state, state'} \subseteq {"RUNNING", "STOPPING"}
    BY <1>20 DEF RequestQuit, modeVars, AppInControl
  <2> QED  BY <1>20, <2>1, OtherMoves
<1>21. ASSUME EngineDispatchEvent  PROVE OwnershipInv'
  <2>1. /\ alive /\ alive' /\ frameActive' = frameActive
        /\ state' = state \/ {state, state'} \subseteq {"RUNNING", "STOPPING"}
    BY <1>21 DEF EngineDispatchEvent, engineVars, modeVars, AppInControl
  <2> QED  BY <1>21, <2>1, OtherMoves
<1>22. ASSUME EngineDestroy  PROVE OwnershipInv'
  <2>1. /\ alive /\ alive' /\ frameActive' = frameActive
        /\ state' = state \/ {state, state'} \subseteq {"RUNNING", "STOPPING"}
    BY <1>22 DEF EngineDestroy, engineVars, modeVars, AppInControl
  <2> QED  BY <1>22, <2>1, OtherMoves
<1>23. ASSUME DestroyReturns  PROVE OwnershipInv'
  BY <1>23, OtherMoves, ZenonT(60) DEF DestroyReturns, modeVars
<1>24. ASSUME EngineCreate  PROVE OwnershipInv'
  BY <1>24, OtherMoves DEF EngineCreate, modeVars
<1>25. ASSUME SceneCallbackReturns  PROVE OwnershipInv'
  BY <1>25, OtherMoves DEF SceneCallbackReturns, engineVars, modeVars
<1> QED
  BY <1>1, <1>2, <1>3, <1>4, <1>5, <1>6, <1>7, <1>8, <1>9, <1>10, <1>11, <1>12, <1>13,
     <1>14, <1>15, <1>16, <1>17, <1>18, <1>19, <1>20, <1>21, <1>22, <1>23, <1>24,
     <1>25
     DEF EngineNext, EngineStep, AppStep, HookReturns

LEMMA OwnershipHolds == EngineSpec => []OwnershipInv
BY OwnershipInit, OwnershipStep, PTL DEF EngineSpec

\* On every path, the failing ones included, frame_active says that a frame is in
\* progress, and RUNNING and STOPPING that a run is: both decide what run, frame and
\* destroy refuse.
THEOREM OwnershipStaysExact == EngineSpec => []OwnershipIsExact
<1>1. OwnershipInv => OwnershipIsExact
  <2> SUFFICES ASSUME OwnershipInv  PROVE OwnershipIsExact
    OBVIOUS
  <2>1. DOMAIN calls = 1 .. Len(calls)
    BY DEF OwnershipInv, Exact, WellNested
  <2>2. \A fn \in EngineOp : InProgress({fn}) <=> Has(Own(calls), fn)
    BY <2>1 DEF InProgress, Has, Own, Records, EngineOp, StackOp, Walk, FrameWalk, Mutation
  <2> QED  BY <2>2 DEF OwnershipInv, OwnershipIsExact, EngineOp
<1> QED  BY <1>1, OwnershipHolds, PTL

\* No engine or scene function returns into an engine that has been destroyed: a
\* destruction that does anything is the only operation in progress.
THEOREM DestroyedIsUnused == EngineSpec => []NoUseAfterDestroy
<1>1. OwnershipInv => NoUseAfterDestroy
  BY DEF OwnershipInv, NoUseAfterDestroy
<1> QED  BY <1>1, OwnershipHolds, PTL

-----------------------------------------------------------------------------
(* The clock *)

\* A reading that has not been used yet lies between the last one used and the clock.
Fresh(now) == now \in Nat /\ lastTime <= now /\ now <= clock

\* What the operations in progress rely on: a frame that is due a fixed update has
\* the time for it, one that has passed its last holds less than a step, and nobody
\* uses the clock between a reading of the run loop and the frame it is for.
ClockOf(r) ==
  /\ r.fn = "frame" /\ r.pc = "commands" => Fresh(r.idx)
  /\ r.fn = "frame" /\ r.pc = "fixed" => Step <= acc
  /\ r.fn = "frame" /\ r.pc \in {"update", "update_commands", "render"} => acc < Step
  /\ r.fn = "run" /\ r.pc = "poll" => Fresh(r.idx) /\ ~frameActive

\* The time simulated, ticked or still accumulated.
Simulated == tick * Step + acc

\* It has passed between the first reading used and the last.
ClockInv ==
  /\ config \in Configs
  /\ acc \in Nat /\ tick \in Nat /\ lastTime \in Nat /\ clock \in Nat
  /\ seen = [lo |-> seen.lo, hi |-> lastTime] /\ seen.lo \in Nat
  /\ lastTime <= clock /\ clock <= MaxTime /\ seen.lo <= MaxTime
  /\ seen.lo <= lastTime => Simulated <= lastTime - seen.lo
  /\ lastTime < seen.lo => acc = 0 /\ tick = 0 /\ ~clockStarted
  /\ \A r \in Own(calls) : ClockOf(r)

LEMMA ClockInit == EngineInit => ClockInv
<1> SUFFICES ASSUME EngineInit  PROVE ClockInv
  OBVIOUS
<1>1. Own(calls) = {}
  BY DEF EngineInit, Init, Own, Records
<1>2. config \in Configs /\ Step \in Nat \ {0} /\ MaxTime \in Nat
  BY EngineAssumption DEF EngineInit, Step, MaxTime
<1> QED  BY <1>1, <1>2 DEF EngineInit, ClockInv, NothingSeen, Simulated

\* The whole part of a division dropped, less than the divisor and no more than there
\* was is left.
LEMMA Remainder ==
  ASSUME NEW a \in Nat, NEW b \in Nat \ {0}
  PROVE  a % b \in Nat /\ a % b < b /\ a % b <= a
<1>1. a % b \in 0 .. b - 1
  OBVIOUS
<1>2. CASE b <= a
  BY <1>1, <1>2
<1>3. CASE a < b
  <2>1. a % b = a
    BY <1>3, SMT
  <2> QED  BY <1>1, <2>1
<1> QED  BY <1>1, <1>2, <1>3

\* Between ticks the time simulated follows the accumulator; a tick that consumes a
\* step of it changes nothing.
LEMMA SimulatedTime ==
  ASSUME tick \in Nat, Step \in Nat, acc \in Nat, acc' \in Nat, Step' = Step
  PROVE  /\ Simulated \in Nat
         /\ tick' = tick => Simulated' = (Simulated - acc) + acc'
         /\ tick' = tick + 1 /\ acc' = acc - Step => Simulated' = Simulated
<1>1. \A t, s \in Nat : t * s \in Nat /\ (t + 1) * s = t * s + s
  <2>1. \A t, s \in Nat : t * s \in Nat
    BY SMT
  <2>2. \A t, s \in Nat : (t + 1) * s = t * s + s
    BY SMT
  <2> QED  BY <2>1, <2>2
<1>2. PICK ticked \in Nat : tick * Step = ticked /\ (tick + 1) * Step = ticked + Step
  BY <1>1
<1>3. Simulated = ticked + acc
  BY <1>2 DEF Simulated
<1>4. ASSUME tick' = tick  PROVE Simulated' = ticked + acc'
  BY <1>2, <1>4 DEF Simulated
<1>5. ASSUME tick' = tick + 1  PROVE Simulated' = (ticked + Step) + acc'
  BY <1>2, <1>5 DEF Simulated
<1> QED  BY <1>3, <1>4, <1>5

\* The clock's bookkeeping does not move: only the operations in progress do.
LEMMA ClockKept ==
  ASSUME ClockInv, UNCHANGED <<config, acc, tick, lastTime, seen>>, clockStarted' => clockStarted,
         clock' \in Nat, clock <= clock', clock' <= MaxTime,
         \A r \in Own(calls') :
           \/ r \in Own(calls) /\ (frameActive' => frameActive \/ r.fn # "run")
           \/ ClockOf(r)'
  PROVE  ClockInv'
<1>1. Step' = Step /\ MaxTime' = MaxTime /\ Simulated' = Simulated
  BY DEF Step, MaxTime, Simulated
<1>2. \A r \in Own(calls') : ClockOf(r)'
  <2> SUFFICES ASSUME NEW r \in Own(calls'), r \in Own(calls), frameActive' => frameActive \/ r.fn # "run"
               PROVE  ClockOf(r)'
    OBVIOUS
  <2>1. ClockOf(r)
    BY DEF ClockInv
  <2>2. Fresh(r.idx) => Fresh(r.idx)'
    BY DEF Fresh, ClockInv
  <2> QED  BY <1>1, <2>1, <2>2 DEF ClockOf
<1> QED  BY <1>1, <1>2 DEF ClockInv

\* What the next frame adds is at most the time since the last.
LEMMA AccumulateAdds ==
  ASSUME ClockInv, NEW now, Fresh(now)
  PROVE  LET a == Accumulate(Elapsed(now))
         IN  /\ a \in Nat
             /\ a <= acc + (now - lastTime)
             /\ ~clockStarted => a <= acc
<1>1. MaxFrameTime \in Nat /\ MaxFrameTime <= AccLimit /\ AccLimit \in Nat
  BY EngineAssumption DEF ClockInv, MaxFrameTime
<1>2. /\ Elapsed(now) \in Nat /\ Elapsed(now) <= now - lastTime
      /\ ~clockStarted => Elapsed(now) = 0
  BY <1>1 DEF Elapsed, Smaller, Fresh, ClockInv
<1> QED  BY <1>1, <1>2 DEF Accumulate, ClockInv, Fresh

LEMMA ClockOnTop ==
  ASSUME OwnershipInv, ClockInv, calls # <<>>, Top.fn \in EngineOp
  PROVE  /\ ClockOf(Top)
         /\ \A r \in Without : r \in Own(calls) /\ ClockOf(r) /\ r.fn # Top.fn
         /\ \A r : Become(r) = Without \cup {r}
         /\ \A pc : \A r \in Moved(pc) :
              r \in Without \/ (r.fn = Top.fn /\ r.pc = pc /\ r.idx = Top.idx)
         /\ Top.fn = "frame" => frameActive
         /\ Top.fn = "run" => ~frameActive
<1>1. /\ Top \in Own(calls)
      /\ \A r \in Own(calls) : r.fn = Top.fn => r = Top
      /\ Top.fn = "run" => \A r \in Own(calls) : r.fn # "frame"
  BY EngineReturns DEF OwnershipInv
<1>2. \A pc : LET r == [Top EXCEPT !.pc = pc]
              IN  r.fn = Top.fn /\ r.pc = pc /\ r.idx = Top.idx
  BY TopGoesOn DEF OwnershipInv
<1>3. /\ Top.fn = "frame" => frameActive
      /\ Top.fn = "run" => ~frameActive
  BY <1>1 DEF OwnershipInv, Has
<1>4. \A pc : \A r \in Moved(pc) :
        r \in Without \/ (r.fn = Top.fn /\ r.pc = pc /\ r.idx = Top.idx)
  BY <1>2 DEF Moved, Become, Without
<1> QED  BY <1>1, <1>3, <1>4 DEF ClockInv, Without, Become

\* The clock's side of FixedOrUpdate.
ClockFixes(updates) ==
  IF acc >= Step /\ updates < MaxUpdates
  THEN Own(calls') = Moved("fixed") /\ acc' = acc
  ELSE Own(calls') = Moved("update") /\ acc' = acc % Step

\* A fixed update is called only with a step to consume, the variable update only with
\* less than one left.
LEMMA ClockFixedOrUpdate ==
  ASSUME OwnershipInv, ClockInv, NEW updates, ClockFixes(updates),
         updates \in Nat \/ updates = Top.idx,
         UNCHANGED <<config, clockStarted, lastTime, tick, seen, clock>>,
         calls # <<>>, Top.fn = "frame", frameActive' => frameActive
  PROVE  ClockInv'
<1>1. /\ Step \in Nat \ {0} /\ MaxTime \in Nat
      /\ acc \in Nat /\ tick \in Nat /\ lastTime \in Nat /\ clock \in Nat
      /\ lastTime <= clock /\ clock <= MaxTime
  BY EngineAssumption DEF ClockInv, Step, MaxTime
<1>2. Step' = Step /\ MaxTime' = MaxTime
  BY DEF Step, MaxTime
<1>3. \A r \in Without : r \in Own(calls) /\ r.fn # "frame"
  BY ClockOnTop DEF EngineOp
<1>4. CASE acc >= Step /\ updates < MaxUpdates
  <2>1. Own(calls') = Moved("fixed") /\ acc' = acc
    BY <1>4 DEF ClockFixes
  <2>2. \A r \in Own(calls') : r \in Own(calls) \/ ClockOf(r)'
    <3> SUFFICES ASSUME NEW r \in Own(calls'), r \notin Without  PROVE ClockOf(r)'
      BY <1>3
    <3>1. r.fn = "frame" /\ r.pc = "fixed"
      BY <2>1, ClockOnTop DEF EngineOp
    <3> QED  BY <1>1, <1>2, <1>4, <2>1, <3>1 DEF ClockOf
  <2> QED  BY <1>1, <2>1, <2>2, ClockKept
<1>5. CASE ~(acc >= Step /\ updates < MaxUpdates)
  <2>1. Own(calls') = Moved("update") /\ acc' = acc % Step
    BY <1>5 DEF ClockFixes
  <2>2. acc' \in Nat /\ acc' < Step /\ acc' <= acc
    BY <1>1, <2>1, Remainder
  <2>3. \A r \in Own(calls') : ClockOf(r)'
    <3>1. ASSUME NEW r \in Without  PROVE ClockOf(r)'
      <4>1. ClockOf(r) /\ r.fn # "frame"
        BY <1>3, <3>1, ClockOnTop DEF EngineOp
      <4>2. Fresh(r.idx) => Fresh(r.idx)'
        BY DEF Fresh
      <4> QED  BY <4>1, <4>2, ClockOnTop DEF ClockOf, EngineOp
    <3>2. ASSUME NEW r \in Own(calls'), r \notin Without  PROVE ClockOf(r)'
      <4>1. r.fn = "frame" /\ r.pc = "update"
        BY <2>1, <3>2, ClockOnTop DEF EngineOp
      <4> QED  BY <1>2, <2>2, <4>1 DEF ClockOf
    <3> QED  BY <3>1, <3>2
  <2>4. Simulated' <= Simulated /\ Simulated' \in Int /\ Simulated \in Int
    BY <1>1, <1>2, <2>2, SimulatedTime
  <2>5. seen.lo <= lastTime => Simulated' <= lastTime - seen.lo
    BY <1>1, <2>4, SMTT(60) DEF ClockInv
  <2>6. lastTime < seen.lo => acc' = 0 /\ ~clockStarted' /\ tick' = 0
    BY <1>1, <2>2 DEF ClockInv
  <2> QED  BY <1>1, <1>2, <2>2, <2>3, <2>5, <2>6 DEF ClockInv
<1> QED  BY <1>4, <1>5

\* Every step keeps the time.
LEMMA ClockStep ==
  ASSUME OwnershipInv, ClockInv, [EngineNext]_vars
  PROVE  ClockInv'
<1> USE DEF Resumes, Running, EngineOp
<1>a. /\ Step \in Nat \ {0} /\ MaxTime \in Nat /\ MaxUpdates \in Nat \ {0}
      /\ acc \in Nat /\ tick \in Nat /\ lastTime \in Nat /\ clock \in Nat
      /\ lastTime <= clock /\ clock <= MaxTime
  BY EngineAssumption DEF ClockInv, Step, MaxTime, MaxUpdates
<1>b. /\ \A fn, pc, arg, idx : LET r == Call(fn, pc, arg, idx)
                                IN  r.fn = fn /\ r.pc = pc /\ r.idx = idx
       /\ NewApply.fn = "apply"
  BY DEF Call, NewApply
<1>c. \A r : r.fn \notin {"frame", "run"} => ClockOf(r)'
  BY DEF ClockOf
<1>1. CASE UNCHANGED vars
  BY <1>a, <1>1, ClockKept DEF vars, stackVars, engineVars, modeVars, clockVars
<1>2. ASSUME NEW cmd, EngineQueueSceneCommand(cmd)  PROVE ClockInv'
  <2>1. UNCHANGED <<config, clockVars, clock, frameActive>>
    BY <1>2 DEF EngineQueueSceneCommand, Rest, engineVars, modeVars
  <2>2. \A r \in Own(calls') : r \in Own(calls)
    BY <1>2, OtherMoves
  <2> QED  BY <1>a, <1>c, <2>1, <2>2, ClockKept DEF clockVars
<1>3. ASSUME RequestQuit  PROVE ClockInv'
  <2>1. UNCHANGED <<config, clockVars, clock, frameActive>>
    BY <1>3 DEF RequestQuit, Rest, engineVars, modeVars
  <2>2. \A r \in Own(calls') : r \in Own(calls)
    BY <1>3, OtherMoves
  <2> QED  BY <1>a, <1>c, <2>1, <2>2, ClockKept DEF clockVars
<1>4. ASSUME EngineDispatchEvent  PROVE ClockInv'
  <2>1. UNCHANGED <<config, clockVars, clock, frameActive>>
    BY <1>4 DEF EngineDispatchEvent, Rest, engineVars, modeVars
  <2>2. \A r \in Own(calls') : r \in Own(calls)
    BY <1>4, OtherMoves
  <2> QED  BY <1>a, <1>c, <2>1, <2>2, ClockKept DEF clockVars
<1>5. ASSUME EngineDestroy  PROVE ClockInv'
  <2>1. UNCHANGED <<config, clockVars, clock, frameActive>>
    BY <1>5 DEF EngineDestroy, Rest, engineVars, modeVars
  <2>2. \A r \in Own(calls') : r \in Own(calls) \/ r.fn = "destroy"
    BY <1>b, <1>5, OtherMoves
  <2> QED  BY <1>a, <1>c, <2>1, <2>2, ClockKept DEF clockVars
<1>6. ASSUME EngineCreate  PROVE ClockInv'
  <2>1. UNCHANGED <<config, clockVars, clock, frameActive>>
    BY <1>6 DEF EngineCreate, Rest, engineVars, modeVars
  <2>2. \A r \in Own(calls') : r \in Own(calls)
    BY <1>6, OtherMoves
  <2> QED  BY <1>a, <1>c, <2>1, <2>2, ClockKept DEF clockVars
<1>7. ASSUME SceneCallbackReturns  PROVE ClockInv'
  <2>1. UNCHANGED <<config, clockVars, clock, frameActive>>
    BY <1>7 DEF SceneCallbackReturns, Rest, engineVars, modeVars
  <2>2. \A r \in Own(calls') : r \in Own(calls)
    BY <1>7, OtherMoves
  <2> QED  BY <1>a, <1>c, <2>1, <2>2, ClockKept DEF clockVars
<1>8. ASSUME ApplyTakes  PROVE ClockInv'
  <2>1. /\ UNCHANGED <<config, clockVars, clock>>
        /\ calls # <<>> /\ Top.fn = "apply" /\ (frameActive' => frameActive)
    BY <1>8 DEF ApplyTakes, Rest, modeVars
  <2>2. \A r \in Own(calls') : r \in Own(calls) \/ ClockOf(r)'
    <3>1. Own(calls') = Without \/ Own(calls') = Become(Call("apply", "wait", Head(queue), Len(queue) - 1))
      BY <1>8, ApplyMoves
    <3> QED  BY <1>b, <1>c, <2>1, <3>1, ClockOnTop
  <2> QED  BY <1>a, <2>1, <2>2, ClockKept DEF clockVars
<1>9. ASSUME ApplyDone  PROVE ClockInv'
  <2>1. /\ UNCHANGED <<config, clockVars, clock>>
        /\ calls # <<>> /\ Top.fn = "apply" /\ (frameActive' => frameActive)
    BY <1>9 DEF ApplyDone, Rest, modeVars
  <2>2. \A r \in Own(calls') : r \in Own(calls) \/ ClockOf(r)'
    BY <1>9, ApplyMoves DEF Without
  <2> QED  BY <1>a, <2>1, <2>2, ClockKept DEF clockVars
<1>10. ASSUME ApplyResumes  PROVE ClockInv'
  <2>1. /\ UNCHANGED <<config, clockVars, clock>>
        /\ calls # <<>> /\ Top.fn = "apply" /\ (frameActive' => frameActive)
    BY <1>10 DEF ApplyResumes, Rest, modeVars
  <2>2. \A r \in Own(calls') : r \in Own(calls) \/ ClockOf(r)'
    <3>1. Own(calls') = Without \/ Own(calls') = Moved("next")
      BY <1>10, ApplyMoves
    <3> QED  BY <1>b, <1>c, <2>1, <3>1, ClockOnTop
  <2> QED  BY <1>a, <2>1, <2>2, ClockKept DEF clockVars
<1>11. ASSUME FrameEnds  PROVE ClockInv'
  <2>1. /\ UNCHANGED <<config, clockVars, clock>>
        /\ calls # <<>> /\ Top.fn = "frame" /\ (frameActive' => frameActive)
    BY <1>11 DEF FrameEnds, Rest, modeVars, EndFrame
  <2>2. \A r \in Own(calls') : r \in Own(calls) \/ ClockOf(r)'
    BY <1>11, FrameMoves DEF Without
  <2> QED  BY <1>a, <2>1, <2>2, ClockKept DEF clockVars
<1>12. ASSUME UpdateReturns  PROVE ClockInv'
  <2>1. /\ UNCHANGED <<config, clockVars, clock>>
        /\ calls # <<>> /\ Top.fn = "frame" /\ (frameActive' => frameActive) /\ Top.pc = "update"
    BY <1>12 DEF UpdateReturns, Rest, modeVars, EndFrame
  <2>2. \A r \in Own(calls') : r \in Own(calls) \/ ClockOf(r)'
    <3>1. Own(calls') = Without \/ Own(calls') = Moved("update_commands") \cup {NewApply}
      BY <1>12, FrameMoves
    <3> SUFFICES ASSUME NEW r \in Own(calls'), r \notin Own(calls)  PROVE ClockOf(r)'
      OBVIOUS
    <3>2. r.fn = "apply" \/ (r.fn = "frame" /\ r.pc = "update_commands")
      BY <1>b, <2>1, <3>1, ClockOnTop
    <3>3. acc' < Step'
      BY <2>1, ClockOnTop DEF ClockOf, Step, clockVars
    <3> QED  BY <3>2, <3>3 DEF ClockOf
  <2> QED  BY <1>a, <2>1, <2>2, ClockKept DEF clockVars
<1>13. ASSUME AfterUpdateCommands  PROVE ClockInv'
  <2>1. /\ UNCHANGED <<config, clockVars, clock>>
        /\ calls # <<>> /\ Top.fn = "frame" /\ (frameActive' => frameActive) /\ Top.pc = "update_commands"
    BY <1>13 DEF AfterUpdateCommands, Rest, modeVars, EndFrame
  <2>2. \A r \in Own(calls') : r \in Own(calls) \/ ClockOf(r)'
    <3>1. Own(calls') = Without \/ Own(calls') = Moved("render")
      BY <1>13, FrameMoves
    <3> SUFFICES ASSUME NEW r \in Own(calls'), r \notin Own(calls)  PROVE ClockOf(r)'
      OBVIOUS
    <3>2. r.fn = "apply" \/ (r.fn = "frame" /\ r.pc = "render")
      BY <1>b, <2>1, <3>1, ClockOnTop
    <3>3. acc' < Step'
      BY <2>1, ClockOnTop DEF ClockOf, Step, clockVars
    <3> QED  BY <3>2, <3>3 DEF ClockOf
  <2> QED  BY <1>a, <2>1, <2>2, ClockKept DEF clockVars
<1>14. ASSUME RenderReturns  PROVE ClockInv'
  <2>1. /\ UNCHANGED <<config, clockVars, clock>>
        /\ calls # <<>> /\ Top.fn = "frame" /\ (frameActive' => frameActive)
    BY <1>14 DEF RenderReturns, Rest, modeVars, EndFrame
  <2>2. \A r \in Own(calls') : r \in Own(calls) \/ ClockOf(r)'
    <3>1. Own(calls') = Without \/ Own(calls') = Moved("present")
      BY <1>14, FrameMoves
    <3> SUFFICES ASSUME NEW r \in Own(calls'), r \notin Own(calls)  PROVE ClockOf(r)'
      OBVIOUS
    <3>2. r.fn = "apply" \/ (r.fn = "frame" /\ r.pc = "present")
      BY <1>b, <2>1, <3>1, ClockOnTop
    <3> QED  BY <3>2 DEF ClockOf
  <2> QED  BY <1>a, <2>1, <2>2, ClockKept DEF clockVars
<1>15. ASSUME NEW status, PresentReturns(status)  PROVE ClockInv'
  <2>1. /\ UNCHANGED <<config, clockVars, clock>>
        /\ calls # <<>> /\ Top.fn = "frame" /\ (frameActive' => frameActive)
    BY <1>15 DEF PresentReturns, Rest, modeVars, EndFrame
  <2>2. \A r \in Own(calls') : r \in Own(calls) \/ ClockOf(r)'
    <3>1. Own(calls') = Without \/ Own(calls') = Moved("present_commands") \cup {NewApply}
      BY <1>15, FrameMoves
    <3> SUFFICES ASSUME NEW r \in Own(calls'), r \notin Own(calls)  PROVE ClockOf(r)'
      OBVIOUS
    <3>2. r.fn = "apply" \/ (r.fn = "frame" /\ r.pc = "present_commands")
      BY <1>b, <2>1, <3>1, ClockOnTop
    <3> QED  BY <3>2 DEF ClockOf
  <2> QED  BY <1>a, <2>1, <2>2, ClockKept DEF clockVars
<1>16. ASSUME FrameDone  PROVE ClockInv'
  <2>1. /\ UNCHANGED <<config, clockVars, clock>>
        /\ calls # <<>> /\ Top.fn = "frame" /\ (frameActive' => frameActive)
    BY <1>16 DEF FrameDone, Rest, modeVars, EndFrame
  <2>2. \A r \in Own(calls') : r \in Own(calls) \/ ClockOf(r)'
    BY <1>16, FrameMoves DEF Without
  <2> QED  BY <1>a, <2>1, <2>2, ClockKept DEF clockVars
<1>17. ASSUME NEW now \in Readings, EngineFrame(now)  PROVE ClockInv'
  <2>1. UNCHANGED <<config, clockVars>> /\ clock' = now /\ clock <= now /\ now <= MaxTime /\ now \in Nat
    BY <1>a, <1>17 DEF EngineFrame, Rest, Readings
  <2>2. CASE state = "CREATED" /\ ~frameActive
    <3>1. Own(calls') = Own(calls) \cup {Call("frame", "commands", NoScene, now), NewApply}
      BY <1>17, <2>2, RunMoves
    <3>2. \A r \in Own(calls) : r.fn # "run"
      BY <2>2 DEF OwnershipInv, Has
    <3>3. Fresh(now)'
      BY <1>a, <2>1 DEF Fresh, clockVars
    <3>4. ClockOf(Call("frame", "commands", NoScene, now))' /\ ClockOf(NewApply)'
      BY <1>b, <1>c, <3>3 DEF ClockOf
    <3>5. \A r \in Own(calls') : (r \in Own(calls) /\ r.fn # "run") \/ ClockOf(r)'
      BY <3>1, <3>2, <3>4
    <3> QED  BY <1>a, <2>1, <3>5, ClockKept DEF clockVars
  <2>3. CASE ~(state = "CREATED" /\ ~frameActive)
    <3>1. Own(calls') = Own(calls) /\ frameActive' = frameActive
      BY <1>17, <2>3, RunMoves DEF EngineFrame
    <3> QED  BY <1>a, <2>1, <3>1, ClockKept DEF clockVars
  <2> QED  BY <2>2, <2>3
<1>18. ASSUME EngineRun  PROVE ClockInv'
  <2>1. CASE state \in {"CREATED", "STOPPED"} /\ ~frameActive
    <3>1. /\ UNCHANGED <<config, acc, tick, lastTime, seen, frameActive>> /\ ~clockStarted'
          /\ clock' \in Nat /\ clock <= clock' /\ clock' <= MaxTime
      BY <1>a, <1>18, <2>1 DEF EngineRun, Poll, Readings, Rest
    <3>2. Own(calls') = Own(calls) \cup {Call("run", "poll", NoScene, clock')}
      BY <1>18, <2>1, RunMoves
    <3>3. \A r \in Own(calls') : r \in Own(calls) \/ ClockOf(r)'
      <4> SUFFICES ASSUME NEW r \in Own(calls'), r \notin Own(calls)  PROVE ClockOf(r)'
        OBVIOUS
      <4>1. r.fn = "run" /\ r.idx = clock'
        BY <1>b, <3>2
      <4>2. Fresh(r.idx)'
        BY <1>a, <3>1, <4>1 DEF Fresh
      <4> QED  BY <2>1, <3>1, <4>1, <4>2 DEF ClockOf
    <3> QED  BY <3>1, <3>3, ClockKept
  <2>2. CASE ~(state \in {"CREATED", "STOPPED"} /\ ~frameActive)
    <3>1. UNCHANGED <<config, clockVars, clock, frameActive>>
      BY <1>18, <2>2 DEF EngineRun, Rest, clockVars
    <3>2. Own(calls') = Own(calls)
      BY <1>18, <2>2, RunMoves
    <3> QED  BY <1>a, <3>1, <3>2, ClockKept DEF clockVars
  <2> QED  BY <2>1, <2>2
<1>19. ASSUME NEW status, PollReturns(status)  PROVE ClockInv'
  <2>1. /\ UNCHANGED <<config, clockVars, clock>> /\ calls # <<>> /\ Top.fn = "run" /\ Top.pc = "poll"
        /\ status # "ok" \/ quit => frameActive' = frameActive
    BY <1>19 DEF PollReturns, Rest
  <2>2. \A r \in Without : r \in Own(calls) /\ r.fn # "run"
    BY <2>1, ClockOnTop
  <2>3. CASE status # "ok" \/ quit
    <3>1. Own(calls') = Without
      BY <1>19, <2>3, RunMoves
    <3> QED  BY <1>a, <2>1, <2>2, <2>3, <3>1, ClockKept DEF clockVars
  <2>4. CASE ~(status # "ok" \/ quit)
    <3>1. Own(calls') = Moved("frame") \cup {Call("frame", "commands", NoScene, Top.idx), NewApply}
      BY <1>19, <2>4, RunMoves
    <3>2. Fresh(Top.idx)
      BY <2>1, ClockOnTop DEF ClockOf
    <3>3. \A r \in Own(calls') : (r \in Own(calls) /\ r.fn # "run") \/ ClockOf(r)'
      <4> SUFFICES ASSUME NEW r \in Own(calls'), r \notin Without  PROVE ClockOf(r)'
        BY <2>2
      <4>1. \/ r.fn = "run" /\ r.pc = "frame"
            \/ r.fn = "frame" /\ r.pc = "commands" /\ r.idx = Top.idx
            \/ r.fn = "apply"
        BY <1>b, <2>1, <3>1, ClockOnTop
      <4>2. r.fn = "frame" => Fresh(r.idx)'
        BY <2>1, <3>2, <4>1 DEF Fresh, clockVars
      <4> QED  BY <4>1, <4>2 DEF ClockOf
    <3> QED  BY <1>a, <2>1, <3>3, ClockKept DEF clockVars
  <2> QED  BY <2>3, <2>4
<1>20. ASSUME RunFrameReturns  PROVE ClockInv'
  <2>1. /\ UNCHANGED <<config, clockVars, frameActive>> /\ calls # <<>> /\ Top.fn = "run"
        /\ clock' \in Nat /\ clock <= clock' /\ clock' <= MaxTime
    BY <1>a, <1>20 DEF RunFrameReturns, Poll, Readings, Rest
  <2>2. \A r \in Without : r \in Own(calls)
    BY <2>1, ClockOnTop
  <2>3. CASE FrameStops
    <3>1. Own(calls') = Without
      BY <1>20, <2>3, RunMoves
    <3> QED  BY <1>a, <2>1, <2>2, <3>1, ClockKept DEF clockVars
  <2>4. CASE ~FrameStops
    <3>1. Own(calls') = Without \cup {Call("run", "poll", NoScene, clock')}
      BY <1>20, <2>1, <2>4, RunMoves, ClockOnTop
    <3>2. \A r \in Own(calls') : r \in Own(calls) \/ ClockOf(r)'
      <4> SUFFICES ASSUME NEW r \in Own(calls'), r \notin Without  PROVE ClockOf(r)'
        BY <2>2
      <4>1. r.fn = "run" /\ r.idx = clock'
        BY <1>b, <3>1
      <4>2. Fresh(r.idx)'
        BY <1>a, <2>1, <4>1 DEF Fresh, clockVars
      <4>3. ~frameActive'
        BY <2>1, ClockOnTop
      <4> QED  BY <4>1, <4>2, <4>3 DEF ClockOf
    <3> QED  BY <1>a, <2>1, <3>2, ClockKept DEF clockVars
  <2> QED  BY <2>3, <2>4
<1>21. ASSUME SampleClock  PROVE ClockInv'
  <2>1. /\ UNCHANGED <<config, tick, clock, frameActive>> /\ calls # <<>> /\ Top.fn = "frame"
        /\ Top.pc = "commands" /\ acc' = Accumulate(Elapsed(Top.idx)) /\ lastTime' = Top.idx
        /\ seen' = [lo |-> Smaller(seen.lo, Top.idx), hi |-> Larger(seen.hi, Top.idx)]
    BY <1>21 DEF SampleClock, Rest, modeVars
  <2>2. Fresh(Top.idx)
    BY <2>1, ClockOnTop DEF ClockOf
  <2>3. /\ acc' \in Nat /\ acc' <= acc + (Top.idx - lastTime)
        /\ ~clockStarted => acc' <= acc
    BY <2>1, <2>2, AccumulateAdds
  <2>4. Own(calls') = Without \cup {Call("frame", "begin", NoScene, 0)}
    BY <1>21, <2>1, FrameMoves, ClockOnTop
  <2>5. \A r \in Own(calls') : ClockOf(r)'
    <3>1. \A r \in Without : ClockOf(r)'
      BY <2>1, ClockOnTop DEF ClockOf
    <3> QED  BY <1>b, <2>4, <3>1 DEF ClockOf
  <2>6. PICK now \in Nat : /\ now = Top.idx /\ lastTime <= now /\ now <= clock
    BY <2>2 DEF Fresh
  <2>7. /\ seen.hi = lastTime /\ seen.lo \in Nat /\ seen.lo <= MaxTime
        /\ seen.lo <= lastTime => Simulated <= lastTime - seen.lo
        /\ lastTime < seen.lo => acc = 0 /\ tick = 0 /\ ~clockStarted
    BY DEF ClockInv
  <2>8. PICK lo \in Nat : /\ lo = Smaller(seen.lo, now) /\ lo <= MaxTime /\ lo <= now
                          /\ seen.lo <= now => lo = seen.lo
    BY <1>a, <2>6, <2>7 DEF Smaller
  <2>9. seen' = [lo |-> lo, hi |-> now] /\ lastTime' = now
    BY <1>a, <2>1, <2>6, <2>7, <2>8 DEF Larger
  <2>10. Step' = Step /\ MaxTime' = MaxTime
    BY <2>1 DEF Step, MaxTime
  <2>11. Simulated' = (Simulated - acc) + acc' /\ Simulated \in Nat
    BY <1>a, <2>1, <2>3, <2>10, SimulatedTime
  <2>12. Simulated' <= now - lo
    <3>1. CASE seen.lo <= lastTime
      BY <1>a, <2>3, <2>6, <2>7, <2>8, <2>11, <3>1
    <3>2. CASE lastTime < seen.lo
      <4>1. Simulated' = 0
        BY <1>a, <2>1, <2>3, <2>7, <2>10, <3>2 DEF Simulated
      <4> QED  BY <2>6, <2>8, <4>1
    <3> QED  BY <1>a, <2>7, <3>1, <3>2
  <2> HIDE DEF Resumes, Running, EngineOp
  <2> QED  BY <1>a, <2>1, <2>3, <2>5, <2>6, <2>8, <2>9, <2>10, <2>12, SMTT(60) DEF ClockInv
<1>22. ASSUME FixedReturns  PROVE ClockInv'
  <2>1. /\ UNCHANGED <<config, clockStarted, lastTime, seen, clock>> /\ calls # <<>> /\ Top.fn = "frame"
        /\ Top.pc = "fixed" /\ (frameActive' => frameActive)
        /\ IF ret # "ok" THEN UNCHANGED <<acc, tick>> ELSE acc' = acc - Step /\ tick' = tick + 1
    BY <1>22 DEF FixedReturns, Rest, EndFrame
  <2>2. CASE ret # "ok"
    <3>1. Own(calls') = Without
      BY <1>22, <2>2, FrameMoves
    <3> QED  BY <1>a, <2>1, <2>2, <3>1, ClockOnTop, ClockKept
  <2>3. CASE ret = "ok"
    <3>1. Own(calls') = Without \cup {Call("frame", "fixed_commands", NoScene, Top.idx + 1), NewApply}
      BY <1>22, <2>1, <2>3, FrameMoves, ClockOnTop
    <3>2. \A r \in Own(calls') : ClockOf(r)'
      <4>1. \A r \in Without : ClockOf(r)'
        BY <2>1, ClockOnTop DEF ClockOf
      <4> QED  BY <1>b, <3>1, <4>1 DEF ClockOf
    <3>3. Step' = Step /\ MaxTime' = MaxTime
      BY <2>1 DEF Step, MaxTime
    <3>4. Step <= acc
      BY <2>1, ClockOnTop DEF ClockOf
    <3>5. acc' = acc - Step /\ acc' \in Nat /\ tick' = tick + 1 /\ tick' \in Nat
      BY <1>a, <2>1, <2>3, <3>4
    <3>6. Simulated' = Simulated
      BY <1>a, <3>3, <3>5, SimulatedTime
    <3>7. ~(lastTime < seen.lo)
      BY <1>a, <3>4 DEF ClockInv
    <3> QED  BY <1>a, <2>1, <3>2, <3>3, <3>5, <3>6, <3>7 DEF ClockInv
  <2> QED  BY <2>2, <2>3
<1>23. ASSUME NEW status, BeginHookReturns(status)  PROVE ClockInv'
  <2>1. /\ UNCHANGED <<config, clockStarted, lastTime, tick, seen, clock>> /\ calls # <<>>
        /\ Top.fn = "frame" /\ (frameActive' => frameActive)
    BY <1>23 DEF BeginHookReturns, Rest, EndFrame, FixedOrUpdate
  <2>2. CASE status # "ok" \/ quit
    <3>1. Own(calls') = Without /\ acc' = acc
      BY <1>23, <2>2, FrameMoves DEF BeginHookReturns
    <3> QED  BY <1>a, <2>1, <3>1, ClockOnTop, ClockKept
  <2>3. CASE ~(status # "ok" \/ quit)
    <3>1. ClockFixes(0)
      BY <1>23, <2>3, FrameMoves DEF BeginHookReturns, FixedOrUpdate, ClockFixes
    <3> QED  BY <2>1, <3>1, ClockFixedOrUpdate
  <2> QED  BY <2>2, <2>3
<1>24. ASSUME AfterFixedCommands  PROVE ClockInv'
  <2>1. /\ UNCHANGED <<config, clockStarted, lastTime, tick, seen, clock>> /\ calls # <<>>
        /\ Top.fn = "frame" /\ (frameActive' => frameActive)
    BY <1>24 DEF AfterFixedCommands, Rest, FixedOrUpdate
  <2>2. ClockFixes(Top.idx)
    BY <1>24, FrameMoves DEF AfterFixedCommands, FixedOrUpdate, ClockFixes
  <2> QED  BY <2>1, <2>2, ClockFixedOrUpdate
<1>25. ASSUME DestroyReturns  PROVE ClockInv'
  <2>1. /\ UNCHANGED <<config, clock>> /\ ~clockStarted' /\ lastTime' = 0 /\ acc' = 0 /\ tick' = 0
        /\ seen' = NothingSeen'
    BY <1>25 DEF DestroyReturns, Rest, NothingSeen, MaxTime
  <2>2. Own(calls') = {}
    BY <1>25, OtherMoves
  <2>3. Step' = Step /\ MaxTime' = MaxTime
    BY <2>1 DEF Step, MaxTime
  <2>4. Simulated' = 0
    BY <1>a, <2>1, <2>3 DEF Simulated
  <2>5. seen' = [lo |-> MaxTime, hi |-> 0]
    BY <2>1, <2>3 DEF NothingSeen
  <2> QED  BY <1>a, <2>1, <2>2, <2>3, <2>4, <2>5 DEF ClockInv
<1> QED
  BY <1>1, <1>2, <1>3, <1>4, <1>5, <1>6, <1>7, <1>8, <1>9, <1>10, <1>11, <1>12, <1>13,
     <1>14, <1>15, <1>16, <1>17, <1>18, <1>19, <1>20, <1>21, <1>22, <1>23, <1>24,
     <1>25
     DEF EngineNext, EngineStep, AppStep, HookReturns

LEMMA ClockHolds == EngineSpec => [](OwnershipInv /\ ClockInv)
<1> QED  BY OwnershipInit, OwnershipStep, ClockInit, ClockStep, PTL DEF EngineSpec

\* A frame renders with less than one fixed step in the accumulator, and the time
\* simulated never exceeds the time that passed, whatever failed on the way.
THEOREM ClockStaysExact == EngineSpec => []ClockIsExact
<1>1. ASSUME OwnershipInv, ClockInv  PROVE ClockIsExact
  <2>1. InterpolationInRange
    <3> SUFFICES ASSUME Resumes("frame", "render")  PROVE acc < Step
      BY DEF InterpolationInRange
    <3>1. calls # <<>> /\ Top.fn = "frame" /\ Top.pc = "render"
      BY DEF Resumes, Running
    <3> QED  BY <1>1, <3>1, ClockOnTop DEF ClockOf, EngineOp
  <2>2. SimulatedTimeIsReal
    BY <1>1 DEF ClockInv, SimulatedTimeIsReal, Simulated
  <2> QED  BY <2>1, <2>2 DEF ClockIsExact
<1> QED  BY <1>1, ClockHolds, PTL

-----------------------------------------------------------------------------
(* The order of the commands *)

\* The command that an operation in progress is carrying out.
Waits(r) == r.fn = "apply" /\ r.pc = "wait"

\* While a command runs, the queue still holds all the commands that were behind it.
QueueInv ==
  /\ config \in Configs
  /\ queue \in Seq(Command) /\ Len(queue) <= QueueCapacity
  /\ \A r \in Own(calls) : Waits(r) => r.idx \in 0 .. Len(queue)

\* At most one command is being carried out.
LEMMA OneWaits ==
  ASSUME NEW c, WellNested(c)
  PROVE  LET A == {i \in DOMAIN c : c[i].fn = "apply" /\ c[i].pc = "wait"}
         IN  /\ (\A r \in Own(c) : ~Waits(r)) => A = {}
             /\ \A r \in Own(c) : Waits(r) => A # {} /\ c[CHOOSE i \in A : TRUE] = r
<1> DEFINE A == {i \in DOMAIN c : c[i].fn = "apply" /\ c[i].pc = "wait"}
<1>1. DOMAIN c = 1 .. Len(c) /\ Len(c) \in Nat
  BY DEF WellNested
<1>2. \A i \in A : c[i] \in Own(c) /\ Waits(c[i])
  BY <1>1 DEF Own, Records, Waits, StackOp, Walk, FrameWalk, Mutation
<1>3. \A i, j \in A : i = j
  BY <1>1 DEF WellNested, Alike
<1>4. ASSUME NEW r \in Own(c), Waits(r)  PROVE A # {} /\ c[CHOOSE i \in A : TRUE] = r
  <2>1. PICK i \in A : c[i] = r
    BY <1>1, <1>4 DEF Own, Records, Waits
  <2>2. (CHOOSE j \in A : TRUE) \in A
    BY <2>1
  <2>3. (CHOOSE j \in A : TRUE) = i
    BY <1>3, <2>1, <2>2
  <2> QED  BY <2>1, <2>3
<1> QED  BY <1>2, <1>4

\* What SceneCommands sees of the engine, before a step and after it.
LEMMA View ==
  ASSUME WellNested(calls)
  PROVE  /\ (\A r \in Own(calls) : ~Waits(r)) => Applying = {} /\ Retained = Len(queue)
         /\ \A r \in Own(calls) : Waits(r) => Applying # {} /\ Applied = r /\ Retained = r.idx
BY OneWaits DEF Applying, Applied, Retained

LEMMA NextView ==
  ASSUME WellNested(calls')
  PROVE  /\ (\A r \in Own(calls') : ~Waits(r)) => Applying' = {} /\ Retained' = Len(queue')
         /\ \A r \in Own(calls') : Waits(r) => Applying' # {} /\ Applied' = r /\ Retained' = r.idx
BY OneWaits DEF Applying, Applied, Retained

Pending == SubSeq(queue, 1, Retained)
Active  == IF Applying = {} THEN <<>> ELSE <<Applied.arg>>
Spawned == SubSeq(queue, Retained + 1, Len(queue))

\* The steps that are none of the commands' business.
Quiet ==
  /\ StillExact
  /\ UNCHANGED <<queue, config>>
  /\ \A r : Waits(r) => (r \in Own(calls) <=> r \in Own(calls'))

LEMMA QuietStutters ==
  ASSUME OwnershipInv, QueueInv, Quiet
  PROVE  QueueInv' /\ UNCHANGED <<QueueCapacity, Pending, Active, Spawned>>
<1>1. WellNested(calls) /\ WellNested(calls')
  BY DEF OwnershipInv, Exact, Quiet, StillExact
<1>2. QueueInv' /\ UNCHANGED QueueCapacity
  BY DEF QueueInv, Quiet, QueueCapacity
<1>3. CASE \A r \in Own(calls) : ~Waits(r)
  <2>1. \A r \in Own(calls') : ~Waits(r)
    BY <1>3 DEF Quiet
  <2>2. Applying = {} /\ Retained = Len(queue) /\ Applying' = {} /\ Retained' = Len(queue')
    BY <1>1, <1>3, <2>1, View, NextView
  <2> QED  BY <1>2, <2>2 DEF Pending, Active, Spawned, Quiet
<1>4. ASSUME NEW r \in Own(calls), Waits(r)
      PROVE  UNCHANGED <<Pending, Active, Spawned>>
  <2>1. r \in Own(calls')
    BY <1>4 DEF Quiet
  <2>2. /\ Applying # {} /\ Applied = r /\ Retained = r.idx
        /\ Applying' # {} /\ Applied' = r /\ Retained' = r.idx
    BY <1>1, <1>4, <2>1, View, NextView
  <2> QED  BY <2>2 DEF Pending, Active, Spawned, Quiet
<1> QED  BY <1>2, <1>3, <1>4

\* What is left of the operation on top once it has moved: only its pc, or nothing.
LEMMA TopMoves ==
  ASSUME OwnershipInv, calls # <<>>, Top.fn \in EngineOp
  PROVE  /\ Top \in Own(calls) /\ Own(calls) = Without \cup {Top}
         /\ \A r : Become(r) = Without \cup {r}
         /\ \A pc : /\ Without \subseteq Moved(pc)
                    /\ \A r \in Moved(pc) : r \in Without \/ (r.fn = Top.fn /\ r.pc = pc)
<1>1. Top \in Own(calls)
  BY EngineReturns DEF OwnershipInv
<1>2. \A pc : LET r == [Top EXCEPT !.pc = pc] IN r.fn = Top.fn /\ r.pc = pc
  BY TopGoesOn DEF OwnershipInv
<1>3. \A pc : /\ Without \subseteq Moved(pc)
              /\ \A r \in Moved(pc) : r \in Without \/ (r.fn = Top.fn /\ r.pc = pc)
  BY <1>2 DEF Moved, Become, Without
<1> QED  BY <1>1, <1>3 DEF Without, Become

LEMMA QuietSteps ==
  ASSUME OwnershipInv, [EngineNext]_vars
  PROVE  \/ Quiet
         \/ \E cmd \in CommandOn(config.scenes) : EngineQueueSceneCommand(cmd)
         \/ ApplyTakes \/ ApplyResumes \/ DestroyReturns
<1> USE DEF Resumes, Running, EngineOp
<1>a. /\ ~Waits(NewApply)
      /\ \A fn, pc, arg, idx : fn # "apply" => ~Waits(Call(fn, pc, arg, idx))
  BY DEF Waits, NewApply, Call
<1>b. ASSUME StillExact, UNCHANGED <<queue, config>>, Own(calls) \subseteq Own(calls'),
             \A r \in Own(calls') : r \in Own(calls) \/ ~Waits(r)
      PROVE  Quiet
  BY <1>b DEF Quiet
<1>c. ASSUME StillExact, UNCHANGED <<queue, config>>, calls # <<>>, Top.fn \in EngineOp, ~Waits(Top),
             \/ Own(calls') = Without
             \/ \E r : Own(calls') \in {Become(r), Become(r) \cup {NewApply}} /\ ~Waits(r)
             \/ \E pc, r : /\ Own(calls') \in {Moved(pc), Moved(pc) \cup {NewApply}, Moved(pc) \cup {r, NewApply}}
                           /\ ~Waits(r) /\ Top.fn # "apply"
      PROVE  Quiet
  <2>1. Without \subseteq Own(calls') /\ \A r \in Own(calls') : r \in Without \/ ~Waits(r)
    BY <1>a, <1>c, TopMoves DEF Waits
  <2> QED  BY <1>c, <2>1, TopMoves DEF Quiet
<1>1. CASE UNCHANGED vars
  BY <1>b, <1>1 DEF vars, stackVars, engineVars, OwnershipInv, Exact, StillExact
<1>2. ASSUME ApplyDone  PROVE Quiet
  <2>1. UNCHANGED <<queue, config>> /\ calls # <<>> /\ Top.fn = "apply" /\ ~Waits(Top)
    BY <1>2 DEF ApplyDone, Rest, Waits
  <2> QED  BY <1>a, <1>c, <1>2, <2>1, ApplyMoves
<1>3. ASSUME FrameEnds  PROVE Quiet
  <2>1. UNCHANGED <<queue, config>> /\ calls # <<>> /\ Top.fn = "frame" /\ ~Waits(Top)
    BY <1>3 DEF FrameEnds, Rest, Waits
  <2> QED  BY <1>a, <1>c, <1>3, <2>1, FrameMoves
<1>4. ASSUME SampleClock  PROVE Quiet
  <2>1. UNCHANGED <<queue, config>> /\ calls # <<>> /\ Top.fn = "frame" /\ ~Waits(Top)
    BY <1>4 DEF SampleClock, Rest, Waits
  <2> QED  BY <1>a, <1>c, <1>4, <2>1, FrameMoves
<1>5. ASSUME NEW status, BeginHookReturns(status)  PROVE Quiet
  <2>1. UNCHANGED <<queue, config>> /\ calls # <<>> /\ Top.fn = "frame" /\ ~Waits(Top)
    BY <1>5 DEF BeginHookReturns, Rest, Waits
  <2> QED  BY <1>a, <1>c, <1>5, <2>1, FrameMoves
<1>6. ASSUME FixedReturns  PROVE Quiet
  <2>1. UNCHANGED <<queue, config>> /\ calls # <<>> /\ Top.fn = "frame" /\ ~Waits(Top)
    BY <1>6 DEF FixedReturns, Rest, Waits
  <2> QED  BY <1>a, <1>c, <1>6, <2>1, FrameMoves
<1>7. ASSUME AfterFixedCommands  PROVE Quiet
  <2>1. UNCHANGED <<queue, config>> /\ calls # <<>> /\ Top.fn = "frame" /\ ~Waits(Top)
    BY <1>7 DEF AfterFixedCommands, Rest, Waits
  <2> QED  BY <1>a, <1>c, <1>7, <2>1, FrameMoves
<1>8. ASSUME UpdateReturns  PROVE Quiet
  <2>1. UNCHANGED <<queue, config>> /\ calls # <<>> /\ Top.fn = "frame" /\ ~Waits(Top)
    BY <1>8 DEF UpdateReturns, Rest, Waits
  <2> QED  BY <1>a, <1>c, <1>8, <2>1, FrameMoves
<1>9. ASSUME AfterUpdateCommands  PROVE Quiet
  <2>1. UNCHANGED <<queue, config>> /\ calls # <<>> /\ Top.fn = "frame" /\ ~Waits(Top)
    BY <1>9 DEF AfterUpdateCommands, Rest, Waits
  <2> QED  BY <1>a, <1>c, <1>9, <2>1, FrameMoves
<1>10. ASSUME RenderReturns  PROVE Quiet
  <2>1. UNCHANGED <<queue, config>> /\ calls # <<>> /\ Top.fn = "frame" /\ ~Waits(Top)
    BY <1>10 DEF RenderReturns, Rest, Waits
  <2> QED  BY <1>a, <1>c, <1>10, <2>1, FrameMoves
<1>11. ASSUME NEW status, PresentReturns(status)  PROVE Quiet
  <2>1. UNCHANGED <<queue, config>> /\ calls # <<>> /\ Top.fn = "frame" /\ ~Waits(Top)
    BY <1>11 DEF PresentReturns, Rest, Waits
  <2> QED  BY <1>a, <1>c, <1>11, <2>1, FrameMoves
<1>12. ASSUME FrameDone  PROVE Quiet
  <2>1. UNCHANGED <<queue, config>> /\ calls # <<>> /\ Top.fn = "frame" /\ ~Waits(Top)
    BY <1>12 DEF FrameDone, Rest, Waits
  <2> QED  BY <1>a, <1>c, <1>12, <2>1, FrameMoves
<1>13. ASSUME NEW status, PollReturns(status)  PROVE Quiet
  <2>1. UNCHANGED <<queue, config>> /\ calls # <<>> /\ Top.fn = "run" /\ ~Waits(Top)
    BY <1>13 DEF PollReturns, Rest, Waits
  <2> QED  BY <1>a, <1>c, <1>13, <2>1, RunMoves
<1>14. ASSUME RunFrameReturns  PROVE Quiet
  <2>1. UNCHANGED <<queue, config>> /\ calls # <<>> /\ Top.fn = "run" /\ ~Waits(Top)
    BY <1>14 DEF RunFrameReturns, Rest, Waits
  <2> QED  BY <1>a, <1>c, <1>14, <2>1, RunMoves
<1>15. ASSUME NEW now, EngineFrame(now)  PROVE Quiet
  <2>1. UNCHANGED <<queue, config>>
    BY <1>15 DEF EngineFrame, Rest
  <2> QED  BY <1>a, <1>b, <1>15, <2>1, RunMoves
<1>16. ASSUME EngineRun  PROVE Quiet
  <2>1. UNCHANGED <<queue, config>>
    BY <1>16 DEF EngineRun, Rest
  <2> QED  BY <1>a, <1>b, <1>16, <2>1, RunMoves
<1>17. ASSUME RequestQuit  PROVE Quiet
  <2>1. UNCHANGED <<queue, config>>
    BY <1>17 DEF RequestQuit, Rest, engineVars
  <2> QED  BY <1>a, <1>b, <1>17, <2>1, OtherMoves
<1>18. ASSUME EngineDispatchEvent  PROVE Quiet
  <2>1. UNCHANGED <<queue, config>>
    BY <1>18 DEF EngineDispatchEvent, Rest, engineVars
  <2> QED  BY <1>a, <1>b, <1>18, <2>1, OtherMoves
<1>19. ASSUME EngineDestroy  PROVE Quiet
  <2>1. UNCHANGED <<queue, config>>
    BY <1>19 DEF EngineDestroy, Rest, engineVars
  <2> QED  BY <1>a, <1>b, <1>19, <2>1, OtherMoves
<1>20. ASSUME EngineCreate  PROVE Quiet
  <2>1. UNCHANGED <<queue, config>>
    BY <1>20 DEF EngineCreate
  <2> QED  BY <1>a, <1>b, <1>20, <2>1, OtherMoves
<1>21. ASSUME SceneCallbackReturns  PROVE Quiet
  <2>1. UNCHANGED <<queue, config>>
    BY <1>21 DEF SceneCallbackReturns, Rest, engineVars
  <2> QED  BY <1>a, <1>b, <1>21, <2>1, OtherMoves
<1> QED
  BY <1>1, <1>2, <1>3, <1>4, <1>5, <1>6, <1>7, <1>8, <1>9, <1>10, <1>11, <1>12, <1>13,
     <1>14, <1>15, <1>16, <1>17, <1>18, <1>19, <1>20, <1>21
     DEF EngineNext, EngineStep, AppStep, HookReturns

\* What SceneCommands sees while no command is being carried out, and while one is.
LEMMA Idling ==
  ASSUME OwnershipInv, QueueInv, \A r \in Own(calls) : ~Waits(r)
  PROVE  Pending = queue /\ Active = <<>> /\ Spawned = <<>>
<1>1. Applying = {} /\ Retained = Len(queue)
  BY View DEF OwnershipInv, Exact
<1>2. SubSeq(queue, 1, Len(queue)) = queue /\ SubSeq(queue, Len(queue) + 1, Len(queue)) = <<>>
  BY SubSeqFull, SMTT(60) DEF QueueInv
<1> QED  BY <1>1, <1>2 DEF Pending, Active, Spawned

LEMMA Carrying ==
  ASSUME OwnershipInv, QueueInv, NEW r \in Own(calls), Waits(r)
  PROVE  /\ Pending = SubSeq(queue, 1, r.idx) /\ Spawned = SubSeq(queue, r.idx + 1, Len(queue))
         /\ Active = <<r.arg>>
         /\ Pending \in Seq(Command) /\ Spawned \in Seq(Command)
         /\ Pending \o Spawned = queue /\ Len(Pending) + Len(Spawned) = Len(queue)
<1>1. Applying # {} /\ Applied = r /\ Retained = r.idx
  BY View DEF OwnershipInv, Exact
<1>2. Pending = SubSeq(queue, 1, r.idx) /\ Spawned = SubSeq(queue, r.idx + 1, Len(queue)) /\ Active = <<r.arg>>
  BY <1>1 DEF Pending, Active, Spawned
<1>3. queue \in Seq(Command) /\ Len(queue) \in Nat /\ r.idx \in 0 .. Len(queue)
  BY DEF QueueInv
<1>4. PICK n \in 0 .. Len(queue) : n = r.idx
  BY <1>3
<1>5. SubSeq(queue, 1, n) \o SubSeq(queue, n + 1, Len(queue)) = SubSeq(queue, 1, Len(queue))
  <2>1. 1 \in 1 .. Len(queue) + 1 /\ n \in 1 - 1 .. Len(queue) /\ Len(queue) \in n .. Len(queue)
    BY <1>3
  <2> QED  BY <1>3, <2>1, ConcatAdjacentSubSeq
<1>6. SubSeq(queue, 1, n) \in Seq(Command) /\ SubSeq(queue, n + 1, Len(queue)) \in Seq(Command)
  BY <1>3
<1>7. Len(SubSeq(queue, 1, n)) = n /\ Len(SubSeq(queue, n + 1, Len(queue))) = Len(queue) - n
  BY <1>3
<1>8. SubSeq(queue, 1, Len(queue)) = queue
  BY <1>3, SubSeqFull
<1>9. Pending = SubSeq(queue, 1, n) /\ Spawned = SubSeq(queue, n + 1, Len(queue))
  BY <1>2, <1>4, Zenon
<1>10. Pending \o Spawned = queue /\ Pending \in Seq(Command) /\ Spawned \in Seq(Command)
  BY <1>5, <1>6, <1>8, <1>9, Zenon
<1>11. Len(Pending) + Len(Spawned) = Len(queue)
  <2>1. Len(Pending) = n
    BY <1>7, <1>9, Zenon
  <2>2. Len(Spawned) = Len(queue) - n
    BY <1>7, <1>9, Zenon
  <2> QED  BY <1>3, <2>1, <2>2
<1> QED  BY <1>2, <1>10, <1>11

\* A request joins the queue, behind the command that made it, or is refused.
LEMMA RequestStep ==
  ASSUME OwnershipInv, QueueInv, NEW cmd \in CommandOn(config.scenes), EngineQueueSceneCommand(cmd)
  PROVE  QueueInv' /\ [Commands!Next]_Commands!commandVars
<1>1. cmd \in Command
  BY EngineAssumption DEF QueueInv, CommandOn, Command
<1>2. StillExact /\ Own(calls') = Own(calls) /\ config' = config /\ QueueCapacity' = QueueCapacity
  BY OtherMoves DEF EngineQueueSceneCommand, Rest, QueueCapacity
<1>3. CASE Len(queue) = QueueCapacity
  <2>1. Quiet
    BY <1>2, <1>3 DEF EngineQueueSceneCommand, Quiet
  <2> QED  BY <2>1, QuietStutters DEF Commands!commandVars, Pending, Active, Spawned
<1>4. CASE Len(queue) # QueueCapacity
  <2>1. queue' = Append(queue, cmd) /\ queue \in Seq(Command) /\ queue' \in Seq(Command)
    BY <1>1, <1>4, SMTT(60) DEF EngineQueueSceneCommand, QueueInv
  <2>2. Len(queue') = Len(queue) + 1 /\ Len(queue) < QueueCapacity /\ QueueCapacity \in Nat
    BY <1>4, <2>1, EngineAssumption DEF QueueInv, QueueCapacity
  <2>3. QueueInv'
    BY <1>2, <2>1, <2>2 DEF QueueInv
  <2>4. WellNested(calls)'
    BY <1>2 DEF StillExact
  <2>5. CASE \A r \in Own(calls) : ~Waits(r)
    <3>1. Pending = queue /\ Active = <<>> /\ Spawned = <<>>
      BY <2>5, Idling
    <3>2. Pending' = queue' /\ Active' = <<>> /\ Spawned' = <<>>
      <4>1. Applying' = {} /\ Retained' = Len(queue')
        BY <1>2, <2>4, <2>5, NextView
      <4>2. SubSeq(queue', 1, Len(queue')) = queue' /\ SubSeq(queue', Len(queue') + 1, Len(queue')) = <<>>
        BY <2>1, SubSeqFull
      <4> QED  BY <4>1, <4>2 DEF Pending, Active, Spawned
    <3>3. Len(Pending) + Len(Spawned) < QueueCapacity
      BY <2>1, <2>2, <3>1
    <3>4. Commands!Room
      BY <3>3 DEF Commands!Room, Pending, Spawned
    <3>5. Pending' = Append(Pending, cmd) /\ UNCHANGED <<Active, Spawned>>
      BY <2>1, <3>1, <3>2
    <3>6. Commands!Request
      BY <1>1, <3>1, <3>4, <3>5 DEF Commands!Request, Pending, Active, Spawned
    <3> QED  BY <1>2, <2>3, <3>6 DEF Commands!Next
  <2>6. ASSUME NEW r \in Own(calls), Waits(r)  PROVE Commands!Request
    <3>1. /\ Pending = SubSeq(queue, 1, r.idx) /\ Spawned = SubSeq(queue, r.idx + 1, Len(queue))
          /\ Active = <<r.arg>> /\ Len(Pending) + Len(Spawned) = Len(queue)
      BY <2>6, Carrying
    <3>2. Applying' # {} /\ Applied' = r /\ Retained' = r.idx
      BY <1>2, <2>4, <2>6, NextView
    <3>3. r.idx \in 0 .. Len(queue) /\ Len(queue) \in Nat
      BY <2>1, <2>6 DEF QueueInv
    <3>4. SubSeq(queue', 1, r.idx) = SubSeq(queue, 1, r.idx)
      BY <2>1, <2>2, <3>3, <1>1
    <3>5. SubSeq(queue', r.idx + 1, Len(queue')) = Append(SubSeq(queue, r.idx + 1, Len(queue)), cmd)
      <4>1. PICK n \in 0 .. Len(queue) : n = r.idx
        BY <3>3
      <4>2. n + 1 \in 1 .. Len(queue') /\ Len(queue') \in n + 1 .. Len(queue')
        BY <2>2, <3>3
      <4>3. SubSeq(queue', n + 1, Len(queue'))
              = SubSeq(queue', n + 1, Len(queue') - 1) \o <<queue'[Len(queue')]>>
        BY <2>1, <4>2, SubSeqRecursiveSecond
      <4>4. SubSeq(queue', n + 1, Len(queue') - 1) = SubSeq(queue, n + 1, Len(queue))
        BY <1>1, <2>1, <2>2, <3>3
      <4>5. queue'[Len(queue')] = cmd
        BY <1>1, <2>1, <2>2
      <4>6. SubSeq(queue, n + 1, Len(queue)) \in Seq(Command)
        BY <2>1, <3>3
      <4>7. SubSeq(queue, n + 1, Len(queue)) \o <<cmd>> = Append(SubSeq(queue, n + 1, Len(queue)), cmd)
        BY <1>1, <4>6, AppendIsConcat
      <4> QED  BY <4>1, <4>3, <4>4, <4>5, <4>7
    <3>6. Pending' = Pending /\ Spawned' = Append(Spawned, cmd) /\ Active' = Active
      BY <3>1, <3>2, <3>4, <3>5 DEF Pending, Active, Spawned
    <3> QED  BY <1>1, <2>2, <3>1, <3>6 DEF Commands!Request, Commands!Room, Pending, Active, Spawned
  <2> QED  BY <1>2, <2>3, <2>5, <2>6 DEF Commands!Next
<1> QED  BY <1>3, <1>4

\* The head of the queue leaves it and is carried out.
LEMMA StartStep ==
  ASSUME OwnershipInv, QueueInv, ApplyTakes
  PROVE  QueueInv' /\ Commands!Start /\ UNCHANGED QueueCapacity
<1> DEFINE r == Call("apply", "wait", Head(queue), Len(queue) - 1)
<1>1. /\ calls # <<>> /\ Top.fn = "apply" /\ ~Waits(Top) /\ Top.fn \in EngineOp
      /\ queue # <<>> /\ queue' = Tail(queue) /\ config' = config
  BY DEF ApplyTakes, Resumes, Running, Waits, Rest, EngineOp
<1>2. StillExact /\ Own(calls') = Without \cup {r}
  BY <1>1, ApplyMoves, TopMoves
<1>3. \A s \in Own(calls) : s.fn = "apply" => s = Top
  BY <1>1, EngineReturns DEF OwnershipInv
<1>4. \A s \in Own(calls) : ~Waits(s)
  BY <1>1, <1>3 DEF Waits
<1>5. Waits(r) /\ r.idx = Len(queue) - 1 /\ r.arg = Head(queue)
  BY DEF Call, Waits
<1>6. r \in Own(calls') /\ \A s \in Own(calls') : Waits(s) => s = r
  BY <1>2, <1>4 DEF Without
<1> HIDE DEF r
<1>7. /\ queue \in Seq(Command) /\ Len(queue) \in Nat \ {0} /\ queue' \in Seq(Command)
      /\ Len(queue') = Len(queue) - 1
  BY <1>1 DEF QueueInv
<1>8. QueueInv' /\ UNCHANGED QueueCapacity
  BY <1>1, <1>5, <1>6, <1>7, EngineAssumption, SMTT(60) DEF QueueInv, QueueCapacity
<1>9. Pending = queue /\ Active = <<>> /\ Spawned = <<>>
  BY <1>4, Idling
<1>10. Pending' = Tail(queue) /\ Active' = <<Head(queue)>> /\ Spawned' = <<>>
  <2>1. Applying' # {} /\ Applied' = r /\ Retained' = Len(queue')
    BY <1>2, <1>5, <1>6, <1>7, NextView DEF StillExact
  <2>2. SubSeq(queue', 1, Len(queue')) = queue' /\ SubSeq(queue', Len(queue') + 1, Len(queue')) = <<>>
    BY <1>7, SubSeqFull
  <2> QED  BY <1>1, <1>5, <2>1, <2>2 DEF Pending, Active, Spawned
<1>11. Commands!Start
  BY <1>1, <1>9, <1>10 DEF Commands!Start, Pending, Active, Spawned
<1> QED  BY <1>8, <1>11

\* The command that is carried out returns: what it requested stays, or goes with it.
LEMMA EndStep ==
  ASSUME OwnershipInv, QueueInv, ApplyResumes
  PROVE  QueueInv' /\ (Commands!Commit \/ Commands!Abort) /\ UNCHANGED QueueCapacity
<1>1. /\ calls # <<>> /\ Top.fn = "apply" /\ Waits(Top) /\ Top.fn \in EngineOp /\ config' = config
      /\ queue' = IF ret = "ok" THEN queue ELSE SubSeq(queue, 1, Top.idx)
  BY DEF ApplyResumes, Resumes, Running, Waits, Rest, EngineOp
<1>2. /\ StillExact /\ Top \in Own(calls)
      /\ \A s \in Own(calls') : s \in Without \/ (s.fn = "apply" /\ s.pc = "next")
  BY <1>1, ApplyMoves, TopMoves
<1>3. \A s \in Own(calls) : s.fn = "apply" => s = Top
  BY <1>1, EngineReturns DEF OwnershipInv
<1>4. \A s \in Own(calls') : ~Waits(s)
  BY <1>2, <1>3 DEF Waits, Without
<1>5. PICK n \in 0 .. Len(queue) : n = Top.idx
  BY <1>1, <1>2 DEF QueueInv
<1>6. /\ queue' \in Seq(Command) /\ Len(queue') <= Len(queue) /\ Len(queue) <= QueueCapacity
      /\ Len(queue) \in Nat /\ QueueCapacity \in Nat
  BY <1>1, <1>5, EngineAssumption, SMTT(60) DEF QueueInv, QueueCapacity
<1>7. QueueInv' /\ UNCHANGED QueueCapacity
  BY <1>1, <1>4, <1>6 DEF QueueInv, QueueCapacity
<1>8. /\ Pending = SubSeq(queue, 1, Top.idx) /\ Active = <<Top.arg>> /\ Pending \o Spawned = queue
  BY <1>1, <1>2, Carrying
<1>9. Pending' = queue' /\ Active' = <<>> /\ Spawned' = <<>>
  <2>1. Applying' = {} /\ Retained' = Len(queue')
    BY <1>2, <1>4, NextView DEF StillExact
  <2>2. SubSeq(queue', 1, Len(queue')) = queue' /\ SubSeq(queue', Len(queue') + 1, Len(queue')) = <<>>
    BY <1>6, SubSeqFull
  <2> QED  BY <2>1, <2>2 DEF Pending, Active, Spawned
<1>10. CASE ret = "ok"
  BY <1>1, <1>7, <1>8, <1>9, <1>10 DEF Commands!Commit, Pending, Active, Spawned
<1>11. CASE ret # "ok"
  BY <1>1, <1>7, <1>8, <1>9, <1>11 DEF Commands!Abort, Pending, Active, Spawned
<1> QED  BY <1>10, <1>11

\* A destroyed engine has no commands.
LEMMA DiscardStep ==
  ASSUME OwnershipInv, QueueInv, DestroyReturns
  PROVE  QueueInv' /\ Commands!Discard /\ UNCHANGED QueueCapacity
<1>1. StillExact /\ Own(calls') = {} /\ queue' = <<>> /\ config' = config /\ ~alive'
  BY OtherMoves DEF DestroyReturns, Rest
<1>2. Applying' = {} /\ Retained' = Len(queue')
  BY <1>1, NextView DEF StillExact
<1>3. Pending' = <<>> /\ Active' = <<>> /\ Spawned' = <<>>
  BY <1>1, <1>2 DEF Pending, Active, Spawned
<1>4. QueueInv' /\ UNCHANGED QueueCapacity
  BY <1>1, EngineAssumption DEF QueueInv, QueueCapacity
<1> QED  BY <1>1, <1>3, <1>4 DEF Commands!Discard, Pending, Active, Spawned

LEMMA QueueStep ==
  ASSUME OwnershipInv, QueueInv, [EngineNext]_vars
  PROVE  QueueInv' /\ [Commands!Next]_Commands!commandVars
<1>1. CASE Quiet
  BY <1>1, QuietStutters DEF Commands!commandVars, Pending, Active, Spawned
<1>2. CASE ApplyTakes
  BY <1>2, StartStep DEF Commands!Next
<1>3. CASE ApplyResumes
  BY <1>3, EndStep DEF Commands!Next
<1>4. CASE DestroyReturns
  BY <1>4, DiscardStep DEF Commands!Next
<1> QED  BY <1>1, <1>2, <1>3, <1>4, QuietSteps, RequestStep

LEMMA QueueInit == EngineInit => QueueInv
<1> SUFFICES ASSUME EngineInit  PROVE QueueInv
  OBVIOUS
<1>1. calls = <<>> /\ queue = <<>> /\ config \in Configs
  BY DEF EngineInit, Init
<1>2. Own(calls) = {}
  BY <1>1 DEF Own, Records
<1> QED  BY <1>1, <1>2, EngineAssumption DEF QueueInv, QueueCapacity

\* Deferred commands are carried out one at a time and in the order of the requests,
\* and a command that fails takes its own requests with it and no other.
THEOREM CommandsStayInOrder == EngineSpec => CommandsInOrder
<1>1. EngineInit => QueueInv /\ Commands!Init
  <2> SUFFICES ASSUME EngineInit  PROVE QueueInv /\ Commands!Init
    OBVIOUS
  <2>1. calls = <<>> /\ queue = <<>> /\ config \in Configs
    BY DEF EngineInit, Init
  <2>2. Applying = {} /\ Retained = 0
    BY <2>1 DEF Applying, Retained
  <2>3. Pending = <<>> /\ Active = <<>> /\ Spawned = <<>>
    BY <2>1, <2>2 DEF Pending, Active, Spawned
  <2> QED  BY <2>3, QueueInit DEF Commands!Init, Pending, Active, Spawned
<1> QED
  BY <1>1, OwnershipInit, OwnershipStep, QueueStep, PTL DEF EngineSpec, CommandsInOrder, Commands!Spec

-----------------------------------------------------------------------------
(* The scene stack under the engine *)

\* What a step of the engine itself leaves alone.
StackKept == UNCHANGED <<items, open, life, held>>

\* The engine's own calls are not the stack's: they make no difference to it.
LEMMA CallOver ==
  ASSUME NEW c, Caller(c), NEW r, r.fn \in EngineOp
  PROVE  Caller(Append(c, r))
<1>1. PICK S : c \in Seq(S)
  BY DEF Caller, AtMostOne
<1>2. /\ Len(c) \in Nat /\ Len(Append(c, r)) = Len(c) + 1
      /\ \A i \in 1 .. Len(c) : Append(c, r)[i] = c[i]
      /\ Append(c, r)[Len(c) + 1] = r
      /\ Append(c, r) \in Seq(S \cup {r})
  <2>1. c \in Seq(S \cup {r})
    BY <1>1
  <2> QED  BY <1>1, <2>1, AppendProperties
<1>3. r.fn \notin StackOp
  BY DEF EngineOp, StackOp, Walk, FrameWalk, Mutation
<1> DEFINE d == Append(c, r)
<1> HIDE DEF d
<1>4. AtMostOne(d)
  BY <1>2, <1>3, SMTT(60) DEF Caller, AtMostOne, d
<1>5. StackOps(d) = StackOps(c)
  BY <1>2, <1>3 DEF StackOps, Records, d
<1> QED  BY <1>4, <1>5 DEF Caller, d

LEMMA CallUnder ==
  ASSUME OwnershipInv, IInv, calls # <<>>, Top.fn \in EngineOp
  PROVE  Caller(Callers) /\ \A pc : Caller(At(pc))
<1>1. /\ WellNested(Callers) /\ WellNested(calls) /\ Records(Callers) = Records(calls) \ {Top}
      /\ IsRecord(Top)
  BY Returned DEF OwnershipInv, Exact
<1>2. Top.fn \notin StackOp
  BY DEF EngineOp, StackOp, Walk, FrameWalk, Mutation
<1>3. StackOps(Callers) = StackOps(calls)
  BY <1>1, <1>2 DEF StackOps
<1>4. AtMostOne(Callers)
  <2>1. \E S : Callers \in Seq(S)
    BY <1>1 DEF WellNested
  <2>2. Len(Callers) \in Nat
    BY <2>1
  <2>3. \A i \in 1 .. Len(Callers) : \A j \in 1 .. i - 1 : ~Alike(Callers[i], Callers[j])
    BY <1>1 DEF WellNested
  <2>4. \A i, j \in 1 .. Len(Callers) : j < i => j \in 1 .. i - 1
    BY <2>2
  <2>5. \A i, j \in 1 .. Len(Callers) :
          {Callers[i].fn, Callers[j].fn} \subseteq StackOp => ~(j < i) /\ ~(i < j)
    BY <2>3, <2>4 DEF Alike
  <2>6. \A i, j \in 1 .. Len(Callers) : ~(j < i) /\ ~(i < j) => i = j
    BY <2>2
  <2> QED  BY <2>1, <2>5, <2>6, Zenon DEF AtMostOne
<1>5. Caller(Callers)
  BY <1>3, <1>4 DEF Caller
<1>6. ASSUME NEW pc  PROVE Caller(At(pc))
  <2>1. [Top EXCEPT !.pc = pc].fn = Top.fn
    BY <1>1 DEF IsRecord
  <2> QED  BY <1>5, <2>1, CallOver DEF At
<1> QED  BY <1>5, <1>6

\* The ways in which the operation on top of the calls goes on, when it is the
\* engine's: it returns, or makes its next call.
LEMMA EngineMoves ==
  ASSUME OwnershipInv, IInv, StackKept
  PROVE  /\ Caller(calls') /\ UNCHANGED dispatching /\ ret' \in Statuses => IInv'
         /\ \A c, kind : Caller(c) /\ kind \in FrameWalk /\ DispatchFrames(c, kind) => IInv'
         /\ \A c, cmd : Caller(c) /\ cmd \in Command /\ Execute(c, cmd) => IInv'
         /\ \A c : Caller(c) /\ CallApply(c) => IInv'
         /\ calls # <<>> /\ Top.fn \in EngineOp =>
              /\ \A status \in Statuses : Return(status) => IInv'
              /\ \A r : r.fn \in EngineOp /\ calls' = Append(Callers, r)
                          /\ UNCHANGED <<dispatching, ret>> => IInv'
              /\ \A pc : calls' = At(pc) /\ UNCHANGED <<dispatching, ret>> => IInv'
<1>1. ASSUME Caller(calls'), UNCHANGED dispatching, ret' \in Statuses  PROVE IInv'
  <2>1. UNCHANGED <<items, dispatching, life, held>> /\ open' = open /\ open' \in BOOLEAN
    BY <1>1 DEF StackKept, IInv, DataOK
  <2> QED  BY <1>1, <2>1, RefusalKeepsIInv
<1>2. ASSUME NEW c, NEW kind, Caller(c), kind \in FrameWalk, DispatchFrames(c, kind)  PROVE IInv'
  BY <1>2, DispatchFramesKeepsIInv DEF StackKept
<1>3. ASSUME NEW c, NEW cmd, Caller(c), cmd \in Command, Execute(c, cmd)  PROVE IInv'
  <2>1. cmd.op # "pop" => cmd.scene \in Scenes
    BY <1>3 DEF Command, CommandOn
  <2>2. \/ Push(c, cmd.scene) /\ cmd.scene \in Scenes
        \/ Replace(c, cmd.scene) /\ cmd.scene \in Scenes
        \/ Pop(c)
    BY <1>3, <2>1 DEF Execute
  <2> QED  BY <1>3, <2>2, PushKeepsIInv, ReplaceKeepsIInv, PopKeepsIInv DEF StackKept
<1>4. ret \in Statuses
  BY DEF IInv, DataOK
<1>5. ASSUME NEW c, Caller(c), CallApply(c)  PROVE IInv'
  <2> DEFINE r == Call("apply", "next", NoScene, 0)
  <2>1. r.fn \in EngineOp
    BY DEF Call, EngineOp
  <2>2. calls' = Append(c, r) /\ UNCHANGED <<dispatching, ret>>
    BY <1>5 DEF CallApply
  <2> HIDE DEF r
  <2> QED  BY <1>1, <1>4, <1>5, <2>1, <2>2, CallOver
<1>6. ASSUME calls # <<>>, Top.fn \in EngineOp
      PROVE  /\ \A status \in Statuses : Return(status) => IInv'
             /\ \A r : r.fn \in EngineOp /\ calls' = Append(Callers, r)
                         /\ UNCHANGED <<dispatching, ret>> => IInv'
             /\ \A pc : calls' = At(pc) /\ UNCHANGED <<dispatching, ret>> => IInv'
  <2>1. Caller(Callers) /\ \A pc : Caller(At(pc))
    BY <1>6, CallUnder
  <2> QED  BY <1>1, <1>4, <2>1, CallOver DEF Return
<1> QED  BY <1>1, <1>2, <1>3, <1>5, <1>6

\* Every step of the engine keeps what the stack relies on: it begins an operation
\* of the stack, or returns into one, or is none of its business.
LEMMA StackStep ==
  ASSUME OwnershipInv, QueueInv, IInv, [EngineNext]_vars
  PROVE  IInv' /\ (InProgress(Walk) => items' = items)
<1> USE DEF Resumes, Running, EngineOp, Rest, StackKept
<1>a. /\ ret \in Statuses /\ {"ok", "state", "limit", "rejected"} \subseteq Statuses
      /\ Caller(calls)
  BY CallerItself DEF IInv, DataOK, Statuses
<1>b. \A fn, pc, arg, idx : Call(fn, pc, arg, idx).fn = fn
  BY DEF Call
<1>c. calls # <<>> /\ Top.fn \in EngineOp => Caller(Callers) /\ \A pc : Caller(At(pc))
  BY CallUnder
<1>1. CASE UNCHANGED vars
  BY <1>1, <1>a, EngineMoves DEF vars, stackVars
<1>2. ASSUME ApplyTakes  PROVE IInv' /\ items' = items
  <2> DEFINE r == Call("apply", "wait", Head(queue), Len(queue) - 1)
  <2>1. /\ calls # <<>> /\ Top.fn = "apply" /\ queue # <<>> /\ StackKept
        /\ Execute(Append(Callers, r), Head(queue))
    BY <1>2 DEF ApplyTakes
  <2>2. Head(queue) \in Command
    BY <2>1 DEF QueueInv
  <2>3. r.fn \in EngineOp
    BY <1>b
  <2> HIDE DEF r
  <2>4. Caller(Append(Callers, r))
    BY <1>c, <2>1, <2>3, CallOver
  <2> QED  BY <2>1, <2>2, <2>4, EngineMoves
<1>3. ASSUME ApplyDone  PROVE IInv' /\ items' = items
  BY <1>3, <1>a, EngineMoves DEF ApplyDone
<1>4. ASSUME ApplyResumes  PROVE IInv' /\ items' = items
  BY <1>4, <1>a, EngineMoves DEF ApplyResumes
<1>5. ASSUME FrameEnds  PROVE IInv' /\ items' = items
  BY <1>5, <1>a, EngineMoves DEF FrameEnds, EndFrame
<1>6. ASSUME SampleClock  PROVE IInv' /\ items' = items
  BY <1>6, <1>a, <1>b, EngineMoves DEF SampleClock
<1>7. ASSUME NEW n, FixedOrUpdate(n), StackKept, calls # <<>>, Top.fn = "frame"  PROVE IInv'
  <2>1. \E pc, kind : kind \in FrameWalk /\ DispatchFrames(At(pc), kind)
    BY <1>7 DEF FixedOrUpdate, FrameWalk
  <2> QED  BY <1>7, <1>c, <2>1, EngineMoves
<1>8. ASSUME NEW status \in {"ok", "rejected"}, BeginHookReturns(status)  PROVE IInv' /\ items' = items
  <2>1. calls # <<>> /\ Top.fn = "frame" /\ StackKept /\ (Return(status) \/ FixedOrUpdate(0))
    BY <1>8 DEF BeginHookReturns, EndFrame
  <2> QED  BY <1>7, <1>a, <2>1, EngineMoves
<1>9. ASSUME NEW pc, NEW n, calls # <<>>, Top.fn = "frame", StackKept,
             CallApply(Append(Callers, Call("frame", pc, NoScene, n))) \/ CallApply(At(pc))
      PROVE  IInv'
  <2>1. Caller(Append(Callers, Call("frame", pc, NoScene, n)))
    BY <1>9, <1>b, <1>c, CallOver
  <2> QED  BY <1>9, <1>c, <2>1, EngineMoves
<1>10. ASSUME FixedReturns  PROVE IInv' /\ items' = items
  <2>1. /\ calls # <<>> /\ Top.fn = "frame" /\ StackKept
        /\ Return(ret) \/ CallApply(Append(Callers, Call("frame", "fixed_commands", NoScene, Top.idx + 1)))
    BY <1>10 DEF FixedReturns, EndFrame
  <2> QED  BY <1>9, <1>a, <2>1, EngineMoves
<1>11. ASSUME AfterFixedCommands  PROVE IInv' /\ items' = items
  <2>1. calls # <<>> /\ Top.fn = "frame" /\ StackKept /\ FixedOrUpdate(Top.idx)
    BY <1>11 DEF AfterFixedCommands
  <2> QED  BY <1>7, <2>1
<1>12. ASSUME UpdateReturns  PROVE IInv' /\ items' = items
  <2>1. /\ calls # <<>> /\ Top.fn = "frame" /\ StackKept
        /\ Return(ret) \/ CallApply(At("update_commands"))
    BY <1>12 DEF UpdateReturns, EndFrame
  <2> QED  BY <1>9, <1>a, <2>1, EngineMoves
<1>13. ASSUME AfterUpdateCommands  PROVE IInv' /\ items' = items
  <2>1. calls # <<>> /\ Top.fn = "frame" /\ StackKept /\ DispatchFrames(At("render"), "render")
    BY <1>13 DEF AfterUpdateCommands
  <2>2. "render" \in FrameWalk /\ Caller(At("render"))
    BY <1>c, <2>1 DEF FrameWalk
  <2> QED  BY <2>1, <2>2, EngineMoves
<1>14. ASSUME RenderReturns  PROVE IInv' /\ items' = items
  BY <1>14, <1>a, EngineMoves DEF RenderReturns, EndFrame
<1>15. ASSUME NEW status \in {"ok", "rejected"}, PresentReturns(status)  PROVE IInv' /\ items' = items
  <2>1. /\ calls # <<>> /\ Top.fn = "frame" /\ StackKept
        /\ Return(status) \/ CallApply(At("present_commands"))
    BY <1>15 DEF PresentReturns, EndFrame
  <2> QED  BY <1>9, <1>a, <2>1, EngineMoves
<1>16. ASSUME FrameDone  PROVE IInv' /\ items' = items
  BY <1>16, <1>a, EngineMoves DEF FrameDone, EndFrame
<1>17. ASSUME NEW c, NEW now, Caller(c), BeginFrame(c, now), StackKept  PROVE IInv'
  <2>1. Caller(Append(c, Call("frame", "commands", NoScene, now)))
    BY <1>17, <1>b, CallOver
  <2> QED  BY <1>17, <2>1, EngineMoves DEF BeginFrame
<1>18. ASSUME NEW now, EngineFrame(now)  PROVE IInv' /\ items' = items
  <2>1. StackKept /\ (BeginFrame(calls, now) \/ Refuse(calls, "state"))
    BY <1>18 DEF EngineFrame
  <2> QED  BY <1>17, <1>a, <2>1, EngineMoves DEF Refuse
<1>19. ASSUME NEW c, Caller(c), StackKept, Poll(c), UNCHANGED <<dispatching, ret>>  PROVE IInv'
  <2>1. PICK t : calls' = Append(c, Call("run", "poll", NoScene, t))
    BY <1>19 DEF Poll
  <2>2. Caller(calls')
    BY <1>19, <1>b, <2>1, CallOver
  <2> QED  BY <1>19, <1>a, <2>2, EngineMoves
<1>20. ASSUME EngineRun  PROVE IInv' /\ items' = items
  <2>1. StackKept /\ ((Poll(calls) /\ UNCHANGED <<dispatching, ret>>) \/ Refuse(calls, "state"))
    BY <1>20 DEF EngineRun
  <2> QED  BY <1>19, <1>a, <2>1, EngineMoves DEF Refuse
<1>21. ASSUME NEW status \in {"ok", "rejected"}, PollReturns(status)  PROVE IInv' /\ items' = items
  <2>1. /\ calls # <<>> /\ Top.fn = "run" /\ StackKept
        /\ Return(status) \/ BeginFrame(At("frame"), Top.idx)
    BY <1>21 DEF PollReturns, StopRun
  <2> QED  BY <1>17, <1>a, <1>c, <2>1, EngineMoves
<1>22. ASSUME RunFrameReturns  PROVE IInv' /\ items' = items
  <2>1. /\ calls # <<>> /\ Top.fn = "run" /\ StackKept
        /\ Return(ret) \/ (Poll(Callers) /\ UNCHANGED <<dispatching, ret>>)
    BY <1>22 DEF RunFrameReturns, StopRun
  <2> QED  BY <1>19, <1>a, <1>c, <2>1, EngineMoves
<1>23. ASSUME NEW cmd, EngineQueueSceneCommand(cmd)  PROVE IInv' /\ items' = items
  <2>1. StackKept /\ UNCHANGED <<calls, dispatching>> /\ ret' \in {"ok", "limit"}
    BY <1>23 DEF EngineQueueSceneCommand
  <2> QED  BY <1>a, <2>1, EngineMoves
<1>24. ASSUME RequestQuit  PROVE IInv' /\ items' = items
  BY <1>24, <1>a, EngineMoves DEF RequestQuit, stackVars
<1>25. ASSUME EngineDispatchEvent  PROVE IInv' /\ items' = items
  BY <1>25, <1>a, DispatchEventKeepsIInv DEF EngineDispatchEvent
<1>26. ASSUME EngineDestroy  PROVE IInv' /\ items' = items
  <2>1. Caller(Append(calls, Call("destroy", "wait", NoScene, 0)))
    BY <1>a, <1>b, CallOver
  <2>2. CASE Busy
    BY <1>26, <1>a, <2>2, EngineMoves DEF EngineDestroy, Refuse
  <2>3. CASE ~Busy
    BY <1>26, <2>1, <2>3, DisposeKeepsIInv DEF EngineDestroy
  <2> QED  BY <2>2, <2>3
<1>27. ASSUME DestroyReturns  PROVE IInv' /\ items' = items
  BY <1>27, <1>a, EngineMoves DEF DestroyReturns
<1>28. ASSUME EngineCreate  PROVE IInv' /\ items' = items
  <2>1. calls = <<>> /\ open' = TRUE /\ UNCHANGED <<items, dispatching, calls, ret, life, held>>
    BY <1>28 DEF EngineCreate
  <2>2. ~dispatching
    <3>1. Len(calls) = 0
      BY <2>1
    <3>2. StackOps(calls) = {}
      BY <3>1 DEF StackOps, Records
    <3> QED  BY <3>2 DEF IInv, CallInv
  <2> QED  BY <1>a, <2>1, <2>2, RefusalKeepsIInv
<1>29. ASSUME SceneCallbackReturns  PROVE IInv' /\ (InProgress(Walk) => items' = items)
  BY <1>29, CallbackReturnsKeepsIInv, Stability DEF SceneCallbackReturns
<1> QED
  BY <1>1, <1>2, <1>3, <1>4, <1>5, <1>6, <1>8, <1>10, <1>11, <1>12, <1>13, <1>14, <1>15,
     <1>16, <1>18, <1>20, <1>21, <1>22, <1>23, <1>24, <1>25, <1>26, <1>27, <1>28, <1>29
     DEF EngineNext, EngineStep, AppStep, HookReturns, vars, stackVars

LEMMA StackHolds == EngineSpec => [](OwnershipInv /\ QueueInv /\ IInv)
<1>1. EngineInit => IInv
  BY InitEstablishesIInv DEF EngineInit
<1> QED
  BY <1>1, OwnershipInit, OwnershipStep, QueueInit, QueueStep, StackStep, PTL DEF EngineSpec

\* The stack keeps its promises to the scenes when an engine drives it too: whatever
\* frames, commands, events and a destruction come to, no callback is lost or repeated
\* and no dispatch reaches a scene that one above holds it back from.
THEOREM EngineKeepsStackSound == EngineSpec => []StackIsSound
BY Soundness, StackHolds, PTL

\* Commands are deferred: no step of the engine moves the scenes under a dispatch.
THEOREM EngineKeepsWalksStable == EngineSpec => WalkIsStable
<1>1. OwnershipInv /\ QueueInv /\ IInv /\ [EngineNext]_vars
        => [InProgress(Walk) => items' = items]_stackVars
  BY StackStep
<1> QED  BY <1>1, StackHolds, PTL DEF EngineSpec, WalkIsStable

=============================================================================
