----------------------------- MODULE SceneStack -----------------------------
(***************************************************************************)
(* The scene stack of AForc (src/src/core/scene.c).                        *)
(*                                                                         *)
(* The stack runs application callbacks while one of its operations is in  *)
(* progress, and a callback may call any operation of the stack again. The *)
(* C call stack is therefore part of the state: calls holds one record per *)
(* operation that has begun and not returned. The code between two         *)
(* callbacks touches nothing the application can see, so one action runs   *)
(* from a callback's return to the next callback, or to the operation's    *)
(* own return. A missing (NULL) callback is one that does nothing.         *)
(***************************************************************************)
EXTENDS Integers, Sequences, FiniteSets

CONSTANTS
  Scenes,     \* the scene objects the application owns
  NoScene,    \* a NULL scene pointer
  Capacity,   \* capacity of items, fixed by aforc_scene_stack_init
  flags       \* flags[s]: which dispatches scene s lets through to the scene below

Propagation == {"render", "update", "events"}

ASSUME SceneAssumption ==
  /\ NoScene \notin Scenes
  /\ Capacity \in Nat \ {0}
  /\ flags \in [Scenes -> SUBSET Propagation]

VARIABLES
  items,        \* stack->items[0 .. count-1], bottom first
  dispatching,  \* stack->dispatching
  open,         \* stack->items # NULL
  calls,        \* the operations in progress, outermost first
  ret,          \* the status the last call returned
  life,         \* life[i]: what the callbacks have told the scene at items[i]
  held          \* held[s]: successful enters of s that no leave has matched

stackVars == <<items, dispatching, open, calls, ret, life, held>>

Statuses  == {"ok", "state", "limit", "not_found", "rejected"}
FrameWalk == {"fixed", "update", "render"}
Walk      == FrameWalk \union {"event"}
Mutation  == {"push", "pop", "replace", "dispose"}
StackOp   == Walk \union Mutation

\* One activation of an operation; pc names the callback it is waiting for.
Call(fn, pc, arg, idx) == [fn |-> fn, pc |-> pc, arg |-> arg, idx |-> idx]

Top     == calls[Len(calls)]
Callers == SubSeq(calls, 1, Len(calls) - 1)
At(pc)  == Append(Callers, [Top EXCEPT !.pc = pc])

\* A stack operation is in progress, and its callback of that name is running.
Running(fns, pc) == calls # <<>> /\ Top.fn \in fns /\ Top.pc = pc

Init ==
  /\ items = <<>>
  /\ dispatching = FALSE
  /\ open = TRUE
  /\ calls = <<>>
  /\ ret = "ok"
  /\ life = <<>>
  /\ held = [s \in Scenes |-> 0]

-----------------------------------------------------------------------------
(* Calls. c is the call stack of the caller.                               *)

Begin(c, call)   == calls' = Append(c, call) /\ dispatching' = TRUE /\ UNCHANGED ret
Refuse(c, why)   == calls' = c /\ ret' = why /\ UNCHANGED dispatching
Finish(status)   == calls' = Callers /\ ret' = status /\ dispatching' = FALSE

CanMutate_AnyTime == open
CanMutate == open /\ ~dispatching

\* A push or replacement over a scene pauses that scene before entering the next.
BeginEnter(c, fn, s) ==
  Begin(c, Call(fn, IF items = <<>> THEN "enter" ELSE "pause", s, 0))

Push(c, s) ==
  CASE ~CanMutate -> Refuse(c, "state")
    [] CanMutate /\ Len(items) = Capacity -> Refuse(c, "limit")
    [] OTHER -> BeginEnter(c, "push", s)

Replace(c, s) ==
  CASE ~CanMutate -> Refuse(c, "state")
    [] CanMutate /\ items = <<>> -> Push(c, s)
    [] OTHER -> BeginEnter(c, "replace", s)

Pop(c) ==
  CASE ~CanMutate -> Refuse(c, "state")
    [] CanMutate /\ items = <<>> -> Refuse(c, "not_found")
    [] OTHER -> Begin(c, Call("pop", "leave", NoScene, 0))

\* The flag a kind of frame dispatch needs to reach the scene below.
FlagFor(kind) == IF kind = "render" THEN "render" ELSE "update"

\* The lowest scene reached from the top through scenes that all let kind through.
First(kind) ==
  CHOOSE i \in 1 .. Len(items) :
    /\ \A j \in i + 1 .. Len(items) : FlagFor(kind) \in flags[items[j]]
    /\ i = 1 \/ FlagFor(kind) \notin flags[items[i]]

DispatchFrames(c, kind) ==
  CASE ~CanMutate -> Refuse(c, "state")
    [] CanMutate /\ items = <<>> -> Refuse(c, "ok")
    [] OTHER -> Begin(c, Call(kind, "call", NoScene, First(kind)))

DispatchEvent(c) ==
  CASE ~CanMutate -> Refuse(c, "state")
    [] CanMutate /\ items = <<>> -> Refuse(c, "ok")
    [] OTHER -> Begin(c, Call("event", "call", NoScene, Len(items)))

\* Disposing an empty stack runs no callback; a busy stack ignores the call.
Dispose(c) ==
  IF CanMutate /\ items # <<>>
  THEN Begin(c, Call("dispose", "leave", NoScene, Len(items))) /\ UNCHANGED open
  ELSE Refuse(c, "ok") /\ open' = (open /\ dispatching)

-----------------------------------------------------------------------------
(* Returns of callbacks.                                                   *)

SetTop(state) == [life EXCEPT ![Len(life)] = state]
Below(seq)    == SubSeq(seq, 1, Len(seq) - 1)
TopScene      == items[Len(items)]
Acquire(s)    == held' = [held EXCEPT ![s] = @ + 1]
Release(s)    == held' = [held EXCEPT ![s] = @ - 1]

\* previous->vtable->pause returned: enter the next scene.
PauseReturns ==
  /\ Running({"push", "replace"}, "pause")
  /\ life' = SetTop("paused")
  /\ calls' = At("enter")
  /\ UNCHANGED <<items, dispatching, open, ret, held>>

\* A pushed scene that accepted its enter goes on the stack.
PushEntered ==
  /\ Running({"push"}, "enter")
  /\ items' = Append(items, Top.arg)
  /\ life' = Append(life, "active")
  /\ Acquire(Top.arg)
  /\ Finish("ok")
  /\ UNCHANGED open

\* A replacement that accepted its enter: the replaced scene must leave next.
ReplaceEntered ==
  /\ Running({"replace"}, "enter")
  /\ calls' = At("leave")
  /\ Acquire(Top.arg)
  /\ UNCHANGED <<items, dispatching, open, ret, life>>

EnterRejected_NoUndo ==
  /\ Running({"push", "replace"}, "enter")
  /\ Finish("rejected")
  /\ UNCHANGED <<items, open, life, held>>

\* A rejected enter resumes the scene that stays on top, if there is one.
EnterRejected ==
  /\ Running({"push", "replace"}, "enter")
  /\ IF items = <<>>
     THEN Finish("rejected")
     ELSE calls' = At("undo") /\ UNCHANGED <<dispatching, ret>>
  /\ UNCHANGED <<items, open, life, held>>

\* The resume that follows a rejected enter returned.
UndoReturns ==
  /\ Running({"push", "replace"}, "undo")
  /\ life' = SetTop("active")
  /\ Finish("rejected")
  /\ UNCHANGED <<items, open, held>>

\* The replaced scene left: its slot now holds the replacement.
ReplaceLeft ==
  /\ Running({"replace"}, "leave")
  /\ items' = [items EXCEPT ![Len(items)] = Top.arg]
  /\ life' = SetTop("active")
  /\ Release(TopScene)
  /\ Finish("ok")
  /\ UNCHANGED open

\* The popped scene left: drop it and resume the scene below.
PopLeft ==
  /\ Running({"pop"}, "leave")
  /\ items' = Below(items)
  /\ life' = Below(life)
  /\ Release(TopScene)
  /\ IF Len(items) > 1
     THEN calls' = At("resume") /\ UNCHANGED <<dispatching, ret>>
     ELSE Finish("ok")
  /\ UNCHANGED open

\* The scene under a popped one resumed.
ResumeReturns ==
  /\ Running({"pop"}, "resume")
  /\ life' = SetTop("active")
  /\ Finish("ok")
  /\ UNCHANGED <<items, open, held>>

\* Disposal: the next scene from the top leaves, or the storage is released.
DisposeLeft ==
  /\ Running({"dispose"}, "leave")
  /\ items' = Below(items)
  /\ life' = Below(life)
  /\ Release(TopScene)
  /\ IF Len(items) > 1
     THEN UNCHANGED <<open, calls, dispatching, ret>>
     ELSE open' = FALSE /\ Finish("ok")

\* A fixed, update or render callback returned: go up, or stop on an error.
WalkReturns(status) ==
  /\ Running(FrameWalk, "call")
  /\ IF status = "ok" /\ Top.idx < Len(items)
     THEN calls' = Append(Callers, [Top EXCEPT !.idx = @ + 1])
          /\ UNCHANGED <<dispatching, ret>>
     ELSE Finish(status)
  /\ UNCHANGED <<items, open, life, held>>

\* An event callback returned: go down while nothing stopped the event.
EventReturns(status, handled) ==
  /\ Running({"event"}, "call")
  /\ IF /\ status = "ok" /\ ~handled
        /\ "events" \in flags[items[Top.idx]]
        /\ Top.idx > 1
     THEN calls' = Append(Callers, [Top EXCEPT !.idx = @ - 1])
          /\ UNCHANGED <<dispatching, ret>>
     ELSE Finish(status)
  /\ UNCHANGED <<items, open, life, held>>

CallbackReturns ==
  \/ PauseReturns
  \/ PushEntered
  \/ ReplaceEntered
  \/ EnterRejected
  \/ UndoReturns
  \/ ReplaceLeft
  \/ PopLeft
  \/ ResumeReturns
  \/ DisposeLeft
  \/ \E status \in {"ok", "rejected"} : WalkReturns(status)
  \/ \E status \in {"ok", "rejected"}, handled \in BOOLEAN :
       EventReturns(status, handled)

-----------------------------------------------------------------------------
(* The application calls the stack from outside and from its callbacks.    *)

AppPush    == \E s \in Scenes : Push(calls, s)    /\ UNCHANGED <<items, open, life, held>>
AppReplace == \E s \in Scenes : Replace(calls, s) /\ UNCHANGED <<items, open, life, held>>
AppPop     == Pop(calls)                          /\ UNCHANGED <<items, open, life, held>>
AppWalk    == \E kind \in FrameWalk :
                DispatchFrames(calls, kind)       /\ UNCHANGED <<items, open, life, held>>
AppEvent   == DispatchEvent(calls)                /\ UNCHANGED <<items, open, life, held>>
AppDispose == Dispose(calls)                      /\ UNCHANGED <<items, life, held>>

Next ==
  \/ AppPush
  \/ AppReplace
  \/ AppPop
  \/ AppWalk
  \/ AppEvent
  \/ AppDispose
  \/ CallbackReturns

Spec     == Init /\ [][Next]_stackVars

-----------------------------------------------------------------------------
(* Properties.                                                             *)

Occurrences(seq, s) == Cardinality({i \in DOMAIN seq : seq[i] = s})
InProgress(fns) == \E i \in DOMAIN calls : calls[i].fn \in fns

StackCall ==
  [fn : StackOp,
   pc : {"pause", "enter", "undo", "leave", "resume", "call"},
   arg : Scenes \union {NoScene},
   idx : Nat]

\* Every variable has its type; the two views of the stack have one length.
TypeOK ==
  /\ items \in Seq(Scenes) /\ Len(items) <= Capacity
  /\ dispatching \in BOOLEAN
  /\ open \in BOOLEAN
  /\ calls \in Seq(StackCall)
  /\ ret \in Statuses
  /\ life \in Seq({"active", "paused"}) /\ Len(life) = Len(items)
  /\ held \in [Scenes -> Int]

\* The dispatching flag is exact: it is raised while, and only while, an
\* operation is in progress, so no operation ever begins inside another one
\* (stack_can_mutate, and the same test of the dispatchers).
OneOperation ==
  /\ Len(calls) <= 1
  /\ dispatching <=> calls # <<>>

\* Between operations the callbacks have left exactly the top scene active and
\* every covered scene paused, whatever was rejected or popped on the way: "a
\* failed push/replace restores the previously active scene" (scene.h).
OnlyTopActive ==
  calls = <<>> =>
    \A i \in DOMAIN items :
      life[i] = IF i = Len(items) THEN "active" ELSE "paused"

\* Between operations every scene has been entered exactly as many more times
\* than it has left as it stands on the stack: no enter is leaked by a
\* replacement or a disposal, and no rejected scene is left.
LeavesMatchEnters ==
  calls = <<>> => \A s \in Scenes : held[s] = Occurrences(items, s)

\* A walk calls scenes of the stack it started on: nothing moves under it, even
\* though each callback may ask for any mutation.
WalkIsStable == [][InProgress(Walk) => items' = items]_stackVars

\* A dispatch reaches a scene only through scenes above it that all let that
\* kind of dispatch through.
DispatchReach ==
  \A i \in DOMAIN calls :
    calls[i].fn \in Walk =>
      \A j \in calls[i].idx + 1 .. Len(items) :
        (IF calls[i].fn = "event" THEN "events" ELSE FlagFor(calls[i].fn))
          \in flags[items[j]]

\* Whatever the application calls and whatever its callbacks refuse, the callbacks
\* that scenes have received agree with the places they have on the stack (scene.h),
\* and a dispatch reaches only scenes that are let through to.
StackIsSound == OnlyTopActive /\ LeavesMatchEnters /\ DispatchReach

=============================================================================
