------------------------------- MODULE Engine -------------------------------
(***************************************************************************)
(* The engine of AForc (src/src/core/engine.c, engine_commands.c): deferred *)
(* scene commands, the frame and its fixed-step clock, the run loop, and   *)
(* the engine's life, over the scene stack it owns.                        *)
(*                                                                         *)
(* The engine is single-threaded and calls the application through scene   *)
(* callbacks and hooks. calls, the C call stack of SceneStack, also holds  *)
(* the engine's own operations: apply, frame, run and destroy. One action  *)
(* runs an engine operation up to its next call or to its return.          *)
(***************************************************************************)
EXTENDS SceneStack

CONSTANTS
  Configs,          \* what aforc_engine_create may be given, with the run's bounds
  AccLimit,         \* UINT64_MAX, where the accumulator saturates
  IndexModulus      \* 2^64, where frame_index wraps

ASSUME EngineAssumption ==
  /\ {AccLimit, IndexModulus} \subseteq Nat \ {0}
  /\ Configs \subseteq
       [queueCapacity : Nat \ {0},   \* scene_command_capacity
        quitWhenEmpty : BOOLEAN,     \* quit_when_scene_stack_empty
        step : Nat \ {0},            \* fixed_step_ns
        maxFrameTime : 0..AccLimit,  \* maximum_frame_seconds, as maximum_ns
        maxUpdates : Nat \ {0},      \* maximum_fixed_updates_per_frame
        scenes : SUBSET Scenes,      \* bound: the scenes it is asked to show
        maxTime : Nat,               \* bound: the largest clock reading
        maxRequests : Nat]           \* bound: scene commands the application requests

VARIABLES
  config,         \* engine->config and fixed_step_ns
  alive,          \* the engine exists: created and not destroyed
  queue,          \* engine->commands[0 .. command_count-1]
  state,          \* engine->state
  quit,           \* engine->quit_requested
  frameActive,    \* engine->frame_active
  clockStarted,   \* engine->clock_started
  lastTime,       \* engine->last_time_ns
  acc,            \* engine->accumulator_ns
  tick,           \* engine->fixed_tick
  frames,         \* engine->frame_index
  clock,          \* the latest reading of the clock
  seen,           \* the lowest and the highest reading a frame has used
  requested       \* scene commands requested so far

clockVars  == <<clockStarted, lastTime, acc, tick, seen>>
modeVars   == <<alive, state, quit, frameActive>>
engineVars == <<config, modeVars, queue, clockVars, frames, clock, requested>>
vars       == <<stackVars, engineVars>>

QueueCapacity == config.queueCapacity
QuitWhenEmpty == config.quitWhenEmpty
Step          == config.step
MaxFrameTime  == config.maxFrameTime
MaxUpdates    == config.maxUpdates
MaxTime       == config.maxTime
MaxRequests   == config.maxRequests

CommandOn(scenes) ==
  [op : {"push", "replace"}, scene : scenes] \union [op : {"pop"}, scene : {NoScene}]
Command == CommandOn(Scenes)

\* What the clock may read next: it never goes back.
Readings == clock .. MaxTime

NothingSeen == [lo |-> MaxTime, hi |-> 0]

EngineInit ==
  /\ Init
  /\ config \in Configs
  /\ alive = TRUE
  /\ state = "CREATED"
  /\ queue = <<>>
  /\ quit = FALSE
  /\ frameActive = FALSE
  /\ clockStarted = FALSE
  /\ lastTime = 0
  /\ acc = 0
  /\ tick = 0
  /\ frames = 0
  /\ seen = NothingSeen
  /\ clock = 0
  /\ requested = 0

\* A scene callback or a hook is running: the application may call the engine.
InCallback ==
  /\ calls # <<>>
  /\ \/ Top.fn \in StackOp
     \/ Top.fn = "frame" /\ Top.pc \in {"begin", "present"}
     \/ Top.fn = "run" /\ Top.pc = "poll"

AppInControl == alive /\ (calls = <<>> \/ InCallback)

\* An engine operation in progress gets back from the call it made at pc.
Resumes(fn, pc) == alive /\ Running({fn}, pc)

\* An engine operation returns to its caller.
Return(status) == calls' = Callers /\ ret' = status /\ UNCHANGED dispatching

\* What only the scene stack changes, and the configuration nobody does.
Rest == <<config, items, open, life, held>>

-----------------------------------------------------------------------------
(* Deferred scene commands.                                                *)

EngineQueueSceneCommand(cmd) ==
  /\ AppInControl
  /\ requested < MaxRequests
  /\ requested' = requested + 1
  /\ IF Len(queue) = QueueCapacity
     THEN ret' = "limit" /\ UNCHANGED queue
     ELSE ret' = "ok" /\ queue' = Append(queue, cmd)
  /\ UNCHANGED <<Rest, calls, dispatching, modeVars, clockVars, frames, clock>>

CallApply(c) ==
  calls' = Append(c, Call("apply", "next", NoScene, 0)) /\ UNCHANGED <<dispatching, ret>>

\* The scene stack carries out a command on behalf of the caller c.
Execute(c, cmd) ==
  CASE cmd.op = "push" -> Push(c, cmd.scene)
    [] cmd.op = "replace" -> Replace(c, cmd.scene)
    [] OTHER -> Pop(c)

ApplyTakes_Peek ==
  /\ Resumes("apply", "next")
  /\ queue # <<>>
  /\ queue' = queue
  /\ Execute(Append(Callers, Call("apply", "wait", Head(queue), Len(queue) - 1)), Head(queue))
  /\ UNCHANGED <<Rest, modeVars, clockVars, frames, clock, requested>>

\* Retire the head of the queue, then run it; idx is retained_count.
ApplyTakes ==
  /\ Resumes("apply", "next")
  /\ queue # <<>>
  /\ queue' = Tail(queue)
  /\ Execute(Append(Callers, Call("apply", "wait", Head(queue), Len(queue) - 1)), Head(queue))
  /\ UNCHANGED <<Rest, modeVars, clockVars, frames, clock, requested>>

\* The whole queue was carried out.
ApplyDone ==
  /\ Resumes("apply", "next")
  /\ queue = <<>>
  /\ quit' = (quit \/ (QuitWhenEmpty /\ items = <<>>))
  /\ Return("ok")
  /\ UNCHANGED <<Rest, alive, state, frameActive, queue, clockVars, frames, clock, requested>>

ApplyResumes_KeepAll ==
  /\ Resumes("apply", "wait")
  /\ IF ret = "ok"
     THEN calls' = At("next") /\ UNCHANGED <<dispatching, ret>>
     ELSE Return(ret)
  /\ UNCHANGED <<queue, Rest, modeVars, clockVars, frames, clock, requested>>

\* A command returned: go on, or drop what its callbacks requested and fail.
ApplyResumes ==
  /\ Resumes("apply", "wait")
  /\ IF ret = "ok"
     THEN calls' = At("next") /\ UNCHANGED <<dispatching, ret, queue>>
     ELSE Return(ret) /\ queue' = SubSeq(queue, 1, Top.idx)
  /\ UNCHANGED <<Rest, modeVars, clockVars, frames, clock, requested>>

-----------------------------------------------------------------------------
(* The frame. Its record's idx is now_ns until the clock is sampled, and   *)
(* the number of fixed updates afterwards.                                 *)

BeginFrame(c, now) ==
  frameActive' = TRUE /\ CallApply(Append(c, Call("frame", "commands", NoScene, now)))

EndFrame(status) == Return(status) /\ frameActive' = FALSE

FrameEnds_KeepOwner ==
  /\ \E pc \in {"commands", "fixed_commands", "update_commands"} : Resumes("frame", pc)
  /\ ret # "ok" \/ quit
  /\ Return(ret)
  /\ UNCHANGED <<frameActive, Rest, alive, state, quit, queue, clockVars, frames, clock, requested>>

\* The frame goes on after a call that returned ret, or ends there.
FrameStops == ret # "ok" \/ quit

FrameEnds ==
  /\ \E pc \in {"commands", "fixed_commands", "update_commands"} : Resumes("frame", pc)
  /\ FrameStops
  /\ EndFrame(ret)
  /\ UNCHANGED <<Rest, alive, state, quit, queue, clockVars, frames, clock, requested>>

Smaller(a, b) == IF a < b THEN a ELSE b
Larger(a, b)  == IF a < b THEN b ELSE a

Elapsed_FirstSample(now) ==
  IF now >= lastTime THEN Smaller(now - lastTime, MaxFrameTime) ELSE 0

\* The time a frame at now adds: none for a first sample or a clock that went back.
Elapsed(now) ==
  IF clockStarted /\ now >= lastTime THEN Smaller(now - lastTime, MaxFrameTime) ELSE 0

Accumulate(elapsed) == IF AccLimit - acc < elapsed THEN MaxFrameTime ELSE acc + elapsed

\* Sample the clock into the accumulator and call the begin_frame hook.
SampleClock ==
  /\ Resumes("frame", "commands")
  /\ ~FrameStops
  /\ acc' = Accumulate(Elapsed(Top.idx))
  /\ lastTime' = Top.idx
  /\ clockStarted' = TRUE
  /\ seen' = [lo |-> Smaller(seen.lo, Top.idx), hi |-> Larger(seen.hi, Top.idx)]
  /\ calls' = Append(Callers, Call("frame", "begin", NoScene, 0))
  /\ UNCHANGED <<Rest, dispatching, ret, modeVars, queue, tick, frames, clock, requested>>

\* Another fixed update if one is due; else drop the backlog and update.
FixedOrUpdate(updates) ==
  /\ IF acc >= Step /\ updates < MaxUpdates
     THEN DispatchFrames(At("fixed"), "fixed") /\ UNCHANGED acc
     ELSE DispatchFrames(At("update"), "update") /\ acc' = acc % Step
  /\ UNCHANGED frameActive

BeginHookReturns(status) ==
  /\ Resumes("frame", "begin")
  /\ IF status # "ok" \/ quit
     THEN EndFrame(status) /\ UNCHANGED acc
     ELSE FixedOrUpdate(0)
  /\ UNCHANGED <<Rest, alive, state, quit, queue, clockStarted, lastTime, tick, seen,
                 frames, clock, requested>>

\* A fixed update that succeeded consumes one step, even if it asked to quit.
FixedReturns ==
  /\ Resumes("frame", "fixed")
  /\ IF ret # "ok"
     THEN EndFrame(ret) /\ UNCHANGED <<acc, tick>>
     ELSE /\ acc' = acc - Step
          /\ tick' = tick + 1
          /\ CallApply(Append(Callers, Call("frame", "fixed_commands", NoScene, Top.idx + 1)))
          /\ UNCHANGED frameActive
  /\ UNCHANGED <<Rest, alive, state, quit, queue, clockStarted, lastTime, seen, frames,
                 clock, requested>>

AfterFixedCommands ==
  /\ Resumes("frame", "fixed_commands")
  /\ ~FrameStops
  /\ FixedOrUpdate(Top.idx)
  /\ UNCHANGED <<Rest, alive, state, quit, queue, clockStarted, lastTime, tick, seen,
                 frames, clock, requested>>

UpdateReturns ==
  /\ Resumes("frame", "update")
  /\ IF ret # "ok" THEN EndFrame(ret) ELSE CallApply(At("update_commands")) /\ UNCHANGED frameActive
  /\ UNCHANGED <<Rest, alive, state, quit, queue, clockVars, frames, clock, requested>>

AfterUpdateCommands ==
  /\ Resumes("frame", "update_commands")
  /\ ~FrameStops
  /\ DispatchFrames(At("render"), "render")
  /\ UNCHANGED <<Rest, modeVars, queue, clockVars, frames, clock, requested>>

\* Render succeeded: call the present hook.
RenderReturns ==
  /\ Resumes("frame", "render")
  /\ IF ret # "ok"
     THEN EndFrame(ret)
     ELSE calls' = At("present") /\ UNCHANGED <<dispatching, ret, frameActive>>
  /\ UNCHANGED <<Rest, alive, state, quit, queue, clockVars, frames, clock, requested>>

PresentReturns(status) ==
  /\ Resumes("frame", "present")
  /\ IF status # "ok"
     THEN EndFrame(status)
     ELSE CallApply(At("present_commands")) /\ UNCHANGED frameActive
  /\ UNCHANGED <<Rest, alive, state, quit, queue, clockVars, frames, clock, requested>>

FrameDone ==
  /\ Resumes("frame", "present_commands")
  /\ frames' = IF ret = "ok" THEN (frames + 1) % IndexModulus ELSE frames
  /\ EndFrame(ret)
  /\ UNCHANGED <<Rest, alive, state, quit, queue, clockVars, clock, requested>>

\* The embedding entry point: one frame at a time given by the application.
EngineFrame(now) ==
  /\ AppInControl
  /\ clock' = now
  /\ IF state = "CREATED" /\ ~frameActive
     THEN BeginFrame(calls, now)
     ELSE Refuse(calls, "state") /\ UNCHANGED frameActive
  /\ UNCHANGED <<Rest, alive, state, quit, queue, clockVars, frames, requested>>

-----------------------------------------------------------------------------
(* The run loop. Its record's idx is frame_start.                          *)

\* Read the clock and call the poll_events hook.
Poll(c) ==
  \E t \in Readings : clock' = t /\ calls' = Append(c, Call("run", "poll", NoScene, t))

EngineRun ==
  /\ AppInControl
  /\ IF state \in {"CREATED", "STOPPED"} /\ ~frameActive
     THEN /\ state' = "RUNNING"
          /\ quit' = FALSE
          /\ clockStarted' = FALSE
          /\ Poll(calls)
          /\ UNCHANGED <<dispatching, ret>>
     ELSE Refuse(calls, "state") /\ UNCHANGED <<state, quit, clockStarted, clock>>
  /\ UNCHANGED <<Rest, alive, frameActive, queue, lastTime, acc, tick, seen, frames, requested>>

StopRun(status) == state' = "STOPPED" /\ Return(status)

PollReturns(status) ==
  /\ Resumes("run", "poll")
  /\ IF status # "ok" \/ quit
     THEN StopRun(status) /\ UNCHANGED frameActive
     ELSE BeginFrame(At("frame"), Top.idx) /\ UNCHANGED state
  /\ UNCHANGED <<Rest, alive, quit, queue, clockVars, frames, clock, requested>>

\* A frame of the loop returned: stop, or poll again after the pacing sleep.
RunFrameReturns ==
  /\ Resumes("run", "frame")
  /\ IF FrameStops
     THEN StopRun(ret) /\ UNCHANGED clock
     ELSE Poll(Callers) /\ UNCHANGED <<state, dispatching, ret>>
  /\ UNCHANGED <<Rest, alive, quit, frameActive, queue, clockVars, frames, requested>>

-----------------------------------------------------------------------------
(* Quit, events, destruction and creation.                                 *)

RequestQuit ==
  /\ AppInControl
  /\ quit' = TRUE
  /\ state' = IF state = "RUNNING" THEN "STOPPING" ELSE state
  /\ UNCHANGED <<config, stackVars, alive, frameActive, queue, clockVars, frames, clock, requested>>

EngineDispatchEvent ==
  /\ AppInControl
  /\ DispatchEvent(calls)
  /\ UNCHANGED <<Rest, engineVars>>

Busy_RunOnly == frameActive \/ state \in {"RUNNING", "STOPPING"}
Busy == frameActive \/ dispatching \/ state \in {"RUNNING", "STOPPING"}

\* Destruction of a busy engine is ignored; otherwise every scene leaves first.
EngineDestroy ==
  /\ AppInControl
  /\ IF Busy
     THEN Refuse(calls, "ok") /\ UNCHANGED open
     ELSE Dispose(Append(calls, Call("destroy", "wait", NoScene, 0)))
  /\ UNCHANGED <<items, life, held, engineVars>>

\* The stack is disposed: the engine is zeroed and freed.
DestroyReturns ==
  /\ Resumes("destroy", "wait")
  /\ alive' = FALSE
  /\ state' = "CREATED" /\ quit' = FALSE /\ frameActive' = FALSE
  /\ queue' = <<>>
  /\ clockStarted' = FALSE /\ lastTime' = 0
  /\ acc' = 0 /\ tick' = 0 /\ frames' = 0 /\ seen' = NothingSeen
  /\ Return("ok")
  /\ UNCHANGED <<Rest, clock, requested>>

EngineCreate ==
  /\ ~alive /\ calls = <<>>
  /\ alive' = TRUE
  /\ open' = TRUE
  /\ UNCHANGED <<config, items, dispatching, calls, ret, life, held, state, quit, frameActive,
                 queue, clockVars, frames, clock, requested>>

\* A callback of the scene stack returns into the stack operation that runs it.
SceneCallbackReturns == alive /\ CallbackReturns /\ UNCHANGED engineVars

HookReturns ==
  \E status \in {"ok", "rejected"} :
    BeginHookReturns(status) \/ PresentReturns(status) \/ PollReturns(status)

EngineStep ==
  \/ ApplyTakes
  \/ ApplyDone
  \/ ApplyResumes
  \/ FrameEnds
  \/ SampleClock
  \/ FixedReturns
  \/ AfterFixedCommands
  \/ UpdateReturns
  \/ AfterUpdateCommands
  \/ RenderReturns
  \/ FrameDone
  \/ RunFrameReturns
  \/ DestroyReturns

AppStep ==
  \/ \E cmd \in CommandOn(config.scenes) : EngineQueueSceneCommand(cmd)
  \/ \E now \in Readings : EngineFrame(now)
  \/ EngineRun
  \/ RequestQuit
  \/ EngineDispatchEvent
  \/ EngineDestroy
  \/ EngineCreate

EngineNext == SceneCallbackReturns \/ HookReturns \/ EngineStep \/ AppStep

\* The engine runs, scene callbacks return, and a hook returns in the end even
\* when it calls the engine over and over.
EngineFairness ==
  /\ WF_vars(SceneCallbackReturns)
  /\ WF_vars(EngineStep)
  /\ SF_vars(HookReturns)

EngineSpec     == EngineInit /\ [][EngineNext]_vars
FairEngineSpec == EngineSpec /\ EngineFairness

-----------------------------------------------------------------------------
(* Properties.                                                             *)

\* No engine or scene function is still to return into an engine that has been
\* destroyed ("Destroy requested during active execution is ignored", engine.h).
NoUseAfterDestroy == ~alive => calls = <<>>

\* The frame renders with an accumulator strictly below one fixed step, so the
\* interpolation lies in [0, 1) (comment of engine_frame_impl), whatever earlier
\* frames left behind when their callbacks failed.
InterpolationInRange == Resumes("frame", "render") => acc < Step

\* Simulated time, ticked or still accumulated, never exceeds the time between
\* the first and the last clock reading: a first sample, a failed frame or a
\* second run adds no time that did not pass.
SimulatedTimeIsReal ==
  seen.lo <= seen.hi => tick * Step + acc <= seen.hi - seen.lo

\* The accumulator carries real time, and less than a step of it into a render.
ClockIsExact == InterpolationInRange /\ SimulatedTimeIsReal

\* The two ownership flags are exact on every path, the failing ones included:
\* frame_active says that a frame is in progress, and the states RUNNING and
\* STOPPING that a run is (both decide what run, frame and destroy refuse).
OwnershipIsExact ==
  /\ frameActive <=> InProgress({"frame"})
  /\ state \in {"RUNNING", "STOPPING"} <=> InProgress({"run"})

\* "Calling either [run or frame] from an engine hook or scene callback returns
\* AFORC_ERROR_STATE" (engine.h): neither begins inside another operation, but
\* for the frames of the run loop itself.
ExecutionIsOutermost ==
  \A i \in 2 .. Len(calls) :
    /\ calls[i].fn # "run"
    /\ calls[i].fn = "frame" => calls[i - 1].fn = "run"

\* A quit requested from a running engine ends the run loop, provided that
\* callbacks return and the application requests finitely many commands.
QuitStops == state = "STOPPING" ~> state = "STOPPED"

\* The command queue implements SceneCommands: one command at a time, first come
\* first served, and a failed command takes only its own requests with it ("on
\* failure, truncating back to retained_count discards only commands added by
\* that callback", engine_commands.c).
Applying == {i \in DOMAIN calls : calls[i].fn = "apply" /\ calls[i].pc = "wait"}
Applied  == calls[CHOOSE i \in Applying : TRUE]
Retained == IF Applying = {} THEN Len(queue) ELSE Applied.idx

Commands == INSTANCE SceneCommands WITH
  maxPending <- QueueCapacity,
  pending    <- SubSeq(queue, 1, Retained),
  active     <- IF Applying = {} THEN <<>> ELSE <<Applied.arg>>,
  spawned    <- SubSeq(queue, Retained + 1, Len(queue)),
  owned      <- alive,
  verdict    <- ret

CommandsInOrder == Commands!Spec

=============================================================================
