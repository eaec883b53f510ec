------------------------------ MODULE MCCore --------------------------------
(***************************************************************************)
(* The core, one of two ways: an application that drives a bare stack of   *)
(* three scenes, or small engines with an overlay that lets updates and    *)
(* events through, and a world.                                            *)
(***************************************************************************)
EXTENDS Engine, TLC

CONSTANTS overlay, menu, world

VARIABLE bare   \* the application uses the stack without an engine

coreVars == <<vars, bare>>

MCFlags ==
  overlay :> {"render", "update", "events"} @@ menu :> {"render"} @@ world :> {}

Config(queueSize, quits, step, most, updates, scenes, time, requests) ==
  [queueCapacity |-> queueSize, quitWhenEmpty |-> quits, step |-> step,
   maxFrameTime |-> most, maxUpdates |-> updates, scenes |-> scenes, maxTime |-> time, maxRequests |-> requests]

\* Three commands and a clock that stands still; a clock of two units to a step
\* and one scene; a queue of one beside a moving clock.
MCConfigs ==
  {Config(2, TRUE, 1, 1, 1, {overlay, world}, 0, 3), Config(1, FALSE, 2, 4, 1, {world}, 5, 1),
   Config(1, TRUE, 1, 1, 1, {world}, 1, 2)}

CoreInit ==
  /\ EngineInit
  /\ bare \in BOOLEAN
  /\ bare => config.maxTime = 0

CoreNext ==
  /\ UNCHANGED bare
  /\ \/ bare /\ Next /\ UNCHANGED engineVars
     \/ ~bare /\ EngineNext

CoreSpec     == CoreInit /\ [][CoreNext]_coreVars
FairCoreSpec == CoreSpec /\ EngineFairness
=============================================================================
