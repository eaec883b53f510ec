# A TLA+ development of AForc

AForc is a C17 library for terminal games: a scene stack and an engine that
drives it, an entity-component world, a POSIX terminal backend, an input
decoder, a renderer that sends differences, effects, world algorithms, widgets
and asset files. This directory holds TLA+ models of the library, the TLC
configurations that check them, and proofs for the TLA+ proof system.
`PROJECT.json` lists the components, the runs, the lines every definition
models, the hazards and the theorems.

Paths below are relative to the repository: `core/engine.c` is
`src/core/engine.c`, headers are in `include/aforc`.

## 1. Inventory

| part | state | operations | what is hard |
|---|---|---|---|
| scene stack (`core/scene.c`) | items, count, dispatching | push, replace, pop, dispose; update, fixed update, render and event walks | callbacks that call back into the stack; a rejected enter; a failing callback in the middle of a walk |
| engine (`core/engine.c`, `engine_commands.c`) | command queue, state, quit, clock, accumulator | create, destroy, run, frame, queue command, quit, dispatch event | the same with hooks; commands requested while commands run; time that saturates or stands still; ending the loop |
| ECS (`ecs/*.c`) | slots with generations and a free list, sparse sets, revision | create, destroy, clear entities; register, add, remove components; views | cleanups that change the world in the middle of a removal; stale handles; generations and revisions that run out; an add that fails half way |
| terminal (`platform/*.c`) | one handle, process-wide flags, self-pipe, handlers; the device's modes | open, poll, read, write, refresh, close, exit hook | signals between any two system calls; opens that fail at any stage; an output that blocks |
| input (`input/*.c`) | byte buffer, event queue, held keys with leases | begin_frame, feed, flush, poll, next_event, release_all | sequences cut by reads; timeouts against late bytes; a full queue or buffer |
| renderer (`render/*.c`) | front and back buffer, size, invalidated | drawing, resize, invalidate, present | a write that stops half way; a window that changes before it; gap bridging; strides |
| particle pool (`effects/particles.c`, `particle_emitter.c`) | slots, free bits, three caches of them | init, spawn, emit, kill, update, clear, dispose | caches that go stale |
| asset files (`assets/asset_file.c`) | files | load, store, atomic store | a power loss or kill between any two calls; two writers; a file at the limit of a load |
| paths (`assets/asset_path.c`) | none | validate, measure, join | two spellings of one file; a buffer one byte short |
| saved games (`assets/save_*.c`) | writer, container, reader | write and read items, finish, open | growth over own bytes; a container damaged on its way; failed reads |
| configuration (`assets/config_*.c`) | entries, an open-addressed index | parse, look up, dispose | collisions and rehashes; an allocation that fails anywhere |
| tweens, sprites, animation (`effects`) | values of the caller | start, update, sample, draw | steps over several frames; turns at the edge of the coordinates |
| world (`world/*.c`) | tile map, A\* workspace, camera | edits, A\*, field of view, rays, collision, camera | a workspace reused over maps that change; a heap whose nodes move; a stack that grows in the middle of a scan |
| UI (`ui/*.c`) | menu, focus, layout of the caller | layout, canvas, menu, focus, widgets | items that disappear between events; nested clips |
| PCG (`assets/pcg.c`), common, logging (`core/common.c`) | a number | checked arithmetic, allocation | none |
| the two example games (`examples`) | a game | a user of the library | saves that are loaded half way |

How they interact: the application calls `aforc_engine_run`; the engine polls
events through a hook, applies queued scene commands to the stack, walks the
scenes, and calls the hooks for begin and present. Scenes call the engine back.
A hook normally calls `aforc_input_poll`, which calls `aforc_terminal_poll` and
`aforc_terminal_read`, and `aforc_renderer_present`, which reads the terminal's
size and writes a batch. The ECS, the effects, the world and the UI are called
by scenes, and call nothing but the allocator and, the ECS, cleanup callbacks.
Everything runs in one thread; what interleaves are callbacks with the operation
that made them, signal handlers with the thread, the terminal and its user with
the process, and several processes over one file.

## 2. Modules

| module | models | role |
|---|---|---|
| `SceneStack` | `core/scene.c` | the stack and its callbacks |
| `Engine` (extends `SceneStack`) | `core/engine.c`, `engine_commands.c` | the engine around it |
| `SceneCommands` | comments of `engine_commands.c` | abstract command queue; `Engine` implements it |
| `SparseSet` | `ecs/component_store.c` | one component store as a value |
| `Ecs` (extends `SparseSet`) | `ecs/*.c` but `view.c` | the world of entities |
| `EntityStore` | `ecs.h` | abstract world; `Ecs` implements it |
| `EcsViews` (extends `Ecs`) | `ecs/view.c` | views over a world that changes |
| `Terminal` | `platform/*.c` | thread, handler, device |
| `InputState`, `InputParser`, `Input` | `input/*.c` | keys and queue; bytes and protocols; the calls and the terminal |
| `RendererAnsi`, `Renderer` | `render/*.c` | the encoder as operators; buffers, calls and the screen |
| `ParticlePool` | `effects/particles.c` and its header | the pool over a set of free slots, and the words of bits that hold it |
| `Effects`, `Sprite` | `effects/animation.c`, `tween.c`; `sprite.c` | states driven by time; drawing |
| `UiMenu`, `UiDraw` | `ui/menu.c`, `focus.c`; `layout.c`, `canvas.c`, `widgets.c`, `controls.c` | what the application keeps between events; what it draws |
| `TileMap` | `world/tilemap.c`, `world.c`, `collision.c`, `raycast.c` | maps and the queries without a state |
| `AStar`, `Fov` (extend `TileMap`) | `world/astar.c`, `fov.c` | one algorithm each, a round of its loop a step |
| `Camera`, `TileEditor` (extend `TileMap`) | `world/camera.c`, `tilemap.c` | a camera; a map under its edits |
| `World` (composes the four) | `world/*.c` | their callers |
| `AssetStore` | `assets/asset_file.c` | the atomic store over a file system that may lose its power |
| `AtomicFile` | `assets.h` | abstract file; `AssetStore` implements it |
| `AssetFiles` | `assets/asset_file.c`, `asset_path.c` | loads with a limit, and the plain store; paths |
| `SaveContainer`, `ConfigFile` | `assets/save_*.c`, `config_*.c` | saved games from the writer to the reader; the parser and its index |
| `Assets` | `assets/*.c` | the four above side by side, one per behaviour |
| `SceneStackProofs`, `EngineProofs`, `EcsProofs`, `TerminalProofs`, `InputProofs`, `AssetStoreProofs` | | theorems about the modules they are named after (section 5) |
| `WorldProofs`, `ToolkitProofs` | | theorems about `Camera` and `TileEditor`, and about `ParticlePool`, `Effects` and `UiMenu` |
| `MC*` | | instances for TLC, each of one or more modules |

`PROJECT.json` maps each definition to the lines it stands for. Conventions that
all of them share:

* **Callbacks.** A variable `calls` is the C call stack: records of the operations
  in progress and where each waits. The application may act when it is empty or
  when its top waits for a callback or a hook. So every public operation is tried
  inside every callback, to any depth the code allows.
* **Atomic stretches.** Between two callbacks, or between two system calls, one
  thread runs undisturbed; that stretch is one action.
* **Refusals.** A call that is refused by an argument check and changes nothing is
  left out where nothing depends on its status; one that changes a status some
  property reads is an action.
* **Applications.** Where the interesting workloads differ, a variable that never
  changes (`config`, `app`, `bare`, `viewed`) chooses one of several at the start;
  one run covers them all, and each stays small.
* **Parts that do not interact.** Effects, interface, world and assets are
  libraries of functions over states of the caller, who may use any of them
  without the others. Their runs choose one part per behaviour (`driven`,
  `caller`, `part`) and leave the others as they start, so that what is explored is
  the sum of the parts and not their product.
* **Ghosts.** A variable marked "not in the code" records history a property
  needs; no guard of the code's actions reads one.
* **Mutants.** Definitions commented as mutants, or named `X_Something` above `X`,
  are plausible bugs; each shows that a property can fail. Nothing else uses them.

### Scene stack and engine

`items` is `stack->items`, `open` says that it is initialized, `held` and `life`
count enters and leaves and remember which scenes are paused. An operation pushes
a record with the callback it waits for; `CallbackReturns` lets the callback
succeed or fail and continues after it. `flags` is each scene's propagation.

`Engine` adds its own operations to the same stack of calls. Time is the reading
of a clock that may stand still or jump forward and never goes back, since the
code takes a monotonic clock; `AccLimit` is the largest accumulator and
`IndexModulus` the width of `frame_index`. Left out: the pacing sleep, the log,
and `now` and `sleep` hooks that call the engine.

### ECS

A store is a record with dense entities, data, a sparse table and capacities;
`Ecs` keeps free list, generations and the revision. A cleanup is a record on
`calls` at which the application may do anything it could do outside.
Allocation failures after the first one of an operation are actions, since they
leave something behind. A view is a record with its driver store, cursor and
revision; the ghost `rows` holds what it has handed out.

### Terminal

`pc` stands between two system calls. A signal arrives (`pending`), is delivered
when it is not blocked, and runs the handler as one step; a wait it interrupts
returns `EINTR`. The device has the line discipline, the descriptor's flags, the
emulator's modes, a stack of keyboard protocols, and an output queue that a reader
may leave full. Best-effort sequences of writes (disabling modes) are one step
that may be refused; `lost` remembers what the device refused. `found`, which is not in
the code, is how high the stack of keyboard protocols was when the present open began.

### Input

A call is given any prefix of what the terminal still has to send. Times are the
distances to the deadlines (`Deadlines`), so the clock needs no bound. The two loops,
of the parser over its buffer and of a feed over its bytes, are tables of their turns
(`ParseTurns`, `FeedTurns`) over real bytes, since cutting them is the subject; a turn
that is not the last takes a byte, which bounds them. The numbers inside a sequence
are not cut at 32 bits, a deadline does not saturate at 64, and the clock's own
failure is left out.

### Renderer

`RendererAnsi` builds a batch of tokens (reset, clear, cursor, style, glyph) from
the two buffers, with the sizes in bytes that decide whether a gap is bridged.
`Present` is two steps, so that the window may change between the size that was
read and the write, and the write may stop after any token. The terminal obeys
tokens with automatic wrapping off, as `terminal_io.c` leaves it. Colours are part
of a style. A write that stops inside a token is left out, and so is what an
emulator makes of half an escape sequence.

### Particle pool

The free slots are a set, and the pool takes the lowest of them; the words of bits
that hold them are derived from it, and the two scans of the code over the words
are checked against their definitions on the set. Motion, cells, colours and the random generator are left out: no state the
properties speak of depends on them.

### Effects and interface

An animation is a list of durations and a ghost of the time played; `Advanced`
follows the loop of the code, and the property says what frame the whole time
leads to. A tween's sample is a fraction over duration^3, exact where the code
rounds. A sprite and a widget are drawn as sequences of plots, any of which may
fail; the glyph of a sprite's cell is its place in the storage. The items of a menu
are flags, which the application changes between two events. The multiplication
of a progress bar is modelled bit by bit, since it exists to avoid an overflow.

### World

A search step is one expansion of the loop of `aforc_pathfind_astar_workspace`: it takes the
head of the heap, relaxes its neighbours and moves their nodes; the workspace stays
from search to search and its nodes are told apart by `epoch`, which wraps at
`EpochLimit`. A request carries its map, so that maps change between two searches.
A field of view takes one task from its stack per step; the stack starts with
`InlineTasks` and grows in memory that may be refused. Predicates over tiles are
the sets of the tiles they hold of.

### Asset files

The file system is what POSIX lets a program count on: written data reaches the
disk at any time and surely by `fsync`; the entries of one directory change in
order and a power loss keeps a first part of the changes, at least those that were
synchronized (`journal` holds the states the directory may come back in). A writer
may be killed, calls may fail. The plain store, which the header calls neither
atomic nor durable, is in `AssetFiles`: it may stop at any byte, and a load finds
what it left.

### Paths, saved games, configuration

A path is a sequence of the characters the rules tell apart. A payload is a
sequence of bytes of `Base` values; the checksum of a container stands for what it
was computed from, so that what CRC-32 cannot tell apart is out of scope. A line of
a configuration is what the parser asks of it, in the order of its questions; the
hash is a parameter, given values that collide.

## 3. Runs

Every property of a passing run has a mutant that violates it.

| run | instance | questions |
|---|---|---|
| `core` | a bare stack and an engine: three scenes with three shapes of propagation; three configurations of commands, clock and both | the top alone is active, enters and leaves balance, walks reach whom the flags let them (`StackIsSound`) and nothing moves under a walk (`WalkIsStable`); no return into a destroyed engine (`NoUseAfterDestroy`); ownership flags exact on failing paths (`OwnershipIsExact`); no invented time and interpolation below 1 (`ClockIsExact`); commands in order (`CommandsInOrder`, a refinement); a quit ends the loop (`QuitStops`) |
| `ecs` | three entities, two types, three generations, eight revisions; or two entities and a view | sparse sets and free list (`TablesAreExact`); a cleanup's component stays while it runs and goes right after it (`CleanupIsHonoured`); visible changes are dated (`ChangesAreDated`); handles never come back (`KeepsPromise`, a refinement); rows are of the present world (`RowsAreOfNow`) and none is skipped (`NothingIsSkipped`) |
| `terminal` | two modes, two opens, three signals, a pipe of one marker | no lost wake-up, in a state (`NoLostWakeup`) and in time (`PollWakes`); no forgotten resize (`ResizeIsRemembered`); no signal kills a raw terminal, nothing that was set stays set, and a restoration pops exactly what the open pushed (`DeviceIsRestored`) |
| `input` | every pair of seventeen reports; a queue of three; a silent terminal | cutting does not matter (`ReadsMayBeCut`); the parser is never stuck (`ParserNeverStalls`); the events tell what is held and explicit releases are not invented (`KeysAreHonest`); nothing waits for ever (`WaitsEnd`) |
| `renderer` | rows of three and four cells with every frame over them; a row of two with two faults; rectangles and texts over the edges of surfaces that are resized | the screen shows the front buffer whenever it can be known to (`ScreenShowsFront`); bridging pays (`BridgesPay`); drawing clips and resizing keeps the overlap (`SurfaceIsExact`) |
| `toolkit` | a pool of four particles; seven lists of frames; tweens; sprites; menus of four items; widgets and layouts; searches on seven maps with an epoch that wraps; sight over forty-eight maps; rays over five; cameras; an editor | caches exact (`CachesAreExact`) and scans over words agree with the set (`ScansAreExact`); what plays follows its clock (`EffectsFollowClock`); a sprite is its picture painted forwards (`SpriteShowsImage`); a menu follows items that change (`MenuFollowsItems`); panes tile and a clip only cuts (`InterfaceFits`); a search in a used workspace is a shortest path and its heap is sound (`SearchIsExact`); no cell in sight is missed (`SightIsComplete`); a ray stops at the nearest wall its line touches (`RayStopsFirst`); a centered target is on the screen (`TargetIsOnScreen`); no edit runs over into another row or layer (`CellsHoldLastEdit`) |
| `assets` | two writers, four files, two crashes; paths of four characters below ten roots; files around every limit; games of two items; documents of five lines | the destination is whole after any crash (`DestinationIsWhole`) and no confirmed store is undone (`ReplacesAtomically`, a refinement); one accepted path names one file, and what is joined leads there from where the root leads (`PathsStayInside`); what is saved comes back, or is refused: damaged, of another version or of a schema that was not asked for (`SaveRoundTrips`); loads and documents are taken whole or not at all (`InputsAreExact`) |
| `engine_reentry`, `terminal_write_wakeup`, `terminal_rollback`, `input_paste`, `world_shadows` | as above | five statements of the documentation that the code does not keep (section 6) |

Properties that ask one question of a run are conjunctions of named parts, each
stated and commented in its module.

Why the bounds are enough:

* Scenes: three distinct propagation shapes exist that differ in what a walk does
  (stop, pass some, pass all). A stack of two of three scenes is full, and has a top
  and a covered scene to replace, pop and reject over.
* Engine: a queue of two and three requests reach a full queue, a request from the
  callback of a failing command, and a command behind it. A step of two units, six
  readings and an accumulator limit of four reach a partial step, a backlog, a
  frame that fails with one, and saturation.
* ECS: a swap-removal has the cases first, last and only, for which three entities
  are enough; three generations are first life, second life and the retired one;
  eight revisions let two entities live twice and then run out, so that the limit
  is met in every operation. A view needs two entities to skip or repeat one.
* Terminal: one marker in the pipe meets the full pipe, three signals are a
  resize, a terminating signal and one more while the first is handled.
* Input: two reports meet every boundary between one and the next, and the reads
  cut every byte of both. The timeouts of one unit distinguish before, at and after.
  The byte buffer is 12 and the longest accepted sequence 12 instead of 64: the
  smallest buffer the code accepts. `InTime` prunes, for the workloads that are about cutting,
  behaviours in which a deadline passes; the other workloads keep them.
* Renderer: a bridged gap needs a changed cell, one or two unchanged ones and a
  changed one again, which a row of four has. Two faults are a torn write and a
  change of the window, or a torn write and a second one.
* World: three searches with `EpochLimit` 2 bring every epoch round while nodes of
  the first search are still in the workspace; the maps make a node's cost fall
  after it was opened, close a goal off, and hide a corner. A stack of one task
  grows at the first split. Rays between all cells of a map of four by five meet
  every slope up to four. Views of odd and even sizes are larger and smaller than the
  maps.
* Effects: four slots have a lowest, a highest and two between, so that a hole may
  be filled or left; steps of three pass over one to three frames of a list; a clock of
  seven overruns every duration. Sprites of one to three cells are enlarged, turned
  and cut at the ends of the coordinates -4..3, and layouts at those of -8..7.
* Interface: four items are two enabled around two disabled in any order, with
  fewer rows than items; canvases nest to a depth of two and overlap at a corner.
* Assets: two writers, and a crash after a crash; roots that are empty, relative,
  absolute, lead out of themselves, are refused, or end in a name, in a separator or
  in a backslash; sizes one below, at and one above
  each limit and block; two items of which one grows the payload over its own
  bytes; five lines fill an index of two slots past its rehashes, with keys that collide
  before and after them.

Deadlock is checked but in `terminal`, `terminal_write_wakeup` and `terminal_rollback` (a killed or exited
process stops, and a writer whose reader has stopped waits for ever), and in
`world_shadows`, `toolkit` and `assets`, where a behaviour ends with its one ray, sight,
load or path, or when its searches, files or time run out.

## 4. Fairness

* `FairEngineSpec`: scene callbacks return and the engine takes its steps (weak
  fairness: the code runs in one thread that the system schedules), and hooks return
  (strong, because a hook may call the engine any number of times before it does).
  Nothing is assumed of the application, which may do nothing for ever between two
  calls. `QuitStops` also rests on the bound of requests: an application that queues
  a command from every enter keeps `aforc_engine_apply` busy for ever, and the code
  has no limit against it.
* Terminal: weak fairness of the thread's own steps. Input need not come, and the
  reader of the output promises nothing; a write that waits for it is not a step
  the thread can take.
* Input: time passes while a deadline lies ahead, and the application polls again
  and again. The second is written `[]<>~PollCanReturn \/ []<><<Poll>>_callVars`,
  the weak fairness of `Poll` with the condition under which a poll can return
  written out; TLC would otherwise search all of `Poll` to find it enabled.

## 5. Proofs

Each theorem holds for every value of the constants that the assumptions its
module states about them allow.

`SceneStackProofs` proves for any finite or infinite set of scenes, any flags and
any capacity what the run `core` checks on three. The inductive invariant is

    IInv == DataOK /\ CallInv /\ LifeInv /\ HeldInv

It speaks of the operation of the stack in progress wherever it stands among the
calls, so that the same invariant and the same lemmas serve a bare stack and one
that an engine drives; `Caller(c)` says that `c` adds none of its own.

* `CallInv`: `dispatching` holds exactly when an operation of the stack is in
  progress, and there is never a second, so a callback can start nothing. What the
  record of that operation says of the stack holds (`ReliesOn`): its scene is the
  one to enter, its index is on the stack, and every scene above a walk's index
  let the walk through.
* `LifeInv`, `HeldInv`: the lifecycle of every scene between and in the middle of
  operations, from which `OnlyTopActive` and `LeavesMatchEnters` follow.

The properties alone are not inductive: in the middle of a replace the old top has
left and the new one has not entered, and only the call record tells. That a bare
stack has no other calls (`Bare`) gives `TypeOK` and `OneOperation` besides. `First`
is a least index; that it exists is proved from the well-foundedness of the naturals
(`LeastElement`). The theorems assume `SceneAssumption` of `SceneStack` alone.

`EngineProofs` proves for every configuration, any scenes and any number of frames,
runs, requests and nested calls, from `EngineAssumption` and, for the stack, from
`SceneAssumption`, all that the run `core` checks of the engine but liveness. Four invariants follow one another:

* `WellNested`: what may be in progress within what. No operation is in progress
  twice, a destruction is the outermost call, an apply is in a frame, a run is in no
  frame. The records of the scene stack are in the same list, and `Own` leaves them
  out, so that one lemma says of every step of the stack that it keeps the rest.
* `OwnershipInv`: `frame_active` says that a frame is in progress and RUNNING or
  STOPPING that a run is, on the paths that fail too. `OwnershipIsExact` and
  `NoUseAfterDestroy` follow.
* `ClockInv`: the accumulator and the ticks together never exceed the time between
  the first reading and the last, and what each frame in progress still owes is
  what its record says (`ClockOf`).
* `QueueInv`: an apply in progress stands within the queue, from which each step is
  a step of `SceneCommands` or a stutter.

With them goes `IInv` of the scene stack: every step of the engine begins an operation
of the stack, returns into one, or is none of its business (`StackStep`), so that
`StackIsSound` and `WalkIsStable` hold of the stack in the engine, reentrant frames
included. TLC finds no violation of `IInv` in the run `core`.

`EcsProofs` proves everything the run `ecs` checks, for any number of entities,
types, generations, revisions, reservations and values, from `EcsConfiguration`:

    IInv == WorldInv /\ CallInv

* `SlotsOK`: an index whose slot is alive can be reused, the count is the number of
  those alive, and the unused slots are `Linked` from the head of the free list. A
  list is linked when its slots can be ranked so that every link goes down; a least
  rank ends the list and a greatest unreached one contradicts it, so that
  `FreeListIsExact` needs no induction over the list (`ListIsExact`).
* `StoresOK`: in every store, dense entities and sparse cells lead to each other
  (`CellsMatch`), and all its members are alive. The swap that fills the hole of a
  removal is one lemma, wherever the victim stands.
* `CallOK`: the operation in progress leaves nothing of its entity behind it, its
  victim is still where it was found, and an entity in a removal is alive.

What each operation does to the rest of the world is stated once
(`KeepsComponents`, `BringsComponent`, `TakesComponent`), and the refinement of
`EntityStore`, `CleanupIsHonoured` and `ChangesAreDated` are read from it. For views,
`ViewInv` adds to this that a view made at the present revision has handed out
exactly those candidates before its cursor that match (`Positioned`): a step that
changes no revision changes nothing that a view can see.

`TerminalProofs` proves the three invariants of the run `terminal` for any list of
modes, any pipe and any number of signals and opens, from `TerminalConstants`, whose
one condition beside types is that no mode is configured twice (`terminal_io.c`
tests one flag for each):

    IInv == TypeInv /\ PhaseInv /\ WakeInv /\ SizeInv /\ CleanInv /\ ProtocolInv

`PhaseInv` says what of the handle and of the process is set up between any two
system calls; `WakeInv` that a recorded signal has a marker in the pipe unless the
poll has just read it; `SizeInv` where the news of a resize is; `CleanInv` which of
the changes made to the device the handle still knows of, per stage of an open or a
restoration, and that the refusals of the device account for the rest (`lost`);
`ProtocolInv` how high the stack of keyboard protocols is against what the open found,
mode by mode while it is opened, exactly once it is restored, and never lower than
one for each open.

`InputProofs` proves everything the run `input` checks but liveness, for any buffers,
queues, timeouts, streams and cuts, from `InputStateConstants`, `InputParserConstants`
(a sequence is at least six bytes long) and `InputConstants`. The state is one object,
so each function of `input.c` is shown to keep what the next one needs:

* `Keeps`: the object stays `WellFormed`, and for a reader who had heard of everything
  held (`Honest`), the events queued on the way tell the difference. `Stays` adds that
  only time and queue changed, `ParsesAll` what an attempt to parse consumes.
* `Resting`, the state between two calls: what is buffered is less than
  `SequenceLimit` and has a deadline exactly when there is something. It follows for
  every loop turn, because an attempt that waits waits for one sequence, so that a full
  buffer always parses and the overflow of `FeedBytes` is never reported.

`InputInv` is `Resting`, `Honest` for the ghost reader, and types; `ParserNeverStalls`
and `KeysAreHonest` follow. `ReadsMayBeCut` compares two histories, and its invariant
(`CutInv`) says of an undisturbed object that it is what a new one becomes that is
given all the bytes so far at once (`Recalls`), equal in all but its clocks (`Twin`).
It rests on three facts about the parser, proved command by command:

* an attempt does the same to twins (`ParsedAgree`);
* an attempt on a longer buffer consumes the same and does the same, or the shorter
  one waits (`Extends`), unless the sequence is overlong;
* parsing what came, adding the rest and parsing again is parsing it all at once
  (`ParsedApart`, by induction over the number of bytes buffered).

`AssetStoreProofs` proves `DestinationIsWhole` and the refinement of `AtomicFile`
for any number of writers, files, writes and crashes, from `StoreConstants`. The
first needs only that a file about to be renamed is on the disk (`SyncedInv`). The
second rests on

    FileInv == TypeInv /\ InstalledInv /\ JournalInv /\ OwnInv

* `InstalledInv`: no file is installed twice, so that a file has one place in the
  sequence of the contents installed.
* `JournalInv`: each state the directory may come back in leads to an installed
  file, a later state to one that is not earlier, and the last one to the last.
* `OwnInv`: a file that is being written belongs to one writer and was never
  installed; one whose writer is about to report success lies not behind the place
  the oldest state of the directory leads to (`Safe`). It is where the
  synchronization of the directory is needed: without it a confirmed store may
  still be lost.

`settled` maps to the place of the file the oldest state leads to. A rename is an
`Install`, a synchronization of the directory a `Settle`, the end of a call that
succeeded a `Confirm`, a power loss a `Crash`, and all else a stutter.

It proves `PathsStayInside` for every set of paths and roots, all policies and buffers,
from `PathConstants`: the components of a path are what the loop of the validation
cuts it into (`PartsOf`, by induction over its beginnings), no two paths have the same
ones (`ComponentsTellPaths`: the last character tells how the components of the
beginning before it were extended), and none of them holds a separator (`PartsShape`).
The components of what a separator joins are those of the two (`ComponentsOfJoin`, by
induction over the second), an empty component leads nowhere else
(`WalkOverSeparator`), and from wherever it is a file system walks down the components
of an accepted path one by one (`WalkOnPlain`): so the joined text leads to where the
root leads, and on along the path, whether the root is empty, ends in a separator or is
given one (`JoinedLeadsOn`). Only for a root that ends in a backslash the property says
no more than that the path is put after it (section 6). And it proves `LoadIsWhole`, the part of `InputsAreExact` that is about
files, from `LoadConstants`: the loop that grows a block ends above what is asked for
and within the limit (`CapacityGrows`, by induction over its turns), and a load has read
all of its block, or is at the end of a file that does not change (`LoadInv`).

The other part, `ConfigIsExact`, it proves for every hash, every document and every
capacity that doubles from two slots on. `ConfigInv` says what the parser holds: the
pairs of the lines read so far (`PairsGrow`), no two with the same key, and an index
that serves them (`IndexServes`). Of the index it says (`IndexOK`) that each entry is in
one slot and that no slot before it on its probe is vacant. A probe comes to every slot
(`ProbeReaches`), and there is a vacant one by the pigeonhole principle (`VacantLeft`):
so probes end, an entry that is put in leaves the others where they are found
(`InsertKeeps`), a lookup finds exactly the entries (`ContainsIs`), and an index that is
built again is one of the same entries (`ReserveGives`). The blocks are counted at every
allocation, so that a failure leaves none behind (`FailKeeps`).

And it proves `SaveRoundTrips` for every base of a byte, every width, item, limit and
schedule of failures, from `SaveConstants`. The codec comes first, digit by digit:
what is loaded and stored again is the same bytes (`StoredLoaded`), what is stored and
loaded again the same value (`LoadedStored`), a signed value and its bits tell each
other (`SignedTells`), and so items of one type and length with the same bytes are the
same (`EncodedTells`). A sequence of items whose encoding begins another's, with its
types and lengths, is its beginning (`ItemsTell`, by induction over the items). The
invariant `SaveInv` says that a payload encodes what was written, within a block grown
by the loop above; that a container which the reader's checks accept still has the
payload of the items that were saved (`DamageKeeps`, one case for each change on its
way, a header that another program sealed included); and that what was taken encodes to
what lies before the cursor. It takes CRC-32 to tell any two contents apart, as the
model does.

`WorldProofs` proves `TargetIsOnScreen` for all sizes up to the range of the
coordinates. A camera that was centered keeps the origin its clamp gave it
(`CameraInv`), and one lemma about one axis (`ClampedAxis`) covers maps narrower and
wider than the view, odd views and targets at either edge. It proves
`CellsHoldLastEdit` for maps of any size: an index is a number with the column, the
row and the layer as its digits, so that digits are unique (`Digits`), no two cells
share an index, and a run of a fill that stays in its row covers its own cells only
(`RowRun`, `LayerRun`). Each write is shown to change the cells it covers and no other
(`Writes`).

`ToolkitProofs` proves `CachesAreExact` and `NeverCorrupt` for every capacity and all
lifetimes, steps and requests, from `PoolConstants`. The strengthening adds that an
active particle has time left, that a running emit has room for what it owes, and
that the pool's own check `Ready` follows from exact caches; the count is handled
with the theorems on finite cardinalities. It proves `MenuFollowsItems` for menus
of any length, any number of rows and any change of the items between two events:
what lies between an item and the one that down leads to is disabled seen from
either end, also round the end of the menu (`DownThenUp`).

It proves `ScansAreExact` for every capacity and words of any size: what a scan returns
at a word is what there is to find from that word on (`FoundAtWord`), or up to it
(`EndAtWord`), by induction over the words, each a step of the loop; the masks leave
what lies from the start of the first word and before the end of the last one
(`FromWordLies`, `ToWordLies`), and the lowest and the highest bit of a word are the
ones the bit loops find (`LowestSetBitIs`, `HighestSetBitIs`).

It proves `EffectsFollowClock` for every list of frames, mode, duration, easing and
size of the updates, from `AnimationConstants` and `TweenConstants`. What a cycle
shows, when each frame of it begins and how long it takes is a course (`CourseOf`);
the way back of a ping-pong takes as long as the inner frames it goes back over
(`BackTakes`), so that the code's two passes less the first and the last frame are the
end of the cycle (`CycleTakes`). The inductive invariant `AnimationInv` is that a
ready animation is on its course (`OnCourse`): it faces the k-th frame for the
(q+1)-th time and has run for q cycles, the beginning of the frame and the time the
frame has been shown, or it was played once and ended. One turn of the loop keeps it
there (`AdvancedFollows`) and takes time unless none is left
(`AdvanceTakes`), so that the loop ends within the time it was given, and dropping
whole cycles makes no difference (`CyclesRepeat`). That no frame of an accepted
list is empty, a zero behind an overflow of the sum included, is `NoFrameIsEmpty`.
For the curves, each easing starts and ends on its ends (`EasedEnds`) and rises
(`EasedRises`), across the middle too (`HalvesMeet`).

Only model-checked, and why: liveness (`QuitStops`, `PollWakes`, `WaitsEnd`), which
needs `ENABLED`; most of what is computed by recursion or folding over data (renderer
batches, heaps, shadow casting, rays), which would need induction over data; and, so
far, the widgets and layouts, and the renderer's `ScreenShowsFront`, whose batches are
folded over rows.

## 6. Where the code and its documents differ

Shown by a run:

* `engine_reentry`: engine.h says that run and frame return
  `AFORC_ERROR_STATE` from any hook or scene callback; an event callback dispatched
  outside a frame, and a leave callback run by destroy, may begin both.
* `terminal_write_wakeup`: terminal_io.c says that the signal bridge interrupts a
  write's wait; the wait polls the output alone, and a signal recorded just before it
  is not noticed.
* `terminal_rollback`: terminal_posix.c says that the rollback of an open unwinds only
  stages already committed; an open that fails between the change of the line
  discipline and the push of the keyboard protocol pops one all the same, and the
  protocol of whoever started the program is gone. `ClosedIsClean` says what does hold:
  at most one for each open.
* `input_paste`: input_parser.c says that a partial paste terminator never leaks as
  text; it does when its bytes come more than the escape timeout apart.
* `world_shadows`: world.h says that cells behind opaque ones are shadowed; a task
  whose span of slopes a wall has emptied goes on with it, and marks a cell in the
  next row that walls hide. No cell that is in sight is missed (`SightIsComplete`).

Observed in the models, not stated as runs:

* engine.h: "A quit request skips remaining frame work". A quit requested while
  rendering still presents.
* engine.c answers a clock that goes back with no elapsed time, but takes the lower
  reading as the new base line, so the next frame gains the difference. A
  monotonic clock never does this, and the model has none that does.
* terminal.h says that an interrupted write restores the terminal. If the signal
  interrupts `write` itself, `write_fd` reports an I/O error and the terminal
  stays raw until it is closed.
* An open writes its sequences with the managed signals blocked and waits without
  a timeout, so that no signal ends it while the reader of the terminal has stopped.
* A `tcsetattr` that a second signal interrupts is not tried again:
  `termios_changed` is cleared before its result is known. `ClosedIsClean` therefore
  excuses it through `lost`.
* The exit hook pops the keyboard protocol whenever a handle is active, once more
  after a call that has already restored the terminal, and also when the configuration
  does not select it.
* `aforc_input_release_all`, which returns nothing, and a poll whose read fails may
  drop events without reporting it. input_parser.c says that sequences may span
  reads; a control sequence without a final byte within the limit is given up at
  another byte when reads cut it differently. `ReadsMayBeCut` says that only such a
  one is (`Overlong`).
* asset_path.c takes a `\` at the end of a root for a separator and adds no `/`. Where
  only `/` separates, the root `r\` and the path `a` make `r\a`, a file beside the root
  and not below it. assets.h trusts the root and does not normalize it, and says
  nothing of how it has to end, so that `PathsStayInside` states this case apart.
* docs/ARCHITECTURE.md says that the renderer emits only changed cells; it also
  emits unchanged ones where that is shorter (`BridgesPay`).
* A window that shrinks and grows back between two presents is not noticed, because
  only the sizes at the two presents are compared; what the terminal dropped is drawn
  again only after `aforc_renderer_invalidate`.

## 7. Plan

Done: scene stack and engine; ECS and views; terminal; input; renderer; effects;
interface; world; assets; proofs for the scene stack, the engine, the ECS and its
views, the terminal, the input, effects, the assets, cameras, edits and menus. Next, in this order:

1. Proofs: the clip of a canvas and the panes of a layout (`InterfaceFits`);
   `SurfaceIsExact` of the renderer.
2. The roguelike's load, which has to replace a whole game or leave it alone, over
   `SaveContainer`.
3. The two hazards without a property, should the library promise something about
   them: an open that waits for a reader that has stopped, and a window that shrinks
   and grows back between two presents. A writer that stops inside a token needs a
   terminal that parses half an escape sequence.

## 8. Not modelled

Logging and allocation helpers hold no state. The rules of the two games are their
own. CRC-32 and PCG are arithmetic that test vectors settle. The contents of draws,
wording, key names and colour channels do not matter to any property above. Calls
with `NULL` or with enumerators that do not exist are refused before anything
happens, and are left out. The signal handler is one step: the thread does not run
beside it, and a handler that interrupts another sets its own flag and writes its
own marker, as it would before or after it. Failures of `tcsetattr` other than
`EINTR`, and of `sigaction` during restoration, are left out. Floating point is
exact: the curves of a tween are compared as fractions, and rounding is left to
the tests.
