------------------------------ MODULE Terminal ------------------------------
(***************************************************************************)
(* The POSIX terminal backend, src/src/platform: one terminal handle, the  *)
(* process-wide signal bridge, and the terminal device whose modes both    *)
(* change and restore.                                                     *)
(*                                                                         *)
(* The program is one thread, and pc says where it stands between two      *)
(* system calls.  A managed signal may be delivered at any of those points *)
(* unless it is blocked; the handler runs as one step, and if the thread   *)
(* is waiting in a system call that call fails with EINTR.  "winch" stands *)
(* for SIGWINCH and "term" for the four terminating signals.               *)
(*                                                                         *)
(* The device: its line discipline and the descriptor's flags, the         *)
(* emulator's modes, a stack of keyboard protocols of which depth is the   *)
(* height above what the program found, and an output queue that a slow    *)
(* reader may leave full.  Input and output may share one description, so  *)
(* that O_NONBLOCK set for the one holds for the other.                    *)
(***************************************************************************)
EXTENDS Integers, FiniteSets, Sequences, Functions

CONSTANTS
  Modes,        \* the modes the configuration selects, in order of enabling
  Keyboard,     \* the one of them that is pushed and popped
  PipeSize,     \* how many markers the self-pipe holds
  Sizes,        \* the window's sizes
  MaxSignals,   \* bound: how many signals arrive
  MaxOpens      \* bound: how many opens are begun

ASSUME TerminalConstants ==
  /\ PipeSize \in Nat \ {0} /\ MaxSignals \in Nat /\ MaxOpens \in Nat
  /\ Sizes # {}
  /\ Modes \in Seq(Range(Modes))
  /\ \A i, j \in 1..Len(Modes) : Modes[i] = Modes[j] => i = j

Signals == {"winch", "term"}

VARIABLES
  process,      \* "running", "exited" or "killed"
  pc,           \* where the thread stands
  caller,       \* who called restore_runtime
  k,            \* the next mode or action of a loop
  result,       \* what the last call returned
  terminal,     \* the handle: what the open has committed so far
  global,       \* the process-wide state of terminal_signals.c
  pipe,         \* the markers in the self-pipe
  handlers,     \* the signals whose action is the backend's
  blocked,      \* the managed signals are blocked
  pending,      \* arrived and not delivered
  eintr,        \* the system call the thread waits in was interrupted
  arrivals,     \* how many signals have arrived
  opens,        \* how many opens have begun
  device,       \* the terminal device
  backlog,      \* its output queue is full
  lost          \* what the code was refused and did not retry; not in the code

control == <<pc, caller, k, result>>
counts  == <<arrivals, opens>>
bridge  == <<global, pipe, handlers, blocked>>
world   == <<pending, eintr, counts>>
tty     == <<device, backlog, lost>>
termVars == <<process, control, terminal, bridge, world, tty>>

\* open and found, the height of the protocols when the open began, are not in
\* the code.
NoTerminal == [termios_changed |-> FALSE, flags_changed |-> FALSE,
               modes_enabled |-> FALSE, active |-> FALSE, restored |-> FALSE,
               open |-> FALSE, size |-> 0, marker |-> FALSE, resize_pending |-> FALSE,
               found |-> 0]

NoBridge == [active |-> FALSE, pipe |-> FALSE, resize |-> FALSE,
             signal |-> FALSE, atexit |-> FALSE]

Init ==
  /\ process = "running"
  /\ pc = "idle" /\ caller = "none" /\ k = 1 /\ result = "ok"
  /\ terminal = NoTerminal /\ global = NoBridge
  /\ pipe = 0 /\ handlers = {} /\ blocked = FALSE
  /\ pending = {} /\ eintr = FALSE
  /\ arrivals = 0 /\ opens = 0
  /\ device \in [raw : {FALSE}, nonblock : {FALSE}, on : {{}}, depth : {0},
                 size : Sizes, shared : BOOLEAN]
  /\ backlog = FALSE /\ lost = {}

Goto(label)  == /\ pc' = label /\ UNCHANGED <<caller, k, result>>
Return(what) == /\ pc' = "idle" /\ caller' = "none" /\ k' = 1 /\ result' = what
At(label)    == process = "running" /\ pc = label
Enter(label) == pc' = label /\ caller' = "none" /\ k' = 1 /\ UNCHANGED result

\* restore_runtime is called, and goes on to next.
CallRestore(next) == /\ pc' = "restore" /\ caller' = next /\ UNCHANGED <<k, result>>

-----------------------------------------------------------------------------
(* Signals *)

\* The system calls a signal interrupts: poll, and whatever waits for the
\* output queue, a write or the tcsetattr that drains it first.
Waiting == \/ pc = "poll_wait"
           \/ pc \in {"write_wait", "restore_termios", "exit_termios"} /\ backlog
           \/ pc = "write_call" /\ backlog /\ ~device.shared

Arrive(s) ==
  /\ process = "running"
  /\ arrivals < MaxSignals
  /\ arrivals' = arrivals + 1
  /\ pending' = pending \cup {s}
  /\ UNCHANGED <<process, control, terminal, bridge, eintr, opens, backlog, lost>>
  /\ \/ s = "winch" /\ \E size \in Sizes : device' = [device EXCEPT !.size = size]
     \/ s = "term" /\ UNCHANGED device

\* Mutant: only a terminating signal leaves a marker.
Handle_ResizeSilent(s) ==
  /\ global' = IF s = "winch" THEN [global EXCEPT !.resize = TRUE]
                              ELSE [global EXCEPT !.signal = TRUE]
  /\ pipe' = IF global.pipe /\ pipe < PipeSize /\ s = "term" THEN pipe + 1 ELSE pipe
  /\ eintr' = Waiting
  /\ UNCHANGED process

\* aforc_terminal_signal_handler
Handle(s) ==
  /\ global' = IF s = "winch" THEN [global EXCEPT !.resize = TRUE]
                              ELSE [global EXCEPT !.signal = TRUE]
  /\ pipe' = IF global.pipe /\ pipe < PipeSize THEN pipe + 1 ELSE pipe
  /\ eintr' = Waiting
  /\ UNCHANGED process

\* The action the program had before: SIGWINCH is ignored, the others end it.
Default(s) ==
  /\ process' = IF s = "term" THEN "killed" ELSE process
  /\ UNCHANGED <<global, pipe, eintr>>

Deliver(s) ==
  /\ process = "running"
  /\ s \in pending /\ ~blocked
  /\ pending' = pending \ {s}
  /\ IF s \in handlers THEN Handle(s) ELSE Default(s)
  /\ UNCHANGED <<control, terminal, handlers, blocked, counts, tty>>

\* The reader of the output catches up.
Drain ==
  /\ process = "running"
  /\ backlog
  /\ backlog' = FALSE
  /\ UNCHANGED <<process, control, terminal, bridge, world, device, lost>>

-----------------------------------------------------------------------------
(* Device operations *)

Turn(mode, dev) ==
  [dev EXCEPT !.on = @ \cup {mode},
              !.depth = IF mode = Keyboard THEN @ + 1 ELSE @]

\* Disabling a set of modes; a pop counts whether or not anything was pushed.
TurnOff(modes, dev) ==
  [dev EXCEPT !.on = @ \ modes,
              !.depth = IF Keyboard \in modes THEN @ - 1 ELSE @]

\* emit_modes(false): each sequence is written with best effort, and a full
\* queue may take any of them or none.
Disable(all, dev) ==
  \E modes \in SUBSET all :
    /\ ~backlog => modes = all
    /\ device' = TurnOff(modes, dev)
    /\ lost' = IF modes = all THEN lost ELSE lost \cup {"modes"}

-----------------------------------------------------------------------------
(* aforc_terminal_open *)

\* The checks of the arguments and the allocation precede; block_signals.
Open ==
  /\ At("idle")
  /\ opens < MaxOpens
  /\ opens' = opens + 1
  /\ IF global.active
     THEN /\ Return("exists")
          /\ UNCHANGED <<terminal, blocked>>
     ELSE /\ Enter("open_snapshot")
          /\ terminal' = [NoTerminal EXCEPT !.open = TRUE, !.found = device.depth]
          /\ blocked' = TRUE
  /\ UNCHANGED <<process, global, pipe, handlers, pending, eintr, arrivals, tty>>

OpenFails == /\ pc' = "undo_termios" /\ result' = "error" /\ UNCHANGED <<caller, k>>

\* tcgetattr, F_GETFL, the self-pipe, the dimensions and prepare_signal_state.
OpenSnapshot ==
  /\ At("open_snapshot")
  /\ \/ /\ Goto("open_actions")
        /\ terminal' = [terminal EXCEPT !.size = device.size]
        /\ global' = [global EXCEPT !.pipe = TRUE, !.resize = FALSE, !.signal = FALSE]
        /\ pipe' = 0
     \/ OpenFails /\ UNCHANGED <<terminal, global, pipe>>
  /\ UNCHANGED <<process, handlers, blocked, world, tty>>

\* install_actions stops at the first sigaction that fails.
OpenActions ==
  /\ At("open_actions")
  /\ \/ handlers' = Signals /\ Goto("open_termios")
     \/ /\ \E some \in SUBSET Signals : some # Signals /\ handlers' = some
        /\ OpenFails
  /\ UNCHANGED <<process, terminal, global, pipe, blocked, world, tty>>

OpenTermios ==
  /\ At("open_termios")
  /\ \/ /\ ~backlog
        /\ device' = [device EXCEPT !.raw = TRUE]
        /\ terminal' = [terminal EXCEPT !.termios_changed = TRUE]
        /\ Goto("open_flags")
     \/ OpenFails /\ UNCHANGED <<device, terminal>>
  /\ UNCHANGED <<process, bridge, world, backlog, lost>>

OpenFlags ==
  /\ At("open_flags")
  /\ \/ /\ device' = [device EXCEPT !.nonblock = TRUE]
        /\ terminal' = [terminal EXCEPT !.flags_changed = TRUE]
        /\ Goto("open_modes")
     \/ OpenFails /\ UNCHANGED <<device, terminal>>
  /\ UNCHANGED <<process, bridge, world, backlog, lost>>

\* emit_modes(true), one sequence at a time.  A write that fails may have put
\* out the whole sequence or only a part.
OpenModes ==
  /\ At("open_modes")
  /\ k <= Len(Modes)
  /\ \/ /\ ~backlog
        /\ device' = Turn(Modes[k], device)
        /\ k' = k + 1
        /\ UNCHANGED <<pc, caller, result>>
     \/ /\ device' \in {device, Turn(Modes[k], device)}
        /\ OpenFails
  /\ UNCHANGED <<process, terminal, bridge, world, backlog, lost>>

\* modes_enabled, the exit hook, activate_process_state, and the signals are
\* unblocked.
OpenActivate ==
  /\ At("open_modes")
  /\ k > Len(Modes)
  /\ \/ /\ terminal' = [terminal EXCEPT !.modes_enabled = TRUE, !.active = TRUE]
        /\ global' = [global EXCEPT !.active = TRUE, !.atexit = TRUE]
        /\ blocked' = FALSE
        /\ Return("ok")
     \/ /\ ~global.atexit
        /\ terminal' = [terminal EXCEPT !.modes_enabled = TRUE]
        /\ OpenFails
        /\ UNCHANGED <<global, blocked>>
  /\ UNCHANGED <<process, pipe, handlers, world, tty>>

-----------------------------------------------------------------------------
(* aforc_terminal_rollback_open, with the signals still blocked *)

UndoTermios ==
  /\ At("undo_termios")
  /\ terminal.termios_changed => ~backlog
  /\ device' = IF terminal.termios_changed THEN [device EXCEPT !.raw = FALSE] ELSE device
  /\ Goto("undo_rest")
  /\ UNCHANGED <<process, terminal, bridge, world, backlog, lost>>

Unflagged(dev) == IF terminal.flags_changed THEN [dev EXCEPT !.nonblock = FALSE] ELSE dev

ClearProcessState == global' = [NoBridge EXCEPT !.atexit = global.atexit]

\* Mutant: the modes are disabled only when all of them were enabled.
UndoRest_EnabledOnly ==
  /\ At("undo_rest")
  /\ IF terminal.modes_enabled
     THEN Disable(Range(Modes), Unflagged(device))
     ELSE device' = Unflagged(device) /\ UNCHANGED lost
  /\ handlers' = {}
  /\ pipe' = 0
  /\ ClearProcessState
  /\ blocked' = FALSE
  /\ terminal' = NoTerminal
  /\ Return("error")
  /\ UNCHANGED <<process, world, backlog>>

\* The flags, the modes, the actions, the pipe and the process state; then
\* open unblocks the signals and frees the handle.
UndoRest ==
  /\ At("undo_rest")
  /\ IF terminal.modes_enabled \/ terminal.termios_changed
     THEN Disable(Range(Modes), Unflagged(device))
     ELSE device' = Unflagged(device) /\ UNCHANGED lost
  /\ handlers' = {}
  /\ pipe' = 0
  /\ ClearProcessState
  /\ blocked' = FALSE
  /\ terminal' = NoTerminal
  /\ Return("error")
  /\ UNCHANGED <<process, world, backlog>>


-----------------------------------------------------------------------------
(* aforc_terminal_restore_runtime *)

Restore ==
  /\ At("restore")
  /\ IF terminal.restored THEN pc' = caller
     ELSE IF terminal.termios_changed THEN pc' = "restore_termios"
     ELSE pc' = "restore_rest"
  /\ UNCHANGED <<process, caller, k, result, terminal, bridge, world, tty>>

\* tcsetattr with TCSAFLUSH waits until the output has drained; what it
\* returns is ignored.
SetTermios(next) ==
  /\ \/ /\ eintr
        /\ lost' = lost \cup {"termios"} /\ UNCHANGED device
     \/ /\ ~eintr /\ ~backlog
        /\ device' = [device EXCEPT !.raw = FALSE] /\ UNCHANGED lost
  /\ eintr' = FALSE
  /\ Goto(next)
  /\ UNCHANGED <<process, bridge, pending, counts, backlog>>

RestoreTermios ==
  /\ At("restore_termios")
  /\ SetTermios("restore_rest")
  /\ terminal' = [terminal EXCEPT !.termios_changed = FALSE]

RestoreRest ==
  /\ At("restore_rest")
  /\ IF terminal.modes_enabled
     THEN Disable(Range(Modes), Unflagged(device))
     ELSE device' = Unflagged(device) /\ UNCHANGED lost
  /\ terminal' = [terminal EXCEPT !.flags_changed = FALSE,
                                  !.modes_enabled = FALSE, !.restored = TRUE]
  /\ pc' = caller
  /\ UNCHANGED <<process, caller, k, result, bridge, world, backlog>>

\* The call that had to restore returns to the application.
ReturnInterrupted ==
  /\ At("interrupted")
  /\ Return("interrupted")
  /\ UNCHANGED <<process, terminal, bridge, world, tty>>

-----------------------------------------------------------------------------
(* aforc_terminal_poll *)

Usable == At("idle") /\ terminal.active /\ ~terminal.restored

\* Mutant: what was recorded before the call is not looked at.
Poll_NoCheck ==
  /\ Usable
  /\ Goto("poll_wait")
  /\ UNCHANGED <<process, terminal, bridge, world, tty>>

Poll ==
  /\ Usable
  /\ IF global.signal THEN CallRestore("interrupted") ELSE Goto("poll_wait")
  /\ UNCHANGED <<process, terminal, bridge, world, tty>>

\* poll fails with EINTR: the loop goes on unless the signal terminates.
PollInterrupted ==
  /\ At("poll_wait")
  /\ eintr
  /\ eintr' = FALSE
  /\ terminal' = [terminal EXCEPT !.marker = FALSE]
  /\ Goto(IF global.signal THEN "poll_check" ELSE "poll_wait")
  /\ UNCHANGED <<process, bridge, pending, counts, tty>>

PollMarked ==
  /\ At("poll_wait")
  /\ ~eintr /\ pipe > 0
  /\ terminal' = [terminal EXCEPT !.marker = TRUE]
  /\ Goto("poll_check")
  /\ UNCHANGED <<process, bridge, world, tty>>

\* There is input, or the timeout ends, or poll fails for another reason.
PollInput ==
  /\ At("poll_wait")
  /\ ~eintr
  /\ terminal' = [terminal EXCEPT !.marker = pipe > 0]
  /\ Goto("poll_check")
  /\ UNCHANGED <<process, bridge, world, tty>>

PollCheck ==
  /\ At("poll_check")
  /\ IF global.signal THEN CallRestore("interrupted")
                      ELSE Goto("poll_block") \/ Return("error")
  /\ UNCHANGED <<process, terminal, bridge, world, tty>>

\* Mutant: the markers and the flag are taken with the signals unblocked.
PollBlock_Unblocked ==
  /\ At("poll_block")
  /\ Goto("poll_drain")
  /\ UNCHANGED <<process, terminal, bridge, world, tty>>

PollBlock ==
  /\ At("poll_block")
  /\ blocked' = TRUE
  /\ Goto("poll_drain")
  /\ UNCHANGED <<process, terminal, global, pipe, handlers, world, tty>>

\* aforc_terminal_drain_signal_pipe, if poll saw a marker.
PollDrain ==
  /\ At("poll_drain")
  /\ pipe' = IF terminal.marker THEN 0 ELSE pipe
  /\ Goto("poll_observe")
  /\ UNCHANGED <<process, terminal, global, handlers, blocked, world, tty>>

\* aforc_terminal_take_resize, its read and its write.
PollObserve ==
  /\ At("poll_observe")
  /\ terminal' = [terminal EXCEPT !.resize_pending = global.resize]
  /\ Goto("poll_reset")
  /\ UNCHANGED <<process, bridge, world, tty>>

PollReset ==
  /\ At("poll_reset")
  /\ global' = [global EXCEPT !.resize = FALSE]
  /\ blocked' = FALSE
  /\ Goto("poll_size")
  /\ UNCHANGED <<process, terminal, pipe, handlers, world, tty>>

PollSize ==
  /\ At("poll_size")
  /\ IF terminal.resize_pending
     THEN \/ /\ terminal' = [terminal EXCEPT !.size = device.size, !.resize_pending = FALSE]
             /\ lost' = lost \ {"resize"}
             /\ \E what \in {"ok", "error"} : Return(what)
          \/ /\ terminal' = [terminal EXCEPT !.resize_pending = FALSE]
             /\ lost' = lost \cup {"resize"}
             /\ Return("error")
     ELSE /\ \E what \in {"ok", "error"} : Return(what)
          /\ UNCHANGED <<terminal, lost>>
  /\ UNCHANGED <<process, bridge, world, device, backlog>>

-----------------------------------------------------------------------------
(* aforc_terminal_read, refresh_dimensions and write *)

\* The input does not block.
Read ==
  /\ Usable
  /\ IF global.signal THEN CallRestore("interrupted") ELSE Return("ok")
  /\ UNCHANGED <<process, terminal, bridge, world, tty>>

RefreshDimensions ==
  /\ Usable
  /\ terminal' = [terminal EXCEPT !.size = device.size]
  /\ lost' = lost \ {"resize"}
  /\ Return("ok")
  /\ UNCHANGED <<process, bridge, world, device, backlog>>

Write ==
  /\ Usable
  /\ Goto("write_check")
  /\ UNCHANGED <<process, terminal, bridge, world, tty>>

WriteCheck ==
  /\ At("write_check")
  /\ IF global.signal THEN CallRestore("interrupted") ELSE Goto("write_call")
  /\ UNCHANGED <<process, terminal, bridge, world, tty>>

\* write takes all that is left, or a part, or fails.
WriteSome ==
  /\ At("write_call")
  /\ ~backlog /\ ~eintr
  /\ backlog' \in BOOLEAN
  /\ Return("ok") \/ Goto("write_check") \/ Return("error")
  /\ UNCHANGED <<process, terminal, bridge, world, device, lost>>

WriteWouldBlock ==
  /\ At("write_call")
  /\ backlog /\ device.shared
  /\ Goto("write_wait")
  /\ UNCHANGED <<process, terminal, bridge, world, tty>>

\* A write that blocks fails with EINTR; when the signal terminates, that is
\* an error like any other.
WriteInterrupted ==
  /\ At("write_call")
  /\ eintr
  /\ eintr' = FALSE
  /\ IF global.signal THEN Return("error") ELSE Goto("write_check")
  /\ UNCHANGED <<process, terminal, bridge, pending, counts, tty>>

\* poll for POLLOUT without a timeout.
WriteWait ==
  /\ At("write_wait")
  /\ eintr \/ ~backlog
  /\ eintr' = FALSE
  /\ IF global.signal THEN CallRestore("interrupted")
     ELSE IF eintr THEN Goto("write_wait") ELSE Goto("write_check")
  /\ UNCHANGED <<process, terminal, bridge, pending, counts, tty>>

-----------------------------------------------------------------------------
(* aforc_terminal_close, and the end of the program *)

Close ==
  /\ At("idle")
  /\ terminal.open
  /\ blocked' = TRUE
  /\ CallRestore("close")
  /\ UNCHANGED <<process, terminal, global, pipe, handlers, world, tty>>

CloseReturns ==
  /\ At("close")
  /\ handlers' = {}
  /\ ClearProcessState
  /\ pipe' = 0
  /\ terminal' = NoTerminal
  /\ blocked' = FALSE
  /\ Return("ok")
  /\ UNCHANGED <<process, world, tty>>

\* aforc_terminal_restore_at_exit
Exit ==
  /\ At("idle")
  /\ IF global.active THEN Goto("exit_termios") /\ UNCHANGED process
                      ELSE process' = "exited" /\ UNCHANGED control
  /\ UNCHANGED <<terminal, bridge, world, tty>>

ExitTermios ==
  /\ At("exit_termios")
  /\ SetTermios("exit_rest")
  /\ UNCHANGED terminal

ExitRest ==
  /\ At("exit_rest")
  /\ Disable(Range(Modes) \cup {Keyboard}, [device EXCEPT !.nonblock = FALSE])
  /\ global' = [global EXCEPT !.active = FALSE]
  /\ process' = "exited"
  /\ UNCHANGED <<control, terminal, pipe, handlers, blocked, world, backlog>>

-----------------------------------------------------------------------------
Environment == (\E s \in Signals : Arrive(s) \/ Deliver(s)) \/ Drain

Application == Open \/ Poll \/ Read \/ RefreshDimensions \/ Write \/ Close \/ Exit

\* What goes on by itself once it can; input need not come.
Thread ==
  \/ OpenSnapshot \/ OpenActions \/ OpenTermios \/ OpenFlags \/ OpenModes
  \/ OpenActivate \/ UndoTermios \/ UndoRest
  \/ Restore \/ RestoreTermios \/ RestoreRest \/ ReturnInterrupted
  \/ PollInterrupted \/ PollMarked \/ PollCheck \/ PollBlock \/ PollDrain
  \/ PollObserve \/ PollReset \/ PollSize
  \/ WriteCheck \/ WriteSome \/ WriteWouldBlock \/ WriteInterrupted \/ WriteWait
  \/ CloseReturns \/ ExitTermios \/ ExitRest

Next == Environment \/ Application \/ Thread \/ PollInput

Spec == Init /\ [][Next]_termVars

\* The thread is scheduled; the reader of its output promises nothing.
FairSpec == Spec /\ WF_termVars(Thread)

-----------------------------------------------------------------------------
(* Correctness *)

\* The thread never sleeps in poll on something it has already been told: a
\* recorded signal leaves a marker in the pipe, or the sleep itself was
\* interrupted.  The flags are read before poll and the markers drained after.
NoLostWakeup ==
  process = "running" /\ pc = "poll_wait" /\ (global.signal \/ global.resize) =>
    pipe > 0 \/ eintr

\* While the handle is usable, a size it does not know of is on its way: the
\* signal is pending, recorded or taken, unless the query for it failed.
ResizeIsRemembered ==
  process = "running" /\ terminal.active /\ terminal.size # device.size =>
    \/ "winch" \in pending \/ global.resize \/ terminal.resize_pending
    \/ "resize" \in lost

\* Between the start of an open and the end of its close or rollback, no
\* managed signal ends the process: it would leave the device in raw mode.
NoUncaughtDeath == process = "killed" => ~terminal.open

\* After a close, a failed open or the exit hook the line discipline, the flags
\* and the modes are what the program found, but for what the device refused to
\* restore.  No keyboard protocol stays pushed; a failed open and the exit hook
\* may pop one that was not pushed, at most one for each open.
ClosedIsClean ==
  process = "exited" \/ (process = "running" /\ ~terminal.open) =>
    /\ ~device.nonblock
    /\ device.raw => "termios" \in lost
    /\ device.on # {} => "modes" \in lost
    /\ device.depth > 0 => "modes" \in lost
    /\ device.depth >= -opens

\* A terminal that has been restored, by a close or a call that saw a signal, has
\* popped exactly what its open pushed, but for what the device refused.
RestoredIsExact ==
  process = "running" /\ terminal.restored =>
    device.depth = terminal.found \/ "modes" \in lost

\* However a use of the terminal ends, the device is given back: no signal ends the
\* program in the middle, and a close, a failed open and the exit hook undo
\* everything that was done to it.
DeviceIsRestored == NoUncaughtDeath /\ ClosedIsClean /\ RestoredIsExact

\* A recorded signal ends the sleep in poll, whenever it arrives.
PollWakes == (pc = "poll_wait" /\ (global.signal \/ global.resize)) ~> (pc # "poll_wait")

-----------------------------------------------------------------------------
(* What the documentation says and the code does not do *)

\* terminal_posix.c of an open that fails: "unwind only stages already committed".
\* Once no terminal is open any more, the stack of keyboard protocols is as high as
\* the program found it, unless the device refused a sequence.
UnwindsOnlyCommitted ==
  process = "running" /\ pc = "idle" /\ ~terminal.open =>
    device.depth = 0 \/ "modes" \in lost

\* terminal_io.c: "the signal bridge interrupts either path".
WriteIsInterrupted ==
  (pc \in {"write_call", "write_wait"} /\ global.signal)
    ~> (pc \notin {"write_call", "write_wait"})
=============================================================================
