--------------------------- MODULE TerminalProofs ---------------------------
(***************************************************************************)
(* The terminal backend, for every list of modes, every size of the        *)
(* self-pipe and any number of signals and opens: no signal is slept on,   *)
(* no resize forgotten, and the device is given back.                      *)
(***************************************************************************)
EXTENDS Terminal, TLAPS

Opening   == {"open_snapshot", "open_actions", "open_termios", "open_flags",
              "open_modes", "undo_termios", "undo_rest"}
Restoring == {"restore", "restore_termios", "restore_rest"}
Polling   == {"poll_wait", "poll_check", "poll_block", "poll_drain",
              "poll_observe", "poll_reset", "poll_size"}
Writing   == {"write_check", "write_call", "write_wait"}
Exiting   == {"exit_termios", "exit_rest"}

Handles == [termios_changed : BOOLEAN, flags_changed : BOOLEAN,
            modes_enabled : BOOLEAN, active : BOOLEAN, restored : BOOLEAN,
            open : BOOLEAN, size : Sizes \cup {0}, marker : BOOLEAN,
            resize_pending : BOOLEAN, found : Int]
Bridges == [active : BOOLEAN, pipe : BOOLEAN, resize : BOOLEAN,
            signal : BOOLEAN, atexit : BOOLEAN]
Devices == [raw : BOOLEAN, nonblock : BOOLEAN, on : SUBSET Range(Modes), depth : Int,
            size : Sizes, shared : BOOLEAN]

TypeInv ==
  /\ process \in {"running", "exited", "killed"}
  /\ pc \in Opening \cup Restoring \cup Polling \cup Writing \cup Exiting
              \cup {"idle", "interrupted", "close"}
  /\ caller \in {"none", "interrupted", "close"}
  /\ pc \in Restoring => caller # "none"
  /\ k \in Nat \ {0}
  /\ terminal \in Handles
  /\ global \in Bridges
  /\ pipe \in Nat
  /\ handlers \in SUBSET Signals
  /\ pending \in SUBSET Signals
  /\ device \in Devices
  /\ lost \in SUBSET {"termios", "modes", "resize"}

\* What the handle, the process-wide state and the actions tell of each other.  An
\* open works with the signals blocked until it has succeeded or undone itself, and a
\* handle that has been returned has both actions installed.
PhaseInv ==
  /\ process = "killed" => ~terminal.open
  /\ process = "running" =>
       /\ pc \in Opening => blocked /\ terminal.open /\ ~terminal.active
                            /\ ~terminal.restored /\ ~global.active
       /\ pc \notin Opening => (terminal.open <=> terminal.active)
                               /\ (global.active <=> terminal.active)
       /\ pc \notin Opening \cup {"idle"} => terminal.active
       /\ terminal.active \/ pc \in {"open_termios", "open_flags", "open_modes"} =>
            handlers = Signals
       /\ handlers # {} \/ pc = "open_actions" => global.pipe
       /\ ~terminal.open => terminal = NoTerminal
       /\ pc \in {"open_snapshot", "open_actions", "open_termios", "open_flags"} =>
            ~terminal.modes_enabled
       /\ pc = "restore_rest" => ~terminal.termios_changed
       /\ terminal.restored => /\ ~terminal.termios_changed /\ ~terminal.flags_changed
                               /\ ~terminal.modes_enabled
       /\ pc = "close" => terminal.restored

\* A recorded resize has a marker in the pipe, but between the drain of the markers
\* and the taking of the flag; and a signal recorded while the thread sleeps has one.
WakeInv ==
  process = "running" =>
    /\ global.resize => pipe > 0 \/ pc \in {"poll_observe", "poll_reset"}
    /\ pc = "poll_wait" /\ global.signal => pipe > 0 \/ eintr

\* A size that is not the device's is told of by a signal on its way, from the moment
\* an open has asked for the dimensions.
Sized == \/ terminal.active
         \/ pc \in {"open_actions", "open_termios", "open_flags", "open_modes"}

SizeInv ==
  process = "running" =>
    /\ pc \in {"poll_drain", "poll_observe", "poll_reset"} => blocked
    /\ terminal.resize_pending => pc \in {"poll_reset", "poll_size"}
    /\ pc = "poll_reset" => (terminal.resize_pending <=> global.resize)
    /\ Sized /\ terminal.size # device.size =>
         \/ "winch" \in pending \/ global.resize \/ terminal.resize_pending
         \/ "resize" \in lost

\* What is set on the device is known to the handle, or was refused and not tried
\* again.  A mode that is on was enabled and is disabled by whatever ends its use; in
\* the middle of an open it is one of the first k - 1.
CleanInv ==
  process # "killed" =>
    /\ device.nonblock => process = "running" /\ terminal.flags_changed
    /\ device.raw => \/ "termios" \in lost
                     \/ process = "running" /\ terminal.termios_changed
                        /\ pc \notin {"undo_rest", "exit_rest"}
    /\ "modes" \in lost \/ device.depth <= IF Keyboard \in device.on THEN 1 ELSE 0
    /\ "modes" \in lost \/ device.on = {} \/
         /\ process = "running"
         /\ \/ terminal.modes_enabled
            \/ terminal.termios_changed /\ pc \in {"open_modes", "undo_termios", "undo_rest"}
    /\ process = "running" /\ pc = "open_modes" =>
         /\ terminal.termios_changed /\ k <= Len(Modes) + 1
         /\ "modes" \in lost \/ \A mode \in device.on : \E j \in 1 .. k - 1 : Modes[j] = mode
    /\ process = "running" /\ pc \in {"idle", "open_snapshot", "open_actions", "open_termios", "open_flags"} =>
         k = 1
    /\ process = "running" /\ pc = "open_flags" => terminal.termios_changed

\* How many of the first n modes are the pushed one.
Pushed(n) == IF \E j \in 1..n : Modes[j] = Keyboard THEN 1 ELSE 0

\* The stack of keyboard protocols against what the present open found.  While the
\* modes are being enabled it is higher by what has been pushed; a handle in use has
\* pushed the protocol the configuration selects, and one that was restored has popped
\* it or been refused.  A use that is over has popped at most one protocol too many.
ProtocolInv ==
  /\ opens \in Nat
  /\ terminal.open => terminal.found >= 1 - opens
  /\ ~terminal.open \/ process # "running" => device.depth >= -opens
  /\ process = "running" /\ terminal.open =>
       /\ pc \in {"open_snapshot", "open_actions", "open_termios", "open_flags"} =>
            device.depth = terminal.found
       /\ pc = "open_modes" => device.depth = terminal.found + Pushed(k - 1)
       /\ pc \in {"undo_termios", "undo_rest"} =>
            device.depth \in {terminal.found, terminal.found + 1}
       /\ pc \notin Opening /\ terminal.modes_enabled =>
            device.depth = terminal.found + Pushed(Len(Modes))
       /\ pc \notin Opening /\ ~terminal.modes_enabled =>
            /\ device.depth \in {terminal.found, terminal.found + 1}
            /\ device.depth = terminal.found \/ "modes" \in lost

-----------------------------------------------------------------------------
(* Types *)

LEMMA HandleTypes ==
  /\ NoTerminal \in Handles
  /\ \A h \in Handles :
       /\ h.resize_pending \in BOOLEAN
       /\ \A b \in BOOLEAN :
            /\ [h EXCEPT !.termios_changed = b] \in Handles
            /\ [h EXCEPT !.flags_changed = b] \in Handles
            /\ [h EXCEPT !.modes_enabled = b] \in Handles
            /\ [h EXCEPT !.active = b] \in Handles
            /\ [h EXCEPT !.restored = b] \in Handles
            /\ [h EXCEPT !.open = b] \in Handles
            /\ [h EXCEPT !.marker = b] \in Handles
            /\ [h EXCEPT !.resize_pending = b] \in Handles
       /\ \A n \in Sizes : [h EXCEPT !.size = n] \in Handles
BY DEF Handles, NoTerminal

LEMMA BridgeTypes ==
  /\ NoBridge \in Bridges
  /\ \A g \in Bridges :
       /\ g.resize \in BOOLEAN /\ g.atexit \in BOOLEAN
       /\ \A b \in BOOLEAN :
            /\ [g EXCEPT !.active = b] \in Bridges
            /\ [g EXCEPT !.pipe = b] \in Bridges
            /\ [g EXCEPT !.resize = b] \in Bridges
            /\ [g EXCEPT !.signal = b] \in Bridges
            /\ [g EXCEPT !.atexit = b] \in Bridges
BY DEF Bridges, NoBridge

LEMMA DeviceTypes ==
  \A d \in Devices :
    /\ d.size \in Sizes /\ d.depth \in Int /\ d.on \in SUBSET Range(Modes)
    /\ \A b \in BOOLEAN : /\ [d EXCEPT !.raw = b] \in Devices
                          /\ [d EXCEPT !.nonblock = b] \in Devices
    /\ \A n \in Sizes : [d EXCEPT !.size = n] \in Devices
    /\ \A n \in Int : [d EXCEPT !.depth = n] \in Devices
    /\ \A on \in SUBSET Range(Modes) : [d EXCEPT !.on = on] \in Devices
BY DEF Devices

LEMMA TurnTypes ==
  ASSUME NEW d \in Devices
  PROVE  /\ \A modes : TurnOff(modes, d) \in Devices
         /\ \A mode \in Range(Modes) : Turn(mode, d) \in Devices
<1>1. ASSUME NEW modes  PROVE TurnOff(modes, d) \in Devices
  <2>1. d.on \ modes \in SUBSET Range(Modes) /\ d.depth \in Int
    BY DeviceTypes
  <2>2. /\ [d EXCEPT !.on = d.on \ modes] \in Devices
        /\ [d EXCEPT !.on = d.on \ modes].depth = d.depth
    BY <2>1 DEF Devices
  <2>3. d.depth - 1 \in Int
    BY <2>1
  <2> QED  BY <2>1, <2>2, <2>3, DeviceTypes DEF TurnOff
<1>2. ASSUME NEW mode \in Range(Modes)  PROVE Turn(mode, d) \in Devices
  <2>1. d.on \cup {mode} \in SUBSET Range(Modes) /\ d.depth \in Int
    BY DeviceTypes
  <2>2. /\ [d EXCEPT !.on = d.on \cup {mode}] \in Devices
        /\ [d EXCEPT !.on = d.on \cup {mode}].depth = d.depth
    BY <2>1 DEF Devices
  <2>3. d.depth + 1 \in Int
    BY <2>1
  <2> QED  BY <2>1, <2>2, <2>3, DeviceTypes DEF Turn
<1> QED  BY <1>1, <1>2

LEMMA DisableTypes ==
  ASSUME NEW d \in Devices, NEW all, Disable(all, d)
  PROVE  device' \in Devices
BY TurnTypes DEF Disable

LEMMA UnflaggedTypes ==
  ASSUME NEW d \in Devices
  PROVE  Unflagged(d) \in Devices
BY DeviceTypes DEF Unflagged

\* The operations on modes and flags leave the size of the window alone.
LEMMA SizeStays ==
  ASSUME NEW d \in Devices
  PROVE  /\ [d EXCEPT !.raw = TRUE].size = d.size
         /\ [d EXCEPT !.raw = FALSE].size = d.size
         /\ [d EXCEPT !.nonblock = TRUE].size = d.size
         /\ \A mode : Turn(mode, d).size = d.size
         /\ \A modes : TurnOff(modes, d).size = d.size
         /\ \A all : Disable(all, d) => device'.size = d.size
         /\ Unflagged(d).size = d.size
BY DEF Devices, Turn, TurnOff, Disable, Unflagged

LEMMA TypeInit ==
  ASSUME Init
  PROVE  TypeInv
<1>1. device \in Devices
  <2>1. {FALSE} \subseteq BOOLEAN /\ {{}} \subseteq SUBSET Range(Modes) /\ {0} \subseteq Int
    OBVIOUS
  <2> QED  BY <2>1, Zenon DEF Init, Devices
<1>2. terminal \in Handles /\ global \in Bridges
  BY HandleTypes, BridgeTypes DEF Init
<1>3. pc = "idle"
  BY SMTT(60) DEF Init
<1> QED  BY <1>1, <1>2, <1>3 DEF Init, TypeInv, Restoring

\* Every step keeps the types.
LEMMA TypeStep ==
  ASSUME TypeInv, [Next]_termVars
  PROVE  TypeInv'
<1> USE DEF At, Goto, Return, Enter, CallRestore, control, counts, bridge, world, tty,
           Opening, Restoring, Polling, Writing, Exiting, TypeInv, Signals
<1>1. CASE UNCHANGED termVars
  BY <1>1 DEF termVars
<1>2. CASE \E s \in Signals : Arrive(s)
  BY HandleTypes, BridgeTypes, DeviceTypes, <1>2 DEF Arrive
<1>3. CASE \E s \in Signals : Deliver(s)
  <2>1. PICK s \in Signals : Deliver(s)
    BY <1>3
  <2>2. CASE s \in handlers
    <3>1. global' \in Bridges
      <4>1. \/ global' = [global EXCEPT !.resize = TRUE]
            \/ global' = [global EXCEPT !.signal = TRUE]
        BY <2>1, <2>2 DEF Deliver, Handle
      <4> QED  BY <4>1, BridgeTypes, ZenonT(60)
    <3>2. pipe' \in Nat
      BY <2>1, <2>2 DEF Deliver, Handle
    <3> QED  BY <3>1, <3>2, <2>1, <2>2 DEF Deliver, Handle
  <2>3. CASE s \notin handlers
    BY <2>1, <2>3 DEF Deliver, Default
  <2> QED  BY <2>2, <2>3
<1>4. CASE Drain
  BY <1>4 DEF Drain
<1>5. CASE Open
  <2>1. terminal' \in Handles
    <3>1. device.depth \in Int
      BY DEF Devices
    <3>2. [NoTerminal EXCEPT !.open = TRUE, !.found = device.depth] \in Handles
      BY <3>1 DEF Handles, NoTerminal
    <3> QED  BY <3>2, <1>5 DEF Open
  <2>2. global' \in Bridges
    BY <1>5 DEF Bridges, NoBridge, Open
  <2>3. device' \in Devices
    BY DeviceTypes, <1>5 DEF Open
  <2> QED  BY <2>1, <2>2, <2>3, <1>5 DEF Open
<1>6. CASE Poll
  BY <1>6 DEF Poll, Usable
<1>7. CASE Read
  BY <1>7 DEF Read, Usable
<1>8. CASE RefreshDimensions
  <2>1. terminal' \in Handles
    BY <1>8 DEF Handles, Devices, NoTerminal, RefreshDimensions, Usable
  <2>2. global' \in Bridges
    BY <1>8 DEF Bridges, NoBridge, RefreshDimensions, Usable
  <2>3. device' \in Devices
    BY DeviceTypes, <1>8 DEF RefreshDimensions, Usable
  <2> QED  BY <2>1, <2>2, <2>3, <1>8 DEF RefreshDimensions, Usable
<1>9. CASE Write
  BY <1>9 DEF Write, Usable
<1>10. CASE Close
  BY HandleTypes, BridgeTypes, DeviceTypes, <1>10 DEF Close
<1>11. CASE Exit
  BY <1>11 DEF Exit
<1>12. CASE OpenSnapshot
  <2>1. terminal' \in Handles
    BY <1>12 DEF Handles, Devices, NoTerminal, OpenSnapshot, OpenFails
  <2>2. global' \in Bridges
    BY <1>12, ZenonT(60) DEF Bridges, NoBridge, OpenSnapshot, OpenFails
  <2>3. device' \in Devices
    BY DeviceTypes, <1>12 DEF OpenSnapshot, OpenFails
  <2> QED  BY <2>1, <2>2, <2>3, <1>12 DEF OpenSnapshot, OpenFails
<1>13. CASE OpenActions
  BY HandleTypes, BridgeTypes, DeviceTypes, <1>13 DEF OpenActions, OpenFails
<1>14. CASE OpenTermios
  <2>1. terminal' \in Handles
    <3>1. terminal' = terminal \/ terminal' = [terminal EXCEPT !.termios_changed = TRUE]
      BY <1>14 DEF OpenTermios, OpenFails
    <3> QED  BY <3>1, HandleTypes, ZenonT(60)
  <2>2. global' \in Bridges
    BY <1>14 DEF Bridges, NoBridge, OpenTermios, OpenFails
  <2>3. device' \in Devices
    BY DeviceTypes, <1>14 DEF OpenTermios, OpenFails
  <2> QED  BY <2>1, <2>2, <2>3, <1>14 DEF OpenTermios, OpenFails
<1>15. CASE OpenFlags
  <2>1. terminal' \in Handles
    <3>1. terminal' = terminal \/ terminal' = [terminal EXCEPT !.flags_changed = TRUE]
      BY <1>15 DEF OpenFlags, OpenFails
    <3> QED  BY <3>1, HandleTypes, ZenonT(60)
  <2>2. global' \in Bridges
    BY <1>15 DEF Bridges, NoBridge, OpenFlags, OpenFails
  <2>3. device' \in Devices
    BY DeviceTypes, <1>15 DEF OpenFlags, OpenFails
  <2> QED  BY <2>1, <2>2, <2>3, <1>15 DEF OpenFlags, OpenFails
<1>16. CASE OpenModes
  <2> Modes[k] \in Range(Modes)
    BY <1>16, TerminalConstants DEF OpenModes, Range
  <2>1. terminal' \in Handles
    BY <1>16 DEF Handles, Devices, NoTerminal, OpenModes, OpenFails
  <2>2. global' \in Bridges
    BY <1>16 DEF Bridges, NoBridge, OpenModes, OpenFails
  <2>3. device' \in Devices
    BY DeviceTypes, TurnTypes, <1>16 DEF OpenModes, OpenFails
  <2> QED  BY <2>1, <2>2, <2>3, <1>16 DEF OpenModes, OpenFails
<1>17. CASE OpenActivate
  <2>1. terminal' \in Handles
    <3>1. PICK h : h = [terminal EXCEPT !.modes_enabled = TRUE]
      OBVIOUS
    <3>2. terminal' = h \/ terminal' = [h EXCEPT !.active = TRUE]
      BY <3>1, <1>17 DEF OpenActivate, OpenFails
    <3>3. h \in Handles
      BY <3>1, HandleTypes
    <3> QED  BY <3>2, <3>3, HandleTypes, ZenonT(60)
  <2>2. global' \in Bridges
    BY <1>17, ZenonT(60) DEF Bridges, NoBridge, OpenActivate, OpenFails
  <2>3. device' \in Devices
    BY DeviceTypes, <1>17 DEF OpenActivate, OpenFails
  <2> QED  BY <2>1, <2>2, <2>3, <1>17 DEF OpenActivate, OpenFails
<1>18. CASE UndoTermios
  BY HandleTypes, BridgeTypes, DeviceTypes, <1>18 DEF UndoTermios
<1>19. CASE UndoRest
  <2>1. terminal' \in Handles
    BY <1>19 DEF Handles, Devices, NoTerminal, UndoRest, Disable, Unflagged, ClearProcessState
  <2>2. global' \in Bridges
    BY <1>19, ZenonT(60) DEF Bridges, NoBridge, UndoRest, Disable, Unflagged, ClearProcessState
  <2>3. device' \in Devices
    BY UnflaggedTypes, DisableTypes, <1>19 DEF UndoRest, ClearProcessState
  <2> QED  BY <2>1, <2>2, <2>3, <1>19 DEF UndoRest, Disable, Unflagged, ClearProcessState
<1>20. CASE Restore
  BY <1>20 DEF Restore
<1>21. CASE RestoreTermios
  BY HandleTypes, BridgeTypes, DeviceTypes, <1>21, ZenonT(60) DEF RestoreTermios, SetTermios
<1>22. CASE RestoreRest
  <2>1. terminal' \in Handles
    BY <1>22, ZenonT(60) DEF Handles, Devices, NoTerminal, RestoreRest, Disable, Unflagged
  <2>2. global' \in Bridges
    BY <1>22 DEF Bridges, NoBridge, RestoreRest, Disable, Unflagged
  <2>3. device' \in Devices
    BY UnflaggedTypes, DisableTypes, <1>22 DEF RestoreRest
  <2> QED  BY <2>1, <2>2, <2>3, <1>22 DEF RestoreRest, Disable, Unflagged
<1>23. CASE ReturnInterrupted
  BY <1>23 DEF ReturnInterrupted
<1>24. CASE PollInterrupted
  BY HandleTypes, BridgeTypes, DeviceTypes, <1>24 DEF PollInterrupted
<1>25. CASE PollMarked
  BY HandleTypes, BridgeTypes, DeviceTypes, <1>25 DEF PollMarked
<1>26. CASE PollCheck
  BY <1>26 DEF PollCheck
<1>27. CASE PollBlock
  BY <1>27 DEF PollBlock
<1>28. CASE PollDrain
  BY <1>28 DEF PollDrain
<1>29. CASE PollObserve
  BY HandleTypes, BridgeTypes, DeviceTypes, <1>29 DEF PollObserve
<1>30. CASE PollReset
  BY HandleTypes, BridgeTypes, DeviceTypes, <1>30 DEF PollReset
<1>31. CASE PollSize
  <2>1. terminal' \in Handles
    <3>1. device.size \in Sizes
      BY DeviceTypes
    <3>2. CASE terminal.resize_pending
      <4>1. \/ terminal' = [terminal EXCEPT !.size = device.size, !.resize_pending = FALSE]
            \/ terminal' = [terminal EXCEPT !.resize_pending = FALSE]
        BY <3>2, <1>31 DEF PollSize
      <4>2. [terminal EXCEPT !.size = device.size] \in Handles
        BY <3>1, HandleTypes
      <4> QED  BY <4>1, <4>2, HandleTypes, ZenonT(60)
    <3>3. CASE ~terminal.resize_pending
      BY <3>3, <1>31 DEF PollSize
    <3> QED  BY <3>2, <3>3
  <2>2. global' \in Bridges
    BY <1>31 DEF Bridges, NoBridge, PollSize
  <2>3. device' \in Devices
    BY DeviceTypes, <1>31 DEF PollSize
  <2> QED  BY <2>1, <2>2, <2>3, <1>31 DEF PollSize
<1>32. CASE WriteCheck
  BY <1>32 DEF WriteCheck
<1>33. CASE WriteSome
  BY <1>33 DEF WriteSome
<1>34. CASE WriteWouldBlock
  BY <1>34 DEF WriteWouldBlock
<1>35. CASE WriteInterrupted
  <2>1. terminal' \in Handles
    BY <1>35 DEF Handles, Devices, NoTerminal, WriteInterrupted
  <2>2. global' \in Bridges
    BY <1>35 DEF Bridges, NoBridge, WriteInterrupted
  <2>3. device' \in Devices
    BY DeviceTypes, <1>35 DEF WriteInterrupted
  <2> QED  BY <2>1, <2>2, <2>3, <1>35 DEF WriteInterrupted
<1>36. CASE WriteWait
  BY <1>36 DEF WriteWait
<1>37. CASE CloseReturns
  <2>1. terminal' \in Handles
    BY <1>37 DEF Handles, Devices, NoTerminal, CloseReturns, ClearProcessState
  <2>2. global' \in Bridges
    BY <1>37 DEF Bridges, NoBridge, CloseReturns, ClearProcessState
  <2>3. device' \in Devices
    BY DeviceTypes, <1>37 DEF CloseReturns, ClearProcessState
  <2> QED  BY <2>1, <2>2, <2>3, <1>37 DEF CloseReturns, ClearProcessState
<1>38. CASE ExitTermios
  BY HandleTypes, BridgeTypes, DeviceTypes, <1>38, ZenonT(60) DEF ExitTermios, SetTermios
<1>39. CASE ExitRest
  <2>1. terminal' \in Handles
    BY <1>39 DEF Handles, Devices, NoTerminal, ExitRest, Disable
  <2>2. global' \in Bridges
    BY <1>39 DEF Bridges, NoBridge, ExitRest, Disable
  <2>3. device' \in Devices
    BY DeviceTypes, DisableTypes, <1>39 DEF ExitRest
  <2> QED  BY <2>1, <2>2, <2>3, <1>39 DEF ExitRest, Disable
<1>40. CASE PollInput
  <2>1. terminal' \in Handles
    <3>1. (pipe > 0) \in BOOLEAN
      BY SMT
    <3> QED  BY <3>1, HandleTypes, <1>40, Zenon DEF PollInput
  <2>2. global' \in Bridges
    BY <1>40 DEF Bridges, NoBridge, PollInput
  <2>3. device' \in Devices
    BY DeviceTypes, <1>40 DEF PollInput
  <2> QED  BY <2>1, <2>2, <2>3, <1>40 DEF PollInput
<1> QED
  BY <1>1, <1>2, <1>3, <1>4, <1>5, <1>6, <1>7, <1>8, <1>9, <1>10, <1>11, <1>12, <1>13,
     <1>14, <1>15, <1>16, <1>17, <1>18, <1>19, <1>20, <1>21, <1>22, <1>23, <1>24, <1>25,
     <1>26, <1>27, <1>28, <1>29, <1>30, <1>31, <1>32, <1>33, <1>34, <1>35, <1>36, <1>37,
     <1>38, <1>39, <1>40
     DEF Next, Environment, Application, Thread

-----------------------------------------------------------------------------
(* Phases *)

LEMMA PhaseInit == Init => PhaseInv
BY SMTT(60) DEF Init, PhaseInv, NoTerminal, NoBridge, Opening

\* Every step keeps the phases.
LEMMA PhaseStep ==
  ASSUME TypeInv, PhaseInv, [Next]_termVars
  PROVE  PhaseInv'
<1> terminal \in Handles /\ global \in Bridges /\ caller \in {"none", "interrupted", "close"}
     /\ (pc \in Restoring => caller # "none")
  BY DEF TypeInv
<1> USE DEF At, Goto, Return, Enter, CallRestore, control, counts, bridge, world, tty,
           Opening, Restoring, PhaseInv, Signals, Handles, Bridges, NoTerminal, NoBridge
<1>1. CASE UNCHANGED termVars
  BY <1>1 DEF termVars
<1>2. CASE \E s \in Signals : Arrive(s)
  BY <1>2 DEF Arrive
<1>3. CASE \E s \in Signals : Deliver(s)
  <2>1. PICK s \in Signals : Deliver(s)
    BY <1>3
  <2>2. CASE s \in handlers
    BY <2>1, <2>2 DEF Deliver, Handle
  <2>3. CASE s \notin handlers
    BY <2>1, <2>3 DEF Deliver, Default
  <2> QED  BY <2>2, <2>3
<1>4. CASE Drain
  BY <1>4 DEF Drain
<1>5. CASE Open
  BY <1>5 DEF Open
<1>6. CASE Poll
  BY <1>6 DEF Poll, Usable
<1>7. CASE Read
  BY <1>7 DEF Read, Usable
<1>8. CASE RefreshDimensions
  BY <1>8 DEF RefreshDimensions, Usable
<1>9. CASE Write
  BY <1>9 DEF Write, Usable
<1>10. CASE Close
  BY <1>10 DEF Close
<1>11. CASE Exit
  BY <1>11 DEF Exit
<1>12. CASE OpenSnapshot
  BY <1>12, ZenonT(60) DEF OpenSnapshot, OpenFails
<1>13. CASE OpenActions
  BY <1>13 DEF OpenActions, OpenFails
<1>14. CASE OpenTermios
  BY <1>14 DEF OpenTermios, OpenFails
<1>15. CASE OpenFlags
  BY <1>15 DEF OpenFlags, OpenFails
<1>16. CASE OpenModes
  BY <1>16 DEF OpenModes, OpenFails, Turn
<1>17. CASE OpenActivate
  <2>1. CASE pc' = "idle"
    BY <2>1, <1>17, ZenonT(60) DEF OpenActivate, OpenFails
  <2>2. CASE pc' = "undo_termios"
    BY <2>2, <1>17 DEF OpenActivate, OpenFails
  <2> QED  BY <2>1, <2>2, <1>17 DEF OpenActivate, OpenFails
<1>18. CASE UndoTermios
  BY <1>18 DEF UndoTermios
<1>19. CASE UndoRest
  BY <1>19 DEF UndoRest, Disable, TurnOff, Unflagged, ClearProcessState
<1>20. CASE Restore
  BY <1>20 DEF Restore
<1>21. CASE RestoreTermios
  BY <1>21 DEF RestoreTermios, SetTermios
<1>22. CASE RestoreRest
  BY <1>22 DEF RestoreRest, Disable, TurnOff, Unflagged
<1>23. CASE ReturnInterrupted
  BY <1>23 DEF ReturnInterrupted
<1>24. CASE PollInterrupted
  BY <1>24 DEF PollInterrupted
<1>25. CASE PollMarked
  BY <1>25 DEF PollMarked
<1>26. CASE PollCheck
  BY <1>26 DEF PollCheck
<1>27. CASE PollBlock
  BY <1>27 DEF PollBlock
<1>28. CASE PollDrain
  BY <1>28 DEF PollDrain
<1>29. CASE PollObserve
  BY <1>29 DEF PollObserve
<1>30. CASE PollReset
  BY <1>30 DEF PollReset
<1>31. CASE PollSize
  <2>1. /\ pc = "poll_size" /\ pc' = "idle" /\ process = "running" /\ process' = process
        /\ handlers' = handlers /\ global' = global
    BY <1>31 DEF PollSize
  <2>2. /\ terminal'.active = terminal.active /\ terminal'.open = terminal.open
        /\ terminal'.restored = terminal.restored
        /\ terminal'.termios_changed = terminal.termios_changed
        /\ terminal'.flags_changed = terminal.flags_changed
        /\ terminal'.modes_enabled = terminal.modes_enabled
    BY <1>31, ZenonT(60) DEF PollSize
  <2>3. terminal.active /\ terminal.open
    BY <2>1
  <2> QED  BY <2>1, <2>2, <2>3
<1>32. CASE WriteCheck
  BY <1>32 DEF WriteCheck
<1>33. CASE WriteSome
  BY <1>33 DEF WriteSome
<1>34. CASE WriteWouldBlock
  BY <1>34 DEF WriteWouldBlock
<1>35. CASE WriteInterrupted
  BY <1>35 DEF WriteInterrupted
<1>36. CASE WriteWait
  BY <1>36 DEF WriteWait
<1>37. CASE CloseReturns
  BY <1>37 DEF CloseReturns, ClearProcessState
<1>38. CASE ExitTermios
  BY <1>38 DEF ExitTermios, SetTermios
<1>39. CASE ExitRest
  BY <1>39 DEF ExitRest, Disable, TurnOff
<1>40. CASE PollInput
  BY <1>40 DEF PollInput
<1> QED
  BY <1>1, <1>2, <1>3, <1>4, <1>5, <1>6, <1>7, <1>8, <1>9, <1>10, <1>11, <1>12, <1>13,
     <1>14, <1>15, <1>16, <1>17, <1>18, <1>19, <1>20, <1>21, <1>22, <1>23, <1>24, <1>25,
     <1>26, <1>27, <1>28, <1>29, <1>30, <1>31, <1>32, <1>33, <1>34, <1>35, <1>36, <1>37,
     <1>38, <1>39, <1>40
     DEF Next, Environment, Application, Thread

-----------------------------------------------------------------------------
(* Signals and sizes *)

LEMMA WakeInit == Init => WakeInv
BY DEF Init, WakeInv, NoBridge

\* Every step keeps the markers of what is recorded.
LEMMA WakeStep ==
  ASSUME TypeInv, PhaseInv, WakeInv, [Next]_termVars
  PROVE  WakeInv'
<1> terminal \in Handles /\ global \in Bridges /\ pipe \in Nat
     /\ caller \in {"none", "interrupted", "close"}
  BY DEF TypeInv
<1> USE DEF At, Goto, Return, Enter, CallRestore, control, counts, bridge, world, tty,
           WakeInv, Handles, Bridges, NoTerminal, NoBridge
<1>1. CASE UNCHANGED termVars
  BY <1>1 DEF termVars
<1>2. CASE \E s \in Signals : Arrive(s)
  BY <1>2 DEF Arrive
<1>3. CASE \E s \in Signals : Deliver(s)
  <2>1. PICK s \in Signals : Deliver(s)
    BY <1>3
  <2>2. CASE s \in handlers /\ global.pipe
    <3>1. pipe' > 0
      BY <2>1, <2>2, TerminalConstants DEF Deliver, Handle
    <3> QED  BY <3>1
  <2>3. CASE s \in handlers /\ ~global.pipe
    BY <2>1, <2>3 DEF PhaseInv, Deliver
  <2>4. CASE s \notin handlers
    BY <2>1, <2>4 DEF Deliver, Default
  <2> QED  BY <2>2, <2>3, <2>4
<1>4. CASE Drain
  BY <1>4 DEF Drain
<1>5. CASE Open
  BY <1>5 DEF Open
<1>6. CASE Poll
  BY <1>6 DEF Poll, Usable
<1>7. CASE Read
  BY <1>7 DEF Read, Usable
<1>8. CASE RefreshDimensions
  BY <1>8 DEF RefreshDimensions, Usable
<1>9. CASE Write
  BY <1>9 DEF Write, Usable
<1>10. CASE Close
  BY <1>10 DEF Close
<1>11. CASE Exit
  BY <1>11 DEF Exit
<1>12. CASE OpenSnapshot
  BY <1>12 DEF OpenSnapshot, OpenFails
<1>13. CASE OpenActions
  BY <1>13 DEF OpenActions, OpenFails
<1>14. CASE OpenTermios
  BY <1>14 DEF OpenTermios, OpenFails
<1>15. CASE OpenFlags
  BY <1>15 DEF OpenFlags, OpenFails
<1>16. CASE OpenModes
  BY <1>16 DEF OpenModes, OpenFails, Turn
<1>17. CASE OpenActivate
  BY <1>17 DEF OpenActivate, OpenFails
<1>18. CASE UndoTermios
  BY <1>18 DEF UndoTermios
<1>19. CASE UndoRest
  BY <1>19 DEF UndoRest, Disable, TurnOff, Unflagged, ClearProcessState
<1>20. CASE Restore
  BY <1>20 DEF Restore
<1>21. CASE RestoreTermios
  BY <1>21 DEF RestoreTermios, SetTermios
<1>22. CASE RestoreRest
  BY <1>22 DEF RestoreRest, Disable, TurnOff, Unflagged
<1>23. CASE ReturnInterrupted
  BY <1>23 DEF ReturnInterrupted
<1>24. CASE PollInterrupted
  BY <1>24 DEF PollInterrupted
<1>25. CASE PollMarked
  BY <1>25 DEF PollMarked
<1>26. CASE PollCheck
  BY <1>26 DEF PollCheck
<1>27. CASE PollBlock
  BY <1>27 DEF PollBlock
<1>28. CASE PollDrain
  BY <1>28 DEF PollDrain
<1>29. CASE PollObserve
  BY <1>29 DEF PollObserve
<1>30. CASE PollReset
  BY <1>30 DEF PollReset
<1>31. CASE PollSize
  BY <1>31 DEF PollSize
<1>32. CASE WriteCheck
  BY <1>32 DEF WriteCheck
<1>33. CASE WriteSome
  BY <1>33 DEF WriteSome
<1>34. CASE WriteWouldBlock
  BY <1>34 DEF WriteWouldBlock
<1>35. CASE WriteInterrupted
  BY <1>35 DEF WriteInterrupted
<1>36. CASE WriteWait
  BY <1>36 DEF WriteWait
<1>37. CASE CloseReturns
  BY <1>37 DEF CloseReturns, ClearProcessState
<1>38. CASE ExitTermios
  BY <1>38 DEF ExitTermios, SetTermios
<1>39. CASE ExitRest
  BY <1>39 DEF ExitRest, Disable, TurnOff
<1>40. CASE PollInput
  BY <1>40 DEF PollInput
<1> QED
  BY <1>1, <1>2, <1>3, <1>4, <1>5, <1>6, <1>7, <1>8, <1>9, <1>10, <1>11, <1>12, <1>13,
     <1>14, <1>15, <1>16, <1>17, <1>18, <1>19, <1>20, <1>21, <1>22, <1>23, <1>24, <1>25,
     <1>26, <1>27, <1>28, <1>29, <1>30, <1>31, <1>32, <1>33, <1>34, <1>35, <1>36, <1>37,
     <1>38, <1>39, <1>40
     DEF Next, Environment, Application, Thread

LEMMA SizeInit == Init => SizeInv
BY SMTT(60) DEF Init, SizeInv, NoTerminal, Sized

\* Every step keeps the news of a size.
LEMMA SizeStep ==
  ASSUME TypeInv, PhaseInv, SizeInv, [Next]_termVars
  PROVE  SizeInv'
<1> terminal \in Handles /\ global \in Bridges /\ device \in Devices
     /\ caller \in {"none", "interrupted", "close"}
  BY DEF TypeInv
<1> USE DEF At, Goto, Return, Enter, CallRestore, control, counts, bridge, world, tty,
           SizeInv, Sized, PhaseInv, Opening, Signals, Handles, Bridges, NoTerminal,
           NoBridge
<1>1. CASE UNCHANGED termVars
  BY <1>1 DEF termVars
<1>2. CASE \E s \in Signals : Arrive(s)
  BY <1>2 DEF Arrive
<1>3. CASE \E s \in Signals : Deliver(s)
  <2>1. PICK s \in Signals : Deliver(s)
    BY <1>3
  <2>2. CASE s \in handlers
    BY <2>1, <2>2 DEF Deliver, Handle
  <2>3. CASE s \notin handlers
    BY <2>1, <2>3 DEF Deliver, Default
  <2> QED  BY <2>2, <2>3
<1>4. CASE Drain
  BY <1>4 DEF Drain
<1>5. CASE Open
  BY <1>5 DEF Open
<1>6. CASE Poll
  BY <1>6 DEF Poll, Usable
<1>7. CASE Read
  BY <1>7 DEF Read, Usable
<1>8. CASE RefreshDimensions
  BY <1>8 DEF RefreshDimensions, Usable
<1>9. CASE Write
  BY <1>9 DEF Write, Usable
<1>10. CASE Close
  BY <1>10 DEF Close
<1>11. CASE Exit
  BY <1>11 DEF Exit
<1>12. CASE OpenSnapshot
  BY <1>12 DEF OpenSnapshot, OpenFails
<1>13. CASE OpenActions
  BY <1>13 DEF OpenActions, OpenFails
<1>14. CASE OpenTermios
  <2>1. device'.size = device.size
    BY SizeStays, <1>14, ZenonT(60) DEF OpenTermios, OpenFails
  <2> QED  BY <2>1, <1>14 DEF OpenTermios, OpenFails
<1>15. CASE OpenFlags
  <2>1. device'.size = device.size
    BY SizeStays, <1>15, ZenonT(60) DEF OpenFlags, OpenFails
  <2> QED  BY <2>1, <1>15 DEF OpenFlags, OpenFails
<1>16. CASE OpenModes
  <2>1. device'.size = device.size
    BY SizeStays, <1>16 DEF OpenModes, OpenFails
  <2> QED  BY <2>1, <1>16 DEF OpenModes, OpenFails
<1>17. CASE OpenActivate
  BY <1>17, ZenonT(60) DEF OpenActivate, OpenFails
<1>18. CASE UndoTermios
  BY <1>18 DEF UndoTermios
<1>19. CASE UndoRest
  BY <1>19 DEF UndoRest, Disable, TurnOff, Unflagged, ClearProcessState
<1>20. CASE Restore
  BY <1>20 DEF Restore
<1>21. CASE RestoreTermios
  <2>1. device'.size = device.size
    BY SizeStays, <1>21, ZenonT(60) DEF RestoreTermios, SetTermios
  <2> QED  BY <2>1, <1>21 DEF RestoreTermios, SetTermios
<1>22. CASE RestoreRest
  <2>1. device'.size = device.size
    <3>1. Unflagged(device) \in Devices /\ Unflagged(device).size = device.size
      BY SizeStays, UnflaggedTypes
    <3> HIDE DEF Handles, Bridges, SizeInv, PhaseInv, Opening
    <3> QED  BY <3>1, SizeStays, <1>22 DEF RestoreRest
  <2>2. /\ pc' = caller /\ caller \in {"interrupted", "close"}
        /\ terminal'.active = terminal.active /\ terminal'.size = terminal.size
        /\ terminal'.resize_pending = terminal.resize_pending
        /\ UNCHANGED <<process, pending, global, blocked>>
        /\ pc = "restore_rest"
    BY <1>22 DEF RestoreRest, TypeInv, Restoring
  <2>3. lost \subseteq lost'
    BY <1>22 DEF RestoreRest, Disable
  <2> QED  BY <2>1, <2>2, <2>3
<1>23. CASE ReturnInterrupted
  BY <1>23 DEF ReturnInterrupted
<1>24. CASE PollInterrupted
  BY <1>24 DEF PollInterrupted
<1>25. CASE PollMarked
  BY <1>25 DEF PollMarked
<1>26. CASE PollCheck
  BY <1>26 DEF PollCheck
<1>27. CASE PollBlock
  BY <1>27 DEF PollBlock
<1>28. CASE PollDrain
  BY <1>28 DEF PollDrain
<1>29. CASE PollObserve
  BY <1>29 DEF PollObserve
<1>30. CASE PollReset
  BY <1>30 DEF PollReset
<1>31. CASE PollSize
  BY <1>31, ZenonT(60) DEF PollSize
<1>32. CASE WriteCheck
  BY <1>32 DEF WriteCheck
<1>33. CASE WriteSome
  BY <1>33 DEF WriteSome
<1>34. CASE WriteWouldBlock
  BY <1>34 DEF WriteWouldBlock
<1>35. CASE WriteInterrupted
  BY <1>35 DEF WriteInterrupted
<1>36. CASE WriteWait
  BY <1>36 DEF WriteWait
<1>37. CASE CloseReturns
  BY <1>37 DEF CloseReturns, ClearProcessState
<1>38. CASE ExitTermios
  <2>1. device'.size = device.size
    BY SizeStays, <1>38 DEF ExitTermios, SetTermios
  <2> QED  BY <2>1, <1>38 DEF ExitTermios, SetTermios
<1>39. CASE ExitRest
  BY <1>39 DEF ExitRest, Disable, TurnOff
<1>40. CASE PollInput
  BY <1>40 DEF PollInput
<1> QED
  BY <1>1, <1>2, <1>3, <1>4, <1>5, <1>6, <1>7, <1>8, <1>9, <1>10, <1>11, <1>12, <1>13,
     <1>14, <1>15, <1>16, <1>17, <1>18, <1>19, <1>20, <1>21, <1>22, <1>23, <1>24, <1>25,
     <1>26, <1>27, <1>28, <1>29, <1>30, <1>31, <1>32, <1>33, <1>34, <1>35, <1>36, <1>37,
     <1>38, <1>39, <1>40
     DEF Next, Environment, Application, Thread

-----------------------------------------------------------------------------
(* The device *)

\* Setting a mode that is off keeps the height of the keyboard stack.
LEMMA TurnEffect ==
  ASSUME NEW d \in Devices, NEW mode \in Range(Modes)
  PROVE  /\ Turn(mode, d).raw = d.raw /\ Turn(mode, d).nonblock = d.nonblock
         /\ Turn(mode, d).on = d.on \cup {mode}
         /\ Turn(mode, d).depth = IF mode = Keyboard THEN d.depth + 1 ELSE d.depth
         /\ mode \notin d.on /\ d.depth <= (IF Keyboard \in d.on THEN 1 ELSE 0) =>
              Turn(mode, d).depth <= IF Keyboard \in Turn(mode, d).on THEN 1 ELSE 0
<1> d.depth \in Int
  BY DEF Devices
<1>1. /\ Turn(mode, d).raw = d.raw /\ Turn(mode, d).nonblock = d.nonblock
      /\ Turn(mode, d).on = d.on \cup {mode}
      /\ Turn(mode, d).depth = IF mode = Keyboard THEN d.depth + 1 ELSE d.depth
  BY DEF Devices, Turn
<1> QED  BY <1>1

\* Disabling all that the configuration selects leaves no mode and no keyboard
\* protocol of the program's, unless a sequence was refused.
LEMMA DisableEffect ==
  ASSUME NEW d \in Devices, NEW all \in {Range(Modes), Range(Modes) \cup {Keyboard}},
         "modes" \in lost \/ d.depth <= (IF Keyboard \in d.on THEN 1 ELSE 0),
         Disable(all, d)
  PROVE  /\ "modes" \in lost' \/ (device'.on = {} /\ device'.depth <= 0)
         /\ lost \subseteq lost'
         /\ device'.raw = d.raw /\ device'.nonblock = d.nonblock
<1>1. PICK modes \in SUBSET all :
        /\ device' = TurnOff(modes, d)
        /\ lost' = IF modes = all THEN lost ELSE lost \cup {"modes"}
  BY DEF Disable
<1>2. d.depth \in Int /\ d.on \subseteq all
  BY DEF Devices
<1>3. /\ device'.raw = d.raw /\ device'.nonblock = d.nonblock
      /\ device'.on = d.on \ modes
      /\ device'.depth = IF Keyboard \in modes THEN d.depth - 1 ELSE d.depth
  BY <1>1 DEF Devices, TurnOff
<1>4. CASE modes = all
  <2>1. device'.on = {}
    BY <1>2, <1>3, <1>4
  <2>2. "modes" \in lost' \/ device'.depth <= 0
    BY <1>1, <1>2, <1>3, <1>4
  <2> QED  BY <1>1, <1>3, <1>4, <2>1, <2>2
<1>5. CASE modes # all
  BY <1>1, <1>3, <1>5
<1> QED  BY <1>4, <1>5

LEMMA UnflaggedEffect ==
  ASSUME NEW d \in Devices, d.nonblock => terminal.flags_changed
  PROVE  /\ ~Unflagged(d).nonblock /\ Unflagged(d).raw = d.raw
         /\ Unflagged(d).on = d.on /\ Unflagged(d).depth = d.depth
BY DEF Devices, Unflagged

LEMMA CleanInit == Init => CleanInv
<1> SUFFICES ASSUME Init  PROVE CleanInv
  OBVIOUS
<1>1. ~device.raw /\ ~device.nonblock /\ device.on = {} /\ device.depth = 0
  BY DEF Init
<1>2. pc = "idle" /\ k = 1
  BY DEF Init
<1> QED  BY <1>1, <1>2 DEF CleanInv

\* Every step keeps the account of what is set on the device.
LEMMA CleanStep ==
  ASSUME TypeInv, PhaseInv, CleanInv, [Next]_termVars
  PROVE  CleanInv'
<1> terminal \in Handles /\ device \in Devices /\ k \in Nat \ {0}
     /\ caller \in {"none", "interrupted", "close"}
  BY DEF TypeInv
<1> USE DEF At, Goto, Return, Enter, CallRestore, control, counts, bridge, world, tty,
           CleanInv, Handles
<1>1. CASE UNCHANGED termVars
  BY <1>1 DEF termVars
<1>2. CASE \E s \in Signals : Arrive(s)
  BY <1>2 DEF Arrive, Devices
<1>3. CASE \E s \in Signals : Deliver(s)
  BY <1>3 DEF Deliver, Handle, Default
<1>4. CASE Drain
  BY <1>4 DEF Drain
<1>5. CASE Open
  BY <1>5 DEF Open, PhaseInv, Opening, NoTerminal
<1>6. CASE Poll
  BY <1>6 DEF Poll, Usable
<1>7. CASE Read
  BY <1>7 DEF Read, Usable
<1>8. CASE RefreshDimensions
  BY <1>8 DEF RefreshDimensions, Usable
<1>9. CASE Write
  BY <1>9 DEF Write, Usable
<1>10. CASE Close
  BY <1>10 DEF Close
<1>11. CASE Exit
  BY <1>11 DEF Exit, PhaseInv, Opening, NoTerminal
<1>12. CASE OpenSnapshot
  BY <1>12 DEF OpenSnapshot, OpenFails
<1>13. CASE OpenActions
  BY <1>13 DEF OpenActions, OpenFails
<1>14. CASE OpenTermios
  BY <1>14 DEF OpenTermios, OpenFails, Devices
<1>15. CASE OpenFlags
  <2>1. CASE pc' = "open_modes"
    <3>1. /\ terminal'.flags_changed /\ terminal'.termios_changed = terminal.termios_changed
          /\ device'.raw = device.raw /\ device'.on = device.on /\ device'.depth = device.depth
          /\ terminal'.modes_enabled = terminal.modes_enabled
          /\ pc = "open_flags" /\ process = "running" /\ k' = k /\ UNCHANGED <<process, lost>>
      BY <1>15, <2>1 DEF OpenFlags, OpenFails, Devices
    <3>2. "modes" \in lost \/ device.on = {}
      BY <3>1, <1>15 DEF PhaseInv, Opening, OpenFlags
    <3>3. Len(Modes) \in Nat /\ 1 <= Len(Modes) + 1
      BY TerminalConstants DEF TerminalConstants
    <3>4. "modes" \in lost \/ device.depth <= 0
      BY <3>1, <3>2
    <3> HIDE DEF Handles
    <3> QED  BY <2>1, <3>1, <3>2, <3>3, <3>4
  <2>2. CASE pc' # "open_modes"
    BY <1>15, <2>2 DEF OpenFlags, OpenFails
  <2> QED  BY <2>1, <2>2
<1>16. CASE OpenModes
  <2>1. /\ \/ device' = device
           \/ device' = Turn(Modes[k], device)
        /\ \/ pc' = "open_modes" /\ k' = k + 1 /\ device' = Turn(Modes[k], device)
           \/ pc' = "undo_termios" /\ k' = k
        /\ pc = "open_modes" /\ process = "running" /\ k <= Len(Modes)
        /\ UNCHANGED <<process, terminal, lost>>
    BY <1>16 DEF OpenModes, OpenFails
  <2>2. Modes[k] \in Range(Modes)
    BY <2>1, TerminalConstants DEF Range
  <2>3. "modes" \in lost \/ Modes[k] \notin device.on
    BY <2>1, TerminalConstants DEF CleanInv
  <2>4. /\ device'.raw = device.raw /\ device'.nonblock = device.nonblock
        /\ device'.on \in {device.on, device.on \cup {Modes[k]}}
        /\ "modes" \in lost \/ device'.depth <= IF Keyboard \in device'.on THEN 1 ELSE 0
    BY <2>1, <2>2, <2>3, TurnEffect DEF CleanInv
  <2>5. "modes" \in lost \/ pc' = "undo_termios" \/
          \A mode \in device'.on : \E j \in 1 .. k' - 1 : Modes[j] = mode
    <3> SUFFICES ASSUME "modes" \notin lost, pc' # "undo_termios", NEW mode \in device'.on
                 PROVE  \E j \in 1 .. k' - 1 : Modes[j] = mode
      OBVIOUS
    <3>1. k' = k + 1
      BY <2>1
    <3>2. CASE mode = Modes[k]
      BY <3>1, <3>2
    <3>3. CASE mode \in device.on
      BY <2>1, <3>1, <3>3 DEF CleanInv
    <3> QED  BY <2>4, <3>2, <3>3
  <2>6. k' \in Nat \ {0} /\ k' <= Len(Modes) + 1
    BY <2>1, TerminalConstants
  <2> QED  BY <2>1, <2>4, <2>5, <2>6
<1>17. CASE OpenActivate
  BY <1>17, ZenonT(60) DEF OpenActivate, OpenFails
<1>18. CASE UndoTermios
  BY <1>18 DEF UndoTermios, Devices
<1>19. CASE UndoRest
  <2>1. /\ pc = "undo_rest" /\ process = "running" /\ pc' = "idle" /\ k' = 1
        /\ terminal' = NoTerminal /\ UNCHANGED process
    BY <1>19 DEF UndoRest
  <2>2. /\ Unflagged(device) \in Devices /\ ~Unflagged(device).nonblock
        /\ Unflagged(device).raw = device.raw /\ Unflagged(device).on = device.on
        /\ Unflagged(device).depth = device.depth
    BY <2>1, UnflaggedTypes, UnflaggedEffect
  <2>3. CASE terminal.modes_enabled \/ terminal.termios_changed
    <3>1. Disable(Range(Modes), Unflagged(device))
      BY <1>19, <2>3 DEF UndoRest
    <3>2. /\ "modes" \in lost' \/ (device'.on = {} /\ device'.depth <= 0)
          /\ lost \subseteq lost'
          /\ ~device'.nonblock /\ device'.raw = device.raw
      BY <2>1, <2>2, <3>1, DisableEffect
    <3> QED  BY <2>1, <3>2 DEF NoTerminal
  <2>4. CASE ~(terminal.modes_enabled \/ terminal.termios_changed)
    <3>1. device' = Unflagged(device) /\ lost' = lost
      BY <1>19, <2>4 DEF UndoRest
    <3> QED  BY <2>1, <2>2, <2>4, <3>1 DEF NoTerminal
  <2> QED  BY <2>3, <2>4
<1>20. CASE Restore
  BY <1>20 DEF Restore
<1>21. CASE RestoreTermios
  BY <1>21 DEF RestoreTermios, SetTermios, Devices
<1>22. CASE RestoreRest
  <2>1. /\ pc = "restore_rest" /\ process = "running" /\ UNCHANGED process
        /\ pc' = caller /\ caller \in {"interrupted", "close"}
        /\ ~terminal'.flags_changed /\ ~terminal'.modes_enabled
        /\ ~terminal.termios_changed
    BY <1>22 DEF RestoreRest, TypeInv, Restoring, Handles, PhaseInv
  <2>2. /\ Unflagged(device) \in Devices /\ ~Unflagged(device).nonblock
        /\ Unflagged(device).raw = device.raw /\ Unflagged(device).on = device.on
        /\ Unflagged(device).depth = device.depth
    BY <2>1, UnflaggedTypes, UnflaggedEffect
  <2>3. CASE terminal.modes_enabled
    <3>1. Disable(Range(Modes), Unflagged(device))
      BY <1>22, <2>3 DEF RestoreRest
    <3>2. /\ "modes" \in lost' \/ (device'.on = {} /\ device'.depth <= 0)
          /\ lost \subseteq lost'
          /\ ~device'.nonblock /\ device'.raw = device.raw
      BY <2>1, <2>2, <3>1, DisableEffect
    <3> QED  BY <2>1, <3>2
  <2>4. CASE ~terminal.modes_enabled
    <3>1. device' = Unflagged(device) /\ lost' = lost
      BY <1>22, <2>4 DEF RestoreRest
    <3> QED  BY <2>1, <2>2, <2>4, <3>1
  <2> QED  BY <2>3, <2>4
<1>23. CASE ReturnInterrupted
  BY <1>23 DEF ReturnInterrupted
<1>24. CASE PollInterrupted
  BY <1>24 DEF PollInterrupted
<1>25. CASE PollMarked
  BY <1>25 DEF PollMarked
<1>26. CASE PollCheck
  BY <1>26 DEF PollCheck
<1>27. CASE PollBlock
  BY <1>27 DEF PollBlock
<1>28. CASE PollDrain
  BY <1>28 DEF PollDrain
<1>29. CASE PollObserve
  BY <1>29 DEF PollObserve
<1>30. CASE PollReset
  BY <1>30 DEF PollReset
<1>31. CASE PollSize
  BY <1>31, ZenonT(60) DEF PollSize
<1>32. CASE WriteCheck
  BY <1>32 DEF WriteCheck
<1>33. CASE WriteSome
  BY <1>33 DEF WriteSome
<1>34. CASE WriteWouldBlock
  BY <1>34 DEF WriteWouldBlock
<1>35. CASE WriteInterrupted
  BY <1>35 DEF WriteInterrupted
<1>36. CASE WriteWait
  BY <1>36 DEF WriteWait
<1>37. CASE CloseReturns
  <2>1. /\ ~terminal.termios_changed /\ ~terminal.flags_changed /\ ~terminal.modes_enabled
        /\ terminal' = NoTerminal /\ pc = "close" /\ pc' = "idle" /\ k' = 1
        /\ UNCHANGED <<process, device, lost>>
    BY <1>37 DEF CloseReturns, PhaseInv, Opening
  <2> QED  BY <2>1 DEF NoTerminal
<1>38. CASE ExitTermios
  BY <1>38 DEF ExitTermios, SetTermios, Devices
<1>39. CASE ExitRest
  <2>1. /\ pc = "exit_rest" /\ process = "running" /\ process' = "exited"
        /\ UNCHANGED <<pc, terminal>>
    BY <1>39 DEF ExitRest
  <2>2. /\ [device EXCEPT !.nonblock = FALSE] \in Devices
        /\ ~[device EXCEPT !.nonblock = FALSE].nonblock
        /\ [device EXCEPT !.nonblock = FALSE].raw = device.raw
        /\ [device EXCEPT !.nonblock = FALSE].on = device.on
        /\ [device EXCEPT !.nonblock = FALSE].depth = device.depth
    BY DEF Devices
  <2>3. Disable(Range(Modes) \cup {Keyboard}, [device EXCEPT !.nonblock = FALSE])
    BY <1>39 DEF ExitRest
  <2>4. /\ "modes" \in lost' \/ (device'.on = {} /\ device'.depth <= 0)
        /\ lost \subseteq lost'
        /\ ~device'.nonblock /\ device'.raw = device.raw
    BY <2>1, <2>2, <2>3, DisableEffect
  <2> QED  BY <2>1, <2>4
<1>40. CASE PollInput
  BY <1>40 DEF PollInput
<1> QED
  BY <1>1, <1>2, <1>3, <1>4, <1>5, <1>6, <1>7, <1>8, <1>9, <1>10, <1>11, <1>12, <1>13,
     <1>14, <1>15, <1>16, <1>17, <1>18, <1>19, <1>20, <1>21, <1>22, <1>23, <1>24,
     <1>25, <1>26, <1>27, <1>28, <1>29, <1>30, <1>31, <1>32, <1>33, <1>34, <1>35,
     <1>36, <1>37, <1>38, <1>39, <1>40
     DEF Next, Environment, Application, Thread

-----------------------------------------------------------------------------
(* The keyboard protocols *)

LEMMA PushedFacts ==
  /\ Pushed(0) = 0 /\ \A n : Pushed(n) \in {0, 1}
  /\ \A n \in 1..Len(Modes) :
       Pushed(n) = Pushed(n - 1) + IF Modes[n] = Keyboard THEN 1 ELSE 0
  /\ Pushed(Len(Modes)) = 1 <=> Keyboard \in Range(Modes)
<1>1. Pushed(0) = 0 /\ \A n : Pushed(n) \in {0, 1}
  BY DEF Pushed
<1>2. ASSUME NEW n \in 1..Len(Modes)
      PROVE  Pushed(n) = Pushed(n - 1) + IF Modes[n] = Keyboard THEN 1 ELSE 0
  <2>1. Len(Modes) \in Nat
    BY TerminalConstants
  <2>2. CASE Modes[n] = Keyboard
    <3>1. ~\E j \in 1..(n - 1) : Modes[j] = Keyboard
      BY <2>1, <2>2, TerminalConstants
    <3>2. \E j \in 1..n : Modes[j] = Keyboard
      BY <2>1, <2>2
    <3> QED  BY <2>2, <3>1, <3>2 DEF Pushed
  <2>3. CASE Modes[n] # Keyboard
    <3>1. (\E j \in 1..n : Modes[j] = Keyboard) <=> (\E j \in 1..(n - 1) : Modes[j] = Keyboard)
      BY <2>1, <2>3
    <3> QED  BY <2>3, <3>1 DEF Pushed
  <2> QED  BY <2>2, <2>3
<1>3. Keyboard \in Range(Modes) <=> \E j \in 1..Len(Modes) : Modes[j] = Keyboard
  BY TerminalConstants DEF Range
<1> QED  BY <1>1, <1>2, <1>3 DEF Pushed

\* What disabling the modes does to the stack: one pop at most, and exactly the
\* protocol of a configuration that selects one unless a sequence is refused.
LEMMA PopEffect ==
  ASSUME NEW d \in Devices, NEW all \in {Range(Modes), Range(Modes) \cup {Keyboard}},
         Disable(all, d)
  PROVE  /\ device'.depth \in {d.depth, d.depth - 1}
         /\ lost \subseteq lost'
         /\ all = Range(Modes) =>
              /\ device'.depth = d.depth - Pushed(Len(Modes)) \/ "modes" \in lost'
              /\ Pushed(Len(Modes)) = 0 => device'.depth = d.depth
<1>1. PICK modes \in SUBSET all :
        /\ device' = TurnOff(modes, d)
        /\ lost' = IF modes = all THEN lost ELSE lost \cup {"modes"}
  BY DEF Disable
<1>2. d.depth \in Int
  BY DEF Devices
<1>3. device'.depth = IF Keyboard \in modes THEN d.depth - 1 ELSE d.depth
  BY <1>1 DEF Devices, TurnOff
<1>4. Pushed(Len(Modes)) = IF Keyboard \in Range(Modes) THEN 1 ELSE 0
  BY PushedFacts
<1> QED  BY <1>1, <1>2, <1>3, <1>4

LEMMA ProtocolInit == Init => ProtocolInv
<1> SUFFICES ASSUME Init  PROVE ProtocolInv
  OBVIOUS
<1>1. device.depth = 0 /\ opens = 0 /\ terminal = NoTerminal
  BY DEF Init
<1> QED  BY <1>1 DEF ProtocolInv, NoTerminal

\* A step that leaves the stack, the handle's account of it and the phase alone.
LEMMA ProtocolKept ==
  ASSUME TypeInv, PhaseInv, ProtocolInv, process' \in {process, "exited", "killed"},
         device'.depth = device.depth, opens' = opens, "modes" \in lost => "modes" \in lost',
         terminal'.open = terminal.open, terminal'.found = terminal.found,
         terminal'.modes_enabled = terminal.modes_enabled,
         (pc' = pc /\ k' = k) \/ (pc \notin Opening /\ pc' \notin Opening)
  PROVE  ProtocolInv'
<1> device.depth \in Int /\ terminal.found \in Int
  BY DEF TypeInv, Devices, Handles
<1>1. Pushed(Len(Modes)) \in {0, 1} /\ Pushed(k - 1) \in {0, 1}
  BY PushedFacts
<1>2. terminal.open /\ process = "running" => device.depth >= -opens
  BY <1>1 DEF ProtocolInv, PhaseInv, TypeInv, Opening
<1> QED  BY <1>1, <1>2 DEF ProtocolInv, Opening

\* Every step keeps the account of the keyboard protocols.
LEMMA ProtocolStep ==
  ASSUME TypeInv, PhaseInv, CleanInv, ProtocolInv, [Next]_termVars
  PROVE  ProtocolInv'
<1> terminal \in Handles /\ device \in Devices /\ k \in Nat \ {0} /\ opens \in Nat
     /\ device.depth \in Int /\ terminal.found \in Int
     /\ caller \in {"none", "interrupted", "close"}
     /\ (pc \in Restoring => caller # "none")
  BY DEF TypeInv, ProtocolInv, Handles, Devices
<1> USE DEF At, Goto, Return, Enter, CallRestore, control, counts, bridge, world, tty, Handles,
           Opening
<1>1. CASE UNCHANGED termVars
  BY <1>1, ProtocolKept DEF termVars
<1>2. CASE \E s \in Signals : Arrive(s)
  BY <1>2, ProtocolKept DEF Arrive, Devices
<1>3. CASE \E s \in Signals : Deliver(s)
  BY <1>3, ProtocolKept DEF Deliver, Handle, Default
<1>4. CASE Drain
  BY <1>4, ProtocolKept DEF Drain
<1>5. CASE Open
  <2>1. CASE global.active
    <3>1. pc = "idle" /\ pc' = "idle" /\ UNCHANGED <<process, terminal, device, lost>>
          /\ opens' = opens + 1 /\ process = "running"
      BY <1>5, <2>1 DEF Open
    <3> QED  BY <3>1 DEF ProtocolInv
  <2>2. CASE ~global.active
    <3>1. /\ pc = "idle" /\ process = "running" /\ pc' = "open_snapshot"
          /\ terminal' = [NoTerminal EXCEPT !.open = TRUE, !.found = device.depth]
          /\ opens' = opens + 1 /\ UNCHANGED <<process, device, lost>>
      BY <1>5, <2>2 DEF Open
    <3>2. ~terminal.open
      BY <2>2, <3>1 DEF PhaseInv
    <3>3. terminal'.open /\ terminal'.found = device.depth
      BY <3>1 DEF NoTerminal
    <3>4. device.depth >= -opens
      BY <3>2 DEF ProtocolInv
    <3> QED  BY <3>1, <3>3, <3>4 DEF ProtocolInv
  <2> QED  BY <2>1, <2>2
<1>6. CASE Poll
  BY <1>6, ProtocolKept DEF Poll, Usable
<1>7. CASE Read
  BY <1>7, ProtocolKept DEF Read, Usable
<1>8. CASE RefreshDimensions
  BY <1>8, ProtocolKept DEF RefreshDimensions, Usable
<1>9. CASE Write
  BY <1>9, ProtocolKept DEF Write, Usable
<1>10. CASE Close
  BY <1>10, ProtocolKept DEF Close
<1>11. CASE Exit
  BY <1>11, ProtocolKept DEF Exit
<1>12. CASE OpenSnapshot
  BY <1>12 DEF OpenSnapshot, OpenFails, ProtocolInv
<1>13. CASE OpenActions
  BY <1>13 DEF OpenActions, OpenFails, ProtocolInv
<1>14. CASE OpenTermios
  BY <1>14 DEF OpenTermios, OpenFails, Devices, ProtocolInv
<1>15. CASE OpenFlags
  <2>1. /\ pc = "open_flags" /\ process = "running" /\ k' = k
        /\ device'.depth = device.depth /\ terminal'.found = terminal.found
        /\ terminal'.open = terminal.open /\ UNCHANGED <<process, opens>>
        /\ pc' \in {"open_modes", "undo_termios"}
    BY <1>15 DEF OpenFlags, OpenFails, Devices
  <2>2. k = 1 /\ Pushed(0) = 0 /\ terminal.open
    BY <2>1, PushedFacts DEF CleanInv, PhaseInv
  <2> QED  BY <2>1, <2>2 DEF ProtocolInv
<1>16. CASE OpenModes
  <2>1. /\ \/ device' = device
           \/ device' = Turn(Modes[k], device)
        /\ \/ pc' = "open_modes" /\ k' = k + 1 /\ device' = Turn(Modes[k], device)
           \/ pc' = "undo_termios" /\ k' = k
        /\ pc = "open_modes" /\ process = "running" /\ k <= Len(Modes)
        /\ UNCHANGED <<process, terminal, lost, opens>>
    BY <1>16 DEF OpenModes, OpenFails
  <2>2. Modes[k] \in Range(Modes) /\ k \in 1..Len(Modes) /\ Len(Modes) \in Nat
    BY <2>1, TerminalConstants DEF Range
  <2>3. Turn(Modes[k], device).depth
          = device.depth + IF Modes[k] = Keyboard THEN 1 ELSE 0
    BY <2>2, TurnEffect
  <2>4. /\ Pushed(k) = Pushed(k - 1) + IF Modes[k] = Keyboard THEN 1 ELSE 0
        /\ Pushed(k) \in {0, 1} /\ Pushed(k - 1) \in {0, 1}
    BY <2>2, PushedFacts
  <2>5. terminal.open /\ device.depth = terminal.found + Pushed(k - 1)
    BY <2>1 DEF ProtocolInv, PhaseInv
  <2>6. CASE pc' = "open_modes"
    <3>1. k' = k + 1 /\ device'.depth = terminal.found + Pushed(k)
      BY <2>1, <2>3, <2>4, <2>5, <2>6
    <3>2. k' - 1 = k
      BY <3>1
    <3> QED  BY <2>1, <2>5, <2>6, <3>1, <3>2 DEF ProtocolInv
  <2>7. CASE pc' = "undo_termios"
    <3>1. device'.depth \in {terminal.found, terminal.found + 1}
      BY <2>1, <2>3, <2>4, <2>5
    <3> QED  BY <2>1, <2>5, <2>7, <3>1 DEF ProtocolInv
  <2> QED  BY <2>1, <2>6, <2>7
<1>17. CASE OpenActivate
  <2>1. /\ pc = "open_modes" /\ process = "running" /\ k > Len(Modes)
        /\ terminal'.modes_enabled /\ terminal'.open = terminal.open
        /\ terminal'.found = terminal.found /\ pc' \in {"idle", "undo_termios"}
        /\ UNCHANGED <<process, device, lost, opens>>
    BY <1>17, ZenonT(60) DEF OpenActivate, OpenFails
  <2>2. k - 1 = Len(Modes)
    BY <2>1, TerminalConstants DEF CleanInv
  <2>3. terminal.open /\ device.depth = terminal.found + Pushed(Len(Modes))
    BY <2>1, <2>2 DEF ProtocolInv, PhaseInv
  <2>4. Pushed(Len(Modes)) \in {0, 1}
    BY PushedFacts
  <2> QED  BY <2>1, <2>3, <2>4 DEF ProtocolInv
<1>18. CASE UndoTermios
  BY <1>18 DEF UndoTermios, ProtocolInv, Devices
<1>19. CASE UndoRest
  <2>1. /\ pc = "undo_rest" /\ process = "running" /\ pc' = "idle"
        /\ terminal' = NoTerminal /\ UNCHANGED <<process, opens>>
    BY <1>19 DEF UndoRest
  <2>2. Unflagged(device) \in Devices /\ Unflagged(device).depth = device.depth
    BY UnflaggedTypes DEF Unflagged, Devices
  <2>3. device'.depth \in {device.depth, device.depth - 1}
    <3>1. CASE terminal.modes_enabled \/ terminal.termios_changed
      BY <1>19, <2>2, <3>1, PopEffect DEF UndoRest
    <3>2. CASE ~(terminal.modes_enabled \/ terminal.termios_changed)
      BY <1>19, <2>2, <3>2 DEF UndoRest
    <3> QED  BY <3>1, <3>2
  <2>4. terminal.open
    BY <2>1 DEF PhaseInv
  <2>5. device'.depth >= -opens
    BY <2>1, <2>3, <2>4 DEF ProtocolInv
  <2> QED  BY <2>1, <2>5 DEF ProtocolInv, NoTerminal
<1>20. CASE Restore
  BY <1>20, ProtocolKept DEF Restore, Restoring
<1>21. CASE RestoreTermios
  BY <1>21, ProtocolKept DEF RestoreTermios, SetTermios, Devices, Restoring
<1>22. CASE RestoreRest
  <2>1. /\ pc = "restore_rest" /\ process = "running" /\ UNCHANGED <<process, opens>>
        /\ pc' \in {"interrupted", "close"} /\ ~terminal'.modes_enabled
        /\ terminal'.open = terminal.open /\ terminal'.found = terminal.found
    BY <1>22 DEF RestoreRest, Restoring
  <2>2. Unflagged(device) \in Devices /\ Unflagged(device).depth = device.depth
    BY UnflaggedTypes DEF Unflagged, Devices
  <2>3. terminal.open
    BY <2>1 DEF PhaseInv
  <2>4. Pushed(Len(Modes)) \in {0, 1}
    BY PushedFacts
  <2>5. CASE terminal.modes_enabled
    <3>1. Disable(Range(Modes), Unflagged(device))
      BY <1>22, <2>5 DEF RestoreRest
    <3>2. /\ device'.depth \in {device.depth, device.depth - 1}
          /\ device'.depth = device.depth - Pushed(Len(Modes)) \/ "modes" \in lost'
          /\ Pushed(Len(Modes)) = 0 => device'.depth = device.depth
      BY <2>2, <3>1, PopEffect
    <3>3. device.depth = terminal.found + Pushed(Len(Modes))
      BY <2>1, <2>3, <2>5 DEF ProtocolInv
    <3>4. /\ device'.depth \in {terminal.found, terminal.found + 1}
          /\ device'.depth = terminal.found \/ "modes" \in lost'
      BY <2>4, <3>2, <3>3
    <3> QED  BY <2>1, <2>3, <3>4 DEF ProtocolInv
  <2>6. CASE ~terminal.modes_enabled
    <3>1. device' = Unflagged(device) /\ lost' = lost
      BY <1>22, <2>6 DEF RestoreRest
    <3> QED  BY <2>1, <2>2, <2>3, <2>6, <3>1 DEF ProtocolInv
  <2> QED  BY <2>5, <2>6
<1>23. CASE ReturnInterrupted
  BY <1>23, ProtocolKept DEF ReturnInterrupted
<1>24. CASE PollInterrupted
  BY <1>24, ProtocolKept DEF PollInterrupted
<1>25. CASE PollMarked
  BY <1>25, ProtocolKept DEF PollMarked
<1>26. CASE PollCheck
  BY <1>26, ProtocolKept DEF PollCheck
<1>27. CASE PollBlock
  BY <1>27, ProtocolKept DEF PollBlock
<1>28. CASE PollDrain
  BY <1>28, ProtocolKept DEF PollDrain
<1>29. CASE PollObserve
  BY <1>29, ProtocolKept DEF PollObserve
<1>30. CASE PollReset
  BY <1>30, ProtocolKept DEF PollReset
<1>31. CASE PollSize
  BY <1>31, ProtocolKept, ZenonT(60) DEF PollSize
<1>32. CASE WriteCheck
  BY <1>32, ProtocolKept DEF WriteCheck
<1>33. CASE WriteSome
  BY <1>33, ProtocolKept DEF WriteSome
<1>34. CASE WriteWouldBlock
  BY <1>34, ProtocolKept DEF WriteWouldBlock
<1>35. CASE WriteInterrupted
  BY <1>35, ProtocolKept DEF WriteInterrupted
<1>36. CASE WriteWait
  BY <1>36, ProtocolKept DEF WriteWait
<1>37. CASE CloseReturns
  <2>1. /\ pc = "close" /\ process = "running" /\ pc' = "idle"
        /\ terminal' = NoTerminal /\ UNCHANGED <<process, opens, device, lost>>
    BY <1>37 DEF CloseReturns
  <2>2. terminal.open /\ Pushed(Len(Modes)) \in {0, 1}
    BY <2>1, PushedFacts DEF PhaseInv
  <2>3. device.depth >= -opens
    BY <2>1, <2>2 DEF ProtocolInv
  <2> QED  BY <2>1, <2>3 DEF ProtocolInv, NoTerminal
<1>38. CASE ExitTermios
  BY <1>38, ProtocolKept DEF ExitTermios, SetTermios, Devices
<1>39. CASE ExitRest
  <2>1. /\ pc = "exit_rest" /\ process = "running" /\ process' = "exited"
        /\ UNCHANGED <<terminal, opens>>
    BY <1>39 DEF ExitRest
  <2>2. /\ [device EXCEPT !.nonblock = FALSE] \in Devices
        /\ [device EXCEPT !.nonblock = FALSE].depth = device.depth
    BY DEF Devices
  <2>3. device'.depth \in {device.depth, device.depth - 1}
    BY <1>39, <2>2, PopEffect DEF ExitRest
  <2>4. terminal.open /\ Pushed(Len(Modes)) \in {0, 1}
    BY <2>1, PushedFacts DEF PhaseInv
  <2>5. device'.depth >= -opens
    BY <2>1, <2>3, <2>4 DEF ProtocolInv
  <2> QED  BY <2>1, <2>5 DEF ProtocolInv
<1>40. CASE PollInput
  BY <1>40, ProtocolKept DEF PollInput
<1> QED
  BY <1>1, <1>2, <1>3, <1>4, <1>5, <1>6, <1>7, <1>8, <1>9, <1>10, <1>11, <1>12, <1>13,
     <1>14, <1>15, <1>16, <1>17, <1>18, <1>19, <1>20, <1>21, <1>22, <1>23, <1>24,
     <1>25, <1>26, <1>27, <1>28, <1>29, <1>30, <1>31, <1>32, <1>33, <1>34, <1>35,
     <1>36, <1>37, <1>38, <1>39, <1>40
     DEF Next, Environment, Application, Thread

-----------------------------------------------------------------------------
(* Theorems *)

IInv == TypeInv /\ PhaseInv /\ WakeInv /\ SizeInv /\ CleanInv /\ ProtocolInv

LEMMA InvariantHolds == Spec => []IInv
<1>1. Init => IInv
  BY TypeInit, PhaseInit, WakeInit, SizeInit, CleanInit, ProtocolInit DEF IInv
<1>2. IInv /\ [Next]_termVars => IInv'
  BY TypeStep, PhaseStep, WakeStep, SizeStep, CleanStep, ProtocolStep DEF IInv
<1> QED  BY <1>1, <1>2, PTL DEF Spec

\* aforc_terminal_poll never sleeps on a signal that has been recorded: there is a
\* marker in the self-pipe, or the call was interrupted.  Whatever the size of the pipe
\* and however many signals come.
THEOREM NothingIsSleptOn == Spec => []NoLostWakeup
<1>1. IInv => NoLostWakeup
  BY DEF IInv, WakeInv, NoLostWakeup
<1> QED  BY <1>1, InvariantHolds, PTL

\* While the handle is usable, a window whose size it does not know has a resize on its
\* way: pending, recorded, taken, or refused by the device.
THEOREM ResizesAreRemembered == Spec => []ResizeIsRemembered
<1>1. IInv => ResizeIsRemembered
  BY DEF IInv, SizeInv, Sized, ResizeIsRemembered
<1> QED  BY <1>1, InvariantHolds, PTL

\* However a use of the terminal ends, by a close, a failed open, the exit hook or a
\* signal, the device is given back: line discipline, flags and modes as they were found
\* but for what the device refused, no protocol left pushed and at most one popped too
\* many for each open, and none at all by a close or a call that restored the terminal.
\* Whatever modes the configuration selects.
THEOREM DeviceComesBack == Spec => []DeviceIsRestored
<1>1. ASSUME IInv  PROVE DeviceIsRestored
  <2> USE <1>1 DEF IInv
  <2> device.depth \in Int
    BY DEF TypeInv, Devices
  <2>1. NoUncaughtDeath
    BY DEF PhaseInv, NoUncaughtDeath
  <2>2. ASSUME process = "exited" \/ (process = "running" /\ ~terminal.open)
        PROVE  /\ ~device.nonblock
               /\ device.raw => "termios" \in lost
               /\ device.on # {} => "modes" \in lost
               /\ device.depth > 0 => "modes" \in lost
               /\ device.depth >= -opens
    <3>1. process = "running" => /\ ~terminal.termios_changed /\ ~terminal.flags_changed
                                 /\ ~terminal.modes_enabled
      BY <2>2 DEF PhaseInv, NoTerminal
    <3>2. process # "killed"
      BY <2>2
    <3>3. device.on = {} \/ "modes" \in lost
      BY <2>2, <3>1, <3>2 DEF CleanInv
    <3>4. device.depth <= 0 \/ "modes" \in lost
      BY <3>2, <3>3 DEF CleanInv
    <3>5. device.depth >= -opens
      BY <2>2 DEF ProtocolInv
    <3> QED  BY <2>2, <3>1, <3>2, <3>3, <3>4, <3>5 DEF CleanInv
  <2>3. RestoredIsExact
    <3> SUFFICES ASSUME process = "running", terminal.restored
                 PROVE  device.depth = terminal.found \/ "modes" \in lost
      BY DEF RestoredIsExact
    <3>1. terminal.open /\ ~terminal.modes_enabled /\ pc \notin Opening
      BY DEF PhaseInv, NoTerminal
    <3> QED  BY <3>1 DEF ProtocolInv
  <2> QED  BY <2>1, <2>2, <2>3 DEF DeviceIsRestored, ClosedIsClean
<1> QED  BY <1>1, InvariantHolds, PTL

=============================================================================
