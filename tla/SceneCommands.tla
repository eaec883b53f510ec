---------------------------- MODULE SceneCommands ----------------------------
(***************************************************************************)
(* What the engine promises about deferred scene commands (engine.h): they *)
(* are carried out one at a time and in the order of the requests, and the *)
(* requests a command's own callbacks make stand or fall with it.          *)
(***************************************************************************)
EXTENDS Integers, Sequences

CONSTANT Command    \* the set of commands

VARIABLES
  maxPending,   \* the number of commands the queue was made to hold
  pending,      \* accepted commands not begun, in the order of the requests
  active,       \* the command being carried out, at most one
  spawned,      \* commands requested since the active one began
  owned,        \* the engine exists
  verdict       \* the status the active command returned, when it returns

commandVars == <<maxPending, pending, active, spawned>>

Init == pending = <<>> /\ active = <<>> /\ spawned = <<>>

Room == Len(pending) + Len(spawned) < maxPending

Request ==
  /\ Room
  /\ \E c \in Command :
       IF active = <<>>
       THEN pending' = Append(pending, c) /\ UNCHANGED spawned
       ELSE spawned' = Append(spawned, c) /\ UNCHANGED pending
  /\ UNCHANGED active

Start ==
  /\ active = <<>>
  /\ pending # <<>>
  /\ active' = <<Head(pending)>>
  /\ pending' = Tail(pending)
  /\ UNCHANGED spawned

Commit ==
  /\ active # <<>>
  /\ verdict = "ok"
  /\ pending' = pending \o spawned
  /\ active' = <<>>
  /\ spawned' = <<>>

Abort ==
  /\ active # <<>>
  /\ verdict # "ok"
  /\ active' = <<>>
  /\ spawned' = <<>>
  /\ UNCHANGED pending

\* The owner destroys the engine and everything it had accepted.
Discard == ~owned' /\ pending' = <<>> /\ active' = <<>> /\ spawned' = <<>>

Next ==
  /\ Request \/ Start \/ Commit \/ Abort \/ Discard
  /\ UNCHANGED maxPending
Spec == Init /\ [][Next]_commandVars

=============================================================================
