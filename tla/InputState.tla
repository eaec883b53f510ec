------------------------------ MODULE InputState ------------------------------
(***************************************************************************)
(* The state of one input object and the operations of input_queue.c and   *)
(* input_state.c on it: the bounded event queue, the keys and buttons that *)
(* are held, and the leases that end a key no terminal reports the release *)
(* of.  Every operation maps the state of the object to its next state, as *)
(* the C functions change the structure they are given.                    *)
(*                                                                         *)
(* Time is relative: where the code stores the instant a lease or a        *)
(* pending escape expires, the model stores how long is left, and Elapse   *)
(* takes time off.  Keys are the numbers of AFORC_Key.                     *)
(***************************************************************************)
EXTENDS Integers, Sequences, FiniteSetsExt, SequencesExt, Functions, Folds

CONSTANTS
  KeyTimeout,      \* key_release_timeout_ms
  EscapeTimeout,   \* escape_timeout_ms
  DropLimit        \* where dropped_events saturates; UINT64_MAX in the code

ASSUME InputStateConstants ==
  /\ DropLimit \in Nat \ {0} /\ KeyTimeout \in Nat /\ EscapeTimeout \in Nat

Keys    == 1..319
Buttons == {"left", "middle", "right", "button4", "button5"}
NotPending == -1

\* aforc_input_create, with the configured event_capacity
Created(capacity) ==
  [capacity |-> capacity, events |-> <<>>, dropped |-> 0, overflowed |-> FALSE,
   bytes |-> <<>>, escape |-> NotPending, paste |-> FALSE,
   mode |-> "synthetic",
   held |-> {}, pressed |-> {}, released |-> {}, explicit |-> {}, lease |-> <<>>,
   buttons |-> [held |-> {}, pressed |-> {}, released |-> {}],
   mouse |-> <<-1, -1>>]

\* A full queue drops the newest event: what was accepted keeps its order.
QueueEvent(in, event) ==
  IF Len(in.events) = in.capacity
  THEN [in EXCEPT !.dropped = IF @ < DropLimit THEN @ + 1 ELSE @, !.overflowed = TRUE]
  ELSE [in EXCEPT !.events = Append(@, event)]

\* What a call returns for it.
Overflow(in) == IF in.overflowed THEN "limit" ELSE "ok"

EmitText(in, codepoint) == QueueEvent(in, [type |-> "text", codepoint |-> codepoint])

\* aforc_input_internal_emit_key_down: a key that is held already repeats.
HoldKey(in, key, explicit) ==
  [in EXCEPT !.pressed  = IF key \in in.held THEN @ ELSE @ \cup {key},
             !.held     = @ \cup {key},
             !.explicit = IF explicit THEN @ \cup {key} ELSE @ \ {key},
             !.lease    = [k \in DOMAIN @ \cup {key} |->
                             IF k # key THEN @[k] ELSE IF explicit THEN 0 ELSE KeyTimeout]]

\* A key that types a character, and is no shortcut, emits it too.
WithText(in, codepoint, modifiers, text) ==
  IF text /\ codepoint # 0 /\ modifiers \cap {"alt", "ctrl", "super"} = {}
  THEN EmitText(in, codepoint)
  ELSE in

EmitKeyDown(in, key, codepoint, modifiers, repeat, explicit, text) ==
  LET event == [type |-> "down", key |-> key, codepoint |-> codepoint,
                modifiers |-> modifiers, repeat |-> repeat \/ key \in in.held]
  IN WithText(IF key \in Keys THEN QueueEvent(HoldKey(in, key, explicit), event) ELSE in,
              codepoint, modifiers, text)

EmitKeyUp_KeepHeld(in, key, codepoint, modifiers) ==
  QueueEvent([in EXCEPT !.released = @ \cup {key}, !.explicit = @ \ {key}],
             [type |-> "up", key |-> key, codepoint |-> codepoint,
              modifiers |-> modifiers, repeat |-> FALSE])

EmitKeyUp(in, key, codepoint, modifiers) ==
  LET up == [in EXCEPT !.held = @ \ {key}, !.released = @ \cup {key},
                       !.explicit = @ \ {key}, !.lease = Restrict(@, DOMAIN @ \ {key})]
  IN IF key \in Keys
     THEN QueueEvent(up, [type |-> "up", key |-> key, codepoint |-> codepoint,
                          modifiers |-> modifiers, repeat |-> FALSE])
     ELSE in

\* The keys of a set go up in the order of the table: the largest last.
ReleaseKeys(in, keys) ==
  MapThenFoldSet(LAMBDA key, s : EmitKeyUp(s, key, 0, {}), in, LAMBDA key : key, Max, keys)

ReleaseExpired(in) ==
  ReleaseKeys(in, {key \in in.held \ in.explicit : in.lease[key] = 0})

Switched(was, button, down) ==
  IF down THEN [was EXCEPT !.pressed = IF button \in was.held THEN @ ELSE @ \cup {button},
                           !.held = @ \cup {button}]
  ELSE [was EXCEPT !.held = @ \ {button}, !.released = @ \cup {button}]

EmitMouseButton(in, button, down, modifiers) ==
  IF button \in Buttons
  THEN QueueEvent([in EXCEPT !.buttons = Switched(in.buttons, button, down)],
                  [type |-> IF down THEN "mouse_down" ELSE "mouse_up", button |-> button,
                   position |-> in.mouse, modifiers |-> modifiers])
  ELSE in

EmitMouseMove(in, button, modifiers) ==
  QueueEvent(in, [type |-> "mouse_move", button |-> button,
                  position |-> in.mouse, modifiers |-> modifiers])

ReleaseMouseButtons(in, modifiers) ==
  LET Up(s, button) == IF button \in s.buttons.held
                       THEN EmitMouseButton(s, button, FALSE, modifiers) ELSE s
  IN Up(Up(Up(Up(Up(in, "left"), "middle"), "right"), "button4"), "button5")

ReleaseAll(in) == ReleaseMouseButtons(ReleaseKeys(in, in.held), {})

Deadlines_EscapeOnly(in) == IF in.escape = NotPending THEN {} ELSE {in.escape}

\* The deadlines a poll may not sleep past, and how long it may sleep: -1 for
\* ever.
Deadlines(in) ==
  {in.lease[key] : key \in in.held \ in.explicit}
    \cup (IF in.escape = NotPending THEN {} ELSE {in.escape})

EffectiveTimeout(in, timeout) ==
  LET limits == Deadlines(in) \cup (IF timeout < 0 THEN {} ELSE {timeout})
  IN IF limits = {} THEN -1 ELSE Min(limits)

\* Time passes.
Elapse(in, time) ==
  LET Left(t) == IF t > time THEN t - time ELSE 0
  IN [in EXCEPT !.lease  = [key \in DOMAIN @ |-> Left(@[key])],
                !.escape = IF @ = NotPending THEN @ ELSE Left(@)]
================================================================================
