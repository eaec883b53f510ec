-------------------------------- MODULE Input --------------------------------
(***************************************************************************)
(* One input object in its application (input.c): polls that wait for the  *)
(* terminal no longer than the earliest deadline, direct feeds and         *)
(* flushes, frames, and a consumer that takes events when it likes.        *)
(*                                                                         *)
(* The terminal sends a script, and how many of its bytes a call finds is  *)
(* arbitrary: a sequence may be cut anywhere.  Time passes in Tick,        *)
(* between calls, and inside a poll that waits.                            *)
(***************************************************************************)
EXTENDS InputParser

CONSTANT Applications   \* who uses the object, on which terminal

ASSUME InputConstants ==
  \A user \in Applications :
    /\ user.capacity \in Nat \ {0}           \* event_capacity
    /\ user.script \in Seq(0..255)           \* what the terminal sends
    /\ user.pieces \subseteq Nat \ {0}        \* how many bytes a call may find, 0 left out
    /\ user.calls \subseteq {"begin_frame", "feed", "flush", "poll", "next_event", "release_all"}
    /\ user.timeouts \subseteq Nat \cup {-1}  \* what it polls with
    /\ user.resizes \in Nat                  \* bound: how often the window is resized

VARIABLES
  app,             \* one of Applications
  input,           \* AFORC_Input
  status,          \* what the last call returned
  stream,          \* what the terminal has still to send
  resizes,         \* how often the window was resized
  fed,             \* every byte the object was given; not in the code
  undisturbed,     \* no deadline passed and no event left the queue; not in the code
  view             \* what a reader of the taken events takes for held; not in the code

callVars  == <<input, status, stream, resizes, fed, undisturbed, view>>
inputVars == <<app, callVars>>

Init ==
  /\ app \in Applications
  /\ input = Created(app.capacity)
  /\ status = "ok"
  /\ stream = app.script
  /\ resizes = 0
  /\ fed = <<>>
  /\ undisturbed = (KeyTimeout > 0 /\ EscapeTimeout > 0)
  /\ view = [held |-> {}, buttons |-> {}]

-------------------------------------------------------------------------------
\* A call begins with queue_overflowed cleared.
Cleared(in) == [in EXCEPT !.overflowed = FALSE]

\* What ends a poll, a flush and begin_frame: the deadlines that have passed.
Settle(in) == ReleaseExpired(ParseAvailable(in, FALSE))

DeadlinePassed(in) == 0 \in Deadlines(in)

Finish(in, s) == input' = in /\ status' = s
Return(in)    == Finish(in, Overflow(in))

\* How much of the stream a call may be given, and what of it.
Found == {n \in 1..Len(stream) : n \in app.pieces}

Take(n) ==
  /\ stream' = From(stream, n + 1)
  /\ fed' = fed \o SubSeq(stream, 1, n)

Keep == stream' = stream /\ fed' = fed

-------------------------------------------------------------------------------
Tick ==
  /\ Deadlines(input) \cap (Nat \ {0}) # {}
  /\ input' = Elapse(input, 1)
  /\ Keep /\ UNCHANGED <<status, resizes, undisturbed, view>>

BeginFrame ==
  /\ "begin_frame" \in app.calls
  /\ Return(Settle([Cleared(input) EXCEPT
       !.pressed = {}, !.released = {}, !.buttons.pressed = {}, !.buttons.released = {}]))
  /\ undisturbed' = (undisturbed /\ ~DeadlinePassed(input))
  /\ Keep /\ UNCHANGED <<resizes, view>>

FinishFeed(fedIn) == Finish(fedIn.in, fedIn.status)

Feed ==
  /\ "feed" \in app.calls
  /\ \E n \in Found :
       /\ Take(n)
       /\ FinishFeed(FeedBytes(Cleared(input), SubSeq(stream, 1, n)))
  /\ undisturbed' = (undisturbed /\ ~DeadlinePassed(input))
  /\ UNCHANGED <<resizes, view>>

Flush ==
  /\ "flush" \in app.calls
  /\ Return(Settle(Cleared(input)))
  /\ undisturbed' = (undisturbed /\ ~DeadlinePassed(input))
  /\ Keep /\ UNCHANGED <<resizes, view>>

\* aforc_input_poll, which waits for time, finds n bytes and the window resized
\* or not, and may find that a read after those bytes fails.
FinishPoll(fedIn, fails) ==
  IF fedIn.status = "overflow" THEN Finish(fedIn.in, "overflow")
  ELSE IF fails THEN Finish(fedIn.in, "platform")
  ELSE Return(Settle(fedIn.in))

PollReads(in, n, fails) ==
  FinishPoll(IF n > 0 THEN FeedBytes(in, SubSeq(stream, 1, n))
             ELSE [in |-> in, status |-> Overflow(in)], fails)

PollCall(time, n, resized, fails) ==
  LET waited == Elapse(Cleared(input), time)
  IN /\ Take(n)
     /\ undisturbed' = (undisturbed /\ ~DeadlinePassed(waited) /\ ~resized)
     /\ PollReads(IF resized THEN QueueEvent(waited, [type |-> "resize"]) ELSE waited, n, fails)

\* A poll returns before its timeout only when something arrived; with no
\* deadline and no timeout it waits until something does.
Poll ==
  \E timeout \in app.timeouts, n \in Found \cup {0}, resized, fails \in BOOLEAN :
    LET limit  == EffectiveTimeout(input, timeout)
        longest == Max({0, KeyTimeout, EscapeTimeout} \cup app.timeouts)
        arrived == n > 0 \/ resized
    IN /\ "poll" \in app.calls
       /\ resized => resizes < app.resizes
       /\ fails => n > 0
       /\ ~arrived => limit >= 0
       /\ \E time \in 0..longest :
            /\ limit >= 0 => time <= limit
            /\ ~arrived => time = limit
            /\ PollCall(time, n, resized, fails)
       /\ resizes' = IF resized THEN resizes + 1 ELSE resizes
       /\ view' = view

\* aforc_input_poll when aforc_terminal_poll fails, before anything is read.
PollFails ==
  /\ "poll" \in app.calls
  /\ Finish(Cleared(input), "platform")
  /\ Keep /\ UNCHANGED <<resizes, undisturbed, view>>

\* What the event tells a reader of what is held.
Told(v, event) ==
  CASE event.type = "down"       -> [v EXCEPT !.held = @ \cup {event.key}]
    [] event.type = "up"         -> [v EXCEPT !.held = @ \ {event.key}]
    [] event.type = "mouse_down" -> [v EXCEPT !.buttons = @ \cup {event.button}]
    [] event.type = "mouse_up"   -> [v EXCEPT !.buttons = @ \ {event.button}]
    [] OTHER -> v

NextEvent ==
  /\ "next_event" \in app.calls
  /\ input.events # <<>>
  /\ input' = [input EXCEPT !.events = Tail(@)]
  /\ view' = Told(view, Head(input.events))
  /\ undisturbed' = FALSE
  /\ Keep /\ UNCHANGED <<status, resizes>>

ReleaseAllCall ==
  /\ "release_all" \in app.calls
  /\ input' = ReleaseAll(input)
  /\ undisturbed' = FALSE
  /\ Keep /\ UNCHANGED <<status, resizes, view>>

Next ==
  /\ \/ Tick \/ BeginFrame \/ Feed \/ Flush \/ Poll \/ PollFails
     \/ NextEvent \/ ReleaseAllCall
  /\ app' = app

Spec == Init /\ [][Next]_inputVars

\* The application keeps polling, and time passes: weak fairness of Poll, with
\* the condition under which a poll can return written out.
PollCanReturn ==
  Deadlines(input) # {} \/ app.timeouts # {-1} \/ stream # <<>> \/ resizes < app.resizes

FairSpec ==
  /\ Spec
  /\ WF_callVars(Tick)
  /\ []<>~PollCanReturn \/ []<><<Poll>>_callVars

-------------------------------------------------------------------------------
\* What input_parser.c says of sequences: that they may span terminal reads.  As long
\* as no deadline passes, bytes that arrive in pieces come to what they would have
\* come to in one call, the events and the state as well as what stays in the buffer.
Came(in) == <<in.events, in.dropped, in.held, in.explicit, in.buttons.held, in.mouse,
              in.mode, in.paste, in.bytes>>

SequencesMaySpanReads ==
  undisturbed => Came(input) = Came(FeedBytes(Created(app.capacity), fed).in)

\* A control sequence that has no final byte within the limit: how much of it is
\* discarded depends on how much of it a read brings.
Overlong(bytes) ==
  \E i \in 1..(Len(bytes) - SequenceLimit) + 1 :
    /\ bytes[i] = Esc /\ bytes[i + 1] = Bracket
    /\ \A j \in i + 2..(i + SequenceLimit) - 1 : bytes[j] \notin 64..126

\* All other bytes may be cut into reads anywhere.
ReadsMayBeCut == ~Overlong(fed) => SequencesMaySpanReads

\* A buffer that is full of one unfinished sequence still makes progress: no
\* call comes back for want of room.
BufferMakesProgress == status # "overflow"

\* A reader who takes every event knows what is held: the events that are still
\* queued account for the difference, unless one was dropped.
Heard(v, events) ==
  LET told[n \in 0..Len(events)] == IF n = 0 THEN v ELSE Told(told[n - 1], events[n])
  IN told[Len(events)]

EventsTellHeld ==
  input.dropped = 0 =>
    Heard(view, input.events) = [held |-> input.held, buttons |-> input.buttons.held]

\* Between calls, bytes that wait for the rest of a sequence have a deadline, so
\* a poll cannot sleep on them for ever, and only they have one.
BufferedBytesHaveADeadline == (input.bytes # <<>>) = (input.escape # NotPending)

\* Between calls the parser keeps less than a sequence, whatever the buffer holds: a
\* full buffer is never met, and the call that would force it is never made.
OnlyAPrefixIsKept == Len(input.bytes) < SequenceLimit

\* Between calls the parser is never stuck: what it keeps has a deadline and
\* leaves room for the next read.
ParserNeverStalls == BufferedBytesHaveADeadline /\ BufferMakesProgress /\ OnlyAPrefixIsKept

\* The release of a key whose terminal reports it is never invented: a call that
\* is given no bytes and has none in its buffer does not let such a key go,
\* however late it is.
ExplicitKeysStay ==
  (BeginFrame \/ Flush \/ Poll) /\ input.bytes = <<>> /\ fed' = fed
    => input.explicit \subseteq input'.held

\* A consumer's picture of the keys and buttons is the library's: the events tell
\* what is held, and no release is told that the terminal did not report.
KeysAreHonest == [][ExplicitKeysStay /\ EventsTellHeld']_inputVars

\* A key without a reported release does not stay held for ever on a terminal
\* that has gone silent, even when the application polls without a timeout.
HeldKeysEnd ==
  \A key \in {8, 9, 13, 27, 65, 262} :
    (key \in input.held \ input.explicit) ~> (key \notin input.held \ input.explicit)

\* What waits for more bytes and is not the beginning of a control sequence is
\* given up in the end and comes out as text or as the escape key.
ControlPrefix(bytes) ==
  /\ bytes[1] = Esc
  /\ IF Len(bytes) = 1 THEN input.mode = "explicit" ELSE bytes[2] \in {Bracket, LetterO}

TextWaits == input.bytes # <<>> /\ (input.paste \/ ~ControlPrefix(input.bytes))

PartialTextResolves == TextWaits ~> ~TextWaits

\* Nothing that waits for a terminal gone silent waits for ever: neither a held
\* key for its release nor a byte for the rest of its text.
WaitsEnd == HeldKeysEnd /\ PartialTextResolves

\* What input_parser.c says of a partial paste terminator: that its protocol
\* bytes never leak as text.  Where no script pastes an escape, no text event
\* may carry one.
TerminatorNeverLeaks ==
  \A i \in DOMAIN input.events : input.events[i] # [type |-> "text", codepoint |-> Esc]
===============================================================================
