------------------------------- MODULE MCInput -------------------------------
(* Input for TLC: what the terminal may send.                                *)
EXTENDS Input

Letter      == <<97>>
Escape      == <<27>>
CtrlA       == <<1>>
TwoBytes    == <<195, 169>>
BadUtf8     == <<226, 130, 97>>
AltTwoBytes == <<27, 195, 169>>
Ss3F1       == <<27, 79, 80>>
Up          == <<27, 91, 65>>
UpHeld      == <<27, 91, 59, 59, 49, 65>>
UpLetGo     == <<27, 91, 59, 59, 51, 65>>
FocusOut    == <<27, 91, 79>>
Explicit    == <<27, 91, 63, 49, 48, 117>>
KittyDown   == <<27, 91, 57, 55, 59, 59, 98, 117>>
KittyUp     == <<27, 91, 57, 55, 59, 58, 51, 117>>
SgrDown     == <<27, 91, 60, 48, 59, 49, 59, 49, 77>>
SgrUp       == <<27, 91, 60, 48, 59, 49, 59, 49, 109>>
LegacyDown  == <<27, 91, 77, 32, 33, 33>>
LegacyUp    == <<27, 91, 77, 35, 34, 33>>
PasteBegin  == <<27, 91, 50, 48, 48, 126>>
OverLong    == <<27, 91>> \o [i \in 1..11 |-> 49]

\* Every pair of these, cut anywhere.
Reports == {Letter, Escape, CtrlA, TwoBytes, BadUtf8, AltTwoBytes, Ss3F1, Up, FocusOut,
            Explicit, KittyDown, KittyUp, SgrDown, SgrUp, LegacyDown, LegacyUp, <<>>}

Pairs == {a \o b : a, b \in Reports} \cup {PasteBegin \o a \o PasteEnd \o Letter : a \in Reports}

\* What the queue, the leases and the buffer make of them.
Letters  == Letter \o Letter \o CtrlA
Sessions == {Letters \o Letters, Up \o FocusOut \o Up, UpHeld \o UpLetGo \o Up,
             UpHeld \o FocusOut \o UpLetGo, LegacyDown \o LegacyUp, LegacyDown \o FocusOut,
             Letter \o Letter \o <<195, 169>> \o Letter \o Letter}

Silences ==
  {Letter \o Escape, UpHeld \o Letter, Explicit \o Escape, <<226, 130>>, <<27, 195>>,
   PasteBegin \o <<27, 91>>, Up \o <<27, 91>>, PasteBegin \o <<195>>,
   OverLong}

App(capacity, script, pieces, calls, timeouts, windows) ==
  [capacity |-> capacity, script |-> script, pieces |-> pieces, calls |-> calls,
   timeouts |-> timeouts, resizes |-> windows]

\* Room for every event, and reads that are cut anywhere.
Patient == {App(16, s, {1, 2, 5, 24}, {"feed", "poll"}, {0}, 0) : s \in Pairs}

\* Every call, and a queue that overflows.
Busy ==
  {App(3, s, {3, 6}, {"begin_frame", "feed", "flush", "poll", "next_event", "release_all"},
       {0}, 1) : s \in Sessions}

\* Polls that would wait for ever.
Idle == {App(1, s, {1, 2, 5, 24}, {"begin_frame", "poll"}, {-1}, 0) : s \in Silences}

MCApplications == Patient \cup Busy \cup Idle

OnePaste ==
  {App(8, PasteBegin \o Letter \o PasteEnd, 1..24, {"begin_frame", "feed", "poll"}, {0}, 0)}

\* For the patient ones only the behaviours in which no deadline passes matter.
InTime == app \in Patient => undisturbed
===============================================================================
