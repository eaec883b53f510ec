----------------------------- MODULE InputParser -----------------------------
(***************************************************************************)
(* The incremental decoder: input_protocol.c, which turns one complete     *)
(* sequence of terminal bytes into changes of the input state, and         *)
(* input_parser.c, which finds the sequences in a buffer that grows by     *)
(* arbitrary pieces.  Bytes are their numbers.                             *)
(***************************************************************************)
EXTENDS InputState

CONSTANTS
  ByteCapacity,    \* byte_capacity
  SequenceLimit    \* the longest control sequence looked for; 64 in the code

\* aforc_input_create refuses a buffer smaller than the longest sequence.
ASSUME InputParserConstants ==
  /\ SequenceLimit \in Nat /\ SequenceLimit >= 6
  /\ ByteCapacity \in Nat /\ ByteCapacity >= SequenceLimit

Esc       == 27
Bracket   == 91
LetterM   == 77
LetterO   == 79
Semicolon == 59
Colon     == 58
Less      == 60
Question  == 63
Replacement == 65533

Bit(n, b) == (n \div b) % 2 = 1
From(s, i) == SubSeq(s, i, Len(s))

-------------------------------------------------------------------------------
\* UTF-8 and plain bytes.

CodepointValid(c) == c <= 1114111 /\ c \notin 55296..57343
TextValid(c)      == CodepointValid(c) /\ c >= 32 /\ c \notin 127..159

\* How many bytes a lead byte announces, 0 when it can lead none; what it
\* contributes; the least codepoint that needs as many.
Needed(lead)  == CASE lead <= 127 -> 1 [] lead \in 194..223 -> 2
                   [] lead \in 224..239 -> 3 [] lead \in 240..244 -> 4 [] OTHER -> 0
LeadBits(lead) == lead % (<<128, 32, 16, 8>>[Needed(lead)])
Minimum(n)    == <<0, 128, 2048, 65536>>[n]

DecodeUtf8_NoWait(bytes) ==
  LET n == Needed(bytes[1])
  IN IF n = 2 /\ Len(bytes) >= 2 /\ bytes[2] \in 128..191
     THEN [result |-> "complete", codepoint |-> 64 * (bytes[1] % 32) + (bytes[2] % 64),
           consumed |-> 2]
     ELSE [result |-> "invalid"]

DecodeUtf8(bytes) ==
  LET n    == Needed(bytes[1])
      code == FoldLeft(LAMBDA c, b : 64 * c + (b % 64), LeadBits(bytes[1]), SubSeq(bytes, 2, n))
  IN CASE n = 0         -> [result |-> "invalid"]
       [] n > Len(bytes) -> [result |-> "incomplete"]
       [] OTHER ->
          IF (\A i \in 2..n : bytes[i] \in 128..191) /\ code >= Minimum(n) /\ CodepointValid(code)
          THEN [result |-> "complete", codepoint |-> code, consumed |-> n]
          ELSE [result |-> "invalid"]

\* What is emitted for bytes that are no sequence: consuming one bad byte
\* cannot hide a later valid lead.
Decoded(utf8) == IF utf8.result = "complete" THEN utf8.codepoint ELSE Replacement
Consumed(utf8) == IF utf8.result = "complete" THEN utf8.consumed ELSE 1

KeyFromCodepoint(c) ==
  CASE c \in 97..122 -> c - 32 [] c \in (32..126) \ (97..122) -> c [] OTHER -> 0

EmitPlainByte(in, byte, modifiers) ==
  LET Key(key, codepoint, ctrl) ==
        EmitKeyDown(in, key, codepoint, modifiers \cup ctrl, FALSE, FALSE, codepoint # 0)
  IN CASE byte \in {13, 10}   -> Key(13, 0, {})
       [] byte = 9            -> Key(9, 0, {})
       [] byte \in {127, 8}   -> Key(8, 0, {})
       [] byte = 0            -> Key(32, 0, {"ctrl"})
       [] byte \in ((1..26) \ {8, 9, 10, 13}) \cup (28..31) -> Key(64 + byte, 0, {"ctrl"})
       [] byte \in 32..126    -> Key(KeyFromCodepoint(byte), byte, {})
       [] OTHER -> in

\* What one attempt to parse comes to: the state, and how many bytes it
\* consumed, 0 when the sequence is incomplete.
Incomplete(in)  == [in |-> in, consumed |-> 0]
Complete(in, n) == [in |-> in, consumed |-> n]

ParsePlain(in, bytes, modifiers, force) ==
  IF bytes = <<>> THEN Incomplete(in)
  ELSE IF bytes[1] <= 127 THEN Complete(EmitPlainByte(in, bytes[1], modifiers), 1)
  ELSE LET utf8 == DecodeUtf8(bytes)
       IN IF utf8.result = "incomplete" /\ ~force THEN Incomplete(in)
          ELSE Complete(EmitKeyDown(in, 0, Decoded(utf8), modifiers, FALSE, FALSE, TRUE),
                        Consumed(utf8))

-------------------------------------------------------------------------------
\* The parameters of a control sequence.

Split(s, separators) ==
  FoldLeft(LAMBDA parts, b : IF b \in separators THEN Append(parts, <<>>)
                             ELSE [parts EXCEPT ![Len(parts)] = Append(@, b)],
           << <<>> >>, s)

IsNumber(s) == \A i \in DOMAIN s : s[i] \in 48..57
Number(s)   == FoldLeft(LAMBDA n, b : 10 * n + b - 48, 0, s)

\* aforc_input_internal_parse_parameters: at most eight, an empty one is 0.
ParametersValid(s) ==
  LET parts == Split(s, {Semicolon, Colon})
  IN Len(parts) <= 8 /\ \A i \in DOMAIN parts : IsNumber(parts[i])

Parameters(s) ==
  LET parts == Split(s, {Semicolon, Colon})
  IN IF s = <<>> THEN <<>> ELSE [i \in DOMAIN parts |-> Number(parts[i])]

DecodeModifiers(parameter) ==
  LET bits == IF parameter > 0 THEN parameter - 1 ELSE 0
  IN {m \in {"shift", "alt", "ctrl", "super"} :
        Bit(bits, CASE m = "shift" -> 1 [] m = "alt" -> 2 [] m = "ctrl" -> 4 [] m = "super" -> 8)}

TildeKey(parameter) ==
  CASE parameter \in {1, 7}  -> 258 [] parameter = 2 -> 256 [] parameter = 3 -> 257
    [] parameter \in {4, 8}  -> 259 [] parameter \in {5, 6}  -> 255 + parameter
    [] parameter \in 11..15  -> 255 + parameter [] parameter \in 17..21 -> 254 + parameter
    [] parameter \in {23, 24} -> 253 + parameter [] OTHER -> 0

FinalKey(final) ==
  CASE final = 65 -> 262 [] final = 66 -> 263 [] final = 67 -> 265 [] final = 68 -> 264
    [] final = 72 -> 258 [] final = 70 -> 259 [] final \in 80..83 -> 186 + final
    [] OTHER -> 0

EmitProtocolKey(in, key, codepoint, modifiers, event, explicit) ==
  IF event = 3 THEN EmitKeyUp(in, key, codepoint, modifiers)
  ELSE EmitKeyDown(in, key, codepoint, modifiers, event = 2, explicit, FALSE)

\* aforc_input_internal_parse_kitty_report: key, its modifiers and event, and
\* the text it types, each a field of numbers that colons separate.
Fields(parts)        == [i \in DOMAIN parts |-> Split(parts[i], {Colon})]
KittyFields(payload) == Fields(Split(payload, {Semicolon}))

KittyValid(fields) ==
  LET key == fields[1]  event == fields[2]  text == fields[3]
  IN /\ Len(fields) <= 3
     /\ \A i \in DOMAIN fields : \A j \in DOMAIN fields[i] : IsNumber(fields[i][j])
     /\ key[1] # <<>> /\ Len(key) <= 3
     /\ \A j \in DOMAIN key : CodepointValid(Number(key[j]))
     /\ Len(fields) >= 2 => /\ Len(event) <= 2
                            /\ Len(event) = 2 /\ event[2] # <<>> => Number(event[2]) \in 1..3
     /\ Len(fields) = 3 /\ text # << <<>> >> =>
          \A j \in DOMAIN text : text[j] # <<>> /\ TextValid(Number(text[j]))

KittyEvent(fields) == IF Len(fields) >= 2 THEN fields[2] ELSE << <<>> >>
KittyText(fields)  ==
  IF Len(fields) < 3 \/ fields[3] = << <<>> >> THEN <<>>
  ELSE [j \in DOMAIN fields[3] |-> Number(fields[3][j])]

KittyKey(c) == CASE c \in {27, 13, 9} -> c [] c = 127 -> 8 [] OTHER -> KeyFromCodepoint(c)

\* The character a key shows: the one it types, or its own.
KittyShown(c, text) ==
  IF Len(text) = 1 THEN text[1] ELSE IF c >= 32 /\ c # 127 THEN c ELSE 0

EmitReport(in, c, modifiers, kind, explicit, text) ==
  FoldLeft(EmitText,
           EmitProtocolKey(in, KittyKey(c), KittyShown(c, text), modifiers, kind, explicit), text)

\* A release types no text.
EmitKitty(in, c, event, text) ==
  LET typed == Len(event) = 2 /\ event[2] # <<>>
      kind  == IF typed THEN Number(event[2]) ELSE 1
  IN EmitReport(in, c, DecodeModifiers(IF event[1] = <<>> THEN 1 ELSE Number(event[1])), kind,
                typed \/ in.mode = "explicit", IF kind = 3 THEN <<>> ELSE text)

HandleFields(in, fields) ==
  IF KittyValid(fields)
  THEN EmitKitty(in, Number(fields[1][1]), KittyEvent(fields), KittyText(fields))
  ELSE in

HandleKittyReport(in, payload) == HandleFields(in, KittyFields(payload))

-------------------------------------------------------------------------------
\* Mouse reports.

MouseButton(code) ==
  IF Bit(code, 128) THEN (IF Bit(code, 1) THEN "button5" ELSE "button4")
  ELSE <<"left", "middle", "right", "none">>[(code % 4) + 1]

MouseModifiers(code) ==
  {m \in {"shift", "alt", "ctrl"} :
     Bit(code, CASE m = "shift" -> 4 [] m = "alt" -> 8 [] m = "ctrl" -> 16)}

HandleMouse(in, code, column, row, release, legacy) ==
  LET button    == MouseButton(code)
      modifiers == MouseModifiers(code)
      motion    == Bit(code, 32)
      at        == <<column - 1, row - 1>>
      placed    == [in EXCEPT !.mouse = at]
      moved     == IF motion \/ in.mouse # at
                   THEN EmitMouseMove(placed, button, modifiers) ELSE placed
      delta     == <<<<0, 1>>, <<0, -1>>, <<-1, 0>>, <<1, 0>>>>[(code % 4) + 1]
      allUp     == (legacy /\ code % 4 = 3) \/ (release /\ button = "none")
  IN IF column = 0 \/ row = 0 THEN in
     ELSE IF Bit(code, 64) THEN QueueEvent(placed, [type |-> "mouse_wheel", delta |-> delta])
     ELSE IF allUp THEN ReleaseMouseButtons(moved, modifiers)
     ELSE IF release \/ ~motion THEN EmitMouseButton(moved, button, ~release, modifiers)
     ELSE moved

-------------------------------------------------------------------------------
\* Control sequences.

HandleSs3(in, final) ==
  IF FinalKey(final) = 0 THEN in
  ELSE EmitKeyDown(in, FinalKey(final), 0, {}, FALSE, FALSE, FALSE)

KeyboardFlags(payload) == Head(payload) = Question /\ Len(payload) > 1 /\ IsNumber(Tail(payload))

\* A sequence that ends in u: the answer to the query of the keyboard flags,
\* or the report of a key.
HandleKeyboard(in, payload) ==
  IF KeyboardFlags(payload)
  THEN LET flags == Number(Tail(payload))
       IN [in EXCEPT !.mode = IF Bit(flags, 2) /\ Bit(flags, 8) THEN "explicit" ELSE "synthetic"]
  ELSE HandleKittyReport(in, payload)

HandleSgrMouse(in, payload, final) ==
  LET p == Parameters(Tail(payload))
  IN IF ParametersValid(Tail(payload)) /\ Len(p) = 3
     THEN HandleMouse(in, p[1], p[2], p[3], final = 109, FALSE) ELSE in

\* The key of a tilde or letter sequence, its modifiers and its event.
HandleLegacyKey(in, key, p) ==
  LET modifiers == IF Len(p) > 1 THEN DecodeModifiers(p[2]) ELSE {}
      event     == IF Len(p) > 2 /\ p[3] # 0 THEN p[3] ELSE 1
  IN IF event > 3 \/ key = 0 THEN in
     ELSE EmitProtocolKey(in, key, 0, modifiers, event, Len(p) > 2 \/ in.mode = "explicit")

HandleTilde(in, p) ==
  CASE p[1] = 200 -> QueueEvent([in EXCEPT !.paste = TRUE], [type |-> "paste_begin"])
    [] p[1] = 201 -> QueueEvent([in EXCEPT !.paste = FALSE], [type |-> "paste_end"])
    [] p[1] = 27 /\ Len(p) >= 3 ->
         IF CodepointValid(p[3])
         THEN EmitProtocolKey(in, KeyFromCodepoint(p[3]), p[3], DecodeModifiers(p[2]), 1, FALSE)
         ELSE in
    [] OTHER -> HandleLegacyKey(in, TildeKey(p[1]), p)

HandleParameters(in, p, final) ==
  CASE final = 73 /\ p = <<>>  -> QueueEvent(in, [type |-> "focus_in"])
    [] final = 79 /\ p = <<>>  -> ReleaseAll(QueueEvent(in, [type |-> "focus_out"]))
    [] final = 90              -> EmitProtocolKey(in, 9, 0, {"shift"}, 1, FALSE)
    [] final = 126 /\ p # <<>> -> HandleTilde(in, p)
    [] OTHER                   -> HandleLegacyKey(in, FinalKey(final), p)

HandleCsi(in, payload, final) ==
  CASE final = 117 /\ payload # <<>> -> HandleKeyboard(in, payload)
    [] final \in {77, 109} /\ payload # <<>> /\ payload[1] = Less ->
         HandleSgrMouse(in, payload, final)
    [] OTHER -> IF ParametersValid(payload)
                THEN HandleParameters(in, Parameters(payload), final) ELSE in

-------------------------------------------------------------------------------
\* Finding the sequences.

EmitEscape(in) == EmitKeyDown(in, Esc, 0, {}, FALSE, FALSE, FALSE)

\* A pending sequence that gains bytes keeps its deadline; a deferred one
\* starts anew.
MarkEscape(in) == [in EXCEPT !.escape = IF @ = NotPending THEN EscapeTimeout ELSE @]
Wait(in)       == Incomplete(MarkEscape(in))
Defer(in)      == Incomplete([in EXCEPT !.escape = EscapeTimeout])
WaitOrDefer(in, force) == IF force THEN Defer(in) ELSE Wait(in)

ParseLegacyMouse(in, bytes, force) ==
  LET valid == bytes[4] >= 32 /\ bytes[5] >= 33 /\ bytes[6] >= 33
  IN IF Len(bytes) < 6 THEN WaitOrDefer(in, force)
     ELSE Complete(IF valid THEN HandleMouse(in, bytes[4] - 32, bytes[5] - 32, bytes[6] - 32,
                                             FALSE, TRUE)
                   ELSE in, 6)

ParseCsi(in, bytes, force) ==
  LET size   == Len(bytes)
      finals == {i \in 3..Min({size, SequenceLimit}) : bytes[i] \in 64..126}
      last   == Min(finals)
  IN IF finals # {} THEN Complete(HandleCsi(in, SubSeq(bytes, 3, last - 1), bytes[last]), last)
     ELSE IF size < SequenceLimit THEN WaitOrDefer(in, force)
     ELSE IF force THEN Complete(EmitEscape(in), 1)
     ELSE Complete(in, IF size > SequenceLimit THEN SequenceLimit + 1 ELSE 1)

ParseSs3(in, bytes, force) ==
  IF Len(bytes) < 3 THEN WaitOrDefer(in, force)
  ELSE Complete(HandleSs3(in, bytes[3]), 3)

ParseBareEscape(in, force) ==
  CASE ~force -> Wait(in)
    [] force /\ in.mode = "explicit" -> Defer(in)
    [] OTHER -> Complete(EmitEscape(in), 1)

\* An escape before a plain byte is that byte with alt.
ParsedAlt(plain, force) ==
  IF plain.consumed > 0 THEN Complete(plain.in, plain.consumed + 1)
  ELSE IF force THEN Complete(EmitEscape(plain.in), 1) ELSE Wait(plain.in)

ParseAlt(in, bytes, force) == ParsedAlt(ParsePlain(in, Tail(bytes), {"alt"}, force), force)

ParseEscape(in, bytes, force) ==
  IF Len(bytes) < 2 THEN ParseBareEscape(in, force)
  ELSE IF bytes[2] = Bracket
  THEN IF Len(bytes) >= 3 /\ bytes[3] = LetterM THEN ParseLegacyMouse(in, bytes, force)
       ELSE ParseCsi(in, bytes, force)
  ELSE IF bytes[2] = LetterO THEN ParseSs3(in, bytes, force)
  ELSE IF bytes[2] = Esc THEN Complete(EmitEscape(in), 1)
  ELSE ParseAlt(in, bytes, force)

PasteEnd == <<Esc, Bracket, 50, 48, 49, 126>>

\* Between the markers of a paste every byte is text, except that what may
\* become the end marker waits for the rest of it.
ParsePaste(in, bytes, force) ==
  LET utf8 == DecodeUtf8(bytes)
  IN IF IsPrefix(PasteEnd, bytes)
     THEN Complete(QueueEvent([in EXCEPT !.paste = FALSE], [type |-> "paste_end"]), 6)
     ELSE IF ~force /\ (IsPrefix(bytes, PasteEnd) \/ utf8.result = "incomplete")
     THEN Incomplete(in)
     ELSE Complete(EmitText(in, Decoded(utf8)), Consumed(utf8))

ParseOne(in, bytes, force) ==
  IF in.paste THEN ParsePaste(in, bytes, force)
  ELSE IF bytes[1] = Esc THEN ParseEscape(in, bytes, force)
  ELSE ParsePlain(in, bytes, {}, force)

\* One turn of the loop that takes sequences off the front of the buffer, until it
\* is empty or one is incomplete.
Proceed_NoDeadline(one) ==
  IF one.consumed = 0 THEN [in |-> one.in, stops |-> TRUE]
  ELSE [in |-> [one.in EXCEPT !.bytes = From(@, one.consumed + 1), !.escape = NotPending],
        stops |-> FALSE]

Proceed(one) ==
  IF one.consumed = 0 THEN [in |-> MarkEscape(one.in), stops |-> TRUE]
  ELSE [in |-> [one.in EXCEPT !.bytes = From(@, one.consumed + 1), !.escape = NotPending],
        stops |-> FALSE]

ParseNext(turn, forceAll) ==
  IF turn.stops \/ turn.in.bytes = <<>> THEN turn
  ELSE Proceed(ParseOne(turn.in, turn.in.bytes, forceAll \/ turn.in.escape = 0))

\* aforc_input_internal_parse_available: no turn but the last leaves the buffer as
\* long as it was, so there are no more than it has bytes.
ParseTurns(in, forceAll) ==
  LET turn[n \in 0..Len(in.bytes)] ==
        IF n = 0 THEN [in |-> in, stops |-> FALSE] ELSE ParseNext(turn[n - 1], forceAll)
  IN turn

Emptied(in) == IF in.bytes = <<>> THEN [in EXCEPT !.escape = NotPending] ELSE in

ParseAvailable(in, forceAll) == Emptied(ParseTurns(in, forceAll)[Len(in.bytes)].in)

\* aforc_input_internal_feed: the bytes enter a piece at a time, as much as the
\* buffer has room for.  A full buffer is forced, so that it makes progress.
MakeRoom(in) == IF Len(in.bytes) = ByteCapacity THEN ParseAvailable(in, TRUE) ELSE in

FillBuffer(in, bytes) ==
  LET n == Min({ByteCapacity - Len(in.bytes), Len(bytes)})
  IN IF n = 0 THEN [in |-> in, rest |-> bytes, overflows |-> TRUE]
     ELSE [in |-> ParseAvailable([in EXCEPT !.bytes = @ \o SubSeq(bytes, 1, n)], FALSE),
           rest |-> From(bytes, n + 1), overflows |-> FALSE]

FeedNext(turn) ==
  IF turn.overflows \/ turn.rest = <<>> THEN turn ELSE FillBuffer(MakeRoom(turn.in), turn.rest)

\* Every turn that does not overflow takes a byte.
FeedTurns(in, bytes) ==
  LET turn[n \in 0..Len(bytes)] ==
        IF n = 0 THEN [in |-> in, rest |-> bytes, overflows |-> FALSE] ELSE FeedNext(turn[n - 1])
  IN turn

Answered(turn) ==
  [in |-> turn.in, status |-> IF turn.overflows THEN "overflow" ELSE Overflow(turn.in)]

FeedBytes(in, bytes) ==
  Answered(FeedTurns(ParseAvailable(ReleaseExpired(in), FALSE), bytes)[Len(bytes)])
===============================================================================
