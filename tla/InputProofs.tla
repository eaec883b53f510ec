---------------------------- MODULE InputProofs ----------------------------
(***************************************************************************)
(* Theorems about an input object, for every event capacity, byte          *)
(* capacity, timeout and stream of bytes.                                  *)
(***************************************************************************)
EXTENDS Input, SequenceTheorems, WellFoundedInduction, TLAPS

\* There is no smaller one.
SmallerPairs == {p \in Nat \X Nat : p[1] < p[2]}

LEMMA Induction ==
  ASSUME NEW S, 0 \in S, \A n \in Nat : n \in S => n + 1 \in S
  PROVE  \A n \in Nat : n \in S
<1> DEFINE T == {n \in Nat : n \notin S}
<1>1. SUFFICES ASSUME T # {} PROVE FALSE
  OBVIOUS
<1>2. IsWellFoundedOn(SmallerPairs, Nat)
  BY NatLessThanWellFounded DEF OpToRel, SmallerPairs
<1>3. PICK n \in T : \A m \in T : <<m, n>> \notin SmallerPairs
  <2> HIDE DEF T
  <2>1. T \in SUBSET Nat
    BY DEF T
  <2> QED  BY <1>1, <1>2, <2>1, WFMin
<1>4. n \in Nat /\ n # 0 /\ n \notin S
  OBVIOUS
<1>5. n - 1 \in S
  <2>1. n - 1 \in Nat /\ <<n - 1, n>> \in SmallerPairs
    BY <1>4 DEF SmallerPairs
  <2> QED  BY <1>3, <2>1
<1>6. n - 1 \in Nat /\ n = (n - 1) + 1
  BY <1>4
<1> QED  BY <1>4, <1>5, <1>6

-----------------------------------------------------------------------------
(* What a reader makes of the events.                                      *)

IsTold(told, v, events) ==
  told = [n \in 0..Len(events) |-> IF n = 0 THEN v ELSE Told(told[n - 1], events[n])]

LEMMA ToldExists ==
  ASSUME NEW v, NEW S, NEW events \in Seq(S)
  PROVE  \E told : IsTold(told, v, events)
<1> DEFINE Upto(told, k) == told = [n \in 0..k |-> IF n = 0 THEN v ELSE Told(told[n - 1], events[n])]
           K == {k \in Nat : \E told : Upto(told, k)}
<1>1. 0 \in K
  <2>1. Upto([n \in 0..0 |-> v], 0)
    OBVIOUS
  <2> QED  BY <2>1
<1>2. ASSUME NEW k \in Nat, k \in K  PROVE  k + 1 \in K
  <2>1. PICK told : Upto(told, k)
    BY <1>2
  <2> DEFINE more == [n \in 0..k + 1 |-> IF n = k + 1 THEN Told(told[k], events[k + 1]) ELSE told[n]]
  <2>2. \A n \in 0..k : told[n] = IF n = 0 THEN v ELSE Told(told[n - 1], events[n])
    BY <2>1, Zenon
  <2>3. ASSUME NEW n \in 0..k + 1
        PROVE  more[n] = IF n = 0 THEN v ELSE Told(more[n - 1], events[n])
    <3>1. CASE n = 0
      BY <2>2, <3>1
    <3>2. CASE n = k + 1
      <4>1. more[n] = Told(told[k], events[k + 1]) /\ more[n - 1] = told[k] /\ n # 0
        BY <3>2
      <4> QED  BY <4>1, <3>2
    <3>3. CASE n \in 1..k
      <4>1. more[n] = told[n] /\ more[n - 1] = told[n - 1] /\ n \in 0..k /\ n # 0
        BY <3>3
      <4> QED  BY <4>1, <2>2
    <3> QED  BY <3>1, <3>2, <3>3
  <2>4. Upto(more, k + 1)
    <3>1. more = [n \in 0..k + 1 |-> more[n]]
      OBVIOUS
    <3> HIDE DEF more
    <3> QED  BY <2>3, <3>1, Zenon
  <2> HIDE DEF more, Upto
  <2> QED  BY <2>4
<1>3. \A k \in Nat : k \in K
  <2> HIDE DEF K
  <2> QED  BY <1>1, <1>2, Induction
<1>4. Len(events) \in K
  BY <1>3
<1> QED  BY <1>4 DEF IsTold

LEMMA HeardDef ==
  ASSUME NEW v, NEW S, NEW events \in Seq(S)
  PROVE  \E told : IsTold(told, v, events) /\ Heard(v, events) = told[Len(events)]
<1> DEFINE told == CHOOSE t : IsTold(t, v, events)
<1>1. IsTold(told, v, events)
  <2>1. \E t : IsTold(t, v, events)
    BY ToldExists
  <2> QED  BY <2>1, Zenon
<1>2. Heard(v, events) = told[Len(events)]
  BY DEF Heard, IsTold
<1> QED  BY <1>1, <1>2

\* The events a are those of b from d on, and v what a reader of b holds there.
PartOf(a, b, f, g, v, w, d) ==
  /\ d \in Nat /\ Len(a) \in Nat /\ Len(b) \in Nat
  /\ IsTold(f, v, a) /\ IsTold(g, w, b) /\ d + Len(a) <= Len(b) /\ g[d] = v
  /\ \A n \in 1..Len(a) : a[n] = b[d + n]

LEMMA ToldAgree ==
  ASSUME NEW a, NEW b, NEW f, NEW g, NEW v, NEW w, NEW d, PartOf(a, b, f, g, v, w, d)
  PROVE  \A n \in 0..Len(a) : f[n] = g[d + n]
<1> USE DEF PartOf
<1> DEFINE K == {k \in Nat : k \in 0..Len(a) => f[k] = g[d + k]}
<1>1. \A n \in 0..Len(a) : f[n] = IF n = 0 THEN v ELSE Told(f[n - 1], a[n])
  BY Zenon DEF IsTold
<1>2. \A n \in 0..Len(b) : g[n] = IF n = 0 THEN w ELSE Told(g[n - 1], b[n])
  BY Zenon DEF IsTold
<1>3. 0 \in K
  BY <1>1
<1>4. ASSUME NEW k \in Nat, k \in K  PROVE  k + 1 \in K
  <2>1. SUFFICES ASSUME k + 1 \in 0..Len(a)  PROVE  f[k + 1] = g[d + (k + 1)]
    OBVIOUS
  <2>2. k \in 0..Len(a) /\ k + 1 \in 1..Len(a) /\ (k + 1) - 1 = k /\ k + 1 # 0
    BY <2>1
  <2>3. d + (k + 1) \in 0..Len(b) /\ d + (k + 1) # 0 /\ (d + (k + 1)) - 1 = d + k
    BY <2>1
  <2>4. f[k + 1] = Told(f[k], a[k + 1])
    BY <1>1, <2>1, <2>2
  <2>5. g[d + (k + 1)] = Told(g[d + k], b[d + (k + 1)])
    BY <1>2, <2>3
  <2>6. f[k] = g[d + k] /\ a[k + 1] = b[d + (k + 1)]
    BY <1>4, <2>2
  <2> QED  BY <2>4, <2>5, <2>6
<1>5. \A k \in Nat : k \in K
  <2> HIDE DEF K
  <2> QED  BY <1>3, <1>4, Induction
<1> QED  BY <1>5

LEMMA HeardNothing ==
  ASSUME NEW v
  PROVE  Heard(v, <<>>) = v
<1>1. PICK told : IsTold(told, v, <<>>) /\ Heard(v, <<>>) = told[Len(<<>>)]
  <2>1. <<>> \in Seq({})
    OBVIOUS
  <2> QED  BY <2>1, HeardDef
<1>2. told = [n \in 0..0 |-> IF n = 0 THEN v ELSE Told(told[n - 1], <<>>[n])]
  BY <1>1 DEF IsTold
<1>3. told[0] = v
  BY <1>2
<1> QED  BY <1>1, <1>3

LEMMA HeardAppend ==
  ASSUME NEW v, NEW S, NEW events \in Seq(S), NEW event
  PROVE  Heard(v, Append(events, event)) = Told(Heard(v, events), event)
<1> DEFINE more == Append(events, event)
           R == S \cup {event}
<1>1. events \in Seq(R) /\ more \in Seq(R) /\ Len(more) = Len(events) + 1
  OBVIOUS
<1>2. \A n \in 1..Len(events) : events[n] = more[0 + n]
  OBVIOUS
<1>3. more[Len(events) + 1] = event /\ Len(events) \in Nat
  OBVIOUS
<1> HIDE DEF more, R
<1>4. PICK f : IsTold(f, v, events) /\ Heard(v, events) = f[Len(events)]
  BY HeardDef
<1>5. PICK g : IsTold(g, v, more) /\ Heard(v, more) = g[Len(more)]
  BY <1>1, HeardDef
<1>6. \A n \in 0..Len(more) : g[n] = IF n = 0 THEN v ELSE Told(g[n - 1], more[n])
  BY <1>5, Zenon DEF IsTold
<1>7. f[Len(events)] = g[Len(events)]
  <2>1. PICK d \in Nat : d = 0
    OBVIOUS
  <2>2. g[d] = v /\ d + Len(events) <= Len(more)
    BY <1>1, <1>3, <1>6, <2>1
  <2>3. \A n \in 1..Len(events) : events[n] = more[d + n]
    BY <1>2, <2>1
  <2>4. Len(events) \in Nat /\ Len(more) \in Nat
    BY <1>1, <1>3
  <2>5. \A n \in 0..Len(events) : f[n] = g[d + n]
    <3>1. PartOf(events, more, f, g, v, v, d)
      BY <1>4, <1>5, <2>1, <2>2, <2>3, <2>4 DEF PartOf
    <3> QED  BY <3>1, ToldAgree
  <2> QED  BY <1>3, <2>1, <2>5
<1>8. g[Len(more)] = Told(g[Len(events)], event)
  BY <1>1, <1>3, <1>6
<1> QED  BY <1>3, <1>4, <1>5, <1>7, <1>8 DEF more

LEMMA HeardTail ==
  ASSUME NEW v, NEW S, NEW events \in Seq(S), events # <<>>
  PROVE  Heard(Told(v, Head(events)), Tail(events)) = Heard(v, events)
<1> DEFINE w == Told(v, Head(events))
           rest == Tail(events)
<1>1. rest \in Seq(S) /\ Len(events) \in Nat \ {0} /\ Len(events) = Len(rest) + 1
      /\ Len(rest) \in Nat /\ Head(events) = events[1]
  OBVIOUS
<1>2. \A n \in 1..Len(rest) : rest[n] = events[1 + n]
  OBVIOUS
<1>3. w = Told(v, events[1])
  BY <1>1
<1> HIDE DEF rest, w
<1>4. PICK f : IsTold(f, w, rest) /\ Heard(w, rest) = f[Len(rest)]
  BY <1>1, HeardDef
<1>5. PICK g : IsTold(g, v, events) /\ Heard(v, events) = g[Len(events)]
  BY HeardDef
<1>6. \A n \in 0..Len(events) : g[n] = IF n = 0 THEN v ELSE Told(g[n - 1], events[n])
  BY <1>5, Zenon DEF IsTold
<1>7. g[0] = v /\ g[1] = w
  <2>1. g[0] = v
    BY <1>1, <1>6
  <2>2. g[1] = Told(g[0], events[1])
    BY <1>1, <1>6
  <2> QED  BY <1>3, <2>1, <2>2
<1>8. f[Len(rest)] = g[1 + Len(rest)]
  <2>1. 1 \in Nat /\ 1 + Len(rest) <= Len(events)
    BY <1>1
  <2>2. \A n \in 0..Len(rest) : f[n] = g[1 + n]
    <3>1. PartOf(rest, events, f, g, w, v, 1)
      BY <1>1, <1>2, <1>4, <1>5, <1>7, <2>1 DEF PartOf
    <3> QED  BY <3>1, ToldAgree
  <2> QED  BY <1>1, <2>2
<1> QED  BY <1>1, <1>4, <1>5, <1>8 DEF w, rest

-----------------------------------------------------------------------------
(* The state of an input object, and what an operation may make of it.     *)

InputFields == {"capacity", "events", "dropped", "overflowed", "bytes", "escape", "paste", "mode",
           "held", "pressed", "released", "explicit", "lease", "buttons", "mouse"}

\* Every key that is held has a lease, and only keys that are held are released
\* explicitly.
HoldsOK(in) ==
  /\ in.held \subseteq Keys /\ in.explicit \subseteq in.held
  /\ in.held \subseteq DOMAIN in.lease /\ \A key \in in.held : in.lease[key] \in Nat
  /\ DOMAIN in.buttons = {"held", "pressed", "released"} /\ in.buttons.held \subseteq Buttons

WellFormed(in) ==
  /\ DOMAIN in = InputFields
  /\ in.capacity \in Nat \ {0} /\ in.dropped \in Nat
  /\ \E S : in.events \in Seq(S)
  /\ in.bytes \in Seq(0..255)
  /\ in.escape \in Nat \cup {NotPending}
  /\ HoldsOK(in)

HeldIn(in) == [held |-> in.held, buttons |-> in.buttons.held]

\* The events queued tell a reader who has seen v what is held.
Honest(v, in) == in.dropped = 0 => Heard(v, in.events) = HeldIn(in)

\* What every operation on keys, buttons and events keeps: the buffer, the deadline of
\* what it holds, and the honesty of the events, whatever the reader has seen.
Keeps(in, to) ==
  /\ WellFormed(to)
  /\ to.capacity = in.capacity /\ to.bytes = in.bytes /\ to.escape = in.escape
  /\ \A v : Honest(v, in) => Honest(v, to)

LEMMA KeepsChain ==
  ASSUME NEW a, NEW b, NEW c, Keeps(a, b), Keeps(b, c)
  PROVE  Keeps(a, c)
BY DEF Keeps

LEMMA KeepsItself ==
  ASSUME NEW in, WellFormed(in)
  PROVE  Keeps(in, in)
BY DEF Keeps

\* An event is queued after what it tells of has changed.
LEMMA QueueKeeps ==
  ASSUME NEW in, NEW mid, NEW event, WellFormed(in), WellFormed(mid),
         mid.events = in.events, mid.dropped = in.dropped, mid.capacity = in.capacity,
         mid.bytes = in.bytes, mid.escape = in.escape,
         Told(HeldIn(in), event) = HeldIn(mid)
  PROVE  /\ Keeps(in, QueueEvent(mid, event))
         /\ QueueEvent(mid, event).held = mid.held
         /\ QueueEvent(mid, event).buttons = mid.buttons
<1> DEFINE to == QueueEvent(mid, event)
<1>1. PICK S : in.events \in Seq(S)
  BY DEF WellFormed
<1>2. CASE Len(mid.events) = mid.capacity
  <2>1. to = [mid EXCEPT !.dropped = IF @ < DropLimit THEN @ + 1 ELSE @, !.overflowed = TRUE]
    BY <1>2 DEF QueueEvent
  <2>2. /\ DOMAIN to = InputFields /\ to.capacity = mid.capacity /\ to.events = mid.events
        /\ to.bytes = mid.bytes /\ to.escape = mid.escape /\ to.held = mid.held
        /\ to.explicit = mid.explicit /\ to.lease = mid.lease /\ to.buttons = mid.buttons
        /\ to.dropped = IF mid.dropped < DropLimit THEN mid.dropped + 1 ELSE mid.dropped
    BY <2>1 DEF WellFormed, InputFields
  <2>3. to.dropped \in Nat /\ to.dropped # 0
    BY <2>2, InputStateConstants DEF WellFormed
  <2>4. WellFormed(to)
    BY <2>2, <2>3 DEF WellFormed, HoldsOK
  <2> QED  BY <2>2, <2>3, <2>4 DEF Keeps, Honest
<1>3. CASE Len(mid.events) # mid.capacity
  <2>1. to = [mid EXCEPT !.events = Append(@, event)]
    BY <1>3 DEF QueueEvent
  <2>2. /\ DOMAIN to = InputFields /\ to.capacity = mid.capacity
        /\ to.events = Append(in.events, event)
        /\ to.bytes = mid.bytes /\ to.escape = mid.escape /\ to.held = mid.held
        /\ to.explicit = mid.explicit /\ to.lease = mid.lease /\ to.buttons = mid.buttons
        /\ to.dropped = mid.dropped
    BY <2>1 DEF WellFormed, InputFields
  <2>3. to.events \in Seq(S \cup {event})
    BY <1>1, <2>2
  <2>4. WellFormed(to)
    BY <2>2, <2>3 DEF WellFormed, HoldsOK
  <2>5. ASSUME NEW v, Honest(v, in)  PROVE Honest(v, to)
    <3>1. SUFFICES ASSUME in.dropped = 0  PROVE Heard(v, to.events) = HeldIn(to)
      BY <2>2 DEF Honest
    <3>2. Heard(v, to.events) = Told(Heard(v, in.events), event)
      BY <1>1, <2>2, HeardAppend
    <3>3. Heard(v, in.events) = HeldIn(in)
      BY <2>5, <3>1 DEF Honest
    <3>4. HeldIn(to) = HeldIn(mid)
      BY <2>2 DEF HeldIn
    <3> QED  BY <3>2, <3>3, <3>4
  <2> QED  BY <2>2, <2>4, <2>5 DEF Keeps
<1> QED  BY <1>2, <1>3

\* An event that tells of no key and no button.
LEMMA NewsKeeps ==
  ASSUME NEW in, NEW event, WellFormed(in),
         event.type \notin {"down", "up", "mouse_down", "mouse_up"}
  PROVE  /\ Keeps(in, QueueEvent(in, event))
         /\ QueueEvent(in, event).held = in.held
         /\ QueueEvent(in, event).buttons = in.buttons
<1>1. Told(HeldIn(in), event) = HeldIn(in)
  BY DEF Told
<1> QED  BY <1>1, QueueKeeps

LEMMA EmitTextKeeps ==
  ASSUME NEW in, NEW codepoint, WellFormed(in)
  PROVE  Keeps(in, EmitText(in, codepoint))
<1>1. [type |-> "text", codepoint |-> codepoint].type \notin {"down", "up", "mouse_down", "mouse_up"}
  OBVIOUS
<1> QED  BY <1>1, NewsKeeps DEF EmitText

LEMMA EmitKeyUpKeeps ==
  ASSUME NEW in, NEW key, NEW codepoint, NEW modifiers, WellFormed(in)
  PROVE  /\ Keeps(in, EmitKeyUp(in, key, codepoint, modifiers))
         /\ key \in Keys => EmitKeyUp(in, key, codepoint, modifiers).held = in.held \ {key}
<1>1. CASE key \notin Keys
  BY <1>1, KeepsItself DEF EmitKeyUp
<1>2. CASE key \in Keys
  <2> DEFINE up == [in EXCEPT !.held = @ \ {key}, !.released = @ \cup {key},
                      !.explicit = @ \ {key}, !.lease = Restrict(@, DOMAIN @ \ {key})]
             event == [type |-> "up", key |-> key, codepoint |-> codepoint,
                       modifiers |-> modifiers, repeat |-> FALSE]
  <2>1. EmitKeyUp(in, key, codepoint, modifiers) = QueueEvent(up, event)
    BY <1>2 DEF EmitKeyUp
  <2>2. /\ DOMAIN up = InputFields /\ up.capacity = in.capacity /\ up.events = in.events
        /\ up.bytes = in.bytes /\ up.escape = in.escape /\ up.held = in.held \ {key}
        /\ up.explicit = in.explicit \ {key} /\ up.buttons = in.buttons
        /\ up.dropped = in.dropped
        /\ up.lease = [k \in DOMAIN in.lease \ {key} |-> in.lease[k]]
    BY DEF WellFormed, InputFields, Restrict
  <2>3. Told(HeldIn(in), event) = HeldIn(up)
    <3>1. event.type = "up" /\ event.key = key
      OBVIOUS
    <3> HIDE DEF event, up
    <3>2. Told(HeldIn(in), event) = [HeldIn(in) EXCEPT !.held = @ \ {key}]
      BY <3>1 DEF Told
    <3> QED  BY <2>2, <3>2 DEF HeldIn
  <2> HIDE DEF up, event
  <2>4. HoldsOK(up)
    BY <2>2 DEF WellFormed, HoldsOK
  <2>5. WellFormed(up)
    BY <2>2, <2>4 DEF WellFormed
  <2> QED  BY <1>2, <2>1, <2>2, <2>3, <2>5, QueueKeeps
<1> QED  BY <1>1, <1>2

LEMMA EmitKeyDownKeeps ==
  ASSUME NEW in, NEW key, NEW codepoint, NEW modifiers, NEW repeat, NEW explicit, NEW text,
         WellFormed(in)
  PROVE  Keeps(in, EmitKeyDown(in, key, codepoint, modifiers, repeat, explicit, text))
<1> DEFINE event == [type |-> "down", key |-> key, codepoint |-> codepoint,
                     modifiers |-> modifiers, repeat |-> repeat \/ key \in in.held]
           mid   == HoldKey(in, key, explicit)
           down  == IF key \in Keys THEN QueueEvent(mid, event) ELSE in
<1>1. Keeps(in, down)
  <2>1. CASE key \notin Keys
    BY <2>1, KeepsItself
  <2>2. CASE key \in Keys
    <3>1. /\ DOMAIN mid = InputFields /\ mid.capacity = in.capacity /\ mid.events = in.events
          /\ mid.bytes = in.bytes /\ mid.escape = in.escape /\ mid.held = in.held \cup {key}
          /\ mid.explicit \subseteq in.explicit \cup {key} /\ mid.buttons = in.buttons
          /\ mid.dropped = in.dropped
          /\ mid.lease = [k \in DOMAIN in.lease \cup {key} |->
                            IF k # key THEN in.lease[k] ELSE IF explicit THEN 0 ELSE KeyTimeout]
      BY DEF HoldKey, WellFormed, InputFields
    <3>2. /\ DOMAIN mid.lease = DOMAIN in.lease \cup {key}
          /\ mid.lease[key] \in Nat
          /\ \A k \in DOMAIN in.lease \ {key} : mid.lease[k] = in.lease[k]
      BY <3>1, InputStateConstants
    <3>3. Told(HeldIn(in), event) = HeldIn(mid)
      <4>1. event.type = "down" /\ event.key = key
        OBVIOUS
      <4> HIDE DEF event, mid
      <4>2. Told(HeldIn(in), event) = [HeldIn(in) EXCEPT !.held = @ \cup {key}]
        BY <4>1 DEF Told
      <4> QED  BY <3>1, <4>2, SMTT(60) DEF HeldIn
    <3> HIDE DEF mid, event
    <3>4. HoldsOK(mid)
      BY <2>2, <3>1, <3>2 DEF WellFormed, HoldsOK
    <3>5. WellFormed(mid)
      BY <3>1, <3>4 DEF WellFormed
    <3> QED  BY <2>2, <3>1, <3>3, <3>5, QueueKeeps
  <2> QED  BY <2>1, <2>2
<1>2. WellFormed(down)
  BY <1>1 DEF Keeps
<1>3. EmitKeyDown(in, key, codepoint, modifiers, repeat, explicit, text) \in {down, EmitText(down, codepoint)}
  BY DEF EmitKeyDown, WithText
<1> HIDE DEF down
<1>4. Keeps(down, EmitText(down, codepoint))
  BY <1>2, EmitTextKeeps
<1> QED  BY <1>1, <1>3, <1>4, KeepsChain

LEMMA EmitMouseButtonKeeps ==
  ASSUME NEW in, NEW button, NEW down \in BOOLEAN, NEW modifiers, WellFormed(in)
  PROVE  Keeps(in, EmitMouseButton(in, button, down, modifiers))
<1>1. CASE button \notin Buttons
  <2>1. EmitMouseButton(in, button, down, modifiers) = in
    BY <1>1, ZenonT(60) DEF EmitMouseButton
  <2> QED  BY <2>1, KeepsItself, SMTT(60)
<1>2. CASE button \in Buttons
  <2> DEFINE was   == in.buttons
             now   == Switched(was, button, down)
             event == [type |-> IF down THEN "mouse_down" ELSE "mouse_up", button |-> button,
                       position |-> in.mouse, modifiers |-> modifiers]
             mid   == [in EXCEPT !.buttons = now]
  <2>1. EmitMouseButton(in, button, down, modifiers) = QueueEvent(mid, event)
    <3>1. EmitMouseButton(in, button, down, modifiers)
            = IF button \in Buttons THEN QueueEvent(mid, event) ELSE in
      BY ZenonT(60) DEF EmitMouseButton
    <3> HIDE DEF mid, event
    <3> QED  BY <1>2, <3>1, SMTT(60)
  <2>2. /\ DOMAIN now = {"held", "pressed", "released"}
        /\ now.held = IF down THEN was.held \cup {button} ELSE was.held \ {button}
    BY DEF WellFormed, HoldsOK, Switched
  <2>3. Told(HeldIn(in), event) = [HeldIn(in) EXCEPT !.buttons = now.held]
    <3>1. event.type = (IF down THEN "mouse_down" ELSE "mouse_up") /\ event.button = button
      OBVIOUS
    <3> HIDE DEF event
    <3>2. Told(HeldIn(in), event) =
            IF down THEN [HeldIn(in) EXCEPT !.buttons = @ \cup {button}]
            ELSE [HeldIn(in) EXCEPT !.buttons = @ \ {button}]
      BY <3>1 DEF Told
    <3> HIDE DEF now
    <3> QED  BY <2>2, <3>2 DEF HeldIn
  <2> HIDE DEF now, event
  <2>4. /\ DOMAIN mid = InputFields /\ mid.capacity = in.capacity /\ mid.events = in.events
        /\ mid.bytes = in.bytes /\ mid.escape = in.escape /\ mid.held = in.held
        /\ mid.explicit = in.explicit /\ mid.buttons = now
        /\ mid.dropped = in.dropped /\ mid.lease = in.lease
    BY DEF WellFormed, InputFields
  <2> HIDE DEF mid
  <2>5. HoldsOK(mid)
    BY <1>2, <2>2, <2>4 DEF WellFormed, HoldsOK
  <2>6. WellFormed(mid)
    BY <2>4, <2>5 DEF WellFormed
  <2>7. Told(HeldIn(in), event) = HeldIn(mid)
    BY <2>3, <2>4 DEF HeldIn
  <2> QED  BY <2>1, <2>4, <2>6, <2>7, QueueKeeps
<1> QED  BY <1>1, <1>2

LEMMA EmitMouseMoveKeeps ==
  ASSUME NEW in, NEW button, NEW modifiers, WellFormed(in)
  PROVE  Keeps(in, EmitMouseMove(in, button, modifiers))
<1> DEFINE event == [type |-> "mouse_move", button |-> button,
                     position |-> in.mouse, modifiers |-> modifiers]
<1>1. event.type \notin {"down", "up", "mouse_down", "mouse_up"}
  OBVIOUS
<1> HIDE DEF event
<1>2. Keeps(in, QueueEvent(in, event))
  BY <1>1, NewsKeeps
<1> QED  BY <1>2 DEF EmitMouseMove, event

LEMMA ReleaseMouseButtonsKeeps ==
  ASSUME NEW in, NEW modifiers, WellFormed(in)
  PROVE  Keeps(in, ReleaseMouseButtons(in, modifiers))
<1> DEFINE Up(s, button) == IF button \in s.buttons.held
                            THEN EmitMouseButton(s, button, FALSE, modifiers) ELSE s
<1>1. ASSUME NEW s, NEW button, Keeps(in, s)
      PROVE  Keeps(in, Up(s, button))
  <2>1. WellFormed(s)
    BY <1>1 DEF Keeps
  <2>2. Keeps(s, EmitMouseButton(s, button, FALSE, modifiers))
    BY <2>1, EmitMouseButtonKeeps
  <2>3. Keeps(in, EmitMouseButton(s, button, FALSE, modifiers))
    BY <1>1, <2>2, KeepsChain
  <2> QED  BY <1>1, <2>3
<1>2. ReleaseMouseButtons(in, modifiers)
        = Up(Up(Up(Up(Up(in, "left"), "middle"), "right"), "button4"), "button5")
  BY DEF ReleaseMouseButtons
<1> HIDE DEF Up
<1>3. Keeps(in, Up(in, "left"))
  BY <1>1, KeepsItself
<1>4. Keeps(in, Up(Up(in, "left"), "middle"))
  BY <1>1, <1>3
<1>5. Keeps(in, Up(Up(Up(in, "left"), "middle"), "right"))
  BY <1>1, <1>4
<1>6. Keeps(in, Up(Up(Up(Up(in, "left"), "middle"), "right"), "button4"))
  BY <1>1, <1>5
<1>7. Keeps(in, Up(Up(Up(Up(Up(in, "left"), "middle"), "right"), "button4"), "button5"))
  BY <1>1, <1>6
<1> QED  BY <1>2, <1>7
-----------------------------------------------------------------------------
(* Loops over the keys of a set and over the text of a report.              *)

LEMMA MaxOf ==
  ASSUME NEW k \in Nat, NEW some, some \subseteq 1..k + 1, k + 1 \in some
  PROVE  Max(some) = k + 1
<1>1. \A y \in some : k + 1 >= y
  OBVIOUS
<1>2. \A x \in some : (\A y \in some : x >= y) => x = k + 1
  OBVIOUS
<1> QED  BY <1>1, <1>2 DEF Max

IsReleased(f, in, keys) ==
  f = [some \in SUBSET keys |->
         IF some = {} THEN in ELSE EmitKeyUp(f[some \ {Max(some)}], Max(some), 0, {})]

LEMMA ReleasedExists ==
  ASSUME NEW in, NEW keys \in SUBSET Keys
  PROVE  \E f : IsReleased(f, in, keys)
<1> DEFINE K == {k \in Nat : \E f : IsReleased(f, in, keys \cap 1..k)}
<1>1. 0 \in K
  <2> DEFINE f == [some \in SUBSET {} |-> in]
  <2>1. keys \cap 1..0 = {}
    OBVIOUS
  <2>2. f = [some \in SUBSET {} |->
               IF some = {} THEN in ELSE EmitKeyUp(f[some \ {Max(some)}], Max(some), 0, {})]
    OBVIOUS
  <2> QED  BY <2>1, <2>2 DEF IsReleased
<1>2. ASSUME NEW k \in Nat, k \in K  PROVE  k + 1 \in K
  <2>1. PICK f : IsReleased(f, in, keys \cap 1..k)
    BY <1>2
  <2> DEFINE now  == keys \cap 1..k + 1
             more == [some \in SUBSET now |->
                        IF k + 1 \in some THEN EmitKeyUp(f[some \ {k + 1}], k + 1, 0, {})
                        ELSE f[some]]
  <2>2. \A some \in SUBSET (keys \cap 1..k) : f[some] =
          IF some = {} THEN in ELSE EmitKeyUp(f[some \ {Max(some)}], Max(some), 0, {})
    BY <2>1, Zenon DEF IsReleased
  <2>3. ASSUME NEW some \in SUBSET now
        PROVE  more[some] =
                 IF some = {} THEN in ELSE EmitKeyUp(more[some \ {Max(some)}], Max(some), 0, {})
    <3>1. CASE k + 1 \in some
      <4>1. Max(some) = k + 1 /\ some # {}
        BY <3>1, MaxOf
      <4>2. some \ {k + 1} \in SUBSET now /\ k + 1 \notin some \ {k + 1}
        OBVIOUS
      <4>3. more[some] = EmitKeyUp(f[some \ {k + 1}], k + 1, 0, {})
            /\ more[some \ {k + 1}] = f[some \ {k + 1}]
        BY <3>1, <4>2, Zenon
      <4> HIDE DEF more, now
      <4> QED  BY <4>1, <4>3
    <3>2. CASE k + 1 \notin some
      <4>1. some \in SUBSET (keys \cap 1..k)
        BY <3>2
      <4>2. more[some] = f[some] /\ k + 1 \notin some \ {Max(some)} /\ some \ {Max(some)} \in SUBSET now
        BY <3>2, Zenon
      <4>3. more[some \ {Max(some)}] = f[some \ {Max(some)}]
        BY <4>2, Zenon
      <4> HIDE DEF more, now
      <4> QED  BY <2>2, <4>1, <4>2, <4>3
    <3> QED  BY <3>1, <3>2
  <2>4. IsReleased(more, in, now)
    <3>1. more = [some \in SUBSET now |-> more[some]]
      OBVIOUS
    <3> HIDE DEF more, now
    <3> QED  BY <2>3, <3>1, Zenon DEF IsReleased
  <2> HIDE DEF more
  <2> QED  BY <2>4
<1>3. \A k \in Nat : k \in K
  <2> HIDE DEF K
  <2> QED  BY <1>1, <1>2, Induction
<1>4. PICK f : IsReleased(f, in, keys \cap 1..319)
  <2>1. 319 \in K
    <3> HIDE DEF K
    <3> QED  BY <1>3
  <2> QED  BY <2>1
<1>5. keys \cap 1..319 = keys
  BY ZenonT(60) DEF Keys
<1> QED  BY <1>4, <1>5, SMTT(60)

LEMMA ReleaseKeysDef ==
  ASSUME NEW in, NEW keys \in SUBSET Keys
  PROVE  \E f : IsReleased(f, in, keys) /\ ReleaseKeys(in, keys) = f[keys]
<1> DEFINE f == CHOOSE f : IsReleased(f, in, keys)
<1>1. IsReleased(f, in, keys)
  <2>1. \E g : IsReleased(g, in, keys)
    BY ReleasedExists
  <2> QED  BY <2>1, Zenon
<1>2. ReleaseKeys(in, keys) = f[keys]
  BY DEF ReleaseKeys, MapThenFoldSet, IsReleased
<1> QED  BY <1>1, <1>2

LEMMA ReleaseKeysKeeps ==
  ASSUME NEW in, WellFormed(in), NEW keys \in SUBSET Keys
  PROVE  Keeps(in, ReleaseKeys(in, keys)) /\ ReleaseKeys(in, keys).held = in.held \ keys
<1>1. PICK f : IsReleased(f, in, keys) /\ ReleaseKeys(in, keys) = f[keys]
  BY ReleaseKeysDef
<1>2. \A some \in SUBSET keys : f[some] =
        IF some = {} THEN in ELSE EmitKeyUp(f[some \ {Max(some)}], Max(some), 0, {})
  BY <1>1, Zenon DEF IsReleased
<1> DEFINE Done(some) == Keeps(in, f[some]) /\ f[some].held = in.held \ some
           K == {k \in Nat : \A some \in SUBSET (keys \cap 1..k) : Done(some)}
<1>3. 0 \in K
  <2>1. f[{}] = in
    BY <1>2
  <2>2. Done({})
    BY <2>1, KeepsItself
  <2> QED  BY <2>2
<1>4. ASSUME NEW k \in Nat, k \in K  PROVE  k + 1 \in K
  <2>1. ASSUME NEW some \in SUBSET (keys \cap 1..k + 1)  PROVE Done(some)
    <3>1. CASE k + 1 \notin some
      <4>1. some \in SUBSET (keys \cap 1..k)
        BY <3>1
      <4> QED  BY <1>4, <4>1
    <3>2. CASE k + 1 \in some
      <4>1. PICK less : less = some \ {k + 1}
        OBVIOUS
      <4>2. less \in SUBSET (keys \cap 1..k) /\ some = less \cup {k + 1} /\ k + 1 \in Keys
        BY <3>2, <4>1
      <4>3. Done(less)
        BY <1>4, <4>2
      <4>4. Max(some) = k + 1 /\ some # {}
        BY <3>2, MaxOf
      <4>5. f[some] = EmitKeyUp(f[less], k + 1, 0, {})
        BY <1>2, <4>1, <4>4
      <4>6. WellFormed(f[less])
        BY <4>3 DEF Keeps
      <4>7. Keeps(f[less], f[some]) /\ f[some].held = f[less].held \ {k + 1}
        BY <4>2, <4>5, <4>6, EmitKeyUpKeeps
      <4>8. Keeps(in, f[some])
        BY <4>3, <4>7, KeepsChain
      <4> QED  BY <4>2, <4>3, <4>7, <4>8
    <3> QED  BY <3>1, <3>2
  <2> HIDE DEF Done
  <2> QED  BY <2>1
<1>5. \A k \in Nat : k \in K
  <2> HIDE DEF K
  <2> QED  BY <1>3, <1>4, Induction
<1>6. keys \in SUBSET (keys \cap 1..319)
  BY DEF Keys
<1>7. Done(keys)
  <2>1. 319 \in K
    BY <1>5
  <2> QED  BY <1>6, <2>1
<1> QED  BY <1>1, <1>7

LEMMA ReleaseExpiredKeeps ==
  ASSUME NEW in, WellFormed(in)
  PROVE  Keeps(in, ReleaseExpired(in)) /\ in.explicit \subseteq ReleaseExpired(in).held
<1> DEFINE due == {key \in in.held \ in.explicit : in.lease[key] = 0}
<1>1. due \in SUBSET Keys /\ in.explicit \subseteq in.held \ due
  BY DEF WellFormed, HoldsOK
<1> HIDE DEF due
<1>2. Keeps(in, ReleaseKeys(in, due)) /\ ReleaseKeys(in, due).held = in.held \ due
  BY <1>1, ReleaseKeysKeeps
<1>3. ReleaseExpired(in) = ReleaseKeys(in, due)
  BY DEF ReleaseExpired, due
<1> QED  BY <1>1, <1>2, <1>3

LEMMA ReleaseAllKeeps ==
  ASSUME NEW in, WellFormed(in)
  PROVE  Keeps(in, ReleaseAll(in))
<1>1. PICK up : up = ReleaseKeys(in, in.held)
  OBVIOUS
<1>2. Keeps(in, up)
  <2>1. in.held \in SUBSET Keys
    BY DEF WellFormed, HoldsOK
  <2> QED  BY <1>1, <2>1, ReleaseKeysKeeps
<1>3. Keeps(up, ReleaseMouseButtons(up, {}))
  BY <1>2, ReleaseMouseButtonsKeeps DEF Keeps
<1>4. ReleaseAll(in) = ReleaseMouseButtons(up, {})
  BY <1>1 DEF ReleaseAll
<1> QED  BY <1>2, <1>3, <1>4, KeepsChain

\* The states a fold of EmitText goes through.
IsTyped(f, in, text, dom) ==
  f = [some \in SUBSET dom |->
         IF some = {} THEN in ELSE EmitText(f[some \ {Max(some)}], text[Max(some)])]

LEMMA TypedExists ==
  ASSUME NEW in, NEW text, NEW n \in Nat
  PROVE  \E f : IsTyped(f, in, text, 1..n)
<1> DEFINE K == {k \in Nat : \E f : IsTyped(f, in, text, 1..k)}
<1>1. 0 \in K
  <2> DEFINE f == [some \in SUBSET {} |-> in]
  <2>1. 1..0 = {}
    OBVIOUS
  <2>2. f = [some \in SUBSET {} |->
               IF some = {} THEN in ELSE EmitText(f[some \ {Max(some)}], text[Max(some)])]
    OBVIOUS
  <2> QED  BY <2>1, <2>2 DEF IsTyped
<1>2. ASSUME NEW k \in Nat, k \in K  PROVE  k + 1 \in K
  <2>1. PICK f : IsTyped(f, in, text, 1..k)
    BY <1>2
  <2> DEFINE now  == 1..k + 1
             more == [some \in SUBSET now |->
                        IF k + 1 \in some THEN EmitText(f[some \ {k + 1}], text[k + 1])
                        ELSE f[some]]
  <2>2. \A some \in SUBSET (1..k) : f[some] =
          IF some = {} THEN in ELSE EmitText(f[some \ {Max(some)}], text[Max(some)])
    BY <2>1, Zenon DEF IsTyped
  <2>3. ASSUME NEW some \in SUBSET now
        PROVE  more[some] =
                 IF some = {} THEN in ELSE EmitText(more[some \ {Max(some)}], text[Max(some)])
    <3>1. CASE k + 1 \in some
      <4>1. Max(some) = k + 1 /\ some # {}
        BY <3>1, MaxOf
      <4>2. some \ {k + 1} \in SUBSET now /\ k + 1 \notin some \ {k + 1}
        OBVIOUS
      <4>3. more[some] = EmitText(f[some \ {k + 1}], text[k + 1])
            /\ more[some \ {k + 1}] = f[some \ {k + 1}]
        BY <3>1, <4>2, Zenon
      <4> HIDE DEF more, now
      <4> QED  BY <4>1, <4>3
    <3>2. CASE k + 1 \notin some
      <4>1. some \in SUBSET (1..k)
        BY <3>2
      <4>2. more[some] = f[some] /\ k + 1 \notin some \ {Max(some)} /\ some \ {Max(some)} \in SUBSET now
        BY <3>2, Zenon
      <4>3. more[some \ {Max(some)}] = f[some \ {Max(some)}]
        BY <4>2, Zenon
      <4> HIDE DEF more, now
      <4> QED  BY <2>2, <4>1, <4>2, <4>3
    <3> QED  BY <3>1, <3>2
  <2>4. IsTyped(more, in, text, now)
    <3>1. more = [some \in SUBSET now |-> more[some]]
      OBVIOUS
    <3> HIDE DEF more, now
    <3> QED  BY <2>3, <3>1, Zenon DEF IsTyped
  <2> HIDE DEF more
  <2> QED  BY <2>4
<1>3. \A k \in Nat : k \in K
  <2> HIDE DEF K
  <2> QED  BY <1>1, <1>2, Induction
<1> QED  BY <1>3

LEMMA EmitTextsKeeps ==
  ASSUME NEW in, WellFormed(in), NEW S, NEW text \in Seq(S)
  PROVE  Keeps(in, FoldLeft(EmitText, in, text))
<1> DEFINE f == CHOOSE f : IsTyped(f, in, text, DOMAIN text)
<1>0. Len(text) \in Nat /\ DOMAIN text = 1..Len(text)
  OBVIOUS
<1>1. IsTyped(f, in, text, 1..Len(text))
  <2>1. \E g : IsTyped(g, in, text, 1..Len(text))
    BY <1>0, TypedExists
  <2> QED  BY <1>0, <2>1, Zenon
<1>2. FoldLeft(EmitText, in, text) = f[1..Len(text)]
  BY <1>0 DEF FoldLeft, MapThenFoldSet, IsTyped
<1> HIDE DEF f
<1>3. \A some \in SUBSET (1..Len(text)) : f[some] =
        IF some = {} THEN in ELSE EmitText(f[some \ {Max(some)}], text[Max(some)])
  BY <1>1, Zenon DEF IsTyped
<1> DEFINE K == {k \in Nat : k <= Len(text) =>
                   \A some \in SUBSET (1..k) : Keeps(in, f[some])}
<1>4. 0 \in K
  <2>1. f[{}] = in
    <3>1. {} \in SUBSET (1..Len(text))
      OBVIOUS
    <3> QED  BY <1>3, <3>1, Zenon
  <2>0. 1..0 = {}
    OBVIOUS
  <2> QED  BY <2>0, <2>1, KeepsItself
<1>5. ASSUME NEW k \in Nat, k \in K  PROVE  k + 1 \in K
  <2>1. ASSUME k + 1 <= Len(text), NEW some \in SUBSET (1..k + 1)  PROVE Keeps(in, f[some])
    <3>0. k <= Len(text) /\ 1..k + 1 \subseteq 1..Len(text)
      BY <1>0, <2>1
    <3>1. CASE k + 1 \notin some
      <4>1. some \in SUBSET (1..k)
        BY <3>1
      <4> QED  BY <1>5, <3>0, <4>1
    <3>2. CASE k + 1 \in some
      <4>1. PICK less : less = some \ {k + 1}
        OBVIOUS
      <4>2. less \in SUBSET (1..k) /\ some \in SUBSET (1..Len(text))
        BY <3>0, <3>2, <4>1
      <4>3. Keeps(in, f[less])
        BY <1>5, <3>0, <4>2
      <4>4. Max(some) = k + 1 /\ some # {}
        BY <3>2, MaxOf
      <4>5. f[some] = EmitText(f[less], text[k + 1])
        BY <1>3, <4>1, <4>2, <4>4
      <4>6. WellFormed(f[less])
        BY <4>3 DEF Keeps
      <4>7. Keeps(f[less], f[some])
        BY <4>5, <4>6, EmitTextKeeps
      <4> QED  BY <4>3, <4>7, KeepsChain
    <3> QED  BY <3>1, <3>2
  <2> QED  BY <2>1
<1>6. \A k \in Nat : k \in K
  <2> HIDE DEF K
  <2> QED  BY <1>4, <1>5, Induction
<1>7. Keeps(in, f[1..Len(text)])
  BY <1>0, <1>6
<1> QED  BY <1>2, <1>7

Parted(parts, b, separators) ==
  IF b \in separators THEN Append(parts, <<>>) ELSE [parts EXCEPT ![Len(parts)] = Append(@, b)]

\* The parts Split has found, a byte at a time.
IsCut(f, s, separators, dom) ==
  f = [some \in SUBSET dom |->
         IF some = {} THEN << <<>> >> ELSE Parted(f[some \ {Max(some)}], s[Max(some)], separators)]

LEMMA CutExists ==
  ASSUME NEW s, NEW separators, NEW n \in Nat
  PROVE  \E f : IsCut(f, s, separators, 1..n)
<1> DEFINE K == {k \in Nat : \E f : IsCut(f, s, separators, 1..k)}
<1>1. 0 \in K
  <2> DEFINE f == [some \in SUBSET {} |-> << <<>> >>]
  <2>1. 1..0 = {}
    OBVIOUS
  <2>2. f = [some \in SUBSET {} |->
               IF some = {} THEN << <<>> >> ELSE Parted(f[some \ {Max(some)}], s[Max(some)], separators)]
    OBVIOUS
  <2> QED  BY <2>1, <2>2 DEF IsCut
<1>2. ASSUME NEW k \in Nat, k \in K  PROVE  k + 1 \in K
  <2>1. PICK f : IsCut(f, s, separators, 1..k)
    BY <1>2
  <2> DEFINE now  == 1..k + 1
             more == [some \in SUBSET now |->
                        IF k + 1 \in some THEN Parted(f[some \ {k + 1}], s[k + 1], separators)
                        ELSE f[some]]
  <2>2. \A some \in SUBSET (1..k) : f[some] =
          IF some = {} THEN << <<>> >> ELSE Parted(f[some \ {Max(some)}], s[Max(some)], separators)
    BY <2>1, Zenon DEF IsCut
  <2>3. ASSUME NEW some \in SUBSET now
        PROVE  more[some] =
                 IF some = {} THEN << <<>> >> ELSE Parted(more[some \ {Max(some)}], s[Max(some)], separators)
    <3>1. CASE k + 1 \in some
      <4>1. Max(some) = k + 1 /\ some # {}
        BY <3>1, MaxOf
      <4>2. some \ {k + 1} \in SUBSET now /\ k + 1 \notin some \ {k + 1}
        OBVIOUS
      <4>3. more[some] = Parted(f[some \ {k + 1}], s[k + 1], separators)
            /\ more[some \ {k + 1}] = f[some \ {k + 1}]
        BY <3>1, <4>2, Zenon
      <4> HIDE DEF more, now
      <4> QED  BY <4>1, <4>3
    <3>2. CASE k + 1 \notin some
      <4>1. some \in SUBSET (1..k)
        BY <3>2
      <4>2. more[some] = f[some] /\ k + 1 \notin some \ {Max(some)} /\ some \ {Max(some)} \in SUBSET now
        BY <3>2, Zenon
      <4>3. more[some \ {Max(some)}] = f[some \ {Max(some)}]
        BY <4>2, Zenon
      <4> HIDE DEF more, now
      <4> QED  BY <2>2, <4>1, <4>2, <4>3
    <3> QED  BY <3>1, <3>2
  <2>4. IsCut(more, s, separators, now)
    <3>1. more = [some \in SUBSET now |-> more[some]]
      OBVIOUS
    <3> HIDE DEF more, now
    <3> QED  BY <2>3, <3>1, Zenon DEF IsCut
  <2> HIDE DEF more
  <2> QED  BY <2>4
<1>3. \A k \in Nat : k \in K
  <2> HIDE DEF K
  <2> QED  BY <1>1, <1>2, Induction
<1> QED  BY <1>3

LEMMA PartedParts ==
  ASSUME NEW b \in 0..255, NEW separators, NEW parts \in Seq(Seq(0..255)), parts # <<>>
  PROVE  Parted(parts, b, separators) \in Seq(Seq(0..255)) /\ Parted(parts, b, separators) # <<>>
<1>1. CASE b \in separators
  <2>1. <<>> \in Seq(0..255)
    OBVIOUS
  <2> QED  BY <1>1, <2>1, SMTT(60) DEF Parted
<1>2. CASE b \notin separators
  <2>1. Len(parts) \in 1..Len(parts) /\ parts[Len(parts)] \in Seq(0..255)
    OBVIOUS
  <2>2. Append(parts[Len(parts)], b) \in Seq(0..255)
    BY <2>1
  <2>3. PICK part \in Seq(0..255) : part = Append(parts[Len(parts)], b)
    BY <2>2, ZenonT(60)
  <2>4. [parts EXCEPT ![Len(parts)] = part] \in Seq(Seq(0..255))
    BY <2>1
  <2>5. Len([parts EXCEPT ![Len(parts)] = part]) = Len(parts) /\ Len(parts) # 0
    BY <2>1
  <2>6. Parted(parts, b, separators) = [parts EXCEPT ![Len(parts)] = part]
    BY <1>2, <2>3 DEF Parted
  <2> QED  BY <2>4, <2>5, <2>6
<1> QED  BY <1>1, <1>2

LEMMA SplitParts ==
  ASSUME NEW s \in Seq(0..255), NEW separators
  PROVE  Split(s, separators) \in Seq(Seq(0..255)) /\ Split(s, separators) # <<>>
<1> DEFINE f == CHOOSE f : IsCut(f, s, separators, DOMAIN s)
<1>0. Len(s) \in Nat /\ DOMAIN s = 1..Len(s)
  OBVIOUS
<1>1. IsCut(f, s, separators, 1..Len(s))
  <2>1. \E g : IsCut(g, s, separators, 1..Len(s))
    BY <1>0, CutExists
  <2> QED  BY <1>0, <2>1, Zenon
<1>2. Split(s, separators) = f[1..Len(s)]
  BY <1>0 DEF Split, FoldLeft, MapThenFoldSet, IsCut, Parted
<1> HIDE DEF f
<1>3. \A some \in SUBSET (1..Len(s)) : f[some] =
        IF some = {} THEN << <<>> >> ELSE Parted(f[some \ {Max(some)}], s[Max(some)], separators)
  BY <1>1, Zenon DEF IsCut
<1> DEFINE Parts(some) == f[some] \in Seq(Seq(0..255)) /\ f[some] # <<>>
           K == {k \in Nat : k <= Len(s) => \A some \in SUBSET (1..k) : Parts(some)}
<1>4. 0 \in K
  <2>1. f[{}] = << <<>> >>
    <3>1. {} \in SUBSET (1..Len(s))
      OBVIOUS
    <3> QED  BY <1>3, <3>1, Zenon
  <2>0. 1..0 = {}
    OBVIOUS
  <2>2. << <<>> >> \in Seq(Seq(0..255)) /\ << <<>> >> # <<>>
    OBVIOUS
  <2> QED  BY <2>0, <2>1, <2>2, ZenonT(60)
<1>5. ASSUME NEW k \in Nat, k \in K  PROVE  k + 1 \in K
  <2>1. ASSUME k + 1 <= Len(s), NEW some \in SUBSET (1..k + 1)  PROVE Parts(some)
    <3>0. k <= Len(s) /\ 1..k + 1 \subseteq 1..Len(s) /\ s[k + 1] \in 0..255
      BY <1>0, <2>1
    <3>1. CASE k + 1 \notin some
      <4>1. some \in SUBSET (1..k)
        BY <3>1, SMTT(60)
      <4> QED  BY <1>5, <3>0, <4>1
    <3>2. CASE k + 1 \in some
      <4>1. PICK less : less = some \ {k + 1}
        OBVIOUS
      <4>2. less \in SUBSET (1..k) /\ some \in SUBSET (1..Len(s))
        BY <3>0, <3>2, <4>1
      <4>3. Parts(less)
        BY <1>5, <3>0, <4>2
      <4>4. Max(some) = k + 1 /\ some # {}
        BY <3>2, MaxOf
      <4>5. f[some] = Parted(f[less], s[k + 1], separators)
        BY <1>3, <4>1, <4>2, <4>4
      <4> QED  BY <3>0, <4>3, <4>5, PartedParts, ZenonT(60)
    <3> QED  BY <3>1, <3>2
  <2> HIDE DEF Parts
  <2> QED  BY <2>1
<1>6. \A k \in Nat : k \in K
  <2> HIDE DEF K
  <2> QED  BY <1>4, <1>5, Induction
<1>7. Parts(1..Len(s))
  <2>1. Len(s) \in K
    BY <1>0, <1>6
  <2> QED  BY <1>0, <2>1
<1> QED  BY <1>2, <1>7

-----------------------------------------------------------------------------
(* What the decoder makes of one sequence.                                  *)

\* What no event tells of and no deadline depends on may change.
LEMMA AsideKeeps ==
  ASSUME NEW in, WellFormed(in), NEW to, DOMAIN to = InputFields,
         to.capacity = in.capacity, to.events = in.events, to.dropped = in.dropped,
         to.bytes = in.bytes, to.escape = in.escape, to.held = in.held,
         to.explicit = in.explicit, to.lease = in.lease, to.buttons = in.buttons
  PROVE  Keeps(in, to)
BY DEF Keeps, WellFormed, HoldsOK, Honest, HeldIn

LEMMA EmitPlainByteKeeps ==
  ASSUME NEW in, WellFormed(in), NEW byte, NEW modifiers
  PROVE  Keeps(in, EmitPlainByte(in, byte, modifiers))
<1>1. \A key, codepoint, all, repeat, explicit, text :
        Keeps(in, EmitKeyDown(in, key, codepoint, all, repeat, explicit, text))
  BY EmitKeyDownKeeps
<1>2. Keeps(in, in)
  BY KeepsItself
<1> DEFINE Key(key, codepoint, ctrl) ==
             EmitKeyDown(in, key, codepoint, modifiers \cup ctrl, FALSE, FALSE, codepoint # 0)
           character == KeyFromCodepoint(byte)
<1>3. EmitPlainByte(in, byte, modifiers) \in
        {Key(13, 0, {}), Key(9, 0, {}), Key(8, 0, {}), Key(32, 0, {"ctrl"}),
         Key(64 + byte, 0, {"ctrl"}), Key(character, byte, {}), in}
  BY DEF EmitPlainByte
<1>4. \A key, codepoint, ctrl : Keeps(in, Key(key, codepoint, ctrl))
  BY <1>1
<1> HIDE DEF Key, character
<1> QED  BY <1>2, <1>3, <1>4

LEMMA EmitProtocolKeyKeeps ==
  ASSUME NEW in, WellFormed(in), NEW key, NEW codepoint, NEW modifiers, NEW event, NEW explicit
  PROVE  Keeps(in, EmitProtocolKey(in, key, codepoint, modifiers, event, explicit))
BY EmitKeyDownKeeps, EmitKeyUpKeeps DEF EmitProtocolKey

LEMMA EmitReportKeeps ==
  ASSUME NEW in, WellFormed(in), NEW c, NEW modifiers, NEW kind, NEW explicit,
         NEW S, NEW text \in Seq(S)
  PROVE  Keeps(in, EmitReport(in, c, modifiers, kind, explicit, text))
<1>1. PICK mid : mid = EmitProtocolKey(in, KittyKey(c), KittyShown(c, text), modifiers, kind, explicit)
  OBVIOUS
<1>2. Keeps(in, mid)
  BY <1>1, EmitProtocolKeyKeeps
<1>3. Keeps(mid, FoldLeft(EmitText, mid, text))
  BY <1>2, EmitTextsKeeps DEF Keeps
<1>4. EmitReport(in, c, modifiers, kind, explicit, text) = FoldLeft(EmitText, mid, text)
  BY <1>1 DEF EmitReport
<1> QED  BY <1>2, <1>3, <1>4, KeepsChain

LEMMA EmitKittyKeeps ==
  ASSUME NEW in, WellFormed(in), NEW c, NEW event, NEW S, NEW text \in Seq(S)
  PROVE  Keeps(in, EmitKitty(in, c, event, text))
<1> DEFINE typed == Len(event) = 2 /\ event[2] # <<>>
           kind  == IF typed THEN Number(event[2]) ELSE 1
           said  == IF kind = 3 THEN <<>> ELSE text
<1>1. said \in Seq(S)
  OBVIOUS
<1>2. EmitKitty(in, c, event, text) =
        EmitReport(in, c, DecodeModifiers(IF event[1] = <<>> THEN 1 ELSE Number(event[1])), kind,
                   typed \/ in.mode = "explicit", said)
  BY DEF EmitKitty
<1> HIDE DEF said, kind, typed
<1> QED  BY <1>1, <1>2, EmitReportKeeps

LEMMA KittyTextTyped ==
  ASSUME NEW payload \in Seq(0..255)
  PROVE  \E S : KittyText(KittyFields(payload)) \in Seq(S)
<1>1. PICK parts \in Seq(Seq(0..255)) : parts = Split(payload, {Semicolon})
  BY SplitParts
<1>2. PICK fields : fields = Fields(parts)
  OBVIOUS
<1>3. DOMAIN fields = 1..Len(parts) /\ Len(parts) \in Nat
      /\ \A i \in 1..Len(parts) : fields[i] = Split(parts[i], {Colon})
  BY <1>2 DEF Fields
<1> DEFINE Numbers == {Number(b) : b \in Seq(0..255)}
<1>4. KittyText(fields) \in Seq(Numbers)
  <2>1. CASE Len(fields) < 3 \/ fields[3] = << <<>> >>
    <3>1. KittyText(fields) = <<>>
      BY <2>1 DEF KittyText
    <3> QED  BY <3>1
  <2>2. CASE ~(Len(fields) < 3 \/ fields[3] = << <<>> >>)
    <3>1. Len(fields) = Len(parts)
      <4>1. fields = [i \in 1..Len(parts) |-> Split(parts[i], {Colon})]
        BY <1>2 DEF Fields
      <4> QED  BY <1>3, <4>1
    <3>2. 3 \in 1..Len(parts)
      BY <1>3, <2>2, <3>1
    <3>3. fields[3] \in Seq(Seq(0..255))
      <4>1. parts[3] \in Seq(0..255)
        BY <3>2
      <4> QED  BY <1>3, <3>2, <4>1, SplitParts
    <3>4. PICK text \in Seq(Seq(0..255)) : text = fields[3]
      BY <3>3
    <3>5. KittyText(fields) = [j \in 1..Len(text) |-> Number(text[j])]
      BY <2>2, <3>4 DEF KittyText
    <3>6. \A j \in 1..Len(text) : Number(text[j]) \in Numbers
      <4>1. \A j \in 1..Len(text) : text[j] \in Seq(0..255)
        OBVIOUS
      <4> QED  BY <4>1, ZenonT(60)
    <3>7. Len(text) \in Nat
      OBVIOUS
    <3> HIDE DEF Numbers
    <3> QED  BY <3>5, <3>6, <3>7
  <2> QED  BY <2>1, <2>2
<1>5. KittyFields(payload) = fields
  BY <1>1, <1>2, Zenon DEF KittyFields
<1> HIDE DEF Numbers
<1> QED  BY <1>4, <1>5

LEMMA HandleKittyReportKeeps ==
  ASSUME NEW in, WellFormed(in), NEW payload \in Seq(0..255)
  PROVE  Keeps(in, HandleKittyReport(in, payload))
<1>1. PICK fields : fields = KittyFields(payload)
  OBVIOUS
<1>2. PICK S : KittyText(fields) \in Seq(S)
  BY <1>1, KittyTextTyped
<1>3. HandleKittyReport(in, payload) =
        IF KittyValid(fields)
        THEN EmitKitty(in, Number(fields[1][1]), KittyEvent(fields), KittyText(fields))
        ELSE in
  BY <1>1, Zenon DEF HandleKittyReport, HandleFields
<1>4. Keeps(in, EmitKitty(in, Number(fields[1][1]), KittyEvent(fields), KittyText(fields)))
  BY <1>2, EmitKittyKeeps
<1> QED  BY <1>3, <1>4, KeepsItself

LEMMA HandleKeyboardKeeps ==
  ASSUME NEW in, WellFormed(in), NEW payload \in Seq(0..255)
  PROVE  Keeps(in, HandleKeyboard(in, payload))
<1>1. CASE KeyboardFlags(payload)
  <2>1. PICK mode : HandleKeyboard(in, payload) = [in EXCEPT !.mode = mode]
    BY <1>1 DEF HandleKeyboard
  <2>2. DOMAIN [in EXCEPT !.mode = mode] = InputFields
    BY DEF WellFormed
  <2> QED  BY <2>1, <2>2, AsideKeeps DEF WellFormed, InputFields
<1>2. CASE ~KeyboardFlags(payload)
  BY <1>2, HandleKittyReportKeeps DEF HandleKeyboard
<1> QED  BY <1>1, <1>2

LEMMA PlacedKeeps ==
  ASSUME NEW in, WellFormed(in), NEW at
  PROVE  Keeps(in, [in EXCEPT !.mouse = at])
BY AsideKeeps, SMTT(60) DEF WellFormed, InputFields

LEMMA HandleMouseKeeps ==
  ASSUME NEW in, WellFormed(in), NEW code, NEW column, NEW row, NEW release \in BOOLEAN, NEW legacy
  PROVE  Keeps(in, HandleMouse(in, code, column, row, release, legacy))
<1> DEFINE button    == MouseButton(code)
           modifiers == MouseModifiers(code)
           motion    == Bit(code, 32)
           at        == <<column - 1, row - 1>>
           placed    == [in EXCEPT !.mouse = at]
           moved     == IF motion \/ in.mouse # at
                        THEN EmitMouseMove(placed, button, modifiers) ELSE placed
           delta     == <<<<0, 1>>, <<0, -1>>, <<-1, 0>>, <<1, 0>>>>[(code % 4) + 1]
           wheel     == [type |-> "mouse_wheel", delta |-> delta]
<1>1. HandleMouse(in, code, column, row, release, legacy) \in
        {in, QueueEvent(placed, wheel), ReleaseMouseButtons(moved, modifiers),
         EmitMouseButton(moved, button, ~release, modifiers), moved}
  <2> HIDE DEF button, modifiers, motion, at, delta
  <2>1. HandleMouse(in, code, column, row, release, legacy) =
          IF column = 0 \/ row = 0 THEN in
          ELSE IF Bit(code, 64) THEN QueueEvent(placed, wheel)
          ELSE IF (legacy /\ code % 4 = 3) \/ (release /\ button = "none")
          THEN ReleaseMouseButtons(moved, modifiers)
          ELSE IF release \/ ~motion THEN EmitMouseButton(moved, button, ~release, modifiers)
          ELSE moved
    BY DEF HandleMouse, button, modifiers, motion, at, delta
  <2> HIDE DEF placed, moved, wheel
  <2> QED  BY <2>1
<1>2. wheel.type \notin {"down", "up", "mouse_down", "mouse_up"}
  OBVIOUS
<1>3. Keeps(in, placed)
  <2> HIDE DEF at
  <2> QED  BY PlacedKeeps
<1>4. moved \in {placed, EmitMouseMove(placed, button, modifiers)}
  <2> HIDE DEF placed, at, button, modifiers, motion
  <2> QED  OBVIOUS
<1> HIDE DEF placed, moved, wheel, button, modifiers
<1>5. WellFormed(placed)
  BY <1>3 DEF Keeps
<1>6. Keeps(in, QueueEvent(placed, wheel))
  BY <1>2, <1>3, <1>5, NewsKeeps, KeepsChain
<1>7. Keeps(in, moved)
  BY <1>3, <1>4, <1>5, EmitMouseMoveKeeps, KeepsChain
<1>8. WellFormed(moved)
  BY <1>7 DEF Keeps
<1>9. Keeps(in, ReleaseMouseButtons(moved, modifiers))
  BY <1>7, <1>8, ReleaseMouseButtonsKeeps, KeepsChain
<1>10. Keeps(in, EmitMouseButton(moved, button, ~release, modifiers))
  BY <1>7, <1>8, EmitMouseButtonKeeps, KeepsChain
<1> QED  BY <1>1, <1>6, <1>7, <1>9, <1>10, KeepsItself

LEMMA HandleSgrMouseKeeps ==
  ASSUME NEW in, WellFormed(in), NEW payload, NEW final
  PROVE  Keeps(in, HandleSgrMouse(in, payload, final))
<1>1. PICK code, column, row :
        HandleSgrMouse(in, payload, final) \in {in, HandleMouse(in, code, column, row, final = 109, FALSE)}
  BY DEF HandleSgrMouse
<1>2. Keeps(in, HandleMouse(in, code, column, row, final = 109, FALSE))
  BY HandleMouseKeeps
<1> QED  BY <1>1, <1>2, KeepsItself

LEMMA HandleLegacyKeyKeeps ==
  ASSUME NEW in, WellFormed(in), NEW key, NEW p
  PROVE  Keeps(in, HandleLegacyKey(in, key, p))
<1>1. PICK modifiers, event, explicit :
        HandleLegacyKey(in, key, p) \in {in, EmitProtocolKey(in, key, 0, modifiers, event, explicit)}
  BY DEF HandleLegacyKey
<1> QED  BY <1>1, EmitProtocolKeyKeeps, KeepsItself

LEMMA PastingKeeps ==
  ASSUME NEW in, WellFormed(in), NEW now
  PROVE  Keeps(in, [in EXCEPT !.paste = now])
BY AsideKeeps, SMTT(60) DEF WellFormed, InputFields

LEMMA HandleTildeKeeps ==
  ASSUME NEW in, WellFormed(in), NEW p
  PROVE  Keeps(in, HandleTilde(in, p))
<1> DEFINE pasting(now) == [in EXCEPT !.paste = now]
           news(now)    == [type |-> IF now THEN "paste_begin" ELSE "paste_end"]
           pasted(now)  == QueueEvent(pasting(now), news(now))
           third        == EmitProtocolKey(in, KeyFromCodepoint(p[3]), p[3], DecodeModifiers(p[2]), 1, FALSE)
           legacy       == HandleLegacyKey(in, TildeKey(p[1]), p)
<1>1. HandleTilde(in, p) \in {pasted(TRUE), pasted(FALSE), in, third, legacy}
  <2>1. HandleTilde(in, p) =
          CASE p[1] = 200 -> pasted(TRUE) [] p[1] = 201 -> pasted(FALSE)
            [] p[1] = 27 /\ Len(p) >= 3 -> (IF CodepointValid(p[3]) THEN third ELSE in)
            [] OTHER -> legacy
    BY DEF HandleTilde
  <2> HIDE DEF pasted, third, legacy
  <2> QED  BY <2>1
<1>2. ASSUME NEW now \in BOOLEAN  PROVE Keeps(in, pasted(now))
  <2>1. Keeps(in, pasting(now))
    BY PastingKeeps
  <2>2. news(now).type \notin {"down", "up", "mouse_down", "mouse_up"}
    OBVIOUS
  <2> HIDE DEF pasting, news
  <2>3. Keeps(pasting(now), pasted(now))
    BY <2>1, <2>2, NewsKeeps DEF Keeps
  <2> HIDE DEF pasted
  <2> QED  BY <2>1, <2>3, KeepsChain
<1>3. Keeps(in, third) /\ Keeps(in, legacy)
  BY EmitProtocolKeyKeeps, HandleLegacyKeyKeeps
<1> HIDE DEF pasted, third, legacy
<1> QED  BY <1>1, <1>2, <1>3, KeepsItself

LEMMA HandleParametersKeeps ==
  ASSUME NEW in, WellFormed(in), NEW p, NEW final
  PROVE  Keeps(in, HandleParameters(in, p, final))
<1> DEFINE gained == QueueEvent(in, [type |-> "focus_in"])
           lost   == QueueEvent(in, [type |-> "focus_out"])
<1>1. Keeps(in, gained) /\ Keeps(in, lost)
  <2>1. PICK a, b : a = [type |-> "focus_in"] /\ b = [type |-> "focus_out"]
    OBVIOUS
  <2>2. a.type \notin {"down", "up", "mouse_down", "mouse_up"}
        /\ b.type \notin {"down", "up", "mouse_down", "mouse_up"}
    BY <2>1
  <2>3. Keeps(in, QueueEvent(in, a)) /\ Keeps(in, QueueEvent(in, b))
    BY <2>2, NewsKeeps
  <2> QED  BY <2>1, <2>3
<1>2. HandleParameters(in, p, final) \in
        {gained, ReleaseAll(lost), EmitProtocolKey(in, 9, 0, {"shift"}, 1, FALSE),
         HandleTilde(in, p), HandleLegacyKey(in, FinalKey(final), p)}
  <2> HIDE DEF gained, lost
  <2>1. HandleParameters(in, p, final) =
          CASE final = 73 /\ p = <<>>  -> gained
            [] final = 79 /\ p = <<>>  -> ReleaseAll(lost)
            [] final = 90              -> EmitProtocolKey(in, 9, 0, {"shift"}, 1, FALSE)
            [] final = 126 /\ p # <<>> -> HandleTilde(in, p)
            [] OTHER                   -> HandleLegacyKey(in, FinalKey(final), p)
    BY DEF HandleParameters, gained, lost
  <2> QED  BY <2>1
<1> HIDE DEF gained, lost
<1>3. Keeps(lost, ReleaseAll(lost))
  BY <1>1, ReleaseAllKeeps DEF Keeps
<1>4. Keeps(in, ReleaseAll(lost))
  BY <1>1, <1>3, KeepsChain
<1>5. Keeps(in, EmitProtocolKey(in, 9, 0, {"shift"}, 1, FALSE))
  BY EmitProtocolKeyKeeps
<1>6. Keeps(in, HandleTilde(in, p)) /\ Keeps(in, HandleLegacyKey(in, FinalKey(final), p))
  BY HandleTildeKeeps, HandleLegacyKeyKeeps
<1> QED  BY <1>1, <1>2, <1>4, <1>5, <1>6

LEMMA HandleCsiKeeps ==
  ASSUME NEW in, WellFormed(in), NEW payload \in Seq(0..255), NEW final
  PROVE  Keeps(in, HandleCsi(in, payload, final))
<1>1. HandleCsi(in, payload, final) \in
        {in, HandleKeyboard(in, payload), HandleSgrMouse(in, payload, final),
         HandleParameters(in, Parameters(payload), final)}
  BY DEF HandleCsi
<1> QED  BY <1>1, KeepsItself, HandleKeyboardKeeps, HandleSgrMouseKeeps, HandleParametersKeeps

LEMMA HandleSs3Keeps ==
  ASSUME NEW in, WellFormed(in), NEW final
  PROVE  Keeps(in, HandleSs3(in, final))
BY KeepsItself, EmitKeyDownKeeps DEF HandleSs3

LEMMA EmitEscapeKeeps ==
  ASSUME NEW in, WellFormed(in)
  PROVE  Keeps(in, EmitEscape(in))
BY EmitKeyDownKeeps DEF EmitEscape

-----------------------------------------------------------------------------
(* One attempt to parse.                                                    *)

\* What an attempt to parse keeps: all that Keeps says but the deadline.
Stays(in, to) ==
  /\ WellFormed(to) /\ to.capacity = in.capacity /\ to.bytes = in.bytes
  /\ \A v : Honest(v, in) => Honest(v, to)

LEMMA StaysChain ==
  ASSUME NEW a, NEW b, NEW c, Keeps(a, b) \/ Stays(a, b), Keeps(b, c) \/ Stays(b, c)
  PROVE  Stays(a, c)
BY DEF Keeps, Stays

LEMMA DeadlineStays ==
  ASSUME NEW in, WellFormed(in), NEW left \in Nat \cup {NotPending}
  PROVE  LET to == [in EXCEPT !.escape = left]
         IN Stays(in, to) /\ to.escape = left /\ to.paste = in.paste /\ to.mode = in.mode
            /\ to.held = in.held
BY DEF WellFormed, InputFields, HoldsOK, Stays, Honest, HeldIn

LEMMA MarkEscapeStays ==
  ASSUME NEW in, WellFormed(in)
  PROVE  Stays(in, MarkEscape(in)) /\ MarkEscape(in).escape \in Nat
<1> DEFINE left == IF in.escape = NotPending THEN EscapeTimeout ELSE in.escape
<1>1. left \in Nat
  BY InputStateConstants DEF WellFormed
<1>2. MarkEscape(in) = [in EXCEPT !.escape = left]
  BY DEF MarkEscape
<1> HIDE DEF left
<1> QED  BY <1>1, <1>2, DeadlineStays

\* An attempt on a buffer that holds bytes consumes no more than it holds.
Parsed(in, bytes, one) == Stays(in, one.in) /\ one.consumed \in 0..Len(bytes)

LEMMA CompleteParsed ==
  ASSUME NEW in, NEW bytes, NEW to, NEW n \in 0..Len(bytes), Keeps(in, to) \/ Stays(in, to)
  PROVE  Parsed(in, bytes, Complete(to, n)) /\ Complete(to, n).consumed = n
BY DEF Parsed, Complete, Keeps, Stays

LEMMA WaitOrDeferParsed ==
  ASSUME NEW in, WellFormed(in), NEW bytes, Len(bytes) \in Nat, NEW force
  PROVE  /\ Parsed(in, bytes, Wait(in)) /\ Parsed(in, bytes, Defer(in))
         /\ Parsed(in, bytes, WaitOrDefer(in, force)) /\ Parsed(in, bytes, Incomplete(in))
<1>1. Stays(in, MarkEscape(in)) /\ Stays(in, [in EXCEPT !.escape = EscapeTimeout])
  BY MarkEscapeStays, DeadlineStays, InputStateConstants
<1>2. Stays(in, in)
  BY DEF Stays
<1> HIDE DEF MarkEscape
<1> QED  BY <1>1, <1>2 DEF Parsed, Wait, Defer, WaitOrDefer, Incomplete

LEMMA DecodedWhole ==
  ASSUME NEW bytes \in Seq(0..255), bytes # <<>>
  PROVE  /\ Consumed(DecodeUtf8(bytes)) \in 1..Len(bytes)
         /\ DecodeUtf8(bytes).result = "incomplete" => Len(bytes) < 4
<1> DEFINE n == Needed(bytes[1])
           code == FoldLeft(LAMBDA c, b : 64 * c + (b % 64), LeadBits(bytes[1]), SubSeq(bytes, 2, n))
           good == (\A i \in 2..n : bytes[i] \in 128..191) /\ code >= Minimum(n) /\ CodepointValid(code)
<1>1. bytes[1] \in 0..255 /\ Len(bytes) \in Nat \ {0}
  <2>1. Len(bytes) \in Nat \ {0}
    OBVIOUS
  <2>2. 1 \in 1..Len(bytes)
    BY <2>1
  <2>3. bytes[1] \in 0..255
    BY <2>2, ElementOfSeq, SMTT(60)
  <2> QED  BY <2>1, <2>3
<1>2. n \in 0..4
  BY <1>1 DEF Needed
<1>3. DecodeUtf8(bytes) =
        CASE n = 0         -> [result |-> "invalid"]
          [] n > Len(bytes) -> [result |-> "incomplete"]
          [] OTHER -> IF good THEN [result |-> "complete", codepoint |-> code, consumed |-> n]
                      ELSE [result |-> "invalid"]
  BY DEF DecodeUtf8
<1> HIDE DEF n, code, good
<1>4. /\ DecodeUtf8(bytes).result = "complete"
           => n # 0 /\ n <= Len(bytes) /\ DecodeUtf8(bytes).consumed = n
      /\ DecodeUtf8(bytes).result = "incomplete" => Len(bytes) < 4
  <2>1. CASE n = 0
    BY <1>3, <2>1
  <2>2. CASE n # 0 /\ n > Len(bytes)
    <3>1. Len(bytes) < 4
      BY <1>1, <1>2, <2>2
    <3>2. DecodeUtf8(bytes).result = "incomplete"
      BY <1>3, <2>2
    <3> QED  BY <3>1, <3>2
  <2>3. CASE n # 0 /\ ~(n > Len(bytes)) /\ good
    BY <1>1, <1>2, <1>3, <2>3
  <2>4. CASE n # 0 /\ ~(n > Len(bytes)) /\ ~good
    BY <1>3, <2>4
  <2> QED  BY <2>1, <2>2, <2>3, <2>4
<1> QED  BY <1>1, <1>2, <1>4 DEF Consumed

LEMMA ParsePlainParsed ==
  ASSUME NEW in, WellFormed(in), NEW bytes \in Seq(0..255), NEW modifiers, NEW force \in BOOLEAN
  PROVE  LET one == ParsePlain(in, bytes, modifiers, force)
         IN Parsed(in, bytes, one) /\ (one.consumed = 0 => Len(bytes) < 4)
<1>0. Len(bytes) \in Nat
  OBVIOUS
<1>1. CASE bytes = <<>>
  <2>1. ParsePlain(in, bytes, modifiers, force) = Incomplete(in)
    BY <1>1 DEF ParsePlain
  <2> QED  BY <1>0, <1>1, <2>1, WaitOrDeferParsed
<1>2. CASE bytes # <<>> /\ bytes[1] <= 127
  <2>1. ParsePlain(in, bytes, modifiers, force) = Complete(EmitPlainByte(in, bytes[1], modifiers), 1)
    BY <1>2 DEF ParsePlain
  <2>2. 1 \in 0..Len(bytes)
    BY <1>2
  <2> QED  BY <2>1, <2>2, EmitPlainByteKeeps, CompleteParsed
<1>3. CASE bytes # <<>> /\ ~(bytes[1] <= 127)
  <2> DEFINE utf8 == DecodeUtf8(bytes)
             to   == EmitKeyDown(in, 0, Decoded(utf8), modifiers, FALSE, FALSE, TRUE)
  <2>1. ParsePlain(in, bytes, modifiers, force) =
          IF utf8.result = "incomplete" /\ ~force THEN Incomplete(in) ELSE Complete(to, Consumed(utf8))
    BY <1>3 DEF ParsePlain
  <2>2. Consumed(utf8) \in 1..Len(bytes) /\ (utf8.result = "incomplete" => Len(bytes) < 4)
    BY <1>3, DecodedWhole
  <2>3. Keeps(in, to)
    BY EmitKeyDownKeeps
  <2> HIDE DEF utf8, to
  <2>4. Parsed(in, bytes, Complete(to, Consumed(utf8))) /\ Complete(to, Consumed(utf8)).consumed # 0
    BY <1>0, <2>2, <2>3, CompleteParsed
  <2>5. CASE utf8.result = "incomplete" /\ ~force
    <3>1. ParsePlain(in, bytes, modifiers, force) = Incomplete(in) /\ Len(bytes) < 4
      BY <2>1, <2>2, <2>5
    <3> QED  BY <1>0, <3>1, WaitOrDeferParsed
  <2>6. CASE ~(utf8.result = "incomplete" /\ ~force)
    <3>1. ParsePlain(in, bytes, modifiers, force) = Complete(to, Consumed(utf8))
      BY <2>1, <2>6
    <3> QED  BY <2>4, <3>1
  <2> QED  BY <2>5, <2>6
<1> QED  BY <1>1, <1>2, <1>3

LEMMA ParsePasteParsed ==
  ASSUME NEW in, WellFormed(in), NEW bytes \in Seq(0..255), bytes # <<>>, NEW force \in BOOLEAN
  PROVE  LET one == ParsePaste(in, bytes, force)
         IN Parsed(in, bytes, one) /\ (one.consumed = 0 => Len(bytes) < 6)
<1> DEFINE utf8  == DecodeUtf8(bytes)
           news  == [type |-> "paste_end"]
           over  == [in EXCEPT !.paste = FALSE]
           ended == QueueEvent(over, news)
           typed == EmitText(in, Decoded(utf8))
<1>0. Len(bytes) \in Nat \ {0}
  OBVIOUS
<1>1. ParsePaste(in, bytes, force) =
        IF IsPrefix(PasteEnd, bytes) THEN Complete(ended, 6)
        ELSE IF ~force /\ (IsPrefix(bytes, PasteEnd) \/ utf8.result = "incomplete") THEN Incomplete(in)
        ELSE Complete(typed, Consumed(utf8))
  BY DEF ParsePaste
<1>2. Keeps(in, ended)
  <2>1. Keeps(in, over)
    BY PastingKeeps
  <2>2. news.type \notin {"down", "up", "mouse_down", "mouse_up"}
    OBVIOUS
  <2> HIDE DEF over, news
  <2>3. Keeps(over, ended)
    BY <2>1, <2>2, NewsKeeps DEF Keeps
  <2> QED  BY <2>1, <2>3, KeepsChain
<1>3. Keeps(in, typed)
  BY EmitTextKeeps
<1>4. Consumed(utf8) \in 1..Len(bytes) /\ (utf8.result = "incomplete" => Len(bytes) < 4)
  BY DecodedWhole
<1>5. /\ IsPrefix(PasteEnd, bytes) => 6 \in 0..Len(bytes)
      /\ ~IsPrefix(PasteEnd, bytes) /\ IsPrefix(bytes, PasteEnd) => Len(bytes) < 6
  <2>1. Len(PasteEnd) = 6
    BY DEF PasteEnd
  <2>2. PICK n \in Nat : n = Len(bytes)
    BY <1>0
  <2>3. IsPrefix(PasteEnd, bytes) <=> 6 <= n /\ SubSeq(PasteEnd, 1, 6) = SubSeq(bytes, 1, 6)
    BY <2>1, <2>2 DEF IsPrefix
  <2>4. IsPrefix(bytes, PasteEnd) <=> n <= 6 /\ SubSeq(bytes, 1, n) = SubSeq(PasteEnd, 1, n)
    BY <2>1, <2>2 DEF IsPrefix
  <2>5. n <= 6 /\ ~(n < 6) => n = 6
    OBVIOUS
  <2>6. ~IsPrefix(PasteEnd, bytes) /\ IsPrefix(bytes, PasteEnd) => n < 6
    BY <2>3, <2>4, <2>5
  <2> QED  BY <2>2, <2>3, <2>6
<1> HIDE DEF utf8, ended, typed
<1>6. IsPrefix(PasteEnd, bytes) => Parsed(in, bytes, Complete(ended, 6)) /\ Complete(ended, 6).consumed # 0
  <2>1. SUFFICES ASSUME IsPrefix(PasteEnd, bytes)
                 PROVE  Parsed(in, bytes, Complete(ended, 6)) /\ Complete(ended, 6).consumed # 0
    OBVIOUS
  <2>2. PICK n \in 0..Len(bytes) : n = 6
    BY <1>5, <2>1
  <2>3. Parsed(in, bytes, Complete(ended, n)) /\ Complete(ended, n).consumed = n
    BY <1>2, CompleteParsed
  <2> QED  BY <2>2, <2>3
<1>7. Parsed(in, bytes, Complete(typed, Consumed(utf8))) /\ Complete(typed, Consumed(utf8)).consumed # 0
  BY <1>0, <1>3, <1>4, CompleteParsed
<1>8. CASE ~IsPrefix(PasteEnd, bytes) /\ ~force /\ (IsPrefix(bytes, PasteEnd) \/ utf8.result = "incomplete")
  <2>1. ParsePaste(in, bytes, force) = Incomplete(in)
    BY <1>1, <1>8
  <2>2. Len(bytes) < 6
    BY <1>0, <1>4, <1>5, <1>8
  <2> QED  BY <1>0, <2>1, <2>2, WaitOrDeferParsed
<1> QED  BY <1>1, <1>6, <1>7, <1>8

LEMMA LeastIn ==
  ASSUME NEW S, S \subseteq Nat, S # {}
  PROVE  \E n \in S : \A m \in S : n <= m
<1>1. IsWellFoundedOn(SmallerPairs, Nat)
  BY NatLessThanWellFounded DEF OpToRel, SmallerPairs
<1>2. PICK n \in S : \A m \in S : <<m, n>> \notin SmallerPairs
  BY <1>1, WFMin
<1>3. ASSUME NEW m \in S  PROVE n <= m
  <2>1. m \in Nat /\ n \in Nat
    OBVIOUS
  <2>2. <<m, n>> \notin SmallerPairs
    BY <1>2
  <2> QED  BY <2>1, <2>2 DEF SmallerPairs
<1> QED  BY <1>3

LEMMA MinIn ==
  ASSUME NEW S, S \subseteq Nat, S # {}
  PROVE  Min(S) \in S
<1>1. \E n \in S : \A m \in S : n <= m
  BY LeastIn
<1> QED  BY <1>1 DEF Min

\* What is left unconsumed is less than a sequence, forced or not.
ParsesAll(in, bytes, one) ==
  /\ Parsed(in, bytes, one)
  /\ one.consumed = 0 => Len(bytes) < SequenceLimit

LEMMA ParseLegacyMouseParsed ==
  ASSUME NEW in, WellFormed(in), NEW bytes \in Seq(0..255), NEW force
  PROVE  ParsesAll(in, bytes, ParseLegacyMouse(in, bytes, force))
<1> DEFINE to == IF bytes[4] >= 32 /\ bytes[5] >= 33 /\ bytes[6] >= 33
                 THEN HandleMouse(in, bytes[4] - 32, bytes[5] - 32, bytes[6] - 32, FALSE, TRUE)
                 ELSE in
<1>0. Len(bytes) \in Nat
  OBVIOUS
<1>1. ParseLegacyMouse(in, bytes, force) =
        IF Len(bytes) < 6 THEN WaitOrDefer(in, force) ELSE Complete(to, 6)
  BY DEF ParseLegacyMouse
<1>2. Keeps(in, to)
  BY HandleMouseKeeps, KeepsItself
<1> HIDE DEF to
<1>3. CASE Len(bytes) < 6
  <2>1. Len(bytes) < SequenceLimit
    BY <1>0, <1>3, InputParserConstants
  <2> QED  BY <1>0, <1>1, <1>3, <2>1, WaitOrDeferParsed DEF ParsesAll
<1>4. CASE ~(Len(bytes) < 6)
  <2>1. PICK n \in 0..Len(bytes) : n = 6
    BY <1>0, <1>4
  <2>2. Parsed(in, bytes, Complete(to, n)) /\ Complete(to, n).consumed = n
    BY <1>2, CompleteParsed
  <2> QED  BY <1>1, <1>4, <2>1, <2>2 DEF ParsesAll
<1> QED  BY <1>3, <1>4

LEMMA ParseSs3Parsed ==
  ASSUME NEW in, WellFormed(in), NEW bytes \in Seq(0..255), NEW force
  PROVE  ParsesAll(in, bytes, ParseSs3(in, bytes, force))
<1>0. Len(bytes) \in Nat
  OBVIOUS
<1>1. PICK to : to = HandleSs3(in, bytes[3])
  OBVIOUS
<1>2. Keeps(in, to)
  BY <1>1, HandleSs3Keeps
<1>3. CASE Len(bytes) < 3
  <2>1. Len(bytes) < SequenceLimit
    BY <1>0, <1>3, InputParserConstants
  <2> QED  BY <1>0, <1>3, <2>1, WaitOrDeferParsed DEF ParsesAll, ParseSs3
<1>4. CASE ~(Len(bytes) < 3)
  <2>1. PICK n \in 0..Len(bytes) : n = 3
    BY <1>0, <1>4
  <2>2. Parsed(in, bytes, Complete(to, n)) /\ Complete(to, n).consumed = n
    BY <1>2, CompleteParsed
  <2> QED  BY <1>1, <1>4, <2>1, <2>2 DEF ParsesAll, ParseSs3
<1> QED  BY <1>3, <1>4

LEMMA ParseCsiParsed ==
  ASSUME NEW in, WellFormed(in), NEW bytes \in Seq(0..255), Len(bytes) >= 2, NEW force
  PROVE  ParsesAll(in, bytes, ParseCsi(in, bytes, force))
<1> DEFINE size   == Len(bytes)
           reach  == Min({size, SequenceLimit})
           finals == {i \in 3..reach : bytes[i] \in 64..126}
           last   == Min(finals)
           to     == HandleCsi(in, SubSeq(bytes, 3, last - 1), bytes[last])
           lost   == IF size > SequenceLimit THEN SequenceLimit + 1 ELSE 1
<1>0. size \in Nat /\ SequenceLimit \in Nat
  BY InputParserConstants
<1>1. ParseCsi(in, bytes, force) =
        IF finals # {} THEN Complete(to, last)
        ELSE IF size < SequenceLimit THEN WaitOrDefer(in, force)
        ELSE IF force THEN Complete(EmitEscape(in), 1)
        ELSE Complete(in, lost)
  BY DEF ParseCsi
<1>2. reach \in {size, SequenceLimit} /\ reach <= size
  <2>1. \A x \in {size, SequenceLimit} : (\A y \in {size, SequenceLimit} : x =< y) => x <= size
    OBVIOUS
  <2>2. \E x \in {size, SequenceLimit} : \A y \in {size, SequenceLimit} : x =< y
    BY <1>0
  <2> HIDE DEF size
  <2> QED  BY <2>1, <2>2 DEF Min
<1>3. finals # {} => last \in 3..size
  <2>1. finals \subseteq 3..size /\ finals \subseteq Nat
    BY <1>0, <1>2
  <2> HIDE DEF finals
  <2> QED  BY <2>1, MinIn
<1> HIDE DEF size, reach, finals, last, lost
<1>4. CASE finals # {}
  <2>1. SubSeq(bytes, 3, last - 1) \in Seq(0..255)
    <3>1. PICK m \in Int : m = last - 1 /\ m <= Len(bytes)
      BY <1>0, <1>3, <1>4 DEF size
    <3>2. \A i \in 3..m : i \in 1..Len(bytes)
      BY <1>0, <3>1 DEF size
    <3>3. \A i \in 3..m : bytes[i] \in 0..255
      BY <3>2, ElementOfSeq, SMTT(60)
    <3> QED  BY <3>1, <3>3, SubSeqProperties
  <2>2. Keeps(in, to)
    BY <2>1, HandleCsiKeeps, ZenonT(60)
  <2>3. PICK n \in 0..Len(bytes) : n = last /\ n # 0
    BY <1>0, <1>3, <1>4 DEF size
  <2> HIDE DEF to
  <2>4. Parsed(in, bytes, Complete(to, n)) /\ Complete(to, n).consumed = n
    BY <2>2, CompleteParsed
  <2> QED  BY <1>1, <1>4, <2>3, <2>4 DEF ParsesAll
<1>5. CASE finals = {} /\ size < SequenceLimit
  <2>1. Len(bytes) < SequenceLimit
    BY <1>0, <1>5 DEF size
  <2> QED  BY <1>0, <1>1, <1>5, <2>1, WaitOrDeferParsed DEF ParsesAll, size
<1>6. CASE finals = {} /\ ~(size < SequenceLimit) /\ force
  <2>1. PICK n \in 0..Len(bytes) : n = 1
    BY <1>0 DEF size
  <2>2. Parsed(in, bytes, Complete(EmitEscape(in), n)) /\ Complete(EmitEscape(in), n).consumed = n
    BY EmitEscapeKeeps, CompleteParsed
  <2> QED  BY <1>1, <1>6, <2>1, <2>2 DEF ParsesAll
<1>7. CASE finals = {} /\ ~(size < SequenceLimit) /\ ~force
  <2>1. lost \in 0..Len(bytes) /\ lost # 0
    BY <1>0, <1>7 DEF size, lost
  <2>2. Parsed(in, bytes, Complete(in, lost)) /\ Complete(in, lost).consumed = lost
    BY <2>1, KeepsItself, CompleteParsed, SMTT(60)
  <2> QED  BY <1>1, <1>7, <2>1, <2>2 DEF ParsesAll
<1> QED  BY <1>4, <1>5, <1>6, <1>7

LEMMA ParseBareEscapeParsed ==
  ASSUME NEW in, WellFormed(in), NEW bytes \in Seq(0..255), Len(bytes) = 1, NEW force \in BOOLEAN
  PROVE  ParsesAll(in, bytes, ParseBareEscape(in, force))
<1>1. Len(bytes) < SequenceLimit /\ Len(bytes) \in Nat
  BY InputParserConstants
<1>2. PICK n \in 0..Len(bytes) : n = 1
  OBVIOUS
<1>3. Parsed(in, bytes, Complete(EmitEscape(in), n))
  BY EmitEscapeKeeps, CompleteParsed
<1>4. ParseBareEscape(in, force) \in {Wait(in), Defer(in), Complete(EmitEscape(in), 1)}
  BY DEF ParseBareEscape
<1> QED  BY <1>1, <1>2, <1>3, <1>4, WaitOrDeferParsed DEF ParsesAll

LEMMA ParseAltParsed ==
  ASSUME NEW in, WellFormed(in), NEW bytes \in Seq(0..255), Len(bytes) >= 2, NEW force \in BOOLEAN
  PROVE  ParsesAll(in, bytes, ParseAlt(in, bytes, force))
<1> DEFINE rest == Tail(bytes)
<1>0. rest \in Seq(0..255) /\ Len(rest) = Len(bytes) - 1 /\ Len(bytes) \in Nat
  <2>1. bytes # <<>> /\ Len(bytes) \in Nat
    OBVIOUS
  <2> QED  BY <2>1, HeadTailProperties
<1>1. PICK plain : plain = ParsePlain(in, rest, {"alt"}, force)
  OBVIOUS
<1> HIDE DEF rest
<1>2. Parsed(in, rest, plain) /\ (plain.consumed = 0 => Len(bytes) < SequenceLimit)
  <2>1. Parsed(in, rest, plain) /\ (plain.consumed = 0 => Len(rest) < 4)
    BY <1>0, <1>1, ParsePlainParsed
  <2>2. Len(rest) < 4 => Len(bytes) < SequenceLimit
    BY <1>0, InputParserConstants
  <2> QED  BY <2>1, <2>2
<1>3. ParseAlt(in, bytes, force) = ParsedAlt(plain, force)
  BY <1>1 DEF ParseAlt, rest
<1>4. WellFormed(plain.in) /\ Stays(in, plain.in) /\ plain.consumed \in 0..Len(rest)
  BY <1>2 DEF Parsed, Stays
<1> DEFINE got == plain.in
<1>5. CASE plain.consumed > 0
  <2>1. PICK n \in 0..Len(bytes) : n = plain.consumed + 1 /\ n # 0
    BY <1>0, <1>4
  <2>2. Parsed(in, bytes, Complete(got, n)) /\ Complete(got, n).consumed = n
    <3>1. Stays(in, got)
      BY <1>4
    <3> HIDE DEF got
    <3> QED  BY <3>1, CompleteParsed
  <2> QED  BY <1>3, <1>5, <2>1, <2>2 DEF ParsedAlt, ParsesAll
<1>6. CASE ~(plain.consumed > 0) /\ force
  <2>1. PICK n \in 0..Len(bytes) : n = 1
    BY <1>0
  <2>2. Stays(in, EmitEscape(plain.in))
    BY <1>4, EmitEscapeKeeps, StaysChain
  <2>3. Parsed(in, bytes, Complete(EmitEscape(plain.in), n)) /\ Complete(EmitEscape(plain.in), n).consumed = n
    BY <2>2, CompleteParsed
  <2> QED  BY <1>3, <1>6, <2>1, <2>3 DEF ParsedAlt, ParsesAll
<1>7. CASE ~(plain.consumed > 0) /\ ~force
  <2>1. Parsed(plain.in, bytes, Wait(plain.in))
    BY <1>0, <1>4, WaitOrDeferParsed
  <2>2. Parsed(in, bytes, Wait(plain.in))
    BY <1>4, <2>1, StaysChain DEF Parsed
  <2>3. Len(bytes) < SequenceLimit
    BY <1>0, <1>2, <1>4, <1>7
  <2> QED  BY <1>3, <1>7, <2>2, <2>3 DEF ParsedAlt, ParsesAll
<1> QED  BY <1>5, <1>6, <1>7

LEMMA ParseOneParsed ==
  ASSUME NEW in, WellFormed(in), NEW bytes \in Seq(0..255), bytes # <<>>, NEW force \in BOOLEAN
  PROVE  ParsesAll(in, bytes, ParseOne(in, bytes, force))
<1>0. Len(bytes) \in Nat \ {0}
  OBVIOUS
<1>1. CASE in.paste
  BY <1>0, <1>1, ParsePasteParsed, InputParserConstants DEF ParseOne, ParsesAll
<1>2. CASE ~in.paste /\ bytes[1] # Esc
  BY <1>0, <1>2, ParsePlainParsed, InputParserConstants DEF ParseOne, ParsesAll
<1>3. CASE ~in.paste /\ bytes[1] = Esc
  <2>1. ParseOne(in, bytes, force) = ParseEscape(in, bytes, force)
    BY <1>3 DEF ParseOne
  <2>2. CASE Len(bytes) < 2
    <3>1. Len(bytes) = 1
      <4>1. PICK n \in Nat \ {0} : n = Len(bytes)
        BY <1>0
      <4>2. n < 2
        BY <2>2, <4>1
      <4>3. n = 1
        BY <4>2
      <4> QED  BY <4>1, <4>3
    <3>2. ParseEscape(in, bytes, force) = ParseBareEscape(in, force)
      BY <2>2 DEF ParseEscape
    <3> QED  BY <2>1, <3>1, <3>2, ParseBareEscapeParsed
  <2>3. CASE Len(bytes) >= 2
    <3>1. PICK n \in 0..Len(bytes) : n = 1
      BY <1>0
    <3>2. Parsed(in, bytes, Complete(EmitEscape(in), n)) /\ Complete(EmitEscape(in), n).consumed = n
      BY EmitEscapeKeeps, CompleteParsed
    <3>3. ParseEscape(in, bytes, force) \in
            {ParseLegacyMouse(in, bytes, force), ParseCsi(in, bytes, force), ParseSs3(in, bytes, force),
             Complete(EmitEscape(in), 1), ParseAlt(in, bytes, force)}
      BY <1>0, <2>3 DEF ParseEscape
    <3>4. ParsesAll(in, bytes, Complete(EmitEscape(in), 1))
      BY <3>1, <3>2 DEF ParsesAll
    <3> QED  BY <2>1, <2>3, <3>3, <3>4, ParseLegacyMouseParsed, ParseCsiParsed, ParseSs3Parsed,
                ParseAltParsed
  <2> QED  BY <1>0, <2>2, <2>3
<1> QED  BY <1>1, <1>2, <1>3

-----------------------------------------------------------------------------
(* The loop over the buffer.                                                *)

\* The turns ParseTurns takes.
IsParsing(turn, in, forceAll, most) ==
  turn = [n \in 0..most |-> IF n = 0 THEN [in |-> in, stops |-> FALSE]
                            ELSE ParseNext(turn[n - 1], forceAll)]

LEMMA ParsingExists ==
  ASSUME NEW in, NEW forceAll, NEW most \in Nat
  PROVE  \E turn : IsParsing(turn, in, forceAll, most)
<1> DEFINE first == [in |-> in, stops |-> FALSE]
           K == {k \in Nat : \E turn : IsParsing(turn, in, forceAll, k)}
<1>1. 0 \in K
  <2>1. IsParsing([n \in 0..0 |-> first], in, forceAll, 0)
    BY DEF IsParsing
  <2> QED  BY <2>1
<1>2. ASSUME NEW k \in Nat, k \in K  PROVE  k + 1 \in K
  <2>1. PICK turn : IsParsing(turn, in, forceAll, k)
    BY <1>2
  <2> DEFINE more == [n \in 0..k + 1 |-> IF n = k + 1 THEN ParseNext(turn[k], forceAll) ELSE turn[n]]
  <2>2. \A n \in 0..k : turn[n] = IF n = 0 THEN first ELSE ParseNext(turn[n - 1], forceAll)
    BY <2>1, Zenon DEF IsParsing
  <2>3. ASSUME NEW n \in 0..k + 1
        PROVE  more[n] = IF n = 0 THEN first ELSE ParseNext(more[n - 1], forceAll)
    <3> HIDE DEF first
    <3>1. CASE n = 0
      BY <2>2, <3>1
    <3>2. CASE n = k + 1
      <4>1. more[n] = ParseNext(turn[k], forceAll) /\ more[n - 1] = turn[k] /\ n # 0
        BY <3>2
      <4> HIDE DEF more
      <4> QED  BY <4>1, <3>2
    <3>3. CASE n \in 1..k
      <4>1. more[n] = turn[n] /\ more[n - 1] = turn[n - 1] /\ n \in 0..k /\ n # 0
        BY <3>3
      <4> HIDE DEF more
      <4> QED  BY <4>1, <2>2
    <3> QED  BY <3>1, <3>2, <3>3
  <2>4. IsParsing(more, in, forceAll, k + 1)
    <3>1. more = [n \in 0..k + 1 |-> more[n]]
      OBVIOUS
    <3> HIDE DEF more
    <3> QED  BY <2>3, <3>1, Zenon DEF IsParsing
  <2> HIDE DEF more
  <2> QED  BY <2>4
<1>3. \A k \in Nat : k \in K
  <2> HIDE DEF K
  <2> QED  BY <1>1, <1>2, Induction
<1> QED  BY <1>3

LEMMA ParseTurnsDef ==
  ASSUME NEW in, NEW forceAll, Len(in.bytes) \in Nat
  PROVE  IsParsing(ParseTurns(in, forceAll), in, forceAll, Len(in.bytes))
<1>1. \E turn : IsParsing(turn, in, forceAll, Len(in.bytes))
  BY ParsingExists
<1>2. ParseTurns(in, forceAll) = CHOOSE turn : IsParsing(turn, in, forceAll, Len(in.bytes))
  BY DEF ParseTurns, IsParsing
<1> QED  BY <1>1, <1>2, Zenon

Follows(in, to) == to.capacity = in.capacity /\ \A v : Honest(v, in) => Honest(v, to)

\* What n turns come to.
Turned(in, n, turn) ==
  /\ WellFormed(turn.in) /\ Follows(in, turn.in)
  /\ turn.stops \in BOOLEAN /\ (n = 0 => ~turn.stops)
  /\ Len(turn.in.bytes) <= Len(in.bytes)
  /\ turn.stops => /\ turn.in.bytes # <<>> /\ turn.in.escape # NotPending
                   /\ Len(turn.in.bytes) < SequenceLimit
  /\ ~turn.stops => turn.in.bytes = <<>> \/ Len(turn.in.bytes) + n <= Len(in.bytes)

LEMMA FromShorter ==
  ASSUME NEW bytes \in Seq(0..255), NEW n \in 0..Len(bytes)
  PROVE  From(bytes, n + 1) \in Seq(0..255) /\ Len(From(bytes, n + 1)) = Len(bytes) - n
<1>1. Len(bytes) \in Nat
  OBVIOUS
<1>2. \A i \in n + 1..Len(bytes) : i \in 1..Len(bytes)
  BY <1>1
<1>3. \A i \in n + 1..Len(bytes) : bytes[i] \in 0..255
  BY <1>2, ElementOfSeq, SMTT(60)
<1>4. PICK m \in Int : m = n + 1
  OBVIOUS
<1>5. PICK k \in Int : k = Len(bytes)
  BY <1>1
<1>6. SubSeq(bytes, m, k) \in Seq(0..255) /\ Len(SubSeq(bytes, m, k)) = IF m <= k THEN k - m + 1 ELSE 0
  BY <1>3, <1>4, <1>5, SubSeqProperties
<1>7. From(bytes, n + 1) = SubSeq(bytes, m, k)
  BY <1>4, <1>5 DEF From
<1>8. (IF m <= k THEN k - m + 1 ELSE 0) = k - n
  BY <1>1, <1>4, <1>5
<1> QED  BY <1>5, <1>6, <1>7, <1>8, ZenonT(60)

LEMMA ProceedTurned ==
  ASSUME NEW in, WellFormed(in), NEW one, ParsesAll(in, in.bytes, one), in.bytes # <<>>,
         NEW turn, turn = Proceed(one)
  PROVE  /\ WellFormed(turn.in) /\ Follows(in, turn.in)
         /\ turn.stops \in BOOLEAN /\ (turn.stops <=> one.consumed = 0)
         /\ Len(turn.in.bytes) = Len(in.bytes) - one.consumed
         /\ turn.stops => /\ turn.in.bytes = in.bytes /\ turn.in.escape # NotPending
                          /\ Len(in.bytes) < SequenceLimit
<1> DEFINE got == one.in
<1>1. Stays(in, got) /\ one.consumed \in 0..Len(in.bytes)
      /\ (one.consumed = 0 => Len(in.bytes) < SequenceLimit)
  BY DEF ParsesAll, Parsed
<1>2. WellFormed(got) /\ got.bytes = in.bytes /\ Follows(in, got) /\ Len(in.bytes) \in Nat
  BY <1>1 DEF Stays, Follows, WellFormed
<1>3. CASE one.consumed = 0
  <2>1. Proceed(one) = [in |-> MarkEscape(got), stops |-> TRUE]
    BY <1>3 DEF Proceed
  <2> HIDE DEF got
  <2>2. PICK to : to = MarkEscape(got)
    OBVIOUS
  <2>3. Stays(got, to) /\ to.escape \in Nat
    BY <1>2, <2>2, MarkEscapeStays
  <2>4. turn.in = to /\ turn.stops = TRUE
    BY <2>1, <2>2
  <2>5. WellFormed(to) /\ Follows(in, to) /\ to.bytes = in.bytes /\ to.escape # NotPending
    BY <1>2, <2>3 DEF Stays, Follows, NotPending
  <2>6. Len(to.bytes) = Len(in.bytes) - one.consumed
    BY <1>2, <1>3, <2>5
  <2>7. turn.stops \in BOOLEAN /\ (turn.stops <=> one.consumed = 0)
    BY <1>3, <2>4
  <2>8. Len(in.bytes) < SequenceLimit
    BY <1>1, <1>3
  <2> QED  BY <2>4, <2>5, <2>6, <2>7, <2>8
<1>4. CASE one.consumed # 0
  <2>1. PICK rest : rest = From(in.bytes, one.consumed + 1)
    OBVIOUS
  <2>2. rest \in Seq(0..255) /\ Len(rest) = Len(in.bytes) - one.consumed
    BY <1>1, <1>2, <2>1, FromShorter, ZenonT(60) DEF WellFormed
  <2> DEFINE to == [got EXCEPT !.bytes = rest, !.escape = NotPending]
  <2>3. Proceed(one) = [in |-> to, stops |-> FALSE]
    BY <1>2, <1>4, <2>1 DEF Proceed, WellFormed, InputFields
  <2> HIDE DEF got
  <2>4. /\ DOMAIN to = InputFields /\ to.bytes = rest /\ to.escape = NotPending
        /\ to.capacity = got.capacity /\ to.events = got.events /\ to.dropped = got.dropped
        /\ to.held = got.held /\ to.explicit = got.explicit /\ to.lease = got.lease
        /\ to.buttons = got.buttons
    BY <1>2 DEF WellFormed, InputFields
  <2> HIDE DEF to
  <2>5. WellFormed(to) /\ Follows(got, to)
    BY <1>2, <2>2, <2>4, SMTT(60) DEF WellFormed, HoldsOK, Follows, Honest, HeldIn
  <2>6. turn.in = to /\ turn.stops = FALSE
    BY <2>3
  <2>7. Follows(in, to)
    BY <1>2, <2>5 DEF Follows
  <2> QED  BY <1>2, <1>4, <2>2, <2>4, <2>5, <2>6, <2>7
<1> QED  BY <1>3, <1>4

LEMMA ParseNextTurned ==
  ASSUME NEW in, Len(in.bytes) \in Nat, NEW forceAll \in BOOLEAN, NEW n \in Nat, NEW turn,
         Turned(in, n, turn)
  PROVE  Turned(in, n + 1, ParseNext(turn, forceAll))
<1> DEFINE at == turn.in
           force == forceAll \/ at.escape = 0
<1>1. WellFormed(at) /\ at.bytes \in Seq(0..255) /\ Len(at.bytes) \in Nat /\ Follows(in, at)
      /\ Len(at.bytes) <= Len(in.bytes)
  BY DEF Turned, WellFormed
<1>2. CASE turn.stops \/ at.bytes = <<>>
  <2>1. ParseNext(turn, forceAll) = turn
    BY <1>2 DEF ParseNext
  <2>3. turn.stops \in BOOLEAN
        /\ (turn.stops => at.bytes # <<>> /\ at.escape # NotPending /\ Len(at.bytes) < SequenceLimit)
    BY DEF Turned
  <2>4. n + 1 # 0
    OBVIOUS
  <2> HIDE DEF at, force
  <2>5. turn.in = at
    BY DEF at
  <2> QED  BY <1>1, <1>2, <2>1, <2>3, <2>4, <2>5, ZenonT(60) DEF Turned
<1>3. CASE ~turn.stops /\ at.bytes # <<>>
  <2>1. PICK one : one = ParseOne(at, at.bytes, force)
    OBVIOUS
  <2>2. PICK next : next = Proceed(one)
    OBVIOUS
  <2>3. ParseNext(turn, forceAll) = next
    BY <1>3, <2>1, <2>2 DEF ParseNext
  <2>4. ParsesAll(at, at.bytes, one)
    <3>1. force \in BOOLEAN
      OBVIOUS
    <3> HIDE DEF force
    <3> QED  BY <1>1, <1>3, <2>1, <3>1, ParseOneParsed
  <2> HIDE DEF at
  <2>5. /\ WellFormed(next.in) /\ Follows(at, next.in)
        /\ next.stops \in BOOLEAN /\ (next.stops <=> one.consumed = 0)
        /\ Len(next.in.bytes) = Len(at.bytes) - one.consumed
        /\ next.stops => /\ next.in.bytes = at.bytes /\ next.in.escape # NotPending
                         /\ Len(at.bytes) < SequenceLimit
        /\ one.consumed \in 0..Len(at.bytes)
    BY <1>1, <1>3, <2>2, <2>4, ProceedTurned DEF ParsesAll, Parsed
  <2>6. Follows(in, next.in)
    BY <1>1, <2>5 DEF Follows
  <2>8. ~next.stops => Len(next.in.bytes) + (n + 1) <= Len(in.bytes)
    <3>1. Len(at.bytes) + n <= Len(in.bytes)
      BY <1>3 DEF Turned, at
    <3>2. PICK a \in Nat : a = Len(at.bytes)
      BY <1>1
    <3>3. PICK b \in Nat : b = Len(next.in.bytes)
      BY <2>5 DEF WellFormed
    <3>4. PICK c \in 0..a : c = one.consumed
      BY <2>5, <3>2
    <3>5. ~next.stops => c # 0
      BY <2>5, <3>4
    <3>6. PICK l \in Nat : l = Len(in.bytes)
      OBVIOUS
    <3>7. b = a - c /\ a + n <= l
      BY <2>5, <3>1, <3>2, <3>3, <3>4, <3>6
    <3>8. c # 0 => b + (n + 1) <= l
      BY <3>7
    <3> QED  BY <3>3, <3>5, <3>6, <3>8
  <2>9. Len(next.in.bytes) <= Len(in.bytes) /\ next.stops \in BOOLEAN
    BY <1>1, <2>5, SMTT(60)
  <2> QED  BY <1>3, <2>3, <2>5, <2>6, <2>8, <2>9 DEF Turned
<1>4. turn.stops \in BOOLEAN
  BY DEF Turned
<1> QED  BY <1>2, <1>3, <1>4

\* What is buffered is less than a sequence, and exactly what is buffered has a deadline.
Resting(in) ==
  /\ WellFormed(in) /\ Len(in.bytes) < SequenceLimit
  /\ (in.bytes # <<>>) = (in.escape # NotPending)

LEMMA ParseTurnsTurned ==
  ASSUME NEW in, WellFormed(in), NEW forceAll \in BOOLEAN, NEW turn, turn = ParseTurns(in, forceAll)
  PROVE  /\ turn[0] = [in |-> in, stops |-> FALSE]
         /\ \A n \in 0..Len(in.bytes) :
              /\ Turned(in, n, turn[n])
              /\ n # 0 => turn[n] = ParseNext(turn[n - 1], forceAll)
<1> DEFINE most == Len(in.bytes)
<1>1. most \in Nat
  BY DEF WellFormed
<1>2. IsParsing(turn, in, forceAll, most)
  BY <1>1, ParseTurnsDef
<1>3. \A n \in 0..most : turn[n] = IF n = 0 THEN [in |-> in, stops |-> FALSE]
                                   ELSE ParseNext(turn[n - 1], forceAll)
  BY <1>2, Zenon DEF IsParsing
<1> DEFINE K == {k \in Nat : k <= most => Turned(in, k, turn[k])}
<1>4. 0 \in K
  <2>1. 0 \in 0..most
    BY <1>1
  <2>2. turn[0] = [in |-> in, stops |-> FALSE]
    BY <1>3, <2>1
  <2>3. PICK at : at = turn[0]
    OBVIOUS
  <2>4. at.in = in /\ at.stops = FALSE
    BY <2>2, <2>3
  <2>5. Follows(in, in)
    BY DEF Follows
  <2>6. most + 0 <= most /\ most <= most /\ ~(0 > 0)
    BY <1>1
  <2>7. Turned(in, 0, at)
    BY <2>4, <2>5, <2>6 DEF Turned
  <2> QED  BY <2>3, <2>7
<1>5. ASSUME NEW k \in Nat, k \in K  PROVE  k + 1 \in K
  <2>1. SUFFICES ASSUME k + 1 <= most  PROVE Turned(in, k + 1, turn[k + 1])
    OBVIOUS
  <2>2. Turned(in, k, turn[k])
    BY <1>1, <1>5, <2>1
  <2>3. turn[k + 1] = ParseNext(turn[k], forceAll)
    BY <1>1, <1>3, <2>1
  <2>4. Turned(in, k + 1, ParseNext(turn[k], forceAll))
    BY <1>1, <2>2, ParseNextTurned
  <2> QED  BY <2>3, <2>4
<1>6. \A k \in Nat : k \in K
  <2> HIDE DEF K
  <2> QED  BY <1>4, <1>5, Induction
<1>7. \A n \in 0..most : n \in Nat /\ n <= most
  BY <1>1
<1>8. \A n \in 0..most : Turned(in, n, turn[n])
  BY <1>6, <1>7
<1>9. 0 \in 0..most
  BY <1>1
<1>10. turn[0] = [in |-> in, stops |-> FALSE]
  BY <1>3, <1>9
<1>11. \A n \in 0..most : n # 0 => turn[n] = ParseNext(turn[n - 1], forceAll)
  BY <1>3
<1> QED  BY <1>8, <1>10, <1>11, Zenon

LEMMA ParseAvailableRests ==
  ASSUME NEW in, WellFormed(in), NEW forceAll \in BOOLEAN
  PROVE  LET to == ParseAvailable(in, forceAll)
         IN Resting(to) /\ Follows(in, to)
<1> DEFINE most == Len(in.bytes)
<1>1. most \in Nat
  BY DEF WellFormed
<1>2. PICK turn : turn = ParseTurns(in, forceAll)
  OBVIOUS
<1>7. PICK last : last = turn[most]
  OBVIOUS
<1>8. Turned(in, most, last)
  <2>1. most \in 0..Len(in.bytes)
    BY <1>1
  <2> QED  BY <1>2, <1>7, <2>1, ParseTurnsTurned
<1>9. PICK got : got = last.in
  OBVIOUS
<1>10. WellFormed(got) /\ Follows(in, got) /\ Len(got.bytes) <= most /\ Len(got.bytes) \in Nat
       /\ got.bytes \in Seq(0..255)
  BY <1>8, <1>9 DEF Turned, WellFormed
<1>11. got.bytes = <<>> \/ (got.escape # NotPending /\ Len(got.bytes) < SequenceLimit)
  <2>1. CASE last.stops
    BY <1>8, <1>9, <2>1 DEF Turned
  <2>2. CASE ~last.stops /\ got.bytes # <<>>
    <3>1. Len(got.bytes) + most <= most
      BY <1>8, <1>9, <2>2 DEF Turned
    <3>2. Len(got.bytes) # 0
      BY <1>10, <2>2
    <3>3. PICK a \in Nat : a = Len(got.bytes)
      BY <1>10
    <3>4. PICK m \in Nat : m = most
      BY <1>1
    <3>5. a + m <= m /\ a # 0
      BY <3>1, <3>2, <3>3, <3>4
    <3> QED  BY <3>5
  <2>3. last.stops \in BOOLEAN
    BY <1>8 DEF Turned
  <2> QED  BY <2>1, <2>2, <2>3
<1>13. ParseAvailable(in, forceAll) = IF got.bytes = <<>> THEN [got EXCEPT !.escape = NotPending] ELSE got
  BY <1>2, <1>7, <1>9 DEF ParseAvailable, Emptied
<1>14. CASE got.bytes = <<>>
  <2>1. PICK to : to = [got EXCEPT !.escape = NotPending]
    OBVIOUS
  <2>2. Stays(got, to) /\ to.escape = NotPending
    BY <1>10, <2>1, DeadlineStays, ZenonT(60)
  <2>3. Resting(to) /\ Follows(in, to)
    BY <1>1, <1>10, <1>14, <2>2, InputParserConstants DEF Stays, Resting, Follows
  <2> QED  BY <1>13, <1>14, <2>1, <2>3
<1>15. CASE got.bytes # <<>>
  <2>1. Resting(got)
    BY <1>10, <1>11, <1>15 DEF Resting
  <2> QED  BY <1>10, <1>13, <1>15, <2>1
<1> QED  BY <1>14, <1>15

-----------------------------------------------------------------------------
(* The loop that feeds bytes.                                               *)

LEMMA MinOfTwo ==
  ASSUME NEW a \in Nat, NEW b \in Nat
  PROVE  Min({a, b}) \in {a, b} /\ Min({a, b}) <= a /\ Min({a, b}) <= b
<1>1. {a, b} \subseteq Nat /\ {a, b} # {}
  OBVIOUS
<1>2. \E x \in {a, b} : \A y \in {a, b} : x =< y
  OBVIOUS
<1> QED  BY <1>2 DEF Min

\* The turns FeedTurns takes.
IsFeeding(turn, in, bytes, most) ==
  turn = [n \in 0..most |-> IF n = 0 THEN [in |-> in, rest |-> bytes, overflows |-> FALSE]
                            ELSE FeedNext(turn[n - 1])]

LEMMA FeedingExists ==
  ASSUME NEW in, NEW bytes, NEW most \in Nat
  PROVE  \E turn : IsFeeding(turn, in, bytes, most)
<1> DEFINE first == [in |-> in, rest |-> bytes, overflows |-> FALSE]
           K == {k \in Nat : \E turn : IsFeeding(turn, in, bytes, k)}
<1>1. 0 \in K
  <2>1. IsFeeding([n \in 0..0 |-> first], in, bytes, 0)
    BY DEF IsFeeding
  <2> QED  BY <2>1
<1>2. ASSUME NEW k \in Nat, k \in K  PROVE  k + 1 \in K
  <2>1. PICK turn : IsFeeding(turn, in, bytes, k)
    BY <1>2
  <2> DEFINE more == [n \in 0..k + 1 |-> IF n = k + 1 THEN FeedNext(turn[k]) ELSE turn[n]]
  <2>2. \A n \in 0..k : turn[n] = IF n = 0 THEN first ELSE FeedNext(turn[n - 1])
    BY <2>1, Zenon DEF IsFeeding
  <2>3. ASSUME NEW n \in 0..k + 1
        PROVE  more[n] = IF n = 0 THEN first ELSE FeedNext(more[n - 1])
    <3> HIDE DEF first
    <3>1. CASE n = 0
      BY <2>2, <3>1
    <3>2. CASE n = k + 1
      <4>1. more[n] = FeedNext(turn[k]) /\ more[n - 1] = turn[k] /\ n # 0
        BY <3>2
      <4> HIDE DEF more
      <4> QED  BY <4>1, <3>2
    <3>3. CASE n \in 1..k
      <4>1. more[n] = turn[n] /\ more[n - 1] = turn[n - 1] /\ n \in 0..k /\ n # 0
        BY <3>3
      <4> HIDE DEF more
      <4> QED  BY <4>1, <2>2
    <3> QED  BY <3>1, <3>2, <3>3
  <2>4. IsFeeding(more, in, bytes, k + 1)
    <3>1. more = [n \in 0..k + 1 |-> more[n]]
      OBVIOUS
    <3> HIDE DEF more
    <3> QED  BY <2>3, <3>1, Zenon DEF IsFeeding
  <2> HIDE DEF more
  <2> QED  BY <2>4
<1>3. \A k \in Nat : k \in K
  <2> HIDE DEF K
  <2> QED  BY <1>1, <1>2, Induction
<1> QED  BY <1>3

LEMMA FeedTurnsDef ==
  ASSUME NEW in, NEW bytes, Len(bytes) \in Nat
  PROVE  IsFeeding(FeedTurns(in, bytes), in, bytes, Len(bytes))
<1>1. \E turn : IsFeeding(turn, in, bytes, Len(bytes))
  BY FeedingExists
<1>2. FeedTurns(in, bytes) = CHOOSE turn : IsFeeding(turn, in, bytes, Len(bytes))
  BY DEF FeedTurns, IsFeeding
<1> QED  BY <1>1, <1>2, Zenon

LEMMA FollowsChain ==
  ASSUME NEW a, NEW b, NEW c, Follows(a, b), Follows(b, c)
  PROVE  Follows(a, c)
BY DEF Follows

\* A full buffer, which would have to be forced, is never met.
LEMMA RoomIsLeft ==
  ASSUME NEW in, Resting(in)
  PROVE  MakeRoom(in) = in /\ Len(in.bytes) < ByteCapacity
<1>1. Len(in.bytes) < ByteCapacity /\ Len(in.bytes) \in Nat
  <2>1. PICK n \in Nat : n = Len(in.bytes) /\ n < SequenceLimit
    BY DEF Resting, WellFormed
  <2>2. n < ByteCapacity
    BY <2>1, InputParserConstants
  <2> QED  BY <2>1, <2>2
<1>2. Len(in.bytes) # ByteCapacity
  BY <1>1, InputParserConstants
<1> QED  BY <1>1, <1>2 DEF MakeRoom

LEMMA FillBufferRests ==
  ASSUME NEW in, Resting(in), NEW bytes \in Seq(0..255), bytes # <<>>,
         NEW turn, turn = FillBuffer(in, bytes)
  PROVE  /\ Resting(turn.in) /\ Follows(in, turn.in) /\ ~turn.overflows
         /\ turn.rest \in Seq(0..255) /\ Len(turn.rest) < Len(bytes)
<1>0. WellFormed(in) /\ in.bytes \in Seq(0..255) /\ Len(in.bytes) \in Nat
  BY DEF Resting, WellFormed
<1>1. PICK room \in Nat : room = ByteCapacity - Len(in.bytes) /\ room # 0
  <2>1. PICK a \in Nat, b \in Nat : a = ByteCapacity /\ b = Len(in.bytes)
    BY <1>0, InputParserConstants
  <2>2. a - b \in Nat /\ a - b # 0
    BY <2>1, RoomIsLeft
  <2> QED  BY <2>1, <2>2
<1>2. PICK all \in Nat : all = Len(bytes) /\ all # 0
  OBVIOUS
<1>3. PICK n \in 1..all : n = Min({room, all}) /\ n <= room
  BY <1>1, <1>2, MinOfTwo
<1>4. n = Min({ByteCapacity - Len(in.bytes), Len(bytes)}) /\ n # 0
  BY <1>1, <1>2, <1>3
<1>5. PICK piece : piece = SubSeq(bytes, 1, n)
  OBVIOUS
<1>6. piece \in Seq(0..255) /\ Len(piece) = n
  <2>1. \A i \in 1..n : i \in 1..Len(bytes)
    BY <1>2, <1>3
  <2>2. \A i \in 1..n : bytes[i] \in 0..255
    BY <2>1, ElementOfSeq, SMTT(60)
  <2>3. 1 \in Int /\ n \in Int /\ 1 <= n
    BY <1>2, <1>3
  <2> QED  BY <1>5, <2>2, <2>3, SubSeqProperties
<1>7. PICK whole : whole = in.bytes \o piece
  OBVIOUS
<1>8. whole \in Seq(0..255) /\ Len(whole) = Len(in.bytes) + n
  BY <1>0, <1>6, <1>7, ConcatProperties, ZenonT(60)
<1>9. PICK full : full = [in EXCEPT !.bytes = whole]
  OBVIOUS
<1>10. /\ DOMAIN full = InputFields /\ full.bytes = whole /\ full.escape = in.escape
       /\ full.capacity = in.capacity /\ full.events = in.events /\ full.dropped = in.dropped
       /\ full.held = in.held /\ full.explicit = in.explicit /\ full.lease = in.lease
       /\ full.buttons = in.buttons
  BY <1>0, <1>9 DEF WellFormed, InputFields
<1>11. WellFormed(full) /\ Follows(in, full)
  BY <1>0, <1>8, <1>10 DEF WellFormed, HoldsOK, Follows, Honest, HeldIn
<1>13. PICK to : to = ParseAvailable(full, FALSE)
  OBVIOUS
<1>14. Resting(to) /\ Follows(full, to)
  BY <1>11, <1>13, ParseAvailableRests
<1>15. turn = [in |-> to, rest |-> From(bytes, n + 1), overflows |-> FALSE]
  BY <1>4, <1>5, <1>7, <1>9, <1>13 DEF FillBuffer
<1>16. From(bytes, n + 1) \in Seq(0..255) /\ Len(From(bytes, n + 1)) = Len(bytes) - n
  <2>1. n \in 0..Len(bytes)
    BY <1>2, <1>3
  <2> QED  BY <2>1, FromShorter
<1>17. Len(bytes) - n < Len(bytes)
  BY <1>2, <1>3
<1> QED  BY <1>11, <1>14, <1>15, <1>16, <1>17, FollowsChain

\* What n turns of feeding come to.
Fed(in, bytes, n, turn) ==
  /\ Resting(turn.in) /\ Follows(in, turn.in) /\ ~turn.overflows
  /\ turn.rest \in Seq(0..255)
  /\ turn.rest = <<>> \/ Len(turn.rest) + n <= Len(bytes)

LEMMA FeedNextFed ==
  ASSUME NEW in, NEW bytes, Len(bytes) \in Nat, NEW n \in Nat, NEW turn, Fed(in, bytes, n, turn)
  PROVE  Fed(in, bytes, n + 1, FeedNext(turn))
<1>1. CASE turn.rest = <<>>
  <2>1. FeedNext(turn) = turn
    BY <1>1 DEF FeedNext
  <2> QED  BY <1>1, <2>1 DEF Fed
<1>2. CASE turn.rest # <<>>
  <2>1. PICK at : at = turn.in
    OBVIOUS
  <2>2. PICK rest \in Seq(0..255) : rest = turn.rest /\ rest # <<>>
    BY <1>2 DEF Fed
  <2>3. Resting(at) /\ MakeRoom(at) = at
    BY <2>1, RoomIsLeft DEF Fed
  <2>4. PICK next : next = FillBuffer(at, rest)
    OBVIOUS
  <2>5. FeedNext(turn) = next
    BY <1>2, <2>1, <2>2, <2>3, <2>4 DEF FeedNext, Fed
  <2>7. /\ Resting(next.in) /\ Follows(at, next.in) /\ ~next.overflows
        /\ next.rest \in Seq(0..255) /\ Len(next.rest) < Len(rest)
    BY <2>2, <2>3, <2>4, FillBufferRests
  <2>8. Follows(in, next.in)
    BY <2>1, <2>7, FollowsChain DEF Fed
  <2>9. Len(next.rest) + (n + 1) <= Len(bytes)
    <3>1. PICK a \in Nat : a = Len(next.rest)
      BY <2>7
    <3>2. PICK b \in Nat : b = Len(rest)
      OBVIOUS
    <3>3. PICK l \in Nat : l = Len(bytes)
      OBVIOUS
    <3>4. a < b /\ b + n <= l
      BY <1>2, <2>2, <2>7, <3>1, <3>2, <3>3 DEF Fed
    <3>5. a + (n + 1) <= l
      BY <3>4
    <3> QED  BY <3>1, <3>3, <3>5
  <2> QED  BY <2>5, <2>7, <2>8, <2>9, ZenonT(60) DEF Fed
<1> QED  BY <1>1, <1>2

LEMMA FeedTurnsFed ==
  ASSUME NEW in, Resting(in), NEW bytes \in Seq(0..255), NEW last,
         last = FeedTurns(in, bytes)[Len(bytes)]
  PROVE  Resting(last.in) /\ Follows(in, last.in) /\ ~last.overflows
<1> DEFINE turn == FeedTurns(in, bytes)
           most == Len(bytes)
<1>1. most \in Nat
  OBVIOUS
<1>2. IsFeeding(turn, in, bytes, most)
  BY <1>1, FeedTurnsDef
<1> HIDE DEF turn
<1>3. \A n \in 0..most : turn[n] = IF n = 0 THEN [in |-> in, rest |-> bytes, overflows |-> FALSE]
                                   ELSE FeedNext(turn[n - 1])
  BY <1>2, Zenon DEF IsFeeding
<1> DEFINE K == {k \in Nat : k <= most => Fed(in, bytes, k, turn[k])}
<1>4. 0 \in K
  <2>1. 0 \in 0..most
    BY <1>1
  <2>2. turn[0] = [in |-> in, rest |-> bytes, overflows |-> FALSE]
    BY <1>3, <2>1
  <2>3. PICK at : at = turn[0]
    OBVIOUS
  <2>4. at.in = in /\ at.rest = bytes /\ at.overflows = FALSE
    BY <2>2, <2>3
  <2>5. Follows(in, in)
    BY DEF Follows
  <2>6. most + 0 <= most
    BY <1>1
  <2>7. Fed(in, bytes, 0, at)
    BY <2>4, <2>5, <2>6 DEF Fed
  <2> QED  BY <2>3, <2>7
<1>5. ASSUME NEW k \in Nat, k \in K  PROVE  k + 1 \in K
  <2>1. SUFFICES ASSUME k + 1 <= most  PROVE Fed(in, bytes, k + 1, turn[k + 1])
    OBVIOUS
  <2>2. Fed(in, bytes, k, turn[k])
    BY <1>1, <1>5, <2>1
  <2>3. turn[k + 1] = FeedNext(turn[k])
    BY <1>1, <1>3, <2>1
  <2>4. Fed(in, bytes, k + 1, FeedNext(turn[k]))
    BY <1>1, <2>2, FeedNextFed
  <2> QED  BY <2>3, <2>4
<1>6. \A k \in Nat : k \in K
  <2> HIDE DEF K
  <2> QED  BY <1>4, <1>5, Induction
<1>7. last = turn[most]
  BY DEF turn
<1>8. Fed(in, bytes, most, last)
  BY <1>1, <1>6, <1>7
<1> QED  BY <1>8 DEF Fed

\* Keeping what Keeps says keeps the buffer as it rests.
LEMMA KeepsRests ==
  ASSUME NEW in, Resting(in), NEW to, Keeps(in, to)
  PROVE  Resting(to) /\ Follows(in, to)
BY DEF Resting, Keeps, Follows

LEMMA FeedBytesRests ==
  ASSUME NEW in, Resting(in), NEW bytes \in Seq(0..255), NEW fedIn, fedIn = FeedBytes(in, bytes)
  PROVE  Resting(fedIn.in) /\ Follows(in, fedIn.in) /\ fedIn.status \in {"ok", "limit"}
<1>1. PICK a : a = ReleaseExpired(in)
  OBVIOUS
<1>2. Resting(a) /\ Follows(in, a)
  BY <1>1, ReleaseExpiredKeeps, KeepsRests DEF Resting
<1>3. PICK b : b = ParseAvailable(a, FALSE)
  OBVIOUS
<1>4. Resting(b) /\ Follows(a, b)
  BY <1>2, <1>3, ParseAvailableRests DEF Resting
<1>5. PICK last : last = FeedTurns(b, bytes)[Len(bytes)]
  OBVIOUS
<1>6. Resting(last.in) /\ Follows(b, last.in) /\ ~last.overflows
  BY <1>4, <1>5, FeedTurnsFed
<1>7. fedIn = [in |-> last.in, status |-> IF last.overflows THEN "overflow" ELSE Overflow(last.in)]
  BY <1>1, <1>3, <1>5 DEF FeedBytes, Answered
<1>8. Follows(in, last.in)
  BY <1>2, <1>4, <1>6, FollowsChain
<1> QED  BY <1>6, <1>7, <1>8 DEF Overflow

-----------------------------------------------------------------------------
(* The calls.                                                               *)

LEMMA ElapseRests ==
  ASSUME NEW in, Resting(in), NEW time \in Nat, NEW to, to = Elapse(in, time)
  PROVE  Resting(to) /\ Follows(in, to) /\ to.bytes = in.bytes /\ to.held = in.held
         /\ to.explicit = in.explicit
<1> DEFINE Left(t) == IF t > time THEN t - time ELSE 0
           lease   == [key \in DOMAIN in.lease |-> Left(in.lease[key])]
           escape  == IF in.escape = NotPending THEN in.escape ELSE Left(in.escape)
<1>0. WellFormed(in)
  BY DEF Resting
<1>1. \A t \in Nat : Left(t) \in Nat
  OBVIOUS
<1>2. to = [in EXCEPT !.lease = lease, !.escape = escape]
  BY <1>0 DEF Elapse, WellFormed, InputFields
<1> HIDE DEF Left
<1>3. in.held \subseteq DOMAIN lease /\ \A key \in in.held : lease[key] \in Nat
  BY <1>0, <1>1 DEF WellFormed, HoldsOK
<1>4. escape \in Nat \cup {NotPending} /\ (escape # NotPending <=> in.escape # NotPending)
  <2>1. CASE in.escape = NotPending
    BY <2>1
  <2>2. CASE in.escape # NotPending
    <3>1. in.escape \in Nat
      BY <1>0, <2>2 DEF WellFormed
    <3>2. escape = Left(in.escape)
      BY <2>2
    <3>3. escape \in Nat
      BY <1>1, <3>1, <3>2
    <3> QED  BY <2>2, <3>3 DEF NotPending
  <2> QED  BY <2>1, <2>2
<1> HIDE DEF lease, escape
<1>5. /\ DOMAIN to = InputFields /\ to.bytes = in.bytes /\ to.escape = escape
      /\ to.capacity = in.capacity /\ to.events = in.events /\ to.dropped = in.dropped
      /\ to.held = in.held /\ to.explicit = in.explicit /\ to.lease = lease
      /\ to.buttons = in.buttons
  BY <1>0, <1>2 DEF WellFormed, InputFields
<1>6. WellFormed(to)
  BY <1>0, <1>3, <1>4, <1>5 DEF WellFormed, HoldsOK
<1>7. Follows(in, to)
  BY <1>5 DEF Follows, Honest, HeldIn
<1> QED  BY <1>4, <1>5, <1>6, <1>7 DEF Resting

\* What a call clears, no event tells of.
LEMMA ClearedKeeps ==
  ASSUME NEW in, WellFormed(in), NEW to, to = Cleared(in)
  PROVE  Keeps(in, to) /\ to.held = in.held /\ to.explicit = in.explicit
<1>1. to = [in EXCEPT !.overflowed = FALSE]
  BY DEF Cleared
<1>2. /\ DOMAIN to = InputFields /\ to.bytes = in.bytes /\ to.escape = in.escape
      /\ to.capacity = in.capacity /\ to.events = in.events /\ to.dropped = in.dropped
      /\ to.held = in.held /\ to.explicit = in.explicit /\ to.lease = in.lease
      /\ to.buttons = in.buttons
  BY <1>1 DEF WellFormed, InputFields
<1> QED  BY <1>2, AsideKeeps

FrameBegun(in) ==
  [Cleared(in) EXCEPT !.pressed = {}, !.released = {}, !.buttons.pressed = {}, !.buttons.released = {}]

LEMMA FrameBegunKeeps ==
  ASSUME NEW in, WellFormed(in), NEW to, to = FrameBegun(in)
  PROVE  Keeps(in, to) /\ to.held = in.held /\ to.explicit = in.explicit
<1> DEFINE buttons == [in.buttons EXCEPT !.pressed = {}, !.released = {}]
<1>1. /\ DOMAIN to = InputFields /\ to.bytes = in.bytes /\ to.escape = in.escape
      /\ to.capacity = in.capacity /\ to.events = in.events /\ to.dropped = in.dropped
      /\ to.held = in.held /\ to.explicit = in.explicit /\ to.lease = in.lease
      /\ to.buttons = buttons
  BY DEF WellFormed, InputFields, FrameBegun, Cleared, HoldsOK
<1>2. buttons.held = in.buttons.held /\ DOMAIN buttons = {"held", "pressed", "released"}
  BY DEF WellFormed, HoldsOK
<1> HIDE DEF buttons
<1>3. WellFormed(to)
  BY <1>1, <1>2 DEF WellFormed, HoldsOK
<1> QED  BY <1>1, <1>2, <1>3 DEF Keeps, Honest, HeldIn

LEMMA SettleRests ==
  ASSUME NEW in, Resting(in), NEW to, to = Settle(in)
  PROVE  Resting(to) /\ Follows(in, to) /\ (in.bytes = <<>> => in.explicit \subseteq to.held)
<1>1. PICK a : a = ParseAvailable(in, FALSE)
  OBVIOUS
<1>2. Resting(a) /\ Follows(in, a)
  BY <1>1, ParseAvailableRests DEF Resting
<1>3. to = ReleaseExpired(a)
  BY <1>1 DEF Settle
<1>4. Keeps(a, to) /\ a.explicit \subseteq to.held
  BY <1>2, <1>3, ReleaseExpiredKeeps DEF Resting
<1>5. Resting(to) /\ Follows(in, to)
  BY <1>2, <1>4, KeepsRests, FollowsChain
<1>6. in.bytes = <<>> => a.explicit = in.explicit
  <2>1. SUFFICES ASSUME in.bytes = <<>>  PROVE a.explicit = in.explicit
    OBVIOUS
  <2>2. Len(in.bytes) = 0 /\ Len(in.bytes) \in Nat
    BY <2>1
  <2>3. PICK turn : turn = ParseTurns(in, FALSE)
    OBVIOUS
  <2>4. IsParsing(turn, in, FALSE, Len(in.bytes))
    BY <2>2, <2>3, ParseTurnsDef
  <2>5. turn[0] = [in |-> in, stops |-> FALSE]
    BY <2>2, <2>4 DEF IsParsing
  <2>6. turn[0].in = in
    BY <2>5
  <2>7. ParseAvailable(in, FALSE) = [in EXCEPT !.escape = NotPending]
    BY <2>1, <2>2, <2>3, <2>6 DEF ParseAvailable, Emptied
  <2> QED  BY <1>1, <2>7 DEF Resting, WellFormed, InputFields
<1> QED  BY <1>4, <1>5, <1>6

LEMMA ResizeKeeps ==
  ASSUME NEW in, WellFormed(in), NEW to, to = QueueEvent(in, [type |-> "resize"])
  PROVE  Keeps(in, to) /\ to.held = in.held /\ to.explicit = in.explicit
<1>1. PICK event : event = [type |-> "resize"]
  OBVIOUS
<1>2. event.type \notin {"down", "up", "mouse_down", "mouse_up"}
  BY <1>1
<1>3. Keeps(in, to) /\ to.held = in.held
  BY <1>1, <1>2, NewsKeeps
<1>4. to.explicit = in.explicit
  BY DEF QueueEvent, WellFormed, InputFields
<1> QED  BY <1>3, <1>4

-----------------------------------------------------------------------------
(* The inductive invariant.                                                 *)

\* Between calls the buffer rests and its events are honest; no call came back for want
\* of room; what the terminal sends and sent are bytes.
InputInv ==
  /\ app \in Applications
  /\ stream \in Seq(0..255) /\ fed \in Seq(0..255)
  /\ Resting(input)
  /\ Honest(view, input)
  /\ status # "overflow"

LEMMA InitInv == Init => InputInv
<1>1. SUFFICES ASSUME Init PROVE InputInv
  OBVIOUS
<1>2. app.capacity \in Nat \ {0} /\ app.script \in Seq(0..255)
  BY <1>1, InputConstants DEF Init
<1>3. /\ DOMAIN input = InputFields /\ input.bytes = <<>> /\ input.escape = NotPending
      /\ input.capacity = app.capacity /\ input.events = <<>> /\ input.dropped = 0
      /\ input.held = {} /\ input.explicit = {} /\ input.lease = <<>>
      /\ input.buttons = [held |-> {}, pressed |-> {}, released |-> {}]
  BY <1>1 DEF Init, Created, InputFields
<1>4. WellFormed(input)
  <2>1. <<>> \in Seq({}) /\ <<>> \in Seq(0..255)
    OBVIOUS
  <2> QED  BY <1>2, <1>3, <2>1 DEF WellFormed, HoldsOK
<1>5. Resting(input)
  BY <1>3, <1>4, InputParserConstants DEF Resting
<1>6. Honest(view, input)
  <2>1. Heard(view, <<>>) = view
    BY HeardNothing, SMTT(60)
  <2> QED  BY <1>1, <1>3, <2>1 DEF Honest, HeldIn, Init
<1> QED  BY <1>1, <1>2, <1>5, <1>6 DEF Init, InputInv

LEMMA TakeTyped ==
  ASSUME InputInv, NEW n \in Found \cup {0}, Take(n)
  PROVE  /\ stream' \in Seq(0..255) /\ fed' \in Seq(0..255)
         /\ SubSeq(stream, 1, n) \in Seq(0..255)
         /\ fed' = fed => n = 0
<1>1. Len(stream) \in Nat /\ stream \in Seq(0..255) /\ fed \in Seq(0..255)
  BY DEF InputInv
<1>2. n \in 0..Len(stream)
  BY <1>1 DEF Found
<1>3. From(stream, n + 1) \in Seq(0..255)
  BY <1>1, <1>2, FromShorter
<1>4. PICK piece : piece = SubSeq(stream, 1, n)
  OBVIOUS
<1>5. piece \in Seq(0..255) /\ (Len(piece) = 0 => n = 0)
  <2>1. \A i \in 1..n : i \in 1..Len(stream)
    BY <1>1, <1>2
  <2>2. \A i \in 1..n : stream[i] \in 0..255
    BY <1>1, <2>1, ElementOfSeq, SMTT(60)
  <2>3. 1 \in Int /\ n \in Int
    BY <1>2
  <2>4. piece \in Seq(0..255) /\ Len(piece) = IF 1 <= n THEN n - 1 + 1 ELSE 0
    BY <1>4, <2>2, <2>3, SubSeqProperties
  <2> QED  BY <1>2, <2>4
<1>6. fed \o piece \in Seq(0..255)
  BY <1>1, <1>5, ConcatProperties
<1>7. fed' = fed => n = 0
  <2>1. fed \o piece = fed => piece = <<>>
    BY <1>1, <1>5, ConcatEqualIffEmpty
  <2> QED  BY <1>4, <1>5, <2>1 DEF Take
<1> QED  BY <1>3, <1>4, <1>5, <1>6, <1>7 DEF Take

\* What is left to show of a call.
LEMMA CallKeepsInv ==
  ASSUME InputInv, app' = app, view' = view, stream' \in Seq(0..255), fed' \in Seq(0..255),
         Resting(input'), Follows(input, input'), status' # "overflow"
  PROVE  InputInv'
<1>1. Honest(view, input')
  BY DEF InputInv, Follows
<1>2. Honest(view, input)' <=> Honest(view', input')
  BY DEF Honest, HeldIn
<1>3. Resting(input)' <=> Resting(input')
  BY DEF Resting, WellFormed, HoldsOK
<1>4. Honest(view, input)' /\ Resting(input)' /\ app' \in Applications
  BY <1>1, <1>2, <1>3 DEF InputInv
<1> QED  BY <1>4 DEF InputInv

\* What a poll that found n bytes comes to.
LEMMA PollReadsRests ==
  ASSUME NEW in, Resting(in), NEW n, SubSeq(stream, 1, n) \in Seq(0..255), NEW fails,
         n = 0 => ~fails, ~(n > 0) => n = 0, PollReads(in, n, fails)
  PROVE  /\ Resting(input') /\ Follows(in, input') /\ status' # "overflow"
         /\ n = 0 /\ in.bytes = <<>> => in.explicit \subseteq input'.held
<1>1. PICK got : got = IF n > 0 THEN FeedBytes(in, SubSeq(stream, 1, n))
                       ELSE [in |-> in, status |-> Overflow(in)]
  OBVIOUS
<1>2. FinishPoll(got, fails)
  BY <1>1 DEF PollReads
<1>3. Resting(got.in) /\ Follows(in, got.in) /\ got.status \in {"ok", "limit"} /\ (n = 0 => got.in = in)
  <2>1. CASE n > 0
    <3>1. got = FeedBytes(in, SubSeq(stream, 1, n))
      BY <1>1, <2>1
    <3>2. n # 0
      BY <2>1
    <3> QED  BY <3>1, <3>2, FeedBytesRests, ZenonT(60)
  <2>2. CASE ~(n > 0)
    <3>1. got.in = in /\ got.status = Overflow(in)
      BY <1>1, <2>2
    <3>2. Follows(in, in)
      BY DEF Follows
    <3> QED  BY <3>1, <3>2 DEF Overflow
  <2> QED  BY <2>1, <2>2
<1>4. CASE fails
  <2>1. input' = got.in /\ status' = "platform"
    BY <1>2, <1>3, <1>4 DEF FinishPoll, Finish
  <2> QED  BY <1>3, <1>4, <2>1
<1>5. CASE ~fails
  <2>1. PICK to : to = Settle(got.in)
    OBVIOUS
  <2>2. input' = to /\ status' = Overflow(to)
    BY <1>2, <1>3, <1>5, <2>1 DEF FinishPoll, Return, Finish
  <2>3. Resting(to) /\ Follows(got.in, to) /\ (got.in.bytes = <<>> => got.in.explicit \subseteq to.held)
    BY <1>3, <2>1, SettleRests
  <2>4. Overflow(to) # "overflow"
    BY DEF Overflow
  <2> QED  BY <1>3, <2>2, <2>3, <2>4, FollowsChain
<1> QED  BY <1>4, <1>5

LEMMA PollRests ==
  ASSUME InputInv, Poll
  PROVE  /\ Resting(input') /\ Follows(input, input') /\ status' # "overflow"
         /\ stream' \in Seq(0..255) /\ fed' \in Seq(0..255) /\ view' = view
         /\ input.bytes = <<>> /\ fed' = fed => input.explicit \subseteq input'.held
<1>1. PICK n \in Found \cup {0}, resized \in BOOLEAN, fails \in BOOLEAN, time \in Nat :
        (fails => n > 0) /\ PollCall(time, n, resized, fails) /\ view' = view
  BY DEF Poll
<1>2. PICK cleared : cleared = Cleared(input)
  OBVIOUS
<1>3. Resting(cleared) /\ Follows(input, cleared) /\ cleared.bytes = input.bytes
      /\ cleared.explicit = input.explicit
  BY <1>2, ClearedKeeps, KeepsRests DEF InputInv, Resting, Keeps
<1>4. PICK waited : waited = Elapse(cleared, time)
  OBVIOUS
<1>5. Resting(waited) /\ Follows(cleared, waited) /\ waited.bytes = input.bytes
      /\ waited.explicit = input.explicit
  BY <1>3, <1>4, ElapseRests
<1>6. PICK in : in = IF resized THEN QueueEvent(waited, [type |-> "resize"]) ELSE waited
  OBVIOUS
<1>7. Resting(in) /\ Follows(waited, in) /\ in.bytes = input.bytes /\ in.explicit = input.explicit
  <2>1. CASE resized
    <3>1. in = QueueEvent(waited, [type |-> "resize"])
      BY <1>6, <2>1
    <3>2. Keeps(waited, in) /\ in.explicit = waited.explicit
      BY <1>5, <3>1, ResizeKeeps DEF Resting
    <3> QED  BY <1>5, <3>2, KeepsRests DEF Keeps
  <2>2. CASE ~resized
    <3>1. in = waited
      BY <1>6, <2>2
    <3> QED  BY <1>5, <3>1 DEF Follows
  <2> QED  BY <2>1, <2>2
<1>8. Take(n) /\ PollReads(in, n, fails)
  BY <1>1, <1>2, <1>4, <1>6 DEF PollCall
<1>9. /\ stream' \in Seq(0..255) /\ fed' \in Seq(0..255)
      /\ SubSeq(stream, 1, n) \in Seq(0..255) /\ (fed' = fed => n = 0)
  BY <1>8, TakeTyped
<1>10. (n = 0 => ~fails) /\ (~(n > 0) => n = 0)
  <2>1. n \in Nat
    BY DEF Found
  <2> QED  BY <1>1, <2>1
<1>11. /\ Resting(input') /\ Follows(in, input') /\ status' # "overflow"
       /\ n = 0 /\ in.bytes = <<>> => in.explicit \subseteq input'.held
  BY <1>7, <1>8, <1>9, <1>10, PollReadsRests
<1>12. Follows(input, input')
  BY <1>3, <1>5, <1>7, <1>11, FollowsChain
<1> QED  BY <1>1, <1>7, <1>9, <1>11, <1>12

LEMMA NextInv == InputInv /\ [Next]_inputVars => InputInv'
<1>1. SUFFICES ASSUME InputInv, [Next]_inputVars PROVE InputInv'
  OBVIOUS
<1>2. stream \in Seq(0..255) /\ fed \in Seq(0..255) /\ Resting(input) /\ WellFormed(input)
      /\ status # "overflow"
  BY <1>1 DEF InputInv, Resting
<1>3. CASE Tick /\ app' = app
  <2>1. PICK to : to = Elapse(input, 1)
    OBVIOUS
  <2>2. input' = to /\ status' = status /\ view' = view /\ stream' = stream /\ fed' = fed
    BY <1>3, <2>1 DEF Tick, Keep
  <2>3. Resting(to) /\ Follows(input, to)
    BY <1>2, <2>1, ElapseRests
  <2> QED  BY <1>1, <1>2, <1>3, <2>2, <2>3, CallKeepsInv
<1>4. CASE BeginFrame /\ app' = app
  <2>1. PICK begun : begun = FrameBegun(input)
    OBVIOUS
  <2>2. PICK to : to = Settle(begun)
    OBVIOUS
  <2>3. input' = to /\ status' = Overflow(to) /\ view' = view /\ stream' = stream /\ fed' = fed
    BY <1>4, <2>1, <2>2 DEF BeginFrame, FrameBegun, Return, Finish, Keep
  <2>4. Resting(begun) /\ Follows(input, begun)
    BY <1>2, <2>1, FrameBegunKeeps, KeepsRests
  <2>5. Resting(to) /\ Follows(begun, to)
    BY <2>2, <2>4, SettleRests
  <2>6. Follows(input, to) /\ Overflow(to) # "overflow"
    BY <2>4, <2>5, FollowsChain DEF Overflow
  <2> QED  BY <1>1, <1>2, <1>4, <2>3, <2>5, <2>6, CallKeepsInv
<1>5. CASE Feed /\ app' = app
  <2>1. PICK n \in Found :
          Take(n) /\ FinishFeed(FeedBytes(Cleared(input), SubSeq(stream, 1, n))) /\ view' = view
    BY <1>5 DEF Feed
  <2>2. PICK cleared : cleared = Cleared(input)
    OBVIOUS
  <2>3. Resting(cleared) /\ Follows(input, cleared)
    BY <1>2, <2>2, ClearedKeeps, KeepsRests
  <2>4. PICK piece : piece = SubSeq(stream, 1, n)
    OBVIOUS
  <2>5. stream' \in Seq(0..255) /\ fed' \in Seq(0..255) /\ piece \in Seq(0..255)
    BY <1>1, <2>1, <2>4, TakeTyped
  <2>6. PICK got : got = FeedBytes(cleared, piece)
    OBVIOUS
  <2>7. Resting(got.in) /\ Follows(cleared, got.in) /\ got.status \in {"ok", "limit"}
    BY <2>3, <2>5, <2>6, FeedBytesRests, ZenonT(60)
  <2>8. input' = got.in /\ status' = got.status
    BY <2>1, <2>2, <2>4, <2>6 DEF FinishFeed, Finish
  <2>9. Follows(input, got.in) /\ got.status # "overflow"
    BY <2>3, <2>7, FollowsChain
  <2> QED  BY <1>1, <1>5, <2>1, <2>5, <2>7, <2>8, <2>9, CallKeepsInv
<1>6. CASE Flush /\ app' = app
  <2>1. PICK cleared : cleared = Cleared(input)
    OBVIOUS
  <2>2. PICK to : to = Settle(cleared)
    OBVIOUS
  <2>3. input' = to /\ status' = Overflow(to) /\ view' = view /\ stream' = stream /\ fed' = fed
    BY <1>6, <2>1, <2>2 DEF Flush, Return, Finish, Keep
  <2>4. Resting(cleared) /\ Follows(input, cleared)
    BY <1>2, <2>1, ClearedKeeps, KeepsRests
  <2>5. Resting(to) /\ Follows(cleared, to)
    BY <2>2, <2>4, SettleRests
  <2>6. Follows(input, to) /\ Overflow(to) # "overflow"
    BY <2>4, <2>5, FollowsChain DEF Overflow
  <2> QED  BY <1>1, <1>2, <1>6, <2>3, <2>5, <2>6, CallKeepsInv
<1>7. CASE Poll /\ app' = app
  BY <1>1, <1>7, PollRests, CallKeepsInv
<1>8. CASE PollFails /\ app' = app
  <2>1. PICK to : to = Cleared(input)
    OBVIOUS
  <2>2. input' = to /\ status' = "platform" /\ view' = view /\ stream' = stream /\ fed' = fed
    BY <1>8, <2>1 DEF PollFails, Finish, Keep
  <2>3. Resting(to) /\ Follows(input, to)
    BY <1>2, <2>1, ClearedKeeps, KeepsRests
  <2> QED  BY <1>1, <1>2, <1>8, <2>2, <2>3, CallKeepsInv
<1>9. CASE NextEvent /\ app' = app
  <2>1. PICK S : input.events \in Seq(S)
    BY <1>2 DEF WellFormed
  <2>2. PICK events : events = input.events /\ events # <<>> /\ events \in Seq(S)
    BY <1>9, <2>1 DEF NextEvent
  <2>3. PICK to : to = [input EXCEPT !.events = Tail(@)]
    OBVIOUS
  <2>4. input' = to /\ status' = status /\ view' = Told(view, Head(events))
        /\ stream' = stream /\ fed' = fed
    BY <1>9, <2>2, <2>3 DEF NextEvent, Keep
  <2>5. /\ DOMAIN to = InputFields /\ to.bytes = input.bytes /\ to.escape = input.escape
        /\ to.capacity = input.capacity /\ to.events = Tail(events) /\ to.dropped = input.dropped
        /\ to.held = input.held /\ to.explicit = input.explicit /\ to.lease = input.lease
        /\ to.buttons = input.buttons
    BY <1>2, <2>2, <2>3 DEF WellFormed, InputFields
  <2>6. Tail(events) \in Seq(S)
    BY <2>2, HeadTailProperties
  <2>7. WellFormed(to)
    BY <1>2, <2>5, <2>6, SMTT(60) DEF WellFormed, HoldsOK
  <2>8. Resting(to)
    BY <1>2, <2>5, <2>7 DEF Resting
  <2>9. PICK seen : seen = Told(view, Head(events))
    OBVIOUS
  <2>10. Heard(seen, Tail(events)) = Heard(view, events)
    BY <2>2, <2>9, HeardTail
  <2>11. Honest(seen, to)
    BY <1>1, <2>2, <2>5, <2>10 DEF InputInv, Honest, HeldIn
  <2>12. Honest(view', input') /\ Resting(input')
    BY <2>4, <2>8, <2>9, <2>11
  <2>13. Honest(view, input)' <=> Honest(view', input')
    BY DEF Honest, HeldIn
  <2>14. Resting(input)' <=> Resting(input')
    BY DEF Resting, WellFormed, HoldsOK
  <2> QED  BY <1>1, <1>2, <1>9, <2>4, <2>12, <2>13, <2>14 DEF InputInv
<1>10. CASE ReleaseAllCall /\ app' = app
  <2>1. PICK to : to = ReleaseAll(input)
    OBVIOUS
  <2>2. input' = to /\ status' = status /\ view' = view /\ stream' = stream /\ fed' = fed
    BY <1>10, <2>1 DEF ReleaseAllCall, Keep
  <2>3. Resting(to) /\ Follows(input, to)
    BY <1>2, <2>1, ReleaseAllKeeps, KeepsRests
  <2> QED  BY <1>1, <1>2, <1>10, <2>2, <2>3, CallKeepsInv
<1>11. CASE UNCHANGED inputVars
  <2>1. input' = input /\ status' = status /\ view' = view /\ stream' = stream /\ fed' = fed /\ app' = app
    BY <1>11 DEF inputVars, callVars
  <2>2. Follows(input, input)
    BY DEF Follows
  <2> QED  BY <1>1, <1>2, <2>1, <2>2, CallKeepsInv
<1> QED  BY <1>1, <1>3, <1>4, <1>5, <1>6, <1>7, <1>8, <1>9, <1>10, <1>11 DEF Next

\* Between calls the object of input.c rests and its queue tells what it holds.
THEOREM InputInvariant == Spec => []InputInv
BY InitInv, NextInv, PTL DEF Spec

\* Between calls the parser is never stuck, whatever the terminal sends, however its
\* bytes are cut and however small the buffer: what input_parser.c keeps has a deadline
\* that ends it, and no call of input.c comes back for want of room.
THEOREM ParserIsNeverStuck == Spec => []ParserNeverStalls
<1>1. InputInv => ParserNeverStalls
  BY DEF InputInv, Resting, ParserNeverStalls, BufferedBytesHaveADeadline, BufferMakesProgress,
         OnlyAPrefixIsKept
<1> QED  BY <1>1, InputInvariant, PTL

\* The events of the queue tell a reader what input_state.c holds, however full the
\* queue gets, and a call that is given no bytes and holds none lets no key go whose
\* release the terminal reports.
THEOREM InputIsHonest == Spec => KeysAreHonest
<1>1. InputInv /\ [Next]_inputVars => [ExplicitKeysStay /\ EventsTellHeld']_inputVars
  <2>1. SUFFICES ASSUME InputInv, Next  PROVE ExplicitKeysStay /\ EventsTellHeld'
    OBVIOUS
  <2>2. EventsTellHeld'
    <3>1. InputInv'
      BY <2>1, NextInv
    <3>2. Honest(view, input)' <=> EventsTellHeld'
      BY DEF Honest, HeldIn, EventsTellHeld
    <3> QED  BY <3>1, <3>2 DEF InputInv
  <2>3. ExplicitKeysStay
    <3>1. SUFFICES ASSUME BeginFrame \/ Flush \/ Poll, input.bytes = <<>>, fed' = fed
                   PROVE  input.explicit \subseteq input'.held
      BY DEF ExplicitKeysStay
    <3>2. Resting(input) /\ WellFormed(input)
      BY <2>1 DEF InputInv, Resting
    <3>3. CASE BeginFrame
      <4>1. PICK begun : begun = FrameBegun(input)
        OBVIOUS
      <4>2. PICK to : to = Settle(begun)
        OBVIOUS
      <4>3. input' = to
        BY <3>3, <4>1, <4>2 DEF BeginFrame, FrameBegun, Return, Finish
      <4>4. Keeps(input, begun) /\ Resting(begun) /\ begun.explicit = input.explicit
        BY <3>2, <4>1, FrameBegunKeeps, KeepsRests
      <4>5. begun.bytes = <<>>
        BY <3>1, <4>4 DEF Keeps
      <4> QED  BY <4>2, <4>3, <4>4, <4>5, SettleRests
    <3>4. CASE Flush
      <4>1. PICK cleared : cleared = Cleared(input)
        OBVIOUS
      <4>2. PICK to : to = Settle(cleared)
        OBVIOUS
      <4>3. input' = to
        BY <3>4, <4>1, <4>2 DEF Flush, Return, Finish
      <4>4. Keeps(input, cleared) /\ Resting(cleared) /\ cleared.explicit = input.explicit
        BY <3>2, <4>1, ClearedKeeps, KeepsRests
      <4>5. cleared.bytes = <<>>
        BY <3>1, <4>4 DEF Keeps
      <4> QED  BY <4>2, <4>3, <4>4, <4>5, SettleRests
    <3>5. CASE Poll
      BY <2>1, <3>1, <3>5, PollRests
    <3> QED  BY <3>1, <3>3, <3>4, <3>5
  <2> QED  BY <2>2, <2>3
<1> QED  BY <1>1, InputInvariant, PTL DEF Spec, KeysAreHonest

-----------------------------------------------------------------------------
(* Two objects that tell the same.                                          *)

\* What of an object no clock and no frame changes is the same in both.
Alike(a, b) ==
  /\ WellFormed(a) /\ WellFormed(b)
  /\ a.capacity = b.capacity /\ a.events = b.events /\ a.dropped = b.dropped
  /\ a.held = b.held /\ a.explicit = b.explicit /\ a.buttons.held = b.buttons.held
  /\ a.mouse = b.mouse /\ a.mode = b.mode /\ a.paste = b.paste

\* No lease of it has ended.
Lasting(in) == \A key \in in.held \ in.explicit : in.lease[key] # 0

Twin(a, b) == Alike(a, b) /\ Lasting(a) /\ Lasting(b)

LEMMA TwinSwaps ==
  ASSUME NEW a, NEW b, Twin(a, b)
  PROVE  Twin(b, a)
BY DEF Twin, Alike

LEMMA TwinChain ==
  ASSUME NEW a, NEW b, NEW c, Twin(a, b), Twin(b, c)
  PROVE  Twin(a, c)
BY DEF Twin, Alike

LEMMA TwinItself ==
  ASSUME NEW a, NEW b, Twin(a, b)
  PROVE  Twin(a, a) /\ Twin(b, b) /\ WellFormed(a) /\ WellFormed(b)
BY DEF Twin, Alike

LEMMA QueueFields ==
  ASSUME NEW in, WellFormed(in), NEW event, NEW to, to = QueueEvent(in, event)
  PROVE  /\ WellFormed(to)
         /\ to.capacity = in.capacity /\ to.held = in.held /\ to.explicit = in.explicit
         /\ to.lease = in.lease /\ to.buttons = in.buttons
         /\ to.mouse = in.mouse /\ to.mode = in.mode /\ to.paste = in.paste
         /\ to.events = IF Len(in.events) = in.capacity THEN in.events ELSE Append(in.events, event)
         /\ to.dropped = IF Len(in.events) = in.capacity
                         THEN IF in.dropped < DropLimit THEN in.dropped + 1 ELSE in.dropped
                         ELSE in.dropped
<1>1. PICK S : in.events \in Seq(S)
  BY DEF WellFormed
<1>2. CASE Len(in.events) = in.capacity
  <2>1. to = [in EXCEPT !.dropped = IF @ < DropLimit THEN @ + 1 ELSE @, !.overflowed = TRUE]
    BY <1>2 DEF QueueEvent
  <2>2. /\ DOMAIN to = InputFields /\ to.capacity = in.capacity /\ to.events = in.events
        /\ to.bytes = in.bytes /\ to.escape = in.escape /\ to.held = in.held
        /\ to.explicit = in.explicit /\ to.lease = in.lease /\ to.buttons = in.buttons
        /\ to.mouse = in.mouse /\ to.mode = in.mode /\ to.paste = in.paste
        /\ to.dropped = IF in.dropped < DropLimit THEN in.dropped + 1 ELSE in.dropped
    BY <2>1 DEF WellFormed, InputFields
  <2>3. to.dropped \in Nat
    BY <2>2, InputStateConstants DEF WellFormed
  <2> QED  BY <1>2, <2>2, <2>3 DEF WellFormed, HoldsOK
<1>3. CASE Len(in.events) # in.capacity
  <2>1. to = [in EXCEPT !.events = Append(@, event)]
    BY <1>3 DEF QueueEvent
  <2>2. /\ DOMAIN to = InputFields /\ to.capacity = in.capacity
        /\ to.events = Append(in.events, event)
        /\ to.bytes = in.bytes /\ to.escape = in.escape /\ to.held = in.held
        /\ to.explicit = in.explicit /\ to.lease = in.lease /\ to.buttons = in.buttons
        /\ to.mouse = in.mouse /\ to.mode = in.mode /\ to.paste = in.paste
        /\ to.dropped = in.dropped
    BY <2>1 DEF WellFormed, InputFields
  <2>3. to.events \in Seq(S \cup {event})
    BY <1>1, <2>2
  <2> QED  BY <1>3, <2>2, <2>3 DEF WellFormed, HoldsOK
<1> QED  BY <1>2, <1>3

LEMMA QueueTwin ==
  ASSUME NEW a, NEW b, Twin(a, b), NEW event
  PROVE  Twin(QueueEvent(a, event), QueueEvent(b, event))
<1>1. PICK c, d : c = QueueEvent(a, event) /\ d = QueueEvent(b, event)
  OBVIOUS
<1>2. WellFormed(a) /\ WellFormed(b)
  BY DEF Twin, Alike
<1>3. /\ WellFormed(c)
      /\ c.capacity = a.capacity /\ c.held = a.held /\ c.explicit = a.explicit
      /\ c.lease = a.lease /\ c.buttons = a.buttons
      /\ c.mouse = a.mouse /\ c.mode = a.mode /\ c.paste = a.paste
      /\ c.events = IF Len(a.events) = a.capacity THEN a.events ELSE Append(a.events, event)
      /\ c.dropped = IF Len(a.events) = a.capacity
                     THEN IF a.dropped < DropLimit THEN a.dropped + 1 ELSE a.dropped
                     ELSE a.dropped
  BY <1>1, <1>2, QueueFields
<1>4. /\ WellFormed(d)
      /\ d.capacity = b.capacity /\ d.held = b.held /\ d.explicit = b.explicit
      /\ d.lease = b.lease /\ d.buttons = b.buttons
      /\ d.mouse = b.mouse /\ d.mode = b.mode /\ d.paste = b.paste
      /\ d.events = IF Len(b.events) = b.capacity THEN b.events ELSE Append(b.events, event)
      /\ d.dropped = IF Len(b.events) = b.capacity
                     THEN IF b.dropped < DropLimit THEN b.dropped + 1 ELSE b.dropped
                     ELSE b.dropped
  BY <1>1, <1>2, QueueFields
<1>5. Twin(c, d)
  BY <1>3, <1>4 DEF Twin, Alike, Lasting
<1> QED  BY <1>1, <1>5

LEMMA EmitTextTwin ==
  ASSUME NEW a, NEW b, Twin(a, b), NEW codepoint
  PROVE  Twin(EmitText(a, codepoint), EmitText(b, codepoint))
BY QueueTwin DEF EmitText

\* What HoldKey makes of a key.
Holding(in, to, key, explicit) ==
  /\ WellFormed(to) /\ Lasting(to)
  /\ to.capacity = in.capacity /\ to.events = in.events /\ to.dropped = in.dropped
  /\ to.held = in.held \cup {key} /\ to.buttons = in.buttons
  /\ to.explicit = IF explicit THEN in.explicit \cup {key} ELSE in.explicit \ {key}
  /\ to.mouse = in.mouse /\ to.mode = in.mode /\ to.paste = in.paste

LEMMA HeldFields ==
  ASSUME NEW in, WellFormed(in), Lasting(in), KeyTimeout # 0, NEW key \in Keys, NEW explicit, NEW to,
         to = HoldKey(in, key, explicit)
  PROVE  Holding(in, to, key, explicit)
<1> DEFINE lease == [k \in DOMAIN in.lease \cup {key} |->
                       IF k # key THEN in.lease[k] ELSE IF explicit THEN 0 ELSE KeyTimeout]
<1>1. /\ DOMAIN to = InputFields /\ to.capacity = in.capacity /\ to.events = in.events
      /\ to.bytes = in.bytes /\ to.escape = in.escape /\ to.held = in.held \cup {key}
      /\ to.explicit = IF explicit THEN in.explicit \cup {key} ELSE in.explicit \ {key}
      /\ to.buttons = in.buttons /\ to.dropped = in.dropped
      /\ to.mouse = in.mouse /\ to.mode = in.mode /\ to.paste = in.paste
      /\ to.lease = lease
  BY DEF HoldKey, WellFormed, InputFields
<1>2. /\ DOMAIN lease = DOMAIN in.lease \cup {key}
      /\ lease[key] \in Nat /\ (~explicit => lease[key] # 0)
      /\ \A k \in DOMAIN in.lease \ {key} : lease[k] = in.lease[k]
  BY InputStateConstants
<1> HIDE DEF lease
<1>3. WellFormed(to)
  BY <1>1, <1>2 DEF WellFormed, HoldsOK
<1>4. Lasting(to)
  <2>1. SUFFICES ASSUME NEW k \in to.held \ to.explicit  PROVE to.lease[k] # 0
    BY DEF Lasting
  <2>2. CASE k = key
    BY <1>1, <1>2, <2>2
  <2>3. CASE k # key
    <3>1. k \in in.held \ in.explicit /\ k \in DOMAIN in.lease
      BY <1>1, <2>3 DEF WellFormed, HoldsOK
    <3> QED  BY <1>1, <1>2, <2>3, <3>1 DEF Lasting
  <2> QED  BY <2>2, <2>3
<1> QED  BY <1>1, <1>3, <1>4 DEF Holding

LEMMA EmitKeyDownTwin ==
  ASSUME NEW a, NEW b, Twin(a, b), KeyTimeout # 0,
         NEW key, NEW codepoint, NEW modifiers, NEW repeat, NEW explicit, NEW text
  PROVE  Twin(EmitKeyDown(a, key, codepoint, modifiers, repeat, explicit, text),
              EmitKeyDown(b, key, codepoint, modifiers, repeat, explicit, text))
<1> DEFINE event(in) == [type |-> "down", key |-> key, codepoint |-> codepoint,
                         modifiers |-> modifiers, repeat |-> repeat \/ key \in in.held]
           mid(in)   == HoldKey(in, key, explicit)
           down(in)  == IF key \in Keys THEN QueueEvent(mid(in), event(in)) ELSE in
           types     == text /\ codepoint # 0 /\ modifiers \cap {"alt", "ctrl", "super"} = {}
<1>0. WellFormed(a) /\ Lasting(a) /\ WellFormed(b) /\ Lasting(b)
  BY DEF Twin, Alike
<1>1. event(a) = event(b)
  BY DEF Twin, Alike
<1>2. key \in Keys => Twin(mid(a), mid(b))
  <2>1. SUFFICES ASSUME key \in Keys  PROVE Twin(mid(a), mid(b))
    OBVIOUS
  <2>2. PICK c : c = HoldKey(a, key, explicit)
    OBVIOUS
  <2>0. PICK d : d = HoldKey(b, key, explicit)
    OBVIOUS
  <2>3. Holding(a, c, key, explicit)
    BY <1>0, <2>1, <2>2, HeldFields
  <2>4. Holding(b, d, key, explicit)
    BY <1>0, <2>0, <2>1, HeldFields
  <2>5. Twin(c, d)
    BY <2>3, <2>4 DEF Twin, Alike, Holding
  <2> QED  BY <2>0, <2>2, <2>5
<1> HIDE DEF event, mid
<1>3. Twin(down(a), down(b))
  <2>1. CASE key \in Keys
    BY <1>1, <1>2, <2>1, QueueTwin
  <2>2. CASE key \notin Keys
    BY <2>2
  <2> QED  BY <2>1, <2>2
<1>4. \A in : EmitKeyDown(in, key, codepoint, modifiers, repeat, explicit, text)
                = IF types THEN EmitText(down(in), codepoint) ELSE down(in)
  BY DEF EmitKeyDown, WithText, event, mid
<1> HIDE DEF down, types
<1>5. Twin(EmitText(down(a), codepoint), EmitText(down(b), codepoint))
  BY <1>3, EmitTextTwin
<1> QED  BY <1>3, <1>4, <1>5

LEMMA EmitKeyUpTwin ==
  ASSUME NEW a, NEW b, Twin(a, b), NEW key, NEW codepoint, NEW modifiers
  PROVE  Twin(EmitKeyUp(a, key, codepoint, modifiers), EmitKeyUp(b, key, codepoint, modifiers))
<1> DEFINE up(in) == [in EXCEPT !.held = @ \ {key}, !.released = @ \cup {key},
                        !.explicit = @ \ {key}, !.lease = Restrict(@, DOMAIN @ \ {key})]
           event  == [type |-> "up", key |-> key, codepoint |-> codepoint,
                      modifiers |-> modifiers, repeat |-> FALSE]
<1>1. \A in : EmitKeyUp(in, key, codepoint, modifiers)
                = IF key \in Keys THEN QueueEvent(up(in), event) ELSE in
  BY DEF EmitKeyUp
<1>2. ASSUME NEW in, WellFormed(in), Lasting(in), NEW to, to = up(in)
      PROVE  /\ WellFormed(to) /\ Lasting(to)
             /\ to.capacity = in.capacity /\ to.events = in.events /\ to.dropped = in.dropped
             /\ to.held = in.held \ {key} /\ to.buttons = in.buttons
             /\ to.explicit = in.explicit \ {key}
             /\ to.mouse = in.mouse /\ to.mode = in.mode /\ to.paste = in.paste
  <2>1. /\ DOMAIN to = InputFields /\ to.capacity = in.capacity /\ to.events = in.events
        /\ to.bytes = in.bytes /\ to.escape = in.escape /\ to.held = in.held \ {key}
        /\ to.explicit = in.explicit \ {key} /\ to.buttons = in.buttons
        /\ to.mouse = in.mouse /\ to.mode = in.mode /\ to.paste = in.paste
        /\ to.dropped = in.dropped
        /\ to.lease = [k \in DOMAIN in.lease \ {key} |-> in.lease[k]]
    BY <1>2 DEF WellFormed, InputFields, Restrict
  <2>2. WellFormed(to)
    BY <1>2, <2>1, ZenonT(60) DEF WellFormed, HoldsOK
  <2>3. Lasting(to)
    BY <1>2, <2>1 DEF WellFormed, HoldsOK, Lasting
  <2> QED  BY <2>1, <2>2, <2>3
<1> HIDE DEF up, event
<1>3. Twin(up(a), up(b))
  <2>1. PICK c, d : c = up(a) /\ d = up(b)
    OBVIOUS
  <2>2. WellFormed(a) /\ Lasting(a) /\ WellFormed(b) /\ Lasting(b)
    BY DEF Twin, Alike
  <2>3. /\ WellFormed(c) /\ Lasting(c)
        /\ c.capacity = a.capacity /\ c.events = a.events /\ c.dropped = a.dropped
        /\ c.held = a.held \ {key} /\ c.buttons = a.buttons
        /\ c.explicit = a.explicit \ {key}
        /\ c.mouse = a.mouse /\ c.mode = a.mode /\ c.paste = a.paste
    BY <1>2, <2>1, <2>2
  <2>4. /\ WellFormed(d) /\ Lasting(d)
        /\ d.capacity = b.capacity /\ d.events = b.events /\ d.dropped = b.dropped
        /\ d.held = b.held \ {key} /\ d.buttons = b.buttons
        /\ d.explicit = b.explicit \ {key}
        /\ d.mouse = b.mouse /\ d.mode = b.mode /\ d.paste = b.paste
    BY <1>2, <2>1, <2>2
  <2>5. Twin(c, d)
    BY <2>3, <2>4 DEF Twin, Alike
  <2> QED  BY <2>1, <2>5
<1> QED  BY <1>1, <1>3, QueueTwin

LEMMA EmitMouseButtonTwin ==
  ASSUME NEW a, NEW b, Twin(a, b), NEW button, NEW down \in BOOLEAN, NEW modifiers
  PROVE  Twin(EmitMouseButton(a, button, down, modifiers), EmitMouseButton(b, button, down, modifiers))
<1> DEFINE now(in)   == Switched(in.buttons, button, down)
           event(in) == [type |-> IF down THEN "mouse_down" ELSE "mouse_up", button |-> button,
                         position |-> in.mouse, modifiers |-> modifiers]
           mid(in)   == [in EXCEPT !.buttons = now(in)]
<1>1. \A in : EmitMouseButton(in, button, down, modifiers)
                = IF button \in Buttons THEN QueueEvent(mid(in), event(in)) ELSE in
  BY DEF EmitMouseButton
<1>2. event(a) = event(b)
  BY DEF Twin, Alike
<1>3. ASSUME button \in Buttons, NEW in, WellFormed(in), Lasting(in), NEW to, to = mid(in)
      PROVE  /\ WellFormed(to) /\ Lasting(to)
             /\ to.capacity = in.capacity /\ to.events = in.events /\ to.dropped = in.dropped
             /\ to.held = in.held /\ to.explicit = in.explicit
             /\ to.buttons.held = IF down THEN in.buttons.held \cup {button} ELSE in.buttons.held \ {button}
             /\ to.mouse = in.mouse /\ to.mode = in.mode /\ to.paste = in.paste
  <2>1. PICK buttons : buttons = now(in)
    OBVIOUS
  <2>2. /\ DOMAIN buttons = {"held", "pressed", "released"}
        /\ buttons.held = IF down THEN in.buttons.held \cup {button} ELSE in.buttons.held \ {button}
    BY <1>3, <2>1 DEF WellFormed, HoldsOK, Switched
  <2> HIDE DEF now
  <2>3. /\ DOMAIN to = InputFields /\ to.capacity = in.capacity /\ to.events = in.events
        /\ to.bytes = in.bytes /\ to.escape = in.escape /\ to.held = in.held
        /\ to.explicit = in.explicit /\ to.buttons = buttons
        /\ to.mouse = in.mouse /\ to.mode = in.mode /\ to.paste = in.paste
        /\ to.dropped = in.dropped /\ to.lease = in.lease
    BY <1>3, <2>1 DEF WellFormed, InputFields
  <2>4. WellFormed(to) /\ Lasting(to)
    BY <1>3, <2>2, <2>3 DEF WellFormed, HoldsOK, Lasting
  <2> QED  BY <2>2, <2>3, <2>4
<1> HIDE DEF event, mid
<1>4. button \in Buttons => Twin(mid(a), mid(b))
  <2>1. SUFFICES ASSUME button \in Buttons  PROVE Twin(mid(a), mid(b))
    OBVIOUS
  <2>2. PICK c, d : c = mid(a) /\ d = mid(b)
    OBVIOUS
  <2>3. WellFormed(a) /\ Lasting(a) /\ WellFormed(b) /\ Lasting(b)
    BY DEF Twin, Alike
  <2>4. /\ WellFormed(c) /\ Lasting(c)
        /\ c.capacity = a.capacity /\ c.events = a.events /\ c.dropped = a.dropped
        /\ c.held = a.held /\ c.explicit = a.explicit
        /\ c.buttons.held = IF down THEN a.buttons.held \cup {button} ELSE a.buttons.held \ {button}
        /\ c.mouse = a.mouse /\ c.mode = a.mode /\ c.paste = a.paste
    BY <1>3, <2>1, <2>2, <2>3
  <2>5. /\ WellFormed(d) /\ Lasting(d)
        /\ d.capacity = b.capacity /\ d.events = b.events /\ d.dropped = b.dropped
        /\ d.held = b.held /\ d.explicit = b.explicit
        /\ d.buttons.held = IF down THEN b.buttons.held \cup {button} ELSE b.buttons.held \ {button}
        /\ d.mouse = b.mouse /\ d.mode = b.mode /\ d.paste = b.paste
    BY <1>3, <2>1, <2>2, <2>3
  <2>6. Twin(c, d)
    BY <2>4, <2>5 DEF Twin, Alike
  <2> QED  BY <2>2, <2>6
<1> QED  BY <1>1, <1>2, <1>4, QueueTwin, SMTT(60)

LEMMA EmitMouseMoveTwin ==
  ASSUME NEW a, NEW b, Twin(a, b), NEW button, NEW modifiers
  PROVE  Twin(EmitMouseMove(a, button, modifiers), EmitMouseMove(b, button, modifiers))
<1> DEFINE event(in) == [type |-> "mouse_move", button |-> button,
                         position |-> in.mouse, modifiers |-> modifiers]
<1>1. event(a) = event(b)
  BY DEF Twin, Alike
<1>2. \A in : EmitMouseMove(in, button, modifiers) = QueueEvent(in, event(in))
  BY DEF EmitMouseMove
<1> HIDE DEF event
<1> QED  BY <1>1, <1>2, QueueTwin

LEMMA ReleaseMouseButtonsTwin ==
  ASSUME NEW a, NEW b, Twin(a, b), NEW modifiers
  PROVE  Twin(ReleaseMouseButtons(a, modifiers), ReleaseMouseButtons(b, modifiers))
<1> DEFINE Up(s, button) == IF button \in s.buttons.held
                            THEN EmitMouseButton(s, button, FALSE, modifiers) ELSE s
<1>1. ASSUME NEW s, NEW t, NEW button, Twin(s, t)
      PROVE  Twin(Up(s, button), Up(t, button))
  <2>1. button \in s.buttons.held <=> button \in t.buttons.held
    BY <1>1 DEF Twin, Alike
  <2>2. Twin(EmitMouseButton(s, button, FALSE, modifiers), EmitMouseButton(t, button, FALSE, modifiers))
    BY <1>1, EmitMouseButtonTwin
  <2> QED  BY <1>1, <2>1, <2>2
<1>2. \A in : ReleaseMouseButtons(in, modifiers)
        = Up(Up(Up(Up(Up(in, "left"), "middle"), "right"), "button4"), "button5")
  BY DEF ReleaseMouseButtons
<1> HIDE DEF Up
<1>3. Twin(Up(a, "left"), Up(b, "left"))
  BY <1>1, SMTT(60)
<1>4. Twin(Up(Up(a, "left"), "middle"), Up(Up(b, "left"), "middle"))
  BY <1>1, <1>3
<1>5. Twin(Up(Up(Up(a, "left"), "middle"), "right"), Up(Up(Up(b, "left"), "middle"), "right"))
  BY <1>1, <1>4
<1>6. Twin(Up(Up(Up(Up(a, "left"), "middle"), "right"), "button4"),
           Up(Up(Up(Up(b, "left"), "middle"), "right"), "button4"))
  BY <1>1, <1>5
<1>7. Twin(Up(Up(Up(Up(Up(a, "left"), "middle"), "right"), "button4"), "button5"),
           Up(Up(Up(Up(Up(b, "left"), "middle"), "right"), "button4"), "button5"))
  BY <1>1, <1>6
<1> QED  BY <1>2, <1>7

LEMMA ReleaseKeysTwin ==
  ASSUME NEW a, NEW b, Twin(a, b), NEW keys \in SUBSET Keys
  PROVE  Twin(ReleaseKeys(a, keys), ReleaseKeys(b, keys))
<1>1. PICK f : IsReleased(f, a, keys) /\ ReleaseKeys(a, keys) = f[keys]
  BY ReleaseKeysDef
<1>2. PICK g : IsReleased(g, b, keys) /\ ReleaseKeys(b, keys) = g[keys]
  BY ReleaseKeysDef
<1>3. \A some \in SUBSET keys : f[some] =
        IF some = {} THEN a ELSE EmitKeyUp(f[some \ {Max(some)}], Max(some), 0, {})
  BY <1>1, Zenon DEF IsReleased
<1>4. \A some \in SUBSET keys : g[some] =
        IF some = {} THEN b ELSE EmitKeyUp(g[some \ {Max(some)}], Max(some), 0, {})
  BY <1>2, Zenon DEF IsReleased
<1> DEFINE K == {k \in Nat : \A some \in SUBSET (keys \cap 1..k) : Twin(f[some], g[some])}
<1>5. 0 \in K
  <2>1. f[{}] = a /\ g[{}] = b
    BY <1>3, <1>4
  <2> QED  BY <2>1
<1>6. ASSUME NEW k \in Nat, k \in K  PROVE  k + 1 \in K
  <2>1. ASSUME NEW some \in SUBSET (keys \cap 1..k + 1)  PROVE Twin(f[some], g[some])
    <3>1. CASE k + 1 \notin some
      <4>1. some \in SUBSET (keys \cap 1..k)
        BY <3>1
      <4> QED  BY <1>6, <4>1
    <3>2. CASE k + 1 \in some
      <4>1. PICK less : less = some \ {k + 1}
        OBVIOUS
      <4>2. less \in SUBSET (keys \cap 1..k) /\ some \in SUBSET keys
        BY <3>2, <4>1
      <4>3. Twin(f[less], g[less])
        BY <1>6, <4>2
      <4>4. Max(some) = k + 1 /\ some # {}
        BY <3>2, MaxOf
      <4>5. f[some] = EmitKeyUp(f[less], k + 1, 0, {}) /\ g[some] = EmitKeyUp(g[less], k + 1, 0, {})
        BY <1>3, <1>4, <4>1, <4>2, <4>4
      <4> QED  BY <4>3, <4>5, EmitKeyUpTwin
    <3> QED  BY <3>1, <3>2
  <2> QED  BY <2>1
<1>7. \A k \in Nat : k \in K
  <2> HIDE DEF K
  <2> QED  BY <1>5, <1>6, Induction
<1>8. keys \in SUBSET (keys \cap 1..319)
  BY DEF Keys
<1>9. Twin(f[keys], g[keys])
  <2>1. 319 \in K
    BY <1>7
  <2> QED  BY <1>8, <2>1
<1> QED  BY <1>1, <1>2, <1>9

LEMMA ReleaseAllTwin ==
  ASSUME NEW a, NEW b, Twin(a, b)
  PROVE  Twin(ReleaseAll(a), ReleaseAll(b))
<1>1. a.held = b.held /\ a.held \in SUBSET Keys
  BY DEF Twin, Alike, WellFormed, HoldsOK
<1>2. Twin(ReleaseKeys(a, a.held), ReleaseKeys(b, b.held))
  BY <1>1, ReleaseKeysTwin
<1> QED  BY <1>2, ReleaseMouseButtonsTwin DEF ReleaseAll

\* The code releases no key as long as no lease has ended.
LEMMA NothingExpired ==
  ASSUME NEW in, WellFormed(in), Lasting(in)
  PROVE  ReleaseExpired(in) = in
<1>1. {key \in in.held \ in.explicit : in.lease[key] = 0} = {}
  BY DEF Lasting
<1>2. ReleaseKeys(in, {}) = in
  <2>1. {} \in SUBSET Keys
    OBVIOUS
  <2>2. PICK f : IsReleased(f, in, {}) /\ ReleaseKeys(in, {}) = f[{}]
    BY <2>1, ReleaseKeysDef
  <2>3. {} \in SUBSET {}
    OBVIOUS
  <2>4. \A some \in SUBSET {} : f[some] =
          IF some = {} THEN in ELSE EmitKeyUp(f[some \ {Max(some)}], Max(some), 0, {})
    BY <2>2, Zenon DEF IsReleased
  <2>5. f[{}] = in
    BY <2>3, <2>4, Zenon
  <2> QED  BY <2>2, <2>5
<1> QED  BY <1>1, <1>2 DEF ReleaseExpired

LEMMA EmitTextsDef ==
  ASSUME NEW in, NEW S, NEW text \in Seq(S)
  PROVE  \E f : IsTyped(f, in, text, 1..Len(text)) /\ FoldLeft(EmitText, in, text) = f[1..Len(text)]
<1> DEFINE f == CHOOSE f : IsTyped(f, in, text, DOMAIN text)
<1>0. Len(text) \in Nat /\ DOMAIN text = 1..Len(text)
  OBVIOUS
<1>1. IsTyped(f, in, text, 1..Len(text))
  <2>1. \E g : IsTyped(g, in, text, 1..Len(text))
    BY <1>0, TypedExists
  <2> QED  BY <1>0, <2>1, Zenon
<1>2. FoldLeft(EmitText, in, text) = f[1..Len(text)]
  BY <1>0 DEF FoldLeft, MapThenFoldSet, IsTyped
<1> QED  BY <1>1, <1>2

LEMMA EmitTextsTwin ==
  ASSUME NEW a, NEW b, Twin(a, b), NEW S, NEW text \in Seq(S)
  PROVE  Twin(FoldLeft(EmitText, a, text), FoldLeft(EmitText, b, text))
<1>0. Len(text) \in Nat
  OBVIOUS
<1>1. PICK f : IsTyped(f, a, text, 1..Len(text)) /\ FoldLeft(EmitText, a, text) = f[1..Len(text)]
  BY EmitTextsDef
<1>2. PICK g : IsTyped(g, b, text, 1..Len(text)) /\ FoldLeft(EmitText, b, text) = g[1..Len(text)]
  BY EmitTextsDef
<1>3. \A some \in SUBSET (1..Len(text)) : f[some] =
        IF some = {} THEN a ELSE EmitText(f[some \ {Max(some)}], text[Max(some)])
  BY <1>1, Zenon DEF IsTyped
<1>4. \A some \in SUBSET (1..Len(text)) : g[some] =
        IF some = {} THEN b ELSE EmitText(g[some \ {Max(some)}], text[Max(some)])
  BY <1>2, Zenon DEF IsTyped
<1> DEFINE K == {k \in Nat : k <= Len(text) => \A some \in SUBSET (1..k) : Twin(f[some], g[some])}
<1>5. 0 \in K
  <2>1. f[{}] = a /\ g[{}] = b
    <3>1. {} \in SUBSET (1..Len(text))
      OBVIOUS
    <3> QED  BY <1>3, <1>4, <3>1, Zenon
  <2>0. 1..0 = {}
    OBVIOUS
  <2> QED  BY <2>0, <2>1
<1>6. ASSUME NEW k \in Nat, k \in K  PROVE  k + 1 \in K
  <2>1. ASSUME k + 1 <= Len(text), NEW some \in SUBSET (1..k + 1)  PROVE Twin(f[some], g[some])
    <3>0. k <= Len(text) /\ 1..k + 1 \subseteq 1..Len(text)
      BY <1>0, <2>1
    <3>1. CASE k + 1 \notin some
      <4>1. some \in SUBSET (1..k)
        BY <3>1
      <4> QED  BY <1>6, <3>0, <4>1
    <3>2. CASE k + 1 \in some
      <4>1. PICK less : less = some \ {k + 1}
        OBVIOUS
      <4>2. less \in SUBSET (1..k) /\ some \in SUBSET (1..Len(text))
        BY <3>0, <3>2, <4>1
      <4>3. Twin(f[less], g[less])
        BY <1>6, <3>0, <4>2
      <4>4. Max(some) = k + 1 /\ some # {}
        BY <3>2, MaxOf
      <4>5. f[some] = EmitText(f[less], text[k + 1]) /\ g[some] = EmitText(g[less], text[k + 1])
        BY <1>3, <1>4, <4>1, <4>2, <4>4
      <4> QED  BY <4>3, <4>5, EmitTextTwin
    <3> QED  BY <3>1, <3>2
  <2> QED  BY <2>1
<1>7. \A k \in Nat : k \in K
  <2> HIDE DEF K
  <2> QED  BY <1>5, <1>6, Induction
<1>8. Twin(f[1..Len(text)], g[1..Len(text)])
  <2>1. Len(text) \in K
    BY <1>0, <1>7
  <2> QED  BY <1>0, <2>1
<1> QED  BY <1>1, <1>2, <1>8

LEMMA EmitPlainByteTwin ==
  ASSUME NEW a, NEW b, Twin(a, b), KeyTimeout # 0, NEW byte, NEW modifiers
  PROVE  Twin(EmitPlainByte(a, byte, modifiers), EmitPlainByte(b, byte, modifiers))
<1> DEFINE Key(in, key, codepoint, ctrl) ==
             EmitKeyDown(in, key, codepoint, modifiers \cup ctrl, FALSE, FALSE, codepoint # 0)
<1>1. \A key, codepoint, ctrl : Twin(Key(a, key, codepoint, ctrl), Key(b, key, codepoint, ctrl))
  BY EmitKeyDownTwin
<1>2. \A in : EmitPlainByte(in, byte, modifiers) =
        CASE byte \in {13, 10}   -> Key(in, 13, 0, {})
          [] byte = 9            -> Key(in, 9, 0, {})
          [] byte \in {127, 8}   -> Key(in, 8, 0, {})
          [] byte = 0            -> Key(in, 32, 0, {"ctrl"})
          [] byte \in ((1..26) \ {8, 9, 10, 13}) \cup (28..31) -> Key(in, 64 + byte, 0, {"ctrl"})
          [] byte \in 32..126    -> Key(in, KeyFromCodepoint(byte), byte, {})
          [] OTHER -> in
  BY DEF EmitPlainByte
<1> HIDE DEF Key
<1>3. PICK l, c, k : l = 64 + byte /\ c = KeyFromCodepoint(byte) /\ k = ((1..26) \ {8, 9, 10, 13}) \cup (28..31)
  OBVIOUS
<1> QED
  <2>1. CASE byte \in {13, 10}
    BY <1>1, <1>2, <2>1
  <2>2. CASE byte \notin {13, 10} /\ byte = 9
    BY <1>1, <1>2, <2>2
  <2>3. CASE byte \notin {13, 10, 9} /\ byte \in {127, 8}
    BY <1>1, <1>2, <2>3
  <2>4. CASE byte \notin {13, 10, 9, 127, 8} /\ byte = 0
    BY <1>1, <1>2, <2>4
  <2>5. CASE byte \notin {13, 10, 9, 127, 8, 0} /\ byte \in k
    BY <1>1, <1>2, <1>3, <2>5
  <2>6. CASE byte \notin {13, 10, 9, 127, 8, 0} \cup k /\ byte \in 32..126
    BY <1>1, <1>2, <1>3, <2>6
  <2>7. CASE byte \notin {13, 10, 9, 127, 8, 0} \cup k /\ byte \notin 32..126
    BY <1>2, <1>3, <2>7
  <2> QED  BY <2>1, <2>2, <2>3, <2>4, <2>5, <2>6, <2>7

LEMMA EmitProtocolKeyTwin ==
  ASSUME NEW a, NEW b, Twin(a, b), KeyTimeout # 0,
         NEW key, NEW codepoint, NEW modifiers, NEW event, NEW explicit
  PROVE  Twin(EmitProtocolKey(a, key, codepoint, modifiers, event, explicit),
              EmitProtocolKey(b, key, codepoint, modifiers, event, explicit))
BY EmitKeyDownTwin, EmitKeyUpTwin DEF EmitProtocolKey

LEMMA EmitReportTwin ==
  ASSUME NEW a, NEW b, Twin(a, b), KeyTimeout # 0, NEW c, NEW modifiers, NEW kind, NEW explicit,
         NEW S, NEW text \in Seq(S)
  PROVE  Twin(EmitReport(a, c, modifiers, kind, explicit, text), EmitReport(b, c, modifiers, kind, explicit, text))
<1> DEFINE mid(in) == EmitProtocolKey(in, KittyKey(c), KittyShown(c, text), modifiers, kind, explicit)
<1>1. Twin(mid(a), mid(b))
  BY EmitProtocolKeyTwin
<1>2. \A in : EmitReport(in, c, modifiers, kind, explicit, text) = FoldLeft(EmitText, mid(in), text)
  BY DEF EmitReport
<1> HIDE DEF mid
<1> QED  BY <1>1, <1>2, EmitTextsTwin

LEMMA EmitKittyTwin ==
  ASSUME NEW a, NEW b, Twin(a, b), KeyTimeout # 0, NEW c, NEW event, NEW S, NEW text \in Seq(S)
  PROVE  Twin(EmitKitty(a, c, event, text), EmitKitty(b, c, event, text))
<1> DEFINE typed == Len(event) = 2 /\ event[2] # <<>>
           kind  == IF typed THEN Number(event[2]) ELSE 1
           said  == IF kind = 3 THEN <<>> ELSE text
           explicit(in) == typed \/ in.mode = "explicit"
<1>1. said \in Seq(S)
  OBVIOUS
<1>2. explicit(a) = explicit(b)
  BY DEF Twin, Alike
<1>3. \A in : EmitKitty(in, c, event, text) =
        EmitReport(in, c, DecodeModifiers(IF event[1] = <<>> THEN 1 ELSE Number(event[1])), kind,
                   explicit(in), said)
  BY DEF EmitKitty
<1> HIDE DEF said, kind, typed, explicit
<1> QED  BY <1>1, <1>2, <1>3, EmitReportTwin

LEMMA HandleKittyReportTwin ==
  ASSUME NEW a, NEW b, Twin(a, b), KeyTimeout # 0, NEW payload \in Seq(0..255)
  PROVE  Twin(HandleKittyReport(a, payload), HandleKittyReport(b, payload))
<1>1. PICK fields : fields = KittyFields(payload)
  OBVIOUS
<1>2. PICK S : KittyText(fields) \in Seq(S)
  BY <1>1, KittyTextTyped
<1> DEFINE told(in) == EmitKitty(in, Number(fields[1][1]), KittyEvent(fields), KittyText(fields))
<1>3. \A in : HandleKittyReport(in, payload) = IF KittyValid(fields) THEN told(in) ELSE in
  BY <1>1, Zenon DEF HandleKittyReport, HandleFields
<1>4. Twin(told(a), told(b))
  BY <1>2, EmitKittyTwin
<1> HIDE DEF told
<1> QED  BY <1>3, <1>4

\* What no clock and no frame changes may be set to the same in both.
LEMMA AsideTwin ==
  ASSUME NEW a, NEW b, Twin(a, b), NEW x
  PROVE  /\ Twin([a EXCEPT !.mode = x], [b EXCEPT !.mode = x])
         /\ Twin([a EXCEPT !.mouse = x], [b EXCEPT !.mouse = x])
         /\ Twin([a EXCEPT !.paste = x], [b EXCEPT !.paste = x])
<1>1. ASSUME NEW in, WellFormed(in), Lasting(in), NEW to, DOMAIN to = InputFields,
             to.capacity = in.capacity, to.events = in.events, to.dropped = in.dropped,
             to.bytes = in.bytes, to.escape = in.escape, to.held = in.held,
             to.explicit = in.explicit, to.lease = in.lease, to.buttons = in.buttons
      PROVE  WellFormed(to) /\ Lasting(to)
  BY <1>1 DEF WellFormed, HoldsOK, Lasting
<1>2. WellFormed(a) /\ Lasting(a) /\ WellFormed(b) /\ Lasting(b)
  BY DEF Twin, Alike
<1>3. PICK c, d : c = [a EXCEPT !.mode = x] /\ d = [b EXCEPT !.mode = x]
  OBVIOUS
<1>4. PICK e, f : e = [a EXCEPT !.mouse = x] /\ f = [b EXCEPT !.mouse = x]
  OBVIOUS
<1>5. PICK g, h : g = [a EXCEPT !.paste = x] /\ h = [b EXCEPT !.paste = x]
  OBVIOUS
<1>6. WellFormed(c) /\ Lasting(c) /\ WellFormed(e) /\ Lasting(e) /\ WellFormed(g) /\ Lasting(g)
  <2>1. WellFormed(c) /\ Lasting(c)
    BY <1>1, <1>2, <1>3, ZenonT(60) DEF WellFormed, InputFields
  <2>2. WellFormed(e) /\ Lasting(e)
    BY <1>1, <1>2, <1>4, ZenonT(60) DEF WellFormed, InputFields
  <2>3. WellFormed(g) /\ Lasting(g)
    BY <1>1, <1>2, <1>5, ZenonT(60) DEF WellFormed, InputFields
  <2> QED  BY <2>1, <2>2, <2>3
<1>7. WellFormed(d) /\ Lasting(d) /\ WellFormed(f) /\ Lasting(f) /\ WellFormed(h) /\ Lasting(h)
  <2>1. WellFormed(d) /\ Lasting(d)
    BY <1>1, <1>2, <1>3, ZenonT(60) DEF WellFormed, InputFields
  <2>2. WellFormed(f) /\ Lasting(f)
    BY <1>1, <1>2, <1>4, ZenonT(60) DEF WellFormed, InputFields
  <2>3. WellFormed(h) /\ Lasting(h)
    BY <1>1, <1>2, <1>5, ZenonT(60) DEF WellFormed, InputFields
  <2> QED  BY <2>1, <2>2, <2>3
<1>8. Twin(c, d)
  BY <1>3, <1>6, <1>7 DEF Twin, Alike, WellFormed, InputFields
<1>9. Twin(e, f)
  BY <1>4, <1>6, <1>7 DEF Twin, Alike, WellFormed, InputFields
<1>10. Twin(g, h)
  BY <1>5, <1>6, <1>7 DEF Twin, Alike, WellFormed, InputFields
<1> QED  BY <1>3, <1>4, <1>5, <1>8, <1>9, <1>10

LEMMA HandleKeyboardTwin ==
  ASSUME NEW a, NEW b, Twin(a, b), KeyTimeout # 0, NEW payload \in Seq(0..255)
  PROVE  Twin(HandleKeyboard(a, payload), HandleKeyboard(b, payload))
<1>1. CASE KeyboardFlags(payload)
  <2>1. PICK mode : mode = LET flags == Number(Tail(payload))
                           IN IF Bit(flags, 2) /\ Bit(flags, 8) THEN "explicit" ELSE "synthetic"
    OBVIOUS
  <2>2. HandleKeyboard(a, payload) = [a EXCEPT !.mode = mode]
    BY <1>1, <2>1 DEF HandleKeyboard
  <2>3. HandleKeyboard(b, payload) = [b EXCEPT !.mode = mode]
    BY <1>1, <2>1 DEF HandleKeyboard
  <2>4. Twin([a EXCEPT !.mode = mode], [b EXCEPT !.mode = mode])
    BY AsideTwin
  <2> QED  BY <2>2, <2>3, <2>4
<1>2. CASE ~KeyboardFlags(payload)
  BY <1>2, HandleKittyReportTwin DEF HandleKeyboard
<1> QED  BY <1>1, <1>2

LEMMA HandleMouseTwin ==
  ASSUME NEW a, NEW b, Twin(a, b), NEW code, NEW column, NEW row, NEW release \in BOOLEAN, NEW legacy
  PROVE  Twin(HandleMouse(a, code, column, row, release, legacy),
              HandleMouse(b, code, column, row, release, legacy))
<1> DEFINE button     == MouseButton(code)
           modifiers  == MouseModifiers(code)
           motion     == Bit(code, 32)
           at         == <<column - 1, row - 1>>
           placed(in) == [in EXCEPT !.mouse = at]
           moves(in)  == motion \/ in.mouse # at
           moved(in)  == IF moves(in) THEN EmitMouseMove(placed(in), button, modifiers) ELSE placed(in)
           delta      == <<<<0, 1>>, <<0, -1>>, <<-1, 0>>, <<1, 0>>>>[(code % 4) + 1]
           wheel      == [type |-> "mouse_wheel", delta |-> delta]
           allUp      == (legacy /\ code % 4 = 3) \/ (release /\ button = "none")
<1>1. \A in : HandleMouse(in, code, column, row, release, legacy) =
        IF column = 0 \/ row = 0 THEN in
        ELSE IF Bit(code, 64) THEN QueueEvent(placed(in), wheel)
        ELSE IF allUp THEN ReleaseMouseButtons(moved(in), modifiers)
        ELSE IF release \/ ~motion THEN EmitMouseButton(moved(in), button, ~release, modifiers)
        ELSE moved(in)
  BY DEF HandleMouse
<1>2. moves(a) <=> moves(b)
  BY DEF Twin, Alike
<1>3. Twin(placed(a), placed(b))
  <2> HIDE DEF at
  <2> QED  BY AsideTwin
<1> HIDE DEF placed, moves, button, modifiers, motion, at, delta, wheel, allUp
<1>4. Twin(moved(a), moved(b))
  <2>1. CASE moves(a)
    BY <1>2, <1>3, <2>1, EmitMouseMoveTwin
  <2>2. CASE ~moves(a)
    BY <1>2, <1>3, <2>2
  <2> QED  BY <2>1, <2>2
<1> HIDE DEF moved
<1>5. Twin(QueueEvent(placed(a), wheel), QueueEvent(placed(b), wheel))
  BY <1>3, QueueTwin
<1>6. Twin(ReleaseMouseButtons(moved(a), modifiers), ReleaseMouseButtons(moved(b), modifiers))
  BY <1>4, ReleaseMouseButtonsTwin
<1>7. Twin(EmitMouseButton(moved(a), button, ~release, modifiers),
           EmitMouseButton(moved(b), button, ~release, modifiers))
  BY <1>4, EmitMouseButtonTwin
<1> QED  BY <1>1, <1>4, <1>5, <1>6, <1>7

LEMMA HandleSgrMouseTwin ==
  ASSUME NEW a, NEW b, Twin(a, b), NEW payload, NEW final
  PROVE  Twin(HandleSgrMouse(a, payload, final), HandleSgrMouse(b, payload, final))
<1>1. PICK p : p = Parameters(Tail(payload))
  OBVIOUS
<1>3. PICK release \in BOOLEAN : release = (final = 109)
  OBVIOUS
<1>4. PICK legacy : legacy = FALSE
  OBVIOUS
<1>2. \A in : HandleSgrMouse(in, payload, final) =
        IF ParametersValid(Tail(payload)) /\ Len(p) = 3
        THEN HandleMouse(in, p[1], p[2], p[3], release, legacy) ELSE in
  BY <1>1, <1>3, <1>4 DEF HandleSgrMouse
<1>5. Twin(HandleMouse(a, p[1], p[2], p[3], release, legacy),
           HandleMouse(b, p[1], p[2], p[3], release, legacy))
  BY HandleMouseTwin
<1> QED  BY <1>2, <1>5

LEMMA HandleLegacyKeyTwin ==
  ASSUME NEW a, NEW b, Twin(a, b), KeyTimeout # 0, NEW key, NEW p
  PROVE  Twin(HandleLegacyKey(a, key, p), HandleLegacyKey(b, key, p))
<1> DEFINE modifiers == IF Len(p) > 1 THEN DecodeModifiers(p[2]) ELSE {}
           event     == IF Len(p) > 2 /\ p[3] # 0 THEN p[3] ELSE 1
           explicit(in) == Len(p) > 2 \/ in.mode = "explicit"
<1>1. \A in : HandleLegacyKey(in, key, p) =
        IF event > 3 \/ key = 0 THEN in
        ELSE EmitProtocolKey(in, key, 0, modifiers, event, explicit(in))
  BY DEF HandleLegacyKey
<1>2. explicit(a) = explicit(b)
  BY DEF Twin, Alike
<1> HIDE DEF modifiers, event, explicit
<1>3. Twin(EmitProtocolKey(a, key, 0, modifiers, event, explicit(a)),
           EmitProtocolKey(b, key, 0, modifiers, event, explicit(b)))
  BY <1>2, EmitProtocolKeyTwin
<1> QED  BY <1>1, <1>3

LEMMA HandleTildeTwin ==
  ASSUME NEW a, NEW b, Twin(a, b), KeyTimeout # 0, NEW p
  PROVE  Twin(HandleTilde(a, p), HandleTilde(b, p))
<1>1. PICK yes, no : yes = TRUE /\ no = FALSE
  OBVIOUS
<1> DEFINE pasting(in, now) == [in EXCEPT !.paste = now]
           begun(in)  == QueueEvent(pasting(in, yes), [type |-> "paste_begin"])
           ended(in)  == QueueEvent(pasting(in, no), [type |-> "paste_end"])
           third(in)  == EmitProtocolKey(in, KeyFromCodepoint(p[3]), p[3], DecodeModifiers(p[2]), 1, no)
           legacy(in) == HandleLegacyKey(in, TildeKey(p[1]), p)
<1>2. \A in : HandleTilde(in, p) =
          IF p[1] = 200 THEN begun(in)
          ELSE IF p[1] = 201 THEN ended(in)
          ELSE IF p[1] = 27 /\ Len(p) >= 3 THEN (IF CodepointValid(p[3]) THEN third(in) ELSE in)
          ELSE legacy(in)
  <2>1. CASE p[1] = 200
    BY <1>1, <2>1 DEF HandleTilde
  <2>2. CASE p[1] = 201
    <3>1. p[1] # 200
      BY <2>2
    <3>2. \A in : HandleTilde(in, p) = QueueEvent([in EXCEPT !.paste = FALSE], [type |-> "paste_end"])
      BY <2>2, <3>1 DEF HandleTilde
    <3>3. \A in : [in EXCEPT !.paste = FALSE] = pasting(in, no)
      BY <1>1
    <3>4. \A in : HandleTilde(in, p) = ended(in)
      BY Zenon, <3>2, <3>3
    <3> HIDE DEF begun, ended, third, legacy
    <3> QED  BY <2>2, <3>1, <3>4
  <2>3. CASE p[1] # 200 /\ p[1] # 201 /\ p[1] = 27 /\ Len(p) >= 3
    BY <1>1, <2>3 DEF HandleTilde
  <2>4. CASE p[1] # 200 /\ p[1] # 201 /\ ~(p[1] = 27 /\ Len(p) >= 3)
    BY <1>1, <2>4, ZenonT(60) DEF HandleTilde
  <2> QED  BY <2>1, <2>2, <2>3, <2>4
<1>3. Twin(pasting(a, yes), pasting(b, yes)) /\ Twin(pasting(a, no), pasting(b, no))
  BY AsideTwin
<1> HIDE DEF pasting
<1>4. Twin(begun(a), begun(b)) /\ Twin(ended(a), ended(b))
  BY <1>3, QueueTwin
<1>5. Twin(third(a), third(b)) /\ Twin(legacy(a), legacy(b))
  BY EmitProtocolKeyTwin, HandleLegacyKeyTwin
<1> HIDE DEF begun, ended, third, legacy
<1> QED  BY <1>2, <1>4, <1>5

LEMMA HandleParametersTwin ==
  ASSUME NEW a, NEW b, Twin(a, b), KeyTimeout # 0, NEW p, NEW final
  PROVE  Twin(HandleParameters(a, p, final), HandleParameters(b, p, final))
<1> DEFINE gained(in) == QueueEvent(in, [type |-> "focus_in"])
           lost(in)   == ReleaseAll(QueueEvent(in, [type |-> "focus_out"]))
           back(in)   == EmitProtocolKey(in, 9, 0, {"shift"}, 1, FALSE)
<1>1. \A in : HandleParameters(in, p, final) =
        CASE final = 73 /\ p = <<>>  -> gained(in)
          [] final = 79 /\ p = <<>>  -> lost(in)
          [] final = 90              -> back(in)
          [] final = 126 /\ p # <<>> -> HandleTilde(in, p)
          [] OTHER                   -> HandleLegacyKey(in, FinalKey(final), p)
  BY DEF HandleParameters
<1>2. Twin(gained(a), gained(b))
  BY QueueTwin
<1>3. Twin(lost(a), lost(b))
  BY QueueTwin, ReleaseAllTwin
<1>4. Twin(back(a), back(b))
  BY EmitProtocolKeyTwin
<1>5. Twin(HandleTilde(a, p), HandleTilde(b, p))
      /\ Twin(HandleLegacyKey(a, FinalKey(final), p), HandleLegacyKey(b, FinalKey(final), p))
  BY HandleTildeTwin, HandleLegacyKeyTwin
<1> HIDE DEF gained, lost, back
<1> QED  BY <1>1, <1>2, <1>3, <1>4, <1>5

LEMMA HandleCsiTwin ==
  ASSUME NEW a, NEW b, Twin(a, b), KeyTimeout # 0, NEW payload \in Seq(0..255), NEW final
  PROVE  Twin(HandleCsi(a, payload, final), HandleCsi(b, payload, final))
<1>1. \A in : HandleCsi(in, payload, final) =
        CASE final = 117 /\ payload # <<>> -> HandleKeyboard(in, payload)
          [] final \in {77, 109} /\ payload # <<>> /\ payload[1] = Less ->
               HandleSgrMouse(in, payload, final)
          [] OTHER -> IF ParametersValid(payload)
                      THEN HandleParameters(in, Parameters(payload), final) ELSE in
  BY DEF HandleCsi
<1>2. Twin(HandleKeyboard(a, payload), HandleKeyboard(b, payload))
  BY HandleKeyboardTwin
<1>3. Twin(HandleSgrMouse(a, payload, final), HandleSgrMouse(b, payload, final))
  BY HandleSgrMouseTwin
<1>4. Twin(HandleParameters(a, Parameters(payload), final), HandleParameters(b, Parameters(payload), final))
  BY HandleParametersTwin
<1> QED  BY <1>1, <1>2, <1>3, <1>4

LEMMA HandleSs3Twin ==
  ASSUME NEW a, NEW b, Twin(a, b), KeyTimeout # 0, NEW final
  PROVE  Twin(HandleSs3(a, final), HandleSs3(b, final))
BY EmitKeyDownTwin DEF HandleSs3

LEMMA EmitEscapeTwin ==
  ASSUME NEW a, NEW b, Twin(a, b), KeyTimeout # 0
  PROVE  Twin(EmitEscape(a), EmitEscape(b))
BY EmitKeyDownTwin DEF EmitEscape

-----------------------------------------------------------------------------
(* What more bytes change of an attempt.                                    *)

\* y begins with x.
Longer(x, y) ==
  /\ x \in Seq(0..255) /\ y \in Seq(0..255) /\ Len(x) <= Len(y)
  /\ \A i \in 1..Len(x) : y[i] = x[i]

\* The deadline of what it holds has not come.
Running(in) == EscapeTimeout # 0 /\ in.escape # 0

\* p is an attempt of a, and q one of its twin that was given more: the same when p was
\* complete, and nothing has happened when it was not.
Extends(a, p, q) ==
  /\ p.consumed # 0 => q.consumed = p.consumed /\ Twin(p.in, q.in)
  /\ p.consumed = 0 => Twin(a, p.in) /\ (Running(a) => Running(p.in))

LEMMA CompleteExtends ==
  ASSUME NEW a, NEW c, NEW d, Twin(c, d), NEW n \in Nat \ {0}
  PROVE  Extends(a, Complete(c, n), Complete(d, n))
BY DEF Extends, Complete

LEMMA IncompleteExtends ==
  ASSUME NEW a, NEW b, Twin(a, b), NEW q
  PROVE  Extends(a, Incomplete(a), q)
<1>1. Twin(a, a)
  BY TwinItself
<1> QED  BY <1>1 DEF Extends, Incomplete

LEMMA MarkEscapeTwin ==
  ASSUME NEW a, NEW b, Twin(a, b)
  PROVE  Twin(a, MarkEscape(a)) /\ (Running(a) => Running(MarkEscape(a)))
<1>1. PICK left : left = IF a.escape = NotPending THEN EscapeTimeout ELSE a.escape
  OBVIOUS
<1>2. PICK to : to = MarkEscape(a)
  OBVIOUS
<1>3. to = [a EXCEPT !.escape = left]
  BY <1>1, <1>2 DEF MarkEscape
<1>4. WellFormed(a) /\ WellFormed(to) /\ Lasting(a)
  BY <1>2, MarkEscapeStays DEF Twin, Alike, Stays
<1>5. Lasting(to)
  BY <1>3, <1>4 DEF Lasting, WellFormed, InputFields
<1>6. Twin(a, to)
  BY <1>3, <1>4, <1>5 DEF Twin, Alike, WellFormed, InputFields
<1>7. Running(a) => Running(to)
  <2>1. to.escape = left
    BY <1>3, <1>4 DEF WellFormed, InputFields
  <2> QED  BY <1>1, <2>1 DEF Running
<1> QED  BY <1>2, <1>6, <1>7

LEMMA WaitExtends ==
  ASSUME NEW a, NEW b, Twin(a, b), NEW q
  PROVE  Extends(a, Wait(a), q)
<1>1. Twin(a, MarkEscape(a)) /\ (Running(a) => Running(MarkEscape(a)))
  BY MarkEscapeTwin
<1> QED  BY <1>1 DEF Extends, Wait, Incomplete

LEMMA LongerPart ==
  ASSUME NEW x, NEW y, Longer(x, y), NEW m \in Nat \ {0}, NEW n \in Int, n <= Len(x)
  PROVE  SubSeq(y, m, n) = SubSeq(x, m, n) /\ SubSeq(x, m, n) \in Seq(0..255)
<1>1. PICK k, l \in Nat : k = Len(x) /\ l = Len(y) /\ k <= l /\ n <= k
  BY DEF Longer
<1>2. \A i \in m..n : i \in 1..k
  BY <1>1
<1>3. \A i \in m..n : x[i] \in 0..255 /\ y[i] = x[i]
  BY <1>1, <1>2, ElementOfSeq, ZenonT(60) DEF Longer
<1>4. /\ SubSeq(x, m, n) \in Seq(0..255)
      /\ Len(SubSeq(x, m, n)) = IF m <= n THEN n - m + 1 ELSE 0
      /\ \A i \in 1..n - m + 1 : SubSeq(x, m, n)[i] = x[m + i - 1]
  BY <1>3, SubSeqProperties
<1>5. /\ SubSeq(y, m, n) \in Seq(0..255)
      /\ Len(SubSeq(y, m, n)) = IF m <= n THEN n - m + 1 ELSE 0
      /\ \A i \in 1..n - m + 1 : SubSeq(y, m, n)[i] = y[m + i - 1]
  <2>1. \A i \in m..n : y[i] \in 0..255
    BY <1>3
  <2> QED  BY <2>1, SubSeqProperties
<1>6. PICK u, v : u = SubSeq(x, m, n) /\ v = SubSeq(y, m, n)
  OBVIOUS
<1>7. \A i \in 1..Len(u) : u[i] = v[i]
  <2>1. SUFFICES ASSUME NEW i \in 1..Len(u)  PROVE u[i] = v[i]
    OBVIOUS
  <2>2. i \in 1..n - m + 1 /\ m + i - 1 \in m..n
    BY <1>4, <1>6, <2>1
  <2>3. u[i] = x[m + i - 1] /\ v[i] = y[m + i - 1]
    BY <1>4, <1>5, <1>6, <2>2
  <2> QED  BY <1>3, <2>2, <2>3
<1>8. u = v
  BY <1>4, <1>5, <1>6, <1>7, SeqEqual, ZenonT(60)
<1> QED  BY <1>4, <1>6, <1>8

LEMMA DecodeUtf8Extends ==
  ASSUME NEW x, NEW y, Longer(x, y), x # <<>>, DecodeUtf8(x).result # "incomplete"
  PROVE  DecodeUtf8(y) = DecodeUtf8(x)
<1>1. PICK k, l \in Nat : k = Len(x) /\ l = Len(y) /\ k <= l /\ k # 0
  BY DEF Longer
<1>2. y[1] = x[1]
  BY <1>1 DEF Longer
<1>3. x[1] \in 0..255
  BY <1>1, ElementOfSeq, SMTT(60) DEF Longer
<1>4. PICK n \in 0..4 : n = Needed(x[1])
  BY <1>3 DEF Needed
<1> DEFINE code(s) == FoldLeft(LAMBDA c, b : 64 * c + (b % 64), LeadBits(s[1]), SubSeq(s, 2, n))
           good(s) == (\A i \in 2..n : s[i] \in 128..191) /\ code(s) >= Minimum(n)
                        /\ CodepointValid(code(s))
           whole(s) == [result |-> "complete", codepoint |-> code(s), consumed |-> n]
<1>5. \A s : Needed(s[1]) = n => DecodeUtf8(s) =
        CASE n = 0      -> [result |-> "invalid"]
          [] n > Len(s) -> [result |-> "incomplete"]
          [] OTHER -> IF good(s) THEN whole(s) ELSE [result |-> "invalid"]
  <2>1. SUFFICES ASSUME NEW s, Needed(s[1]) = n
                 PROVE  DecodeUtf8(s) =
                          CASE n = 0      -> [result |-> "invalid"]
                            [] n > Len(s) -> [result |-> "incomplete"]
                            [] OTHER -> IF good(s) THEN whole(s) ELSE [result |-> "invalid"]
    BY Zenon
  <2> QED  BY <2>1, ZenonT(60) DEF DecodeUtf8
<1>6. n <= Len(x) => SubSeq(y, 2, n) = SubSeq(x, 2, n)
  BY LongerPart
<1>7. n <= Len(x) => code(x) = code(y)
  BY <1>2, <1>6
<1>8. n <= Len(x) => (good(x) <=> good(y)) /\ whole(x) = whole(y)
  <2>1. n <= Len(x) => \A i \in 2..n : x[i] = y[i]
    BY <1>1 DEF Longer
  <2> HIDE DEF code
  <2> QED  BY <1>7, <2>1, ZenonT(60)
<1> HIDE DEF code, good, whole
<1>9. Needed(x[1]) = n /\ Needed(y[1]) = n
  BY <1>2, <1>4
<1>10. n # 0 => n <= Len(x)
  <2>1. SUFFICES ASSUME n # 0, n > Len(x)  PROVE FALSE
    BY <1>1
  <2> QED  BY <1>5, <1>9, <2>1
<1>11. CASE n = 0
  BY <1>5, <1>9, <1>11
<1>12. CASE n # 0
  <2>1. ~(n > Len(x)) /\ ~(n > Len(y))
    BY <1>1, <1>10, <1>12
  <2>2. DecodeUtf8(x) = (IF good(x) THEN whole(x) ELSE [result |-> "invalid"])
    BY <1>5, <1>9, <1>12, <2>1
  <2>3. DecodeUtf8(y) = (IF good(y) THEN whole(y) ELSE [result |-> "invalid"])
    BY <1>5, <1>9, <1>12, <2>1
  <2> QED  BY <1>8, <1>10, <1>12, <2>2, <2>3
<1> QED  BY <1>11, <1>12

LEMMA ParsePlainExtends ==
  ASSUME NEW a, NEW b, Twin(a, b), KeyTimeout # 0, NEW x, NEW y, Longer(x, y), NEW modifiers,
         NEW force \in BOOLEAN, ~force
  PROVE  Extends(a, ParsePlain(a, x, modifiers, force), ParsePlain(b, y, modifiers, force))
<1>1. CASE x = <<>>
  <2>1. ParsePlain(a, x, modifiers, force) = Incomplete(a)
    BY <1>1 DEF ParsePlain
  <2> QED  BY <2>1, IncompleteExtends
<1>2. x # <<>> => y # <<>> /\ y[1] = x[1]
  BY DEF Longer
<1>3. CASE x # <<>> /\ x[1] <= 127
  <2>1. ParsePlain(a, x, modifiers, force) = Complete(EmitPlainByte(a, x[1], modifiers), 1)
    BY <1>3 DEF ParsePlain
  <2>2. ParsePlain(b, y, modifiers, force) = Complete(EmitPlainByte(b, x[1], modifiers), 1)
    BY <1>2, <1>3 DEF ParsePlain
  <2>3. Twin(EmitPlainByte(a, x[1], modifiers), EmitPlainByte(b, x[1], modifiers))
    BY EmitPlainByteTwin
  <2> QED  BY <2>1, <2>2, <2>3, CompleteExtends
<1>4. CASE x # <<>> /\ ~(x[1] <= 127)
  <2> DEFINE utf8(s)   == DecodeUtf8(s)
             to(in, s) == EmitKeyDown(in, 0, Decoded(utf8(s)), modifiers, FALSE, FALSE, TRUE)
  <2>1. \A in, s : s # <<>> /\ ~(s[1] <= 127) =>
          ParsePlain(in, s, modifiers, force) =
            IF utf8(s).result = "incomplete" THEN Incomplete(in) ELSE Complete(to(in, s), Consumed(utf8(s)))
    BY DEF ParsePlain
  <2>2. Twin(to(a, x), to(b, x))
    BY EmitKeyDownTwin
  <2>3. utf8(x).result # "incomplete" => utf8(y) = utf8(x)
    BY <1>4, DecodeUtf8Extends
  <2>4. Consumed(utf8(x)) \in Nat \ {0}
    <3>1. Consumed(utf8(x)) \in 1..Len(x) /\ Len(x) \in Nat
      BY <1>4, DecodedWhole DEF Longer
    <3> HIDE DEF utf8
    <3> QED  BY <3>1
  <2>5. CASE utf8(x).result = "incomplete"
    <3>1. ParsePlain(a, x, modifiers, force) = Incomplete(a)
      BY <1>4, <2>1, <2>5
    <3> QED  BY <3>1, IncompleteExtends
  <2>6. CASE utf8(x).result # "incomplete"
    <3>1. to(b, y) = to(b, x)
      BY <2>3, <2>6
    <3> HIDE DEF to, utf8
    <3>2. ParsePlain(a, x, modifiers, force) = Complete(to(a, x), Consumed(utf8(x)))
      BY <1>4, <2>1, <2>6
    <3>3. ParsePlain(b, y, modifiers, force) = Complete(to(b, x), Consumed(utf8(x)))
      BY <1>2, <1>4, <2>1, <2>3, <2>6, <3>1
    <3> QED  BY <2>2, <2>4, <3>2, <3>3, CompleteExtends
  <2> QED  BY <2>5, <2>6
<1> QED  BY <1>1, <1>3, <1>4

LEMMA ParsePasteExtends ==
  ASSUME NEW a, NEW b, Twin(a, b), NEW x, NEW y, Longer(x, y), x # <<>>,
         NEW force \in BOOLEAN, ~force
  PROVE  Extends(a, ParsePaste(a, x, force), ParsePaste(b, y, force))
<1>1. PICK no : no = FALSE
  OBVIOUS
<1> DEFINE utf8(s)   == DecodeUtf8(s)
           over(in)  == [in EXCEPT !.paste = no]
           ended(in) == QueueEvent(over(in), [type |-> "paste_end"])
           typed(in, s) == EmitText(in, Decoded(utf8(s)))
<1>2. \A in, s : ParsePaste(in, s, force) =
        IF IsPrefix(PasteEnd, s) THEN Complete(ended(in), 6)
        ELSE IF IsPrefix(s, PasteEnd) \/ utf8(s).result = "incomplete" THEN Incomplete(in)
        ELSE Complete(typed(in, s), Consumed(utf8(s)))
  BY <1>1 DEF ParsePaste
<1>3. Twin(ended(a), ended(b))
  <2>1. Twin(over(a), over(b))
    BY AsideTwin
  <2> HIDE DEF over
  <2> QED  BY <2>1, QueueTwin
<1>4. Twin(typed(a, x), typed(b, x))
  BY EmitTextTwin
<1>5. utf8(x).result # "incomplete" => utf8(y) = utf8(x)
  BY DecodeUtf8Extends
<1>6. Consumed(utf8(x)) \in Nat \ {0}
  <2>1. Consumed(utf8(x)) \in 1..Len(x) /\ Len(x) \in Nat
    BY DecodedWhole DEF Longer
  <2> HIDE DEF utf8
  <2> QED  BY <2>1
<1>7. PICK k, l \in Nat : k = Len(x) /\ l = Len(y) /\ k <= l
  BY DEF Longer
<1>8. Len(PasteEnd) = 6 /\ PasteEnd \in Seq(0..255)
  BY DEF PasteEnd, Esc, Bracket
<1>9. IsPrefix(PasteEnd, x) => IsPrefix(PasteEnd, y)
  <2>1. SUFFICES ASSUME IsPrefix(PasteEnd, x)  PROVE IsPrefix(PasteEnd, y)
    OBVIOUS
  <2>2. 6 <= k /\ SubSeq(PasteEnd, 1, 6) = SubSeq(x, 1, 6)
    BY <1>7, <1>8, <2>1 DEF IsPrefix
  <2>3. SubSeq(y, 1, 6) = SubSeq(x, 1, 6)
    <3>1. PICK n \in Nat : n = 6 /\ n <= Len(x)
      BY <1>7, <2>2
    <3>2. SubSeq(y, 1, n) = SubSeq(x, 1, n)
      BY <3>1, LongerPart
    <3> QED  BY <3>1, <3>2
  <2> QED  BY <1>7, <1>8, <2>2, <2>3 DEF IsPrefix
<1>10. IsPrefix(PasteEnd, y) => IsPrefix(PasteEnd, x) \/ IsPrefix(x, PasteEnd)
  <2>1. SUFFICES ASSUME IsPrefix(PasteEnd, y)  PROVE IsPrefix(PasteEnd, x) \/ IsPrefix(x, PasteEnd)
    OBVIOUS
  <2>2. 6 <= l /\ SubSeq(PasteEnd, 1, 6) = SubSeq(y, 1, 6)
    BY <1>7, <1>8, <2>1 DEF IsPrefix
  <2>3. CASE 6 <= k
    <3>1. SubSeq(y, 1, 6) = SubSeq(x, 1, 6)
      <4>1. PICK n \in Nat : n = 6 /\ n <= Len(x)
        BY <1>7, <2>3
      <4>2. SubSeq(y, 1, n) = SubSeq(x, 1, n)
        BY <4>1, LongerPart
      <4> QED  BY <4>1, <4>2
    <3> QED  BY <1>7, <1>8, <2>2, <2>3, <3>1 DEF IsPrefix
  <2>4. CASE ~(6 <= k)
    <3>1. SubSeq(y, 1, k) = SubSeq(x, 1, k)
      BY <1>7, LongerPart, SMTT(60)
    <3>2. Longer(PasteEnd, y)
      <4>1. Longer(SubSeq(y, 1, 6), y) /\ PasteEnd = SubSeq(PasteEnd, 1, 6)
        BY <1>7, <1>8, <2>2 DEF Longer
      <4> QED  BY <2>2, <4>1
    <3>3. SubSeq(y, 1, k) = SubSeq(PasteEnd, 1, k)
      <4>1. k <= Len(PasteEnd)
        BY <1>7, <1>8, <2>4
      <4> QED  BY <1>7, <3>2, <4>1, LongerPart, SMTT(60)
    <3> QED  BY <1>7, <1>8, <2>4, <3>1, <3>3 DEF IsPrefix
  <2> QED  BY <2>3, <2>4
<1>11. IsPrefix(y, PasteEnd) => IsPrefix(x, PasteEnd)
  <2>1. SUFFICES ASSUME IsPrefix(y, PasteEnd)  PROVE IsPrefix(x, PasteEnd)
    OBVIOUS
  <2>2. l <= 6 /\ SubSeq(y, 1, l) = SubSeq(PasteEnd, 1, l)
    BY <1>7, <1>8, <2>1 DEF IsPrefix
  <2>3. y = SubSeq(y, 1, l)
    BY <1>7 DEF Longer
  <2>4. Longer(y, PasteEnd)
    <3>1. \A i \in 1..l : i \in 1..Len(PasteEnd) /\ PasteEnd[i] \in 0..255
      <4>1. \A i \in 1..l : i \in 1..Len(PasteEnd)
        BY <1>7, <1>8, <2>2
      <4> QED  BY <1>8, <4>1, ElementOfSeq, ZenonT(60)
    <3>2. \A i \in 1..l - 1 + 1 : SubSeq(PasteEnd, 1, l)[i] = PasteEnd[1 + i - 1]
      BY <1>7, <3>1, SubSeqProperties
    <3>3. \A i \in 1..l : y[i] = PasteEnd[i]
      <4>1. \A i \in 1..l : i \in 1..l - 1 + 1 /\ 1 + i - 1 = i
        BY <1>7
      <4> QED  BY <2>2, <2>3, <3>2, <4>1
    <3>4. y \in Seq(0..255)
      BY DEF Longer
    <3> QED  BY <1>7, <1>8, <2>2, <3>3, <3>4 DEF Longer
  <2>5. SubSeq(y, 1, k) = SubSeq(x, 1, k)
    BY <1>7, LongerPart
  <2>6. SubSeq(PasteEnd, 1, k) = SubSeq(y, 1, k)
    BY <1>7, <2>4, LongerPart, SMTT(60)
  <2> QED  BY <1>7, <1>8, <2>2, <2>5, <2>6 DEF IsPrefix
<1>12. CASE IsPrefix(PasteEnd, x)
  <2> HIDE DEF ended
  <2>1. ParsePaste(a, x, force) = Complete(ended(a), 6)
    BY <1>2, <1>12
  <2>2. ParsePaste(b, y, force) = Complete(ended(b), 6)
    BY <1>2, <1>9, <1>12
  <2> QED  BY <1>3, <2>1, <2>2, CompleteExtends
<1>13. CASE ~IsPrefix(PasteEnd, x) /\ (IsPrefix(x, PasteEnd) \/ utf8(x).result = "incomplete")
  <2>1. ParsePaste(a, x, force) = Incomplete(a)
    BY <1>2, <1>13
  <2> QED  BY <2>1, IncompleteExtends
<1>14. CASE ~IsPrefix(PasteEnd, x) /\ ~(IsPrefix(x, PasteEnd) \/ utf8(x).result = "incomplete")
  <2>1. typed(b, y) = typed(b, x)
    BY <1>5, <1>14
  <2> HIDE DEF typed, utf8, ended
  <2>2. ParsePaste(a, x, force) = Complete(typed(a, x), Consumed(utf8(x)))
    BY <1>2, <1>14
  <2>3. ParsePaste(b, y, force) = Complete(typed(b, x), Consumed(utf8(x)))
    BY <1>2, <1>5, <1>10, <1>11, <1>14, <2>1
  <2> QED  BY <1>4, <1>6, <2>2, <2>3, CompleteExtends
<1> QED  BY <1>12, <1>13, <1>14

LEMMA ParseLegacyMouseExtends ==
  ASSUME NEW a, NEW b, Twin(a, b), NEW x, NEW y, Longer(x, y), NEW force \in BOOLEAN, ~force
  PROVE  Extends(a, ParseLegacyMouse(a, x, force), ParseLegacyMouse(b, y, force))
<1>1. PICK k, l \in Nat : k = Len(x) /\ l = Len(y) /\ k <= l
  BY DEF Longer
<1>2. PICK no \in BOOLEAN : no = FALSE
  OBVIOUS
<1>3. PICK yes : yes = TRUE
  OBVIOUS
<1> DEFINE valid(s)  == s[4] >= 32 /\ s[5] >= 33 /\ s[6] >= 33
           to(in, s) == IF valid(s) THEN HandleMouse(in, s[4] - 32, s[5] - 32, s[6] - 32, no, yes) ELSE in
<1>4. \A in, s : ParseLegacyMouse(in, s, force) = IF Len(s) < 6 THEN Wait(in) ELSE Complete(to(in, s), 6)
  BY <1>2, <1>3, ZenonT(60) DEF ParseLegacyMouse, WaitOrDefer
<1>5. Twin(to(a, x), to(b, x))
  BY HandleMouseTwin
<1>6. CASE k < 6
  <2>1. ParseLegacyMouse(a, x, force) = Wait(a)
    BY <1>1, <1>4, <1>6
  <2> QED  BY <2>1, WaitExtends
<1>7. CASE ~(k < 6)
  <2>1. y[4] = x[4] /\ y[5] = x[5] /\ y[6] = x[6]
    BY <1>1, <1>7 DEF Longer
  <2>2. to(b, y) = to(b, x)
    BY <2>1
  <2> HIDE DEF to
  <2>3. ParseLegacyMouse(a, x, force) = Complete(to(a, x), 6)
    BY <1>1, <1>4, <1>7
  <2>4. ParseLegacyMouse(b, y, force) = Complete(to(b, x), 6)
    <3>1. ~(Len(y) < 6)
      BY <1>1, <1>7
    <3> QED  BY <1>4, <2>2, <3>1
  <2> QED  BY <1>5, <2>3, <2>4, CompleteExtends
<1> QED  BY <1>6, <1>7

LEMMA ParseSs3Extends ==
  ASSUME NEW a, NEW b, Twin(a, b), KeyTimeout # 0, NEW x, NEW y, Longer(x, y),
         NEW force \in BOOLEAN, ~force
  PROVE  Extends(a, ParseSs3(a, x, force), ParseSs3(b, y, force))
<1>1. PICK k, l \in Nat : k = Len(x) /\ l = Len(y) /\ k <= l
  BY DEF Longer
<1>2. \A in, s : ParseSs3(in, s, force) = IF Len(s) < 3 THEN Wait(in) ELSE Complete(HandleSs3(in, s[3]), 3)
  BY DEF ParseSs3, WaitOrDefer
<1>3. Twin(HandleSs3(a, x[3]), HandleSs3(b, x[3]))
  BY HandleSs3Twin
<1>4. CASE k < 3
  <2>1. ParseSs3(a, x, force) = Wait(a)
    BY <1>1, <1>2, <1>4
  <2> QED  BY <2>1, WaitExtends
<1>5. CASE ~(k < 3)
  <2>1. y[3] = x[3] /\ ~(Len(x) < 3) /\ ~(Len(y) < 3)
    BY <1>1, <1>5 DEF Longer
  <2>2. ParseSs3(a, x, force) = Complete(HandleSs3(a, x[3]), 3)
    BY <1>2, <2>1
  <2>3. ParseSs3(b, y, force) = Complete(HandleSs3(b, x[3]), 3)
    BY <1>2, <2>1
  <2> QED  BY <1>3, <2>2, <2>3, CompleteExtends
<1> QED  BY <1>4, <1>5

LEMMA ParseAltExtends ==
  ASSUME NEW a, NEW b, Twin(a, b), KeyTimeout # 0, NEW x, NEW y, Longer(x, y), x # <<>>,
         NEW force \in BOOLEAN, ~force
  PROVE  Extends(a, ParseAlt(a, x, force), ParseAlt(b, y, force))
<1>1. PICK u, v : u = Tail(x) /\ v = Tail(y)
  OBVIOUS
<1>2. Longer(u, v)
  <2>1. PICK k, l \in Nat : k = Len(x) /\ l = Len(y) /\ k <= l /\ k # 0
    BY DEF Longer
  <2>2. y # <<>> /\ x \in Seq(0..255) /\ y \in Seq(0..255)
    BY <2>1 DEF Longer
  <2>3. u \in Seq(0..255) /\ Len(u) = k - 1 /\ \A i \in 1..Len(u) : u[i] = x[i + 1]
    BY <1>1, <2>1, <2>2, HeadTailProperties
  <2>4. v \in Seq(0..255) /\ Len(v) = l - 1 /\ \A i \in 1..Len(v) : v[i] = y[i + 1]
    BY <1>1, <2>1, <2>2, HeadTailProperties
  <2>5. \A i \in 1..k - 1 : v[i] = u[i]
    <3>1. SUFFICES ASSUME NEW i \in 1..k - 1  PROVE v[i] = u[i]
      OBVIOUS
    <3>2. i \in 1..l - 1 /\ i + 1 \in 1..k
      BY <2>1
    <3>3. u[i] = x[i + 1] /\ v[i] = y[i + 1]
      BY <2>3, <2>4, <3>2
    <3> QED  BY <2>1, <3>2, <3>3 DEF Longer
  <2> QED  BY <2>1, <2>3, <2>4, <2>5 DEF Longer
<1>3. PICK p, q : p = ParsePlain(a, u, {"alt"}, force) /\ q = ParsePlain(b, v, {"alt"}, force)
  OBVIOUS
<1>4. Extends(a, p, q)
  BY <1>2, <1>3, ParsePlainExtends
<1>5. p.consumed \in Nat
  <2>1. WellFormed(a) /\ u \in Seq(0..255)
    BY <1>2 DEF Twin, Alike, Longer
  <2>2. Parsed(a, u, p)
    BY <1>3, <2>1, ParsePlainParsed
  <2>3. Len(u) \in Nat
    BY <2>1
  <2> QED  BY <2>2, <2>3 DEF Parsed
<1>6. ParseAlt(a, x, force) = ParsedAlt(p, force) /\ ParseAlt(b, y, force) = ParsedAlt(q, force)
  BY <1>1, <1>3 DEF ParseAlt
<1>7. CASE p.consumed = 0
  <2>1. Twin(a, p.in) /\ (Running(a) => Running(p.in))
    BY <1>4, <1>7 DEF Extends
  <2>2. ParsedAlt(p, force) = Wait(p.in)
    BY <1>7 DEF ParsedAlt
  <2>3. PICK c : c = p.in
    OBVIOUS
  <2>4. Twin(c, MarkEscape(c)) /\ (Running(c) => Running(MarkEscape(c)))
    BY <2>1, <2>3, TwinSwaps, MarkEscapeTwin
  <2>5. Twin(a, MarkEscape(c))
    BY <2>1, <2>3, <2>4, TwinChain
  <2> QED  BY <1>6, <2>1, <2>2, <2>3, <2>4, <2>5 DEF Extends, Wait, Incomplete
<1>8. CASE p.consumed # 0
  <2>1. PICK n \in Nat \ {0} : n = p.consumed
    BY <1>5, <1>8
  <2>2. q.consumed = n /\ Twin(p.in, q.in)
    BY <1>4, <1>8, <2>1 DEF Extends
  <2>3. PICK m \in Nat \ {0} : m = n + 1
    OBVIOUS
  <2>4. ParsedAlt(p, force) = Complete(p.in, m) /\ ParsedAlt(q, force) = Complete(q.in, m)
    BY <2>1, <2>2, <2>3 DEF ParsedAlt
  <2>5. Extends(a, Complete(p.in, m), Complete(q.in, m))
    BY <2>2, CompleteExtends
  <2> QED  BY <1>6, <2>4, <2>5
<1> QED  BY <1>7, <1>8

\* The least of a set of numbers is that of its part below a bound that it reaches.
LEMMA MinOfPart ==
  ASSUME NEW S, S \subseteq Nat, NEW T, T \subseteq Nat, S \subseteq T, S # {},
         \A t \in T \ S, s \in S : s <= t
  PROVE  Min(T) = Min(S)
<1>1. Min(S) \in S /\ Min(T) \in T
  BY MinIn
<1>2. \E s \in S : \A r \in S : s <= r
  BY LeastIn
<1>3. \A r \in S : Min(S) <= r
  BY <1>2 DEF Min
<1>4. T # {}
  BY <1>1
<1>5. \E t \in T : \A r \in T : t <= r
  BY <1>4, LeastIn
<1>6. \A r \in T : Min(T) <= r
  BY <1>5 DEF Min
<1>7. PICK m, n \in Nat : m = Min(S) /\ n = Min(T)
  BY <1>1
<1>8. n <= m
  BY <1>1, <1>6, <1>7
<1>9. m <= n
  BY <1>1, <1>3, <1>7
<1> QED  BY <1>7, <1>8, <1>9

\* A sequence without a final byte within the limit is none that ParseCsi need decide,
\* unless it is overlong.
LEMMA ParseCsiExtends ==
  ASSUME NEW a, NEW b, Twin(a, b), KeyTimeout # 0, NEW x, NEW y, Longer(x, y), Len(x) >= 2,
         x[1] = Esc, x[2] = Bracket, ~Overlong(y), NEW force \in BOOLEAN, ~force
  PROVE  Extends(a, ParseCsi(a, x, force), ParseCsi(b, y, force))
<1>1. PICK k, l, most \in Nat : k = Len(x) /\ l = Len(y) /\ k <= l /\ most = SequenceLimit /\ k >= 2
                                /\ most >= 6
  BY InputParserConstants DEF Longer
<1> DEFINE reach(n)   == IF n <= most THEN n ELSE most
           finals(s, n)  == {i \in 3..reach(n) : s[i] \in 64..126}
           last(s, n)    == Min(finals(s, n))
           to(in, s, n)  == HandleCsi(in, SubSeq(s, 3, last(s, n) - 1), s[last(s, n)])
           lost(n)    == IF n > most THEN most + 1 ELSE 1
<1>2. \A n \in Nat : Min({n, most}) = reach(n)
  <2>1. SUFFICES ASSUME NEW n \in Nat  PROVE Min({n, most}) = reach(n)
    OBVIOUS
  <2>2. PICK m : m = Min({n, most})
    OBVIOUS
  <2>3. \E r \in {n, most} : \A t \in {n, most} : r <= t
    BY <1>1, <2>1
  <2>4. m \in {n, most} /\ \A t \in {n, most} : m <= t
    BY <2>2, <2>3 DEF Min
  <2>5. m \in Nat /\ m <= n /\ m <= most /\ (m = n \/ m = most)
    BY <1>1, <2>1, <2>4
  <2>6. m = reach(n)
    BY <1>1, <2>1, <2>5
  <2> QED  BY <2>2, <2>6
<1>3. \A in, s : \A n \in Nat : Len(s) = n =>
        ParseCsi(in, s, force) =
          IF finals(s, n) # {} THEN Complete(to(in, s, n), last(s, n))
          ELSE IF n < most THEN Wait(in) ELSE Complete(in, lost(n))
  <2>1. SUFFICES ASSUME NEW in, NEW s, NEW n \in Nat, Len(s) = n
                 PROVE  ParseCsi(in, s, force) =
                          IF finals(s, n) # {} THEN Complete(to(in, s, n), last(s, n))
                          ELSE IF n < most THEN Wait(in) ELSE Complete(in, lost(n))
    BY Zenon
  <2>2. Min({Len(s), SequenceLimit}) = reach(n)
    BY <1>1, <1>2, <2>1
  <2> HIDE DEF reach
  <2> QED  BY <1>1, <2>1, <2>2, ZenonT(60) DEF ParseCsi, WaitOrDefer
<1>8. /\ ParseCsi(a, x, force) =
           IF finals(x, k) # {} THEN Complete(to(a, x, k), last(x, k))
           ELSE IF k < most THEN Wait(a) ELSE Complete(a, lost(k))
      /\ ParseCsi(b, y, force) =
           IF finals(y, l) # {} THEN Complete(to(b, y, l), last(y, l))
           ELSE IF l < most THEN Wait(b) ELSE Complete(b, lost(l))
  <2> HIDE DEF finals, to, last, lost, reach
  <2>1. Len(x) = k /\ Len(y) = l
    BY <1>1
  <2>2. k \in Nat /\ l \in Nat
    OBVIOUS
  <2>3. ParseCsi(a, x, force) =
           IF finals(x, k) # {} THEN Complete(to(a, x, k), last(x, k))
           ELSE IF k < most THEN Wait(a) ELSE Complete(a, lost(k))
    BY <1>3, <2>1, <2>2, Zenon
  <2>4. ParseCsi(b, y, force) =
           IF finals(y, l) # {} THEN Complete(to(b, y, l), last(y, l))
           ELSE IF l < most THEN Wait(b) ELSE Complete(b, lost(l))
    BY <1>3, <2>1, <2>2, Zenon
  <2> QED  BY <2>3, <2>4
<1>4. finals(x, k) \subseteq Nat /\ finals(y, l) \subseteq Nat /\ finals(x, k) \subseteq finals(y, l)
  <2>1. \A i \in 3..reach(k) : i \in 3..reach(l) /\ i \in 1..k
    BY <1>1
  <2>2. \A i \in 3..reach(k) : y[i] = x[i]
    BY <1>1, <2>1 DEF Longer
  <2>3. 3..reach(k) \subseteq Nat /\ 3..reach(l) \subseteq Nat
    BY <1>1
  <2> HIDE DEF reach
  <2> QED  BY <2>1, <2>2, <2>3, ZenonT(60)
<1>5. \A t \in finals(y, l) \ finals(x, k), i \in finals(x, k) : i <= t
  <2>1. SUFFICES ASSUME NEW t \in finals(y, l), t \notin finals(x, k), NEW i \in finals(x, k)
                 PROVE  i <= t
    BY ZenonT(60)
  <2>2. i \in 3..reach(k) /\ t \in 3..reach(l) /\ y[t] \in 64..126
    OBVIOUS
  <2>3. CASE t <= reach(k)
    <3>1. t \in 3..reach(k) /\ t \in 1..k
      BY <1>1, <2>2, <2>3
    <3>2. y[t] = x[t]
      BY <1>1, <3>1 DEF Longer
    <3> QED  BY <2>1, <2>2, <3>1, <3>2
  <2>4. CASE ~(t <= reach(k))
    <3>1. i \in Nat /\ t \in Nat /\ i <= reach(k) /\ reach(k) \in Nat
      BY <1>1, <2>2
    <3> HIDE DEF reach
    <3> QED  BY <2>4, <3>1
  <2> QED  BY <2>3, <2>4
<1>6. CASE finals(x, k) # {}
  <2>1. last(y, l) = last(x, k) /\ last(x, k) \in finals(x, k) /\ finals(y, l) # {}
    <3> HIDE DEF finals
    <3> QED  BY <1>4, <1>5, <1>6, MinOfPart, MinIn, SMTT(60)
  <2>2. PICK n \in Nat : n = last(x, k) /\ n \in 3..k
    <3>1. last(x, k) \in 3..reach(k)
      BY <2>1
    <3>2. reach(k) \in Nat /\ reach(k) <= k
      BY <1>1
    <3> HIDE DEF last, reach
    <3>3. PICK r \in Nat : r = reach(k)
      BY <3>2
    <3>4. last(x, k) \in 3..r /\ r <= k
      BY <3>1, <3>2, <3>3, SMTT(60)
    <3> QED  BY <1>1, <3>4
  <2>3. y[n] = x[n]
    BY <1>1, <2>2 DEF Longer
  <2>4. PICK m \in Int : m = n - 1
    OBVIOUS
  <2>5. SubSeq(y, 3, m) = SubSeq(x, 3, m) /\ SubSeq(x, 3, m) \in Seq(0..255)
    <3>1. n \in 3..k /\ k = Len(x)
      BY <1>1, <2>2
    <3>2. m <= Len(x)
      BY <1>1, <2>4, <3>1
    <3>3. PICK i \in Nat \ {0} : i = 3
      OBVIOUS
    <3>4. SubSeq(y, i, m) = SubSeq(x, i, m) /\ SubSeq(x, i, m) \in Seq(0..255)
      BY <3>2, LongerPart, ZenonT(60)
    <3> QED  BY <3>3, <3>4, SMTT(60)
  <2> DEFINE at(in) == HandleCsi(in, SubSeq(x, 3, m), x[n])
  <2>6. to(a, x, k) = at(a) /\ to(b, y, l) = at(b)
    <3> HIDE DEF last
    <3> QED  BY <2>1, <2>2, <2>3, <2>4, <2>5
  <2>7. Twin(at(a), at(b))
    BY <2>5, HandleCsiTwin
  <2> HIDE DEF at, to, last, finals, lost
  <2>8. ParseCsi(a, x, force) = Complete(at(a), n)
    BY <1>6, <1>8, <2>2, <2>6
  <2>9. ParseCsi(b, y, force) = Complete(at(b), n)
    BY <1>8, <2>1, <2>2, <2>6
  <2>10. n # 0
    BY <2>2
  <2> QED  BY <2>7, <2>8, <2>9, <2>10, CompleteExtends
<1>7. CASE finals(x, k) = {}
  <2>1. k < most
    <3>1. SUFFICES ASSUME ~(k < most)  PROVE FALSE
      OBVIOUS
    <3>2. reach(k) = most
      BY <1>1, <3>1
    <3>3. \A j \in 3..most : x[j] \notin 64..126
      BY <1>7, <3>2
    <3>4. \A j \in 3..most : y[j] \notin 64..126
      <4>1. \A j \in 3..most : j \in 1..k
        BY <1>1, <3>1
      <4> QED  BY <1>1, <3>3, <4>1 DEF Longer
    <3>5. y[1] = Esc /\ y[2] = Bracket
      BY <1>1 DEF Longer
    <3>6. PICK i \in 1..(Len(y) - SequenceLimit) + 1 : i = 1
      BY <1>1, <3>1
    <3>7. i + 1 = 2 /\ i + 2..(i + SequenceLimit) - 1 = 3..most
      BY <1>1, <3>6
    <3>8. y[i] = Esc /\ y[i + 1] = Bracket /\ \A j \in i + 2..(i + SequenceLimit) - 1 : y[j] \notin 64..126
      BY <3>4, <3>5, <3>6, <3>7
    <3> QED  BY <3>8 DEF Overlong
  <2>2. ParseCsi(a, x, force) = Wait(a)
    <3> HIDE DEF finals, to, last, lost
    <3> QED  BY <1>7, <1>8, <2>1
  <2> QED  BY <2>2, WaitExtends
<1> QED  BY <1>6, <1>7

\* An attempt that is not forced finds in more bytes what it finds in fewer.
LEMMA ParseOneExtends ==
  ASSUME NEW a, NEW b, Twin(a, b), KeyTimeout # 0, NEW x, NEW y, Longer(x, y), x # <<>>,
         ~Overlong(y), NEW force \in BOOLEAN, ~force
  PROVE  Extends(a, ParseOne(a, x, force), ParseOne(b, y, force))
<1>0. PICK k, l \in Nat : k = Len(x) /\ l = Len(y) /\ k <= l /\ k # 0
  BY DEF Longer
<1>1. y[1] = x[1] /\ a.paste = b.paste
  BY <1>0 DEF Longer, Twin, Alike
<1>2. CASE a.paste
  <2>1. ParseOne(a, x, force) = ParsePaste(a, x, force)
    BY <1>2 DEF ParseOne
  <2>2. ParseOne(b, y, force) = ParsePaste(b, y, force)
    BY <1>1, <1>2 DEF ParseOne
  <2> QED  BY <2>1, <2>2, ParsePasteExtends
<1>3. CASE ~a.paste /\ x[1] # Esc
  <2>1. ParseOne(a, x, force) = ParsePlain(a, x, {}, force)
    BY <1>3 DEF ParseOne
  <2>2. ParseOne(b, y, force) = ParsePlain(b, y, {}, force)
    BY <1>1, <1>3 DEF ParseOne
  <2> QED  BY <2>1, <2>2, ParsePlainExtends
<1>4. CASE ~a.paste /\ x[1] = Esc
  <2>1. ParseOne(a, x, force) = ParseEscape(a, x, force)
    BY <1>4 DEF ParseOne
  <2>2. ParseOne(b, y, force) = ParseEscape(b, y, force)
    BY <1>1, <1>4 DEF ParseOne
  <2>3. CASE k < 2
    <3>1. ParseEscape(a, x, force) = Wait(a)
      BY <1>0, <2>3 DEF ParseEscape, ParseBareEscape
    <3> QED  BY <2>1, <3>1, WaitExtends
  <2>4. CASE ~(k < 2)
    <3>1. ~(Len(x) < 2) /\ ~(Len(y) < 2) /\ Len(x) >= 2 /\ y[2] = x[2]
      BY <1>0, <2>4 DEF Longer
    <3>2. CASE x[2] # Bracket /\ x[2] = LetterO
      <4>1. ParseEscape(a, x, force) = ParseSs3(a, x, force) /\ ParseEscape(b, y, force) = ParseSs3(b, y, force)
        BY <3>1, <3>2 DEF ParseEscape
      <4> QED  BY <2>1, <2>2, <4>1, ParseSs3Extends
    <3>3. CASE x[2] # Bracket /\ x[2] # LetterO /\ x[2] = Esc
      <4>1. ParseEscape(a, x, force) = Complete(EmitEscape(a), 1)
            /\ ParseEscape(b, y, force) = Complete(EmitEscape(b), 1)
        BY <3>1, <3>3 DEF ParseEscape
      <4> QED  BY <2>1, <2>2, <4>1, EmitEscapeTwin, CompleteExtends
    <3>4. CASE x[2] # Bracket /\ x[2] # LetterO /\ x[2] # Esc
      <4>1. ParseEscape(a, x, force) = ParseAlt(a, x, force) /\ ParseEscape(b, y, force) = ParseAlt(b, y, force)
        BY <3>1, <3>4 DEF ParseEscape
      <4> QED  BY <2>1, <2>2, <4>1, ParseAltExtends
    <3>5. CASE x[2] = Bracket /\ k >= 3
      <4>1. Len(x) >= 3 /\ Len(y) >= 3 /\ y[3] = x[3]
        BY <1>0, <3>5 DEF Longer
      <4>2. CASE x[3] = LetterM
        <5>1. ParseEscape(a, x, force) = ParseLegacyMouse(a, x, force)
              /\ ParseEscape(b, y, force) = ParseLegacyMouse(b, y, force)
          BY <3>1, <3>5, <4>1, <4>2 DEF ParseEscape
        <5> QED  BY <2>1, <2>2, <5>1, ParseLegacyMouseExtends
      <4>3. CASE x[3] # LetterM
        <5>1. ParseEscape(a, x, force) = ParseCsi(a, x, force)
              /\ ParseEscape(b, y, force) = ParseCsi(b, y, force)
          BY <3>1, <3>5, <4>1, <4>3 DEF ParseEscape
        <5> QED  BY <1>4, <2>1, <2>2, <3>1, <3>5, <5>1, ParseCsiExtends
      <4> QED  BY <4>2, <4>3
    <3>6. CASE x[2] = Bracket /\ ~(k >= 3)
      <4>1. k = 2
        BY <1>0, <2>4, <3>6
      <4>2. ParseEscape(a, x, force) = ParseCsi(a, x, force)
        BY <1>0, <3>1, <3>6 DEF ParseEscape
      <4>3. PICK reach : reach = Min({Len(x), SequenceLimit})
        OBVIOUS
      <4>4. ParseCsi(a, x, force) = Wait(a)
        <5>1. Len(x) = 2 /\ SequenceLimit \in Nat /\ SequenceLimit > 2
          BY <1>0, <4>1, InputParserConstants
        <5>2. \E r \in {Len(x), SequenceLimit} : \A t \in {Len(x), SequenceLimit} : r <= t
          BY <5>1
        <5>3. reach \in {Len(x), SequenceLimit} /\ \A t \in {Len(x), SequenceLimit} : reach <= t
          BY <4>3, <5>2 DEF Min
        <5>4. reach = 2
          BY <5>1, <5>3
        <5>5. {i \in 3..reach : x[i] \in 64..126} = {}
          BY <5>4
        <5> QED  BY <4>3, <5>1, <5>5 DEF ParseCsi, WaitOrDefer
      <4> QED  BY <2>1, <4>2, <4>4, WaitExtends
    <3> QED  BY <3>2, <3>3, <3>4, <3>5, <3>6
  <2> QED  BY <2>3, <2>4
<1> QED  BY <1>2, <1>3, <1>4

-----------------------------------------------------------------------------
(* The loop over the buffer, a sequence at a time.                          *)

Ends(turn) == turn.stops \/ turn.in.bytes = <<>>

\* What the loop comes to when no deadline has passed.
AllParsed(in) == ParseAvailable(in, FALSE)

LEMMA TurnsStay ==
  ASSUME NEW in, WellFormed(in), NEW turn, turn = ParseTurns(in, FALSE),
         NEW k \in 0..Len(in.bytes), Ends(turn[k])
  PROVE  turn[Len(in.bytes)] = turn[k]
<1>1. PICK most \in Nat : most = Len(in.bytes)
  BY DEF WellFormed
<1>8. PICK from \in 0..most : from = k
  BY <1>1
<1>2. \A n \in 0..most : n # 0 => turn[n] = ParseNext(turn[n - 1], FALSE)
  BY <1>1, ParseTurnsTurned
<1> DEFINE same(n) == from + n <= most => turn[from + n] = turn[k]
           K == {n \in Nat : same(n)}
<1>3. 0 \in K
  <2>1. from + 0 = k
    BY <1>8
  <2> QED  BY <2>1
<1>4. ASSUME NEW j \in Nat, j \in K  PROVE j + 1 \in K
  <2>1. SUFFICES ASSUME from + (j + 1) <= most  PROVE turn[from + (j + 1)] = turn[k]
    <3>1. same(j + 1) => j + 1 \in K
      <4> HIDE DEF same
      <4> QED  OBVIOUS
    <3> HIDE DEF K
    <3> QED  BY <3>1
  <2>2. turn[from + j] = turn[k]
    <3>1. from + j <= most
      BY <2>1
    <3> QED  BY <1>4, <3>1
  <2>3. PICK n \in 0..most : n = from + (j + 1) /\ n # 0 /\ n - 1 = from + j
    BY <1>1, <2>1
  <2>4. turn[n] = ParseNext(turn[k], FALSE)
    BY <1>2, <2>2, <2>3
  <2>5. ParseNext(turn[k], FALSE) = turn[k]
    BY DEF ParseNext, Ends
  <2> QED  BY <2>3, <2>4, <2>5
<1>5. \A j \in Nat : j \in K
  <2> HIDE DEF K
  <2> QED  BY <1>3, <1>4, Induction
<1>6. PICK j \in Nat : from + j = most
  <2>1. most - from \in Nat /\ from + (most - from) = most
    BY <1>1
  <2> QED  BY <2>1
<1>7. from + j <= most
  BY <1>1, <1>6
<1> QED  BY <1>1, <1>5, <1>6, <1>7

\* The table ends.
LEMMA TurnsEnd ==
  ASSUME NEW in, WellFormed(in), NEW turn, turn = ParseTurns(in, FALSE)
  PROVE  Ends(turn[Len(in.bytes)])
<1>1. PICK most \in Nat : most = Len(in.bytes)
  BY DEF WellFormed
<1>2. most \in 0..Len(in.bytes)
  BY <1>1
<1>3. PICK last : last = turn[most]
  OBVIOUS
<1>4. Turned(in, most, last)
  BY <1>2, <1>3, ParseTurnsTurned
<1>5. SUFFICES ASSUME ~last.stops, last.in.bytes # <<>>  PROVE FALSE
  BY <1>1, <1>3 DEF Ends
<1>6. last.stops \in BOOLEAN /\ last.in.bytes \in Seq(0..255)
  BY <1>4 DEF Turned, WellFormed
<1>7. PICK a \in Nat : a = Len(last.in.bytes) /\ a # 0
  BY <1>5, <1>6
<1>8. a + most <= most
  BY <1>1, <1>4, <1>5, <1>7 DEF Turned
<1> QED  BY <1>7, <1>8

LEMMA NothingToParse ==
  ASSUME NEW in, WellFormed(in), in.bytes = <<>>
  PROVE  AllParsed(in) = [in EXCEPT !.escape = NotPending]
<1>1. PICK turn : turn = ParseTurns(in, FALSE)
  OBVIOUS
<1>2. turn[0] = [in |-> in, stops |-> FALSE]
  BY <1>1, ParseTurnsTurned
<1>3. Len(in.bytes) = 0
  OBVIOUS
<1>4. PICK at : at = turn[0]
  OBVIOUS
<1>5. at.in = in
  BY <1>2, <1>4
<1>6. AllParsed(in) = Emptied(at.in)
  BY <1>1, <1>3, <1>4 DEF AllParsed, ParseAvailable
<1> QED  BY <1>5, <1>6 DEF Emptied

\* The loop goes on behind the first sequence as it would have begun there.
LEMMA FirstTurn ==
  ASSUME NEW in, WellFormed(in), Running(in), in.bytes # <<>>,
         NEW force \in BOOLEAN, ~force, NEW one, one = ParseOne(in, in.bytes, force)
  PROVE  /\ ParsesAll(in, in.bytes, one)
         /\ one.consumed = 0 => AllParsed(in) = MarkEscape(one.in)
         /\ one.consumed # 0 => AllParsed(in) = AllParsed(Proceed(one).in)
<1>1. PICK most \in Nat : most = Len(in.bytes) /\ most # 0
  BY DEF WellFormed
<1>2. in.bytes \in Seq(0..255)
  BY DEF WellFormed
<1>3. ParsesAll(in, in.bytes, one)
  BY <1>2, ParseOneParsed
<1>4. PICK turn : turn = ParseTurns(in, FALSE)
  OBVIOUS
<1>5. /\ turn[0] = [in |-> in, stops |-> FALSE]
      /\ \A n \in 0..most : n # 0 => turn[n] = ParseNext(turn[n - 1], FALSE)
  BY <1>1, <1>4, ParseTurnsTurned, ZenonT(60)
<1>6. PICK next : next = Proceed(one)
  OBVIOUS
<1>7. turn[1] = next
  <2>1. 1 \in 0..most /\ 1 # 0 /\ 1 - 1 = 0
    BY <1>1
  <2>2. turn[1] = ParseNext(turn[0], FALSE)
    BY <1>5, <2>1
  <2>3. PICK first : first = turn[0]
    OBVIOUS
  <2>4. first.in = in /\ first.stops = FALSE
    BY <1>5, <2>3
  <2>5. PICK hard \in BOOLEAN : hard = (FALSE \/ in.escape = 0)
    OBVIOUS
  <2>6. hard = force
    BY <2>5 DEF Running
  <2>7. ParseNext(first, FALSE) = Proceed(ParseOne(in, in.bytes, hard))
    BY <2>4, <2>5 DEF ParseNext
  <2> QED  BY <1>6, <2>2, <2>3, <2>6, <2>7
<1>8. /\ WellFormed(next.in) /\ next.stops \in BOOLEAN /\ (next.stops <=> one.consumed = 0)
      /\ Len(next.in.bytes) = Len(in.bytes) - one.consumed
  BY <1>3, <1>6, ProceedTurned
<1>9. AllParsed(in) = Emptied(turn[most].in)
  BY <1>1, <1>4 DEF AllParsed, ParseAvailable
<1>10. one.consumed = 0 => AllParsed(in) = MarkEscape(one.in)
  <2>1. SUFFICES ASSUME one.consumed = 0  PROVE AllParsed(in) = MarkEscape(one.in)
    OBVIOUS
  <2>2. 1 \in 0..Len(in.bytes)
    BY <1>1
  <2>3. Ends(turn[1])
    BY <1>7, <1>8, <2>1 DEF Ends
  <2>4. turn[most] = next
    BY <1>1, <1>4, <1>7, <2>2, <2>3, TurnsStay
  <2>5. PICK to : to = MarkEscape(one.in)
    OBVIOUS
  <2>6. next = [in |-> to, stops |-> TRUE]
    BY <1>6, <2>1, <2>5 DEF Proceed
  <2>7. next.in = to /\ to.bytes = in.bytes
    <3>1. PICK got : got = one.in
      OBVIOUS
    <3>2. WellFormed(got) /\ got.bytes = in.bytes
      BY <1>3, <3>1 DEF ParsesAll, Parsed, Stays
    <3>3. Stays(got, to)
      BY <2>5, <3>1, <3>2, MarkEscapeStays
    <3> QED  BY <2>6, <3>2, <3>3 DEF Stays
  <2> QED  BY <1>9, <2>4, <2>5, <2>7 DEF Emptied
<1>11. one.consumed # 0 => AllParsed(in) = AllParsed(next.in)
  <2>1. SUFFICES ASSUME one.consumed # 0  PROVE AllParsed(in) = AllParsed(next.in)
    OBVIOUS
  <2>2. PICK at : at = next.in
    OBVIOUS
  <2>3. WellFormed(at)
    BY <1>8, <2>2
  <2>4. PICK less \in Nat : less = Len(at.bytes) /\ less < most
    <3>1. PICK c \in Nat : c = one.consumed /\ c # 0
      BY <1>1, <1>3, <2>1 DEF ParsesAll, Parsed
    <3>2. PICK l \in Nat : l = Len(at.bytes)
      BY <2>3 DEF WellFormed
    <3>3. l = most - c
      BY <1>1, <1>8, <2>2, <3>1, <3>2
    <3>4. l < most
      BY <3>1, <3>3
    <3> QED  BY <3>2, <3>4
  <2>5. PICK rest : rest = ParseTurns(at, FALSE)
    OBVIOUS
  <2>6. /\ rest[0] = [in |-> at, stops |-> FALSE]
        /\ \A n \in 0..less : n # 0 => rest[n] = ParseNext(rest[n - 1], FALSE)
    BY <2>3, <2>4, <2>5, ParseTurnsTurned, ZenonT(60)
  <2>7. turn[1] = rest[0]
    <3>1. next = [in |-> at, stops |-> FALSE]
      BY <1>6, <2>1, <2>2 DEF Proceed
    <3> QED  BY <1>7, <2>6, <3>1
  <2> DEFINE K == {n \in Nat : n <= less => turn[n + 1] = rest[n]}
  <2>8. 0 \in K
    BY <2>7
  <2>9. ASSUME NEW n \in Nat, n \in K  PROVE n + 1 \in K
    <3>1. SUFFICES ASSUME n + 1 <= less  PROVE turn[(n + 1) + 1] = rest[n + 1]
      OBVIOUS
    <3>2. turn[n + 1] = rest[n]
      BY <2>4, <2>9, <3>1
    <3>3. PICK i \in 0..most : i = (n + 1) + 1 /\ i # 0 /\ i - 1 = n + 1
      BY <1>1, <2>4, <3>1
    <3>4. PICK j \in 0..less : j = n + 1 /\ j # 0 /\ j - 1 = n
      BY <2>4, <3>1
    <3>5. turn[i] = ParseNext(turn[n + 1], FALSE)
      BY <1>5, <3>3
    <3>6. rest[j] = ParseNext(rest[n], FALSE)
      BY <2>6, <3>4
    <3> QED  BY <3>2, <3>3, <3>4, <3>5, <3>6
  <2>10. \A n \in Nat : n \in K
    <3> HIDE DEF K
    <3> QED  BY <2>8, <2>9, Induction
  <2>11. turn[less + 1] = rest[less]
    BY <2>4, <2>10
  <2>12. Ends(rest[less])
    BY <2>3, <2>4, <2>5, TurnsEnd
  <2>13. PICK k \in 0..Len(in.bytes) : k = less + 1
    BY <1>1, <2>4
  <2>14. turn[most] = rest[less]
    BY <1>1, <1>4, <2>11, <2>12, <2>13, TurnsStay
  <2>15. AllParsed(at) = Emptied(rest[less].in)
    BY <2>4, <2>5 DEF AllParsed, ParseAvailable
  <2> QED  BY <1>9, <2>2, <2>14, <2>15
<1> QED  BY <1>3, <1>6, <1>10, <1>11

-----------------------------------------------------------------------------
(* The bytes that are left.                                                 *)

\* s ends with t.
EndOf(t, s) == \E p \in Seq(0..255) : s = p \o t

Associates(s, t, w) == (s \o t) \o w = s \o (t \o w)

LEMMA AllAssociate ==
  ASSUME NEW s \in Seq(0..255), NEW t \in Seq(0..255), NEW w \in Seq(0..255)
  PROVE  Associates(s, t, w)
BY ConcatAssociative, SMTT(60) DEF Associates

LEMMA EndOfItself ==
  ASSUME NEW s \in Seq(0..255)
  PROVE  EndOf(s, s)
<1>1. <<>> \in Seq(0..255) /\ s = <<>> \o s
  BY ConcatEmptySeq
<1> QED  BY <1>1, Zenon DEF EndOf

LEMMA EndOfChain ==
  ASSUME NEW r \in Seq(0..255), NEW s \in Seq(0..255), NEW t \in Seq(0..255), EndOf(r, s), EndOf(s, t)
  PROVE  EndOf(r, t)
<1>1. PICK p \in Seq(0..255) : s = p \o r
  BY SMTT(60) DEF EndOf
<1>2. PICK q \in Seq(0..255) : t = q \o s
  BY ZenonT(60) DEF EndOf
<1>3. PICK both \in Seq(0..255) : both = q \o p
  BY ConcatProperties, ZenonT(60)
<1>4. t = both \o r
  <2>1. Associates(q, p, r)
    BY AllAssociate, ZenonT(60)
  <2> QED  BY <1>1, <1>2, <1>3, <2>1, Zenon DEF Associates
<1> QED  BY <1>4, ZenonT(60) DEF EndOf

LEMMA EndOfJoined ==
  ASSUME NEW s \in Seq(0..255), NEW t \in Seq(0..255), NEW more \in Seq(0..255), EndOf(t, s)
  PROVE  EndOf(t \o more, s \o more)
<1>1. PICK p \in Seq(0..255) : s = p \o t
  BY DEF EndOf
<1>2. s \o more = p \o (t \o more)
  <2>1. Associates(p, t, more)
    BY AllAssociate, ZenonT(60)
  <2> QED  BY <1>1, <2>1, Zenon DEF Associates
<1> QED  BY <1>2, ZenonT(60) DEF EndOf

LEMMA OverlongEnd ==
  ASSUME NEW s \in Seq(0..255), NEW t \in Seq(0..255), EndOf(t, s), ~Overlong(s)
  PROVE  ~Overlong(t)
<1>1. PICK p \in Seq(0..255) : s = p \o t
  BY DEF EndOf
<1>2. SUFFICES ASSUME Overlong(t)  PROVE FALSE
  OBVIOUS
<1>3. PICK k, l, most \in Nat : k = Len(p) /\ l = Len(t) /\ most = SequenceLimit /\ most >= 6
  BY InputParserConstants
<1>4. Len(s) = k + l /\ \A i \in 1..k + l : s[i] = IF i <= k THEN p[i] ELSE t[i - k]
  BY <1>1, <1>3, ConcatProperties
<1>5. PICK i \in 1..(l - most) + 1 :
        /\ t[i] = Esc /\ t[i + 1] = Bracket
        /\ \A j \in i + 2..(i + most) - 1 : t[j] \notin 64..126
  BY <1>2, <1>3, ZenonT(60) DEF Overlong
<1>6. \A j \in 1..l : s[k + j] = t[j]
  <2>1. SUFFICES ASSUME NEW j \in 1..l  PROVE s[k + j] = t[j]
    OBVIOUS
  <2>2. k + j \in 1..k + l /\ ~(k + j <= k) /\ (k + j) - k = j
    BY <2>1
  <2> QED  BY <1>4, <2>2, SMTT(60)
<1>7. PICK h \in 1..(k + l - most) + 1 : h = k + i
  BY <1>3, <1>5
<1>8. i \in 1..l /\ i + 1 \in 1..l /\ h + 1 = k + (i + 1)
  BY <1>3, <1>5, <1>7
<1>9. s[h] = Esc /\ s[h + 1] = Bracket
  BY <1>5, <1>6, <1>7, <1>8
<1>10. \A j \in h + 2..(h + most) - 1 : s[j] \notin 64..126
  <2>1. SUFFICES ASSUME NEW j \in h + 2..(h + most) - 1  PROVE s[j] \notin 64..126
    OBVIOUS
  <2>2. PICK g \in 1..l : g = j - k /\ g \in i + 2..(i + most) - 1
    <3>1. PICK g \in Int : g = j - k
      BY <1>7, <2>1
    <3>2. h = k + i /\ i >= 1 /\ i <= (l - most) + 1
      BY <1>5, <1>7
    <3>3. j >= h + 2 /\ j <= (h + most) - 1 /\ j \in Int
      BY <2>1
    <3>4. g >= i + 2 /\ g <= (i + most) - 1
      BY <3>1, <3>2, <3>3
    <3>5. g >= 1 /\ g <= l
      BY <3>2, <3>4
    <3> QED  BY <3>1, <3>4, <3>5
  <2>3. k + g = j
    BY <2>1, <2>2, <1>7
  <2> QED  BY <1>5, <1>6, <2>2, <2>3, ZenonT(60)
<1>11. (Len(s) - SequenceLimit) + 1 = (k + l - most) + 1
  BY <1>3, <1>4
<1>12. h \in 1..(Len(s) - SequenceLimit) + 1
  BY <1>7, <1>11
<1>13. \A j \in h + 2..(h + SequenceLimit) - 1 : s[j] \notin 64..126
  BY <1>3, <1>10
<1> QED  BY <1>9, <1>12, <1>13, Zenon DEF Overlong

LEMMA OverlongBegin ==
  ASSUME NEW s \in Seq(0..255), NEW more \in Seq(0..255), ~Overlong(s \o more)
  PROVE  ~Overlong(s)
<1>1. SUFFICES ASSUME Overlong(s)  PROVE FALSE
  OBVIOUS
<1>2. PICK t : t = s \o more
  OBVIOUS
<1>3. PICK k, l, most \in Nat : k = Len(s) /\ l = Len(t) /\ k <= l /\ most = SequenceLimit /\ most >= 6
                                /\ \A i \in 1..k : t[i] = s[i]
  <2>1. Longer(s, t)
    BY <1>2, ConcatProperties DEF Longer
  <2> QED  BY <2>1, InputParserConstants DEF Longer
<1>4. PICK i \in 1..(k - most) + 1 :
        /\ s[i] = Esc /\ s[i + 1] = Bracket
        /\ \A j \in i + 2..(i + most) - 1 : s[j] \notin 64..126
  BY <1>1, <1>3, ZenonT(60) DEF Overlong
<1>5. i \in 1..k /\ i + 1 \in 1..k /\ i \in 1..(l - most) + 1
  BY <1>3, <1>4
<1>6. t[i] = Esc /\ t[i + 1] = Bracket
  BY <1>3, <1>4, <1>5
<1>7. \A j \in i + 2..(i + most) - 1 : t[j] \notin 64..126
  <2>1. \A j \in i + 2..(i + most) - 1 : j \in 1..k
    BY <1>3, <1>4
  <2> QED  BY <1>3, <1>4, <2>1
<1>8. i \in 1..(Len(t) - SequenceLimit) + 1
  BY <1>3, <1>5
<1>9. \A j \in i + 2..(i + SequenceLimit) - 1 : t[j] \notin 64..126
  BY <1>3, <1>7
<1>10. Overlong(t)
  BY <1>6, <1>8, <1>9, Zenon DEF Overlong
<1> QED  BY <1>2, <1>10

LEMMA FromBehind ==
  ASSUME NEW p \in Seq(0..255), NEW w \in Seq(0..255), NEW n \in Nat, n = Len(p)
  PROVE  From(p \o w, n + 1) = w
<1>1. PICK l \in Nat : l = Len(w)
  OBVIOUS
<1>2. PICK s \in Seq(0..255) : s = p \o w
  BY ConcatProperties, ZenonT(60)
<1>3. Len(s) = n + l /\ \A i \in 1..n + l : s[i] = IF i <= n THEN p[i] ELSE w[i - n]
  BY <1>1, <1>2, ConcatProperties
<1>4. PICK m \in Nat \ {0} : m = n + 1
  OBVIOUS
<1>5. PICK k \in Nat : k = n + l
  OBVIOUS
<1>6. \A i \in m..k : i \in 1..Len(s)
  BY <1>3, <1>4, <1>5
<1>7. \A i \in m..k : s[i] \in 0..255
  BY <1>6, ElementOfSeq, SMTT(60)
<1>8. /\ SubSeq(s, m, k) \in Seq(0..255)
      /\ Len(SubSeq(s, m, k)) = IF m <= k THEN k - m + 1 ELSE 0
      /\ \A i \in 1..k - m + 1 : SubSeq(s, m, k)[i] = s[m + i - 1]
  BY <1>7, SubSeqProperties
<1>9. PICK u : u = SubSeq(s, m, k)
  OBVIOUS
<1>10. Len(u) = l
  BY <1>4, <1>5, <1>8, <1>9
<1>11. \A i \in 1..Len(u) : u[i] = w[i]
  <2>1. SUFFICES ASSUME NEW i \in 1..l  PROVE u[i] = w[i]
    BY <1>10
  <2>2. i \in 1..k - m + 1 /\ m + i - 1 = n + i
    BY <1>4, <1>5, <2>1
  <2>3. u[i] = s[n + i]
    BY <1>8, <1>9, <2>2
  <2>4. n + i \in 1..n + l /\ ~(n + i <= n) /\ (n + i) - n = i
    BY <2>1
  <2> QED  BY <1>3, <2>3, <2>4
<1>12. u = w
  BY <1>1, <1>8, <1>9, <1>10, <1>11, SeqEqual, ZenonT(60)
<1>13. From(s, n + 1) = u
  BY <1>3, <1>4, <1>5, <1>9, SMTT(60) DEF From
<1> QED  BY <1>2, <1>12, <1>13

LEMMA FromParts ==
  ASSUME NEW s \in Seq(0..255), NEW n \in 0..Len(s)
  PROVE  /\ From(s, n + 1) \in Seq(0..255) /\ EndOf(From(s, n + 1), s)
         /\ s = SubSeq(s, 1, n) \o From(s, n + 1) /\ SubSeq(s, 1, n) \in Seq(0..255)
         /\ \A more \in Seq(0..255) : From(s \o more, n + 1) = From(s, n + 1) \o more
<1>1. PICK k \in Nat : k = Len(s) /\ n \in Nat /\ n <= k
  OBVIOUS
<1>2. PICK p, t : p = SubSeq(s, 1, n) /\ t = From(s, n + 1)
  OBVIOUS
<1>3. t \in Seq(0..255)
  BY <1>2, FromShorter
<1>4. p \in Seq(0..255) /\ Len(p) = n
  <2>1. \A i \in 1..n : i \in 1..Len(s)
    BY <1>1
  <2>2. \A i \in 1..n : s[i] \in 0..255
    BY <2>1, ElementOfSeq, SMTT(60)
  <2>3. p \in Seq(0..255) /\ Len(p) = IF 1 <= n THEN n - 1 + 1 ELSE 0
    BY <1>1, <1>2, <2>2, SubSeqProperties, SMTT(60)
  <2> QED  BY <1>1, <2>3
<1>5. s = p \o t
  <2>1. PICK a \in 1..Len(s) + 1 : a = 1
    BY <1>1
  <2>2. PICK b \in a - 1..Len(s) : b = n
    BY <1>1, <2>1
  <2>3. PICK c \in b..Len(s) : c = k
    BY <1>1, <2>2
  <2>4. SubSeq(s, a, b) \o SubSeq(s, b + 1, c) = SubSeq(s, a, c)
    BY ConcatAdjacentSubSeq
  <2>5. SubSeq(s, 1, k) = s
    BY <1>1
  <2> QED  BY <1>1, <1>2, <2>1, <2>2, <2>3, <2>4, <2>5 DEF From
<1>6. EndOf(t, s)
  BY <1>4, <1>5, Zenon DEF EndOf
<1>7. \A more \in Seq(0..255) : From(s \o more, n + 1) = t \o more
  <2>1. SUFFICES ASSUME NEW more \in Seq(0..255)  PROVE From(s \o more, n + 1) = t \o more
    OBVIOUS
  <2>2. PICK w \in Seq(0..255) : w = t \o more
    BY <1>3, ConcatProperties, ZenonT(60)
  <2>3. s \o more = p \o w
    <3>1. Associates(p, t, more)
      BY <1>3, <1>4, AllAssociate, ZenonT(60)
    <3> QED  BY <1>5, <2>2, <3>1, Zenon DEF Associates
  <2>4. From(p \o w, n + 1) = w
    BY <1>1, <1>4, FromBehind
  <2> QED  BY <2>2, <2>3, <2>4
<1> QED  BY <1>2, <1>3, <1>4, <1>5, <1>6, <1>7, ZenonT(60)

-----------------------------------------------------------------------------
(* Bytes that are parsed as they come are parsed as if they came together.  *)

\* to differs from in by what no event tells of: the buffer, the deadline and the frame.
Echo(in, to) ==
  /\ WellFormed(to)
  /\ to.capacity = in.capacity /\ to.events = in.events /\ to.dropped = in.dropped
  /\ to.held = in.held /\ to.explicit = in.explicit /\ to.lease = in.lease
  /\ to.buttons.held = in.buttons.held
  /\ to.mouse = in.mouse /\ to.mode = in.mode /\ to.paste = in.paste

LEMMA EchoTwin ==
  ASSUME NEW in, NEW to, Twin(in, in), Echo(in, to)
  PROVE  Twin(in, to) /\ Twin(to, to) /\ Twin(to, in)
BY DEF Twin, Alike, Lasting, Echo

\* They agree in all that the rest of the input depends on.
Pair(a, b) == Twin(a, b) /\ a.bytes = b.bytes /\ Running(a) /\ Running(b)

LEMMA PairChain ==
  ASSUME NEW a, NEW b, NEW c, Pair(a, b), Pair(b, c)
  PROVE  Pair(a, c)
BY TwinChain DEF Pair

LEMMA PairSwaps ==
  ASSUME NEW a, NEW b, Pair(a, b)
  PROVE  Pair(b, a)
BY TwinSwaps DEF Pair

Quiet(in, bytes) == [in EXCEPT !.bytes = bytes, !.escape = NotPending]

Silenced(in, bytes, to) == Echo(in, to) /\ to.bytes = bytes /\ to.escape = NotPending

LEMMA SilentEcho ==
  ASSUME NEW in, WellFormed(in), NEW bytes \in Seq(0..255),
         NEW to, to = Quiet(in, bytes)
  PROVE  Silenced(in, bytes, to)
<1>1. /\ DOMAIN to = InputFields /\ to.bytes = bytes /\ to.escape = NotPending
      /\ to.capacity = in.capacity /\ to.events = in.events /\ to.dropped = in.dropped
      /\ to.held = in.held /\ to.explicit = in.explicit /\ to.lease = in.lease
      /\ to.buttons = in.buttons
      /\ to.mouse = in.mouse /\ to.mode = in.mode /\ to.paste = in.paste
  BY DEF WellFormed, InputFields, Quiet
<1>2. WellFormed(to)
  BY <1>1 DEF WellFormed, HoldsOK, NotPending
<1> QED  BY <1>1, <1>2 DEF Echo, Silenced

\* What is left of two attempts that consumed the same.
LEMMA ProceedTwin ==
  ASSUME EscapeTimeout # 0, NEW p, NEW q, Twin(p.in, q.in), p.consumed = q.consumed, p.consumed # 0,
         NEW x, NEW y, Longer(x, y), p.consumed \in 0..Len(x), p.in.bytes = x, q.in.bytes = y,
         NEW a, NEW b, a = Proceed(p).in, b = Proceed(q).in
  PROVE  /\ Twin(a, b) /\ Running(a) /\ Running(b)
         /\ a.bytes = From(x, p.consumed + 1) /\ b.bytes = From(y, p.consumed + 1)
         /\ EndOf(a.bytes, x) /\ EndOf(b.bytes, y)
         /\ Len(a.bytes) < Len(x) /\ Len(a.bytes) \in Nat
<1>1. PICK c, d : c = p.in /\ d = q.in
  OBVIOUS
<1>2. WellFormed(c) /\ WellFormed(d) /\ Twin(c, c) /\ Twin(d, d) /\ Twin(c, d)
  BY <1>1, TwinItself
<1>3. x \in Seq(0..255) /\ y \in Seq(0..255)
  BY DEF Longer
<1>4. PICK n \in Nat \ {0} : n = p.consumed /\ n \in 0..Len(x) /\ n \in 0..Len(y)
  BY DEF Longer
<1>5. PICK u, v : u = From(x, n + 1) /\ v = From(y, n + 1)
  OBVIOUS
<1>6. u \in Seq(0..255) /\ v \in Seq(0..255) /\ EndOf(u, x) /\ EndOf(v, y) /\ Len(u) = Len(x) - n
  <2>1. u \in Seq(0..255) /\ EndOf(u, x)
    BY <1>3, <1>4, <1>5, FromParts
  <2>2. v \in Seq(0..255) /\ EndOf(v, y)
    BY <1>3, <1>4, <1>5, FromParts
  <2>3. Len(u) = Len(x) - n
    BY <1>3, <1>4, <1>5, FromShorter, ZenonT(60)
  <2> QED  BY <2>1, <2>2, <2>3
<1>7. a = Quiet(c, u)
  BY <1>1, <1>2, <1>4, <1>5 DEF Proceed, WellFormed, InputFields, Quiet
<1>8. b = Quiet(d, v)
  BY <1>1, <1>2, <1>4, <1>5 DEF Proceed, WellFormed, InputFields, Quiet
<1>10. Echo(c, a) /\ a.bytes = u /\ a.escape = NotPending
  <2>1. WellFormed(c) /\ u \in Seq(0..255) /\ a = Quiet(c, u)
    BY <1>2, <1>6, <1>7
  <2>2. Silenced(c, u, a)
    BY <2>1, SilentEcho, Zenon
  <2> QED  BY <2>2 DEF Silenced
<1>11. Echo(d, b) /\ b.bytes = v /\ b.escape = NotPending
  <2>1. WellFormed(d) /\ v \in Seq(0..255) /\ b = Quiet(d, v)
    BY <1>2, <1>6, <1>8
  <2>2. Silenced(d, v, b)
    BY <2>1, SilentEcho, Zenon
  <2> QED  BY <2>2 DEF Silenced
<1>12. Twin(a, c) /\ Twin(d, b)
  BY <1>2, <1>10, <1>11, EchoTwin
<1>13. Twin(a, b)
  BY <1>2, <1>12, TwinChain
<1>14. Running(a) /\ Running(b)
  BY <1>10, <1>11 DEF Running, NotPending
<1>15. Len(u) < Len(x) /\ Len(u) \in Nat
  <2>1. PICK k \in Nat, l \in Nat : k = Len(x) /\ l = Len(u)
    BY <1>3, <1>6
  <2>2. l = k - n
    BY <1>6, <2>1
  <2>3. l < k
    BY <1>4, <2>2, SMTT(60)
  <2> QED  BY <2>1, <2>3
<1> QED  BY <1>4, <1>5, <1>6, <1>10, <1>11, <1>13, <1>14, <1>15

\* What two objects that agree make of the same bytes agrees.
Agrees(a, b) ==
  /\ Pair(AllParsed(a), AllParsed(b))
  /\ AllParsed(a).bytes \in Seq(0..255) /\ EndOf(AllParsed(a).bytes, a.bytes)

LEMMA ParsedAgree ==
  ASSUME KeyTimeout # 0, NEW a, NEW b, Pair(a, b), ~Overlong(a.bytes)
  PROVE  Agrees(a, b)
<1> DEFINE Fits(c, d, n) == Pair(c, d) /\ ~Overlong(c.bytes) /\ Len(c.bytes) <= n
           K == {n \in Nat : \A c, d : Fits(c, d, n) => Agrees(c, d)}
<1>0. EscapeTimeout # 0
  BY DEF Pair, Running
<1>1. ASSUME NEW c, NEW d, Pair(c, d), ~Overlong(c.bytes),
             \A e, f : Pair(e, f) /\ ~Overlong(e.bytes) /\ Len(e.bytes) < Len(c.bytes) => Agrees(e, f)
      PROVE  Agrees(c, d)
  <2>1. PICK x \in Seq(0..255) : x = c.bytes /\ x = d.bytes
    BY <1>1 DEF Pair, Twin, Alike, WellFormed
  <2>2. WellFormed(c) /\ WellFormed(d) /\ Twin(c, c) /\ Twin(d, d) /\ Twin(c, d) /\ Twin(d, c)
        /\ Running(c) /\ Running(d)
    BY <1>1, TwinItself, TwinSwaps DEF Pair
  <2>3. CASE x = <<>>
    <3>1. PICK to, ot : to = [c EXCEPT !.escape = NotPending] /\ ot = [d EXCEPT !.escape = NotPending]
      OBVIOUS
    <3>2. AllParsed(c) = to /\ AllParsed(d) = ot
      BY <2>1, <2>2, <2>3, <3>1, NothingToParse
    <3>4. to = Quiet(c, x) /\ ot = Quiet(d, x)
      BY <2>1, <2>2, <3>1, ZenonT(60) DEF WellFormed, InputFields, Quiet
    <3>5. /\ Echo(c, to) /\ to.bytes = x /\ to.escape = NotPending
          /\ Echo(d, ot) /\ ot.bytes = x /\ ot.escape = NotPending
      <4>1. Echo(c, to) /\ to.bytes = x /\ to.escape = NotPending
        <5>1. WellFormed(c) /\ x \in Seq(0..255) /\ to = Quiet(c, x)
          BY <2>1, <2>2, <3>4
        <5>2. Silenced(c, x, to)
          BY <5>1, SilentEcho, Zenon
        <5> QED  BY <5>2 DEF Silenced
      <4>2. Echo(d, ot) /\ ot.bytes = x /\ ot.escape = NotPending
        <5>1. WellFormed(d) /\ x \in Seq(0..255) /\ ot = Quiet(d, x)
          BY <2>1, <2>2, <3>4
        <5>2. Silenced(d, x, ot)
          BY <5>1, SilentEcho, Zenon
        <5> QED  BY <5>2 DEF Silenced
      <4> QED  BY <4>1, <4>2
    <3>6. Twin(to, c) /\ Twin(d, ot)
      BY <2>2, <3>5, EchoTwin
    <3>7. Twin(to, ot)
      BY <2>2, <3>6, TwinChain
    <3>8. Pair(to, ot)
      BY <1>0, <3>5, <3>7 DEF Pair, Running, NotPending
    <3>9. EndOf(to.bytes, c.bytes)
      BY <2>1, <3>5, EndOfItself
    <3> QED  BY <2>1, <3>2, <3>5, <3>8, <3>9 DEF Agrees
  <2>4. CASE x # <<>>
    <3>1. PICK force \in BOOLEAN : ~force
      OBVIOUS
    <3>2. PICK p, q : p = ParseOne(c, x, force) /\ q = ParseOne(d, x, force)
      OBVIOUS
    <3>3. Longer(x, x)
      BY DEF Longer
    <3>4. Extends(c, p, q) /\ Extends(d, q, p)
      BY <1>1, <2>1, <2>2, <2>4, <3>1, <3>2, <3>3, ParseOneExtends
    <3>5. /\ ParsesAll(c, x, p)
          /\ p.consumed = 0 => AllParsed(c) = MarkEscape(p.in)
          /\ p.consumed # 0 => AllParsed(c) = AllParsed(Proceed(p).in)
      BY <2>1, <2>2, <2>4, <3>1, <3>2, FirstTurn
    <3>6. /\ ParsesAll(d, x, q)
          /\ q.consumed = 0 => AllParsed(d) = MarkEscape(q.in)
          /\ q.consumed # 0 => AllParsed(d) = AllParsed(Proceed(q).in)
      BY <2>1, <2>2, <2>4, <3>1, <3>2, FirstTurn
    <3>7. p.consumed \in 0..Len(x) /\ p.in.bytes = x /\ q.in.bytes = x
      BY <2>1, <3>5, <3>6 DEF ParsesAll, Parsed, Stays
    <3>8. CASE p.consumed = 0
      <4>1. q.consumed = 0
        BY <3>4, <3>8 DEF Extends
      <4>2. Twin(c, p.in) /\ Twin(d, q.in) /\ Running(p.in) /\ Running(q.in)
        BY <2>2, <3>4, <3>8, <4>1 DEF Extends
      <4>3. PICK u, v : u = p.in /\ v = q.in
        OBVIOUS
      <4>4. PICK to, ot : to = MarkEscape(u) /\ ot = MarkEscape(v)
        OBVIOUS
      <4>5. Twin(u, c) /\ Twin(v, d)
        BY <4>2, <4>3, TwinSwaps
      <4>6. Twin(u, to) /\ Twin(v, ot) /\ Running(to) /\ Running(ot)
        BY <4>2, <4>3, <4>4, <4>5, MarkEscapeTwin
      <4>7. to.bytes = x /\ ot.bytes = x
        <5>1. WellFormed(u) /\ WellFormed(v)
          BY <4>5, TwinItself
        <5> QED  BY <3>7, <4>3, <4>4, <5>1, MarkEscapeStays DEF Stays
      <4>8. Twin(to, c) /\ Twin(d, ot)
        BY <4>2, <4>3, <4>6, TwinChain, TwinSwaps
      <4>9. Twin(to, ot)
        BY <2>2, <4>8, TwinChain
      <4>10. AllParsed(c) = to /\ AllParsed(d) = ot
        BY <3>5, <3>6, <3>8, <4>1, <4>3, <4>4
      <4>11. Pair(to, ot)
        BY <4>6, <4>7, <4>9 DEF Pair
      <4> QED  BY <2>1, <4>7, <4>10, <4>11, EndOfItself DEF Agrees
    <3>9. CASE p.consumed # 0
      <4>1. q.consumed = p.consumed /\ Twin(p.in, q.in)
        BY <3>4, <3>9 DEF Extends
      <4>2. PICK e, f : e = Proceed(p).in /\ f = Proceed(q).in
        OBVIOUS
      <4>3. /\ Twin(e, f) /\ Running(e) /\ Running(f)
            /\ e.bytes = From(x, p.consumed + 1) /\ f.bytes = From(x, p.consumed + 1)
            /\ EndOf(e.bytes, x) /\ Len(e.bytes) < Len(x) /\ Len(e.bytes) \in Nat
        BY <1>0, <3>3, <3>7, <3>9, <4>1, <4>2, ProceedTwin
      <4>4. Pair(e, f)
        BY <4>3 DEF Pair
      <4>5. e.bytes \in Seq(0..255)
        BY <4>3 DEF Twin, Alike, WellFormed
      <4>6. ~Overlong(e.bytes)
        BY <1>1, <2>1, <4>3, <4>5, OverlongEnd
      <4>7. Agrees(e, f)
        BY <1>1, <2>1, <4>3, <4>4, <4>6
      <4>8. PICK to, ot : to = AllParsed(e) /\ ot = AllParsed(f)
        OBVIOUS
      <4>9. Pair(to, ot) /\ to.bytes \in Seq(0..255) /\ EndOf(to.bytes, e.bytes)
        BY <4>7, <4>8 DEF Agrees
      <4>10. EndOf(to.bytes, x)
        BY <4>3, <4>5, <4>9, EndOfChain
      <4>11. AllParsed(c) = to /\ AllParsed(d) = ot
        BY <3>5, <3>6, <3>9, <4>1, <4>2, <4>8
      <4> QED  BY <2>1, <4>9, <4>10, <4>11 DEF Agrees
    <3> QED  BY <3>8, <3>9
  <2> QED  BY <2>3, <2>4
<1>2. \A c, d : Pair(c, d) => Len(c.bytes) \in Nat
  BY DEF Pair, Twin, Alike, WellFormed
<1>3. 0 \in K
  <2>1. SUFFICES ASSUME NEW c, NEW d, Fits(c, d, 0)  PROVE Agrees(c, d)
    OBVIOUS
  <2>2. Len(c.bytes) \in Nat /\ Len(c.bytes) <= 0
    BY <1>2, <2>1
  <2>3. \A e, f : Pair(e, f) => ~(Len(e.bytes) < Len(c.bytes))
    <3>1. SUFFICES ASSUME NEW e, NEW f, Pair(e, f)  PROVE ~(Len(e.bytes) < Len(c.bytes))
      OBVIOUS
    <3>2. Len(e.bytes) \in Nat
      BY <1>2, <3>1
    <3> QED  BY <2>2, <3>2
  <2> QED  BY <1>1, <2>1, <2>3
<1>4. ASSUME NEW n \in Nat, n \in K  PROVE n + 1 \in K
  <2>1. SUFFICES ASSUME NEW c, NEW d, Fits(c, d, n + 1)  PROVE Agrees(c, d)
    OBVIOUS
  <2>2. ASSUME NEW e, NEW f, Pair(e, f), ~Overlong(e.bytes), Len(e.bytes) < Len(c.bytes)
        PROVE  Agrees(e, f)
    <3>1. PICK k \in Nat, l \in Nat : k = Len(c.bytes) /\ l = Len(e.bytes)
      BY <1>2, <2>1, <2>2
    <3>2. k <= n + 1 /\ l < k
      BY <2>1, <2>2, <3>1
    <3>3. l <= n
      BY <3>2
    <3>4. Fits(e, f, n)
      BY <2>2, <3>1, <3>3
    <3> HIDE DEF Fits
    <3> QED  BY <1>4, <3>4
  <2>3. \A e, f : Pair(e, f) /\ ~Overlong(e.bytes) /\ Len(e.bytes) < Len(c.bytes) => Agrees(e, f)
    BY <2>2
  <2> QED  BY <1>1, <2>1, <2>3
<1>5. \A n \in Nat : n \in K
  <2> HIDE DEF K
  <2> QED  BY <1>3, <1>4, Induction
<1>6. PICK n \in Nat : n = Len(a.bytes)
  BY <1>2
<1>7. Fits(a, b, n)
  BY <1>6
<1>8. n \in K
  BY <1>5
<1> HIDE DEF Fits
<1> QED  BY <1>7, <1>8

\* The bytes it is given enter its buffer.
Joined(in, more) == [in EXCEPT !.bytes = @ \o more]

Gained(in, more, to) == Echo(in, to) /\ to.bytes = in.bytes \o more /\ to.escape = in.escape

LEMMA JoinedEcho ==
  ASSUME NEW in, WellFormed(in), NEW more \in Seq(0..255), NEW to, to = Joined(in, more)
  PROVE  Gained(in, more, to)
<1>1. PICK bytes \in Seq(0..255) : bytes = in.bytes \o more
  BY ConcatProperties, ZenonT(60) DEF WellFormed
<1>2. /\ DOMAIN to = InputFields /\ to.bytes = bytes /\ to.escape = in.escape
      /\ to.capacity = in.capacity /\ to.events = in.events /\ to.dropped = in.dropped
      /\ to.held = in.held /\ to.explicit = in.explicit /\ to.lease = in.lease
      /\ to.buttons = in.buttons
      /\ to.mouse = in.mouse /\ to.mode = in.mode /\ to.paste = in.paste
  BY <1>1 DEF WellFormed, InputFields, Joined
<1>3. WellFormed(to)
  BY <1>2 DEF WellFormed, HoldsOK
<1> QED  BY <1>1, <1>2, <1>3 DEF Echo, Gained

LEMMA NothingQuiet ==
  ASSUME NEW in, WellFormed(in), in.bytes = <<>>
  PROVE  AllParsed(in) = Quiet(in, <<>>)
<1>1. PICK to : to = [in EXCEPT !.escape = NotPending]
  OBVIOUS
<1>2. AllParsed(in) = to
  BY <1>1, NothingToParse
<1>3. to = Quiet(in, <<>>)
  BY <1>1 DEF WellFormed, InputFields, Quiet
<1> QED  BY <1>2, <1>3

LEMMA NoBytes == \E none \in Seq(0..255) : none = <<>>
<1>1. <<>> \in Seq(0..255)
  OBVIOUS
<1> QED  BY <1>1, Zenon

\* What has read a part of what its twin has, and is given the rest, agrees with it.
LEMMA JoinedAgrees ==
  ASSUME KeyTimeout # 0, NEW a, NEW b, Twin(a, b), Running(a), Running(b),
         NEW more \in Seq(0..255), b.bytes = a.bytes \o more, ~Overlong(b.bytes)
  PROVE  Pair(AllParsed(Joined(a, more)), AllParsed(b))
<1>1. WellFormed(a) /\ Twin(a, a)
  BY TwinItself
<1>2. PICK j : j = Joined(a, more)
  OBVIOUS
<1>3. Gained(a, more, j)
  BY <1>1, <1>2, JoinedEcho, Zenon
<1>4. Echo(a, j) /\ j.bytes = b.bytes
  BY <1>3 DEF Gained
<1>5. j.escape = a.escape
  BY <1>3 DEF Gained
<1>6. Twin(j, b)
  BY <1>1, <1>4, EchoTwin, TwinChain
<1>7. Running(j)
  BY <1>5 DEF Running
<1>8. Pair(j, b)
  BY <1>4, <1>6, <1>7 DEF Pair
<1>9. Agrees(j, b)
  BY <1>4, <1>8, ParsedAgree
<1> QED  BY <1>2, <1>9 DEF Agrees

\* Parsing the first part of some bytes, and the rest when it comes, comes to what parsing
\* them together comes to.
Apart(a, b, more) ==
  /\ Twin(a, b) /\ Running(a) /\ Running(b) /\ b.bytes = a.bytes \o more /\ ~Overlong(b.bytes)

Meets(a, b, more) == Pair(AllParsed(Joined(AllParsed(a), more)), AllParsed(b))

LEMMA ParsedApart ==
  ASSUME KeyTimeout # 0, NEW more \in Seq(0..255), NEW a, NEW b, Apart(a, b, more)
  PROVE  Meets(a, b, more)
<1> DEFINE Fits(c, d, n) == Apart(c, d, more) /\ Len(c.bytes) <= n
           K == {n \in Nat : \A c, d : Fits(c, d, n) => Meets(c, d, more)}
<1>0. EscapeTimeout # 0
  BY DEF Apart, Running
<1>1. ASSUME NEW c, NEW d, Apart(c, d, more),
             \A e, f : Apart(e, f, more) /\ Len(e.bytes) < Len(c.bytes) => Meets(e, f, more)
      PROVE  Meets(c, d, more)
  <2>1. PICK x \in Seq(0..255), y \in Seq(0..255) : x = c.bytes /\ y = d.bytes
    BY <1>1, ZenonT(60) DEF Apart, Twin, Alike, WellFormed
  <2>2. WellFormed(c) /\ WellFormed(d) /\ Twin(c, c) /\ Twin(d, d) /\ Twin(c, d) /\ Twin(d, c)
        /\ Running(c) /\ Running(d) /\ y = x \o more /\ ~Overlong(y)
    BY <1>1, <2>1, TwinItself, TwinSwaps DEF Apart
  <2>3. PICK to : to = AllParsed(c)
    OBVIOUS
  \* What stays in the buffer, with the rest, is what the other has.
  <2>4. ASSUME Twin(to, c), Running(to), to.bytes = x  PROVE Meets(c, d, more)
    <3>1. Twin(to, d)
      BY <2>2, <2>4, TwinChain
    <3>2. Pair(AllParsed(Joined(to, more)), AllParsed(d))
      BY <2>1, <2>2, <2>4, <3>1, JoinedAgrees, ZenonT(60)
    <3> QED  BY <2>3, <3>2 DEF Meets
  <2>5. CASE x = <<>>
    <3>1. AllParsed(c) = Quiet(c, x)
      BY <2>1, <2>2, <2>5, NothingQuiet
    <3>2. WellFormed(c) /\ x \in Seq(0..255) /\ to = Quiet(c, x)
      BY <2>2, <2>3, <3>1
    <3>3. Silenced(c, x, to)
      BY <3>2, SilentEcho, ZenonT(60)
    <3>4. Echo(c, to) /\ to.bytes = x /\ to.escape = NotPending
      BY <3>3 DEF Silenced
    <3>5. Twin(to, c)
      BY <2>2, <3>4, EchoTwin
    <3>6. Running(to)
      BY <1>0, <3>4 DEF Running, NotPending
    <3> QED  BY <2>4, <3>4, <3>5, <3>6
  <2>6. CASE x # <<>>
    <3>1. PICK force \in BOOLEAN : ~force
      OBVIOUS
    <3>2. PICK p, q : p = ParseOne(c, x, force) /\ q = ParseOne(d, y, force)
      OBVIOUS
    <3>3. Longer(x, y)
      BY <2>2, ConcatProperties DEF Longer
    <3>4. y # <<>>
      BY <2>6, <3>3 DEF Longer
    <3>5. Extends(c, p, q)
      BY <2>2, <2>6, <3>1, <3>2, <3>3, ParseOneExtends
    <3>6. /\ ParsesAll(c, x, p)
          /\ p.consumed = 0 => AllParsed(c) = MarkEscape(p.in)
          /\ p.consumed # 0 => AllParsed(c) = AllParsed(Proceed(p).in)
      BY <2>1, <2>2, <2>6, <3>1, <3>2, FirstTurn
    <3>7. /\ ParsesAll(d, y, q)
          /\ q.consumed # 0 => AllParsed(d) = AllParsed(Proceed(q).in)
      BY <2>1, <2>2, <3>1, <3>2, <3>4, FirstTurn
    <3>8. p.consumed \in 0..Len(x) /\ p.in.bytes = x /\ q.in.bytes = y
      BY <2>1, <3>6, <3>7 DEF ParsesAll, Parsed, Stays
    <3>9. CASE p.consumed = 0
      <4>1. Twin(c, p.in) /\ Running(p.in)
        BY <2>2, <3>5, <3>9 DEF Extends
      <4>2. PICK u : u = p.in
        OBVIOUS
      <4>3. to = MarkEscape(u)
        BY <2>3, <3>6, <3>9, <4>2
      <4>4. Twin(u, c) /\ WellFormed(u)
        BY <4>1, <4>2, TwinSwaps, TwinItself
      <4>5. Twin(u, to) /\ Running(to)
        BY <4>1, <4>2, <4>3, <4>4, MarkEscapeTwin
      <4>6. to.bytes = x
        BY <3>8, <4>2, <4>3, <4>4, MarkEscapeStays DEF Stays
      <4>7. Twin(to, c)
        BY <4>4, <4>5, TwinChain, TwinSwaps
      <4> QED  BY <2>4, <4>5, <4>6, <4>7
    <3>10. CASE p.consumed # 0
      <4>1. q.consumed = p.consumed /\ Twin(p.in, q.in)
        BY <3>5, <3>10 DEF Extends
      <4>2. PICK e, f : e = Proceed(p).in /\ f = Proceed(q).in
        OBVIOUS
      <4>3. /\ Twin(e, f) /\ Running(e) /\ Running(f)
            /\ e.bytes = From(x, p.consumed + 1) /\ f.bytes = From(y, p.consumed + 1)
            /\ EndOf(f.bytes, y) /\ Len(e.bytes) < Len(x)
        BY <1>0, <3>3, <3>8, <3>10, <4>1, <4>2, ProceedTwin, SMTT(60)
      <4>4. f.bytes = e.bytes \o more
        <5>1. PICK n \in 0..Len(x) : n = p.consumed
          BY <3>8
        <5>2. From(x \o more, n + 1) = From(x, n + 1) \o more
          BY FromParts, SMTT(60)
        <5> QED  BY <2>2, <4>3, <5>1, <5>2
      <4>5. f.bytes \in Seq(0..255)
        BY <4>3 DEF Twin, Alike, WellFormed
      <4>6. ~Overlong(f.bytes)
        BY <2>2, <4>3, <4>5, OverlongEnd, ZenonT(60)
      <4>7. Apart(e, f, more)
        BY <4>3, <4>4, <4>6 DEF Apart
      <4>8. Meets(e, f, more)
        BY <1>1, <2>1, <4>3, <4>7
      <4>9. AllParsed(c) = AllParsed(e) /\ AllParsed(d) = AllParsed(f)
        BY <3>6, <3>7, <3>10, <4>1, <4>2
      <4> QED  BY <4>8, <4>9 DEF Meets
    <3> QED  BY <3>9, <3>10
  <2> QED  BY <2>5, <2>6
<1>2. \A c, d : Apart(c, d, more) => Len(c.bytes) \in Nat
  BY DEF Apart, Twin, Alike, WellFormed
<1>3. 0 \in K
  <2>1. SUFFICES ASSUME NEW c, NEW d, Fits(c, d, 0)  PROVE Meets(c, d, more)
    OBVIOUS
  <2>2. Len(c.bytes) \in Nat /\ Len(c.bytes) <= 0
    BY <1>2, <2>1
  <2>3. \A e, f : Apart(e, f, more) => ~(Len(e.bytes) < Len(c.bytes))
    <3>1. SUFFICES ASSUME NEW e, NEW f, Apart(e, f, more)  PROVE ~(Len(e.bytes) < Len(c.bytes))
      OBVIOUS
    <3>2. Len(e.bytes) \in Nat
      BY <1>2, <3>1
    <3> QED  BY <2>2, <3>2
  <2> QED  BY <1>1, <2>1, <2>3
<1>4. ASSUME NEW n \in Nat, n \in K  PROVE n + 1 \in K
  <2>1. SUFFICES ASSUME NEW c, NEW d, Fits(c, d, n + 1)  PROVE Meets(c, d, more)
    OBVIOUS
  <2>2. ASSUME NEW e, NEW f, Apart(e, f, more), Len(e.bytes) < Len(c.bytes)
        PROVE  Meets(e, f, more)
    <3>1. PICK k \in Nat, l \in Nat : k = Len(c.bytes) /\ l = Len(e.bytes)
      BY <1>2, <2>1, <2>2
    <3>2. k <= n + 1 /\ l < k
      BY <2>1, <2>2, <3>1
    <3>3. l <= n
      BY <3>2
    <3>4. Fits(e, f, n)
      BY <2>2, <3>1, <3>3
    <3> HIDE DEF Fits
    <3> QED  BY <1>4, <3>4
  <2>3. \A e, f : Apart(e, f, more) /\ Len(e.bytes) < Len(c.bytes) => Meets(e, f, more)
    BY <2>2
  <2> QED  BY <1>1, <2>1, <2>3
<1>5. \A n \in Nat : n \in K
  <2> HIDE DEF K
  <2> QED  BY <1>3, <1>4, Induction
<1>6. PICK n \in Nat : n = Len(a.bytes)
  BY <1>2
<1>7. Fits(a, b, n)
  BY <1>6
<1>8. n \in K
  BY <1>5
<1> HIDE DEF Fits
<1> QED  BY <1>7, <1>8

\* in is what a new object would be that was given the bytes u in one call.
Matches(in, capacity, u) == Pair(in, AllParsed(Joined(Created(capacity), u)))

LEMMA CreatedRests ==
  ASSUME NEW capacity \in Nat \ {0}, EscapeTimeout # 0, NEW in, in = Created(capacity)
  PROVE  /\ Resting(in) /\ Twin(in, in) /\ Running(in) /\ in.bytes = <<>>
         /\ in.escape = NotPending
<1>1. /\ DOMAIN in = InputFields /\ in.bytes = <<>> /\ in.escape = NotPending
      /\ in.capacity = capacity /\ in.events = <<>> /\ in.dropped = 0
      /\ in.held = {} /\ in.explicit = {} /\ in.lease = <<>>
      /\ in.buttons = [held |-> {}, pressed |-> {}, released |-> {}]
  BY DEF Created, InputFields
<1>2. WellFormed(in)
  <2>1. <<>> \in Seq({}) /\ <<>> \in Seq(0..255)
    OBVIOUS
  <2> QED  BY <1>1, <2>1 DEF WellFormed, HoldsOK
<1>3. Resting(in)
  BY <1>1, <1>2, InputParserConstants DEF Resting
<1>4. Twin(in, in)
  BY <1>1, <1>2 DEF Twin, Alike, Lasting
<1>5. Running(in)
  BY <1>1 DEF Running, NotPending
<1> QED  BY <1>1, <1>3, <1>4, <1>5

\* A new object that was given u, before it parses.
LEMMA NewJoined ==
  ASSUME NEW capacity \in Nat \ {0}, EscapeTimeout # 0, NEW u \in Seq(0..255),
         NEW in, in = Joined(Created(capacity), u)
  PROVE  Twin(in, Created(capacity)) /\ Twin(in, in) /\ Running(in) /\ in.bytes = u
<1>1. PICK c : c = Created(capacity)
  OBVIOUS
<1>2. Twin(c, c) /\ Running(c) /\ c.bytes = <<>>
  BY <1>1, CreatedRests
<1>3. WellFormed(c) /\ in = Joined(c, u)
  BY <1>1, <1>2, TwinItself
<1>4. Gained(c, u, in)
  BY <1>3, JoinedEcho, Zenon
<1>5. Echo(c, in) /\ in.bytes = c.bytes \o u /\ in.escape = c.escape
  BY <1>4 DEF Gained
<1>6. in.bytes = u
  BY <1>2, <1>5, ConcatEmptySeq
<1>7. Twin(c, in) /\ Twin(in, in) /\ Twin(in, c)
  BY <1>2, <1>5, EchoTwin
<1>8. Running(in)
  BY <1>2, <1>5 DEF Running
<1> QED  BY <1>1, <1>6, <1>7, <1>8

\* What matches, given more, matches more.
LEMMA MatchesMore ==
  ASSUME KeyTimeout # 0, NEW capacity \in Nat \ {0}, NEW u \in Seq(0..255), NEW more \in Seq(0..255),
         NEW in, Matches(in, capacity, u), ~Overlong(u \o more),
         NEW to, to = AllParsed(Joined(in, more))
  PROVE  Matches(to, capacity, u \o more)
<1>0. EscapeTimeout # 0
  BY DEF Matches, Pair, Running
<1>1. PICK all \in Seq(0..255) : all = u \o more
  BY ConcatProperties, ZenonT(60)
<1>2. PICK a, b : a = Joined(Created(capacity), u) /\ b = Joined(Created(capacity), all)
  OBVIOUS
<1>3. /\ Twin(a, Created(capacity)) /\ Twin(a, a) /\ Running(a) /\ a.bytes = u
  BY <1>0, <1>2, NewJoined
<1>4. /\ Twin(b, Created(capacity)) /\ Running(b) /\ b.bytes = all
  BY <1>0, <1>2, NewJoined
<1>5. Twin(a, b)
  <2>1. PICK c : c = Created(capacity)
    OBVIOUS
  <2>2. Twin(a, c) /\ Twin(c, b)
    BY <1>3, <1>4, <2>1, TwinSwaps
  <2> QED  BY <2>2, TwinChain
<1>6. Apart(a, b, more)
  BY <1>1, <1>3, <1>4, <1>5 DEF Apart
<1>7. PICK r, s : r = AllParsed(a) /\ s = AllParsed(b)
  OBVIOUS
<1>8. Pair(AllParsed(Joined(r, more)), s)
  BY <1>6, <1>7, ParsedApart DEF Meets
<1>9. Pair(in, r)
  BY <1>2, <1>7 DEF Matches
<1>10. ~Overlong(u)
  BY OverlongBegin
<1>11. Pair(a, a)
  BY <1>3 DEF Pair
<1>12. r.bytes \in Seq(0..255) /\ EndOf(r.bytes, u)
  BY <1>3, <1>7, <1>10, <1>11, ParsedAgree DEF Agrees
<1>13. PICK j, k : j = Joined(in, more) /\ k = Joined(r, more)
  OBVIOUS
<1>14. WellFormed(in) /\ WellFormed(r) /\ Twin(in, in) /\ Twin(r, r) /\ Twin(in, r)
       /\ in.bytes = r.bytes /\ Running(in) /\ Running(r)
  BY <1>9, TwinItself DEF Pair
<1>15. Gained(in, more, j)
  BY <1>13, <1>14, JoinedEcho, ZenonT(60)
<1>16. Gained(r, more, k)
  BY <1>13, <1>14, JoinedEcho, ZenonT(60)
<1>17. Echo(in, j) /\ j.bytes = in.bytes \o more
  BY <1>15 DEF Gained
<1>18. Echo(r, k) /\ k.bytes = r.bytes \o more
  BY <1>16 DEF Gained
<1>19. j.escape = in.escape
  BY <1>15 DEF Gained
<1>20. k.escape = r.escape
  BY <1>16 DEF Gained
<1>21. Twin(j, k)
  <2>1. Twin(j, in) /\ Twin(r, k)
    BY <1>14, <1>17, <1>18, EchoTwin
  <2> QED  BY <1>14, <2>1, TwinChain
<1>22. Pair(j, k)
  BY <1>14, <1>17, <1>18, <1>19, <1>20, <1>21 DEF Pair, Running
<1>23. ~Overlong(j.bytes)
  <2>1. PICK t \in Seq(0..255) : t = r.bytes \o more
    BY <1>12, ConcatProperties, ZenonT(60)
  <2>2. EndOf(t, all)
    BY <1>1, <1>12, <2>1, EndOfJoined
  <2>3. ~Overlong(t)
    BY <1>1, <2>2, OverlongEnd, ZenonT(60)
  <2> QED  BY <1>14, <1>17, <2>1, <2>3
<1>24. Pair(AllParsed(j), AllParsed(k))
  BY <1>22, <1>23, ParsedAgree DEF Agrees
<1>25. PICK l : l = AllParsed(k)
  OBVIOUS
<1>26. Pair(to, l) /\ Pair(l, s)
  BY <1>8, <1>13, <1>24, <1>25
<1>27. Pair(to, s)
  BY <1>26, PairChain
<1> QED  BY <1>1, <1>2, <1>7, <1>27 DEF Matches

LEMMA MatchesBytes ==
  ASSUME KeyTimeout # 0, NEW capacity \in Nat \ {0}, NEW u \in Seq(0..255), ~Overlong(u),
         NEW in, Matches(in, capacity, u)
  PROVE  ~Overlong(in.bytes)
<1>1. PICK a, r : a = Joined(Created(capacity), u) /\ r = AllParsed(a)
  OBVIOUS
<1>2. Pair(in, r)
  BY <1>1 DEF Matches
<1>3. Twin(a, a) /\ Running(a) /\ a.bytes = u
  BY <1>1, <1>2, NewJoined DEF Pair, Running
<1>4. Pair(a, a)
  BY <1>3 DEF Pair
<1>5. r.bytes \in Seq(0..255) /\ EndOf(r.bytes, u)
  BY <1>1, <1>3, <1>4, ParsedAgree DEF Agrees
<1> QED  BY <1>2, <1>5, OverlongEnd DEF Pair

\* What matches still does when it parses again what it has kept.
LEMMA MatchesStill ==
  ASSUME KeyTimeout # 0, NEW capacity \in Nat \ {0}, NEW u \in Seq(0..255),
         NEW in, Matches(in, capacity, u), ~Overlong(u), NEW to, to = AllParsed(in)
  PROVE  Matches(to, capacity, u)
<1>1. PICK none \in Seq(0..255) : none = <<>>
  BY NoBytes
<1>2. WellFormed(in) /\ Twin(in, in) /\ Running(in)
  BY TwinItself DEF Matches, Pair
<1>3. u \o none = u
  BY <1>1, ConcatEmptySeq
<1>4. PICK j : j = Joined(in, none)
  OBVIOUS
<1>5. PICK ot : ot = AllParsed(j)
  OBVIOUS
<1>6. Matches(ot, capacity, u)
  BY <1>3, <1>4, <1>5, MatchesMore, ZenonT(60)
<1>7. Gained(in, none, j)
  BY <1>2, <1>4, JoinedEcho, Zenon
<1>8. Echo(in, j) /\ j.bytes = in.bytes \o none /\ j.escape = in.escape
  BY <1>7 DEF Gained
<1>9. j.bytes = in.bytes
  BY <1>1, <1>2, <1>8, ConcatEmptySeq DEF WellFormed
<1>10. Pair(in, j)
  BY <1>2, <1>8, <1>9, EchoTwin DEF Pair, Running
<1>11. ~Overlong(in.bytes)
  BY MatchesBytes
<1>12. Pair(to, ot)
  BY <1>5, <1>10, <1>11, ParsedAgree DEF Agrees
<1> QED  BY <1>6, <1>12, PairChain DEF Matches

LEMMA CreatedMatches ==
  ASSUME NEW capacity \in Nat \ {0}, EscapeTimeout # 0
  PROVE  Matches(Created(capacity), capacity, <<>>)
<1>1. PICK c, none : c = Created(capacity) /\ none = <<>> /\ none \in Seq(0..255)
  BY NoBytes
<1>2. Resting(c) /\ Twin(c, c) /\ Running(c) /\ c.bytes = none
  BY <1>1, CreatedRests
<1>3. PICK j : j = Joined(c, none)
  OBVIOUS
<1>4. Twin(j, c) /\ Twin(j, j) /\ Running(j) /\ j.bytes = none
  BY <1>1, <1>3, NewJoined, ZenonT(60)
<1>5. WellFormed(j)
  BY <1>4, TwinItself
<1>6. PICK to : to = AllParsed(j)
  OBVIOUS
<1>7. to = Quiet(j, none)
  BY <1>1, <1>4, <1>5, <1>6, NothingQuiet
<1>8. Silenced(j, none, to)
  BY <1>1, <1>5, <1>7, SilentEcho, Zenon
<1>9. Echo(j, to) /\ to.bytes = none /\ to.escape = NotPending
  BY <1>8 DEF Silenced
<1>10. Twin(c, to)
  BY <1>4, <1>9, EchoTwin, TwinSwaps, TwinChain
<1>11. Pair(c, to)
  BY <1>2, <1>9, <1>10 DEF Pair, Running, NotPending
<1> QED  BY <1>1, <1>3, <1>6, <1>11 DEF Matches

-----------------------------------------------------------------------------
(* However the bytes are cut into calls.                                    *)

\* What a turn of feeding has taken of the bytes is what its object was given.
Taken(turn, capacity, u, bytes) ==
  \E w \in Seq(0..255) : bytes = w \o turn.rest /\ Matches(turn.in, capacity, u \o w)

LEMMA FillBufferTakes ==
  ASSUME KeyTimeout # 0, NEW capacity \in Nat \ {0}, NEW u \in Seq(0..255),
         NEW bytes \in Seq(0..255), bytes # <<>>, ~Overlong(u \o bytes),
         NEW in, Resting(in), Matches(in, capacity, u), NEW turn, turn = FillBuffer(in, bytes)
  PROVE  Taken(turn, capacity, u, bytes)
<1>0. WellFormed(in) /\ in.bytes \in Seq(0..255) /\ Len(in.bytes) \in Nat
  BY DEF Resting, WellFormed
<1>1. PICK room \in Nat : room = ByteCapacity - Len(in.bytes) /\ room # 0
  <2>1. PICK a \in Nat, b \in Nat : a = ByteCapacity /\ b = Len(in.bytes)
    BY <1>0, InputParserConstants
  <2>2. a - b \in Nat /\ a - b # 0
    BY <2>1, RoomIsLeft
  <2> QED  BY <2>1, <2>2
<1>2. PICK all \in Nat : all = Len(bytes) /\ all # 0
  OBVIOUS
<1>3. PICK n \in 1..all : n = Min({room, all}) /\ n <= room
  BY <1>1, <1>2, MinOfTwo, SMTT(60)
<1>4. n = Min({ByteCapacity - Len(in.bytes), Len(bytes)}) /\ n # 0
  BY <1>1, <1>2, <1>3
<1>5. PICK piece, rest : piece = SubSeq(bytes, 1, n) /\ rest = From(bytes, n + 1)
  OBVIOUS
<1>6. piece \in Seq(0..255) /\ rest \in Seq(0..255) /\ bytes = piece \o rest
  <2>1. PICK m \in 0..Len(bytes) : m = n
    BY <1>2, <1>3
  <2>2. /\ From(bytes, m + 1) \in Seq(0..255) /\ SubSeq(bytes, 1, m) \in Seq(0..255)
        /\ bytes = SubSeq(bytes, 1, m) \o From(bytes, m + 1)
    BY FromParts, ZenonT(60)
  <2> QED  BY <1>5, <2>1, <2>2
<1>7. PICK full : full = Joined(in, piece)
  OBVIOUS
<1>8. turn = [in |-> AllParsed(full), rest |-> rest, overflows |-> FALSE]
  BY <1>4, <1>5, <1>7 DEF FillBuffer, AllParsed, Joined
<1>9. PICK to : to = AllParsed(full)
  OBVIOUS
<1>10. turn.in = to /\ turn.rest = rest
  BY <1>8, <1>9
<1>11. ~Overlong(u \o piece)
  <2>1. PICK both \in Seq(0..255) : both = u \o piece
    BY <1>6, ConcatProperties, ZenonT(60)
  <2>2. both \o rest = u \o bytes
    <3>1. Associates(u, piece, rest)
      BY <1>6, AllAssociate, ZenonT(60)
    <3> QED  BY <1>6, <2>1, <3>1, Zenon DEF Associates
  <2>3. ~Overlong(both)
    BY <1>6, <2>2, OverlongBegin, ZenonT(60)
  <2> QED  BY <2>1, <2>3
<1>12. Matches(to, capacity, u \o piece)
  BY <1>6, <1>7, <1>9, <1>11, MatchesMore
<1> QED  BY <1>6, <1>10, <1>12, Zenon DEF Taken

LEMMA FeedNextTakes ==
  ASSUME KeyTimeout # 0, NEW capacity \in Nat \ {0}, NEW u \in Seq(0..255),
         NEW bytes \in Seq(0..255), ~Overlong(u \o bytes),
         NEW turn, Resting(turn.in), ~turn.overflows, turn.rest \in Seq(0..255),
         Taken(turn, capacity, u, bytes)
  PROVE  Taken(FeedNext(turn), capacity, u, bytes)
<1>1. CASE turn.rest = <<>>
  <2>1. FeedNext(turn) = turn
    BY <1>1 DEF FeedNext
  <2> QED  BY <2>1
<1>2. CASE turn.rest # <<>>
  <2>1. PICK at : at = turn.in
    OBVIOUS
  <2>2. PICK rest \in Seq(0..255) : rest = turn.rest /\ rest # <<>>
    BY <1>2
  <2>3. Resting(at) /\ MakeRoom(at) = at
    BY <2>1, RoomIsLeft
  <2>4. PICK next : next = FillBuffer(at, rest)
    OBVIOUS
  <2>5. FeedNext(turn) = next
    BY <1>2, <2>1, <2>2, <2>3, <2>4 DEF FeedNext
  <2>6. PICK w \in Seq(0..255) : bytes = w \o rest /\ Matches(at, capacity, u \o w)
    BY <2>1, <2>2, ZenonT(60) DEF Taken
  <2>7. PICK had \in Seq(0..255) : had = u \o w
    BY ConcatProperties, ZenonT(60)
  <2>8. had \o rest = u \o bytes
    <3>1. Associates(u, w, rest)
      BY AllAssociate, ZenonT(60)
    <3> QED  BY <2>6, <2>7, <3>1, ZenonT(60) DEF Associates
  <2>9. Taken(next, capacity, had, rest)
    BY <2>2, <2>3, <2>4, <2>6, <2>7, <2>8, FillBufferTakes, ZenonT(60)
  <2>10. PICK v \in Seq(0..255) : rest = v \o next.rest /\ Matches(next.in, capacity, had \o v)
    BY <2>9, ZenonT(60) DEF Taken
  <2>11. next.rest \in Seq(0..255)
    BY <2>2, <2>3, <2>4, FillBufferRests
  <2>12. PICK both \in Seq(0..255) : both = w \o v
    BY ConcatProperties, ZenonT(60)
  <2>13. bytes = both \o next.rest
    <3>1. PICK left \in Seq(0..255) : left = next.rest
      BY <2>11, SMTT(60)
    <3>2. Associates(w, v, left)
      BY AllAssociate, ZenonT(60)
    <3> QED  BY <2>6, <2>10, <2>12, <3>1, <3>2, ZenonT(60) DEF Associates
  <2>14. had \o v = u \o both
    <3>1. Associates(u, w, v)
      BY AllAssociate, ZenonT(60)
    <3> QED  BY <2>7, <2>12, <3>1, ZenonT(60) DEF Associates
  <2>15. Taken(next, capacity, u, bytes)
    BY <2>10, <2>12, <2>13, <2>14, ZenonT(60) DEF Taken
  <2> QED  BY <2>5, <2>15
<1> QED  BY <1>1, <1>2

LEMMA FeedTurnsMatch ==
  ASSUME KeyTimeout # 0, NEW capacity \in Nat \ {0}, NEW u \in Seq(0..255),
         NEW bytes \in Seq(0..255), ~Overlong(u \o bytes),
         NEW in, Resting(in), Matches(in, capacity, u),
         NEW last, last = FeedTurns(in, bytes)[Len(bytes)]
  PROVE  Matches(last.in, capacity, u \o bytes)
<1> DEFINE turn == FeedTurns(in, bytes)
           most == Len(bytes)
           Holds(k) == k <= most => Fed(in, bytes, k, turn[k]) /\ Taken(turn[k], capacity, u, bytes)
           K == {k \in Nat : Holds(k)}
<1>1. most \in Nat
  OBVIOUS
<1>2. IsFeeding(turn, in, bytes, most)
  BY <1>1, FeedTurnsDef
<1>3. /\ turn[0] = [in |-> in, rest |-> bytes, overflows |-> FALSE]
      /\ \A k \in Nat : k + 1 <= most => turn[k + 1] = FeedNext(turn[k])
  <2>1. \A k \in 0..most : turn[k] = IF k = 0 THEN [in |-> in, rest |-> bytes, overflows |-> FALSE]
                                     ELSE FeedNext(turn[k - 1])
    BY <1>2, Zenon DEF IsFeeding
  <2> HIDE DEF turn
  <2>2. turn[0] = [in |-> in, rest |-> bytes, overflows |-> FALSE]
    <3>1. PICK j \in 0..most : j = 0
      BY <1>1
    <3>2. turn[j] = [in |-> in, rest |-> bytes, overflows |-> FALSE]
      BY <2>1, <3>1
    <3> QED  BY <3>1, <3>2
  <2>3. ASSUME NEW k \in Nat, k + 1 <= most  PROVE turn[k + 1] = FeedNext(turn[k])
    <3>1. PICK j \in 0..most : j = k + 1 /\ j # 0 /\ j - 1 = k
      BY <1>1, <2>3
    <3>2. turn[j] = FeedNext(turn[j - 1])
      BY <2>1, <3>1
    <3> QED  BY <3>1, <3>2
  <2> QED  BY <2>2, <2>3
<1> HIDE DEF turn
<1>4. Holds(0)
  <2>1. PICK at : at = turn[0]
    OBVIOUS
  <2>2. at.in = in /\ at.rest = bytes /\ ~at.overflows
    BY <1>3, <2>1
  <2>3. Fed(in, bytes, 0, at)
    <3>1. Follows(in, in)
      BY DEF Follows
    <3>2. Len(bytes) + 0 <= Len(bytes)
      BY <1>1
    <3> QED  BY <2>2, <3>1, <3>2 DEF Fed
  <2>4. Taken(at, capacity, u, bytes)
    <3>1. PICK none \in Seq(0..255) : none = <<>>
      BY NoBytes
    <3>2. bytes = none \o at.rest /\ Matches(at.in, capacity, u \o none)
      BY <2>2, <3>1, ConcatEmptySeq
    <3> QED  BY <3>2, Zenon DEF Taken
  <2> QED  BY <2>1, <2>3, <2>4
<1>5. ASSUME NEW k \in Nat, Holds(k)  PROVE  Holds(k + 1)
  <2>1. SUFFICES ASSUME k + 1 <= most
                 PROVE  Fed(in, bytes, k + 1, turn[k + 1]) /\ Taken(turn[k + 1], capacity, u, bytes)
    OBVIOUS
  <2>2. PICK at : at = turn[k]
    OBVIOUS
  <2>3. Fed(in, bytes, k, at) /\ Taken(at, capacity, u, bytes)
    BY <1>1, <1>5, <2>1, <2>2
  <2>4. turn[k + 1] = FeedNext(at)
    BY <1>1, <1>3, <2>1, <2>2
  <2>5. Fed(in, bytes, k + 1, FeedNext(at))
    BY <1>1, <2>3, FeedNextFed
  <2>6. Taken(FeedNext(at), capacity, u, bytes)
    BY <2>3, FeedNextTakes DEF Fed
  <2> QED  BY <2>4, <2>5, <2>6
<1>6. \A k \in Nat : k \in K
  <2>1. 0 \in K
    BY <1>4
  <2>2. \A k \in Nat : k \in K => k + 1 \in K
    BY <1>5
  <2> HIDE DEF K
  <2> QED  BY <2>1, <2>2, Induction
<1>7. last = turn[most]
  BY DEF turn
<1>8. Fed(in, bytes, most, last) /\ Taken(last, capacity, u, bytes)
  <2>1. most \in K
    BY <1>1, <1>6
  <2>2. Holds(most)
    BY <2>1
  <2> QED  BY <1>1, <1>7, <2>2
<1>9. last.rest = <<>>
  <2>1. SUFFICES ASSUME Len(last.rest) + most <= most  PROVE last.rest = <<>>
    BY <1>8 DEF Fed
  <2>2. last.rest \in Seq(0..255) /\ Len(last.rest) \in Nat
    BY <1>8 DEF Fed
  <2>3. Len(last.rest) = 0
    BY <1>1, <2>1, <2>2
  <2> QED  BY <2>2, <2>3
<1>10. PICK w \in Seq(0..255) : bytes = w \o <<>> /\ Matches(last.in, capacity, u \o w)
  BY <1>8, <1>9 DEF Taken
<1>11. bytes = w
  BY <1>10, ConcatEmptySeq
<1> QED  BY <1>10, <1>11

LEMMA FeedBytesMatches ==
  ASSUME KeyTimeout # 0, NEW capacity \in Nat \ {0}, NEW u \in Seq(0..255),
         NEW bytes \in Seq(0..255), ~Overlong(u \o bytes),
         NEW in, Resting(in), Matches(in, capacity, u),
         NEW got, got = FeedBytes(in, bytes)
  PROVE  Matches(got.in, capacity, u \o bytes)
<1>1. WellFormed(in) /\ Lasting(in)
  BY TwinItself DEF Matches, Pair, Twin
<1>2. ReleaseExpired(in) = in
  BY <1>1, NothingExpired
<1>3. PICK b : b = AllParsed(in)
  OBVIOUS
<1>4. b = ParseAvailable(in, FALSE)
  BY <1>3 DEF AllParsed
<1>5. Resting(b)
  BY <1>1, <1>4, ParseAvailableRests
<1>6. ~Overlong(u)
  BY OverlongBegin
<1>7. Matches(b, capacity, u)
  BY <1>3, <1>6, MatchesStill
<1>8. PICK last : last = FeedTurns(b, bytes)[Len(bytes)]
  OBVIOUS
<1>9. Matches(last.in, capacity, u \o bytes)
  BY <1>5, <1>7, <1>8, FeedTurnsMatch
<1>10. got.in = last.in
  BY <1>2, <1>4, <1>8 DEF FeedBytes, Answered
<1> QED  BY <1>9, <1>10

LEMMA SettleMatches ==
  ASSUME KeyTimeout # 0, NEW capacity \in Nat \ {0}, NEW u \in Seq(0..255), ~Overlong(u),
         NEW in, Matches(in, capacity, u), NEW to, to = Settle(in)
  PROVE  Matches(to, capacity, u)
<1>1. PICK b : b = AllParsed(in)
  OBVIOUS
<1>2. Matches(b, capacity, u)
  BY <1>1, MatchesStill
<1>3. WellFormed(b) /\ Lasting(b)
  BY <1>2, TwinItself DEF Matches, Pair, Twin
<1>4. ReleaseExpired(b) = b
  BY <1>3, NothingExpired
<1>5. to = b
  BY <1>1, <1>4 DEF Settle, AllParsed
<1> QED  BY <1>2, <1>5

\* What a new object comes to that is given all at once.
LEMMA FedAtOnce ==
  ASSUME KeyTimeout # 0, EscapeTimeout # 0, NEW capacity \in Nat \ {0},
         NEW bytes \in Seq(0..255), ~Overlong(bytes),
         NEW got, got = FeedBytes(Created(capacity), bytes)
  PROVE  Matches(got.in, capacity, bytes)
<1>1. PICK c : c = Created(capacity)
  OBVIOUS
<1>2. Resting(c) /\ Matches(c, capacity, <<>>)
  BY <1>1, CreatedRests, CreatedMatches
<1>3. PICK none \in Seq(0..255) : none = <<>>
  BY NoBytes
<1>4. none \o bytes = bytes
  BY <1>3, ConcatEmptySeq
<1>5. Matches(got.in, capacity, none \o bytes)
  BY <1>1, <1>2, <1>3, <1>4, FeedBytesMatches, ZenonT(60)
<1> QED  BY <1>4, <1>5

-----------------------------------------------------------------------------
(* The calls, whatever they find.                                           *)

\* in is, but for its clocks, what a new object would be that was given u in one call.
Recalls(in, capacity, u) ==
  LET whole == AllParsed(Joined(Created(capacity), u))
  IN Alike(in, whole) /\ in.bytes = whole.bytes

LEMMA MatchesRecalls ==
  ASSUME NEW in, NEW capacity, NEW u, Matches(in, capacity, u)
  PROVE  Recalls(in, capacity, u)
BY DEF Matches, Pair, Twin, Recalls

LEMMA AlikeRecalls ==
  ASSUME NEW in, NEW to, NEW capacity, NEW u, Recalls(in, capacity, u), Alike(in, to),
         to.bytes = in.bytes
  PROVE  Recalls(to, capacity, u)
<1>1. PICK whole : whole = AllParsed(Joined(Created(capacity), u))
  OBVIOUS
<1>2. Alike(in, whole) /\ in.bytes = whole.bytes
  BY <1>1 DEF Recalls
<1>3. Alike(to, whole) /\ to.bytes = whole.bytes
  BY <1>2 DEF Alike
<1> QED  BY <1>1, <1>3 DEF Recalls

\* As long as no deadline of it has passed it agrees with the new one in these too.
LEMMA RecallsMatches ==
  ASSUME KeyTimeout # 0, EscapeTimeout # 0, NEW capacity \in Nat \ {0}, NEW u \in Seq(0..255),
         ~Overlong(u), NEW in, Recalls(in, capacity, u), ~DeadlinePassed(in)
  PROVE  Matches(in, capacity, u)
<1>1. PICK a, whole : a = Joined(Created(capacity), u) /\ whole = AllParsed(a)
  OBVIOUS
<1>2. Twin(a, a) /\ Running(a) /\ a.bytes = u
  BY <1>1, NewJoined
<1>3. Pair(a, a)
  BY <1>2 DEF Pair
<1>4. Pair(whole, whole)
  BY <1>1, <1>2, <1>3, ParsedAgree DEF Agrees
<1>5. Alike(in, whole) /\ in.bytes = whole.bytes
  BY <1>1 DEF Recalls
<1>6. Lasting(in)
  BY DEF DeadlinePassed, Deadlines, Lasting
<1>7. Running(in)
  BY DEF DeadlinePassed, Deadlines, Running, NotPending
<1>8. Lasting(whole) /\ Running(whole)
  BY <1>4 DEF Pair, Twin
<1>9. Twin(in, whole)
  BY <1>5, <1>6, <1>8 DEF Twin
<1>10. Pair(in, whole)
  BY <1>5, <1>7, <1>8, <1>9 DEF Pair
<1> QED  BY <1>1, <1>10 DEF Matches

LEMMA EchoMatches ==
  ASSUME NEW in, NEW to, NEW capacity, NEW u, Matches(in, capacity, u), Echo(in, to),
         to.bytes = in.bytes, to.escape = in.escape
  PROVE  Matches(to, capacity, u)
<1>1. PICK whole : whole = AllParsed(Joined(Created(capacity), u))
  OBVIOUS
<1>2. Pair(in, whole)
  BY <1>1 DEF Matches
<1>3. Twin(in, in) /\ Twin(in, whole)
  BY <1>2, TwinItself DEF Pair
<1>4. Twin(to, in)
  BY <1>3, EchoTwin
<1>5. Twin(to, whole)
  BY <1>3, <1>4, TwinChain
<1>6. Pair(to, whole)
  BY <1>2, <1>5 DEF Pair, Running
<1> QED  BY <1>1, <1>6 DEF Matches

LEMMA ElapseAlike ==
  ASSUME NEW in, Resting(in), NEW time \in Nat, NEW to, to = Elapse(in, time)
  PROVE  Alike(in, to) /\ to.bytes = in.bytes
<1>1. WellFormed(in) /\ WellFormed(to) /\ to.bytes = in.bytes
  BY ElapseRests, SMTT(60) DEF Resting
<1>2. PICK lease, escape : to = [in EXCEPT !.lease = lease, !.escape = escape]
  BY <1>1 DEF Elapse, WellFormed, InputFields
<1>3. /\ to.capacity = in.capacity /\ to.events = in.events /\ to.dropped = in.dropped
      /\ to.held = in.held /\ to.explicit = in.explicit /\ to.buttons = in.buttons
      /\ to.mouse = in.mouse /\ to.mode = in.mode /\ to.paste = in.paste
  BY <1>1, <1>2 DEF WellFormed, InputFields
<1> QED  BY <1>1, <1>3 DEF Alike

LEMMA ClearedEcho ==
  ASSUME NEW in, WellFormed(in), NEW to, to = Cleared(in)
  PROVE  Echo(in, to) /\ to.bytes = in.bytes /\ to.escape = in.escape
<1>1. WellFormed(to) /\ to.bytes = in.bytes /\ to.escape = in.escape
  BY ClearedKeeps DEF Keeps
<1>2. /\ to.capacity = in.capacity /\ to.events = in.events /\ to.dropped = in.dropped
      /\ to.held = in.held /\ to.explicit = in.explicit /\ to.lease = in.lease
      /\ to.buttons = in.buttons
      /\ to.mouse = in.mouse /\ to.mode = in.mode /\ to.paste = in.paste
  BY DEF WellFormed, InputFields, Cleared
<1> QED  BY <1>1, <1>2 DEF Echo

LEMMA FrameBegunEcho ==
  ASSUME NEW in, WellFormed(in), NEW to, to = FrameBegun(in)
  PROVE  Echo(in, to) /\ to.bytes = in.bytes /\ to.escape = in.escape
<1> DEFINE buttons == [in.buttons EXCEPT !.pressed = {}, !.released = {}]
<1>1. WellFormed(to) /\ to.bytes = in.bytes /\ to.escape = in.escape
  BY FrameBegunKeeps DEF Keeps
<1>2. /\ to.capacity = in.capacity /\ to.events = in.events /\ to.dropped = in.dropped
      /\ to.held = in.held /\ to.explicit = in.explicit /\ to.lease = in.lease
      /\ to.buttons = buttons
      /\ to.mouse = in.mouse /\ to.mode = in.mode /\ to.paste = in.paste
  BY DEF WellFormed, InputFields, FrameBegun, Cleared, HoldsOK
<1>3. buttons.held = in.buttons.held
  BY DEF WellFormed, HoldsOK
<1> HIDE DEF buttons
<1> QED  BY <1>1, <1>2, <1>3 DEF Echo

\* As long as nothing was disturbed, the object recalls what it was given.
CutInv ==
  /\ undisturbed => KeyTimeout # 0 /\ EscapeTimeout # 0
  /\ undisturbed /\ ~Overlong(fed) => Recalls(input, app.capacity, fed)

LEMMA InitCut == Init => CutInv
<1>1. SUFFICES ASSUME Init  PROVE CutInv
  OBVIOUS
<1>2. undisturbed => KeyTimeout # 0 /\ EscapeTimeout # 0
  <2>1. undisturbed = (KeyTimeout > 0 /\ EscapeTimeout > 0)
    BY <1>1 DEF Init
  <2>2. undisturbed => KeyTimeout > 0 /\ EscapeTimeout > 0
    BY <2>1, Zenon
  <2>3. KeyTimeout > 0 /\ EscapeTimeout > 0 => KeyTimeout # 0 /\ EscapeTimeout # 0
    BY InputStateConstants
  <2> QED  BY <2>2, <2>3
<1>3. ASSUME undisturbed  PROVE Recalls(input, app.capacity, fed)
  <2>1. PICK capacity \in Nat \ {0} : capacity = app.capacity
    BY <1>1, InputConstants DEF Init
  <2>2. PICK none : none = <<>>
    OBVIOUS
  <2>3. PICK in : in = Created(capacity)
    OBVIOUS
  <2>4. Matches(in, capacity, none)
    BY <1>2, <1>3, <2>2, <2>3, CreatedMatches
  <2>5. Recalls(in, capacity, none)
    BY <2>4, MatchesRecalls
  <2> QED  BY <1>1, <2>1, <2>2, <2>3, <2>5 DEF Init
<1> QED  BY <1>2, <1>3 DEF CutInv

\* What is left to show of a call.
LEMMA CallKeepsCut ==
  ASSUME CutInv, app' = app, undisturbed' => undisturbed,
         undisturbed' /\ ~Overlong(fed') => Recalls(input', app.capacity, fed')
  PROVE  CutInv'
BY DEF CutInv

\* What an undisturbed call begins with.
Unspoilt(capacity, u) ==
  /\ KeyTimeout # 0 /\ EscapeTimeout # 0 /\ capacity \in Nat \ {0} /\ u \in Seq(0..255)

LEMMA CallBegins ==
  ASSUME InputInv, CutInv, undisturbed, ~Overlong(fed)
  PROVE  Unspoilt(app.capacity, fed) /\ Recalls(input, app.capacity, fed) /\ Resting(input)
BY InputConstants DEF InputInv, CutInv, Unspoilt

\* Nothing but parsing and ending what is due.
LEMMA SettledRecalls ==
  ASSUME NEW capacity, NEW u, Unspoilt(capacity, u), ~Overlong(u), NEW in, Recalls(in, capacity, u),
         ~DeadlinePassed(in), NEW begun, Echo(in, begun), begun.bytes = in.bytes,
         begun.escape = in.escape, NEW to, to = Settle(begun)
  PROVE  Recalls(to, capacity, u)
<1>1. Matches(in, capacity, u)
  BY RecallsMatches DEF Unspoilt
<1>2. Matches(begun, capacity, u)
  BY <1>1, EchoMatches
<1>3. Matches(to, capacity, u)
  BY <1>2, SettleMatches DEF Unspoilt
<1> QED  BY <1>3, MatchesRecalls

\* The bytes a call was given.
LEMMA FedRecalls ==
  ASSUME NEW capacity, NEW u, Unspoilt(capacity, u), NEW bytes \in Seq(0..255), ~Overlong(u \o bytes),
         NEW in, Resting(in), Recalls(in, capacity, u), ~DeadlinePassed(in),
         NEW got, got = FeedBytes(in, bytes)
  PROVE  Matches(got.in, capacity, u \o bytes)
<1>1. u \in Seq(0..255) /\ capacity \in Nat \ {0} /\ KeyTimeout # 0 /\ EscapeTimeout # 0
  BY DEF Unspoilt
<1>2. ~Overlong(u)
  BY <1>1, OverlongBegin
<1>3. Matches(in, capacity, u)
  BY <1>1, <1>2, RecallsMatches
<1> QED  BY <1>1, <1>3, FeedBytesMatches

LEMMA ClearedRecalls ==
  ASSUME NEW in, Resting(in), NEW capacity, NEW u, Recalls(in, capacity, u),
         NEW to, to = Cleared(in)
  PROVE  Recalls(to, capacity, u) /\ Resting(to) /\ (DeadlinePassed(to) <=> DeadlinePassed(in))
<1>1. WellFormed(in) /\ Resting(to)
  BY ClearedKeeps, KeepsRests DEF Resting
<1>2. Echo(in, to) /\ to.bytes = in.bytes /\ to.escape = in.escape
  BY <1>1, ClearedEcho
<1>3. Alike(in, to)
  BY <1>1, <1>2 DEF Alike, Echo
<1>4. DeadlinePassed(to) <=> DeadlinePassed(in)
  BY <1>2 DEF Echo, DeadlinePassed, Deadlines
<1> QED  BY <1>1, <1>2, <1>3, <1>4, AlikeRecalls

\* A poll that nothing disturbed.
LEMMA PollRecalls ==
  ASSUME InputInv, CutInv, Poll, undisturbed', ~Overlong(fed')
  PROVE  Recalls(input', app.capacity, fed')
<1>1. PICK n \in Found \cup {0}, resized \in BOOLEAN, fails \in BOOLEAN, time \in Nat :
        (fails => n > 0) /\ PollCall(time, n, resized, fails)
  BY DEF Poll
<1>2. PICK cleared, waited : cleared = Cleared(input) /\ waited = Elapse(cleared, time)
  OBVIOUS
<1>3. /\ undisturbed /\ ~DeadlinePassed(waited) /\ ~resized
      /\ Take(n) /\ PollReads(waited, n, fails)
  BY <1>1, <1>2 DEF PollCall
<1>4. PICK piece : piece = SubSeq(stream, 1, n)
  OBVIOUS
<1>5. piece \in Seq(0..255) /\ fed' = fed \o piece /\ fed \in Seq(0..255)
  BY <1>3, <1>4, TakeTyped, ZenonT(60) DEF Take, InputInv
<1>6. ~Overlong(fed)
  BY <1>5, OverlongBegin
<1>7. PICK capacity, u, all : capacity = app.capacity /\ u = fed /\ all = fed'
  OBVIOUS
<1>8. Unspoilt(capacity, u) /\ Recalls(input, capacity, u) /\ Resting(input)
  BY <1>3, <1>6, <1>7, CallBegins
<1>9. Recalls(cleared, capacity, u) /\ Resting(cleared)
  BY <1>2, <1>8, ClearedRecalls
<1>10. Resting(waited) /\ Recalls(waited, capacity, u)
  <2>1. Resting(waited)
    BY <1>2, <1>9, ElapseRests
  <2>2. Alike(cleared, waited) /\ waited.bytes = cleared.bytes
    BY <1>2, <1>9, ElapseAlike
  <2> QED  BY <1>9, <2>1, <2>2, AlikeRecalls
<1>11. PICK got : got = IF n > 0 THEN FeedBytes(waited, piece)
                        ELSE [in |-> waited, status |-> Overflow(waited)]
  OBVIOUS
<1>12. FinishPoll(got, fails)
  BY <1>3, <1>4, <1>11 DEF PollReads
<1>13. Matches(got.in, capacity, all) /\ got.status # "overflow"
  <2>1. CASE n > 0
    <3>1. got = FeedBytes(waited, piece)
      BY <1>11, <2>1
    <3>2. ~Overlong(u \o piece)
      BY <1>5, <1>7
    <3>3. Matches(got.in, capacity, u \o piece)
      BY <1>3, <1>5, <1>8, <1>10, <3>1, <3>2, FedRecalls
    <3>4. got.status \in {"ok", "limit"}
      BY <1>5, <1>10, <3>1, FeedBytesRests
    <3> QED  BY <1>5, <1>7, <3>3, <3>4
  <2>2. CASE ~(n > 0)
    <3>1. got.in = waited /\ got.status = Overflow(waited)
      BY <1>11, <2>2
    <3>2. n = 0
      BY <2>2 DEF Found
    <3>3. all = u
      <4>1. piece = <<>>
        BY <1>4, <3>2
      <4> QED  BY <1>5, <1>7, <4>1, ConcatEmptySeq
    <3>4. Matches(waited, capacity, u)
      BY <1>3, <1>6, <1>7, <1>8, <1>10, RecallsMatches DEF Unspoilt
    <3> QED  BY <3>1, <3>3, <3>4 DEF Overflow
  <2> QED  BY <2>1, <2>2
<1>14. CASE fails
  <2>1. input' = got.in
    BY <1>12, <1>13, <1>14 DEF FinishPoll, Finish
  <2> QED  BY <1>7, <1>13, <2>1, MatchesRecalls
<1>15. CASE ~fails
  <2>1. PICK to : to = Settle(got.in)
    OBVIOUS
  <2>2. input' = to
    BY <1>12, <1>13, <1>15, <2>1 DEF FinishPoll, Return, Finish
  <2>3. PICK in : in = got.in
    OBVIOUS
  <2>4. all \in Seq(0..255) /\ ~Overlong(all)
    BY <1>5, <1>7, ConcatProperties
  <2>5. Matches(to, capacity, all)
    BY <1>8, <1>13, <2>1, <2>3, <2>4, SettleMatches DEF Unspoilt
  <2> QED  BY <1>7, <2>2, <2>5, MatchesRecalls
<1> QED  BY <1>14, <1>15

LEMMA NextCut == InputInv /\ CutInv /\ [Next]_inputVars => CutInv'
<1>1. SUFFICES ASSUME InputInv, CutInv, [Next]_inputVars  PROVE CutInv'
  OBVIOUS
<1>2. Resting(input) /\ WellFormed(input)
  BY <1>1 DEF InputInv, Resting
<1>3. CASE Tick /\ app' = app
  <2>1. PICK to : to = Elapse(input, 1)
    OBVIOUS
  <2>2. input' = to /\ undisturbed' = undisturbed /\ fed' = fed
    BY <1>3, <2>1 DEF Tick, Keep
  <2>3. Alike(input, to) /\ to.bytes = input.bytes
    BY <1>2, <2>1, ElapseAlike
  <2>4. ASSUME undisturbed, ~Overlong(fed)  PROVE Recalls(to, app.capacity, fed)
    BY <1>1, <2>3, <2>4, AlikeRecalls DEF CutInv
  <2> QED  BY <1>1, <1>3, <2>2, <2>4, CallKeepsCut
<1>4. CASE BeginFrame /\ app' = app
  <2>1. PICK begun : begun = FrameBegun(input)
    OBVIOUS
  <2>2. PICK to : to = Settle(begun)
    OBVIOUS
  <2>3. input' = to /\ undisturbed' = (undisturbed /\ ~DeadlinePassed(input)) /\ fed' = fed
    BY <1>4, <2>1, <2>2 DEF BeginFrame, FrameBegun, Return, Finish, Keep
  <2>4. Echo(input, begun) /\ begun.bytes = input.bytes /\ begun.escape = input.escape
    BY <1>2, <2>1, FrameBegunEcho
  <2>5. ASSUME undisturbed, ~DeadlinePassed(input), ~Overlong(fed)
        PROVE  Recalls(to, app.capacity, fed)
    BY <1>1, <2>2, <2>4, <2>5, CallBegins, SettledRecalls
  <2> QED  BY <1>1, <1>4, <2>3, <2>5, CallKeepsCut
<1>5. CASE Feed /\ app' = app
  <2>1. PICK n \in Found : Take(n) /\ FinishFeed(FeedBytes(Cleared(input), SubSeq(stream, 1, n)))
    BY <1>5 DEF Feed
  <2>2. PICK cleared, piece : cleared = Cleared(input) /\ piece = SubSeq(stream, 1, n)
    OBVIOUS
  <2>3. PICK got : got = FeedBytes(cleared, piece)
    OBVIOUS
  <2>4. input' = got.in /\ undisturbed' = (undisturbed /\ ~DeadlinePassed(input)) /\ fed' = fed \o piece
    BY <1>5, <2>1, <2>2, <2>3 DEF Feed, FinishFeed, Finish, Take
  <2>5. piece \in Seq(0..255) /\ fed \in Seq(0..255)
    BY <1>1, <2>1, <2>2, TakeTyped DEF InputInv
  <2>6. ASSUME undisturbed, ~DeadlinePassed(input), ~Overlong(fed \o piece)
        PROVE  Recalls(got.in, app.capacity, fed \o piece)
    <3>1. ~Overlong(fed)
      BY <2>5, <2>6, OverlongBegin
    <3>2. Unspoilt(app.capacity, fed) /\ Recalls(input, app.capacity, fed)
      BY <1>1, <2>6, <3>1, CallBegins
    <3>3. Recalls(cleared, app.capacity, fed) /\ Resting(cleared) /\ ~DeadlinePassed(cleared)
      BY <1>2, <2>2, <2>6, <3>2, ClearedRecalls
    <3>4. Matches(got.in, app.capacity, fed \o piece)
      BY <2>3, <2>5, <2>6, <3>2, <3>3, FedRecalls
    <3> QED  BY <3>4, MatchesRecalls
  <2> QED  BY <1>1, <1>5, <2>4, <2>6, CallKeepsCut
<1>6. CASE Flush /\ app' = app
  <2>1. PICK cleared : cleared = Cleared(input)
    OBVIOUS
  <2>2. PICK to : to = Settle(cleared)
    OBVIOUS
  <2>3. input' = to /\ undisturbed' = (undisturbed /\ ~DeadlinePassed(input)) /\ fed' = fed
    BY <1>6, <2>1, <2>2 DEF Flush, Return, Finish, Keep
  <2>4. Echo(input, cleared) /\ cleared.bytes = input.bytes /\ cleared.escape = input.escape
    BY <1>2, <2>1, ClearedEcho
  <2>5. ASSUME undisturbed, ~DeadlinePassed(input), ~Overlong(fed)
        PROVE  Recalls(to, app.capacity, fed)
    BY <1>1, <2>2, <2>4, <2>5, CallBegins, SettledRecalls
  <2> QED  BY <1>1, <1>6, <2>3, <2>5, CallKeepsCut
<1>7. CASE Poll /\ app' = app
  <2>1. undisturbed' => undisturbed
    BY <1>7, ZenonT(60) DEF Poll, PollCall
  <2> QED  BY <1>1, <1>7, <2>1, PollRecalls, CallKeepsCut
<1>8. CASE PollFails /\ app' = app
  <2>1. PICK to : to = Cleared(input)
    OBVIOUS
  <2>2. input' = to /\ undisturbed' = undisturbed /\ fed' = fed
    BY <1>8, <2>1 DEF PollFails, Finish, Keep
  <2>3. ASSUME undisturbed, ~Overlong(fed)  PROVE Recalls(to, app.capacity, fed)
    BY <1>1, <1>2, <2>1, <2>3, ClearedRecalls DEF CutInv
  <2> QED  BY <1>1, <1>8, <2>2, <2>3, CallKeepsCut
<1>9. CASE (NextEvent \/ ReleaseAllCall) /\ app' = app
  <2>1. ~undisturbed'
    BY <1>9 DEF NextEvent, ReleaseAllCall
  <2> QED  BY <2>1 DEF CutInv
<1>10. CASE UNCHANGED inputVars
  BY <1>1, <1>10 DEF CutInv, inputVars, callVars
<1> QED  BY <1>1, <1>3, <1>4, <1>5, <1>6, <1>7, <1>8, <1>9, <1>10 DEF Next

\* Where no control sequence is overlong and no deadline passes, what comes of the bytes
\* does not depend on how they were cut into reads: the events, what is held, the modes
\* and what stays in the buffer of input_parser.c are what they would be had one call
\* brought them all.
THEOREM ReadsAreCutAnywhere == Spec => []ReadsMayBeCut
<1>1. InputInv /\ CutInv => ReadsMayBeCut
  <2>1. SUFFICES ASSUME InputInv, CutInv, undisturbed, ~Overlong(fed)
                 PROVE  Came(input) = Came(FeedBytes(Created(app.capacity), fed).in)
    BY DEF ReadsMayBeCut, SequencesMaySpanReads
  <2>2. PICK capacity \in Nat \ {0}, u \in Seq(0..255) : capacity = app.capacity /\ u = fed
    BY <2>1, InputConstants DEF InputInv
  <2>3. PICK got : got = FeedBytes(Created(capacity), u)
    OBVIOUS
  <2>4. PICK to, whole : to = got.in /\ whole = AllParsed(Joined(Created(capacity), u))
    OBVIOUS
  <2>5. Pair(to, whole)
    BY <2>1, <2>2, <2>3, <2>4, FedAtOnce DEF CutInv, Matches
  <2>6. Alike(input, whole) /\ input.bytes = whole.bytes
    BY <2>1, <2>2, <2>4 DEF CutInv, Recalls
  <2>7. Came(input) = Came(to)
    BY <2>5, <2>6 DEF Pair, Twin, Alike, Came
  <2> QED  BY <2>2, <2>3, <2>4, <2>7
<1>2. Spec => []CutInv
  <2>1. Spec => [](InputInv /\ CutInv)
    BY InitInv, InitCut, NextInv, NextCut, PTL DEF Spec
  <2> QED  BY <2>1, PTL
<1> QED  BY <1>1, <1>2, InputInvariant, PTL

=============================================================================
