------------------------------- MODULE Effects -------------------------------
(***************************************************************************)
(* What plays by the clock.  Frame animations (animation.c): a borrowed    *)
(* list of frames, played once, round and round, or to and fro, by updates *)
(* of any size; frames are their durations, indices count from zero.       *)
(* Scalar tweens (tween.c): a clock that stops at its duration, and curves *)
(* of seven kinds over the part of it that is gone; a sample is a number   *)
(* over duration^3, exact where the code rounds.                           *)
(***************************************************************************)
EXTENDS Integers, Sequences

CONSTANTS
  FrameLists,     \* the lists of frame durations, zero being one that is refused
  TimeMax,        \* the largest time a word holds, UINT64_MAX
  MaxPlayed       \* bounds the time an animation is played

ASSUME AnimationConstants ==
  /\ TimeMax \in Nat /\ MaxPlayed \in Nat
  /\ FrameLists \subseteq Seq(0..TimeMax)

VARIABLES
  animation,      \* the animation, or the disposed one
  played,         \* ghost: the time it has run for since it was last started
  animationStatus \* what the last call returned

animationVars == <<animation, played, animationStatus>>

Modes == {"once", "loop", "ping_pong"}
NoAnimation ==
  [frames |-> <<>>, frame_index |-> 0, frame_elapsed_ms |-> 0, cycle_duration_ms |-> 0,
   mode |-> "once", direction |-> 0, paused |-> FALSE, finished |-> FALSE, initialized |-> FALSE]

AnimationStart == animation = NoAnimation /\ played = 0 /\ animationStatus = "ok"

\* When each frame of a list begins, and when the last one ends.
Begins(list) ==
  LET from[i \in 1..Len(list) + 1] == IF i = 1 THEN 0 ELSE from[i - 1] + list[i - 1]
  IN from

\* The duration of a cycle: to and fro, the inner frames are shown twice.
CycleDuration(list, mode) ==
  LET all == Begins(list)[Len(list) + 1]
  IN IF mode = "ping_pong" /\ Len(list) > 2
     THEN 2 * all - list[1] - list[Len(list)] ELSE all

AnimationInit(list, mode) ==
  IF list = <<>> \/ \E i \in DOMAIN list : list[i] = 0 /\ Begins(list)[i] <= TimeMax
  THEN animationStatus' = "invalid" /\ UNCHANGED <<animation, played>>
  ELSE IF CycleDuration(list, mode) > TimeMax
  THEN animationStatus' = "overflow" /\ UNCHANGED <<animation, played>>
  ELSE /\ animation' = [NoAnimation EXCEPT !.frames = list, !.mode = mode, !.direction = 1,
                          !.cycle_duration_ms = CycleDuration(list, mode), !.initialized = TRUE]
       /\ played' = 0 /\ animationStatus' = "ok"

AnimationDispose ==
  animation' = NoAnimation /\ played' = 0 /\ UNCHANGED animationStatus

\* animation_ready is all a later call asks for.
AnimationReady ==
  /\ animation.initialized /\ animation.direction \in {1, -1} /\ animation.cycle_duration_ms > 0
  /\ animation.frame_index < Len(animation.frames)
  /\ animation.frame_elapsed_ms <= animation.frames[animation.frame_index + 1]

Refused == animationStatus' = "state" /\ UNCHANGED <<animation, played>>

AnimationRestart ==
  IF ~AnimationReady THEN Refused
  ELSE /\ animation' = [animation EXCEPT !.frame_index = 0, !.frame_elapsed_ms = 0,
                          !.direction = 1, !.paused = FALSE, !.finished = FALSE]
       /\ played' = 0 /\ animationStatus' = "ok"

AnimationPause(paused) ==
  IF ~AnimationReady THEN Refused
  ELSE animation' = [animation EXCEPT !.paused = paused] /\ animationStatus' = "ok"
         /\ UNCHANGED played

NextFrame_EndTwice(a) ==
  LET last == Len(a.frames) - 1
      b    == [a EXCEPT !.frame_elapsed_ms = 0]
  IN CASE a.mode = "once" /\ a.frame_index < last -> [b EXCEPT !.frame_index = @ + 1]
       [] a.mode = "once" /\ a.frame_index >= last ->
            [a EXCEPT !.frame_elapsed_ms = a.frames[last + 1], !.finished = TRUE]
       [] a.mode = "loop" -> [b EXCEPT !.frame_index = (@ + 1) % (last + 1)]
       [] a.mode = "ping_pong" /\ last = 0 -> b
       [] a.mode = "ping_pong" /\ last > 0 ->
            IF a.direction > 0 /\ a.frame_index = last THEN [b EXCEPT !.direction = -1]
            ELSE IF a.direction < 0 /\ a.frame_index = 0 THEN [b EXCEPT !.direction = 1]
            ELSE [b EXCEPT !.frame_index = @ + a.direction]

\* The frame after the one that has just ended.
NextFrame(a) ==
  LET last == Len(a.frames) - 1
      b    == [a EXCEPT !.frame_elapsed_ms = 0]
      Turned(index) == IF a.direction > 0 /\ index = last THEN -1
                       ELSE IF a.direction < 0 /\ index = 0 THEN 1 ELSE a.direction
  IN CASE a.mode = "once" /\ a.frame_index < last -> [b EXCEPT !.frame_index = @ + 1]
       [] a.mode = "once" /\ a.frame_index >= last ->
            [a EXCEPT !.frame_elapsed_ms = a.frames[last + 1], !.finished = TRUE]
       [] a.mode = "loop" -> [b EXCEPT !.frame_index = (@ + 1) % (last + 1)]
       [] a.mode = "ping_pong" /\ last = 0 -> b
       [] a.mode = "ping_pong" /\ last > 0 ->
            [b EXCEPT !.frame_index = @ + a.direction,
                      !.direction = Turned(a.frame_index + a.direction)]

\* One turn of the loop that lets the frames play: the animation, and the time left.
Advance(turn) ==
  LET a == turn.animation
      remaining == a.frames[a.frame_index + 1] - a.frame_elapsed_ms
  IN IF turn.left = 0 \/ a.finished THEN turn
     ELSE IF turn.left < remaining
     THEN [animation |-> [a EXCEPT !.frame_elapsed_ms = @ + turn.left], left |-> 0]
     ELSE [animation |-> NextFrame(a), left |-> turn.left - remaining]

\* Every turn takes time off what is left.
Advanced(a, delta) ==
  LET turn[n \in 0..delta] ==
        IF n = 0 THEN [animation |-> a, left |-> delta] ELSE Advance(turn[n - 1])
  IN turn[delta].animation

\* Whole cycles of an animation that repeats are dropped before the loop.
AnimationUpdate(delta) ==
  IF ~AnimationReady THEN Refused
  ELSE IF animation.paused THEN animationStatus' = "ok" /\ UNCHANGED <<animation, played>>
  ELSE /\ played + delta <= MaxPlayed
       /\ animation' = IF animation.finished \/ delta = 0 THEN animation
                       ELSE Advanced(animation,
                              IF animation.mode = "once" THEN delta
                              ELSE delta % animation.cycle_duration_ms)
       /\ played' = played + delta /\ animationStatus' = "ok"

AnimationNext ==
  \/ \E list \in FrameLists, mode \in Modes : AnimationInit(list, mode)
  \/ AnimationDispose
  \/ AnimationRestart
  \/ \E paused \in BOOLEAN : AnimationPause(paused)
  \/ \E delta \in 0..TimeMax : AnimationUpdate(delta)

AnimationSpec == AnimationStart /\ [][AnimationNext]_animationVars

-----------------------------------------------------------------------------
\* The frames in the order a cycle shows them, and the way it goes after each.
Cycle(list, mode) ==
  LET n == Len(list)
  IN IF mode # "ping_pong" \/ n = 1 THEN [i \in 1..n |-> [index |-> i - 1, direction |-> 1]]
     ELSE [i \in 1..2 * (n - 1) |->
             IF i < n THEN [index |-> i - 1, direction |-> 1]
             ELSE [index |-> 2 * n - 1 - i, direction |-> -1]]

\* How long a cycle shows each of them.
Shown(list, mode) ==
  [i \in DOMAIN Cycle(list, mode) |-> list[Cycle(list, mode)[i].index + 1]]

(* What an animation shows depends on nothing but the time it has run for,   *)
(* whatever the sizes of the updates, the pauses and the whole cycles that   *)
(* one update skips: it shows each frame of the cycle for its duration, in   *)
(* order, an end only once when it turns, and, played once, stays on the     *)
(* last frame for good.                                                      *)
AnimationFollowsClock ==
  animation.initialized =>
    LET list  == animation.frames
        cycle == Cycle(list, animation.mode)
        from  == Begins(Shown(list, animation.mode))
        time  == played % from[Len(cycle) + 1]
        i     == CHOOSE k \in DOMAIN cycle : time \in from[k]..from[k + 1] - 1
    IN IF animation.mode = "once" /\ played >= from[Len(cycle) + 1]
       THEN /\ animation.finished /\ animation.frame_index = Len(list) - 1
            /\ animation.frame_elapsed_ms = list[Len(list)]
       ELSE /\ ~animation.finished
            /\ animation.frame_index = cycle[i].index
            /\ animation.frame_elapsed_ms = time - from[i]
            /\ animation.direction = cycle[i].direction

-----------------------------------------------------------------------------
(* Tweens.                                                                   *)

CONSTANTS
  Durations,      \* the durations a tween is given, zero being refused
  Steps,          \* the time steps of updates
  Ends,           \* the values a tween goes from and to
  MaxClock        \* bounds the time a tween runs for

ASSUME TweenConstants ==
  Durations \subseteq Nat /\ Steps \subseteq Nat /\ Ends \subseteq Int /\ MaxClock \in Nat

VARIABLES
  tween,          \* the tween, or the disposed one
  clock           \* ghost: the time it has run for since it was last started

tweenVars == <<tween, clock>>

Easings == {"linear", "quadratic_in", "quadratic_out", "quadratic_in_out",
            "cubic_in", "cubic_out", "cubic_in_out"}

NoTween == [start |-> 0, end |-> 0, duration_ms |-> 0, elapsed_ms |-> 0,
            easing |-> "linear", paused |-> FALSE, finished |-> FALSE, initialized |-> FALSE]

TweenStart == tween = NoTween /\ clock = 0

TweenInit(start, end, duration, easing) ==
  /\ duration > 0
  /\ tween' = [NoTween EXCEPT !.start = start, !.end = end, !.duration_ms = duration,
                              !.easing = easing, !.initialized = TRUE]
  /\ clock' = 0

TweenDispose == tween' = NoTween /\ clock' = 0

TweenReady ==
  tween.initialized /\ tween.duration_ms > 0 /\ tween.elapsed_ms <= tween.duration_ms

TweenRestart ==
  /\ TweenReady
  /\ tween' = [tween EXCEPT !.elapsed_ms = 0, !.paused = FALSE, !.finished = FALSE]
  /\ clock' = 0

TweenPause(paused) ==
  TweenReady /\ tween' = [tween EXCEPT !.paused = paused] /\ UNCHANGED clock

TweenUpdate(delta) ==
  LET remaining == tween.duration_ms - tween.elapsed_ms
  IN /\ TweenReady /\ clock + delta <= MaxClock
     /\ clock' = IF tween.paused THEN clock ELSE clock + delta
     /\ tween' = IF tween.paused \/ tween.finished \/ delta = 0 THEN tween
                 ELSE IF delta >= remaining
                 THEN [tween EXCEPT !.elapsed_ms = tween.duration_ms, !.finished = TRUE]
                 ELSE [tween EXCEPT !.elapsed_ms = @ + delta]

TweenNext ==
  \/ \E start, end \in Ends, duration \in Durations, easing \in Easings :
       TweenInit(start, end, duration, easing)
  \/ TweenDispose
  \/ TweenRestart
  \/ \E paused \in BOOLEAN : TweenPause(paused)
  \/ \E delta \in Steps : TweenUpdate(delta)

TweenSpec == TweenStart /\ [][TweenNext]_tweenVars

-----------------------------------------------------------------------------
\* aforc_easing_sample at e / d, times d^3.
Eased(easing, e, d) ==
  LET rest == d - e
  IN CASE easing = "linear"        -> e * d * d
       [] easing = "quadratic_in"  -> e * e * d
       [] easing = "quadratic_out" -> d * d * d - rest * rest * d
       [] easing = "quadratic_in_out" -> IF 2 * e < d THEN 2 * e * e * d
                                         ELSE d * d * d - 2 * rest * rest * d
       [] easing = "cubic_in"      -> e * e * e
       [] easing = "cubic_out"     -> d * d * d - rest * rest * rest
       [] easing = "cubic_in_out"  -> IF 2 * e < d THEN 4 * e * e * e
                                      ELSE d * d * d - 4 * rest * rest * rest

\* aforc_tween_sample
Sample(t) ==
  LET d == t.duration_ms
      e == Eased(t.easing, t.elapsed_ms, d)
  IN t.start * (d * d * d - e) + t.end * e

(* A tween that is started follows the clock and stops at its duration,      *)
(* whatever the steps, pauses and restarts.                                  *)
TweenFollowsClock ==
  tween.initialized =>
    /\ tween.elapsed_ms = (IF clock < tween.duration_ms THEN clock ELSE tween.duration_ms)
    /\ tween.finished <=> clock >= tween.duration_ms

(* Every curve starts and ends on its ends exactly, never leaves the values  *)
(* between them, and never turns back: each of its two halves meets the      *)
(* other.                                                                    *)
CurvesStayBetween ==
  tween.initialized =>
    LET d == tween.duration_ms
        At(e) == Sample([tween EXCEPT !.elapsed_ms = e])
        Ordered(a, b) == IF tween.start <= tween.end THEN a <= b ELSE b <= a
    IN /\ At(0) = tween.start * d * d * d /\ At(d) = tween.end * d * d * d
       /\ \A e \in 1..d : Ordered(At(e - 1), At(e))

(* What plays follows its clock: animations and tweens show what the time    *)
(* they have run for says, and a tween's curve stays between its ends.       *)
EffectsFollowClock == AnimationFollowsClock /\ TweenFollowsClock /\ CurvesStayBetween
=============================================================================
