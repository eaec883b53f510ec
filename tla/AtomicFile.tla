----------------------------- MODULE AtomicFile -----------------------------
(***************************************************************************)
(* What an atomic store promises (assets.h): a file goes from one complete *)
(* content to the next, a crash may take it back to an earlier one, and    *)
(* never behind a store that was reported to have succeeded.               *)
(***************************************************************************)
EXTENDS Naturals, Sequences

CONSTANT Content

VARIABLES
  history,      \* the contents installed one after the other, the last one current
  settled,      \* no crash goes back behind this one
  confirmed     \* the contents whose store was reported to have succeeded

fileVars == <<history, settled, confirmed>>

Init == history \in [{1} -> Content] /\ settled = 1 /\ confirmed = {}

Install ==
  /\ \E c \in Content : history' = Append(history, c)
  /\ UNCHANGED <<settled, confirmed>>

Settle ==
  /\ settled' \in settled + 1..Len(history)
  /\ UNCHANGED <<history, confirmed>>

Confirm ==
  /\ \E n \in 1..settled : confirmed' = confirmed \cup {history[n]}
  /\ UNCHANGED <<history, settled>>

Crash ==
  /\ \E n \in settled..Len(history) : history' = SubSeq(history, 1, n) /\ settled' = n
  /\ UNCHANGED confirmed

Next == Install \/ Settle \/ Confirm \/ Crash
Spec == Init /\ [][Next]_fileVars
=============================================================================
