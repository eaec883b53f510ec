----------------------------- MODULE EntityStore -----------------------------
(***************************************************************************)
(* What an entity-component world promises: handles that are issued once   *)
(* in the life of a world and never come back, and components that keep    *)
(* the value given to them until they are detached from their entity.      *)
(* include/aforc/ecs.h states it; Ecs implements it.                       *)
(***************************************************************************)
EXTENDS Functions

CONSTANTS Handle, Type, Value

VARIABLES
  issued,       \* every handle given out since the world was created
  live,         \* the handles of the entities that exist
  component     \* the value of each <<entity, type>> that is attached

vars == <<issued, live, component>>

Init == issued = {} /\ live = {} /\ component = <<>>

Create ==
  \E h \in Handle \ issued :
    /\ issued' = issued \cup {h}
    /\ live' = live \cup {h}
    /\ UNCHANGED component

Attach ==
  \E h \in live, t \in Type, v \in Value :
    /\ <<h, t>> \notin DOMAIN component
    /\ component' = [x \in DOMAIN component \cup {<<h, t>>} |->
                       IF x = <<h, t>> THEN v ELSE component[x]]
    /\ UNCHANGED <<issued, live>>

Detach ==
  \E x \in DOMAIN component :
    /\ component' = Restrict(component, DOMAIN component \ {x})
    /\ UNCHANGED <<issued, live>>

\* An entity goes only when it has nothing attached.
Retire ==
  \E h \in live :
    /\ \A t \in Type : <<h, t>> \notin DOMAIN component
    /\ live' = live \ {h}
    /\ UNCHANGED <<issued, component>>

\* So do all of them, and the world itself, which forgets its handles.
RetireAll ==
  /\ DOMAIN component = {}
  /\ live' = {}
  /\ UNCHANGED <<issued, component>>

Forget ==
  /\ DOMAIN component = {}
  /\ live' = {} /\ issued' = {}
  /\ UNCHANGED component

Next == Create \/ Attach \/ Detach \/ Retire \/ RetireAll \/ Forget

Spec == Init /\ [][Next]_vars
=============================================================================
