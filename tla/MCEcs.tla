-------------------------------- MODULE MCEcs --------------------------------
(***************************************************************************)
(* The entity-component world, one of two ways: three entities without     *)
(* views, or two and one view over any of the lists of two types.          *)
(***************************************************************************)
EXTENDS EcsViews

CONSTANTS
  ViewedEntities,   \* bound: the entities of a world that is viewed
  ViewedRevisions   \* bound: the revision after which nothing more is asked of it

VARIABLE viewed           \* the application holds views

MCRequirements == {<<>>, <<1>>, <<1, 2>>, <<2, 1>>}

MCInit == ViewsInit /\ viewed \in BOOLEAN

MCNext ==
  /\ UNCHANGED viewed
  /\ \/ ~viewed /\ EcsNext /\ UNCHANGED views
     \/ /\ viewed
        /\ \/ ViewStep
           \/ /\ \/ revision < ViewedRevisions /\ Application
                 \/ DestroyUnviewed \/ Operation \/ CleanupReturns
              /\ slot_capacity' <= ViewedEntities /\ UNCHANGED views

MCSpec == MCInit /\ [][MCNext]_<<viewVars, viewed>>
=============================================================================
