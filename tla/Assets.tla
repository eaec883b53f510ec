------------------------------- MODULE Assets -------------------------------
(***************************************************************************)
(* The parts of the assets side by side, one per behaviour: the atomic     *)
(* store, the paths, the loads, a saved game and a configuration file.     *)
(***************************************************************************)
EXTENDS AssetStore, AssetFiles, SaveContainer, ConfigFile

VARIABLE part   \* the part a behaviour is about

Others(own) ==
  /\ own # "store" => UNCHANGED storeVars
  /\ own # "path" => UNCHANGED joined
  /\ own # "load" => UNCHANGED loadVars
  /\ own # "save" => UNCHANGED saveVars
  /\ own # "config" => UNCHANGED configVars

AssetsVars == <<storeVars, joined, loadVars, saveVars, configVars, part>>

AssetsInit ==
  /\ Init /\ PathStart /\ LoadStart /\ SaveStart /\ ConfigStart
  /\ part \in {"store", "path", "load", "save", "config"}

AssetsNext ==
  /\ UNCHANGED part /\ Others(part)
  /\ \/ part = "store" /\ Next
     \/ part = "path" /\ PathNext
     \/ part = "load" /\ LoadNext
     \/ part = "save" /\ SaveNext
     \/ part = "config" /\ ConfigNext

AssetsSpec == AssetsInit /\ [][AssetsNext]_AssetsVars

(* What a file holds is what comes in: a load takes all of a file within its *)
(* limit or nothing (LoadIsWhole, AssetFiles), and a document becomes its     *)
(* pairs, each once, or nothing (ConfigIsExact, ConfigFile).                 *)
InputsAreExact == LoadIsWhole /\ ConfigIsExact
=============================================================================
