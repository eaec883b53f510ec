----------------------------- MODULE AssetFiles -----------------------------
(***************************************************************************)
(* Assets and their files.  Paths (asset_path.c): the lexical rules for a  *)
(* path below a root, and the join of the two into the caller's buffer or  *)
(* a new one.  A text is a sequence of characters; "~" stands for the      *)
(* control ones.  Loads (aforc_stream_load of asset_file.c): a block that  *)
(* grows up to a limit, reads that come up short at the end of the file or *)
(* by an error, and a text's end behind its last byte; and the plain       *)
(* store, aforc_asset_store_binary, which may leave part of a file.        *)
(***************************************************************************)
EXTENDS Naturals, Sequences, SequencesExt

CONSTANTS
  RelativePaths,  \* the paths that are asked for
  Roots,          \* the roots they are joined to
  PathPolicies,   \* [max_path_bytes, max_component_bytes, max_depth, allow_hidden]
  Buffers         \* the sizes of the callers' buffers

ASSUME PathConstants ==
  Buffers \subseteq Nat \ {0} /\ RelativePaths \subseteq Seq(STRING) /\ Roots \subseteq Seq(STRING)

VARIABLE joined   \* the last join: its arguments, what it wrote and returned

NotJoined == [root |-> <<>>, relative |-> <<>>, text |-> <<>>, status |-> "none", held |-> 0]

PathStart == joined = NotJoined

\* The components of a path, in order: a separator ends one and begins the next.
Extended(parts, character) ==
  IF character = "/" THEN Append(parts, <<>>)
  ELSE Append(Front(parts), Append(Last(parts), character))

Components(path) ==
  LET parts[n \in 0..Len(path)] ==
        IF n = 0 THEN <<<<>>>> ELSE Extended(parts[n - 1], path[n])
  IN parts[Len(path)]

Rejected == {"\\", ":", "~"}

\* What the loop of aforc_asset_path_validate says of the component at a depth.
ComponentStatus(component, depth, policy) ==
  IF \E i \in DOMAIN component : component[i] \in Rejected THEN "format"
  ELSE IF component = <<>> THEN "format"
  ELSE IF Len(component) > policy.max_component_bytes THEN "limit"
  ELSE IF component \in {<<".">>, <<".", ".">>} THEN "format"
  ELSE IF ~policy.allow_hidden /\ component[1] = "." THEN "format"
  ELSE IF depth > policy.max_depth THEN "limit"
  ELSE "ok"

\* The first component that fails decides.
ValidateWith(components, policy) ==
  LET failing == {n \in DOMAIN components : ComponentStatus(components[n], n, policy) # "ok"}
      first   == CHOOSE n \in failing : \A k \in failing : n <= k
  IN IF failing = {} THEN "ok" ELSE ComponentStatus(components[first], first, policy)

Validate(path, policy) ==
  IF Len(path) > policy.max_path_bytes THEN "limit"
  ELSE IF path = <<>> \/ path[1] = "/" THEN "format"
  ELSE ValidateWith(Components(path), policy)

\* Mutant: no separator is put between the root and the path.
Measured_NoSeparator(root, relative, policy) ==
  LET text  == root \o relative
      valid == Validate(relative, policy)
  IN IF valid # "ok" THEN [status |-> valid, text |-> <<>>]
     ELSE IF \E i \in DOMAIN root : root[i] = "~" THEN [status |-> "format", text |-> <<>>]
     ELSE IF Len(text) > policy.max_path_bytes THEN [status |-> "limit", text |-> <<>>]
     ELSE [status |-> "ok", text |-> text]

\* aforc_path_measure: the joined text, or why there is none.
Measured(root, relative, policy) ==
  LET separator == IF root # <<>> /\ Last(root) \notin {"/", "\\"} THEN <<"/">> ELSE <<>>
      text      == root \o separator \o relative
      valid     == Validate(relative, policy)
  IN IF valid # "ok" THEN [status |-> valid, text |-> <<>>]
     ELSE IF Len(root) > policy.max_path_bytes THEN [status |-> "limit", text |-> <<>>]
     ELSE IF \E i \in DOMAIN root : root[i] = "~" THEN [status |-> "format", text |-> <<>>]
     ELSE IF Len(text) > policy.max_path_bytes THEN [status |-> "limit", text |-> <<>>]
     ELSE [status |-> "ok", text |-> text]

\* aforc_asset_path_join: an error leaves an empty text in the buffer.
Join(root, relative, policy, size, allocates) ==
  LET parts == Measured(root, relative, policy)
      Said(status, text) == [root |-> root, relative |-> relative, text |-> text,
                             status |-> status, held |-> size]
  IN joined' = IF parts.status # "ok" THEN Said(parts.status, <<>>)
               ELSE IF Len(parts.text) >= size THEN Said("limit", <<>>)
               ELSE IF ~allocates THEN Said("memory", <<>>)
               ELSE Said("ok", parts.text)

\* aforc_asset_path_allocate: a block of the size of the text and its end.
Allocate(root, relative, policy, allocates) ==
  LET parts == Measured(root, relative, policy)
      Said(status, text, size) == [root |-> root, relative |-> relative, text |-> text,
                                   status |-> status, held |-> size]
  IN joined' = IF parts.status # "ok" THEN Said(parts.status, <<>>, 0)
               ELSE IF ~allocates THEN Said("memory", <<>>, 0)
               ELSE Said("ok", parts.text, Len(parts.text) + 1)

PathNext ==
  /\ joined = NotJoined
  /\ \E root \in Roots, relative \in RelativePaths, policy \in PathPolicies, allocates \in BOOLEAN :
       \/ \E size \in Buffers : Join(root, relative, policy, size, allocates)
       \/ Allocate(root, relative, policy, allocates)

PathSpec == PathStart /\ [][PathNext]_joined

-----------------------------------------------------------------------------
\* The names a file system walks down from the root; above it, it leaves it.
Outside == <<"/">>   \* which no name is

Walked(names, name) ==
  IF name \in {<<>>, <<".">>} THEN names
  ELSE IF name # <<".", ".">> THEN Append(names, name)
  ELSE IF names = <<>> \/ Last(names) = Outside THEN Append(names, Outside)
  ELSE Front(names)

Walk(components) ==
  LET walk[n \in 0..Len(components)] ==
        IF n = 0 THEN <<>> ELSE Walked(walk[n - 1], components[n])
  IN walk[Len(components)]

Absolute(path) == path # <<>> /\ path[1] = "/"

(* A path that is accepted names one file below the root and no other        *)
(* accepted path names it: the walk never leaves the root and ends on a file *)
(* as deep as the path has components.  The joined text, in a buffer that    *)
(* holds it and its end, leads to that file: to where the root leads, and    *)
(* from there along the path; and it is absolute if and only if the root is. *)
(* A root that ends in a backslash is said apart: the code takes it for a    *)
(* separator of its own and adds none, so that where "/" alone separates the *)
(* text is only the one put before the other.  A refused one leaves no text. *)
PathsStayInside ==
  LET walk == Walk(Components(joined.relative))
  IN IF joined.status # "ok" THEN joined.text = <<>>
     ELSE /\ Outside \notin {walk[i] : i \in DOMAIN walk}
          /\ Len(walk) = Len(Components(joined.relative))
          /\ Len(joined.text) < joined.held
          /\ IF joined.root # <<>> /\ Last(joined.root) = "\\"
             THEN joined.text = joined.root \o joined.relative
             ELSE Walk(Components(joined.text)) = Walk(Components(joined.root)) \o walk
          /\ Absolute(joined.text) <=> Absolute(joined.root)
          /\ \A policy \in PathPolicies : \A other \in RelativePaths \ {joined.relative} :
               Validate(other, policy) = "ok" => Walk(Components(other)) # walk

-----------------------------------------------------------------------------
(* Loads and stores.                                                         *)

CONSTANTS
  FileSizes,      \* the sizes of files
  LoadLimits,     \* the limits that callers set
  FirstBlock      \* the size of the first block, 4096

ASSUME LoadConstants ==
  FileSizes \subseteq Nat /\ LoadLimits \subseteq Nat /\ FirstBlock \in Nat \ {0}

VARIABLES
  file,           \* [size, zero]: how long it is, and whether its last byte is zero
  load,           \* the load in progress, or the last one
  stored          \* the store in progress, or the last one

loadVars == <<file, load, stored>>

NotLoaded == [pc |-> "idle", text |-> FALSE, max |-> 0, size |-> 0, capacity |-> 0,
              block |-> 0, status |-> "none"]
Empty     == [size |-> 0, zero |-> FALSE]
NotStored == [pc |-> "idle", content |-> Empty, status |-> "none"]
LoadStart == file = Empty /\ load = NotLoaded /\ stored = NotStored

\* aforc_assets_growth_capacity, for required \in current..maximum: by half and one
\* more, up to the maximum, until it is enough.
Grown(size, required, maximum) ==
  LET increment == (size \div 2) + 1
  IN IF size >= required THEN size
     ELSE IF increment > maximum - size THEN maximum ELSE size + increment

GrowthCapacity(current, required, maximum, initial) ==
  LET first == IF current = 0 THEN initial ELSE current
      size[n \in 0..required] ==
        IF n = 0 THEN IF first > maximum THEN maximum ELSE first
        ELSE Grown(size[n - 1], required, maximum)
  IN size[required]

\* aforc_asset_load_binary and aforc_asset_load_text, once the file is open.
Open(content, text, max) ==
  /\ load.pc = "idle" /\ stored.pc # "write"
  /\ stored.pc = "done" => content = file
  /\ file' = content /\ UNCHANGED stored
  /\ load' = [NotLoaded EXCEPT !.pc = "grow", !.text = text, !.max = max, !.status = "ok"]

Ends(status) ==
  load' = [load EXCEPT !.pc = "end", !.status = status] /\ UNCHANGED <<file, stored>>

\* A full block that may still grow does so, by a byte more for the end of a text.
Grow ==
  LET next == GrowthCapacity(load.capacity, load.capacity + 1, load.max, FirstBlock)
  IN /\ load.pc = "grow" /\ load.capacity < load.max
     /\ \/ /\ load' = [load EXCEPT !.pc = "read", !.capacity = next,
                                   !.block = next + (IF load.text THEN 1 ELSE 0)]
           /\ UNCHANGED <<file, stored>>
        \/ Ends("memory")

\* At the limit one more byte is asked for: there must be none, nor an error.
AskForMore ==
  /\ load.pc = "grow" /\ load.capacity = load.max
  /\ Ends(IF load.size < file.size THEN "limit" ELSE "ok") \/ Ends("io")

\* fread fills the block, comes up short at the end of the file, or by an error.
Read ==
  /\ load.pc = "read"
  /\ \/ /\ file.size >= load.capacity
        /\ load' = [load EXCEPT !.pc = "grow", !.size = load.capacity]
     \/ /\ file.size < load.capacity
        /\ load' = [load EXCEPT !.pc = "end", !.size = file.size]
     \/ /\ \E size \in load.size..file.size :
             /\ size < load.capacity
             /\ load' = [load EXCEPT !.pc = "end", !.size = size, !.status = "io"]
  /\ UNCHANGED <<file, stored>>

\* The end of the load: an empty binary keeps no block, a text gets its end, whatever
\* failed keeps nothing; the file may still fail to close.
Finish ==
  LET block  == IF load.text THEN (IF load.block = 0 THEN 1 ELSE load.block)
                ELSE IF load.size = 0 THEN 0 ELSE load.block
      Done(status) ==
        load' = IF status = "ok" THEN [load EXCEPT !.pc = "done", !.block = block]
                ELSE [load EXCEPT !.pc = "done", !.block = 0, !.size = 0, !.status = status]
  IN /\ load.pc = "end"
     /\ IF load.status # "ok" THEN Done(load.status)
        ELSE \/ Done(IF load.text /\ file.zero THEN "format" ELSE "ok")
             \/ Done("io")
             \/ load.text /\ load.block = 0 /\ Done("memory")
     /\ UNCHANGED <<file, stored>>

-----------------------------------------------------------------------------
StoreEnds(status) == stored' = [stored EXCEPT !.pc = "done", !.status = status]

\* aforc_asset_store_binary: a content over the limit and a file that does not open
\* leave what is there; one that opens is emptied.
StoreBegins(content, max) ==
  /\ load.pc = "done" /\ stored.pc = "idle"
  /\ load' = NotLoaded
  /\ \/ content.size > max /\ StoreEnds("limit") /\ UNCHANGED file
     \/ content.size <= max /\ StoreEnds("io") /\ UNCHANGED file
     \/ /\ content.size <= max /\ file' = Empty
        /\ stored' = [pc |-> "write", content |-> content, status |-> "ok"]

\* The stream passes on a byte, when it is written or when it is closed.
StoreWrites ==
  /\ stored.pc = "write" /\ file.size < stored.content.size
  /\ file' = [size |-> file.size + 1,
              zero |-> stored.content.zero /\ file.size + 1 = stored.content.size]
  /\ UNCHANGED <<load, stored>>

\* fwrite or fclose fails, or all is written and closed.
StoreFinishes ==
  /\ stored.pc = "write"
  /\ StoreEnds("io") \/ (file.size = stored.content.size /\ StoreEnds("ok"))
  /\ UNCHANGED <<file, load>>

LoadNext ==
  \/ \E content \in [size : FileSizes, zero : BOOLEAN], max \in LoadLimits :
       /\ content.zero => content.size > 0
       /\ StoreBegins(content, max) \/ \E text \in BOOLEAN : Open(content, text, max)
  \/ Grow \/ AskForMore \/ Read \/ Finish \/ StoreWrites \/ StoreFinishes

LoadSpec == LoadStart /\ [][LoadNext]_loadVars

-----------------------------------------------------------------------------
(* A load is all of the file or nothing: it succeeds only with every byte of *)
(* a file no longer than the limit, in a block that holds them and the end   *)
(* of a text, without which a text would be read past its block; a load that *)
(* fails at any point keeps no memory.  After a store that succeeded the file *)
(* has the content stored, and a load that succeeds returns it.              *)
LoadIsWhole ==
  /\ load.size <= load.capacity \/ load.pc = "done"
  /\ load.capacity <= load.max /\ (load.pc # "done" => load.capacity <= load.block)
  /\ (load.pc = "done" /\ load.status = "ok") =>
       /\ load.size = file.size /\ load.size <= load.max
       /\ load.size + (IF load.text THEN 1 ELSE 0) <= load.block
       /\ ~load.text => (load.block = 0 <=> load.size = 0)
       /\ load.text => ~file.zero
  /\ (load.pc = "done" /\ load.status # "ok") => load.block = 0
  /\ (stored.pc = "done" /\ stored.status = "ok") =>
       /\ file = stored.content
       /\ (load.pc = "done" /\ load.status = "ok") => load.size = stored.content.size
=============================================================================
