----------------------------- MODULE AssetStore -----------------------------
(***************************************************************************)
(* Atomic replacement of a file, aforc_asset_store_binary_atomic of        *)
(* asset_file.c: write a temporary file beside the destination, flush and  *)
(* synchronize it, rename it over the destination, synchronize the         *)
(* directory.  Any call may fail, a writer may be killed and the machine   *)
(* may lose its power between any two calls, and several writers may store *)
(* over one destination at a time.                                         *)
(*                                                                         *)
(* The file system is what POSIX lets a program count on: what is written  *)
(* reaches the disk at any time, and surely by fsync; the entries of a     *)
(* directory change one after the other, and a power loss keeps a first    *)
(* part of the changes that were not synchronized, at least.               *)
(***************************************************************************)
EXTENDS Naturals, Sequences, SequencesExt, FiniteSets

CONSTANTS
  Writer,       \* calls of the function that may be in progress together
  Inodes,       \* bound: how many files are created, the first one included
  Chunks,       \* how many writes a content takes
  MaxCrashes    \* bound: kills and power losses

ASSUME StoreConstants ==
  /\ Inodes \in Nat \ {0} /\ Chunks \in Nat \ {0} /\ MaxCrashes \in Nat

VARIABLES
  call,         \* writer -> [pc, inode, status, renamed]
  data,         \* inode -> how many chunks of its content have been written
  synced,       \* inode -> how many of them are on the disk for sure
  journal,      \* the directory, name -> inode: the states it may have on the
                \* disk, oldest first; the last one is what programs see
  created,      \* inodes given out
  crashes,
  replaced,     \* what was installed and not undone; not in the code
  confirmed     \* what was reported to have succeeded; not in the code

callVars  == <<call, crashes>>
diskVars  == <<data, synced, journal, created>>
storeVars == <<callVars, diskVars, replaced, confirmed>>

Inode == 1..Inodes
First == 1        \* the file that is there before the first store

Destination == 0
Temporary(i) == i        \* mkstemp gives every file a name of its own

Directory == Last(journal)

Idle == [pc |-> "idle", inode |-> First, status |-> "ok", renamed |-> FALSE]

Init ==
  /\ call = [w \in Writer |-> Idle]
  /\ data = [i \in Inode |-> IF i = First THEN Chunks ELSE 0]
  /\ synced = data
  /\ journal = << [n \in {Destination} |-> First] >>
  /\ created = 1
  /\ crashes = 0
  /\ replaced = <<First>> /\ confirmed = {}

-----------------------------------------------------------------------------
At(w, pc) == call[w].pc = pc
Goto(w, pc) == call' = [call EXCEPT ![w].pc = pc]
Fail(w, pc) == call' = [call EXCEPT ![w].pc = pc, ![w].status = "io"]

\* A change of the directory, seen at once and on the disk some time.
Change(directory) == journal' = Append(journal, directory)

Without(name) == [n \in DOMAIN Directory \ {name} |-> Directory[n]]

\* mkstemp in the directory of the destination.
Create(w) ==
  /\ At(w, "idle")
  /\ created < Inodes
  /\ created' = created + 1
  /\ Change([n \in DOMAIN Directory \cup {Temporary(created')} |->
               IF n = Temporary(created') THEN created' ELSE Directory[n]])
  /\ call' = [call EXCEPT ![w] = [pc |-> "write", inode |-> created',
                                  status |-> "ok", renamed |-> FALSE]]
  /\ UNCHANGED <<data, synced, crashes, replaced, confirmed>>

\* fcntl or fdopen fails: the descriptor is closed and the file removed.
PrepareFails(w) ==
  /\ At(w, "write") /\ data[call[w].inode] = 0
  /\ Fail(w, "cleanup")
  /\ UNCHANGED <<diskVars, crashes, replaced, confirmed>>

\* The stream passes on a chunk, in fwrite or in fflush.
Write(w) ==
  /\ At(w, "write") /\ data[call[w].inode] < Chunks
  /\ data' = [data EXCEPT ![call[w].inode] = @ + 1]
  /\ UNCHANGED <<callVars, synced, journal, created, replaced, confirmed>>

\* fwrite, fflush or fsync fails: only the stream is still to be closed.
WriteFails(w) ==
  /\ At(w, "write")
  /\ Fail(w, "close")
  /\ UNCHANGED <<diskVars, crashes, replaced, confirmed>>

Sync_FlushOnly(w) ==
  /\ At(w, "write") /\ data[call[w].inode] = Chunks
  /\ UNCHANGED synced
  /\ Goto(w, "close")
  /\ UNCHANGED <<data, journal, created, crashes, replaced, confirmed>>

\* fflush has nothing left, and fsync succeeds.
Sync(w) ==
  /\ At(w, "write") /\ data[call[w].inode] = Chunks
  /\ synced' = [synced EXCEPT ![call[w].inode] = Chunks]
  /\ Goto(w, "close")
  /\ UNCHANGED <<data, journal, created, crashes, replaced, confirmed>>

\* fclose, which may fail too.
Close(w) ==
  /\ At(w, "close")
  /\ \E closed \in BOOLEAN :
       IF closed /\ call[w].status = "ok" THEN Goto(w, "rename") ELSE Fail(w, "cleanup")
  /\ UNCHANGED <<diskVars, crashes, replaced, confirmed>>

Rename(w) ==
  /\ At(w, "rename")
  /\ Change([Without(Temporary(call[w].inode)) EXCEPT ![Destination] = call[w].inode])
  /\ call' = [call EXCEPT ![w].pc = "sync_directory", ![w].renamed = TRUE]
  /\ replaced' = Append(replaced, call[w].inode)
  /\ UNCHANGED <<data, synced, created, crashes, confirmed>>

RenameFails(w) ==
  /\ At(w, "rename")
  /\ Fail(w, "cleanup")
  /\ UNCHANGED <<diskVars, crashes, replaced, confirmed>>

SyncDirectory_Skipped(w) ==
  /\ At(w, "sync_directory")
  /\ Goto(w, "cleanup")
  /\ UNCHANGED <<diskVars, crashes, replaced, confirmed>>

\* aforc_sync_parent_directory: every change so far is on the disk.
SyncDirectory(w) ==
  /\ At(w, "sync_directory")
  /\ journal' = <<Directory>>
  /\ Goto(w, "cleanup")
  /\ UNCHANGED <<data, synced, created, crashes, replaced, confirmed>>

\* open, fsync or, when the directory was synchronized already, close fails.
SyncDirectoryFails(w) ==
  /\ At(w, "sync_directory")
  /\ journal' \in {journal, <<Directory>>}
  /\ Fail(w, "cleanup")
  /\ UNCHANGED <<data, synced, created, crashes, replaced, confirmed>>

\* The end: a temporary file that was not renamed is unlinked, if that succeeds.
Cleanup(w) ==
  /\ At(w, "cleanup")
  /\ IF call[w].renamed THEN UNCHANGED journal
     ELSE UNCHANGED journal \/ Change(Without(Temporary(call[w].inode)))
  /\ confirmed' = IF call[w].status = "ok" THEN confirmed \cup {call[w].inode} ELSE confirmed
  /\ Goto(w, "idle")
  /\ UNCHANGED <<data, synced, created, crashes, replaced>>

-----------------------------------------------------------------------------
\* The process of a writer is killed; what it wrote stays.
Kill(w) ==
  /\ crashes < MaxCrashes /\ crashes' = crashes + 1
  /\ ~At(w, "idle")
  /\ call' = [call EXCEPT ![w] = Idle]
  /\ UNCHANGED <<diskVars, replaced, confirmed>>

\* What was installed when the directory was in its n-th state on the disk.
ReplacedAt(n) ==
  SubSeq(replaced, 1, CHOOSE k \in DOMAIN replaced : replaced[k] = journal[n][Destination])

\* The power goes: of each file at least what was synchronized is there, of the
\* changes of the directory a first part.
PowerLoss ==
  /\ crashes < MaxCrashes /\ crashes' = crashes + 1
  /\ call' = [w \in Writer |-> Idle]
  /\ \E kept \in [Inode -> 0..Chunks], n \in DOMAIN journal :
       /\ \A i \in Inode : kept[i] \in synced[i]..data[i]
       /\ data' = kept /\ synced' = kept
       /\ journal' = <<journal[n]>>
       /\ replaced' = ReplacedAt(n)
  /\ UNCHANGED <<created, confirmed>>

Next ==
  \/ \E w \in Writer :
       \/ Create(w) \/ PrepareFails(w) \/ Write(w) \/ WriteFails(w) \/ Sync(w) \/ Close(w)
       \/ Rename(w) \/ RenameFails(w) \/ SyncDirectory(w) \/ SyncDirectoryFails(w)
       \/ Cleanup(w) \/ Kill(w)
  \/ PowerLoss

Spec == Init /\ [][Next]_storeVars

-----------------------------------------------------------------------------
(* Properties.                                                               *)

\* "The destination is always the previous complete file or the new complete
\* file" (assets.h), for programs that open it and after a power loss, whatever
\* failed or was killed and however many writers there are: each state the
\* directory may come back in leads to a content that is whole on the disk.
DestinationIsWhole ==
  \A n \in DOMAIN journal : synced[journal[n][Destination]] = Chunks

\* The destination goes from content to content in the order of the renames; a
\* power loss takes it back by some of them, and never behind a store that
\* returned AFORC_OK.
File == INSTANCE AtomicFile WITH
  Content   <- Inode,
  history   <- replaced,
  settled   <- Len(ReplacedAt(1)),
  confirmed <- confirmed

ReplacesAtomically == File!Spec
=============================================================================
