-------------------------- MODULE AssetStoreProofs --------------------------
(***************************************************************************)
(* The atomic store, for every set of writers and every number of files,   *)
(* writes and crashes: the destination is always whole, and the store      *)
(* implements AtomicFile.  Then the paths and the loads of AssetFiles, the *)
(* configurations of ConfigFile and the saved games of SaveContainer.      *)
(***************************************************************************)
EXTENDS Assets, SequenceTheorems, FiniteSetTheorems, NaturalsInduction, WellFoundedInduction, TLAPS

Names == 0 .. Inodes
Directories == UNION {[names -> Inode] : names \in {D \in SUBSET Names : Destination \in D}}

Calls == [pc      : {"idle", "write", "close", "rename", "sync_directory", "cleanup"},
          inode   : Inode,
          status  : {"ok", "io"},
          renamed : BOOLEAN]

TypeInv ==
  /\ call \in [Writer -> Calls]
  /\ data \in [Inode -> 0..Chunks] /\ synced \in [Inode -> 0..Chunks]
  /\ journal \in Seq(Directories) /\ journal # <<>>
  /\ created \in Inode

\* A file that is about to be renamed is on the disk.
Ready(w)  == At(w, "rename") \/ (At(w, "close") /\ call[w].status = "ok")
SyncedInv == \A w \in Writer : Ready(w) => synced[call[w].inode] = Chunks

WholeInv == TypeInv /\ SyncedInv /\ DestinationIsWhole

-----------------------------------------------------------------------------
(* Directories and the journal.                                              *)

LEMMA DirectoryIntro ==
  ASSUME NEW D \in SUBSET Names, Destination \in D, NEW f \in [D -> Inode]
  PROVE  f \in Directories
BY DEF Directories

LEMMA DirectoryElim ==
  ASSUME NEW f \in Directories
  PROVE  /\ DOMAIN f \in SUBSET Names /\ Destination \in DOMAIN f
         /\ f \in [DOMAIN f -> Inode] /\ f[Destination] \in Inode
BY DEF Directories

LEMMA LastDirectory ==
  ASSUME TypeInv
  PROVE  /\ Len(journal) \in Nat \ {0} /\ DOMAIN journal = 1..Len(journal)
         /\ Directory = journal[Len(journal)] /\ Directory \in Directories
         /\ \A n \in DOMAIN journal : journal[n] \in Directories
<1>1. Len(journal) \in Nat \ {0} /\ DOMAIN journal = 1..Len(journal)
  BY EmptySeq DEF TypeInv
<1>2. \A n \in DOMAIN journal : journal[n] \in Directories
  BY <1>1 DEF TypeInv
<1> QED  BY <1>1, <1>2 DEF Directory, Last

\* A change of the directory leaves the states it had in the journal.
LEMMA JournalAfterChange ==
  ASSUME TypeInv, NEW d \in Directories, Change(d)
  PROVE  /\ journal' \in Seq(Directories) /\ journal' # <<>>
         /\ Len(journal') = Len(journal) + 1
         /\ \A n \in DOMAIN journal : n \in DOMAIN journal' /\ journal'[n] = journal[n]
         /\ \A n \in DOMAIN journal' : n \in DOMAIN journal \/ n = Len(journal')
         /\ journal'[Len(journal')] = d
<1>1. journal \in Seq(Directories) /\ journal' = Append(journal, d)
  BY DEF Change, TypeInv
<1>2. /\ journal' \in Seq(Directories) /\ Len(journal') = Len(journal) + 1
      /\ \A n \in 1..Len(journal) : journal'[n] = journal[n]
      /\ journal'[Len(journal) + 1] = d
  BY <1>1, AppendProperties
<1>3. /\ Len(journal) \in Nat
      /\ DOMAIN journal = 1..Len(journal) /\ DOMAIN journal' = 1..Len(journal')
  BY <1>1, <1>2, LenProperties
<1>4. journal' # <<>>
  BY <1>2, <1>3, EmptySeq
<1> QED  BY <1>2, <1>3, <1>4

\* Taking a temporary name away keeps the destination.
LEMMA WithoutTemporary ==
  ASSUME TypeInv, NEW i \in Inode
  PROVE  /\ Without(Temporary(i)) \in Directories
         /\ Without(Temporary(i))[Destination] = Directory[Destination]
<1>1. Directory \in Directories
  BY LastDirectory
<1> DEFINE D == DOMAIN Directory \ {Temporary(i)}
<1>2. D \in SUBSET Names /\ Destination \in D
  BY <1>1, DirectoryElim DEF Temporary, Destination, Inode
<1>3. Without(Temporary(i)) \in [D -> Inode]
  BY <1>1, DirectoryElim DEF Without
<1>4. Without(Temporary(i))[Destination] = Directory[Destination]
  BY <1>2 DEF Without
<1> QED  BY <1>2, <1>3, <1>4, DirectoryIntro

\* A new temporary name leaves the destination alone.
LEMMA WithTemporary ==
  ASSUME TypeInv, NEW i \in Inode,
         NEW d, d = [n \in DOMAIN Directory \cup {Temporary(i)} |->
                       IF n = Temporary(i) THEN i ELSE Directory[n]]
  PROVE  d \in Directories /\ d[Destination] = Directory[Destination]
<1>1. Directory \in Directories
  BY LastDirectory
<1> DEFINE D == DOMAIN Directory \cup {Temporary(i)}
<1>2. D \in SUBSET Names /\ Destination \in D /\ Destination # Temporary(i)
  BY <1>1, DirectoryElim DEF Temporary, Destination, Inode, Names
<1>3. d \in [D -> Inode]
  BY <1>1, DirectoryElim
<1>4. d[Destination] = Directory[Destination]
  BY <1>2
<1> QED  BY <1>2, <1>3, <1>4, DirectoryIntro

\* The rename puts the file under the destination's name.
LEMMA RenamedDirectory ==
  ASSUME TypeInv, NEW i \in Inode,
         NEW d, d = [Without(Temporary(i)) EXCEPT ![Destination] = i]
  PROVE  d \in Directories /\ d[Destination] = i
<1>1. /\ DOMAIN Without(Temporary(i)) \in SUBSET Names
      /\ Destination \in DOMAIN Without(Temporary(i))
      /\ Without(Temporary(i)) \in [DOMAIN Without(Temporary(i)) -> Inode]
  BY WithoutTemporary, DirectoryElim
<1>2. d \in [DOMAIN Without(Temporary(i)) -> Inode] /\ d[Destination] = i
  BY <1>1
<1> QED  BY <1>1, <1>2, DirectoryIntro

\* Synchronizing the directory leaves its current state in the journal.
LEMMA JournalAfterSync ==
  ASSUME TypeInv, journal' = <<Directory>>
  PROVE  /\ journal' \in Seq(Directories) /\ journal' # <<>>
         /\ Len(journal') = 1 /\ DOMAIN journal' = {1} /\ journal'[1] = Directory
BY LastDirectory

\* The current directory after a rename.
LEMMA RenameInstalls ==
  ASSUME TypeInv, NEW w \in Writer, Rename(w)
  PROVE  /\ call[w].inode \in Inode /\ replaced' = Append(replaced, call[w].inode)
         /\ \E d \in Directories : d[Destination] = call[w].inode /\ Change(d)
<1>1. call[w].inode \in Inode
  BY DEF TypeInv, Calls
<1>2. [Without(Temporary(call[w].inode)) EXCEPT ![Destination] = call[w].inode] \in Directories
  BY <1>1, RenamedDirectory
<1>3. [Without(Temporary(call[w].inode)) EXCEPT ![Destination] = call[w].inode][Destination]
        = call[w].inode
  BY <1>1, RenamedDirectory
<1> QED  BY <1>1, <1>2, <1>3 DEF Rename

\* Every other change of the directory leaves the destination alone.
LEMMA CreateKeepsDestination ==
  ASSUME TypeInv, StoreConstants, NEW w \in Writer, Create(w)
  PROVE  /\ created' = created + 1 /\ created' \in Inode
         /\ \E d \in Directories : d[Destination] = Directory[Destination] /\ Change(d)
<1>1. created' = created + 1 /\ created' \in Inode
  BY DEF Create, TypeInv, Inode, StoreConstants
<1> QED  BY <1>1, WithTemporary DEF Create

LEMMA CleanupKeepsDestination ==
  ASSUME TypeInv, NEW w \in Writer, Cleanup(w)
  PROVE  \/ UNCHANGED journal
         \/ \E d \in Directories : d[Destination] = Directory[Destination] /\ Change(d)
<1>1. call[w].inode \in Inode
  BY DEF TypeInv, Calls
<1> QED  BY <1>1, WithoutTemporary DEF Cleanup

-----------------------------------------------------------------------------
(* The destination is whole.                                                 *)

LEMMA TypeInit == StoreConstants /\ Init => TypeInv
<1> SUFFICES ASSUME StoreConstants, Init PROVE TypeInv
  OBVIOUS
<1>1. First \in Inode
  BY DEF StoreConstants, First, Inode
<1>2. call \in [Writer -> Calls]
  BY <1>1 DEF Init, Idle, Calls
<1>3. data \in [Inode -> 0..Chunks] /\ synced \in [Inode -> 0..Chunks]
  BY DEF Init, StoreConstants
<1>4. [n \in {Destination} |-> First] \in Directories
  BY <1>1, DirectoryIntro DEF Destination, Names, StoreConstants
<1>5. journal \in Seq(Directories) /\ journal # <<>>
  BY <1>4 DEF Init
<1> QED  BY <1>1, <1>2, <1>3, <1>5 DEF Init, First, TypeInv

\* What a step does to a call: nothing else than its own, and a crash ends it.
LEMMA CallsStep ==
  ASSUME StoreConstants, TypeInv, Next
  PROVE  call' \in [Writer -> Calls] /\ created' \in Inode
<1>1. First \in Inode
  BY DEF StoreConstants, First, Inode
<1>2. ASSUME NEW w \in Writer, Create(w) PROVE call' \in [Writer -> Calls] /\ created' \in Inode
  <2>1. created' \in Inode
    BY <1>2, CreateKeepsDestination
  <2>2. [pc |-> "write", inode |-> created', status |-> "ok", renamed |-> FALSE] \in Calls
    BY <2>1 DEF Calls
  <2> QED  BY <1>2, <2>1, <2>2 DEF Create, TypeInv
<1>3. ASSUME NEW w \in Writer, NEW pc \in {"close", "rename", "sync_directory", "cleanup", "idle"},
             \/ Goto(w, pc) \/ Fail(w, pc)
             \/ call' = [call EXCEPT ![w].pc = pc, ![w].renamed = TRUE]
      PROVE  call' \in [Writer -> Calls]
  <2>1. call[w] \in Calls /\ call \in [Writer -> Calls]
    BY DEF TypeInv
  <2>2. CASE Goto(w, pc)
    <3>1. [call[w] EXCEPT !.pc = pc] \in Calls
      BY <2>1 DEF Calls
    <3> QED  BY <2>1, <2>2, <3>1 DEF Goto
  <2>3. CASE Fail(w, pc)
    <3>1. [call[w] EXCEPT !.pc = pc, !.status = "io"] \in Calls
      BY <2>1 DEF Calls
    <3> QED  BY <2>1, <2>3, <3>1 DEF Fail
  <2>4. CASE call' = [call EXCEPT ![w].pc = pc, ![w].renamed = TRUE]
    <3>1. [call[w] EXCEPT !.pc = pc, !.renamed = TRUE] \in Calls
      BY <2>1 DEF Calls
    <3> QED  BY <2>1, <2>4, <3>1
  <2> QED  BY <1>3, <2>2, <2>3, <2>4
<1>4. ASSUME NEW w \in Writer, Kill(w) PROVE call' \in [Writer -> Calls]
  BY <1>1, <1>4 DEF Kill, TypeInv, Calls, Idle
<1>5. ASSUME PowerLoss PROVE call' \in [Writer -> Calls]
  BY <1>1, <1>5 DEF PowerLoss, Calls, Idle
<1>6. ASSUME NEW w \in Writer,
             \/ PrepareFails(w) \/ Write(w) \/ WriteFails(w) \/ Sync(w) \/ Close(w)
             \/ Rename(w) \/ RenameFails(w) \/ SyncDirectory(w) \/ SyncDirectoryFails(w)
             \/ Cleanup(w)
      PROVE  call' \in [Writer -> Calls]
  <2>1. CASE Write(w)
    BY <2>1 DEF Write, callVars, TypeInv
  <2>2. CASE Close(w)
    BY <2>2, <1>3 DEF Close
  <2>3. CASE \/ PrepareFails(w) \/ WriteFails(w) \/ Sync(w) \/ Rename(w) \/ RenameFails(w)
             \/ SyncDirectory(w) \/ SyncDirectoryFails(w) \/ Cleanup(w)
    BY <2>3, <1>3 DEF PrepareFails, WriteFails, Sync, Rename, RenameFails, SyncDirectory,
                      SyncDirectoryFails, Cleanup
  <2> QED  BY <1>6, <2>1, <2>2, <2>3
<1>7. \/ created' = created \/ \E w \in Writer : Create(w)
  BY DEF Next, PrepareFails, Write, WriteFails, Sync, Close, Rename, RenameFails, SyncDirectory,
         SyncDirectoryFails, Cleanup, Kill, PowerLoss, diskVars
<1> QED  BY <1>2, <1>4, <1>5, <1>6, <1>7 DEF Next, TypeInv

\* What a step does to the journal and to the contents it installed.
Leaves   == UNCHANGED <<journal, replaced>>
Keeps    == /\ UNCHANGED replaced
            /\ \E d \in Directories : d[Destination] = Directory[Destination] /\ Change(d)
Installs == \E w \in Writer : Rename(w)
Settles  == UNCHANGED replaced /\ journal' = <<Directory>>

LEMMA JournalStep ==
  ASSUME StoreConstants, TypeInv, Next
  PROVE  Leaves \/ Keeps \/ Installs \/ Settles \/ PowerLoss
<1>1. ASSUME NEW w \in Writer, Create(w) PROVE Keeps
  BY <1>1, CreateKeepsDestination DEF Create, Keeps
<1>2. ASSUME NEW w \in Writer, Cleanup(w) PROVE Leaves \/ Keeps
  <2>1. UNCHANGED replaced
    BY <1>2 DEF Cleanup
  <2> QED  BY <1>2, <2>1, CleanupKeepsDestination DEF Keeps, Leaves
<1>3. ASSUME NEW w \in Writer, SyncDirectory(w) \/ SyncDirectoryFails(w) PROVE Leaves \/ Settles
  BY <1>3 DEF SyncDirectory, SyncDirectoryFails, Leaves, Settles
<1>4. ASSUME NEW w \in Writer,
             \/ PrepareFails(w) \/ Write(w) \/ WriteFails(w) \/ Sync(w) \/ Close(w)
             \/ RenameFails(w) \/ Kill(w)
      PROVE  Leaves
  BY <1>4 DEF PrepareFails, Write, WriteFails, Sync, Close, RenameFails, Kill, diskVars, Leaves
<1> QED  BY <1>1, <1>2, <1>3, <1>4 DEF Next, Installs

LEMMA JournalTyped ==
  ASSUME StoreConstants, TypeInv, Next
  PROVE  journal' \in Seq(Directories) /\ journal' # <<>>
<1>1. CASE Leaves
  BY <1>1 DEF Leaves, TypeInv
<1>2. CASE Keeps
  BY <1>2, JournalAfterChange DEF Keeps
<1>3. CASE Installs
  BY <1>3, RenameInstalls, JournalAfterChange DEF Installs
<1>4. CASE Settles
  BY <1>4, JournalAfterSync DEF Settles
<1>5. CASE PowerLoss
  BY <1>5, LastDirectory DEF PowerLoss
<1> QED  BY <1>1, <1>2, <1>3, <1>4, <1>5, JournalStep

\* Every destination in the journal was there before, but for a file renamed.
LEMMA DestinationsStep ==
  ASSUME StoreConstants, TypeInv, Next, NEW n \in DOMAIN journal'
  PROVE  \/ \E m \in DOMAIN journal : journal'[n][Destination] = journal[m][Destination]
         \/ \E w \in Writer : Rename(w) /\ journal'[n][Destination] = call[w].inode
<1>1. CASE Leaves
  BY <1>1 DEF Leaves
<1>2. CASE Keeps
  BY <1>2, JournalAfterChange, LastDirectory DEF Keeps
<1>3. CASE Installs
  BY <1>3, RenameInstalls, JournalAfterChange DEF Installs
<1>4. CASE Settles
  BY <1>4, JournalAfterSync, LastDirectory DEF Settles
<1>5. CASE PowerLoss
  BY <1>5, LastDirectory DEF PowerLoss
<1> QED  BY <1>1, <1>2, <1>3, <1>4, <1>5, JournalStep

\* Nothing takes back what is on the disk for sure.
LEMMA DataStep ==
  ASSUME StoreConstants, TypeInv, Next
  PROVE  /\ data' \in [Inode -> 0..Chunks] /\ synced' \in [Inode -> 0..Chunks]
         /\ \A i \in Inode : synced[i] = Chunks => synced'[i] = Chunks
<1>1. data \in [Inode -> 0..Chunks] /\ synced \in [Inode -> 0..Chunks] /\ Chunks \in Nat
  BY DEF TypeInv, StoreConstants
<1>2. \A w \in Writer : call[w].inode \in Inode
  BY DEF TypeInv, Calls
<1>3. CASE UNCHANGED <<data, synced>>
  BY <1>1, <1>3
<1>4. ASSUME NEW w \in Writer, Write(w)
      PROVE  data' \in [Inode -> 0..Chunks] /\ UNCHANGED synced
  BY <1>1, <1>2, <1>4 DEF Write
<1>5. ASSUME NEW w \in Writer, Sync(w)
      PROVE  /\ synced' \in [Inode -> 0..Chunks] /\ UNCHANGED data
             /\ \A i \in Inode : synced[i] = Chunks => synced'[i] = Chunks
  BY <1>1, <1>2, <1>5 DEF Sync
<1>6. ASSUME PowerLoss
      PROVE  /\ data' \in [Inode -> 0..Chunks] /\ synced' \in [Inode -> 0..Chunks]
             /\ \A i \in Inode : synced[i] = Chunks => synced'[i] = Chunks
  BY <1>1, <1>6 DEF PowerLoss
<1>7. \/ UNCHANGED <<data, synced>> \/ PowerLoss \/ \E w \in Writer : Write(w) \/ Sync(w)
  BY ZenonT(60) DEF Next, Create, PrepareFails, WriteFails, Close, Rename, RenameFails, SyncDirectory,
         SyncDirectoryFails, Cleanup, Kill, diskVars
<1> QED  BY <1>1, <1>3, <1>4, <1>5, <1>6, <1>7

\* What Goto and Fail do to the fields of the calls.
LEMMA GotoFields ==
  ASSUME TypeInv, NEW w \in Writer, NEW pc, Goto(w, pc), NEW v \in Writer
  PROVE  /\ call'[v].inode = call[v].inode /\ call'[v].status = call[v].status
         /\ call'[v].renamed = call[v].renamed
         /\ call'[v].pc = IF v = w THEN pc ELSE call[v].pc
BY DEF TypeInv, Calls, Goto

LEMMA FailFields ==
  ASSUME TypeInv, NEW w \in Writer, NEW pc, Fail(w, pc), NEW v \in Writer
  PROVE  /\ call'[v].inode = call[v].inode
         /\ call'[v].status = IF v = w THEN "io" ELSE call[v].status
         /\ call'[v].renamed = call[v].renamed
         /\ call'[v].pc = IF v = w THEN pc ELSE call[v].pc
BY DEF TypeInv, Calls, Fail

LEMMA RenameFields ==
  ASSUME TypeInv, NEW w \in Writer, Rename(w), NEW v \in Writer
  PROVE  /\ call'[v].inode = call[v].inode /\ call'[v].status = call[v].status
         /\ call'[v].renamed = IF v = w THEN TRUE ELSE call[v].renamed
         /\ call'[v].pc = IF v = w THEN "sync_directory" ELSE call[v].pc
BY ZenonT(60) DEF TypeInv, Calls, Rename

LEMMA CreateFields ==
  ASSUME TypeInv, NEW w \in Writer, Create(w)
  PROVE  /\ call'[w].inode = created' /\ call'[w].status = "ok" /\ call'[w].pc = "write"
         /\ call'[w].renamed = FALSE
         /\ \A v \in Writer \ {w} : call'[v] = call[v]
BY DEF TypeInv, Create

\* Only a synchronization makes a call ready to rename.
LEMMA ReadyStep ==
  ASSUME StoreConstants, TypeInv, Next, NEW v \in Writer, Ready(v)'
  PROVE  call'[v].inode = call[v].inode /\ (Ready(v) \/ Sync(v))
<1> USE DEF Ready, At
<1>1. ASSUME NEW w \in Writer, Create(w) PROVE call'[v].inode = call[v].inode /\ Ready(v)
  BY <1>1, CreateFields
<1>2. ASSUME NEW w \in Writer, Write(w) PROVE call'[v].inode = call[v].inode /\ Ready(v)
  BY <1>2 DEF Write, callVars
<1>3. ASSUME NEW w \in Writer, PrepareFails(w) \/ WriteFails(w) \/ RenameFails(w)
      PROVE  call'[v].inode = call[v].inode /\ Ready(v)
  BY <1>3, FailFields DEF PrepareFails, WriteFails, RenameFails
<1>4. ASSUME NEW w \in Writer, Sync(w)
      PROVE  call'[v].inode = call[v].inode /\ (Ready(v) \/ Sync(v))
  BY <1>4, GotoFields, ZenonT(60) DEF Sync
<1>5. ASSUME NEW w \in Writer, Close(w) PROVE call'[v].inode = call[v].inode /\ Ready(v)
  BY <1>5, GotoFields, FailFields DEF Close
<1>6. ASSUME NEW w \in Writer, Rename(w) PROVE call'[v].inode = call[v].inode /\ Ready(v)
  BY <1>6, RenameFields
<1>7. ASSUME NEW w \in Writer, SyncDirectory(w) \/ SyncDirectoryFails(w) \/ Cleanup(w)
      PROVE  call'[v].inode = call[v].inode /\ Ready(v)
  BY <1>7, GotoFields, FailFields DEF SyncDirectory, SyncDirectoryFails, Cleanup
<1>8. ASSUME NEW w \in Writer, Kill(w) PROVE call'[v].inode = call[v].inode /\ Ready(v)
  BY <1>8 DEF Kill, Idle, TypeInv
<1>9. ASSUME PowerLoss PROVE FALSE
  BY <1>9 DEF PowerLoss, Idle
<1> QED  BY <1>1, <1>2, <1>3, <1>4, <1>5, <1>6, <1>7, <1>8, <1>9 DEF Next

LEMMA SyncedStep == StoreConstants /\ TypeInv /\ SyncedInv /\ Next => SyncedInv'
<1> SUFFICES ASSUME StoreConstants, TypeInv, SyncedInv, Next, NEW v \in Writer, Ready(v)'
             PROVE  synced'[call'[v].inode] = Chunks
  BY DEF SyncedInv
<1>1. call'[v].inode = call[v].inode /\ call[v].inode \in Inode
  BY ReadyStep DEF TypeInv, Calls
<1>2. CASE Ready(v)
  BY <1>1, <1>2, DataStep DEF SyncedInv
<1>3. CASE Sync(v)
  BY <1>1, <1>3 DEF Sync, TypeInv
<1> QED  BY <1>2, <1>3, ReadyStep

LEMMA WholeStep == StoreConstants /\ WholeInv /\ Next => DestinationIsWhole'
<1> SUFFICES ASSUME StoreConstants, WholeInv, Next, NEW n \in DOMAIN journal'
             PROVE  synced'[journal'[n][Destination]] = Chunks
  BY DEF DestinationIsWhole
<1> USE DEF WholeInv
<1>1. CASE \E m \in DOMAIN journal : journal'[n][Destination] = journal[m][Destination]
  BY <1>1, DataStep, LastDirectory, DirectoryElim DEF DestinationIsWhole
<1>2. CASE \E w \in Writer : Rename(w) /\ journal'[n][Destination] = call[w].inode
  BY <1>2, DataStep DEF SyncedInv, Ready, Rename, TypeInv, Calls
<1> QED  BY <1>1, <1>2, DestinationsStep

\* The invariant that holds the destination whole.
THEOREM WholeInvariance == Spec => []WholeInv
<1>1. StoreConstants /\ Init => WholeInv
  <2> SUFFICES ASSUME StoreConstants, Init PROVE SyncedInv /\ DestinationIsWhole
    BY TypeInit DEF WholeInv
  <2>1. First \in Inode
    BY DEF StoreConstants, First, Inode
  <2>2. SyncedInv
    BY DEF Init, SyncedInv, Ready, At, Idle
  <2>3. DestinationIsWhole
    BY <2>1 DEF Init, DestinationIsWhole, Destination
  <2> QED  BY <2>2, <2>3
<1>2. StoreConstants /\ WholeInv /\ [Next]_storeVars => WholeInv'
  <2>1. CASE UNCHANGED storeVars
    BY <2>1 DEF storeVars, callVars, diskVars, WholeInv, TypeInv, SyncedInv, Ready,
                 DestinationIsWhole, At
  <2>2. ASSUME StoreConstants, WholeInv, Next PROVE WholeInv'
    BY <2>2, CallsStep, DataStep, JournalTyped, SyncedStep, WholeStep DEF WholeInv, TypeInv
  <2> QED  BY <2>1, <2>2
<1> QED  BY <1>1, <1>2, StoreConstants, PTL DEF Spec

\* Whatever fails, whoever is killed and whenever the power goes, a program that
\* opens the destination finds a complete content.
THEOREM DestinationStaysWhole == Spec => []DestinationIsWhole
<1>1. WholeInv => DestinationIsWhole
  BY DEF WholeInv
<1> QED  BY <1>1, WholeInvariance, PTL

-----------------------------------------------------------------------------
(* The store implements AtomicFile.  Each state of the directory has a place *)
(* in the sequence of the contents installed, a later state a later place.   *)

Sits(seq, i, k) == k \in DOMAIN seq /\ seq[k] = i
Distinct(seq)   == \A j, k \in DOMAIN seq : seq[j] = seq[k] => j = k

InstalledInv ==
  /\ replaced \in Seq(Inode) /\ replaced # <<>> /\ Distinct(replaced)
  /\ \A k \in DOMAIN replaced : replaced[k] <= created

JournalInv ==
  /\ \A n \in DOMAIN journal : \E k \in DOMAIN replaced : replaced[k] = journal[n][Destination]
  /\ \A m, n \in DOMAIN journal : \A j, k \in DOMAIN replaced :
       m <= n /\ Sits(replaced, journal[m][Destination], j)
              /\ Sits(replaced, journal[n][Destination], k) => j <= k
  /\ Directory[Destination] = replaced[Len(replaced)]

\* A file that is still to be renamed is its call's own, and nowhere installed;
\* one whose directory was synchronized is safe from a crash.
Pending(w) == call[w].pc \in {"write", "close", "rename"}
Safe(i)    == \E j, k \in DOMAIN replaced :
                j <= k /\ Sits(replaced, i, j) /\ Sits(replaced, journal[1][Destination], k)

OwnInv ==
  \A w \in Writer :
    /\ call[w].inode <= created
    /\ Pending(w) => \A k \in DOMAIN replaced : replaced[k] # call[w].inode
    /\ Pending(w) => \A v \in Writer : Pending(v) /\ call[v].inode = call[w].inode => v = w
    /\ At(w, "sync_directory") => \E k \in DOMAIN replaced : replaced[k] = call[w].inode
    /\ At(w, "cleanup") /\ call[w].status = "ok" => Safe(call[w].inode)

FileInv == TypeInv /\ InstalledInv /\ JournalInv /\ OwnInv

\* The place of a file in a sequence of distinct ones, and what comes up to it.
LEMMA PlaceIs ==
  ASSUME NEW seq, Distinct(seq), NEW i, NEW k, Sits(seq, i, k)
  PROVE  (CHOOSE c \in DOMAIN seq : seq[c] = i) = k
BY DEF Sits, Distinct

LEMMA Prefix ==
  ASSUME NEW seq \in Seq(Inode), NEW k \in DOMAIN seq
  PROVE  /\ SubSeq(seq, 1, k) \in Seq(Inode) /\ Len(SubSeq(seq, 1, k)) = k
         /\ DOMAIN SubSeq(seq, 1, k) = 1..k /\ k \in 1..Len(seq)
         /\ \A c \in 1..k : c \in DOMAIN seq /\ SubSeq(seq, 1, k)[c] = seq[c]
<1>1. Len(seq) \in Nat /\ DOMAIN seq = 1..Len(seq) /\ k \in 1..Len(seq)
  BY LenProperties
<1>2. /\ SubSeq(seq, 1, k) \in Seq(Inode) /\ Len(SubSeq(seq, 1, k)) = k
      /\ \A c \in 1..k : SubSeq(seq, 1, k)[c] = seq[c]
  BY <1>1, SubSeqProperties
<1>3. DOMAIN SubSeq(seq, 1, k) = 1..k
  BY <1>2, LenProperties
<1> QED  BY <1>1, <1>2, <1>3

LEMMA ReplacedAtIs ==
  ASSUME InstalledInv, NEW n, NEW k, Sits(replaced, journal[n][Destination], k)
  PROVE  ReplacedAt(n) = SubSeq(replaced, 1, k)
<1>1. (CHOOSE c \in DOMAIN replaced : replaced[c] = journal[n][Destination]) = k
  BY PlaceIs, Zenon DEF InstalledInv
<1> QED  BY <1>1, Zenon DEF ReplacedAt

LEMMA SettledIs ==
  ASSUME InstalledInv, NEW k, Sits(replaced, journal[1][Destination], k)
  PROVE  Len(ReplacedAt(1)) = k
<1>1. replaced \in Seq(Inode) /\ k \in DOMAIN replaced
  BY DEF InstalledInv, Sits
<1>2. Len(SubSeq(replaced, 1, k)) = k
  BY <1>1, Prefix, Zenon
<1> QED  BY <1>2, ReplacedAtIs, Zenon

LEMMA SettledBecomes ==
  ASSUME InstalledInv', NEW k, Sits(replaced', journal'[1][Destination], k)
  PROVE  Len(ReplacedAt(1))' = k
<1>1. replaced' \in Seq(Inode) /\ k \in DOMAIN replaced' /\ Distinct(replaced')
  BY DEF InstalledInv, Sits, Distinct
<1>2. (CHOOSE c \in DOMAIN replaced' : replaced'[c] = journal'[1][Destination]) = k
  BY <1>1, PlaceIs, Zenon
<1>3. ReplacedAt(1)' = SubSeq(replaced', 1, k)
  BY <1>2, Zenon DEF ReplacedAt
<1>4. Len(SubSeq(replaced', 1, k)) = k
  BY <1>1, Prefix, Zenon
<1> QED  BY <1>3, <1>4, Zenon

LEMMA InstalledPlaces ==
  ASSUME InstalledInv
  PROVE  Len(replaced) \in Nat \ {0} /\ DOMAIN replaced = 1..Len(replaced)
BY LenProperties, EmptySeq DEF InstalledInv

\* What a rename and a power loss make of the contents installed.
LEMMA InstallEffect ==
  ASSUME FileInv, NEW w \in Writer, Rename(w)
  PROVE  /\ replaced' \in Seq(Inode) /\ Len(replaced') = Len(replaced) + 1
         /\ DOMAIN replaced' = 1..Len(replaced) + 1
         /\ \A k \in DOMAIN replaced : replaced'[k] = replaced[k]
         /\ replaced'[Len(replaced) + 1] = call[w].inode
         /\ call[w].inode <= created /\ Pending(w)
<1>1. replaced \in Seq(Inode) /\ replaced' = Append(replaced, call[w].inode)
  BY DEF FileInv, InstalledInv, Rename
<1>2. call[w].inode \in Inode
  BY DEF FileInv, TypeInv, Calls
<1>3. Len(replaced) \in Nat /\ DOMAIN replaced = 1..Len(replaced)
  BY InstalledPlaces DEF FileInv
<1>4. /\ replaced' \in Seq(Inode) /\ Len(replaced') = Len(replaced) + 1
      /\ \A k \in 1..Len(replaced) : replaced'[k] = replaced[k]
      /\ replaced'[Len(replaced) + 1] = call[w].inode
  BY <1>1, <1>2, AppendProperties
<1>5. DOMAIN replaced' = 1..Len(replaced) + 1
  BY <1>4, LenProperties
<1>6. call[w].inode <= created /\ Pending(w)
  BY DEF FileInv, OwnInv, Pending, Rename, At
<1> QED  BY <1>3, <1>4, <1>5, <1>6

LEMMA PowerEffect ==
  ASSUME FileInv, PowerLoss
  PROVE  \E n \in DOMAIN journal, k \in DOMAIN replaced :
           /\ Sits(replaced, journal[n][Destination], k) /\ journal' = <<journal[n]>>
           /\ replaced' = SubSeq(replaced, 1, k) /\ replaced' \in Seq(Inode)
           /\ Len(replaced') = k /\ DOMAIN replaced' = 1..k
           /\ \A c \in 1..k : c \in DOMAIN replaced /\ replaced'[c] = replaced[c]
<1>1. PICK n \in DOMAIN journal : journal' = <<journal[n]>> /\ replaced' = ReplacedAt(n)
  BY Zenon DEF PowerLoss
<1>2. PICK k \in DOMAIN replaced : Sits(replaced, journal[n][Destination], k)
  BY DEF FileInv, JournalInv, Sits
<1>3. replaced' = SubSeq(replaced, 1, k)
  BY <1>1, <1>2, ReplacedAtIs, Zenon DEF FileInv
<1>4. /\ SubSeq(replaced, 1, k) \in Seq(Inode) /\ Len(SubSeq(replaced, 1, k)) = k
      /\ DOMAIN SubSeq(replaced, 1, k) = 1..k
      /\ \A c \in 1..k : c \in DOMAIN replaced /\ SubSeq(replaced, 1, k)[c] = replaced[c]
  BY Prefix, Zenon DEF FileInv, InstalledInv
<1>5. /\ replaced' \in Seq(Inode) /\ Len(replaced') = k /\ DOMAIN replaced' = 1..k
      /\ \A c \in 1..k : c \in DOMAIN replaced /\ replaced'[c] = replaced[c]
  BY <1>3, <1>4, Zenon
<1> QED  BY <1>1, <1>2, <1>3, <1>5, Zenon

\* Files are given out in order.
LEMMA CreatedStep ==
  ASSUME StoreConstants, TypeInv, Next
  PROVE  created \in Nat /\ created' \in Nat /\ created <= created'
<1>1. created \in Nat /\ created' \in Nat
  BY CallsStep, SMTT(60) DEF TypeInv, Inode, StoreConstants
<1>2. created' = created \/ created' = created + 1
  BY DEF Next, Create, PrepareFails, Write, WriteFails, Sync, Close, Rename, RenameFails,
         SyncDirectory, SyncDirectoryFails, Cleanup, Kill, PowerLoss, diskVars
<1> QED  BY <1>1, <1>2

LEMMA InstalledStep == StoreConstants /\ FileInv /\ Next => InstalledInv'
<1> SUFFICES ASSUME StoreConstants, FileInv, Next PROVE InstalledInv'
  OBVIOUS
<1>0. InstalledInv /\ TypeInv
  BY DEF FileInv
<1>1. created \in Nat /\ created' \in Nat /\ created <= created'
  BY <1>0, CreatedStep
<1>2. replaced \in Seq(Inode) => \A k \in DOMAIN replaced : replaced[k] \in Nat
  BY InstalledPlaces, <1>0 DEF Inode, StoreConstants
<1>3. CASE UNCHANGED replaced
  BY <1>0, <1>1, <1>2, <1>3 DEF InstalledInv, Distinct
<1>4. ASSUME NEW w \in Writer, Rename(w) PROVE InstalledInv'
  <2>1. \A k \in DOMAIN replaced : replaced[k] # call[w].inode
    BY <1>4, InstallEffect DEF FileInv, OwnInv
  <2>2. Len(replaced) \in Nat /\ DOMAIN replaced = 1..Len(replaced)
    BY <1>0, InstalledPlaces
  <2>3. replaced' \in Seq(Inode) /\ replaced' # <<>>
    BY <1>4, <2>2, InstallEffect, EmptySeq
  <2>4. Distinct(replaced')
    BY <1>0, <1>4, <2>1, <2>2, InstallEffect DEF InstalledInv, Distinct
  <2>5. \A k \in DOMAIN replaced' : replaced'[k] <= created'
    <3>1. created' = created
      BY <1>4 DEF Rename
    <3> QED  BY <1>0, <1>4, <2>2, <3>1, InstallEffect DEF InstalledInv
  <2> QED  BY <2>3, <2>4, <2>5 DEF InstalledInv, Distinct
<1>5. ASSUME PowerLoss PROVE InstalledInv'
  <2>1. PICK k \in DOMAIN replaced :
          /\ replaced' \in Seq(Inode) /\ Len(replaced') = k /\ DOMAIN replaced' = 1..k
          /\ \A c \in 1..k : c \in DOMAIN replaced /\ replaced'[c] = replaced[c]
    BY <1>5, PowerEffect, Zenon
  <2>2. k \in Nat \ {0}
    BY <1>0, InstalledPlaces
  <2>3. replaced' # <<>>
    BY <2>1, <2>2, EmptySeq
  <2>4. created' = created
    BY <1>5 DEF PowerLoss
  <2> QED  BY <1>0, <2>1, <2>3, <2>4 DEF InstalledInv, Distinct
<1> QED  BY <1>0, <1>3, <1>4, <1>5, JournalStep DEF Leaves, Keeps, Settles, Installs

LEMMA JournalInvStep == StoreConstants /\ FileInv /\ Next => JournalInv'
<1> SUFFICES ASSUME StoreConstants, FileInv, Next PROVE JournalInv'
  OBVIOUS
<1>0. TypeInv /\ InstalledInv /\ JournalInv /\ InstalledInv'
  BY InstalledStep DEF FileInv
<1> DEFINE last == Len(journal)
           size == Len(replaced)
<1>1. /\ last \in Nat \ {0} /\ DOMAIN journal = 1..last /\ Directory = journal[last]
      /\ size \in Nat \ {0} /\ DOMAIN replaced = 1..size
      /\ Directory' = journal'[Len(journal')]
  BY <1>0, LastDirectory, InstalledPlaces DEF Directory, Last
<1>2. CASE Leaves
  BY <1>0, <1>2 DEF Leaves, JournalInv, Sits, Directory, Last
<1>3. CASE Keeps
  <2>1. /\ UNCHANGED replaced /\ Len(journal') = last + 1
        /\ \A n \in 1..last : journal'[n] = journal[n]
        /\ \A n \in DOMAIN journal' : n \in 1..last \/ n = last + 1
        /\ journal'[last + 1][Destination] = journal[last][Destination]
    BY <1>0, <1>1, <1>3, JournalAfterChange DEF Keeps
  <2> DEFINE From(n) == IF n = last + 1 THEN last ELSE n
  <2>2. \A n \in DOMAIN journal' :
          From(n) \in DOMAIN journal /\ journal'[n][Destination] = journal[From(n)][Destination]
    BY <1>1, <2>1
  <2>3. \A m, n \in DOMAIN journal' : m <= n => From(m) <= From(n)
    BY <1>1, <2>1
  <2>4. Directory'[Destination] = replaced'[Len(replaced')]
    BY <1>0, <1>1, <2>1 DEF JournalInv
  <2> HIDE DEF From
  <2>5. \A n \in DOMAIN journal' :
          \E k \in DOMAIN replaced' : replaced'[k] = journal'[n][Destination]
    BY <1>0, <2>1, <2>2, SMTT(60) DEF JournalInv
  <2>6. ASSUME NEW m \in DOMAIN journal', NEW n \in DOMAIN journal',
               NEW j \in DOMAIN replaced', NEW k \in DOMAIN replaced', m <= n,
               Sits(replaced', journal'[m][Destination], j),
               Sits(replaced', journal'[n][Destination], k)
        PROVE  j <= k
    <3>1. /\ From(m) \in DOMAIN journal /\ From(n) \in DOMAIN journal /\ From(m) <= From(n)
          /\ j \in DOMAIN replaced /\ k \in DOMAIN replaced
      BY <2>1, <2>2, <2>3, <2>6
    <3>2. /\ Sits(replaced, journal[From(m)][Destination], j)
          /\ Sits(replaced, journal[From(n)][Destination], k)
      BY <2>1, <2>2, <2>6 DEF Sits
    <3> QED  BY <1>0, <3>1, <3>2, Zenon DEF JournalInv
  <2> QED  BY <2>4, <2>5, <2>6 DEF JournalInv, Sits
<1>4. ASSUME NEW w \in Writer, Rename(w) PROVE JournalInv'
  <2>1. /\ Len(journal') = last + 1
        /\ \A n \in 1..last : journal'[n] = journal[n]
        /\ \A n \in DOMAIN journal' : n \in 1..last \/ n = last + 1
        /\ journal'[last + 1][Destination] = call[w].inode
    BY <1>0, <1>1, <1>4, RenameInstalls, JournalAfterChange
  <2>2. /\ Len(replaced') = size + 1 /\ DOMAIN replaced' = 1..size + 1
        /\ \A k \in 1..size : replaced'[k] = replaced[k]
        /\ replaced'[size + 1] = call[w].inode
    BY <1>1, <1>4, InstallEffect
  <2>3. \A k \in 1..size : replaced[k] # call[w].inode
    BY <1>1, <1>4, InstallEffect DEF FileInv, OwnInv
  <2>4. \A n \in 1..last : \E k \in 1..size : replaced[k] = journal[n][Destination]
    BY <1>0, <1>1 DEF JournalInv
  <2>5. \A n \in 1..last : \A k \in 1..size + 1 :
          replaced'[k] = journal'[n][Destination] =>
            k \in 1..size /\ replaced[k] = journal[n][Destination]
    BY <1>1, <2>1, <2>2, <2>3, <2>4
  <2>6. \A n \in DOMAIN journal' :
          \E k \in DOMAIN replaced' : replaced'[k] = journal'[n][Destination]
    <3>1. ASSUME NEW n \in 1..last
          PROVE  \E k \in DOMAIN replaced' : replaced'[k] = journal'[n][Destination]
      <4>1. PICK k \in 1..size : replaced[k] = journal[n][Destination]
        BY <2>4
      <4>2. k \in DOMAIN replaced' /\ replaced'[k] = journal'[n][Destination]
        BY <1>1, <2>1, <2>2, <4>1
      <4> QED  BY <4>2
    <3>2. size + 1 \in DOMAIN replaced' /\ replaced'[size + 1] = journal'[last + 1][Destination]
      BY <1>1, <2>1, <2>2
    <3> QED  BY <2>1, <3>1, <3>2
  <2>7. ASSUME NEW m \in DOMAIN journal', NEW n \in DOMAIN journal',
               NEW j \in DOMAIN replaced', NEW k \in DOMAIN replaced', m <= n,
               Sits(replaced', journal'[m][Destination], j),
               Sits(replaced', journal'[n][Destination], k)
        PROVE  j <= k
    <3>1. CASE n \in 1..last
      <4>1. m \in 1..last
        BY <1>1, <2>1, <2>7, <3>1
      <4>2. /\ j \in 1..size /\ replaced[j] = journal[m][Destination]
            /\ k \in 1..size /\ replaced[k] = journal[n][Destination]
        BY <2>2, <2>5, <2>7, <3>1, <4>1 DEF Sits
      <4> QED  BY <1>0, <1>1, <2>7, <3>1, <4>1, <4>2 DEF JournalInv, Sits
    <3>2. CASE n = last + 1
      <4>1. k \in 1..size + 1 /\ replaced'[k] = call[w].inode
        BY <2>1, <2>2, <2>7, <3>2 DEF Sits
      <4>2. k = size + 1
        BY <1>1, <2>2, <2>3, <4>1
      <4> QED  BY <1>1, <2>2, <4>2
    <3> QED  BY <2>1, <3>1, <3>2
  <2>8. Directory'[Destination] = replaced'[Len(replaced')]
    BY <1>1, <2>1, <2>2
  <2> QED  BY <2>6, <2>7, <2>8 DEF JournalInv, Sits
<1>5. CASE Settles
  <2>1. /\ UNCHANGED replaced /\ Len(journal') = 1 /\ DOMAIN journal' = {1}
        /\ journal'[1] = Directory
    BY <1>0, <1>5, JournalAfterSync DEF Settles
  <2>2. Directory[Destination] = replaced[size] /\ size \in DOMAIN replaced
    BY <1>0, <1>1 DEF JournalInv
  <2>3. \A j, k \in DOMAIN replaced : replaced[j] = replaced[k] => j = k
    BY <1>0 DEF InstalledInv, Distinct
  <2> QED  BY <1>1, <2>1, <2>2, <2>3 DEF JournalInv, Sits
<1>6. CASE PowerLoss
  <2>1. PICK n \in DOMAIN journal, k \in DOMAIN replaced :
          /\ Sits(replaced, journal[n][Destination], k) /\ journal' = <<journal[n]>>
          /\ Len(replaced') = k /\ DOMAIN replaced' = 1..k
          /\ \A c \in 1..k : c \in DOMAIN replaced /\ replaced'[c] = replaced[c]
    BY <1>6, PowerEffect, Zenon
  <2>2. Len(journal') = 1 /\ DOMAIN journal' = {1} /\ journal'[1] = journal[n]
    BY <2>1
  <2>3. k \in 1..k /\ replaced'[k] = journal[n][Destination] /\ k \in Nat
    BY <1>1, <2>1 DEF Sits
  <2>4. \A i, j \in DOMAIN replaced' : replaced'[i] = replaced'[j] => i = j
    BY <1>0 DEF InstalledInv, Distinct
  <2> QED  BY <1>1, <2>1, <2>2, <2>3, <2>4 DEF JournalInv, Sits
<1> QED  BY <1>0, <1>2, <1>3, <1>4, <1>5, <1>6, JournalStep DEF Installs

\* What a step makes of one call.
Stays(v)  == /\ call'[v].inode = call[v].inode /\ call'[v].pc = call[v].pc
             /\ call'[v].status = call[v].status
Works(v)  == call'[v].inode = call[v].inode /\ Pending(v) /\ Pending(v)'
Breaks(v) == /\ call'[v].inode = call[v].inode
             /\ call'[v].pc = "cleanup" /\ call'[v].status = "io"
Returns(v) == call'[v].pc = "idle" /\ call'[v].inode \in {First, call[v].inode}

LEMMA CallStep ==
  ASSUME StoreConstants, TypeInv, Next, NEW v \in Writer
  PROVE  \/ Stays(v) \/ Works(v) \/ Breaks(v) \/ Returns(v)
         \/ Create(v) \/ Rename(v)
         \/ SyncDirectory(v) /\ call'[v].inode = call[v].inode /\ call'[v].pc = "cleanup"
<1> USE DEF At
<1>1. ASSUME NEW w \in Writer, Create(w) PROVE Stays(v) \/ Create(v)
  BY <1>1, CreateFields DEF Stays
<1>2. ASSUME NEW w \in Writer, Write(w) PROVE Stays(v)
  BY <1>2 DEF Write, callVars, Stays
<1>3. ASSUME NEW w \in Writer, PrepareFails(w) \/ RenameFails(w) \/ SyncDirectoryFails(w)
      PROVE  Stays(v) \/ Breaks(v)
  BY <1>3, FailFields DEF PrepareFails, RenameFails, SyncDirectoryFails, Stays, Breaks
<1>4. ASSUME NEW w \in Writer, WriteFails(w) PROVE Stays(v) \/ Works(v)
  BY <1>4, FailFields DEF WriteFails, Stays, Works, Pending
<1>5. ASSUME NEW w \in Writer, Sync(w) PROVE Stays(v) \/ Works(v)
  BY <1>5, GotoFields DEF Sync, Stays, Works, Pending
<1>6. ASSUME NEW w \in Writer, Close(w) PROVE Stays(v) \/ Works(v) \/ Breaks(v)
  BY <1>6, GotoFields, FailFields DEF Close, Stays, Works, Breaks, Pending
<1>7. ASSUME NEW w \in Writer, Rename(w) PROVE Stays(v) \/ Rename(v)
  BY <1>7, RenameFields DEF Stays
<1>8. ASSUME NEW w \in Writer, SyncDirectory(w)
      PROVE  \/ Stays(v)
             \/ SyncDirectory(v) /\ call'[v].inode = call[v].inode /\ call'[v].pc = "cleanup"
  BY <1>8, GotoFields DEF SyncDirectory, Stays
<1>9. ASSUME NEW w \in Writer, Cleanup(w) PROVE Stays(v) \/ Returns(v)
  BY <1>9, GotoFields DEF Cleanup, Stays, Returns
<1>10. ASSUME NEW w \in Writer, Kill(w) PROVE Stays(v) \/ Returns(v)
  BY <1>10 DEF Kill, Idle, TypeInv, Stays, Returns
<1>11. ASSUME PowerLoss PROVE Returns(v)
  BY <1>11 DEF PowerLoss, Idle, Returns
<1> QED  BY <1>1, <1>2, <1>3, <1>4, <1>5, <1>6, <1>7, <1>8, <1>9, <1>10, <1>11 DEF Next

\* Until the power goes, what is safe stays safe, and what is installed installed.
LEMMA SafeStep ==
  ASSUME StoreConstants, FileInv, Next, ~PowerLoss
  PROVE  /\ \A k \in DOMAIN replaced : k \in DOMAIN replaced' /\ replaced'[k] = replaced[k]
         /\ \A i : Safe(i) => Safe(i)'
<1>0. TypeInv /\ InstalledInv /\ JournalInv
  BY DEF FileInv
<1>1. /\ Len(journal) \in Nat \ {0} /\ DOMAIN journal = 1..Len(journal)
      /\ Len(replaced) \in Nat \ {0} /\ DOMAIN replaced = 1..Len(replaced)
  BY <1>0, LastDirectory, InstalledPlaces
<1>2. CASE Leaves
  BY <1>2 DEF Leaves, Safe, Sits
<1>3. CASE Keeps
  <2>1. UNCHANGED replaced /\ journal'[1] = journal[1]
    BY <1>0, <1>1, <1>3, JournalAfterChange DEF Keeps
  <2> QED  BY <2>1 DEF Safe, Sits
<1>4. CASE Installs
  <2>1. journal'[1] = journal[1]
    BY <1>0, <1>1, <1>4, RenameInstalls, JournalAfterChange DEF Installs
  <2>2. \A k \in DOMAIN replaced : k \in DOMAIN replaced' /\ replaced'[k] = replaced[k]
    BY <1>1, <1>4, InstallEffect DEF Installs
  <2> QED  BY <2>1, <2>2 DEF Safe, Sits
<1>5. CASE Settles
  <2>1. UNCHANGED replaced /\ journal'[1] = Directory
    BY <1>0, <1>5, JournalAfterSync DEF Settles
  <2>2. Sits(replaced, Directory[Destination], Len(replaced))
    BY <1>0, <1>1 DEF JournalInv, Sits
  <2> QED  BY <1>1, <2>1, <2>2 DEF Safe, Sits
<1> QED  BY <1>0, <1>2, <1>3, <1>4, <1>5, JournalStep

\* A call that is at work on a file was before, or has just created it.
LEMMA PendingStep ==
  ASSUME StoreConstants, TypeInv, Next, NEW v \in Writer, Pending(v)'
  PROVE  Create(v) \/ (call'[v].inode = call[v].inode /\ Pending(v) /\ ~Rename(v))
<1>1. CASE Stays(v)
  BY <1>1, RenameFields DEF Stays, Pending, Rename, At
<1>2. CASE Works(v)
  BY <1>2, RenameFields DEF Works, Pending
<1>3. CASE Rename(v)
  BY <1>3, RenameFields DEF Pending
<1>4. CASE Breaks(v) \/ Returns(v) \/ (SyncDirectory(v) /\ call'[v].pc = "cleanup")
  BY <1>4 DEF Breaks, Returns, Pending
<1> QED  BY <1>1, <1>2, <1>3, <1>4, CallStep

LEMMA InodeStep ==
  ASSUME StoreConstants, FileInv, Next, NEW v \in Writer
  PROVE  call'[v].inode <= created'
<1>0. TypeInv
  BY DEF FileInv
<1>1. created \in Nat /\ created' \in Nat /\ created <= created' /\ First <= created
  BY <1>0, CreatedStep DEF TypeInv, Inode, First, StoreConstants
<1>2. call[v].inode <= created /\ call[v].inode \in Nat
  BY <1>0 DEF FileInv, OwnInv, TypeInv, Calls, Inode, StoreConstants
<1>3. call'[v].inode \in {First, call[v].inode, created'}
  BY <1>0, CallStep, CreateFields, RenameFields DEF Stays, Works, Breaks, Returns
<1> QED  BY <1>1, <1>2, <1>3 DEF First

LEMMA OwnInvStep == StoreConstants /\ FileInv /\ Next => OwnInv'
<1> SUFFICES ASSUME StoreConstants, FileInv, Next PROVE OwnInv'
  OBVIOUS
<1>0. TypeInv /\ InstalledInv /\ JournalInv /\ OwnInv
  BY DEF FileInv
<1>1. /\ created \in Nat /\ \A v \in Writer : call[v].inode \in Nat /\ call[v].inode <= created
      /\ \A k \in DOMAIN replaced : replaced[k] \in Nat /\ replaced[k] <= created
  <2>1. created \in Nat /\ \A v \in Writer : call[v].inode \in Nat
    BY <1>0 DEF TypeInv, Calls, Inode, StoreConstants
  <2>2. \A k \in DOMAIN replaced : replaced[k] \in Nat
    BY <1>0, InstalledPlaces DEF InstalledInv, Inode, StoreConstants
  <2> QED  BY <1>0, <2>1, <2>2 DEF OwnInv, InstalledInv
<1>2. ASSUME NEW w \in Writer, Pending(w)', NEW k \in DOMAIN replaced'
      PROVE  replaced'[k] # call'[w].inode
  <2>1. ~PowerLoss
    BY <1>2 DEF PowerLoss, Idle, Pending
  <2>2. CASE Create(w)
    <3>1. UNCHANGED replaced /\ call'[w].inode = created + 1
      BY <1>0, <2>2, CreateFields DEF Create
    <3> QED  BY <1>1, <1>2, <3>1
  <2>3. CASE call'[w].inode = call[w].inode /\ Pending(w) /\ ~Rename(w)
    <3>1. \A c \in DOMAIN replaced : replaced[c] # call[w].inode
      BY <1>0, <2>3 DEF OwnInv
    <3>2. CASE UNCHANGED replaced
      BY <1>2, <2>3, <3>1, <3>2
    <3>3. ASSUME NEW v \in Writer, Rename(v) PROVE replaced'[k] # call'[w].inode
      <4>1. v # w /\ Pending(v)
        BY <2>3, <3>3 DEF Rename, Pending, At
      <4>2. call[v].inode # call[w].inode
        BY <1>0, <2>3, <4>1 DEF OwnInv
      <4>3. (k \in DOMAIN replaced /\ replaced'[k] = replaced[k]) \/ replaced'[k] = call[v].inode
        BY <1>0, <1>2, <3>3, InstallEffect, InstalledPlaces
      <4> QED  BY <2>3, <3>1, <4>2, <4>3
    <3> QED  BY <1>0, <2>1, <3>2, <3>3, JournalStep DEF Leaves, Keeps, Settles, Installs
  <2> QED  BY <1>0, <1>2, <2>2, <2>3, PendingStep
<1>3. ASSUME NEW w \in Writer, Pending(w)', NEW v \in Writer, Pending(v)',
             call'[v].inode = call'[w].inode
      PROVE  v = w
  <2>1. ASSUME NEW x \in Writer, Create(x), NEW y \in Writer, x # y
        PROVE  call'[x].inode = created + 1 /\ call'[y] = call[y]
    BY <1>0, <2>1, CreateFields, ZenonT(60) DEF Create
  <2>2. CASE Create(w)
    BY <1>1, <1>3, <2>1, <2>2
  <2>3. CASE Create(v)
    BY <1>1, <1>3, <2>1, <2>3
  <2>4. CASE ~Create(w) /\ ~Create(v)
    <3>1. /\ call'[w].inode = call[w].inode /\ Pending(w)
          /\ call'[v].inode = call[v].inode /\ Pending(v)
      BY <1>0, <1>3, <2>4, PendingStep
    <3> QED  BY <1>0, <1>3, <3>1 DEF OwnInv
  <2> QED  BY <2>2, <2>3, <2>4
<1>4. ASSUME NEW w \in Writer, At(w, "sync_directory")'
      PROVE  \E k \in DOMAIN replaced' : replaced'[k] = call'[w].inode
  <2>1. ~PowerLoss
    BY <1>4 DEF PowerLoss, Idle, At
  <2>2. CASE Stays(w)
    BY <1>0, <1>4, <2>1, <2>2, SafeStep DEF Stays, OwnInv, At
  <2>3. CASE Rename(w)
    <3>1. /\ Len(replaced) + 1 \in DOMAIN replaced'
          /\ replaced'[Len(replaced) + 1] = call[w].inode
      BY <1>0, <2>3, InstallEffect, InstalledPlaces
    <3> QED  BY <1>0, <2>3, <3>1, RenameFields, ZenonT(60)
  <2>4. CASE Works(w) \/ Breaks(w) \/ Returns(w) \/ (SyncDirectory(w) /\ call'[w].pc = "cleanup")
    BY <1>4, <2>4 DEF Works, Breaks, Returns, Pending, At
  <2>5. CASE Create(w)
    BY <1>0, <1>4, <2>5, CreateFields DEF At
  <2> QED  BY <1>0, <2>2, <2>3, <2>4, <2>5, CallStep
<1>5. ASSUME NEW w \in Writer, At(w, "cleanup")', call'[w].status = "ok"
      PROVE  Safe(call[w].inode)'
  <2>1. ~PowerLoss
    BY <1>5 DEF PowerLoss, Idle, At
  <2>2. CASE Stays(w)
    <3>1. Safe(call[w].inode) /\ call'[w].inode = call[w].inode
      BY <1>0, <1>5, <2>2 DEF Stays, OwnInv, At
    <3> QED  BY <3>1, <2>1, SafeStep DEF Safe
  <2>3. CASE SyncDirectory(w) /\ call'[w].inode = call[w].inode
    <3>1. PICK j \in DOMAIN replaced : replaced[j] = call[w].inode
      BY <1>0, <2>3 DEF SyncDirectory, OwnInv
    <3>2. UNCHANGED replaced /\ journal'[1] = Directory
      BY <1>0, <2>3, JournalAfterSync DEF SyncDirectory
    <3>3. Sits(replaced, Directory[Destination], Len(replaced)) /\ j <= Len(replaced)
      BY <1>0, <3>1, InstalledPlaces DEF JournalInv, Sits
    <3> QED  BY <1>0, <2>3, <3>1, <3>2, <3>3, InstalledPlaces DEF Safe, Sits
  <2>4. CASE Works(w) \/ Breaks(w) \/ Returns(w)
    BY <1>5, <2>4 DEF Works, Breaks, Returns, Pending, At
  <2>5. CASE Create(w) \/ Rename(w)
    BY <1>0, <1>5, <2>5, CreateFields, RenameFields DEF At
  <2> QED  BY <1>0, <2>2, <2>3, <2>4, <2>5, CallStep
<1>6. \A w \in Writer : call'[w].inode <= created'
  BY InodeStep
<1> QED  BY <1>2, <1>3, <1>4, <1>5, <1>6 DEF OwnInv

LEMMA FileInit == StoreConstants /\ Init => FileInv
<1> SUFFICES ASSUME StoreConstants, Init PROVE InstalledInv /\ JournalInv /\ OwnInv
  BY TypeInit DEF FileInv
<1>1. First \in Inode /\ replaced = <<First>> /\ created = 1 /\ First = 1
  BY DEF Init, StoreConstants, First, Inode
<1>2. InstalledInv
  BY <1>1 DEF InstalledInv, Distinct
<1>3. /\ DOMAIN journal = {1} /\ Len(journal) = 1 /\ journal[1][Destination] = First
      /\ Directory = journal[1]
  BY DEF Init, Directory, Last, Destination
<1>4. JournalInv
  BY <1>1, <1>3 DEF JournalInv, Sits
<1>5. OwnInv
  BY <1>1 DEF Init, OwnInv, Pending, At, Idle
<1> QED  BY <1>2, <1>4, <1>5

\* The places of the files, the order they came in and whose they are.
THEOREM FileInvariance == Spec => []FileInv
<1>1. StoreConstants /\ FileInv /\ [Next]_storeVars => FileInv'
  <2>1. CASE UNCHANGED storeVars
    BY <2>1, SMTT(60) DEF storeVars, callVars, diskVars, FileInv, TypeInv, InstalledInv, Distinct, JournalInv,
                 Sits, OwnInv, Pending, Safe, At, Directory, Last
  <2>2. ASSUME StoreConstants, FileInv, Next PROVE FileInv'
    BY <2>2, CallsStep, DataStep, JournalTyped, InstalledStep, JournalInvStep, OwnInvStep
       DEF FileInv, TypeInv
  <2> QED  BY <2>1, <2>2
<1> QED  BY <1>1, FileInit, StoreConstants, PTL DEF Spec

-----------------------------------------------------------------------------
(* The steps of the store are steps of AtomicFile.                           *)

\* The contents up to the one the oldest directory leads to are settled.
LEMMA SettledPlace ==
  ASSUME FileInv
  PROVE  \E k \in DOMAIN replaced :
           Sits(replaced, journal[1][Destination], k) /\ Len(ReplacedAt(1)) = k
<1>1. 1 \in DOMAIN journal
  BY LastDirectory DEF FileInv
<1>2. PICK k \in DOMAIN replaced : replaced[k] = journal[1][Destination]
  BY <1>1 DEF FileInv, JournalInv
<1> QED  BY <1>2, SettledIs DEF FileInv, Sits

\* Only a call that ends well reports anything.
LEMMA ConfirmedStep ==
  ASSUME StoreConstants, FileInv, Next
  PROVE  \/ UNCHANGED confirmed
         \/ /\ Leaves \/ Keeps
            /\ \E j, k \in DOMAIN replaced :
                 /\ j <= k /\ Sits(replaced, journal[1][Destination], k)
                 /\ confirmed' = confirmed \cup {replaced[j]}
<1>1. ASSUME NEW w \in Writer, Cleanup(w), call[w].status = "ok"
      PROVE  /\ Leaves \/ Keeps
             /\ \E j, k \in DOMAIN replaced :
                  /\ j <= k /\ Sits(replaced, journal[1][Destination], k)
                  /\ confirmed' = confirmed \cup {replaced[j]}
  <2>1. Safe(call[w].inode) /\ confirmed' = confirmed \cup {call[w].inode} /\ UNCHANGED replaced
    BY <1>1 DEF Cleanup, FileInv, OwnInv
  <2>2. Leaves \/ Keeps
    BY <1>1, <2>1, CleanupKeepsDestination DEF Keeps, Leaves, FileInv
  <2> QED  BY <2>1, <2>2 DEF Safe, Sits
<1>2. ASSUME NEW w \in Writer, Cleanup(w), call[w].status # "ok" PROVE UNCHANGED confirmed
  BY <1>2, SMTT(60) DEF Cleanup
<1>3. UNCHANGED confirmed \/ \E w \in Writer : Cleanup(w)
  BY DEF Next, Create, PrepareFails, Write, WriteFails, Sync, Close, Rename, RenameFails,
         SyncDirectory, SyncDirectoryFails, Kill, PowerLoss
<1> QED  BY <1>1, <1>2, <1>3

LEMMA FileStep == StoreConstants /\ FileInv /\ FileInv' /\ Next => [File!Next]_(File!fileVars)
<1> SUFFICES ASSUME StoreConstants, FileInv, FileInv', Next
             PROVE  [File!Next]_(File!fileVars)
  OBVIOUS
<1> DEFINE settled == Len(ReplacedAt(1))
<1>0. TypeInv /\ InstalledInv /\ InstalledInv'
  BY DEF FileInv
<1>1. /\ Len(journal) \in Nat \ {0} /\ DOMAIN journal = 1..Len(journal)
      /\ Len(replaced) \in Nat \ {0} /\ DOMAIN replaced = 1..Len(replaced)
  BY <1>0, LastDirectory, InstalledPlaces
<1>2. PICK s \in DOMAIN replaced : Sits(replaced, journal[1][Destination], s) /\ settled = s
  BY SettledPlace
<1>3. CASE Leaves \/ Keeps
  <2>1. UNCHANGED replaced /\ journal'[1] = journal[1]
    BY <1>0, <1>1, <1>3, JournalAfterChange DEF Leaves, Keeps
  <2>2. settled' = s
    BY <1>0, <1>2, <2>1, SettledBecomes DEF Sits
  <2>3. CASE UNCHANGED confirmed
    BY <1>2, <2>1, <2>2, <2>3 DEF File!fileVars
  <2>4. ASSUME NEW j \in DOMAIN replaced, NEW k \in DOMAIN replaced, j <= k,
               Sits(replaced, journal[1][Destination], k),
               confirmed' = confirmed \cup {replaced[j]}
        PROVE  File!Confirm
    <3>1. k = s
      BY <1>0, <1>2, <2>4 DEF InstalledInv, Distinct, Sits
    <3>2. j \in 1..settled
      BY <1>1, <1>2, <2>4, <3>1
    <3> QED  BY <1>2, <2>1, <2>2, <2>4, <3>2 DEF File!Confirm
  <2> QED  BY <2>3, <2>4, ConfirmedStep DEF File!Next
<1>4. ASSUME NEW w \in Writer, Rename(w) PROVE File!Install
  <2>1. journal'[1] = journal[1]
    BY <1>0, <1>1, <1>4, RenameInstalls, JournalAfterChange
  <2>2. s \in DOMAIN replaced' /\ replaced'[s] = replaced[s]
    BY <1>1, <1>4, InstallEffect
  <2>3. settled' = s
    BY <1>0, <1>2, <2>1, <2>2, SettledBecomes DEF Sits
  <2>4. call[w].inode \in Inode
    BY <1>0 DEF TypeInv, Calls
  <2>5. replaced' = Append(replaced, call[w].inode) /\ UNCHANGED confirmed
    BY <1>4 DEF Rename
  <2> QED  BY <1>2, <2>3, <2>4, <2>5 DEF File!Install
<1>5. CASE Settles /\ UNCHANGED confirmed
  <2>1. UNCHANGED replaced /\ journal'[1] = Directory
    BY <1>0, <1>5, JournalAfterSync DEF Settles
  <2>2. Sits(replaced', journal'[1][Destination], Len(replaced))
    BY <1>1, <2>1 DEF FileInv, JournalInv, Sits
  <2>3. settled' = Len(replaced)
    BY <1>0, <2>2, SettledBecomes
  <2>4. CASE s = Len(replaced)
    BY <1>2, <1>5, <2>1, <2>3, <2>4 DEF File!fileVars
  <2>5. CASE s # Len(replaced)
    <3>1. settled' \in settled + 1..Len(replaced)
      BY <1>1, <1>2, <2>3, <2>5
    <3> QED  BY <1>5, <2>1, <3>1 DEF File!Settle, File!Next
  <2> QED  BY <2>4, <2>5
<1>6. CASE PowerLoss
  <2>1. PICK n \in DOMAIN journal, k \in DOMAIN replaced :
          /\ Sits(replaced, journal[n][Destination], k) /\ journal' = <<journal[n]>>
          /\ replaced' = SubSeq(replaced, 1, k) /\ DOMAIN replaced' = 1..k
          /\ \A c \in 1..k : replaced'[c] = replaced[c]
    BY <1>6, PowerEffect, Zenon
  <2>2. s <= k
    BY <1>1, <1>2, <2>1, SMTT(60) DEF FileInv, JournalInv
  <2>3. Sits(replaced', journal'[1][Destination], k)
    BY <1>1, <2>1 DEF Sits
  <2>4. settled' = k
    BY <1>0, <2>3, SettledBecomes
  <2>5. k \in settled..Len(replaced) /\ UNCHANGED confirmed
    BY <1>1, <1>2, <1>6, <2>2 DEF PowerLoss
  <2> QED  BY <2>1, <2>4, <2>5 DEF File!Crash, File!Next
<1>7. UNCHANGED confirmed \/ Leaves \/ Keeps
  BY ConfirmedStep
<1> QED  BY <1>0, <1>3, <1>4, <1>5, <1>6, <1>7, JournalStep DEF Installs, File!Next

\* The store keeps what AtomicFile promises, however its calls, failures, kills
\* and power losses are interleaved: nothing but a rename changes the
\* destination, and no crash takes back a store that was reported to have
\* succeeded.
THEOREM StoreReplacesAtomically == Spec => ReplacesAtomically
<1>1. StoreConstants /\ Init => File!Init
  <2> SUFFICES ASSUME StoreConstants, Init PROVE File!Init
    OBVIOUS
  <2>1. FileInv
    BY FileInit
  <2>2. replaced = <<First>> /\ First \in Inode /\ DOMAIN replaced = {1} /\ confirmed = {}
    BY DEF Init, StoreConstants, First, Inode
  <2>3. Len(ReplacedAt(1)) = 1
    BY <2>1, <2>2, SettledPlace
  <2> QED  BY <2>2, <2>3 DEF File!Init
<1>2. FileInv /\ FileInv' /\ StoreConstants /\ [Next]_storeVars => [File!Next]_(File!fileVars)
  <2>1. ASSUME FileInv, UNCHANGED storeVars PROVE UNCHANGED File!fileVars
    BY <2>1 DEF storeVars, callVars, diskVars, File!fileVars, ReplacedAt
  <2> QED  BY <2>1, FileStep
<1> QED  BY <1>1, <1>2, FileInvariance, StoreConstants, PTL DEF Spec, ReplacesAtomically, File!Spec

-----------------------------------------------------------------------------
(* What the paths and the loads rest on.                                     *)

SmallerPairs == {p \in Nat \X Nat : p[1] < p[2]}

LEMMA Induction ==
  ASSUME NEW S, 0 \in S, \A n \in Nat : n \in S => n + 1 \in S
  PROVE  \A n \in Nat : n \in S
<1> DEFINE T == {n \in Nat : n \notin S}
<1>1. SUFFICES ASSUME T # {} PROVE FALSE
  OBVIOUS
<1>2. IsWellFoundedOn(SmallerPairs, Nat)
  BY NatLessThanWellFounded DEF OpToRel, SmallerPairs
<1>3. PICK n \in T : \A m \in T : <<m, n>> \notin SmallerPairs
  <2> HIDE DEF T
  <2>1. T \in SUBSET Nat
    BY DEF T
  <2> QED  BY <1>1, <1>2, <2>1, WFMin
<1>4. n \in Nat /\ n # 0 /\ n \notin S
  OBVIOUS
<1>5. n - 1 \in S
  <2>1. n - 1 \in Nat /\ <<n - 1, n>> \in SmallerPairs
    BY <1>4 DEF SmallerPairs
  <2> QED  BY <1>3, <2>1
<1>6. n - 1 \in Nat /\ n = (n - 1) + 1
  BY <1>4
<1> QED  BY <1>4, <1>5, <1>6


LEMMA LeastElement ==
  ASSUME NEW T \in SUBSET Nat, T # {}
  PROVE  \E i \in T : \A j \in T : i <= j
<1>1. IsWellFoundedOn(SmallerPairs, Nat)
  BY NatLessThanWellFounded DEF OpToRel, SmallerPairs
<1>2. PICK i \in T : \A j \in T : ~(<<j, i>> \in SmallerPairs)
  BY <1>1, WFMin
<1>3. \A j \in T : ~(j < i)
  BY <1>2 DEF SmallerPairs
<1> QED  BY <1>3

-----------------------------------------------------------------------------
(* Paths: aforc_asset_path_validate, _join and _allocate, for every set of    *)
(* paths, roots, policies and buffers.                                        *)

Letter == STRING \cup {"/"}   \* a string too, but one that no prover knows to be one
Text   == Seq(Letter)
Parts  == Seq(Text) \ {<<>>}

LEMMA FrontAndLast ==
  ASSUME NEW S, NEW s \in Seq(S), s # <<>>
  PROVE  Front(s) \in Seq(S) /\ Last(s) \in S /\ s = Append(Front(s), Last(s))
<1>1. PICK t \in Seq(S), e \in S : s = Append(t, e)
  BY SequenceEmptyOrAppend
<1>2. Len(s) = Len(t) + 1 /\ s[Len(t) + 1] = e /\ \A i \in 1..Len(t) : s[i] = t[i]
  BY <1>1, AppendProperties
<1>3. Last(s) = e
  BY <1>2 DEF Last
<1>4. Front(s) = t
  <2>1. Len(t) \in Nat /\ Len(s) - 1 = Len(t)
    BY <1>2, LenProperties
  <2>2. Front(s) = SubSeq(s, 1, Len(t))
    BY <2>1 DEF Front
  <2>3. SubSeq(s, 1, Len(t)) = [i \in 1..Len(t) |-> s[i]]
    BY <2>1, <1>2
  <2>4. t = [i \in 1..Len(t) |-> t[i]]
    BY LenProperties
  <2> QED  BY <1>2, <2>2, <2>3, <2>4
<1> QED  BY <1>1, <1>3, <1>4

LEMMA AppendedSame ==
  ASSUME NEW S, NEW s \in Seq(S), NEW t \in Seq(S), NEW c \in S, NEW d \in S,
         Append(s, c) = Append(t, d)
  PROVE  s = t /\ c = d
BY AppendInjective

\* What ends with one more character, and how it differs from what ends with another.
LEMMA ExtendedIs ==
  ASSUME NEW parts \in Parts, NEW c \in Letter
  PROVE  \E a \in Seq(Text), e \in Text :
           /\ Extended(parts, c) = Append(a, e)
           /\ c = "/" => a = parts /\ e = <<>>
           /\ c # "/" => \E b \in Text : /\ e = Append(b, c) /\ e # <<>>
                                         /\ parts = Append(a, b)
<1>1. parts \in Seq(Text) /\ parts # <<>> /\ <<>> \in Text
  BY DEF Parts, Text
<1>2. CASE c = "/"
  BY <1>1, <1>2 DEF Extended
<1>3. CASE c # "/"
  <2>1. Front(parts) \in Seq(Text) /\ Last(parts) \in Text /\ parts = Append(Front(parts), Last(parts))
    BY <1>1, FrontAndLast
  <2>2. Append(Last(parts), c) \in Text /\ Append(Last(parts), c) # <<>>
    BY <2>1, AppendProperties DEF Text
  <2>3. Extended(parts, c) = Append(Front(parts), Append(Last(parts), c))
    BY <1>3 DEF Extended
  <2> QED  BY <1>3, <2>1, <2>2, <2>3
<1> QED  BY <1>2, <1>3

LEMMA ExtendedInParts ==
  ASSUME NEW parts \in Parts, NEW c \in Letter
  PROVE  Extended(parts, c) \in Parts
<1>1. PICK a \in Seq(Text), e \in Text : Extended(parts, c) = Append(a, e)
  BY ExtendedIs
<1> QED  BY <1>1, AppendProperties DEF Parts

\* A path with no character at all has one empty component, and no longer one has.
LEMMA FirstIsNotExtended ==
  ASSUME NEW parts \in Parts, NEW c \in Letter
  PROVE  Extended(parts, c) # <<<<>>>>
<1>1. SUFFICES ASSUME Extended(parts, c) = <<<<>>>> PROVE FALSE
  OBVIOUS
<1>2. PICK a \in Seq(Text), e \in Text :
           /\ Extended(parts, c) = Append(a, e)
           /\ c = "/" => a = parts /\ e = <<>>
           /\ c # "/" => e # <<>>
  BY ExtendedIs
<1>3. /\ Len(a) \in Nat /\ Len(Append(a, e)) = Len(a) + 1
      /\ Append(a, e)[Len(a) + 1] = e
  BY AppendProperties, LenProperties
<1>4. Len(<<<<>>>>) = 1 /\ <<<<>>>>[1] = <<>>
  OBVIOUS
<1>5. Len(a) = 0 /\ e = <<>>
  BY <1>1, <1>2, <1>3, <1>4
<1>6. a = <<>>
  BY <1>5, EmptySeq
<1> QED  BY <1>2, <1>5, <1>6 DEF Parts

LEMMA ExtendedInjective ==
  ASSUME NEW x \in Parts, NEW y \in Parts, NEW c \in Letter, NEW d \in Letter,
         Extended(x, c) = Extended(y, d)
  PROVE  x = y /\ c = d
<1>1. PICK a \in Seq(Text), e \in Text :
        /\ Extended(x, c) = Append(a, e)
        /\ c = "/" => a = x /\ e = <<>>
        /\ c # "/" => \E b \in Text : e = Append(b, c) /\ e # <<>> /\ x = Append(a, b)
  BY ExtendedIs
<1>2. PICK f \in Seq(Text), g \in Text :
        /\ Extended(y, d) = Append(f, g)
        /\ d = "/" => f = y /\ g = <<>>
        /\ d # "/" => \E b \in Text : g = Append(b, d) /\ g # <<>> /\ y = Append(f, b)
  BY ExtendedIs
<1>3. a = f /\ e = g
  <2>1. Append(a, e) = Append(f, g)
    BY <1>1, <1>2
  <2> QED  BY <2>1, AppendedSame
<1>4. CASE c = "/" \/ d = "/"
  BY <1>1, <1>2, <1>3, <1>4
<1>5. CASE c # "/" /\ d # "/"
  <2>1. PICK b \in Text : e = Append(b, c) /\ x = Append(a, b)
    BY <1>1, <1>5
  <2>2. PICK h \in Text : g = Append(h, d) /\ y = Append(f, h)
    BY <1>2, <1>5
  <2>3. b = h /\ c = d
    <3>1. Append(b, c) = Append(h, d)
      BY <1>3, <2>1, <2>2
    <3>2. b \in Seq(Letter) /\ h \in Seq(Letter)
      BY DEF Text
    <3> QED  BY <3>1, <3>2, AppendedSame
  <2> QED  BY <1>3, <2>1, <2>2, <2>3
<1> QED  BY <1>4, <1>5

\* The components of the beginnings of a path.
PartsOf(f, path, last) ==
  f = [n \in 0..last |-> IF n = 0 THEN <<<<>>>> ELSE Extended(f[n - 1], path[n])]

LEMMA PartsExist ==
  ASSUME NEW path
  PROVE  \A last \in Nat : \E f : PartsOf(f, path, last)
<1> DEFINE K == {last \in Nat : \E f : PartsOf(f, path, last)}
<1>1. 0 \in K
  <2>1. PartsOf([n \in 0..0 |-> <<<<>>>>], path, 0)
    BY DEF PartsOf
  <2> QED  BY <2>1
<1>2. ASSUME NEW last \in Nat, last \in K PROVE last + 1 \in K
  <2>1. PICK f : PartsOf(f, path, last)
    BY <1>2
  <2> DEFINE g == [n \in 0..(last + 1) |->
                     IF n = last + 1 THEN Extended(f[last], path[last + 1]) ELSE f[n]]
             h == [n \in 0..(last + 1) |-> IF n = 0 THEN <<<<>>>>
                                           ELSE Extended(g[n - 1], path[n])]
  <2>2. ASSUME NEW n \in 0..(last + 1) PROVE g[n] = h[n]
    <3>1. CASE n = last + 1
      <4>1. n # 0 /\ n - 1 = last /\ last \in 0..(last + 1) /\ last # last + 1
        BY <3>1
      <4>2. g[n] = Extended(f[last], path[n]) /\ g[last] = f[last]
        BY <3>1, <4>1
      <4> QED  BY <4>1, <4>2
    <3>2. CASE n # last + 1 /\ n = 0
      BY <2>1, <3>2 DEF PartsOf
    <3>3. CASE n # last + 1 /\ n # 0
      <4>1. /\ n \in 0..last /\ n - 1 \in 0..last
            /\ n - 1 \in 0..(last + 1) /\ n - 1 # last + 1
        BY <3>3
      <4>2. g[n] = f[n] /\ g[n - 1] = f[n - 1]
        BY <3>3, <4>1
      <4>3. f[n] = Extended(f[n - 1], path[n])
        BY <2>1, <3>3, <4>1 DEF PartsOf
      <4>4. h[n] = Extended(g[n - 1], path[n])
        BY <3>3
      <4> QED  BY <4>2, <4>3, <4>4
    <3> QED  BY <3>1, <3>2, <3>3
  <2>3. g = h
    BY <2>2
  <2>4. PartsOf(g, path, last + 1)
    BY <2>3 DEF PartsOf
  <2> HIDE DEF g
  <2> QED  BY <2>4
<1> HIDE DEF K
<1>3. \A last \in Nat : last \in K
  BY <1>1, <1>2, Induction
<1> QED  BY <1>3 DEF K

LEMMA PartsFromTo ==
  ASSUME NEW path \in Text
  PROVE  \E f : PartsOf(f, path, Len(path)) /\ Components(path) = f[Len(path)]
<1>1. Len(path) \in Nat
  BY LenProperties DEF Text
<1>2. \E f : PartsOf(f, path, Len(path))
  BY <1>1, PartsExist
<1>3. Components(path) = (CHOOSE f : PartsOf(f, path, Len(path)))[Len(path)]
  BY DEF Components, PartsOf
<1> QED  BY <1>2, <1>3

LEMMA PartsStep ==
  ASSUME NEW path \in Text, NEW f, PartsOf(f, path, Len(path))
  PROVE  /\ f[0] = <<<<>>>>
         /\ \A n \in Nat : n + 1 <= Len(path) =>
              f[n + 1] = Extended(f[n], path[n + 1]) /\ path[n + 1] \in Letter
<1>1. Len(path) \in Nat
  BY LenProperties DEF Text
<1>2. f[0] = <<<<>>>>
  BY <1>1 DEF PartsOf
<1>3. ASSUME NEW n \in Nat, n + 1 <= Len(path)
      PROVE  f[n + 1] = Extended(f[n], path[n + 1]) /\ path[n + 1] \in Letter
  <2>1. n + 1 \in 0..Len(path) /\ n + 1 # 0 /\ (n + 1) - 1 = n /\ n + 1 \in 1..Len(path)
    BY <1>1, <1>3
  <2>2. f[n + 1] = Extended(f[n], path[n + 1])
    BY <2>1 DEF PartsOf
  <2>3. path[n + 1] \in Letter
    BY <2>1, ElementOfSeq DEF Text
  <2> QED  BY <2>2, <2>3
<1> QED  BY <1>2, <1>3

\* A component holds no separator.
NoSeparator(parts) == \A k \in 1..Len(parts) : parts[k] # Outside

LEMMA PartsShape ==
  ASSUME NEW path \in Text, NEW f, PartsOf(f, path, Len(path))
  PROVE  \A n \in Nat : n <= Len(path) => f[n] \in Parts /\ NoSeparator(f[n])
<1> DEFINE K == {n \in Nat : n <= Len(path) => f[n] \in Parts /\ NoSeparator(f[n])}
<1>0. Len(path) \in Nat
  BY LenProperties DEF Text
<1>1. 0 \in K
  <2>1. f[0] = <<<<>>>>
    BY PartsStep
  <2>2. <<<<>>>> \in Parts /\ NoSeparator(<<<<>>>>)
    BY DEF Parts, Text, NoSeparator, Outside
  <2> QED  BY <2>1, <2>2
<1>2. ASSUME NEW n \in Nat, n \in K PROVE n + 1 \in K
  <2>1. SUFFICES ASSUME n + 1 <= Len(path) PROVE f[n + 1] \in Parts /\ NoSeparator(f[n + 1])
    OBVIOUS
  <2>2. n <= Len(path)
    BY <1>0, <2>1
  <2>3. PICK parts \in Parts : parts = f[n] /\ NoSeparator(parts)
    BY <1>2, <2>2
  <2>4. PICK c \in Letter : c = path[n + 1] /\ f[n + 1] = Extended(parts, c)
    BY <2>1, <2>3, PartsStep
  <2>5. Extended(parts, c) \in Parts
    BY ExtendedInParts
  <2>6. NoSeparator(Extended(parts, c))
    <3>1. PICK a \in Seq(Text), e \in Text :
           /\ Extended(parts, c) = Append(a, e)
           /\ c = "/" => a = parts /\ e = <<>>
           /\ c # "/" => \E b \in Text : /\ e = Append(b, c) /\ e # <<>>
                                         /\ parts = Append(a, b)
      BY ExtendedIs
    <3>2. \A k \in 1..Len(a) : a[k] # Outside
      <4>1. CASE c = "/"
        BY <2>3, <3>1, <4>1 DEF NoSeparator
      <4>2. CASE c # "/"
        <5>1. PICK b \in Text : parts = Append(a, b)
          BY <3>1, <4>2
        <5>2. /\ Len(a) \in Nat /\ Len(parts) = Len(a) + 1
              /\ \A k \in 1..Len(a) : parts[k] = a[k]
          BY <5>1, AppendProperties, LenProperties
        <5> QED  BY <2>3, <5>2 DEF NoSeparator
      <4> QED  BY <4>1, <4>2
    <3>3. e # Outside
      <4>1. CASE c = "/"
        BY <3>1, <4>1 DEF Outside
      <4>2. CASE c # "/"
        <5>1. PICK b \in Text : e = Append(b, c)
          BY <3>1, <4>2
        <5>2. Len(b) \in Nat /\ Len(e) = Len(b) + 1 /\ e[Len(b) + 1] = c
          BY <5>1, AppendProperties, LenProperties DEF Text
        <5>3. Len(Outside) = 1 /\ Outside[1] = "/"
          BY DEF Outside
        <5> QED  BY <4>2, <5>2, <5>3
      <4> QED  BY <4>1, <4>2
    <3>4. /\ Len(a) \in Nat /\ Len(Append(a, e)) = Len(a) + 1
          /\ \A k \in 1..Len(a) : Append(a, e)[k] = a[k]
          /\ Append(a, e)[Len(a) + 1] = e
      BY AppendProperties, LenProperties
    <3>5. PICK m \in Nat : m = Len(a)
      BY <3>4
    <3>6. ASSUME NEW k \in 1..(m + 1) PROVE Append(a, e)[k] # Outside
      <4>1. k \in 1..m \/ k = m + 1
        OBVIOUS
      <4> QED  BY <3>2, <3>3, <3>4, <3>5, <4>1
    <3> QED  BY <3>1, <3>4, <3>5, <3>6 DEF NoSeparator
  <2> QED  BY <2>4, <2>5, <2>6
<1> HIDE DEF K
<1>3. \A n \in Nat : n \in K
  BY <1>1, <1>2, Induction
<1> QED  BY <1>3 DEF K

\* No two paths have the same components.
LEMMA ComponentsTellPaths ==
  ASSUME NEW p \in Text, NEW q \in Text, Components(p) = Components(q)
  PROVE  p = q
<1>1. PICK f : PartsOf(f, p, Len(p)) /\ Components(p) = f[Len(p)]
  BY PartsFromTo
<1>2. PICK g : PartsOf(g, q, Len(q)) /\ Components(q) = g[Len(q)]
  BY PartsFromTo
<1>3. Len(p) \in Nat /\ Len(q) \in Nat
  BY LenProperties DEF Text
<1> DEFINE Same(m, n) == m = n /\ \A i \in 1..m : p[i] = q[i]
           K == {m \in Nat : m <= Len(p) =>
                   \A n \in Nat : n <= Len(q) /\ f[m] = g[n] => Same(m, n)}
<1>4. 0 \in K
  <2>1. SUFFICES ASSUME NEW n \in Nat, n <= Len(q), f[0] = g[n] PROVE n = 0
    OBVIOUS
  <2>2. SUFFICES ASSUME n # 0 PROVE FALSE
    OBVIOUS
  <2>3. PICK k \in Nat : n = k + 1 /\ k <= Len(q)
    <3>1. n - 1 \in Nat /\ n = (n - 1) + 1 /\ n - 1 <= Len(q)
      BY <1>3, <2>1, <2>2
    <3> QED  BY <3>1
  <2>4. g[k] \in Parts
    BY <1>2, <2>3, PartsShape
  <2>5. g[n] = Extended(g[k], q[n]) /\ q[n] \in Letter
    BY <1>2, <2>1, <2>3, PartsStep
  <2>6. f[0] = <<<<>>>>
    BY <1>1, PartsStep
  <2> QED  BY <2>1, <2>4, <2>5, <2>6, FirstIsNotExtended
<1>5. ASSUME NEW m \in Nat, m \in K PROVE m + 1 \in K
  <2>1. SUFFICES ASSUME m + 1 <= Len(p), NEW n \in Nat, n <= Len(q), f[m + 1] = g[n]
                 PROVE  Same(m + 1, n)
    OBVIOUS
  <2>2. m <= Len(p)
    BY <1>3, <2>1
  <2>3. f[m] \in Parts /\ f[m + 1] = Extended(f[m], p[m + 1]) /\ p[m + 1] \in Letter
    BY <1>1, <2>1, <2>2, PartsShape, PartsStep
  <2>4. n # 0
    <3>1. g[0] = <<<<>>>>
      BY <1>2, PartsStep
    <3> QED  BY <2>1, <2>3, <3>1, FirstIsNotExtended
  <2>5. PICK k \in Nat : n = k + 1 /\ k <= Len(q)
    <3>1. n - 1 \in Nat /\ n = (n - 1) + 1 /\ n - 1 <= Len(q)
      BY <1>3, <2>1, <2>4
    <3> QED  BY <3>1
  <2>6. g[k] \in Parts /\ g[n] = Extended(g[k], q[n]) /\ q[n] \in Letter
    BY <1>2, <2>1, <2>5, PartsShape, PartsStep
  <2>7. f[m] = g[k] /\ p[m + 1] = q[n]
    <3>1. Extended(f[m], p[m + 1]) = Extended(g[k], q[n])
      BY <2>1, <2>3, <2>6
    <3>2. PICK x \in Parts, y \in Parts, c \in Letter, d \in Letter :
            x = f[m] /\ y = g[k] /\ c = p[m + 1] /\ d = q[n]
      BY <2>3, <2>6
    <3>3. x = y /\ c = d
      <4>1. Extended(x, c) = Extended(y, d)
        BY <3>1, <3>2
      <4> QED  BY <4>1, ExtendedInjective
    <3> QED  BY <3>2, <3>3
  <2>8. Same(m, k)
    BY <1>5, <2>2, <2>5, <2>7
  <2>9. ASSUME NEW i \in 1..(m + 1) PROVE p[i] = q[i]
    <3>1. i \in 1..m \/ i = m + 1
      OBVIOUS
    <3> QED  BY <2>5, <2>7, <2>8, <3>1
  <2> QED  BY <2>5, <2>8, <2>9
<1> HIDE DEF K
<1>6. \A m \in Nat : m \in K
  BY <1>4, <1>5, Induction
<1>7. Same(Len(p), Len(q))
  <2>1. PICK m \in Nat, n \in Nat : m = Len(p) /\ n = Len(q)
    BY <1>3
  <2>2. f[m] = g[n]
    BY <1>1, <1>2, <2>1
  <2>3. m \in K
    BY <1>6
  <2> HIDE DEF Same
  <2>4. m <= Len(p) /\ n <= Len(q)
    BY <2>1
  <2> QED  BY <2>1, <2>2, <2>3, <2>4 DEF K
<1> QED  BY <1>3, <1>7, SeqEqual DEF Text

-----------------------------------------------------------------------------
\* The names of an accepted path are names of files, none of the dots.
Plain(components) ==
  \A n \in 1..Len(components) : components[n] \notin {<<>>, <<".">>, <<".", ".">>}

LEMMA ComponentsArePlain ==
  ASSUME NEW path \in Text, NEW policy, Validate(path, policy) = "ok"
  PROVE  /\ Components(path) \in Seq(Text)
         /\ Plain(Components(path)) /\ NoSeparator(Components(path))
<1>1. PICK f : PartsOf(f, path, Len(path)) /\ Components(path) = f[Len(path)]
  BY PartsFromTo
<1>2. Len(path) \in Nat
  BY LenProperties DEF Text
<1>3. Components(path) \in Seq(Text) /\ NoSeparator(Components(path))
  BY <1>1, <1>2, PartsShape DEF Parts
<1>4. PICK components \in Seq(Text) : components = Components(path)
  BY <1>3
<1>5. ValidateWith(components, policy) = "ok"
  BY <1>4 DEF Validate
<1> DEFINE failing == {n \in DOMAIN components : ComponentStatus(components[n], n, policy) # "ok"}
<1>6. failing = {}
  <2>1. SUFFICES ASSUME failing # {} PROVE FALSE
    OBVIOUS
  <2>2. failing \in SUBSET Nat
    BY LenProperties
  <2>3. \E n \in failing : \A k \in failing : n <= k
    <3> HIDE DEF failing
    <3> QED  BY <2>1, <2>2, LeastElement
  <2>4. PICK first \in failing : ValidateWith(components, policy)
                                   = ComponentStatus(components[first], first, policy)
    BY <2>1, <2>3 DEF ValidateWith
  <2> QED  BY <1>5, <2>4
<1>7. ASSUME NEW n \in 1..Len(components)
      PROVE  components[n] \notin {<<>>, <<".">>, <<".", ".">>}
  <2>1. DOMAIN components = 1..Len(components)
    BY LenProperties
  <2>2. ComponentStatus(components[n], n, policy) = "ok"
    BY <1>6, <2>1
  <2> QED  BY <2>2 DEF ComponentStatus
<1> QED  BY <1>3, <1>4, <1>7 DEF Plain

\* A path is read from its beginning: one more character extends its components.
LEMMA ComponentsOfNone == Components(<<>>) = <<<<>>>>
<1>1. PICK path \in Text : path = <<>>
  BY EmptySeq DEF Text
<1>2. PICK f : PartsOf(f, path, Len(path)) /\ Components(path) = f[Len(path)]
  BY PartsFromTo
<1>3. Len(path) = 0
  BY <1>1
<1> QED  BY <1>1, <1>2, <1>3, PartsStep

LEMMA ComponentsInParts == ASSUME NEW path \in Text PROVE Components(path) \in Parts
<1>1. PICK f : PartsOf(f, path, Len(path)) /\ Components(path) = f[Len(path)]
  BY PartsFromTo
<1>2. Len(path) \in Nat
  BY LenProperties DEF Text
<1> QED  BY <1>1, <1>2, PartsShape

LEMMA ComponentsStep ==
  ASSUME NEW path \in Text, NEW c \in Letter
  PROVE  /\ Append(path, c) \in Text
         /\ Components(Append(path, c)) = Extended(Components(path), c)
<1>1. PICK m \in Nat : m = Len(path)
  BY LenProperties DEF Text
<1>2. PICK longer \in Text : longer = Append(path, c)
  BY AppendProperties DEF Text
<1>3. Len(longer) = m + 1 /\ longer[m + 1] = c /\ \A i \in 1..m : longer[i] = path[i]
  BY <1>1, <1>2, AppendProperties DEF Text
<1>4. PICK f : PartsOf(f, path, Len(path)) /\ Components(path) = f[Len(path)]
  BY PartsFromTo
<1>5. PICK g : PartsOf(g, longer, Len(longer)) /\ Components(longer) = g[Len(longer)]
  BY PartsFromTo
<1> DEFINE K == {n \in Nat : n <= m => g[n] = f[n]}
<1>6. 0 \in K
  BY <1>4, <1>5, PartsStep
<1>7. ASSUME NEW n \in Nat, n \in K PROVE n + 1 \in K
  <2>1. SUFFICES ASSUME n + 1 <= m PROVE g[n + 1] = f[n + 1]
    OBVIOUS
  <2>2. n <= m /\ n + 1 <= m + 1 /\ n + 1 \in 1..m
    BY <2>1
  <2>3. f[n + 1] = Extended(f[n], path[n + 1])
    BY <1>1, <1>4, <2>1, PartsStep
  <2>4. g[n + 1] = Extended(g[n], longer[n + 1])
    BY <1>3, <1>5, <2>2, PartsStep
  <2> QED  BY <1>3, <1>7, <2>2, <2>3, <2>4
<1> HIDE DEF K
<1>8. \A n \in Nat : n \in K
  BY <1>6, <1>7, Induction
<1>9. g[m] = f[m]
  BY <1>8 DEF K
<1>10. g[m + 1] = Extended(g[m], longer[m + 1])
  <2>1. m + 1 <= Len(longer)
    BY <1>3
  <2> QED  BY <1>5, <2>1, PartsStep
<1> QED  BY <1>1, <1>2, <1>3, <1>4, <1>5, <1>9, <1>10

LEMMA AppendToConcat ==
  ASSUME NEW S, NEW before \in Seq(S), NEW s \in Seq(S), NEW e \in S
  PROVE  /\ before \o s \in Seq(S) /\ Append(s, e) \in Seq(S)
         /\ before \o Append(s, e) = Append(before \o s, e)
<1>1. before \o s \in Seq(S) /\ Append(s, e) \in Seq(S) /\ <<e>> \in Seq(S)
  BY ConcatProperties, AppendProperties
<1>2. Append(s, e) = s \o <<e>> /\ Append(before \o s, e) = (before \o s) \o <<e>>
  BY <1>1, AppendIsConcat
<1> QED  BY <1>1, <1>2, ConcatAssociative

LEMMA BeginningGrows ==
  ASSUME NEW S, NEW s \in Seq(S), NEW n \in Nat, n + 1 <= Len(s)
  PROVE  /\ SubSeq(s, 1, n) \in Seq(S) /\ s[n + 1] \in S
         /\ SubSeq(s, 1, n + 1) = Append(SubSeq(s, 1, n), s[n + 1])
<1>1. Len(s) \in Nat /\ n + 1 \in 1..Len(s)
  BY LenProperties
<1>2. s[n + 1] \in S
  BY <1>1, ElementOfSeq
<1>3. \A i \in 1..n : s[i] \in S
  <2>1. \A i \in 1..n : i \in 1..Len(s)
    BY <1>1
  <2> QED  BY <2>1, ElementOfSeq
<1>4. SubSeq(s, 1, n) \in Seq(S)
  BY <1>3, SubSeqProperties
<1>5. SubSeq(s, 1, n + 1) = Append(SubSeq(s, 1, n), s[n + 1])
  BY <1>1, <1>4
<1> QED  BY <1>2, <1>4, <1>5

LEMMA ExtendedBehind ==
  ASSUME NEW before \in Seq(Text), NEW parts \in Parts, NEW c \in Letter
  PROVE  Extended(before \o parts, c) = before \o Extended(parts, c)
<1>1. parts \in Seq(Text) /\ parts # <<>> /\ <<>> \in Text
  BY DEF Parts, Text
<1>2. CASE c = "/"
  <2>1. PICK none \in Text : none = <<>>
    BY <1>1
  <2>2. before \o Append(parts, none) = Append(before \o parts, none)
    BY <1>1, AppendToConcat
  <2> QED  BY <1>2, <2>1, <2>2 DEF Extended
<1>3. CASE c # "/"
  <2>1. PICK a \in Seq(Text), e \in Text : a = Front(parts) /\ e = Last(parts) /\ parts = Append(a, e)
    BY <1>1, FrontAndLast
  <2>2. PICK all \in Seq(Text) : all = before \o parts
    BY <1>1, ConcatProperties
  <2>3. PICK start \in Seq(Text) : start = before \o a
    BY ConcatProperties
  <2>4. before \o Append(a, e) = Append(before \o a, e)
    BY AppendToConcat
  <2>5. all = Append(start, e)
    BY <2>1, <2>2, <2>3, <2>4
  <2>6. all # <<>>
    BY <2>5, AppendProperties
  <2>7. Front(all) = start /\ Last(all) = e
    <3>1. Front(all) \in Seq(Text) /\ Last(all) \in Text /\ all = Append(Front(all), Last(all))
      BY <2>6, FrontAndLast
    <3>2. Append(Front(all), Last(all)) = Append(start, e)
      BY <2>5, <3>1
    <3> QED  BY <3>1, <3>2, AppendedSame
  <2>8. PICK longer \in Text : longer = Append(e, c)
    BY AppendProperties DEF Text
  <2>9. Extended(parts, c) = Append(a, longer) /\ Extended(all, c) = Append(start, longer)
    BY <1>3, <2>1, <2>7, <2>8 DEF Extended
  <2>10. before \o Append(a, longer) = Append(before \o a, longer)
    BY AppendToConcat
  <2> QED  BY <2>2, <2>3, <2>9, <2>10
<1> QED  BY <1>2, <1>3

\* The components of what a separator joins are those of the two.
LEMMA ComponentsOfJoin ==
  ASSUME NEW r \in Text, NEW path \in Text
  PROVE  /\ Append(r, "/") \in Text
         /\ Components(Append(r, "/")) = Append(Components(r), <<>>)
         /\ Components(Append(r, "/") \o path) = Components(r) \o Components(path)
<1>1. PICK slash \in Letter : slash = "/"
  BY DEF Letter
<1>2. PICK parts \in Parts : parts = Components(r)
  BY ComponentsInParts
<1>3. parts \in Seq(Text) /\ <<>> \in Text /\ <<>> \in Seq(Text)
  BY DEF Parts, Text
<1>4. PICK front \in Text : front = Append(r, slash) /\ Components(front) = Append(parts, <<>>)
  BY <1>1, <1>2, ComponentsStep DEF Extended
<1>5. PICK m \in Nat : m = Len(path)
  BY LenProperties DEF Text
<1> DEFINE Joined(n) == Components(front \o SubSeq(path, 1, n)) = parts \o Components(SubSeq(path, 1, n))
           K == {n \in Nat : n <= m => Joined(n)}
<1>6. 0 \in K
  <2>1. SubSeq(path, 1, 0) = <<>>
    BY SubSeqEmpty
  <2>2. front \o <<>> = front
    BY ConcatEmptySeq DEF Text
  <2>3. parts \o <<<<>>>> = Append(parts, <<>>)
    BY <1>3, AppendIsConcat
  <2> QED  BY <1>4, <2>1, <2>2, <2>3, ComponentsOfNone
<1>7. ASSUME NEW n \in Nat, n \in K PROVE n + 1 \in K
  <2>1. SUFFICES ASSUME n + 1 <= m PROVE Joined(n + 1)
    OBVIOUS
  <2>2. PICK whole \in Seq(Letter) : whole = path /\ n + 1 <= Len(whole)
    BY <1>5, <2>1 DEF Text
  <2>3. /\ SubSeq(whole, 1, n) \in Seq(Letter) /\ whole[n + 1] \in Letter
        /\ SubSeq(whole, 1, n + 1) = Append(SubSeq(whole, 1, n), whole[n + 1])
    BY <2>2, BeginningGrows
  <2>4. PICK start \in Text : start = SubSeq(path, 1, n)
    BY <2>2, <2>3 DEF Text
  <2>5. PICK c \in Letter : c = path[n + 1]
    BY <2>2, <2>3
  <2>6. /\ start = SubSeq(path, 1, n) /\ c = path[n + 1]
        /\ SubSeq(path, 1, n + 1) = Append(start, c)
    BY <2>2, <2>3, <2>4, <2>5
  <2>7. Components(front \o start) = parts \o Components(start)
    BY <1>7, <2>1, <2>6
  <2>8. PICK text \in Text : text = front \o start
    BY ConcatProperties DEF Text
  <2>9. front \o Append(start, c) = Append(front \o start, c)
    BY AppendToConcat DEF Text
  <2>10. text = front \o start /\ front \o Append(start, c) = Append(text, c)
    BY <2>8, <2>9
  <2>11. PICK last \in Parts : last = Components(start)
    BY ComponentsInParts
  <2>12. Components(Append(text, c)) = Extended(parts \o last, c)
    BY <2>7, <2>10, <2>11, ComponentsStep
  <2>13. Components(Append(start, c)) = Extended(last, c)
    BY <2>11, ComponentsStep
  <2>14. Extended(parts \o last, c) = parts \o Extended(last, c)
    BY <1>3, ExtendedBehind
  <2> QED  BY <2>6, <2>10, <2>12, <2>13, <2>14
<1> HIDE DEF K
<1>8. \A n \in Nat : n \in K
  BY <1>6, <1>7, Induction
<1>9. Joined(m)
  BY <1>8 DEF K
<1>10. SubSeq(path, 1, m) = path
  BY <1>5, SubSeqFull DEF Text
<1> QED  BY <1>1, <1>2, <1>4, <1>9, <1>10

-----------------------------------------------------------------------------
\* Where a file system is after each of the names.
WalkOf(f, components, last) ==
  f = [n \in 0..last |-> IF n = 0 THEN <<>> ELSE Walked(f[n - 1], components[n])]

LEMMA WalksExist ==
  ASSUME NEW components
  PROVE  \A last \in Nat : \E f : WalkOf(f, components, last)
<1> DEFINE K == {last \in Nat : \E f : WalkOf(f, components, last)}
<1>1. 0 \in K
  <2>1. WalkOf([n \in 0..0 |-> <<>>], components, 0)
    BY DEF WalkOf
  <2> QED  BY <2>1
<1>2. ASSUME NEW last \in Nat, last \in K PROVE last + 1 \in K
  <2>1. PICK f : WalkOf(f, components, last)
    BY <1>2
  <2> DEFINE g == [n \in 0..(last + 1) |->
                     IF n = last + 1 THEN Walked(f[last], components[last + 1]) ELSE f[n]]
             h == [n \in 0..(last + 1) |-> IF n = 0 THEN <<>>
                                           ELSE Walked(g[n - 1], components[n])]
  <2>2. ASSUME NEW n \in 0..(last + 1) PROVE g[n] = h[n]
    <3>1. CASE n = last + 1
      <4>1. n # 0 /\ n - 1 = last /\ last \in 0..(last + 1) /\ last # last + 1
        BY <3>1
      <4>2. g[n] = Walked(f[last], components[n]) /\ g[last] = f[last]
        BY <3>1, <4>1
      <4> QED  BY <4>1, <4>2
    <3>2. CASE n # last + 1 /\ n = 0
      BY <2>1, <3>2 DEF WalkOf
    <3>3. CASE n # last + 1 /\ n # 0
      <4>1. /\ n \in 0..last /\ n - 1 \in 0..last
            /\ n - 1 \in 0..(last + 1) /\ n - 1 # last + 1
        BY <3>3
      <4>2. g[n] = f[n] /\ g[n - 1] = f[n - 1]
        BY <3>3, <4>1
      <4>3. f[n] = Walked(f[n - 1], components[n])
        BY <2>1, <3>3, <4>1 DEF WalkOf
      <4>4. h[n] = Walked(g[n - 1], components[n])
        BY <3>3
      <4> QED  BY <4>2, <4>3, <4>4
    <3> QED  BY <3>1, <3>2, <3>3
  <2>3. g = h
    BY <2>2
  <2>4. WalkOf(g, components, last + 1)
    BY <2>3 DEF WalkOf
  <2> HIDE DEF g
  <2> QED  BY <2>4
<1> HIDE DEF K
<1>3. \A last \in Nat : last \in K
  BY <1>1, <1>2, Induction
<1> QED  BY <1>3 DEF K

Follows(f, components, last) ==
  /\ f[0] = <<>> /\ Walk(components) = f[last]
  /\ \A n \in Nat : n + 1 <= last => f[n + 1] = Walked(f[n], components[n + 1])

LEMMA WalkFromTo ==
  ASSUME NEW components \in Seq(Text)
  PROVE  \E f : Follows(f, components, Len(components))
<1>1. PICK last \in Nat : last = Len(components)
  BY LenProperties
<1>2. PICK f : f = CHOOSE g : WalkOf(g, components, last)
  OBVIOUS
<1>3. WalkOf(f, components, last)
  BY <1>2, WalksExist
<1>4. Walk(components) = f[last]
  BY <1>1, <1>2 DEF Walk, WalkOf
<1>5. ASSUME NEW n \in Nat, n + 1 <= last
      PROVE  f[n + 1] = Walked(f[n], components[n + 1])
  <2>1. n + 1 \in 0..last /\ n + 1 # 0 /\ (n + 1) - 1 = n
    BY <1>5
  <2> QED  BY <1>3, <2>1 DEF WalkOf
<1>6. f[0] = <<>>
  BY <1>3 DEF WalkOf
<1>7. Follows(f, components, last)
  BY <1>4, <1>5, <1>6 DEF Follows
<1> QED  BY <1>1, <1>7

LEMMA WalkOfNone == Walk(<<>>) = <<>>
<1>1. PICK components \in Seq(Text) : components = <<>>
  BY EmptySeq
<1>2. Len(components) = 0
  BY <1>1
<1>3. PICK f : Follows(f, components, Len(components))
  BY WalkFromTo
<1> QED  BY <1>1, <1>2, <1>3 DEF Follows

LEMMA WalkedInText ==
  ASSUME NEW names \in Seq(Text), NEW name \in Text
  PROVE  Walked(names, name) \in Seq(Text)
<1>1. Outside \in Text
  <2>1. PICK slash \in Letter : slash = "/"
    BY DEF Letter
  <2>2. <<slash>> \in Seq(Letter)
    OBVIOUS
  <2> QED  BY <2>1, <2>2 DEF Outside, Text
<1>2. Append(names, name) \in Seq(Text) /\ Append(names, Outside) \in Seq(Text)
  BY <1>1, AppendProperties
<1>3. names # <<>> => Front(names) \in Seq(Text)
  BY FrontAndLast
<1> QED  BY <1>2, <1>3 DEF Walked

LEMMA WalkInText ==
  ASSUME NEW components \in Seq(Text)
  PROVE  Walk(components) \in Seq(Text)
<1>1. PICK m \in Nat : m = Len(components)
  BY LenProperties
<1>2. PICK f : Follows(f, components, m)
  BY <1>1, WalkFromTo
<1>3. /\ Walk(components) = f[m] /\ f[0] = <<>>
      /\ \A n \in Nat : n + 1 <= m => f[n + 1] = Walked(f[n], components[n + 1])
  BY <1>2 DEF Follows
<1> DEFINE K == {n \in Nat : n <= m => f[n] \in Seq(Text)}
<1>4. 0 \in K
  BY <1>3, EmptySeq
<1>5. ASSUME NEW n \in Nat, n \in K PROVE n + 1 \in K
  <2>1. SUFFICES ASSUME n + 1 <= m PROVE f[n + 1] \in Seq(Text)
    OBVIOUS
  <2>2. n <= m /\ n + 1 \in 1..Len(components)
    BY <1>1, <2>1
  <2>3. components[n + 1] \in Text
    BY <2>2, ElementOfSeq
  <2>4. PICK names \in Seq(Text) : names = f[n]
    BY <1>5, <2>2
  <2> QED  BY <1>3, <2>1, <2>3, <2>4, WalkedInText
<1> HIDE DEF K
<1>6. \A n \in Nat : n \in K
  BY <1>4, <1>5, Induction
<1> QED  BY <1>3, <1>6 DEF K

LEMMA WalkStep ==
  ASSUME NEW components \in Seq(Text), NEW name \in Text
  PROVE  Walk(Append(components, name)) = Walked(Walk(components), name)
<1>1. PICK m \in Nat : m = Len(components)
  BY LenProperties
<1>2. PICK longer \in Seq(Text) : longer = Append(components, name)
  BY AppendProperties
<1>3. Len(longer) = m + 1 /\ longer[m + 1] = name /\ \A i \in 1..m : longer[i] = components[i]
  BY <1>1, <1>2, AppendProperties
<1>4. PICK f : Follows(f, components, m)
  BY <1>1, WalkFromTo
<1>5. /\ Walk(components) = f[m] /\ f[0] = <<>>
      /\ \A n \in Nat : n + 1 <= m => f[n + 1] = Walked(f[n], components[n + 1])
  BY <1>4 DEF Follows
<1>6. PICK g : Follows(g, longer, Len(longer))
  BY WalkFromTo
<1>7. /\ Walk(longer) = g[m + 1] /\ g[0] = <<>>
      /\ \A n \in Nat : n + 1 <= m + 1 => g[n + 1] = Walked(g[n], longer[n + 1])
  BY <1>3, <1>6 DEF Follows
<1> DEFINE K == {n \in Nat : n <= m => g[n] = f[n]}
<1>8. 0 \in K
  BY <1>5, <1>7
<1>9. ASSUME NEW n \in Nat, n \in K PROVE n + 1 \in K
  <2>1. SUFFICES ASSUME n + 1 <= m PROVE g[n + 1] = f[n + 1]
    OBVIOUS
  <2>2. n <= m /\ n + 1 <= m + 1 /\ n + 1 \in 1..m
    BY <2>1
  <2> QED  BY <1>3, <1>5, <1>7, <1>9, <2>1, <2>2
<1> HIDE DEF K
<1>10. \A n \in Nat : n \in K
  BY <1>8, <1>9, Induction
<1>11. g[m] = f[m]
  BY <1>10 DEF K
<1>12. g[m + 1] = Walked(g[m], longer[m + 1])
  BY <1>7
<1> QED  BY <1>2, <1>3, <1>5, <1>7, <1>11, <1>12

\* From wherever it is a file system walks down plain names, to the last of them.
LEMMA WalkOnPlain ==
  ASSUME NEW before \in Seq(Text), NEW components \in Seq(Text), Plain(components)
  PROVE  Walk(before \o components) = Walk(before) \o components
<1>1. PICK m \in Nat : m = Len(components)
  BY LenProperties
<1>2. PICK names \in Seq(Text) : names = Walk(before)
  BY WalkInText
<1> DEFINE Goes(n) == Walk(before \o SubSeq(components, 1, n)) = names \o SubSeq(components, 1, n)
           K == {n \in Nat : n <= m => Goes(n)}
<1>3. 0 \in K
  <2>1. SubSeq(components, 1, 0) = <<>>
    BY SubSeqEmpty
  <2>2. before \o <<>> = before /\ names \o <<>> = names
    BY ConcatEmptySeq
  <2> QED  BY <1>2, <2>1, <2>2
<1>4. ASSUME NEW n \in Nat, n \in K PROVE n + 1 \in K
  <2>1. SUFFICES ASSUME n + 1 <= m PROVE Goes(n + 1)
    OBVIOUS
  <2>2. n + 1 <= Len(components)
    BY <1>1, <2>1
  <2>3. /\ SubSeq(components, 1, n) \in Seq(Text) /\ components[n + 1] \in Text
        /\ SubSeq(components, 1, n + 1) = Append(SubSeq(components, 1, n), components[n + 1])
    BY <2>2, BeginningGrows
  <2>4. PICK start \in Seq(Text) : start = SubSeq(components, 1, n)
    BY <2>3
  <2>5. PICK name \in Text : name = components[n + 1]
    BY <2>3
  <2>6. /\ start = SubSeq(components, 1, n) /\ name = components[n + 1]
        /\ SubSeq(components, 1, n + 1) = Append(start, name)
    BY <2>3, <2>4, <2>5
  <2>7. Walk(before \o start) = names \o start
    BY <1>4, <2>1, <2>6
  <2>8. PICK all \in Seq(Text) : all = before \o start
    BY ConcatProperties
  <2>9. before \o Append(start, name) = Append(before \o start, name)
    BY AppendToConcat
  <2>10. all = before \o start /\ before \o Append(start, name) = Append(all, name)
    BY <2>8, <2>9
  <2>11. PICK gone \in Seq(Text) : gone = names \o start
    BY ConcatProperties
  <2>12. names \o Append(start, name) = Append(names \o start, name)
    BY AppendToConcat
  <2>13. gone = names \o start /\ names \o Append(start, name) = Append(gone, name)
    BY <2>11, <2>12
  <2>14. name \notin {<<>>, <<".">>, <<".", ".">>}
    <3>1. n + 1 \in 1..Len(components)
      BY <1>1, <2>1
    <3> QED  BY <2>6, <3>1 DEF Plain
  <2>15. Walked(gone, name) = Append(gone, name)
    BY <2>14 DEF Walked
  <2>16. Walk(Append(all, name)) = Walked(gone, name)
    BY <2>7, <2>10, <2>13, WalkStep
  <2> QED  BY <2>6, <2>10, <2>13, <2>15, <2>16
<1> HIDE DEF K
<1>5. \A n \in Nat : n \in K
  BY <1>3, <1>4, Induction
<1>6. Goes(m)
  BY <1>5 DEF K
<1>7. SubSeq(components, 1, m) = components
  BY <1>1, SubSeqFull
<1> QED  BY <1>2, <1>6, <1>7

LEMMA WalkIsPlain ==
  ASSUME NEW components \in Seq(Text), Plain(components)
  PROVE  Walk(components) = components
<1>1. PICK none \in Seq(Text) : none = <<>>
  BY EmptySeq
<1>2. none \o components = components
  BY <1>1, ConcatEmptySeq
<1> QED  BY <1>1, <1>2, WalkOnPlain, WalkOfNone

\* A separator at the end of a path leads nowhere else.
LEMMA WalkOverSeparator ==
  ASSUME NEW components \in Seq(Text)
  PROVE  Walk(Append(components, <<>>)) = Walk(components)
<1>1. PICK none \in Text : none = <<>>
  BY EmptySeq DEF Text
<1>2. Walk(Append(components, none)) = Walked(Walk(components), none)
  BY WalkStep
<1> QED  BY <1>1, <1>2 DEF Walked

LEMMA AcceptedWalk ==
  ASSUME NEW path \in Text, NEW policy, Validate(path, policy) = "ok"
  PROVE  /\ Walk(Components(path)) = Components(path)
         /\ Outside \notin {Components(path)[n] : n \in DOMAIN Components(path)}
<1>1. PICK components \in Seq(Text) :
        components = Components(path) /\ Plain(components) /\ NoSeparator(components)
  BY ComponentsArePlain
<1>2. Walk(components) = components
  BY <1>1, WalkIsPlain
<1>3. DOMAIN components = 1..Len(components)
  BY LenProperties
<1>4. Outside \notin {components[n] : n \in DOMAIN components}
  BY <1>1, <1>3 DEF NoSeparator
<1> QED  BY <1>1, <1>2, <1>4

JoinedTo(root, relative, text) ==
  IF root = <<>> THEN text = relative
  ELSE text = (IF Last(root) = "/" THEN root ELSE Append(root, "/")) \o relative

\* What is joined to a root that ends in no backslash leads on from where the root leads.
LEMMA JoinedLeadsOn ==
  ASSUME NEW root \in Text, NEW relative \in Text, NEW components \in Seq(Text),
         components = Components(relative), Plain(components),
         NEW text, JoinedTo(root, relative, text)
  PROVE  Walk(Components(text)) = Walk(Components(root)) \o components
<1>1. PICK parts \in Seq(Text) : parts = Components(root)
  BY ComponentsInParts DEF Parts
<1>2. CASE root = <<>>
  <2>1. PICK none \in Seq(Text) : none = <<>>
    BY EmptySeq
  <2>2. Append(none, <<>>) = <<<<>>>>
    BY <2>1
  <2>3. Walk(Components(root)) = <<>>
    BY <1>2, <2>1, <2>2, ComponentsOfNone, WalkOverSeparator, WalkOfNone
  <2>4. <<>> \o components = components
    BY ConcatEmptySeq
  <2>5. text = relative
    BY <1>2 DEF JoinedTo
  <2> QED  BY <2>3, <2>4, <2>5, WalkIsPlain
<1>3. CASE root # <<>> /\ Last(root) = "/"
  <2>1. PICK r \in Text : root = Append(r, "/")
    BY <1>3, FrontAndLast DEF Text
  <2>2. PICK start \in Seq(Text) : start = Components(r)
    BY ComponentsInParts DEF Parts
  <2>3. text = Append(r, "/") \o relative
    BY <1>3, <2>1 DEF JoinedTo
  <2>4. /\ Components(Append(r, "/")) = Append(Components(r), <<>>)
        /\ Components(Append(r, "/") \o relative) = Components(r) \o Components(relative)
    BY ComponentsOfJoin
  <2>5. Components(root) = Append(start, <<>>) /\ Components(text) = start \o components
    BY <2>1, <2>2, <2>3, <2>4
  <2>6. Walk(start \o components) = Walk(start) \o components
    BY WalkOnPlain
  <2> QED  BY <2>5, <2>6, WalkOverSeparator
<1>4. CASE root # <<>> /\ Last(root) # "/"
  <2>1. Components(text) = parts \o components
    BY <1>1, <1>4, ComponentsOfJoin DEF JoinedTo
  <2> QED  BY <1>1, <2>1, WalkOnPlain
<1> QED  BY <1>2, <1>3, <1>4

LEMMA AbsoluteAsFront ==
  ASSUME NEW front \in Text, NEW relative \in Text, front = <<>> => ~Absolute(relative)
  PROVE  front \o relative \in Text /\ (Absolute(front \o relative) <=> Absolute(front))
<1>1. PICK text \in Text : text = front \o relative
  BY ConcatProperties DEF Text
<1>2. CASE front = <<>>
  <2>1. text = relative
    BY <1>1, <1>2, ConcatEmptySeq DEF Text
  <2> QED  BY <1>1, <1>2, <2>1 DEF Absolute
<1>3. CASE front # <<>>
  <2>1. PICK f \in Nat, n \in Nat : f = Len(front) /\ n = Len(relative) /\ f > 0
    BY <1>3, EmptySeq, LenProperties DEF Text
  <2>2. Len(text) = f + n /\ \A i \in 1..(f + n) : i <= f => text[i] = front[i]
    BY <1>1, <2>1, ConcatProperties DEF Text
  <2>3. 1 \in 1..(f + n) /\ 1 <= f /\ f + n > 0
    BY <2>1
  <2>4. text[1] = front[1] /\ text # <<>>
    BY <2>2, <2>3, EmptySeq
  <2> QED  BY <1>1, <1>3, <2>4 DEF Absolute
<1> QED  BY <1>2, <1>3

\* Where the joined text of an accepted path leads.
LeadsOn(root, relative, text) ==
  /\ IF root # <<>> /\ Last(root) = "\\" THEN text = root \o relative
     ELSE Walk(Components(text)) = Walk(Components(root)) \o Walk(Components(relative))
  /\ Absolute(text) <=> Absolute(root)

LEMMA MeasuredPath ==
  ASSUME NEW root \in Text, NEW relative \in Text, NEW policy,
         Measured(root, relative, policy).status = "ok"
  PROVE  /\ Validate(relative, policy) = "ok"
         /\ Measured(root, relative, policy).text \in Text
         /\ LeadsOn(root, relative, Measured(root, relative, policy).text)
<1> DEFINE separator == IF root # <<>> /\ Last(root) \notin {"/", "\\"} THEN <<"/">> ELSE <<>>
<1>1. PICK text : text = root \o separator \o relative
  OBVIOUS
<1>2. Validate(relative, policy) = "ok" /\ Measured(root, relative, policy).text = text
  BY <1>1 DEF Measured
<1>3. ~Absolute(relative)
  BY <1>2 DEF Validate, Absolute
<1>4. PICK components \in Seq(Text) :
        components = Components(relative) /\ Plain(components) /\ Walk(components) = components
  BY <1>2, ComponentsArePlain, WalkIsPlain
<1>5. CASE root # <<>> /\ Last(root) \notin {"/", "\\"}
  <2>1. PICK slash \in Letter : slash = "/"
    BY DEF Letter
  <2>2. PICK front \in Text : front = Append(root, slash) /\ front = root \o <<slash>>
    BY <2>1, AppendProperties, AppendIsConcat DEF Text
  <2>3. text = front \o relative
    BY <1>1, <1>5, <2>1, <2>2
  <2>4. Walk(Components(text)) = Walk(Components(root)) \o components
    <3>1. JoinedTo(root, relative, text)
      BY <1>5, <2>1, <2>2, <2>3 DEF JoinedTo
    <3> QED  BY <1>4, <3>1, JoinedLeadsOn
  <2>5. front # <<>> /\ (Absolute(front) <=> Absolute(root))
    <3>1. PICK f \in Nat : f = Len(root) /\ f > 0
      BY <1>5, EmptySeq DEF Text
    <3>2. Len(front) = f + 1 /\ front[1] = root[1]
      BY <2>2, <3>1, AppendProperties DEF Text
    <3>3. front # <<>>
      BY <3>1, <3>2, EmptySeq
    <3> QED  BY <1>5, <3>2, <3>3 DEF Absolute
  <2>6. text \in Text /\ (Absolute(text) <=> Absolute(front))
    BY <2>3, <2>5, AbsoluteAsFront
  <2> QED  BY <1>2, <1>4, <1>5, <2>4, <2>5, <2>6 DEF LeadsOn
<1>6. CASE ~(root # <<>> /\ Last(root) \notin {"/", "\\"})
  <2>1. root \o <<>> = root
    BY ConcatEmptySeq DEF Text
  <2>2. text = root \o relative
    BY <1>1, <1>6, <2>1
  <2>3. text \in Text /\ (Absolute(text) <=> Absolute(root))
    BY <1>3, <2>2, AbsoluteAsFront
  <2>4. CASE root # <<>> /\ Last(root) = "\\"
    BY <1>2, <2>2, <2>3, <2>4 DEF LeadsOn
  <2>5. CASE root = <<>> \/ Last(root) = "/"
    <3>1. <<>> \o relative = relative
      BY ConcatEmptySeq DEF Text
    <3>2. JoinedTo(root, relative, text)
      BY <2>2, <2>5, <3>1 DEF JoinedTo
    <3>3. Walk(Components(text)) = Walk(Components(root)) \o components
      BY <1>4, <3>2, JoinedLeadsOn
    <3>4. ~(root # <<>> /\ Last(root) = "\\")
      BY <2>5
    <3> QED  BY <1>2, <1>4, <2>3, <3>3, <3>4 DEF LeadsOn
  <2> QED  BY <1>6, <2>4, <2>5
<1> QED  BY <1>5, <1>6

LEMMA PathsAreTexts ==
  ASSUME PathConstants
  PROVE  (\A root \in Roots : root \in Text) /\ (\A path \in RelativePaths : path \in Text)
<1>1. ASSUME NEW s \in Seq(STRING) PROVE s \in Text
  <2>1. \A i \in 1..Len(s) : s[i] \in Letter
    BY ElementOfSeq DEF Letter
  <2>2. Len(s) \in Nat /\ s = [i \in 1..Len(s) |-> s[i]]
    BY LenProperties
  <2>3. [i \in 1..Len(s) |-> s[i]] \in Seq(Letter)
    BY <2>1, <2>2
  <2> QED  BY <2>2, <2>3 DEF Text
<1> QED  BY <1>1 DEF PathConstants

\* What is said of a join that succeeded.
LEMMA JoinedInside ==
  ASSUME PathConstants, NEW root \in Roots, NEW relative \in RelativePaths, NEW policy,
         Measured(root, relative, policy).status = "ok",
         joined'.root = root, joined'.relative = relative,
         joined'.text = Measured(root, relative, policy).text,
         Len(joined'.text) < joined'.held, joined'.status = "ok"
  PROVE  PathsStayInside'
<1>1. root \in Text /\ relative \in Text
  BY PathsAreTexts
<1>2. /\ Validate(relative, policy) = "ok"
      /\ LeadsOn(root, relative, Measured(root, relative, policy).text)
  BY <1>1, MeasuredPath
<1>3. /\ Walk(Components(relative)) = Components(relative)
      /\ Outside \notin {Components(relative)[n] : n \in DOMAIN Components(relative)}
  BY <1>1, <1>2, AcceptedWalk
<1>4. ASSUME NEW rule, NEW other \in RelativePaths \ {relative}, Validate(other, rule) = "ok"
      PROVE  Walk(Components(other)) # Walk(Components(relative))
  <2>1. other \in Text
    BY PathsAreTexts
  <2>2. Walk(Components(other)) = Components(other)
    BY <1>4, <2>1, AcceptedWalk
  <2> QED  BY <1>1, <1>3, <2>1, <2>2, ComponentsTellPaths
<1> QED  BY <1>2, <1>3, <1>4 DEF PathsStayInside, LeadsOn

LEMMA PathStep == ASSUME PathConstants, PathNext PROVE PathsStayInside'
<1>1. ASSUME NEW root \in Roots, NEW relative \in RelativePaths, NEW policy \in PathPolicies,
             NEW allocates \in BOOLEAN,
             \/ \E size \in Buffers : Join(root, relative, policy, size, allocates)
             \/ Allocate(root, relative, policy, allocates)
      PROVE  PathsStayInside'
  <2>1. PICK parts : parts = Measured(root, relative, policy)
    OBVIOUS
  <2>2. root \in Text /\ relative \in Text
    BY PathsAreTexts
  <2>3. parts.status = "ok" => Len(parts.text) \in Nat
    BY <2>1, <2>2, MeasuredPath, LenProperties DEF Text
  <2>4. CASE joined'.status # "ok" /\ joined'.text = <<>>
    BY <2>4 DEF PathsStayInside
  <2>5. CASE /\ parts.status = "ok" /\ joined'.status = "ok"
             /\ joined'.root = root /\ joined'.relative = relative
             /\ joined'.text = parts.text /\ Len(parts.text) < joined'.held
    BY <2>1, <2>5, JoinedInside
  <2>6. ASSUME NEW size \in Buffers, Join(root, relative, policy, size, allocates)
        PROVE  PathsStayInside'
    <3>1. size \in Nat
      BY DEF PathConstants
    <3>2. parts.status = "ok" /\ ~(Len(parts.text) >= size) => Len(parts.text) < size
      BY <2>3, <3>1
    <3> QED  BY <2>1, <2>4, <2>5, <2>6, <3>2 DEF Join
  <2>7. ASSUME Allocate(root, relative, policy, allocates)
        PROVE  PathsStayInside'
    <3>1. parts.status = "ok" => Len(parts.text) < Len(parts.text) + 1
      BY <2>3
    <3> QED  BY <2>1, <2>4, <2>5, <2>7, <3>1 DEF Allocate
  <2> QED  BY <1>1, <2>6, <2>7
<1> QED  BY <1>1 DEF PathNext

(* PathsStayInside (AssetFiles): a path that the policy accepts names one     *)
(* file below the root and is its only name, and the joined text, in a buffer *)
(* that holds it, leads to where the root leads and from there along the      *)
(* path, for all paths, policies, buffers and roots that end in no backslash; *)
(* behind a backslash it is the path put after the root.                      *)
THEOREM PathsStayBelowTheRoot == PathSpec => []PathsStayInside
<1>1. PathStart => PathsStayInside
  BY DEF PathStart, NotJoined, PathsStayInside
<1>2. PathsStayInside /\ [PathNext]_joined => PathsStayInside'
  <2>1. ASSUME PathsStayInside, UNCHANGED joined PROVE PathsStayInside'
    BY <2>1 DEF PathsStayInside
  <2> QED  BY <2>1, PathStep, PathConstants
<1> QED  BY <1>1, <1>2, PTL DEF PathSpec

-----------------------------------------------------------------------------
(* Loads: aforc_stream_load, for files, limits and first blocks of any size.  *)

\* A size after so many steps: below the limit, and enough or larger than the steps.
Reached(size, steps, required, maximum) ==
  /\ size \in Nat /\ size <= maximum
  /\ size >= required \/ size >= steps

LEMMA GrownReaches ==
  ASSUME NEW size, NEW steps \in Nat, NEW required \in Nat, NEW maximum \in Nat,
         required <= maximum, Reached(size, steps, required, maximum)
  PROVE  Reached(Grown(size, required, maximum), steps + 1, required, maximum)
<1>1. PICK half \in Nat : half = size \div 2
  BY DEF Reached
<1>2. Grown(size, required, maximum)
        = IF size >= required THEN size
          ELSE IF half + 1 > maximum - size THEN maximum ELSE size + (half + 1)
  BY <1>1 DEF Grown
<1>3. PICK next : next = Grown(size, required, maximum)
  OBVIOUS
<1>4. Reached(next, steps + 1, required, maximum)
  BY <1>2, <1>3 DEF Reached
<1> QED  BY <1>3, <1>4

\* The sizes that the loop of aforc_assets_growth_capacity goes through, up to a step.
GrowthSteps(f, last, first, required, maximum) ==
  f = [n \in 0..last |-> IF n = 0 THEN IF first > maximum THEN maximum ELSE first
                         ELSE Grown(f[n - 1], required, maximum)]

LEMMA GrowthExists ==
  ASSUME NEW first, NEW required, NEW maximum
  PROVE  \A last \in Nat : \E f : GrowthSteps(f, last, first, required, maximum)
<1> DEFINE K == {last \in Nat : \E f : GrowthSteps(f, last, first, required, maximum)}
           start == IF first > maximum THEN maximum ELSE first
<1>1. 0 \in K
  <2>1. GrowthSteps([n \in 0..0 |-> start], 0, first, required, maximum)
    BY DEF GrowthSteps
  <2> QED  BY <2>1
<1>2. ASSUME NEW last \in Nat, last \in K PROVE last + 1 \in K
  <2>1. PICK f : GrowthSteps(f, last, first, required, maximum)
    BY <1>2
  <2> DEFINE g == [n \in 0..(last + 1) |->
                     IF n = last + 1 THEN Grown(f[last], required, maximum) ELSE f[n]]
             h == [n \in 0..(last + 1) |-> IF n = 0 THEN start
                                           ELSE Grown(g[n - 1], required, maximum)]
  <2>2. ASSUME NEW n \in 0..(last + 1) PROVE g[n] = h[n]
    <3>1. CASE n = last + 1
      <4>1. n # 0 /\ n - 1 = last /\ last \in 0..(last + 1) /\ last # last + 1
        BY <3>1
      <4>2. g[n] = Grown(f[last], required, maximum) /\ g[last] = f[last]
        BY <3>1, <4>1
      <4> QED  BY <4>1, <4>2
    <3>2. CASE n # last + 1 /\ n = 0
      BY <2>1, <3>2 DEF GrowthSteps
    <3>3. CASE n # last + 1 /\ n # 0
      <4>1. /\ n \in 0..last /\ n - 1 \in 0..last
            /\ n - 1 \in 0..(last + 1) /\ n - 1 # last + 1
        BY <3>3
      <4>2. g[n] = f[n] /\ g[n - 1] = f[n - 1]
        BY <3>3, <4>1
      <4>3. f[n] = Grown(f[n - 1], required, maximum)
        BY <2>1, <3>3, <4>1 DEF GrowthSteps
      <4>4. h[n] = Grown(g[n - 1], required, maximum)
        BY <3>3
      <4> QED  BY <4>2, <4>3, <4>4
    <3> QED  BY <3>1, <3>2, <3>3
  <2>3. g = h
    BY <2>2
  <2>4. GrowthSteps(g, last + 1, first, required, maximum)
    BY <2>3 DEF GrowthSteps
  <2> HIDE DEF g
  <2> QED  BY <2>4
<1> HIDE DEF K
<1>3. \A last \in Nat : last \in K
  BY <1>1, <1>2, Induction
<1> QED  BY <1>3 DEF K

LEMMA GrowthReaches ==
  ASSUME NEW f, NEW first \in Nat, NEW required \in Nat, NEW maximum \in Nat,
         required <= maximum, GrowthSteps(f, required, first, required, maximum)
  PROVE  f[required] \in Nat /\ required <= f[required] /\ f[required] <= maximum
<1> DEFINE K == {n \in Nat : n <= required => Reached(f[n], n, required, maximum)}
<1>1. 0 \in K
  <2>1. f[0] = IF first > maximum THEN maximum ELSE first
    BY DEF GrowthSteps
  <2>2. PICK x : x = f[0]
    OBVIOUS
  <2>3. Reached(x, 0, required, maximum)
    BY <2>1, <2>2 DEF Reached
  <2> QED  BY <2>2, <2>3
<1>2. ASSUME NEW n \in Nat, n \in K PROVE n + 1 \in K
  <2>1. SUFFICES ASSUME n + 1 <= required PROVE Reached(f[n + 1], n + 1, required, maximum)
    OBVIOUS
  <2>2. n + 1 \in 0..required /\ n + 1 # 0 /\ (n + 1) - 1 = n /\ n <= required
    BY <2>1
  <2>3. f[n + 1] = Grown(f[n], required, maximum)
    BY <2>2 DEF GrowthSteps
  <2>4. Reached(f[n], n, required, maximum)
    BY <1>2, <2>2
  <2> QED  BY <2>3, <2>4, GrownReaches
<1> HIDE DEF K
<1>3. \A n \in Nat : n \in K
  BY <1>1, <1>2, Induction
<1>4. Reached(f[required], required, required, maximum)
  BY <1>3 DEF K
<1> QED  BY <1>4 DEF Reached

\* A block below its limit grows, and stays within it.
LEMMA CapacityGrows ==
  ASSUME LoadConstants, NEW current \in Nat, NEW maximum \in Nat, current < maximum
  PROVE  LET next == GrowthCapacity(current, current + 1, maximum, FirstBlock)
         IN next \in Nat /\ current < next /\ next <= maximum
<1> DEFINE required == current + 1
           first    == IF current = 0 THEN FirstBlock ELSE current
           next     == GrowthCapacity(current, required, maximum, FirstBlock)
<1>1. required \in Nat /\ required <= maximum /\ first \in Nat /\ current < required
  BY DEF LoadConstants
<1>2. next = (CHOOSE f : GrowthSteps(f, required, first, required, maximum))[required]
  BY DEF GrowthCapacity, GrowthSteps
<1> HIDE DEF required, first, next
<1>3. \E f : GrowthSteps(f, required, first, required, maximum)
  BY <1>1, GrowthExists
<1>4. PICK f : /\ f = CHOOSE g : GrowthSteps(g, required, first, required, maximum)
               /\ GrowthSteps(f, required, first, required, maximum)
  BY <1>3
<1>5. f[required] \in Nat /\ required <= f[required] /\ f[required] <= maximum
  BY <1>1, <1>4, GrowthReaches
<1>6. next \in Nat /\ current < next /\ next <= maximum
  BY <1>1, <1>2, <1>4, <1>5
<1> QED  BY <1>6 DEF next, required

Content  == [size : Nat, zero : BOOLEAN]
Result   == {"ok", "io", "limit", "memory", "format"}
EndByte(l)   == IF l.text THEN 1 ELSE 0

\* A load in progress has read what is in its block, and of a file that does not change.
LoadShape ==
  /\ load \in [pc : {"idle", "grow", "read", "end", "done"}, text : BOOLEAN, max : Nat,
               size : Nat, capacity : Nat, block : Nat, status : Result \cup {"none"}]
  /\ load.pc = "idle" => load = NotLoaded

LoadWithin ==
  /\ load.capacity <= load.max
  /\ load.pc # "done" => /\ load.size <= load.capacity
                         /\ \/ load.block = 0 /\ load.capacity = 0
                            \/ load.block = load.capacity + EndByte(load)

LoadReads ==
  /\ load.pc = "grow" => load.size = load.capacity /\ load.size <= file.size
  /\ load.pc = "read" => load.size < load.capacity /\ load.size <= file.size
  /\ load.pc \in {"grow", "read"} => load.status = "ok"
  /\ load.pc = "end" => load.status # "none"
  /\ (load.pc = "end" /\ load.status = "ok") => load.size = file.size

StoreShape ==
  /\ file \in Content /\ (file.zero => file.size > 0)
  /\ stored \in [pc : {"idle", "write", "done"}, content : Content, status : Result \cup {"none"}]
  /\ stored.content.zero => stored.content.size > 0

StoreKeeps ==
  /\ stored.pc = "write" =>
       /\ load.pc = "idle" /\ file.size <= stored.content.size
       /\ file.zero <=> stored.content.zero /\ file.size = stored.content.size
  /\ (stored.pc = "done" /\ stored.status = "ok") => file = stored.content

LoadEnds ==
  /\ (load.pc = "done" /\ load.status = "ok") =>
       /\ load.size = file.size /\ load.size <= load.max
       /\ load.size + EndByte(load) <= load.block
       /\ ~load.text => (load.block = 0 <=> load.size = 0)
       /\ load.text => ~file.zero
  /\ (load.pc = "done" /\ load.status # "ok") => load.block = 0

LoadInv == LoadShape /\ LoadWithin /\ LoadReads /\ StoreShape /\ StoreKeeps /\ LoadEnds

LEMMA LoadStartHolds == LoadStart => LoadInv
<1> SUFFICES ASSUME LoadStart PROVE LoadInv
  OBVIOUS
<1> USE DEF LoadStart, NotLoaded, NotStored, Empty, Content, Result
<1>1. LoadShape /\ StoreShape
  BY DEF LoadShape, StoreShape
<1>2. LoadWithin /\ LoadReads /\ StoreKeeps /\ LoadEnds
  BY DEF LoadWithin, LoadReads, StoreKeeps, LoadEnds
<1> QED  BY <1>1, <1>2 DEF LoadInv

LEMMA OpenKeeps ==
  ASSUME LoadInv, NEW content \in Content, content.zero => content.size > 0,
         NEW text \in BOOLEAN, NEW max \in Nat, Open(content, text, max)
  PROVE  LoadInv'
<1> USE DEF Open, NotLoaded, Content, Result
<1>1. LoadShape' /\ StoreShape'
  BY DEF LoadInv, LoadShape, StoreShape
<1>2. LoadWithin' /\ LoadReads'
  BY DEF LoadWithin, LoadReads
<1>3. StoreKeeps' /\ LoadEnds'
  BY DEF LoadInv, LoadShape, StoreKeeps, LoadEnds
<1> QED  BY <1>1, <1>2, <1>3 DEF LoadInv

\* The load ends where it has all of the file, or by an error.
LEMMA EndsKeeps ==
  ASSUME LoadInv, load.pc = "grow", NEW status \in Result, Ends(status),
         status = "ok" => load.size >= file.size
  PROVE  LoadInv'
<1> USE DEF Ends
<1>1. LoadShape' /\ StoreShape'
  BY DEF LoadInv, LoadShape, StoreShape, Result
<1>2. LoadWithin'
  BY DEF LoadInv, LoadShape, LoadWithin, EndByte
<1>3. LoadReads'
  BY DEF LoadInv, LoadShape, StoreShape, Content, LoadReads, Result
<1>4. StoreKeeps' /\ LoadEnds'
  BY DEF LoadInv, LoadShape, StoreKeeps, LoadEnds
<1> QED  BY <1>1, <1>2, <1>3, <1>4 DEF LoadInv

LEMMA GrowKeeps == ASSUME LoadConstants, LoadInv, Grow PROVE LoadInv'
<1> DEFINE next == GrowthCapacity(load.capacity, load.capacity + 1, load.max, FirstBlock)
<1>1. load.pc = "grow" /\ load.capacity < load.max /\ load.capacity \in Nat /\ load.max \in Nat
  BY DEF Grow, LoadInv, LoadShape
<1>2. next \in Nat /\ load.capacity < next /\ next <= load.max
  BY <1>1, CapacityGrows
<1>3. CASE /\ load' = [load EXCEPT !.pc = "read", !.capacity = next,
                                   !.block = next + (IF load.text THEN 1 ELSE 0)]
           /\ UNCHANGED <<file, stored>>
  <2> HIDE DEF next
  <2>0. PICK block \in Nat : block = next + (IF load.text THEN 1 ELSE 0)
    BY <1>2
  <2>1. LoadShape' /\ StoreShape'
    BY <1>2, <1>3, <2>0 DEF LoadInv, LoadShape, StoreShape
  <2>2. LoadWithin'
    BY <1>1, <1>2, <1>3 DEF LoadInv, LoadShape, LoadReads, LoadWithin, EndByte
  <2>3. LoadReads'
    BY <1>1, <1>2, <1>3 DEF LoadInv, LoadShape, LoadReads
  <2>4. StoreKeeps' /\ LoadEnds'
    BY <1>1, <1>3 DEF LoadInv, LoadShape, StoreKeeps, LoadEnds
  <2> QED  BY <2>1, <2>2, <2>3, <2>4 DEF LoadInv
<1>4. CASE Ends("memory")
  BY <1>1, <1>4, EndsKeeps DEF Result
<1> QED  BY <1>3, <1>4 DEF Grow

LEMMA AskKeeps == ASSUME LoadInv, AskForMore PROVE LoadInv'
<1>1. load.pc = "grow" /\ load.size \in Nat /\ file.size \in Nat
  BY DEF AskForMore, LoadInv, LoadShape, StoreShape, Content
<1>2. CASE load.size < file.size
  <2>1. Ends("limit") \/ Ends("io")
    BY <1>2 DEF AskForMore
  <2> QED  BY <1>1, <2>1, EndsKeeps DEF Result
<1>3. CASE ~(load.size < file.size)
  <2>1. Ends("ok") \/ Ends("io")
    BY <1>3 DEF AskForMore
  <2>2. load.size >= file.size
    BY <1>1, <1>3
  <2> QED  BY <1>1, <2>1, <2>2, EndsKeeps DEF Result
<1> QED  BY <1>2, <1>3

LEMMA ReadKeeps == ASSUME LoadInv, Read PROVE LoadInv'
<1>1. /\ load.pc = "read" /\ UNCHANGED <<file, stored>> /\ file.size \in Nat
      /\ load.size \in Nat /\ load.capacity \in Nat
  BY DEF Read, LoadInv, LoadShape, StoreShape, Content
<1>2. CASE file.size >= load.capacity /\ load' = [load EXCEPT !.pc = "grow", !.size = load.capacity]
  <2>1. LoadShape' /\ StoreShape'
    BY <1>1, <1>2 DEF LoadInv, LoadShape, StoreShape
  <2>2. LoadWithin' /\ LoadReads'
    BY <1>1, <1>2 DEF LoadInv, LoadShape, LoadReads, LoadWithin, EndByte
  <2>3. StoreKeeps' /\ LoadEnds'
    BY <1>1, <1>2 DEF LoadInv, LoadShape, StoreKeeps, LoadEnds
  <2> QED  BY <2>1, <2>2, <2>3 DEF LoadInv
<1>3. CASE file.size < load.capacity /\ load' = [load EXCEPT !.pc = "end", !.size = file.size]
  <2>1. LoadShape' /\ StoreShape'
    BY <1>1, <1>3 DEF LoadInv, LoadShape, StoreShape
  <2>2. LoadWithin' /\ LoadReads'
    BY <1>1, <1>3 DEF LoadInv, LoadShape, LoadReads, LoadWithin, EndByte
  <2>3. StoreKeeps' /\ LoadEnds'
    BY <1>1, <1>3 DEF LoadInv, LoadShape, StoreKeeps, LoadEnds
  <2> QED  BY <2>1, <2>2, <2>3 DEF LoadInv
<1>4. ASSUME NEW size \in load.size..file.size, size < load.capacity,
             load' = [load EXCEPT !.pc = "end", !.size = size, !.status = "io"]
      PROVE  LoadInv'
  <2>0. size \in Nat
    BY <1>1, <1>4
  <2>1. LoadShape' /\ StoreShape'
    BY <1>1, <1>4, <2>0 DEF LoadInv, LoadShape, StoreShape, Result
  <2>2. LoadWithin' /\ LoadReads'
    BY <1>1, <1>4, <2>0 DEF LoadInv, LoadShape, LoadReads, LoadWithin, EndByte
  <2>3. StoreKeeps' /\ LoadEnds'
    BY <1>1, <1>4 DEF LoadInv, LoadShape, StoreKeeps, LoadEnds
  <2> QED  BY <2>1, <2>2, <2>3 DEF LoadInv
<1> QED  BY <1>2, <1>3, <1>4 DEF Read

LEMMA FinishKeeps == ASSUME LoadInv, Finish PROVE LoadInv'
<1> DEFINE block  == IF load.text THEN (IF load.block = 0 THEN 1 ELSE load.block)
                     ELSE IF load.size = 0 THEN 0 ELSE load.block
           Good   == load' = [load EXCEPT !.pc = "done", !.block = block]
           Bad(s) == load' = [load EXCEPT !.pc = "done", !.block = 0, !.size = 0, !.status = s]
<1>1. load.pc = "end" /\ UNCHANGED <<file, stored>>
  BY DEF Finish
<1>2. \/ Good /\ load.status = "ok" /\ ~(load.text /\ file.zero)
      \/ \E s \in Result \ {"ok"} : Bad(s)
  <2>1. load.status \in Result
    BY <1>1 DEF LoadInv, LoadShape, LoadReads
  <2>2. CASE load.status = "ok"
    BY <2>2 DEF Finish, Result
  <2>3. CASE load.status # "ok"
    <3>1. Bad(load.status)
      BY <2>3 DEF Finish
    <3> QED  BY <2>1, <2>3, <3>1
  <2> QED  BY <2>2, <2>3
<1>3. ASSUME NEW s \in Result \ {"ok"}, Bad(s) PROVE LoadInv'
  <2>1. LoadShape' /\ StoreShape'
    BY <1>1, <1>3 DEF LoadInv, LoadShape, StoreShape
  <2>2. LoadWithin' /\ LoadReads' /\ LoadEnds'
    BY <1>1, <1>3 DEF LoadInv, LoadShape, LoadReads, LoadWithin, LoadEnds
  <2>3. StoreKeeps'
    BY <1>1, <1>3 DEF LoadInv, LoadShape, StoreKeeps
  <2> QED  BY <2>1, <2>2, <2>3 DEF LoadInv
<1>4. ASSUME Good, load.status = "ok", ~(load.text /\ file.zero) PROVE LoadInv'
  <2>1. block \in Nat
    BY DEF LoadInv, LoadShape
  <2>2. LoadShape' /\ StoreShape'
    <3> HIDE DEF block
    <3> QED  BY <1>1, <1>4, <2>1 DEF LoadInv, LoadShape, StoreShape
  <2>3. LoadWithin' /\ LoadReads' /\ StoreKeeps'
    <3> HIDE DEF block
    <3> QED  BY <1>1, <1>4 DEF LoadInv, LoadShape, LoadReads, LoadWithin, StoreKeeps
  <2>4. /\ load.size + EndByte(load) <= block
        /\ ~load.text => (block = 0 <=> load.size = 0)
    BY <1>1 DEF LoadInv, LoadShape, LoadWithin, EndByte
  <2>5. LoadEnds'
    <3>1. /\ load'.pc = "done" /\ load'.status = "ok" /\ load'.size = load.size
          /\ load'.block = block /\ load'.text = load.text /\ load'.max = load.max
      <4> HIDE DEF block
      <4> QED  BY <1>4 DEF LoadInv, LoadShape
    <3>2. load.size = file.size /\ load.size <= load.max
      BY <1>1, <1>4 DEF LoadInv, LoadShape, LoadReads, LoadWithin
    <3> HIDE DEF block
    <3> QED  BY <1>1, <1>4, <2>4, <3>1, <3>2 DEF LoadEnds, EndByte
  <2> QED  BY <2>2, <2>3, <2>5 DEF LoadInv
<1> QED  BY <1>2, <1>3, <1>4

LEMMA StoreBeginsKeeps ==
  ASSUME LoadInv, NEW content \in Content, content.zero => content.size > 0,
         NEW max \in Nat, StoreBegins(content, max)
  PROVE  LoadInv'
<1>1. load' = NotLoaded
  BY DEF StoreBegins
<1>2. LoadShape' /\ LoadWithin' /\ LoadReads' /\ LoadEnds'
  BY <1>1 DEF LoadShape, LoadWithin, LoadReads, LoadEnds, NotLoaded, Result
<1>3. ASSUME UNCHANGED file, StoreEnds("limit") \/ StoreEnds("io")
      PROVE  StoreShape' /\ StoreKeeps'
  BY <1>3 DEF StoreEnds, LoadInv, StoreShape, StoreKeeps, Result
<1>4. ASSUME file' = Empty, stored' = [pc |-> "write", content |-> content, status |-> "ok"]
      PROVE  StoreShape' /\ StoreKeeps'
  <2>1. StoreShape'
    BY <1>4 DEF StoreShape, Content, Empty, Result
  <2>2. StoreKeeps'
    BY <1>1, <1>4 DEF StoreKeeps, Content, Empty, NotLoaded
  <2> QED  BY <2>1, <2>2
<1>5. StoreShape' /\ StoreKeeps'
  BY <1>3, <1>4 DEF StoreBegins
<1> QED  BY <1>2, <1>5 DEF LoadInv

LEMMA StoreWritesKeeps == ASSUME LoadInv, StoreWrites PROVE LoadInv'
<1>1. UNCHANGED <<load, stored>> /\ load.pc = "idle"
  BY DEF StoreWrites, LoadInv, StoreKeeps
<1>2. LoadShape' /\ LoadWithin' /\ LoadReads' /\ LoadEnds'
  BY <1>1 DEF LoadInv, LoadShape, LoadWithin, LoadReads, LoadEnds, EndByte
<1>3. StoreShape' /\ StoreKeeps'
  BY <1>1 DEF StoreWrites, LoadInv, StoreShape, StoreKeeps, Content
<1> QED  BY <1>2, <1>3 DEF LoadInv

LEMMA StoreFinishesKeeps == ASSUME LoadInv, StoreFinishes PROVE LoadInv'
<1>1. UNCHANGED <<file, load>>
  BY DEF StoreFinishes
<1>2. LoadShape' /\ LoadWithin' /\ LoadReads' /\ LoadEnds'
  BY <1>1 DEF LoadInv, LoadShape, LoadWithin, LoadReads, LoadEnds, EndByte
<1>3. StoreShape'
  BY <1>1 DEF StoreFinishes, StoreEnds, LoadInv, StoreShape, Content, Result
<1>4. StoreKeeps'
  <2>1. CASE StoreEnds("io")
    BY <1>1, <2>1 DEF StoreFinishes, StoreEnds, LoadInv, StoreShape, StoreKeeps
  <2>2. CASE file.size = stored.content.size /\ StoreEnds("ok")
    <3>1. file.zero = stored.content.zero
      BY <2>2 DEF StoreFinishes, LoadInv, StoreShape, StoreKeeps, Content
    <3>2. file = stored.content
      BY <2>2, <3>1 DEF LoadInv, StoreShape, Content
    <3>3. stored'.content = stored.content /\ stored'.pc = "done"
      BY <2>2 DEF StoreEnds, LoadInv, StoreShape
    <3> QED  BY <1>1, <3>2, <3>3 DEF StoreKeeps
  <2> QED  BY <2>1, <2>2 DEF StoreFinishes
<1> QED  BY <1>2, <1>3, <1>4 DEF LoadInv

LEMMA LoadStep == ASSUME LoadConstants, LoadInv, LoadNext PROVE LoadInv'
<1>1. ASSUME NEW content \in [size : FileSizes, zero : BOOLEAN], NEW max \in LoadLimits,
             content.zero => content.size > 0,
             StoreBegins(content, max) \/ \E text \in BOOLEAN : Open(content, text, max)
      PROVE  LoadInv'
  <2>1. content \in Content /\ max \in Nat
    BY DEF LoadConstants, Content
  <2> QED  BY <1>1, <2>1, StoreBeginsKeeps, OpenKeeps
<1> QED  BY <1>1, GrowKeeps, AskKeeps, ReadKeeps, FinishKeeps, StoreWritesKeeps,
            StoreFinishesKeeps DEF LoadNext

LEMMA LoadStutters == ASSUME LoadInv, UNCHANGED loadVars PROVE LoadInv'
BY DEF loadVars, LoadInv, LoadShape, LoadWithin, LoadReads, StoreShape, StoreKeeps, LoadEnds, EndByte

LEMMA LoadInvIsEnough == ASSUME LoadInv PROVE LoadIsWhole
<1>1. load.pc # "done" => load.capacity <= load.block
  BY DEF LoadInv, LoadShape, LoadWithin, EndByte
<1>2. load.size <= load.capacity \/ load.pc = "done"
  BY DEF LoadInv, LoadWithin
<1>3. (stored.pc = "done" /\ stored.status = "ok") =>
        /\ file = stored.content
        /\ (load.pc = "done" /\ load.status = "ok") => load.size = stored.content.size
  BY DEF LoadInv, StoreKeeps, LoadEnds
<1> QED  BY <1>1, <1>2, <1>3 DEF LoadIsWhole, LoadInv, LoadWithin, LoadEnds, EndByte

(* LoadIsWhole (AssetFiles): a load takes all of a file within its limit, in *)
(* a block that holds it and the end of a text, or keeps nothing; and what a *)
(* store put there with success is what a load finds.                        *)
THEOREM LoadsStayWhole == LoadSpec => []LoadIsWhole
<1>1. LoadStart => LoadInv
  BY LoadStartHolds
<1>2. LoadInv /\ [LoadNext]_loadVars => LoadInv'
  BY LoadStep, LoadStutters, LoadConstants
<1>3. LoadInv => LoadIsWhole
  BY LoadInvIsEnough
<1> QED  BY <1>1, <1>2, <1>3, PTL DEF LoadSpec

-----------------------------------------------------------------------------
(* What the configurations count with.                                       *)

LEMMA Digits ==
  ASSUME NEW n \in Nat \ {0}, NEW a \in Nat, NEW b \in Nat,
         NEW x \in 0..n - 1, NEW y \in 0..n - 1, a * n + x = b * n + y
  PROVE  a = b /\ x = y
<1>1. ASSUME NEW c \in Nat, NEW d \in Nat, NEW u \in 0..n - 1, NEW v \in 0..n - 1, c < d
      PROVE  c * n + u < d * n + v
  <2>1. PICK k \in Nat : d = c + 1 + k
    <3>1. d - c - 1 \in Nat /\ d = c + 1 + (d - c - 1)
      BY <1>1
    <3> QED  BY <3>1
  <2>2. d * n = c * n + n + k * n
    BY <2>1
  <2>3. k * n \in Nat /\ c * n \in Nat
    OBVIOUS
  <2> QED  BY <2>2, <2>3
<1>2. ~(a < b) /\ ~(b < a)
  <2>1. a * n \in Nat /\ b * n \in Nat
    OBVIOUS
  <2>2. ~(a < b)
    <3> SUFFICES ASSUME a < b PROVE FALSE
      OBVIOUS
    <3>1. a * n + x < b * n + y
      BY <1>1
    <3> QED  BY <3>1, <2>1
  <2>3. ~(b < a)
    <3> SUFFICES ASSUME b < a PROVE FALSE
      OBVIOUS
    <3>1. b * n + y < a * n + x
      BY <1>1
    <3> QED  BY <3>1, <2>1
  <2> QED  BY <2>2, <2>3
<1>3. a = b
  BY <1>2
<1>4. a * n \in Nat
  OBVIOUS
<1> QED  BY <1>3, <1>4

LEMMA Divided ==
  ASSUME NEW n \in Nat \ {0}, NEW i \in Nat
  PROVE  /\ i \div n \in Nat /\ i % n \in 0..n - 1
         /\ i = (i \div n) * n + (i % n)
<1> DEFINE q == i \div n
           r == i % n
<1>1. q \in Int /\ r \in 0..n - 1 /\ i = n * q + r
  OBVIOUS
<1> HIDE DEF q, r
<1>2. q \in Nat
  <2>1. q <= -1 => n * q <= -n
    BY <1>1
  <2>2. n * q \in Int
    BY <1>1
  <2> QED  BY <1>1, <2>1, <2>2
<1>3. n * q = q * n
  BY <1>2
<1>4. i = q * n + r
  BY <1>1, <1>3
<1> QED  BY <1>1, <1>2, <1>4 DEF q, r


LEMMA Wraps ==
  ASSUME NEW n \in Nat \ {0}, NEW q \in Nat, NEW x \in 0..n - 1
  PROVE  (q * n + x) % n = x
<1>1. PICK i \in Nat : i = q * n + x
  OBVIOUS
<1>2. PICK d \in Nat, r \in 0..n - 1 : d = i \div n /\ r = i % n /\ i = d * n + r
  BY <1>1, Divided
<1>3. r = x
  BY <1>1, <1>2, Digits
<1> QED  BY <1>1, <1>2, <1>3

\* A recursion by steps has a solution up to any step.
StepFunctions(T, last) == [1..last -> [T -> T]]
Unrolls(f, T, base, last, G) ==
  f \in [0..last -> T] /\ f[0] = base /\ \A n \in 1..last : f[n] = G[n][f[n - 1]]

LEMMA RecursionExists ==
  ASSUME NEW T, NEW base \in T, NEW last \in Nat, NEW G \in StepFunctions(T, last)
  PROVE  \E f : Unrolls(f, T, base, last, G)
<1> DEFINE Solves(f, m) == /\ f \in [0..m -> T] /\ f[0] = base
                           /\ \A n \in 1..m : f[n] = G[n][f[n - 1]]
           K == {m \in Nat : m <= last => \E f : Solves(f, m)}
<1>1. 0 \in K
  <2>1. Solves([n \in 0..0 |-> base], 0)
    OBVIOUS
  <2> HIDE DEF Solves
  <2> QED  BY <2>1
<1>2. ASSUME NEW m \in Nat, m \in K PROVE m + 1 \in K
  <2>1. SUFFICES ASSUME m + 1 <= last PROVE \E f : Solves(f, m + 1)
    OBVIOUS
  <2>2. m <= last /\ m + 1 \in 1..last
    BY <2>1
  <2>3. PICK f : Solves(f, m)
    <3> HIDE DEF Solves
    <3> QED  BY <1>2, <2>2
  <2> DEFINE top == G[m + 1][f[m]]
             g == [n \in 0..(m + 1) |-> IF n = m + 1 THEN top ELSE f[n]]
  <2>4. top \in T
    <3>1. f[m] \in T
      BY <2>3
    <3> QED  BY <2>2, <3>1 DEF StepFunctions
  <2> HIDE DEF top
  <2>5. g \in [0..(m + 1) -> T] /\ g[0] = base
    BY <2>3, <2>4
  <2>6. ASSUME NEW n \in 1..(m + 1) PROVE g[n] = G[n][g[n - 1]]
    <3>1. n - 1 \in 0..(m + 1) /\ n - 1 # m + 1 /\ n \in 0..(m + 1)
      OBVIOUS
    <3>2. g[n - 1] = f[n - 1]
      BY <3>1
    <3>3. CASE n = m + 1
      <4>1. n - 1 = m /\ g[n] = top
        BY <3>1, <3>3
      <4> QED  BY <3>2, <3>3, <4>1 DEF top
    <3>4. CASE n # m + 1
      <4>1. n \in 1..m /\ g[n] = f[n]
        BY <3>1, <3>4
      <4> QED  BY <2>3, <3>2, <4>1
    <3> QED  BY <3>3, <3>4
  <2> HIDE DEF g
  <2>7. Solves(g, m + 1)
    BY <2>5, <2>6
  <2> HIDE DEF Solves
  <2> QED  BY <2>7
<1> HIDE DEF K, Solves
<1>3. \A m \in Nat : m \in K
  BY <1>1, <1>2, Induction
<1>4. \E f : Solves(f, last)
  BY <1>3 DEF K
<1> QED  BY <1>4 DEF Solves, Unrolls

-----------------------------------------------------------------------------
(* The index of a configuration: aforc_config_index_contains, _insert and     *)
(* _reserve, for every hash and every number of entries.                      *)

EntryHash(entries, n) == Hash(entries[n].section, entries[n].key)

LEMMA SlotLies ==
  ASSUME NEW slots \in Seq(Nat), slots # <<>>, NEW hash \in Nat, NEW step \in Nat
  PROVE  Slot(slots, hash, step) \in 1..Len(slots)
<1>1. PICK length \in Nat \ {0} : length = Len(slots)
  BY EmptySeq, LenProperties
<1>2. PICK sum \in Nat : sum = hash + step
  OBVIOUS
<1>3. PICK r \in 0..length - 1 : r = sum % length
  BY Divided
<1> QED  BY <1>1, <1>2, <1>3 DEF Slot

\* A probe comes to every slot.
LEMMA ProbeReaches ==
  ASSUME NEW slots \in Seq(Nat), NEW hash \in Nat, NEW i \in 1..Len(slots)
  PROVE  \E step \in Steps(slots) : Slot(slots, hash, step) = i
<1>1. PICK length \in Nat \ {0} : length = Len(slots)
  <2>1. Len(slots) \in Nat
    BY LenProperties
  <2> QED  BY <2>1
<1>2. PICK q \in Nat, r \in 0..length - 1 : hash = q * length + r
  BY Divided
<1>3. PICK x \in 0..length - 1 : i = x + 1
  <2>1. i - 1 \in 0..length - 1 /\ i = (i - 1) + 1
    BY <1>1
  <2> QED  BY <2>1
<1>4. PICK p \in Nat : p = q * length
  OBVIOUS
<1>5. CASE x >= r
  <2>1. x - r \in 0..length - 1 /\ hash + (x - r) = q * length + x
    BY <1>2, <1>4, <1>5
  <2>2. (hash + (x - r)) % length = x
    BY <2>1, Wraps
  <2>3. Slot(slots, hash, x - r) = i
    BY <1>1, <1>3, <2>2 DEF Slot
  <2> QED  BY <1>1, <2>1, <2>3 DEF Steps
<1>6. CASE x < r
  <2>1. (q + 1) * length = p + length
    BY <1>4
  <2>2. (x - r) + length \in 0..length - 1 /\ hash + ((x - r) + length) = (p + length) + x
    BY <1>2, <1>4, <1>6
  <2>3. (hash + ((x - r) + length)) % length = x
    <3>1. PICK k \in Nat : k = q + 1
      OBVIOUS
    <3>2. (k * length + x) % length = x
      BY Wraps
    <3> QED  BY <2>1, <2>2, <3>1, <3>2
  <2>4. Slot(slots, hash, (x - r) + length) = i
    BY <1>1, <1>3, <2>3 DEF Slot
  <2> QED  BY <1>1, <2>2, <2>4 DEF Steps
<1> QED  BY <1>5, <1>6

\* The first vacant slot from the hash on.
ProbeStops(slots, hash, step) ==
  /\ step \in Steps(slots)
  /\ slots[Slot(slots, hash, step)] = Vacant
  /\ \A before \in 0..(step - 1) : slots[Slot(slots, hash, before)] # Vacant

LEMMA ProbeEnds ==
  ASSUME NEW slots \in Seq(Nat), NEW hash \in Nat,
         \E i \in 1..Len(slots) : slots[i] = Vacant
  PROVE  ProbeStops(slots, hash, End(slots, hash))
<1> DEFINE open == {step \in Steps(slots) : slots[Slot(slots, hash, step)] = Vacant}
<1>0. PICK length \in Nat : length = Len(slots)
  BY LenProperties
<1>1. open \in SUBSET Nat /\ open # {}
  <2>1. Steps(slots) \in SUBSET Nat
    BY <1>0 DEF Steps
  <2>2. PICK i \in 1..Len(slots) : slots[i] = Vacant
    OBVIOUS
  <2>3. PICK step \in Steps(slots) : Slot(slots, hash, step) = i
    BY <2>2, ProbeReaches
  <2> QED  BY <2>1, <2>2, <2>3
<1>2. PICK step \in open : \A other \in open : step <= other
  <2> HIDE DEF open
  <2> QED  BY <1>1, LeastElement
<1>3. ASSUME NEW before \in 0..(step - 1) PROVE slots[Slot(slots, hash, before)] # Vacant
  <2>1. step \in Nat /\ step < length
    BY <1>0, <1>2 DEF Steps
  <2>2. before \in Steps(slots) /\ ~(step <= before)
    BY <1>0, <2>1 DEF Steps
  <2> QED  BY <1>2, <2>2
<1>4. ProbeStops(slots, hash, step)
  BY <1>2, <1>3 DEF ProbeStops
<1> HIDE DEF open
<1> QED  BY <1>4 DEF End, ProbeStops

\* The n-th entry is found by its probe.
Reachable(slots, entries, n) ==
  \E step \in Steps(slots) :
    /\ slots[Slot(slots, EntryHash(entries, n), step)] = n
    /\ \A before \in 0..(step - 1) : slots[Slot(slots, EntryHash(entries, n), before)] # Vacant

\* An index of the first entries: each is in one slot, and no probe of it stops before.
IndexOK(slots, entries, count) ==
  /\ slots \in Seq(Nat)
  /\ \A i \in 1..Len(slots) : slots[i] <= count
  /\ \A i, j \in 1..Len(slots) : slots[i] = slots[j] /\ slots[i] # Vacant => i = j
  /\ \A n \in 1..count : Reachable(slots, entries, n)

LEMMA VacantLeft ==
  ASSUME NEW slots, NEW entries, NEW count \in Nat, IndexOK(slots, entries, count),
         count < Len(slots)
  PROVE  \E i \in 1..Len(slots) : slots[i] = Vacant
<1>1. SUFFICES ASSUME \A i \in 1..Len(slots) : slots[i] # Vacant PROVE FALSE
  OBVIOUS
<1>2. PICK length \in Nat : length = Len(slots)
  BY LenProperties DEF IndexOK
<1>3. slots \in [1..length -> 1..count]
  <2>1. \A i \in 1..length : slots[i] \in 1..count
    BY <1>1, <1>2, ElementOfSeq DEF IndexOK, Vacant
  <2>2. slots = [i \in 1..length |-> slots[i]]
    BY <1>2, LenProperties DEF IndexOK
  <2> QED  BY <2>1, <2>2
<1>4. /\ IsFiniteSet(1..length) /\ IsFiniteSet(1..count)
      /\ Cardinality(1..length) = length /\ Cardinality(1..count) = count
  <2>1. ASSUME NEW n \in Nat PROVE IsFiniteSet(1..n) /\ Cardinality(1..n) = n
    <3>1. PICK one \in Int : one = 1
      OBVIOUS
    <3>2. PICK last \in Int : last = n
      OBVIOUS
    <3>3. IsFiniteSet(one..last)
      BY FS_Interval
    <3>4. Cardinality(one..last) = IF one > last THEN 0 ELSE last - one + 1
      BY FS_Interval
    <3>5. Cardinality(one..last) = n
      BY <3>1, <3>2, <3>4
    <3> QED  BY <3>1, <3>2, <3>3, <3>5
  <2> QED  BY <2>1
<1>5. Cardinality(1..count) < Cardinality(1..length)
  BY <1>2, <1>4
<1>6. \E i, j \in 1..length : i # j /\ slots[i] = slots[j]
  BY <1>3, <1>4, <1>5, FS_PigeonHole
<1> QED  BY <1>1, <1>2, <1>6 DEF IndexOK

Hashed(entries, count) == \A n \in 1..count : EntryHash(entries, n) \in Nat

LEMMA InsertKeeps ==
  ASSUME NEW slots, NEW entries, NEW count \in Nat, IndexOK(slots, entries, count),
         count < Len(slots), Hashed(entries, count + 1)
  PROVE  /\ IndexOK(IndexInsert(slots, entries, count + 1), entries, count + 1)
         /\ Len(IndexInsert(slots, entries, count + 1)) = Len(slots)
<1> DEFINE hash == EntryHash(entries, count + 1)
           end  == End(slots, hash)
           here == Slot(slots, hash, end)
           next == IndexInsert(slots, entries, count + 1)
<1>0. PICK length \in Nat \ {0} : length = Len(slots)
  <2>1. Len(slots) \in Nat
    BY LenProperties DEF IndexOK
  <2> QED  BY <2>1
<1>1. hash \in Nat
  BY DEF Hashed
<1>2. slots \in Seq(Nat) /\ slots # <<>>
  BY <1>0, EmptySeq DEF IndexOK
<1>3. ProbeStops(slots, hash, end)
  <2>1. \E i \in 1..Len(slots) : slots[i] = Vacant
    BY VacantLeft
  <2> HIDE DEF hash
  <2> QED  BY <1>1, <1>2, <2>1, ProbeEnds
<1>4. end \in Nat /\ end < length
  BY <1>0, <1>3 DEF ProbeStops, Steps
<1>5. here \in 1..length
  <2> HIDE DEF hash, end
  <2> QED  BY <1>0, <1>1, <1>2, <1>4, SlotLies
<1>6. next = [slots EXCEPT ![here] = count + 1]
  BY DEF IndexInsert, EntryHash
<1>7. slots[here] = Vacant
  BY <1>3 DEF ProbeStops
<1> HIDE DEF end, here, next, hash
<1>8. next \in Seq(Nat) /\ Len(next) = length
  BY <1>0, <1>2, <1>5, <1>6
<1>9. \A i \in 1..length : next[i] = IF i = here THEN count + 1 ELSE slots[i]
  BY <1>0, <1>2, <1>5, <1>6
<1>10. \A i \in 1..length : slots[i] \in Nat /\ slots[i] <= count
  BY <1>0, <1>2, ElementOfSeq DEF IndexOK
<1>11. \A i \in 1..length : next[i] <= count + 1
  BY <1>9, <1>10
<1>12. \A i, j \in 1..length : next[i] = next[j] /\ next[i] # Vacant => i = j
  BY <1>0, <1>9, <1>10 DEF IndexOK
<1>13. ASSUME NEW h \in Nat, NEW step \in Nat
       PROVE  /\ Slot(next, h, step) = Slot(slots, h, step)
              /\ Slot(slots, h, step) \in 1..length
  <2>1. Slot(next, h, step) = Slot(slots, h, step)
    BY <1>0, <1>8 DEF Slot
  <2> QED  BY <1>0, <1>2, <2>1, SlotLies
<1>14. Steps(next) = Steps(slots) /\ Steps(slots) = 0..length - 1
  BY <1>0, <1>8 DEF Steps
<1>15. ASSUME NEW n \in 1..count PROVE Reachable(next, entries, n)
  <2>1. PICK step \in Steps(slots) :
          /\ slots[Slot(slots, EntryHash(entries, n), step)] = n
          /\ \A before \in 0..(step - 1) : slots[Slot(slots, EntryHash(entries, n), before)] # Vacant
    BY DEF IndexOK, Reachable
  <2>2. PICK h \in Nat : h = EntryHash(entries, n)
    BY DEF Hashed
  <2>3. step \in Nat
    BY <1>14, <2>1
  <2>4. next[Slot(next, h, step)] = n
    <3>1. slots[Slot(slots, h, step)] = n /\ n # Vacant
      BY <2>1, <2>2 DEF Vacant
    <3> QED  BY <1>7, <1>9, <1>13, <2>3, <3>1
  <2>5. ASSUME NEW before \in 0..(step - 1) PROVE next[Slot(next, h, before)] # Vacant
    <3>1. slots[Slot(slots, h, before)] # Vacant /\ before \in Nat
      BY <2>1, <2>2, <2>3
    <3>2. count + 1 # Vacant
      BY DEF Vacant
    <3> QED  BY <1>9, <1>13, <3>1, <3>2
  <2> QED  BY <1>14, <2>1, <2>2, <2>4, <2>5 DEF Reachable
<1>16. Reachable(next, entries, count + 1)
  <2>1. next[Slot(next, hash, end)] = count + 1
    BY <1>1, <1>4, <1>5, <1>9, <1>13 DEF here
  <2>2. ASSUME NEW before \in 0..(end - 1) PROVE next[Slot(next, hash, before)] # Vacant
    <3>1. slots[Slot(slots, hash, before)] # Vacant /\ before \in Nat
      BY <1>3, <1>4 DEF ProbeStops
    <3>2. count + 1 # Vacant
      BY DEF Vacant
    <3> QED  BY <1>1, <1>9, <1>13, <3>1, <3>2
  <2>3. end \in Steps(next)
    BY <1>4, <1>14
  <2> QED  BY <2>1, <2>2, <2>3 DEF Reachable, hash
<1>17. ASSUME NEW n \in 1..(count + 1) PROVE Reachable(next, entries, n)
  <2>1. n \in 1..count \/ n = count + 1
    OBVIOUS
  <2> QED  BY <1>15, <1>16, <2>1
<1>18. IndexOK(next, entries, count + 1)
  BY <1>8, <1>11, <1>12, <1>17 DEF IndexOK
<1> QED  BY <1>0, <1>8, <1>18 DEF next

\* What of the entries an index looks at.
LEMMA SameEntries ==
  ASSUME NEW slots, NEW entries, NEW more, NEW count \in Nat, IndexOK(slots, entries, count),
         \A n \in 1..count : EntryHash(more, n) = EntryHash(entries, n)
  PROVE  IndexOK(slots, more, count)
<1>1. ASSUME NEW n \in 1..count PROVE Reachable(slots, more, n)
  <2>1. Reachable(slots, entries, n) /\ EntryHash(more, n) = EntryHash(entries, n)
    BY DEF IndexOK
  <2> QED  BY <2>1 DEF Reachable
<1> QED  BY <1>1 DEF IndexOK

\* The index answers exactly for the entries.
LEMMA ContainsIs ==
  ASSUME NEW slots, NEW entries, NEW count \in Nat, IndexOK(slots, entries, count),
         count < Len(slots), NEW section, NEW key, Hash(section, key) \in Nat
  PROVE  IndexContains(slots, entries, section, key)
           <=> \E n \in 1..count : entries[n].section = section /\ entries[n].key = key
<1> DEFINE hash == Hash(section, key)
           end  == End(slots, hash)
<1>0. PICK length \in Nat \ {0} : length = Len(slots)
  <2>1. Len(slots) \in Nat
    BY LenProperties DEF IndexOK
  <2> QED  BY <2>1
<1>1. slots \in Seq(Nat) /\ slots # <<>>
  BY <1>0, EmptySeq DEF IndexOK
<1>2. ProbeStops(slots, hash, end)
  <2>1. \E i \in 1..Len(slots) : slots[i] = Vacant
    BY VacantLeft
  <2>2. hash \in Nat
    OBVIOUS
  <2> HIDE DEF hash
  <2> QED  BY <1>1, <2>1, <2>2, ProbeEnds
<1>3. end \in Nat /\ Steps(slots) \in SUBSET Nat
  BY <1>0, <1>2 DEF ProbeStops, Steps
<1>4. IndexContains(slots, entries, section, key)
        <=> \E step \in 0..(end - 1) :
              LET entry == entries[slots[Slot(slots, hash, step)]]
              IN entry.section = section /\ entry.key = key
  BY <1>1 DEF IndexContains
<1>n. hash \in Nat
  OBVIOUS
<1> HIDE DEF end, hash
<1>5. ASSUME NEW step \in 0..(end - 1),
             entries[slots[Slot(slots, hash, step)]].section = section,
             entries[slots[Slot(slots, hash, step)]].key = key
      PROVE  \E n \in 1..count : entries[n].section = section /\ entries[n].key = key
  <2>1. PICK i : i = Slot(slots, hash, step)
    OBVIOUS
  <2>2. i \in 1..Len(slots)
    BY <1>1, <1>3, <1>n, <2>1, SlotLies
  <2>3. slots[i] \in Nat /\ slots[i] <= count /\ slots[i] # Vacant
    BY <1>1, <1>2, <2>1, <2>2, ElementOfSeq DEF IndexOK, ProbeStops
  <2>4. slots[i] \in 1..count
    BY <2>3 DEF Vacant
  <2> QED  BY <1>5, <2>1, <2>4
<1>6. ASSUME NEW n \in 1..count, entries[n].section = section, entries[n].key = key
      PROVE  \E step \in 0..(end - 1) :
               LET entry == entries[slots[Slot(slots, hash, step)]]
               IN entry.section = section /\ entry.key = key
  <2>1. EntryHash(entries, n) = hash
    BY <1>6 DEF EntryHash, hash
  <2>2. PICK step \in Steps(slots) :
          /\ slots[Slot(slots, hash, step)] = n
          /\ \A before \in 0..(step - 1) : slots[Slot(slots, hash, before)] # Vacant
    BY <2>1 DEF IndexOK, Reachable
  <2>3. step < end
    <3>1. step \in Nat /\ n # Vacant
      BY <1>3, <2>2 DEF Vacant
    <3>2. slots[Slot(slots, hash, end)] = Vacant
      BY <1>2 DEF ProbeStops
    <3>3. end # step /\ end \notin 0..(step - 1)
      BY <2>2, <3>1, <3>2
    <3> QED  BY <1>3, <3>1, <3>3
  <2>4. step \in 0..(end - 1)
    BY <1>3, <2>2, <2>3
  <2> QED  BY <1>6, <2>2, <2>4
<1> QED  BY <1>4, <1>5, <1>6

\* The capacity of a new index is enough.
LEMMA DoubledIsEnough ==
  ASSUME FirstSlots \in Nat \ {0, 1}, NEW least \in Nat
  PROVE  Doubled(least) \in Nat /\ least <= Doubled(least)
<1> DEFINE Step(x) == IF x >= least THEN x ELSE 2 * x
           G == [n \in 1..least |-> [x \in Nat |-> Step(x)]]
           SizesOf(f) == f = [n \in 0..least |-> IF n = 0 THEN FirstSlots
                                 ELSE IF f[n - 1] >= least THEN f[n - 1] ELSE 2 * f[n - 1]]
<1>1. \E f : SizesOf(f)
  <2>1. G \in [1..least -> [Nat -> Nat]]
    OBVIOUS
  <2>2. \A n \in 1..least : \A x \in Nat : G[n][x] = Step(x)
    OBVIOUS
  <2> HIDE DEF G
  <2>s. PICK f : Unrolls(f, Nat, FirstSlots, least, G)
    <3>1. G \in StepFunctions(Nat, least)
      BY <2>1 DEF StepFunctions
    <3> QED  BY <3>1, RecursionExists
  <2>3. /\ f \in [0..least -> Nat]
        /\ f[0] = FirstSlots /\ \A n \in 1..least : f[n] = G[n][f[n - 1]]
    BY <2>s DEF Unrolls
  <2>4. ASSUME NEW n \in 0..least, n # 0 PROVE f[n] = Step(f[n - 1])
    <3>1. n \in 1..least /\ n - 1 \in 0..least
      BY <2>4
    <3>2. f[n - 1] \in Nat
      BY <2>3, <3>1
    <3> QED  BY <2>2, <2>3, <3>1, <3>2
  <2>5. f = [n \in 0..least |-> f[n]]
    BY <2>3
  <2>6. SizesOf(f)
    BY <2>3, <2>4, <2>5
  <2> HIDE DEF SizesOf
  <2> QED  BY <2>6
<1>2. PICK f : SizesOf(f) /\ Doubled(least) = f[least]
  <2>1. Doubled(least) = (CHOOSE f : SizesOf(f))[least]
    BY DEF Doubled
  <2> HIDE DEF SizesOf
  <2> QED  BY <1>1, <2>1
<1> DEFINE K == {n \in Nat : n <= least => f[n] \in Nat /\ (f[n] >= least \/ f[n] >= n + 1)}
<1>3. 0 \in K
  BY <1>2
<1>4. ASSUME NEW n \in Nat, n \in K PROVE n + 1 \in K
  <2>1. SUFFICES ASSUME n + 1 <= least
                 PROVE  f[n + 1] \in Nat /\ (f[n + 1] >= least \/ f[n + 1] >= n + 2)
    BY SMTT(30)
  <2>2. n + 1 \in 0..least /\ n + 1 # 0 /\ (n + 1) - 1 = n /\ n <= least
    BY <2>1
  <2>3. f[n + 1] = Step(f[n])
    BY <1>2, <2>2
  <2>4. PICK x \in Nat : x = f[n] /\ (x >= least \/ x >= n + 1)
    BY <1>4, <2>2
  <2> QED  BY <2>3, <2>4
<1> HIDE DEF K
<1>5. \A n \in Nat : n \in K
  BY <1>3, <1>4, Induction
<1>6. f[least] \in Nat /\ (f[least] >= least \/ f[least] >= least + 1)
  BY <1>5 DEF K
<1> QED  BY <1>2, <1>6

LEMMA EmptyIndex ==
  ASSUME NEW entries, NEW length \in Nat
  PROVE  LET slots == [i \in 1..length |-> Vacant]
         IN IndexOK(slots, entries, 0) /\ Len(slots) = length
BY DEF IndexOK, Vacant

\* An index that has room, or a new one with twice the room, for one entry more.
LEMMA ReserveGives ==
  ASSUME FirstSlots \in Nat \ {0, 1}, NEW slots, NEW entries, NEW count \in Nat,
         count = Len(entries), Hashed(entries, count),
         slots = <<>> \/ IndexOK(slots, entries, count), slots \in Seq(Nat)
  PROVE  LET next == IndexReserve(slots, entries)
         IN IndexOK(next, entries, count) /\ count + 1 < Len(next)
<1> DEFINE next == IndexReserve(slots, entries)
<1>0. PICK length \in Nat : length = Len(slots)
  BY LenProperties
<1>1. CASE slots # <<>> /\ count < Len(slots) \div 2
  <2>1. next = slots
    BY <1>1 DEF IndexReserve
  <2>2. PICK half : half = length \div 2
    OBVIOUS
  <2>3. half \in Nat /\ 2 * half <= length
    BY <2>2
  <2>4. count < half
    BY <1>0, <1>1, <2>2
  <2>5. count + 1 < length
    BY <2>3, <2>4
  <2> QED  BY <1>0, <1>1, <2>1, <2>5
<1>2. CASE ~(slots # <<>> /\ count < Len(slots) \div 2)
  <2>1. PICK size \in Nat : size = Doubled(2 * (count + 1)) /\ 2 * (count + 1) <= size
    <3>1. PICK least \in Nat : least = 2 * (count + 1)
      OBVIOUS
    <3> QED  BY <3>1, DoubledIsEnough
  <2> DEFINE empty == [i \in 1..size |-> Vacant]
             TakenOf(f) == f = [n \in 0..count |-> IF n = 0 THEN empty
                                                   ELSE IndexInsert(f[n - 1], entries, n)]
  <2>2. next = (CHOOSE f : TakenOf(f))[count]
    BY <1>2, <2>1 DEF IndexReserve
  <2>3. IndexOK(empty, entries, 0) /\ Len(empty) = size
    BY EmptyIndex
  <2>4. empty \in [1..size -> Nat]
    BY DEF Vacant
  <2> HIDE DEF empty, next
  <2>5. \E f : TakenOf(f)
    <3> DEFINE T == [1..size -> Nat]
               G == [n \in 1..count |-> [s \in T |-> IndexInsert(s, entries, n)]]
    <3>1. ASSUME NEW s \in T, NEW n \in 1..count PROVE IndexInsert(s, entries, n) \in T
      <4>1. PICK x : x = Slot(s, Hash(entries[n].section, entries[n].key),
                              End(s, Hash(entries[n].section, entries[n].key)))
        OBVIOUS
      <4>2. IndexInsert(s, entries, n) = [s EXCEPT ![x] = n]
        BY <4>1 DEF IndexInsert
      <4>3. n \in Nat /\ s \in [1..size -> Nat]
        OBVIOUS
      <4>4. [s EXCEPT ![x] = n] \in [1..size -> Nat]
        BY <4>3
      <4> QED  BY <4>2, <4>4
    <3>2. G \in [1..count -> [T -> T]]
      <4> HIDE DEF T
      <4> QED  BY <3>1
    <3>3. \A n \in 1..count : \A s \in T : G[n][s] = IndexInsert(s, entries, n)
      OBVIOUS
    <3> HIDE DEF G, T
    <3>4. empty \in T
      BY <2>4 DEF T
    <3>s. PICK f : Unrolls(f, T, empty, count, G)
      <4>1. G \in StepFunctions(T, count)
        BY <3>2 DEF StepFunctions
      <4> QED  BY <3>4, <4>1, RecursionExists
    <3>5. /\ f \in [0..count -> T]
          /\ f[0] = empty /\ \A n \in 1..count : f[n] = G[n][f[n - 1]]
      BY <3>s DEF Unrolls
    <3>6. ASSUME NEW n \in 0..count, n # 0 PROVE f[n] = IndexInsert(f[n - 1], entries, n)
      <4>1. n \in 1..count /\ n - 1 \in 0..count
        BY <3>6
      <4>2. f[n - 1] \in T
        BY <3>5, <4>1
      <4> QED  BY <3>3, <3>5, <4>1, <4>2
    <3>7. f = [n \in 0..count |-> f[n]]
      BY <3>5
    <3>8. TakenOf(f)
      BY <3>5, <3>6, <3>7
    <3> HIDE DEF TakenOf
    <3> QED  BY <3>8
  <2>6. PICK f : TakenOf(f) /\ next = f[count]
    <3> HIDE DEF TakenOf
    <3> QED  BY <2>2, <2>5
  <2> DEFINE K == {n \in Nat : n <= count => IndexOK(f[n], entries, n) /\ Len(f[n]) = size}
  <2>7. 0 \in K
    BY <2>3, <2>6
  <2>8. ASSUME NEW n \in Nat, n \in K PROVE n + 1 \in K
    <3>1. SUFFICES ASSUME n + 1 <= count
                   PROVE  IndexOK(f[n + 1], entries, n + 1) /\ Len(f[n + 1]) = size
      OBVIOUS
    <3>2. n + 1 \in 0..count /\ n + 1 # 0 /\ (n + 1) - 1 = n /\ n <= count /\ n < size
      BY <2>1, <3>1
    <3>3. f[n + 1] = IndexInsert(f[n], entries, n + 1)
      BY <2>6, <3>2
    <3>4. IndexOK(f[n], entries, n) /\ Len(f[n]) = size
      BY <2>8, <3>2
    <3>5. Hashed(entries, n + 1)
      BY <3>1 DEF Hashed
    <3>6. n < Len(f[n])
      BY <3>2, <3>4
    <3> QED  BY <3>3, <3>4, <3>5, <3>6, InsertKeeps
  <2> HIDE DEF K
  <2>9. \A n \in Nat : n \in K
    BY <2>7, <2>8, Induction
  <2>10. IndexOK(f[count], entries, count) /\ Len(f[count]) = size
    BY <2>9 DEF K
  <2>11. count + 1 < size
    BY <2>1
  <2> QED  BY <2>6, <2>10, <2>11 DEF next
<1> QED  BY <1>1, <1>2


-----------------------------------------------------------------------------
(* What a document says, line by line.                                       *)

LEMMA GreatestElement ==
  ASSUME NEW n \in Nat, NEW T \in SUBSET (1..n), T # {}
  PROVE  \E i \in T : \A j \in T : j <= i
<1> DEFINE below == {n - j : j \in T}
<1>1. below \in SUBSET Nat /\ below # {}
  <2>1. \A j \in T : n - j \in Nat
    <3>1. ASSUME NEW j \in 1..n PROVE n - j \in Nat
      OBVIOUS
    <3> QED  BY <3>1
  <2>2. \E j : j \in T
    OBVIOUS
  <2> QED  BY <2>1, <2>2
<1>2. PICK least \in below : \A other \in below : least <= other
  <2> HIDE DEF below
  <2> QED  BY <1>1, LeastElement
<1>3. PICK i \in T : least = n - i
  OBVIOUS
<1>4. ASSUME NEW j \in T PROVE j <= i
  <2>1. n - i <= n - j
    BY <1>2, <1>3
  <2> QED  BY <2>1
<1> QED  BY <1>4

\* The last section above a line.
LEMMA SectionIs ==
  ASSUME NEW lines, NEW i \in Nat
  PROVE  \/ SectionsAbove(lines, i) = {} /\ SectionAt(lines, i) = Unnamed
         \/ \E j \in SectionsAbove(lines, i) :
              /\ \A k \in SectionsAbove(lines, i) : k <= j
              /\ SectionAt(lines, i) = lines[j].name
<1> DEFINE above == SectionsAbove(lines, i)
<1>1. above \in SUBSET (1..i)
  BY DEF SectionsAbove
<1>2. CASE above = {}
  BY <1>2 DEF SectionAt
<1>3. CASE above # {}
  <2>1. PICK top \in above : \A k \in above : k <= top
    <3> HIDE DEF above
    <3> QED  BY <1>1, <1>3, GreatestElement
  <2>2. PICK j : j = CHOOSE t \in above : \A k \in above : k <= t
    OBVIOUS
  <2>3. j \in above /\ \A k \in above : k <= j
    <3> HIDE DEF above
    <3> QED  BY <2>1, <2>2
  <2>4. SectionAt(lines, i) = lines[j].name
    BY <1>3, <2>2 DEF SectionAt
  <2> QED  BY <2>3, <2>4
<1> QED  BY <1>2, <1>3

LEMMA SectionAgrees ==
  ASSUME NEW lines, NEW more, NEW i \in Nat, \A j \in 1..i : more[j] = lines[j]
  PROVE  SectionAt(more, i) = SectionAt(lines, i)
<1>1. SectionsAbove(more, i) = SectionsAbove(lines, i)
  BY DEF SectionsAbove
<1>2. SectionsAbove(lines, i) \in SUBSET (1..i)
  BY DEF SectionsAbove
<1>3. CASE SectionsAbove(lines, i) = {}
  BY <1>1, <1>3 DEF SectionAt
<1>4. CASE SectionsAbove(lines, i) # {}
  <2>1. PICK j \in SectionsAbove(lines, i) :
          (\A k \in SectionsAbove(lines, i) : k <= j) /\ SectionAt(lines, i) = lines[j].name
    BY <1>4, SectionIs
  <2>2. PICK k \in SectionsAbove(lines, i) :
          (\A l \in SectionsAbove(lines, i) : l <= k) /\ SectionAt(more, i) = more[k].name
    BY <1>1, <1>4, SectionIs
  <2>3. j \in 1..i /\ k \in 1..i /\ j <= k /\ k <= j
    BY <1>2, <2>1, <2>2
  <2>4. j = k
    BY <2>3
  <2> QED  BY <2>1, <2>2, <2>3, <2>4
<1> QED  BY <1>3, <1>4

\* A section line names the section of what comes after it; other lines leave it.
LEMMA SectionGrows ==
  ASSUME NEW lines, NEW n \in Nat
  PROVE  SectionAt(lines, n + 1) =
           IF lines[n + 1].opens = "[" THEN lines[n + 1].name ELSE SectionAt(lines, n)
<1>1. CASE lines[n + 1].opens = "["
  <2>1. n + 1 \in SectionsAbove(lines, n + 1)
    BY <1>1 DEF SectionsAbove
  <2>2. PICK j \in SectionsAbove(lines, n + 1) :
          (\A k \in SectionsAbove(lines, n + 1) : k <= j) /\ SectionAt(lines, n + 1) = lines[j].name
    BY <2>1, SectionIs
  <2>3. j \in 1..(n + 1) /\ n + 1 <= j
    BY <2>1, <2>2 DEF SectionsAbove
  <2>4. j = n + 1
    BY <2>3
  <2> QED  BY <1>1, <2>2, <2>4
<1>2. CASE lines[n + 1].opens # "["
  <2>1. SectionsAbove(lines, n + 1) = SectionsAbove(lines, n)
    <3>1. \A j : j \in 1..(n + 1) <=> j \in 1..n \/ j = n + 1
      OBVIOUS
    <3> QED  BY <1>2, <3>1 DEF SectionsAbove
  <2>2. PICK next \in Nat : next = n + 1
    OBVIOUS
  <2>3. SectionAt(lines, next) = SectionAt(lines, n)
    <3>1. SectionsAbove(lines, n) \in SUBSET (1..n)
      BY DEF SectionsAbove
    <3>2. CASE SectionsAbove(lines, n) = {}
      BY <2>1, <2>2, <3>2, SectionIs
    <3>3. CASE SectionsAbove(lines, n) # {}
      <4>1. PICK j \in SectionsAbove(lines, n) :
              (\A k \in SectionsAbove(lines, n) : k <= j) /\ SectionAt(lines, n) = lines[j].name
        BY <3>3, SectionIs
      <4>2. PICK k \in SectionsAbove(lines, n) :
              (\A l \in SectionsAbove(lines, n) : l <= k) /\ SectionAt(lines, next) = lines[k].name
        BY <2>1, <2>2, <3>3, SectionIs
      <4>3. j \in 1..n /\ k \in 1..n /\ j <= k /\ k <= j
        BY <3>1, <4>1, <4>2
      <4>4. j = k
        BY <4>3
      <4> QED  BY <4>1, <4>2, <4>4
    <3> QED  BY <3>2, <3>3
  <2> QED  BY <1>2, <2>2, <2>3
<1> QED  BY <1>1, <1>2

\* The pairs of a document by its lines.
PairsBy(f, lines, length) ==
  f = [n \in 0..length |->
         IF n = 0 THEN <<>>
         ELSE IF lines[n].opens = "text" THEN Append(f[n - 1], PairAt(lines, n)) ELSE f[n - 1]]

LEMMA PairsUnroll ==
  ASSUME NEW lines, NEW length \in Nat, length = Len(lines)
  PROVE  \E f : PairsBy(f, lines, length) /\ PairsOf(lines) = f[length]
<1> DEFINE said == {PairAt(lines, n) : n \in 1..length}
           T == Seq(said)
           With(n, s) == IF lines[n].opens = "text" THEN Append(s, PairAt(lines, n)) ELSE s
           G == [n \in 1..length |-> [s \in T |-> With(n, s)]]
<1>1. \E f : PairsBy(f, lines, length)
  <2>1. ASSUME NEW n \in 1..length, NEW s \in T PROVE With(n, s) \in T
    <3>1. PICK pair : pair = PairAt(lines, n)
      OBVIOUS
    <3>2. pair \in said
      BY <3>1
    <3> HIDE DEF said
    <3>3. Append(s, pair) \in Seq(said)
      BY <3>2
    <3> QED  BY <3>1, <3>3
  <2>2. G \in [1..length -> [T -> T]]
    <3> HIDE DEF T, With
    <3> QED  BY <2>1
  <2>3. \A n \in 1..length : \A s \in T : G[n][s] = With(n, s)
    <3> HIDE DEF T, With
    <3> QED  OBVIOUS
  <2>4. <<>> \in T
    OBVIOUS
  <2> HIDE DEF G, T
  <2>5. PICK f : Unrolls(f, T, <<>>, length, G)
    <3>1. G \in StepFunctions(T, length)
      BY <2>2 DEF StepFunctions
    <3> QED  BY <2>4, <3>1, RecursionExists
  <2>6. /\ f \in [0..length -> T]
        /\ f[0] = <<>> /\ \A n \in 1..length : f[n] = G[n][f[n - 1]]
    BY <2>5 DEF Unrolls
  <2>7. ASSUME NEW n \in 0..length, n # 0 PROVE f[n] = With(n, f[n - 1])
    <3>1. n \in 1..length /\ n - 1 \in 0..length
      BY <2>7
    <3>2. f[n - 1] \in T
      BY <2>6, <3>1
    <3> HIDE DEF With
    <3> QED  BY <2>3, <2>6, <3>1, <3>2
  <2>8. f = [n \in 0..length |-> f[n]]
    BY <2>6
  <2>9. PairsBy(f, lines, length)
    BY <2>6, <2>7, <2>8 DEF PairsBy
  <2> QED  BY <2>9
<1>2. PairsOf(lines) = (CHOOSE f : PairsBy(f, lines, length))[length]
  BY DEF PairsOf, PairsBy
<1> QED  BY <1>1, <1>2

LEMMA PairsOfNothing == PairsOf(<<>>) = <<>>
<1>1. PICK none \in Nat : none = 0
  OBVIOUS
<1>2. none = Len(<<>>)
  BY <1>1
<1>3. PICK f : PairsBy(f, <<>>, none) /\ PairsOf(<<>>) = f[none]
  BY <1>2, PairsUnroll
<1> QED  BY <1>1, <1>3 DEF PairsBy

\* A line more adds its pair, if it holds one.
LEMMA PairsGrow ==
  ASSUME NEW S, NEW lines \in Seq(S), NEW line \in S
  PROVE  LET more == Append(lines, line)
         IN /\ SectionAt(more, Len(more)) =
                 IF line.opens = "[" THEN line.name ELSE SectionAt(lines, Len(lines))
            /\ PairsOf(more) =
                 IF line.opens = "text"
                 THEN Append(PairsOf(lines), [section |-> SectionAt(lines, Len(lines)),
                                              key |-> line.name, value |-> line.value])
                 ELSE PairsOf(lines)
<1>0. PICK n \in Nat : n = Len(lines)
  BY LenProperties
<1>1. PICK more : more = Append(lines, line)
  OBVIOUS
<1>2. /\ Len(more) = n + 1 /\ more[n + 1] = line
      /\ \A j \in 1..n : more[j] = lines[j]
  BY <1>0, <1>1
<1>3. \A i \in 0..n : SectionAt(more, i) = SectionAt(lines, i)
  <2>1. ASSUME NEW i \in 0..n PROVE SectionAt(more, i) = SectionAt(lines, i)
    <3>1. i \in Nat /\ \A j \in 1..i : more[j] = lines[j]
      BY <1>2
    <3> QED  BY <3>1, SectionAgrees
  <2> QED  BY <2>1
<1>4. SectionAt(more, n + 1) = IF line.opens = "[" THEN line.name ELSE SectionAt(lines, n)
  <2>1. SectionAt(more, n) = SectionAt(lines, n)
    BY <1>3
  <2>2. SectionAt(more, n + 1) =
          IF more[n + 1].opens = "[" THEN more[n + 1].name ELSE SectionAt(more, n)
    BY SectionGrows
  <2> QED  BY <1>2, <2>1, <2>2
<1>5. PICK f : PairsBy(f, lines, n) /\ PairsOf(lines) = f[n]
  BY <1>0, PairsUnroll
<1>6. PICK g : PairsBy(g, more, n + 1) /\ PairsOf(more) = g[n + 1]
  <2>1. PICK size \in Nat : size = n + 1
    OBVIOUS
  <2>2. size = Len(more)
    BY <1>2, <2>1
  <2> QED  BY <2>1, <2>2, PairsUnroll
<1> DEFINE K == {m \in Nat : m <= n => g[m] = f[m]}
<1>7. 0 \in K
  BY <1>5, <1>6 DEF PairsBy
<1>8. ASSUME NEW m \in Nat, m \in K PROVE m + 1 \in K
  <2>1. SUFFICES ASSUME m + 1 <= n PROVE g[m + 1] = f[m + 1]
    OBVIOUS
  <2>2. /\ m + 1 \in 0..n /\ m + 1 \in 0..(n + 1) /\ m + 1 # 0 /\ (m + 1) - 1 = m
        /\ m + 1 \in 1..n /\ m <= n
    BY <2>1
  <2>3. g[m] = f[m]
    BY <1>8, <2>2
  <2>4. more[m + 1] = lines[m + 1] /\ PairAt(more, m + 1) = PairAt(lines, m + 1)
    BY <1>2, <1>3, <2>2 DEF PairAt
  <2>5. g[m + 1] = IF more[m + 1].opens = "text" THEN Append(g[m], PairAt(more, m + 1)) ELSE g[m]
    BY <1>6, <2>2 DEF PairsBy
  <2>6. f[m + 1] = IF lines[m + 1].opens = "text" THEN Append(f[m], PairAt(lines, m + 1)) ELSE f[m]
    BY <1>5, <2>2 DEF PairsBy
  <2> QED  BY <2>3, <2>4, <2>5, <2>6
<1> HIDE DEF K
<1>9. g[n] = f[n]
  <2>1. \A m \in Nat : m \in K
    BY <1>7, <1>8, Induction
  <2> QED  BY <2>1 DEF K
<1>10. g[n + 1] = IF more[n + 1].opens = "text" THEN Append(g[n], PairAt(more, n + 1)) ELSE g[n]
  <2>1. n + 1 \in 0..(n + 1) /\ n + 1 # 0 /\ (n + 1) - 1 = n
    OBVIOUS
  <2> QED  BY <1>6, <2>1 DEF PairsBy
<1>11. line.opens = "text" =>
         PairAt(more, n + 1) = [section |-> SectionAt(lines, n), key |-> line.name,
                                value |-> line.value]
  BY <1>2, <1>4 DEF PairAt
<1> QED  BY <1>0, <1>1, <1>2, <1>4, <1>5, <1>6, <1>9, <1>10, <1>11

-----------------------------------------------------------------------------
(* The configuration parser, for every document.                             *)

Entry == [section : ConfigNames, key : ConfigNames, value : {line.value : line \in Lines}]

ConfigTypes ==
  /\ document \in Seq(Lines)
  /\ builder \in [entries : Seq(Entry), capacity : Nat, slots : Seq(Nat)]
  /\ parse \in [pc : {"idle", "lines", "end"}, section : ConfigNames,
                status : {"none", "ok", "limit", "format", "memory", "exists"}]

\* No two entries have the same section and key.
KeysDiffer(entries) ==
  \A i, j \in 1..Len(entries) : SameKey(entries[i], entries[j]) => i = j

\* While there is no index there is no entry, and the index is never full.
IndexServes(slots, entries) ==
  \/ slots = <<>> /\ Len(entries) = 0
  \/ IndexOK(slots, entries, Len(entries)) /\ Len(entries) < Len(slots)

LinesInv ==
  parse.pc = "lines" =>
    /\ parse.status = "ok"
    /\ parse.section = SectionAt(document, Len(document))
    /\ builder.entries = PairsOf(document)
    /\ KeysDiffer(builder.entries)
    /\ IndexServes(builder.slots, builder.entries)
    /\ blocks = Blocks(builder) + SectionBlock

EndInv ==
  parse.pc = "end" =>
    /\ parse.section = Unnamed
    /\ blocks = Blocks(builder)
    /\ parse.status # "ok" => builder = NoBuilder
    /\ parse.status = "ok" => /\ builder.entries = PairsOf(document)
                              /\ KeysDiffer(builder.entries)
                              /\ builder.slots = <<>>

IdleInv == parse.pc = "idle" => builder = NoBuilder /\ blocks = 0 /\ parse.section = Unnamed

ConfigInv == ConfigTypes /\ LinesInv /\ EndInv /\ IdleInv

LEMMA NoBuilderIs ==
  /\ NoBuilder \in [entries : Seq(Entry), capacity : Nat, slots : Seq(Nat)]
  /\ Blocks(NoBuilder) = 0
  /\ NoBuilder.entries = <<>> /\ NoBuilder.slots = <<>> /\ NoBuilder.capacity = 0
<1>1. PICK nothing : nothing = <<>>
  OBVIOUS
<1>2. nothing \in Seq(Entry) /\ nothing \in Seq(Nat) /\ Len(nothing) = 0
  BY <1>1
<1>3. NoBuilder = [entries |-> nothing, capacity |-> 0, slots |-> nothing]
  BY <1>1 DEF NoBuilder
<1> QED  BY <1>1, <1>2, <1>3 DEF Blocks

LEMMA BlocksAreCounted ==
  ASSUME NEW b \in [entries : Seq(Entry), capacity : Nat, slots : Seq(Nat)]
  PROVE  Blocks(b) \in Nat
<1>1. PICK n \in Nat : n = Len(b.entries)
  BY LenProperties
<1> QED  BY <1>1 DEF Blocks

LEMMA ConfigStarts == ASSUME ConfigConstants, ConfigStart PROVE ConfigInv
<1>1. Unnamed \in ConfigNames
  BY DEF ConfigNames
<1>2. document \in Seq(Lines)
  BY DEF ConfigStart
<1>3. parse = [pc |-> "idle", section |-> Unnamed, status |-> "none"]
  BY DEF ConfigStart
<1>4. ConfigTypes
  BY <1>1, <1>2, <1>3, NoBuilderIs DEF ConfigStart, ConfigTypes
<1> QED  BY <1>3, <1>4 DEF ConfigStart, ConfigInv, LinesInv, EndInv, IdleInv

\* A document begins empty: there is nothing that it says.
LEMMA BeginKeeps ==
  ASSUME ConfigConstants, ConfigInv, NEW status \in {"ok", "limit", "format"}, Begin(status)
  PROVE  ConfigInv'
<1>1. builder' = NoBuilder /\ blocks' = 0 /\ document' = <<>>
  BY DEF Begin, ConfigInv, IdleInv
<1>2. parse' = [pc |-> IF status = "ok" THEN "lines" ELSE "end", section |-> Unnamed,
                status |-> status]
  BY DEF Begin
<1>3. /\ parse'.pc = (IF status = "ok" THEN "lines" ELSE "end")
      /\ parse'.section = Unnamed /\ parse'.status = status
  BY <1>2
<1>4. ConfigTypes'
  <2>1. Unnamed \in ConfigNames
    BY DEF ConfigNames
  <2>2. <<>> \in Seq(Lines)
    OBVIOUS
  <2> QED  BY <1>1, <1>2, <2>1, <2>2, NoBuilderIs DEF ConfigTypes
<1>5. PairsOf(document') = <<>>
  BY <1>1, PairsOfNothing
<1>6. SectionAt(document', Len(document')) = Unnamed
  <2>1. PICK none \in Nat : none = 0
    OBVIOUS
  <2>2. SectionsAbove(<<>>, none) = {}
    BY <2>1 DEF SectionsAbove
  <2>3. SectionAt(<<>>, none) = Unnamed
    BY <2>2 DEF SectionAt
  <2> QED  BY <1>1, <2>1, <2>3
<1>7. KeysDiffer(<<>>) /\ IndexServes(<<>>, <<>>)
  BY DEF KeysDiffer, IndexServes
<1>8. LinesInv'
  <2>1. blocks' = Blocks(builder') + SectionBlock'
    BY <1>1, <1>3, NoBuilderIs DEF SectionBlock
  <2>2. builder'.entries = <<>> /\ builder'.slots = <<>>
    BY <1>1, NoBuilderIs
  <2> QED  BY <1>3, <1>5, <1>6, <1>7, <2>1, <2>2 DEF LinesInv
<1>9. EndInv'
  BY <1>1, <1>3, NoBuilderIs DEF EndInv
<1>10. IdleInv'
  BY <1>1, <1>3 DEF IdleInv
<1> QED  BY <1>4, <1>8, <1>9, <1>10 DEF ConfigInv

\* Whatever fails, the label `fail' leaves nothing behind.
LEMMA FailKeeps ==
  ASSUME ConfigConstants, ConfigInv, parse.pc = "lines", document' \in Seq(Lines),
         NEW status \in {"limit", "format", "memory", "exists"},
         NEW reached \in [entries : Seq(Entry), capacity : Nat, slots : Seq(Nat)],
         NEW held, held = Blocks(reached) + SectionBlock, FailWith(status, reached, held)
  PROVE  ConfigInv'
<1>1. Blocks(reached) \in Nat /\ SectionBlock \in Nat
  BY BlocksAreCounted DEF SectionBlock
<1>2. blocks' = 0 /\ builder' = NoBuilder
  BY <1>1 DEF FailWith
<1>3. parse' = [pc |-> "end", section |-> Unnamed, status |-> status]
  BY DEF FailWith
<1>4. parse'.pc = "end" /\ parse'.section = Unnamed /\ parse'.status = status
  BY <1>3
<1>5. ConfigTypes'
  <2>1. Unnamed \in ConfigNames
    BY DEF ConfigNames
  <2> QED  BY <1>2, <1>3, <2>1, NoBuilderIs DEF ConfigTypes
<1>6. LinesInv' /\ EndInv' /\ IdleInv'
  BY <1>2, <1>4, NoBuilderIs DEF LinesInv, EndInv, IdleInv
<1> QED  BY <1>5, <1>6 DEF ConfigInv

LEMMA SkipKeeps ==
  ASSUME ConfigConstants, ConfigInv, NEW line \in Lines, parse.pc = "lines",
         document' = Append(document, line), Skip(line)
  PROVE  ConfigInv'
<1>1. document \in Seq(Lines)
  BY DEF ConfigInv, ConfigTypes
<1>2. /\ SectionAt(document', Len(document')) = SectionAt(document, Len(document))
      /\ PairsOf(document') = PairsOf(document)
  BY <1>1, PairsGrow DEF Skip
<1>3. document' \in Seq(Lines)
  BY <1>1
<1>4. builder' = builder /\ parse' = parse /\ blocks' = blocks /\ SectionBlock' = SectionBlock
  BY DEF Skip, SectionBlock
<1> QED  BY <1>2, <1>3, <1>4 DEF ConfigInv, ConfigTypes, LinesInv, EndInv, IdleInv

LEMMA WrongLineKeeps ==
  ASSUME ConfigConstants, ConfigInv, NEW line \in Lines, parse.pc = "lines",
         document' = Append(document, line), WrongLine(line)
  PROVE  ConfigInv'
<1>1. Wrong(line) \in {"limit", "format"}
  BY DEF WrongLine, Wrong
<1>2. document' \in Seq(Lines)
  BY DEF ConfigInv, ConfigTypes
<1>3. PICK status \in {"limit", "format"} : status = Wrong(line)
  BY <1>1
<1>4. blocks = Blocks(builder) + SectionBlock /\ FailWith(status, builder, blocks)
  BY <1>3 DEF WrongLine, ConfigInv, LinesInv
<1>5. builder \in [entries : Seq(Entry), capacity : Nat, slots : Seq(Nat)]
  BY DEF ConfigInv, ConfigTypes
<1> QED  BY <1>2, <1>3, <1>4, <1>5, FailKeeps

LEMMA SectionLineKeeps ==
  ASSUME ConfigConstants, ConfigInv, NEW line \in Lines, NEW allocates \in BOOLEAN,
         parse.pc = "lines", document' = Append(document, line), SectionLine(line, allocates)
  PROVE  ConfigInv'
<1>1. document \in Seq(Lines) /\ document' \in Seq(Lines)
  BY DEF ConfigInv, ConfigTypes
<1>2. builder \in [entries : Seq(Entry), capacity : Nat, slots : Seq(Nat)]
  BY DEF ConfigInv, ConfigTypes
<1>3. blocks = Blocks(builder) + SectionBlock
  BY DEF ConfigInv, LinesInv
<1>4. CASE ~allocates
  <2>1. FailWith("memory", builder, blocks)
    BY <1>4 DEF SectionLine
  <2> QED  BY <1>1, <1>2, <1>3, <2>1, FailKeeps
<1>5. CASE allocates
  <2>1. /\ parse' = [parse EXCEPT !.section = line.name]
        /\ blocks' = (blocks + 1) - SectionBlock
        /\ builder' = builder /\ line.opens = "[" /\ line.valid
    BY <1>5 DEF SectionLine, Wrong
  <2>2. line.name \in ConfigNames /\ line.name # Unnamed
    BY <2>1 DEF ConfigNames, ConfigConstants
  <2>3. /\ parse'.pc = "lines" /\ parse'.section = line.name
        /\ parse'.status = parse.status /\ ConfigTypes'
    BY <1>1, <1>2, <2>1, <2>2 DEF ConfigInv, ConfigTypes
  <2>4. blocks' = Blocks(builder') + SectionBlock'
    <3>1. Blocks(builder) \in Nat /\ SectionBlock \in Nat /\ SectionBlock' = 1
      BY <1>2, <2>2, <2>3, BlocksAreCounted DEF SectionBlock
    <3> QED  BY <1>3, <2>1, <3>1
  <2>5. /\ SectionAt(document', Len(document')) = line.name
        /\ PairsOf(document') = PairsOf(document)
    BY <1>1, <2>1, PairsGrow
  <2>6. LinesInv'
    BY <2>1, <2>3, <2>4, <2>5 DEF LinesInv, ConfigInv
  <2> QED  BY <2>3, <2>6 DEF ConfigInv, EndInv, IdleInv
<1> QED  BY <1>4, <1>5

LEMMA EntriesHash ==
  ASSUME ConfigConstants, NEW entries \in Seq(Entry)
  PROVE  Hashed(entries, Len(entries))
<1>1. ASSUME NEW n \in 1..Len(entries) PROVE EntryHash(entries, n) \in Nat
  <2>1. entries[n] \in Entry
    BY ElementOfSeq
  <2> QED  BY <2>1 DEF EntryHash, Entry, ConfigConstants
<1> QED  BY <1>1 DEF Hashed

\* The index that the reserve leaves takes one entry more.
LEMMA ReserveServes ==
  ASSUME ConfigConstants, NEW slots \in Seq(Nat), NEW entries \in Seq(Entry),
         IndexServes(slots, entries)
  PROVE  /\ IndexReserve(slots, entries) \in Seq(Nat)
         /\ IndexReserve(slots, entries) # <<>>
         /\ IndexOK(IndexReserve(slots, entries), entries, Len(entries))
         /\ Len(entries) + 1 < Len(IndexReserve(slots, entries))
<1>1. PICK count \in Nat : count = Len(entries)
  BY LenProperties
<1>2. Hashed(entries, count)
  BY <1>1, EntriesHash
<1>3. slots = <<>> \/ IndexOK(slots, entries, count)
  BY <1>1 DEF IndexServes
<1>4. FirstSlots \in Nat \ {0, 1}
  BY DEF ConfigConstants
<1>5. PICK next : next = IndexReserve(slots, entries)
  OBVIOUS
<1>6. IndexOK(next, entries, count) /\ count + 1 < Len(next)
  BY <1>1, <1>2, <1>3, <1>4, <1>5, ReserveGives
<1>7. next # <<>>
  <2>1. Len(<<>>) = 0
    OBVIOUS
  <2>2. ~(count + 1 < 0)
    OBVIOUS
  <2> QED  BY <1>6, <2>1, <2>2
<1>8. next \in Seq(Nat)
  BY <1>6 DEF IndexOK
<1> QED  BY <1>1, <1>5, <1>6, <1>7, <1>8

\* The lookup before an entry is added finds the entries there are.
LEMMA LookupIsExact ==
  ASSUME ConfigConstants, NEW slots \in Seq(Nat), NEW entries \in Seq(Entry),
         IndexServes(slots, entries), NEW section \in ConfigNames, NEW key \in ConfigNames
  PROVE  IndexContains(slots, entries, section, key)
           <=> \E n \in 1..Len(entries) : entries[n].section = section /\ entries[n].key = key
<1>1. PICK count \in Nat : count = Len(entries)
  BY LenProperties
<1>2. CASE slots = <<>> /\ count = 0
  BY <1>1, <1>2 DEF IndexContains
<1>3. CASE IndexOK(slots, entries, count) /\ count < Len(slots)
  <2>1. Hash(section, key) \in Nat
    BY DEF ConfigConstants
  <2> QED  BY <1>1, <1>3, <2>1, ContainsIs
<1> QED  BY <1>1, <1>2, <1>3 DEF IndexServes

\* An entry more, behind an index that had room.
LEMMA AddServes ==
  ASSUME ConfigConstants, NEW slots \in Seq(Nat), NEW entries \in Seq(Entry), NEW entry \in Entry,
         IndexOK(slots, entries, Len(entries)), Len(entries) + 1 < Len(slots)
  PROVE  LET more == Append(entries, entry)
             next == IndexInsert(slots, more, Len(more))
         IN IndexServes(next, more) /\ next \in Seq(Nat) /\ next # <<>>
<1>1. PICK count \in Nat : count = Len(entries)
  BY LenProperties
<1>2. PICK more \in Seq(Entry) : more = Append(entries, entry)
  <2>1. Append(entries, entry) \in Seq(Entry)
    OBVIOUS
  <2> QED  BY <2>1
<1>3. Len(more) = count + 1 /\ \A n \in 1..count : more[n] = entries[n]
  BY <1>1, <1>2
<1>4. Hashed(more, count + 1)
  BY <1>3, EntriesHash
<1>5. IndexOK(slots, more, count)
  <2>1. \A n \in 1..count : EntryHash(more, n) = EntryHash(entries, n)
    BY <1>3 DEF EntryHash
  <2> QED  BY <1>1, <2>1, SameEntries
<1>6. PICK length \in Nat : length = Len(slots)
  BY LenProperties
<1>7. count < Len(slots) /\ count + 1 < Len(slots)
  BY <1>1, <1>6
<1>8. PICK next : next = IndexInsert(slots, more, count + 1)
  OBVIOUS
<1>9. IndexOK(next, more, count + 1) /\ Len(next) = Len(slots)
  BY <1>4, <1>5, <1>7, <1>8, InsertKeeps
<1>10. next \in Seq(Nat) /\ next # <<>>
  <2>1. Len(<<>>) = 0
    OBVIOUS
  <2>2. ~(count + 1 < 0)
    OBVIOUS
  <2> QED  BY <1>7, <1>9, <2>1, <2>2 DEF IndexOK
<1>11. IndexServes(next, more)
  BY <1>3, <1>7, <1>9 DEF IndexServes
<1> QED  BY <1>2, <1>3, <1>8, <1>10, <1>11

LEMMA EntriesCapacityGrows ==
  ASSUME ConfigConstants, builder.capacity \in Nat, builder.entries \in Seq(Entry)
  PROVE  EntriesCapacity \in Nat
<1>1. PICK capacity \in Nat, count \in Nat : capacity = builder.capacity /\ count = Len(builder.entries)
  BY LenProperties
<1>2. PICK half \in Nat : half = capacity \div 2
  <2>1. PICK half : half = capacity \div 2
    OBVIOUS
  <2>2. half \in Nat
    BY <2>1
  <2> QED  BY <2>1, <2>2
<1>3. PICK next \in Nat : next = IF capacity = 0 THEN FirstEntries ELSE (capacity + half) + 1
  BY DEF ConfigConstants
<1>4. EntriesCapacity = IF count < capacity THEN capacity
                        ELSE IF next > MaxEntries THEN MaxEntries ELSE next
  BY <1>1, <1>2, <1>3 DEF EntriesCapacity
<1> QED  BY <1>4 DEF ConfigConstants

\* The index of the builder answers for its entries.
LEMMA BuilderLookupIsExact ==
  ASSUME ConfigConstants, ConfigInv, parse.pc = "lines",
         NEW section \in ConfigNames, NEW key \in ConfigNames
  PROVE  IndexContains(builder.slots, builder.entries, section, key)
           <=> \E n \in 1..Len(builder.entries) :
                 builder.entries[n].section = section /\ builder.entries[n].key = key
<1>1. PICK index \in Seq(Nat), kept \in Seq(Entry) :
        index = builder.slots /\ kept = builder.entries
  BY DEF ConfigInv, ConfigTypes
<1>2. IndexServes(index, kept)
  BY <1>1 DEF ConfigInv, LinesInv
<1>3. IndexContains(index, kept, section, key)
        <=> \E n \in 1..Len(kept) : kept[n].section = section /\ kept[n].key = key
  BY <1>2, LookupIsExact
<1> QED  BY <1>1, <1>3

LEMMA PairLineKeeps ==
  ASSUME ConfigConstants, ConfigInv, NEW line \in Lines, NEW failing \in 0..5,
         parse.pc = "lines", document' = Append(document, line), PairLine(line, failing)
  PROVE  ConfigInv'
<1> DEFINE entry    == [section |-> parse.section, key |-> line.name, value |-> line.value]
           slots    == IndexReserve(builder.slots, builder.entries)
           capacity == EntriesCapacity
           indexed  == [builder EXCEPT !.slots = slots]
           grown    == [indexed EXCEPT !.capacity = capacity]
           Made(b)  == (blocks + Blocks(b)) - Blocks(builder)
           entries  == Append(builder.entries, entry)
           filled   == IndexInsert(slots, entries, Len(entries))
           Builders == [entries : Seq(Entry), capacity : Nat, slots : Seq(Nat)]
<1>1. document \in Seq(Lines) /\ document' \in Seq(Lines) /\ builder \in Builders
  BY DEF ConfigInv, ConfigTypes
<1>2. /\ blocks = Blocks(builder) + SectionBlock /\ parse.status = "ok"
      /\ parse.section = SectionAt(document, Len(document))
      /\ builder.entries = PairsOf(document) /\ KeysDiffer(builder.entries)
      /\ IndexServes(builder.slots, builder.entries)
  BY DEF ConfigInv, LinesInv
<1>3. entry \in Entry /\ line.opens = "text"
  BY DEF PairLine, Entry, ConfigInv, ConfigTypes, ConfigNames
<1>4. /\ slots \in Seq(Nat) /\ slots # <<>>
      /\ IndexOK(slots, builder.entries, Len(builder.entries))
      /\ Len(builder.entries) + 1 < Len(slots)
  <2> HIDE DEF slots
  <2>1. builder.slots \in Seq(Nat) /\ builder.entries \in Seq(Entry)
    BY <1>1
  <2> QED  BY <1>2, <2>1, ReserveServes DEF slots
<1>5. capacity \in Nat
  BY <1>1, EntriesCapacityGrows
<1>6. IndexContains(builder.slots, builder.entries, entry.section, entry.key)
        <=> \E n \in 1..Len(builder.entries) :
              builder.entries[n].section = entry.section /\ builder.entries[n].key = entry.key
  <2>1. PICK section \in ConfigNames, key \in ConfigNames :
          section = entry.section /\ key = entry.key
    BY <1>3 DEF Entry
  <2>2. IndexContains(builder.slots, builder.entries, section, key)
          <=> \E n \in 1..Len(builder.entries) :
                builder.entries[n].section = section /\ builder.entries[n].key = key
    BY BuilderLookupIsExact
  <2> HIDE DEF entry
  <2> QED  BY <2>1, <2>2
<1>7. \/ FailWith("exists", builder, blocks)
      \/ FailWith("limit", builder, blocks)
      \/ FailWith("memory", builder, blocks)
      \/ FailWith("memory", indexed, Made(indexed))
      \/ FailWith("memory", grown, Made(grown))
      \/ /\ ~IndexContains(builder.slots, builder.entries, entry.section, entry.key)
         /\ builder' = [grown EXCEPT !.entries = entries, !.slots = filled]
         /\ blocks' = Made(grown) + 3
         /\ parse' = parse
  <2> HIDE DEF slots, capacity
  <2> QED  BY DEF PairLine, slots, capacity
<1> HIDE DEF slots, capacity, entry
<1>8. indexed \in Builders /\ grown \in Builders
  BY <1>1, <1>4, <1>5
<1> HIDE DEF indexed, grown
<1>9. \A b \in Builders : Made(b) = Blocks(b) + SectionBlock
  <2>1. ASSUME NEW b \in Builders PROVE Made(b) = Blocks(b) + SectionBlock
    <3>1. Blocks(b) \in Nat /\ Blocks(builder) \in Nat /\ SectionBlock \in Nat
      BY <1>1, BlocksAreCounted DEF SectionBlock
    <3> QED  BY <1>2, <3>1
  <2> HIDE DEF Made
  <2> QED  BY <2>1
<1>10. ASSUME NEW status \in {"limit", "format", "memory", "exists"}, NEW reached \in Builders,
             NEW held, held = Blocks(reached) + SectionBlock, FailWith(status, reached, held)
       PROVE  ConfigInv'
  BY <1>1, <1>10, FailKeeps
<1>11. CASE FailWith("exists", builder, blocks) \/ FailWith("limit", builder, blocks)
            \/ FailWith("memory", builder, blocks)
  BY <1>1, <1>2, <1>10, <1>11
<1>12. CASE FailWith("memory", indexed, Made(indexed)) \/ FailWith("memory", grown, Made(grown))
  <2>1. Made(indexed) = Blocks(indexed) + SectionBlock /\ Made(grown) = Blocks(grown) + SectionBlock
    BY <1>8, <1>9
  <2> HIDE DEF Made
  <2> QED  BY <1>8, <1>10, <1>12, <2>1
<1>13. CASE /\ ~IndexContains(builder.slots, builder.entries, entry.section, entry.key)
            /\ builder' = [grown EXCEPT !.entries = entries, !.slots = filled]
            /\ blocks' = Made(grown) + 3
            /\ parse' = parse
  <2>1. entries \in Seq(Entry) /\ Len(entries) = Len(builder.entries) + 1
    BY <1>1, <1>3
  <2>2. IndexServes(filled, entries) /\ filled \in Seq(Nat) /\ filled # <<>>
    <3>1. builder.entries \in Seq(Entry)
      BY <1>1
    <3> QED  BY <1>3, <1>4, <3>1, AddServes
  <2>3. /\ entries = PairsOf(document')
        /\ SectionAt(document', Len(document')) = SectionAt(document, Len(document))
    BY <1>1, <1>2, <1>3, PairsGrow DEF entry
  <2>4. KeysDiffer(entries)
    <3>1. PICK count \in Nat : count = Len(builder.entries)
      BY <1>1, LenProperties
    <3>2. /\ \A n \in 1..count : entries[n] = builder.entries[n]
          /\ entries[count + 1] = entry
      BY <1>1, <3>1
    <3>3. \A n \in 1..count : ~SameKey(entries[n], entry) /\ ~SameKey(entry, entries[n])
      BY <1>6, <1>13, <3>1, <3>2 DEF SameKey
    <3>4. ASSUME NEW i \in 1..(count + 1), NEW j \in 1..(count + 1), SameKey(entries[i], entries[j])
          PROVE  i = j
      <4>1. (i \in 1..count \/ i = count + 1) /\ (j \in 1..count \/ j = count + 1)
        OBVIOUS
      <4>2. CASE i \in 1..count /\ j \in 1..count
        BY <1>2, <3>1, <3>2, <3>4, <4>2 DEF KeysDiffer
      <4> QED  BY <3>2, <3>3, <3>4, <4>1, <4>2
    <3>5. Len(entries) = count + 1
      BY <2>1, <3>1
    <3> HIDE DEF entries
    <3> QED  BY <3>4, <3>5 DEF KeysDiffer
  <2> HIDE DEF entries, filled
  <2>5. /\ builder' \in Builders /\ builder'.entries = entries /\ builder'.slots = filled
        /\ builder'.capacity = grown.capacity
    BY <1>8, <1>13, <2>1, <2>2
  <2>6. blocks' = Blocks(builder') + SectionBlock'
    <3>1. PICK count \in Nat : count = Len(builder.entries)
      BY <1>1, LenProperties
    <3>2. grown.slots # <<>> /\ Len(grown.entries) = count
      BY <1>1, <1>4, <3>1 DEF grown, indexed
    <3>3. PICK grownEntries \in {0, 1} : grownEntries = IF grown.capacity = 0 THEN 0 ELSE 1
      OBVIOUS
    <3>4. Blocks(grown) = (1 + grownEntries) + (3 * count)
      BY <3>2, <3>3 DEF Blocks
    <3>5. Len(builder'.entries) = count + 1 /\ builder'.slots # <<>>
      BY <2>1, <2>2, <2>5, <3>1
    <3>6. Blocks(builder') = (1 + grownEntries) + (3 * (count + 1))
      BY <2>5, <3>3, <3>5 DEF Blocks
    <3>7. SectionBlock' = SectionBlock /\ SectionBlock \in Nat
      BY <1>13 DEF SectionBlock
    <3>8. blocks' = (Blocks(grown) + SectionBlock) + 3
      BY <1>8, <1>9, <1>13
    <3> QED  BY <3>4, <3>6, <3>7, <3>8
  <2>7. ConfigTypes'
    BY <1>1, <1>13, <2>5 DEF ConfigInv, ConfigTypes
  <2>8. LinesInv'
    BY <1>2, <1>13, <2>2, <2>3, <2>4, <2>5, <2>6 DEF LinesInv
  <2> QED  BY <1>13, <2>7, <2>8 DEF ConfigInv, EndInv, IdleInv
<1> QED  BY <1>7, <1>11, <1>12, <1>13

LEMMA EndOfInputKeeps == ASSUME ConfigConstants, ConfigInv, EndOfInput PROVE ConfigInv'
<1>1. /\ document' = document
      /\ parse' = [parse EXCEPT !.pc = "end", !.section = Unnamed]
      /\ builder' = [builder EXCEPT !.slots = <<>>]
      /\ blocks' = (blocks - SectionBlock) - (IF builder.slots = <<>> THEN 0 ELSE 1)
  BY DEF EndOfInput
<1>2. builder \in [entries : Seq(Entry), capacity : Nat, slots : Seq(Nat)]
  BY DEF ConfigInv, ConfigTypes
<1>3. /\ blocks = Blocks(builder) + SectionBlock /\ parse.status = "ok"
      /\ builder.entries = PairsOf(document) /\ KeysDiffer(builder.entries)
  BY DEF EndOfInput, ConfigInv, LinesInv
<1>4. Unnamed \in ConfigNames /\ <<>> \in Seq(Nat)
  BY DEF ConfigNames
<1>5. ConfigTypes'
  BY <1>1, <1>2, <1>4 DEF ConfigInv, ConfigTypes
<1>6. /\ parse'.pc = "end" /\ parse'.section = Unnamed /\ parse'.status = parse.status
  BY <1>1 DEF ConfigInv, ConfigTypes
<1>7. /\ builder'.entries = builder.entries /\ builder'.slots = <<>>
      /\ builder'.capacity = builder.capacity
  BY <1>1, <1>2
<1>8. blocks' = Blocks(builder')
  <2>1. PICK count \in Nat : count = Len(builder.entries)
    BY <1>2, LenProperties
  <2>2. SectionBlock \in Nat
    BY DEF SectionBlock
  <2>3. PICK index \in Nat : index = IF builder.slots = <<>> THEN 0 ELSE 1
    OBVIOUS
  <2>4. PICK array \in Nat : array = IF builder.capacity = 0 THEN 0 ELSE 1
    OBVIOUS
  <2>5. PICK texts \in Nat : texts = 3 * count
    OBVIOUS
  <2>6. Blocks(builder) = (index + array) + texts
    BY <2>1, <2>3, <2>4, <2>5 DEF Blocks
  <2>7. Blocks(builder') = (0 + array) + texts
    BY <1>7, <2>1, <2>4, <2>5 DEF Blocks
  <2>8. blocks' = (blocks - SectionBlock) - index
    BY <1>1, <2>3
  <2> QED  BY <1>3, <2>2, <2>6, <2>7, <2>8
<1> QED  BY <1>1, <1>3, <1>5, <1>6, <1>7, <1>8 DEF ConfigInv, LinesInv, EndInv, IdleInv

LEMMA ReleaseKeeps == ASSUME ConfigConstants, ConfigInv, Release PROVE ConfigInv'
<1>1. /\ builder' = NoBuilder /\ document' = <<>>
      /\ parse' = [pc |-> "idle", section |-> Unnamed, status |-> "none"]
      /\ blocks' = blocks - Blocks(builder) /\ blocks = Blocks(builder)
  BY DEF Release, ConfigInv, EndInv
<1>2. Blocks(builder) \in Nat
  BY BlocksAreCounted DEF ConfigInv, ConfigTypes
<1>3. blocks' = 0 /\ parse'.pc = "idle" /\ parse'.section = Unnamed
  BY <1>1, <1>2
<1>4. ConfigTypes'
  <2>1. Unnamed \in ConfigNames /\ <<>> \in Seq(Lines)
    BY DEF ConfigNames
  <2> QED  BY <1>1, <2>1, NoBuilderIs DEF ConfigTypes
<1> QED  BY <1>1, <1>3, <1>4 DEF ConfigInv, LinesInv, EndInv, IdleInv

LEMMA ConfigStepKeeps == ASSUME ConfigConstants, ConfigInv, ConfigNext PROVE ConfigInv'
<1>1. ASSUME NEW line \in Lines, NEW failing \in 0..5, ReadLine(line, failing) PROVE ConfigInv'
  <2>1. parse.pc = "lines" /\ document' = Append(document, line)
    BY <1>1 DEF ReadLine
  <2>2. CASE Skip(line)
    BY <2>1, <2>2, SkipKeeps
  <2>3. CASE WrongLine(line)
    BY <2>1, <2>3, WrongLineKeeps
  <2>4. CASE SectionLine(line, failing = 0)
    <3>1. (failing = 0) \in BOOLEAN
      OBVIOUS
    <3> QED  BY <2>1, <2>4, <3>1, SectionLineKeeps
  <2>5. CASE PairLine(line, failing)
    BY <2>1, <2>5, PairLineKeeps
  <2> QED  BY <1>1, <2>2, <2>3, <2>4, <2>5 DEF ReadLine
<1>2. ASSUME NEW status \in {"ok", "limit", "format"}, Begin(status) PROVE ConfigInv'
  BY <1>2, BeginKeeps
<1> QED  BY <1>1, <1>2, EndOfInputKeeps, ReleaseKeeps DEF ConfigNext

LEMMA ConfigStutters == ASSUME ConfigInv, UNCHANGED configVars PROVE ConfigInv'
<1>1. builder' = builder /\ parse' = parse /\ document' = document /\ blocks' = blocks
  BY DEF configVars
<1> QED  BY <1>1 DEF ConfigInv, ConfigTypes, LinesInv, EndInv, IdleInv, SectionBlock

LEMMA ConfigInvIsEnough == ASSUME ConfigConstants, ConfigInv PROVE ConfigIsExact
<1>0. builder \in [entries : Seq(Entry), capacity : Nat, slots : Seq(Nat)]
  BY DEF ConfigInv, ConfigTypes
<1>1. builder.slots \in Seq(Nat) /\ builder.entries \in Seq(Entry)
  BY <1>0
<1>2. PICK count \in Nat : count = Len(builder.entries)
  BY <1>1, LenProperties
<1>3. DOMAIN builder.entries = 1..count /\ DOMAIN builder.slots = 1..Len(builder.slots)
  BY <1>1, <1>2, LenProperties
<1>4. ASSUME parse.pc = "lines"
      PROVE  /\ builder.entries = Pairs
             /\ builder.slots # <<>> => \E i \in DOMAIN builder.slots : builder.slots[i] = Vacant
             /\ blocks = Blocks(builder) + SectionBlock
  <2>1. /\ builder.entries = PairsOf(document) /\ blocks = Blocks(builder) + SectionBlock
        /\ IndexServes(builder.slots, builder.entries)
    BY <1>4 DEF ConfigInv, LinesInv
  <2>2. builder.slots # <<>> => \E i \in 1..Len(builder.slots) : builder.slots[i] = Vacant
    BY <1>2, <2>1, VacantLeft DEF IndexServes
  <2> QED  BY <1>3, <2>1, <2>2 DEF Pairs
<1>5. ASSUME parse.pc = "lines",
             NEW pair \in PossiblePairs \cup {builder.entries[n] : n \in DOMAIN builder.entries}
      PROVE  IndexContains(builder.slots, builder.entries, pair.section, pair.key)
               <=> \E n \in DOMAIN builder.entries : SameKey(builder.entries[n], pair)
  <2>1. pair.section \in ConfigNames /\ pair.key \in ConfigNames
    <3>1. CASE pair \in PossiblePairs
      BY <3>1 DEF ConfigNames, PossiblePairs
    <3>2. CASE pair \in {builder.entries[n] : n \in DOMAIN builder.entries}
      <4>1. PICK n \in 1..count : pair = builder.entries[n]
        BY <1>3, <3>2
      <4>2. builder.entries[n] \in Entry
        BY <1>1, <1>2, ElementOfSeq
      <4> QED  BY <4>1, <4>2 DEF Entry
    <3> QED  BY <3>1, <3>2
  <2>3. PICK section \in ConfigNames, key \in ConfigNames :
          section = pair.section /\ key = pair.key
    BY <2>1
  <2>4. IndexContains(builder.slots, builder.entries, section, key)
          <=> \E n \in 1..count : builder.entries[n].section = section
                                  /\ builder.entries[n].key = key
    BY <1>2, <1>5, BuilderLookupIsExact
  <2> QED  BY <1>3, <2>3, <2>4 DEF SameKey
<1>6. ASSUME parse.pc = "end"
      PROVE  /\ blocks = Blocks(builder)
             /\ IF parse.status # "ok" THEN builder = NoBuilder
                ELSE /\ builder.entries = Pairs
                     /\ \A i, j \in DOMAIN Pairs : SameKey(Pairs[i], Pairs[j]) => i = j
                     /\ \A i \in DOMAIN Pairs :
                          ConfigGet(builder.entries, Pairs[i].section, Pairs[i].key) = {Pairs[i].value}
  <2>1. blocks = Blocks(builder) /\ (parse.status # "ok" => builder = NoBuilder)
    BY <1>6 DEF ConfigInv, EndInv
  <2>2. ASSUME parse.status = "ok"
        PROVE  /\ builder.entries = Pairs
               /\ \A i, j \in DOMAIN Pairs : SameKey(Pairs[i], Pairs[j]) => i = j
               /\ \A i \in DOMAIN Pairs :
                    ConfigGet(builder.entries, Pairs[i].section, Pairs[i].key) = {Pairs[i].value}
    <3>1. builder.entries = Pairs /\ KeysDiffer(builder.entries)
      BY <1>6, <2>2 DEF ConfigInv, EndInv, Pairs
    <3>2. \A i, j \in 1..count : SameKey(builder.entries[i], builder.entries[j]) => i = j
      BY <1>2, <3>1 DEF KeysDiffer
    <3>3. ASSUME NEW i \in 1..count
          PROVE  ConfigGet(builder.entries, builder.entries[i].section, builder.entries[i].key)
                   = {builder.entries[i].value}
      <4> DEFINE found == Found(builder.entries, builder.entries[i].section, builder.entries[i].key)
      <4>1. found = {i}
        BY <1>3, <3>2 DEF Found, SameKey
      <4>2. PICK first : first = CHOOSE n \in found : \A k \in found : n <= k
        OBVIOUS
      <4>3. ConfigGet(builder.entries, builder.entries[i].section, builder.entries[i].key)
              = {builder.entries[first].value}
        BY <4>1, <4>2 DEF ConfigGet
      <4> HIDE DEF found
      <4>4. i \in found /\ \A k \in found : i <= k
        BY <4>1
      <4>5. first \in found
        BY <4>2, <4>4
      <4>6. first = i
        BY <4>1, <4>5
      <4> QED  BY <4>3, <4>6
    <3> QED  BY <1>3, <3>1, <3>2, <3>3
  <2> QED  BY <2>1, <2>2
<1>7. parse.pc = "idle" => blocks = 0
  BY DEF ConfigInv, IdleInv
<1>8. parse.pc = "lines" =>
        \A pair \in PossiblePairs \cup {builder.entries[n] : n \in DOMAIN builder.entries} :
          IndexContains(builder.slots, builder.entries, pair.section, pair.key)
            <=> \E n \in DOMAIN builder.entries : SameKey(builder.entries[n], pair)
  BY <1>5
<1> QED  BY <1>4, <1>6, <1>7, <1>8 DEF ConfigIsExact

-----------------------------------------------------------------------------
(* The codec of saved games: what is stored is loaded, and what is loaded     *)
(* was stored, for every base and every width.                                *)

LEMMA WeightsUnroll ==
  ASSUME Base \in Nat \ {0, 1}
  PROVE  /\ Weight \in [0..8 -> Nat] /\ Weight[0] = 1
         /\ \A n \in 1..8 : Weight[n] = Base * Weight[n - 1]
<1> DEFINE WeightsOf(f) == f = [i \in 0..8 |-> IF i = 0 THEN 1 ELSE Base * f[i - 1]]
           G == [n \in 1..8 |-> [x \in Nat |-> Base * x]]
<1>1. G \in StepFunctions(Nat, 8)
  <2>1. \A x \in Nat : Base * x \in Nat
    OBVIOUS
  <2> QED  BY <2>1 DEF StepFunctions
<1>2. \A n \in 1..8 : \A x \in Nat : G[n][x] = Base * x
  OBVIOUS
<1> HIDE DEF G
<1>3. PICK f : Unrolls(f, Nat, 1, 8, G)
  <2>1. PICK one \in Nat, eight \in Nat : one = 1 /\ eight = 8
    OBVIOUS
  <2> QED  BY <1>1, <2>1, RecursionExists
<1>4. f \in [0..8 -> Nat] /\ f[0] = 1 /\ \A n \in 1..8 : f[n] = G[n][f[n - 1]]
  BY <1>3 DEF Unrolls
<1>5. ASSUME NEW n \in 0..8, n # 0 PROVE f[n] = Base * f[n - 1]
  <2>1. n \in 1..8 /\ n - 1 \in 0..8
    BY <1>5
  <2>2. f[n - 1] \in Nat
    BY <1>4, <2>1
  <2> QED  BY <1>2, <1>4, <2>1, <2>2
<1>6. WeightsOf(f)
  <2>1. f = [i \in 0..8 |-> f[i]]
    BY <1>4
  <2> QED  BY <1>4, <1>5, <2>1
<1>7. Weight = CHOOSE g : WeightsOf(g)
  BY DEF Weight
<1>8. WeightsOf(Weight)
  <2> HIDE DEF WeightsOf
  <2> QED  BY <1>6, <1>7
<1>9. Weight[0] = 1 /\ \A n \in 1..8 : Weight[n] = Base * Weight[n - 1]
  <2>1. \A i \in 0..8 : Weight[i] = IF i = 0 THEN 1 ELSE Base * Weight[i - 1]
    BY <1>8
  <2> QED  BY <2>1
<1>10. \A i \in 0..8 : Weight[i] = f[i]
  <2> DEFINE K == {n \in Nat : n <= 8 => Weight[n] = f[n]}
  <2>1. 0 \in K
    BY <1>4, <1>9
  <2>2. ASSUME NEW n \in Nat, n \in K PROVE n + 1 \in K
    <3>1. SUFFICES ASSUME n + 1 <= 8 PROVE Weight[n + 1] = f[n + 1]
      OBVIOUS
    <3>2. n + 1 \in 1..8 /\ n + 1 \in 0..8 /\ n + 1 # 0 /\ (n + 1) - 1 = n /\ n <= 8
      BY <3>1
    <3>3. Weight[n] = f[n]
      BY <2>2, <3>2
    <3>4. Weight[n + 1] = Base * Weight[n]
      BY <1>9, <3>2
    <3>5. f[n + 1] = Base * f[n]
      BY <1>5, <3>2
    <3> QED  BY <3>3, <3>4, <3>5
  <2> HIDE DEF K
  <2>3. \A n \in Nat : n \in K
    BY <2>1, <2>2, Induction
  <2> QED  BY <2>3 DEF K
<1>11. Weight = [i \in 0..8 |-> f[i]]
  <2>1. DOMAIN Weight = 0..8
    BY <1>8
  <2>2. Weight = [i \in 0..8 |-> Weight[i]]
    BY <1>8
  <2> QED  BY <1>10, <2>2
<1>12. Weight \in [0..8 -> Nat]
  BY <1>4, <1>11
<1> QED  BY <1>9, <1>12

LEMMA Weights ==
  ASSUME Base \in Nat \ {0, 1}
  PROVE  /\ \A i \in 0..8 : Weight[i] \in Nat \ {0}
         /\ Weight[0] = 1
         /\ \A n \in 0..7 : Weight[n + 1] = Base * Weight[n]
<1>1. /\ Weight \in [0..8 -> Nat] /\ Weight[0] = 1
      /\ \A n \in 1..8 : Weight[n] = Base * Weight[n - 1]
  BY WeightsUnroll
<1>2. ASSUME NEW n \in 0..7 PROVE Weight[n + 1] = Base * Weight[n]
  <2>1. n + 1 \in 1..8 /\ (n + 1) - 1 = n
    OBVIOUS
  <2> QED  BY <1>1, <2>1
<1> DEFINE K == {n \in Nat : n <= 8 => Weight[n] # 0}
<1>3. 0 \in K
  BY <1>1
<1>4. ASSUME NEW n \in Nat, n \in K PROVE n + 1 \in K
  <2>1. SUFFICES ASSUME n + 1 <= 8 PROVE Weight[n + 1] # 0
    OBVIOUS
  <2>2. n \in 0..7 /\ n \in 0..8 /\ n <= 8
    BY <2>1
  <2>3. PICK w \in Nat \ {0} : w = Weight[n]
    BY <1>1, <1>4, <2>2
  <2>4. PICK next \in Nat : next = Base * w
    OBVIOUS
  <2>5. next >= w
    <3>1. PICK k \in Nat : Base = k + 1
      <4>1. Base - 1 \in Nat /\ Base = (Base - 1) + 1
        OBVIOUS
      <4> QED  BY <4>1
    <3>2. Base * w = k * w + w
      BY <3>1
    <3>3. k * w \in Nat
      OBVIOUS
    <3> QED  BY <2>4, <3>2, <3>3
  <2> QED  BY <1>2, <2>2, <2>3, <2>4, <2>5
<1> HIDE DEF K
<1>5. \A n \in Nat : n \in K
  BY <1>3, <1>4, Induction
<1>6. \A i \in 0..8 : Weight[i] \in Nat \ {0}
  <2>1. ASSUME NEW i \in 0..8 PROVE Weight[i] \in Nat \ {0}
    BY <1>1, <1>5 DEF K
  <2> QED  BY <2>1
<1> QED  BY <1>1, <1>2, <1>6

LEMMA WeightsDivide ==
  ASSUME Base \in Nat \ {0, 1}, NEW i \in 0..8, NEW j \in i..8
  PROVE  \E k \in Nat : Weight[j] = k * Weight[i]
<1> DEFINE K == {n \in Nat : i + n <= 8 => \E k \in Nat : Weight[i + n] = k * Weight[i]}
<1>1. PICK w \in Nat \ {0} : w = Weight[i]
  BY Weights
<1>2. 0 \in K
  <2>1. i + 0 = i /\ 1 * w = w
    OBVIOUS
  <2> QED  BY <1>1, <2>1
<1>3. ASSUME NEW n \in Nat, n \in K PROVE n + 1 \in K
  <2>1. SUFFICES ASSUME i + (n + 1) <= 8 PROVE \E k \in Nat : Weight[i + (n + 1)] = k * Weight[i]
    OBVIOUS
  <2>2. PICK m \in 0..7 : m = i + n /\ m + 1 = i + (n + 1) /\ i + n <= 8
    <3>1. i + n \in 0..7
      BY <2>1
    <3> QED  BY <3>1
  <2>3. PICK k \in Nat : Weight[m] = k * w
    BY <1>1, <1>3, <2>2
  <2>4. Weight[m + 1] = Base * (k * w)
    BY <2>3, Weights
  <2>5. Base * (k * w) = (Base * k) * w
    OBVIOUS
  <2>6. Base * k \in Nat
    OBVIOUS
  <2> QED  BY <1>1, <2>2, <2>4, <2>5, <2>6
<1> HIDE DEF K
<1>4. \A n \in Nat : n \in K
  BY <1>2, <1>3, Induction
<1>5. j - i \in Nat /\ i + (j - i) = j /\ j <= 8
  OBVIOUS
<1> QED  BY <1>4, <1>5 DEF K

\* A byte more, above what there is.
LEMMA ByteAbove ==
  ASSUME NEW base \in Nat \ {0}, NEW w \in Nat \ {0}, NEW x \in 0..w - 1, NEW b \in 0..base - 1
  PROVE  x + (b * w) \in 0..(base * w) - 1
<1>1. PICK k \in Nat : base = (b + 1) + k
  <2>1. base - (b + 1) \in Nat /\ base = (b + 1) + (base - (b + 1))
    OBVIOUS
  <2> QED  BY <2>1
<1>2. base * w = (b * w + w) + k * w
  BY <1>1
<1>3. b * w \in Nat /\ k * w \in Nat
  OBVIOUS
<1> QED  BY <1>2, <1>3

DigitAt(v, w, base) == (v \div w) % base
Around(v, c, d, x, w, base) == v = (((c * base) + d) * w) + x

\* A digit is what the division and the remainder find.
LEMMA DigitIs ==
  ASSUME NEW base \in Nat \ {0}, NEW w \in Nat \ {0}, NEW c \in Nat, NEW d \in 0..base - 1,
         NEW x \in 0..w - 1, NEW v \in Nat, Around(v, c, d, x, w, base)
  PROVE  DigitAt(v, w, base) = d
<1>1. PICK a \in Nat : a = (c * base) + d
  <2>1. c * base \in Nat
    OBVIOUS
  <2> QED  BY <2>1
<1>2. v = (a * w) + x
  BY <1>1 DEF Around
<1>3. PICK q \in Nat, r \in 0..w - 1 : q = v \div w /\ v = q * w + r
  <2>1. v \div w \in Nat /\ v % w \in 0..w - 1 /\ v = (v \div w) * w + (v % w)
    BY Divided
  <2> QED  BY <2>1
<1>4. q = a
  BY <1>2, <1>3, Digits
<1>5. a % base = d
  BY <1>1, Wraps
<1>6. v \div w = a
  BY <1>3, <1>4
<1> QED  BY <1>5, <1>6 DEF DigitAt

SumBy(f, bytes, length) ==
  f = [i \in 0..length |-> IF i = 0 THEN 0 ELSE f[i - 1] + (bytes[i] * Weight[i - 1])]

LEMMA SumUnroll ==
  ASSUME Base \in Nat \ {0, 1}, NEW length \in 0..8, NEW bytes \in [1..length -> Byte],
         length = Len(bytes)
  PROVE  \E f : f \in [0..length -> Nat] /\ SumBy(f, bytes, length) /\ Loaded(bytes) = f[length]
<1> DEFINE Plus(n, x) == x + (bytes[n] * Weight[n - 1])
           G == [n \in 1..length |-> [x \in Nat |-> Plus(n, x)]]
<1>1. ASSUME NEW n \in 1..length PROVE bytes[n] \in Nat /\ Weight[n - 1] \in Nat
  <2>1. PICK k \in 0..8 : k = n - 1
    <3>1. n - 1 \in 0..8
      OBVIOUS
    <3> QED  BY <3>1
  <2>2. PICK b \in Byte : b = bytes[n]
    OBVIOUS
  <2>3. Weight[k] \in Nat
    BY <2>1, Weights
  <2>4. b \in Nat
    BY <2>2 DEF Byte
  <2> QED  BY <2>1, <2>2, <2>3, <2>4
<1>2. ASSUME NEW n \in 1..length, NEW x \in Nat PROVE Plus(n, x) \in Nat
  <2>1. PICK b \in Nat, w \in Nat : b = bytes[n] /\ w = Weight[n - 1]
    BY <1>1
  <2>2. b * w \in Nat
    OBVIOUS
  <2> QED  BY <2>1, <2>2
<1>3. G \in StepFunctions(Nat, length)
  <2> HIDE DEF Plus
  <2> QED  BY <1>2 DEF StepFunctions
<1>4. \A n \in 1..length : \A x \in Nat : G[n][x] = Plus(n, x)
  <2> HIDE DEF Plus
  <2> QED  OBVIOUS
<1> HIDE DEF G
<1>5. PICK f : Unrolls(f, Nat, 0, length, G)
  <2>1. PICK zero \in Nat, last \in Nat : zero = 0 /\ last = length
    <3>1. 0 \in Nat /\ length \in Nat
      OBVIOUS
    <3> QED  BY <3>1
  <2>2. G \in StepFunctions(Nat, last)
    BY <1>3, <2>1
  <2>3. \E f : Unrolls(f, Nat, zero, last, G)
    BY <2>2, RecursionExists
  <2> QED  BY <2>1, <2>3
<1>6. f \in [0..length -> Nat] /\ f[0] = 0 /\ \A n \in 1..length : f[n] = G[n][f[n - 1]]
  BY <1>5 DEF Unrolls
<1>7. ASSUME NEW n \in 0..length, n # 0 PROVE f[n] = Plus(n, f[n - 1])
  <2>1. n \in 1..length /\ n - 1 \in 0..length
    BY <1>7
  <2>2. f[n - 1] \in Nat
    BY <1>6, <2>1
  <2> HIDE DEF Plus
  <2> QED  BY <1>4, <1>6, <2>1, <2>2
<1>8. SumBy(f, bytes, length)
  <2>1. f = [i \in 0..length |-> f[i]]
    BY <1>6
  <2> QED  BY <1>6, <1>7, <2>1 DEF SumBy
<1>9. Loaded(bytes) = (CHOOSE g : SumBy(g, bytes, length))[length]
  BY DEF Loaded, SumBy
<1>10. PICK g : SumBy(g, bytes, length) /\ Loaded(bytes) = g[length]
  BY <1>8, <1>9
<1>11. g \in [0..length -> Nat]
  <2> DEFINE K == {n \in Nat : n <= length => g[n] \in Nat}
  <2>1. 0 \in K
    BY <1>10 DEF SumBy
  <2>2. ASSUME NEW n \in Nat, n \in K PROVE n + 1 \in K
    <3>1. SUFFICES ASSUME n + 1 <= length PROVE g[n + 1] \in Nat
      OBVIOUS
    <3>2. n + 1 \in 0..length /\ n + 1 \in 1..length /\ n + 1 # 0 /\ (n + 1) - 1 = n /\ n <= length
      BY <3>1
    <3>3. g[n] \in Nat
      BY <2>2, <3>2
    <3>4. g[n + 1] = Plus(n + 1, g[n])
      BY <1>10, <3>2 DEF SumBy
    <3> HIDE DEF Plus
    <3> QED  BY <1>2, <3>2, <3>3, <3>4
  <2> HIDE DEF K
  <2>3. \A n \in Nat : n \in K
    BY <2>1, <2>2, Induction
  <2>4. \A n \in 0..length : g[n] \in Nat
    BY <2>3 DEF K
  <2>5. g = [i \in 0..length |-> g[i]]
    BY <1>10 DEF SumBy
  <2> QED  BY <2>4, <2>5
<1> QED  BY <1>10, <1>11

\* What the bytes up to one add up to: the byte is a digit of the whole, at its weight.
LEMMA LoadedDigits ==
  ASSUME Base \in Nat \ {0, 1}, NEW length \in 0..8, NEW bytes \in [1..length -> Byte],
         length = Len(bytes)
  PROVE  /\ Loaded(bytes) \in 0..Weight[length] - 1
         /\ \A i \in 1..length : \E c \in Nat, x \in 0..Weight[i - 1] - 1 :
               Loaded(bytes) = (((c * Base) + bytes[i]) * Weight[i - 1]) + x
<1>1. PICK f : f \in [0..length -> Nat] /\ SumBy(f, bytes, length) /\ Loaded(bytes) = f[length]
  BY SumUnroll
<1>2. ASSUME NEW n \in Nat, n < length
      PROVE  /\ n \in 0..length /\ n + 1 \in 1..length /\ n \in 0..7 /\ n \in 0..8 /\ n + 1 \in 0..8
             /\ bytes[n + 1] \in 0..Base - 1 /\ f[n] \in Nat
             /\ f[n + 1] = f[n] + (bytes[n + 1] * Weight[n])
             /\ Weight[n + 1] = Base * Weight[n] /\ Weight[n] \in Nat \ {0}
  <2>1. /\ n \in 0..length /\ n + 1 \in 1..length /\ n \in 0..7 /\ n + 1 # 0
        /\ n \in 0..8 /\ n + 1 \in 0..8 /\ n + 1 \in 0..length /\ (n + 1) - 1 = n
    BY <1>2
  <2>2. bytes[n + 1] \in 0..Base - 1
    BY <2>1 DEF Byte
  <2>3. f[n + 1] = f[n] + (bytes[n + 1] * Weight[n])
    BY <1>1, <2>1 DEF SumBy
  <2>4. Weight[n + 1] = Base * Weight[n] /\ Weight[n] \in Nat \ {0}
    BY <2>1, Weights
  <2> QED  BY <1>1, <2>1, <2>2, <2>3, <2>4
<1>3. \A n \in 0..length : f[n] \in 0..Weight[n] - 1
  <2> DEFINE K == {n \in Nat : n <= length => f[n] \in 0..Weight[n] - 1}
  <2>1. 0 \in K
    <3>1. f[0] = 0 /\ Weight[0] = 1
      BY <1>1, Weights DEF SumBy
    <3> QED  BY <3>1
  <2>2. ASSUME NEW n \in Nat, n \in K PROVE n + 1 \in K
    <3>1. SUFFICES ASSUME n < length PROVE f[n + 1] \in 0..Weight[n + 1] - 1
      OBVIOUS
    <3>2. PICK w \in Nat \ {0}, b \in 0..Base - 1 : w = Weight[n] /\ b = bytes[n + 1]
      BY <1>2, <3>1
    <3>3. PICK x \in 0..w - 1 : x = f[n]
      BY <2>2, <3>1, <3>2
    <3>4. x + (b * w) \in 0..(Base * w) - 1
      BY ByteAbove
    <3>5. f[n + 1] = x + (b * w) /\ Weight[n + 1] = Base * w
      BY <1>2, <3>1, <3>2, <3>3
    <3> QED  BY <3>4, <3>5
  <2> HIDE DEF K
  <2>3. \A n \in Nat : n \in K
    BY <2>1, <2>2, Induction
  <2> QED  BY <2>3 DEF K
<1>4. ASSUME NEW i \in 1..length
      PROVE  \E c \in Nat, x \in 0..Weight[i - 1] - 1 :
               Loaded(bytes) = (((c * Base) + bytes[i]) * Weight[i - 1]) + x
  <2>1. PICK h \in Nat : i = h + 1 /\ h < length /\ i - 1 = h /\ h \in 0..length
    <3>1. i - 1 \in Nat /\ i = (i - 1) + 1 /\ i - 1 < length /\ i - 1 \in 0..length
      OBVIOUS
    <3> QED  BY <3>1
  <2>2. PICK w \in Nat \ {0}, b \in 0..Base - 1 : w = Weight[h] /\ b = bytes[i]
    BY <1>2, <2>1
  <2>3. PICK x \in 0..w - 1 : x = f[h]
    BY <1>3, <2>1, <2>2
  <2> DEFINE Digit(n) == \E c \in Nat : f[n] = (((c * Base) + b) * w) + x
             K == {n \in Nat : i + n <= length => Digit(i + n)}
  <2>4. 0 \in K
    <3>1. f[i] = x + (b * w)
      BY <1>2, <2>1, <2>2, <2>3
    <3>2. f[i] = (((0 * Base) + b) * w) + x
      <4>1. (0 * Base) + b = b
        OBVIOUS
      <4>2. b * w \in Nat
        OBVIOUS
      <4> QED  BY <3>1, <4>1, <4>2
    <3>3. i + 0 = i
      OBVIOUS
    <3> QED  BY <3>2, <3>3
  <2>5. ASSUME NEW n \in Nat, n \in K PROVE n + 1 \in K
    <3>1. SUFFICES ASSUME i + (n + 1) <= length PROVE Digit(i + (n + 1))
      OBVIOUS
    <3>2. PICK m \in Nat : m = i + n /\ m + 1 = i + (n + 1) /\ m < length /\ m \in i..8
      <4>1. i + n \in Nat /\ (i + n) + 1 = i + (n + 1) /\ i + n < length /\ i + n \in i..8
        BY <3>1
      <4> QED  BY <4>1
    <3>3. PICK c \in Nat : f[m] = (((c * Base) + b) * w) + x
      BY <2>5, <3>2
    <3>4. PICK k \in Nat : Weight[m] = k * (Base * w)
      <4>1. i \in 0..8 /\ Weight[i] = Base * w
        BY <1>2, <2>1, <2>2
      <4>2. \E k \in Nat : Weight[m] = k * Weight[i]
        BY <3>2, <4>1, WeightsDivide
      <4> QED  BY <4>1, <4>2
    <3>5. PICK d \in Nat : d = bytes[m + 1]
      BY <1>2, <3>2
    <3>6. f[m + 1] = f[m] + (d * (k * (Base * w)))
      BY <1>2, <3>2, <3>4, <3>5
    <3>7. PICK e \in Nat : e = d * k
      <4>1. d * k \in Nat
        OBVIOUS
      <4> QED  BY <4>1
    <3>8. d * (k * (Base * w)) = (e * Base) * w
      BY <3>7
    <3>9. (((c * Base) + b) * w) + x + ((e * Base) * w) = ((((c + e) * Base) + b) * w) + x
      OBVIOUS
    <3>10. f[m + 1] = ((((c + e) * Base) + b) * w) + x
      <4>1. ((c * Base) + b) * w \in Nat /\ (e * Base) * w \in Nat
        OBVIOUS
      <4> QED  BY <3>3, <3>6, <3>8, <3>9
    <3>11. c + e \in Nat
      OBVIOUS
    <3> QED  BY <3>2, <3>10, <3>11
  <2> HIDE DEF K, Digit
  <2>6. \A n \in Nat : n \in K
    BY <2>4, <2>5, Induction
  <2>7. Digit(length)
    <3>1. length - i \in Nat /\ i + (length - i) = length
      OBVIOUS
    <3> QED  BY <2>6, <3>1 DEF K
  <2> QED  BY <1>1, <2>1, <2>2, <2>3, <2>7 DEF Digit
<1>5. Loaded(bytes) \in 0..Weight[length] - 1
  BY <1>1, <1>3
<1> QED  BY <1>4, <1>5

\* What is loaded and stored again is what was there.
LEMMA StoredLoaded ==
  ASSUME Base \in Nat \ {0, 1}, NEW length \in 0..8, NEW bytes \in [1..length -> Byte],
         length = Len(bytes)
  PROVE  Stored(Loaded(bytes), length) = bytes
<1>1. ASSUME NEW i \in 1..length PROVE (Loaded(bytes) \div Weight[i - 1]) % Base = bytes[i]
  <2>1. PICK h \in 0..8 : h = i - 1
    <3>1. i - 1 \in 0..8
      OBVIOUS
    <3> QED  BY <3>1
  <2>2. PICK w \in Nat \ {0}, b \in 0..Base - 1 : w = Weight[h] /\ b = bytes[i]
    BY Weights DEF Byte
  <2>3. PICK c \in Nat, x \in 0..w - 1 : Loaded(bytes) = (((c * Base) + b) * w) + x
    <3>1. \E c \in Nat, x \in 0..Weight[i - 1] - 1 :
            Loaded(bytes) = (((c * Base) + bytes[i]) * Weight[i - 1]) + x
      BY LoadedDigits
    <3> QED  BY <2>1, <2>2, <3>1
  <2>4. PICK v \in Nat : v = Loaded(bytes)
    <3>1. Loaded(bytes) \in 0..Weight[length] - 1 /\ Weight[length] \in Nat
      BY LoadedDigits, Weights
    <3> QED  BY <3>1
  <2>5. PICK base \in Nat \ {0} : base = Base
    OBVIOUS
  <2>6. b \in 0..base - 1 /\ Around(v, c, b, x, w, base)
    BY <2>3, <2>4, <2>5 DEF Around
  <2>7. DigitAt(v, w, base) = b
    BY <2>6, DigitIs
  <2> QED  BY <2>1, <2>2, <2>4, <2>5, <2>7 DEF DigitAt
<1>2. bytes = [i \in 1..length |-> bytes[i]]
  OBVIOUS
<1> QED  BY <1>1, <1>2 DEF Stored

\* What is stored and loaded again is what was there, within the width.
LEMMA LoadedStored ==
  ASSUME Base \in Nat \ {0, 1}, NEW length \in 0..8, NEW v \in 0..Weight[length] - 1
  PROVE  Loaded(Stored(v, length)) = v
<1>1. PICK bytes : bytes = Stored(v, length)
  OBVIOUS
<1>2. v \in Nat
  BY Weights
<1>3. \A i \in 1..length : (v \div Weight[i - 1]) % Base \in Byte
  <2>1. ASSUME NEW i \in 1..length PROVE (v \div Weight[i - 1]) % Base \in Byte
    <3>1. PICK h \in 0..8 : h = i - 1
      <4>1. i - 1 \in 0..8
        OBVIOUS
      <4> QED  BY <4>1
    <3>2. PICK w \in Nat \ {0} : w = Weight[h]
      BY Weights
    <3>3. PICK q \in Nat : q = v \div w
      <4>1. v \div w \in Nat
        BY <1>2, Divided
      <4> QED  BY <4>1
    <3>4. q % Base \in 0..Base - 1
      BY Divided
    <3> QED  BY <3>1, <3>2, <3>3, <3>4 DEF Byte
  <2> QED  BY <2>1
<1>4. bytes = [i \in 1..length |-> (v \div Weight[i - 1]) % Base]
  BY <1>1 DEF Stored
<1>5. bytes \in [1..length -> Byte]
  BY <1>3, <1>4
<1>6. length = Len(bytes)
  BY <1>5
<1>7. PICK f : f \in [0..length -> Nat] /\ SumBy(f, bytes, length) /\ Loaded(bytes) = f[length]
  BY <1>5, <1>6, SumUnroll
<1> DEFINE Split(n) == \E q \in Nat : v = (q * Weight[n]) + f[n]
           K == {n \in Nat : n <= length => Split(n) /\ f[n] \in 0..Weight[n] - 1}
<1>8. 0 \in K
  <2>1. f[0] = 0 /\ Weight[0] = 1
    BY <1>7, Weights DEF SumBy
  <2>2. v = (v * 1) + 0
    BY <1>2
  <2> QED  BY <1>2, <2>1, <2>2
<1>9. ASSUME NEW n \in Nat, n \in K PROVE n + 1 \in K
  <2>1. SUFFICES ASSUME n < length
                 PROVE  Split(n + 1) /\ f[n + 1] \in 0..Weight[n + 1] - 1
    OBVIOUS
  <2>2. /\ n \in 0..length /\ n + 1 \in 1..length /\ n \in 0..7 /\ n \in 0..8
        /\ n + 1 # 0 /\ n + 1 \in 0..length /\ (n + 1) - 1 = n /\ n <= length
    BY <2>1
  <2>3. PICK w \in Nat \ {0} : w = Weight[n] /\ Weight[n + 1] = Base * w
    BY <2>2, Weights
  <2>4. PICK x \in 0..w - 1 : x = f[n]
    BY <1>9, <2>2, <2>3
  <2>5. PICK q \in Nat : v = (q * w) + x
    BY <1>9, <2>2, <2>3, <2>4
  <2>6. v \div w = q
    <3>1. PICK d \in Nat, r \in 0..w - 1 : d = v \div w /\ v = (d * w) + r
      <4>1. v \div w \in Nat /\ v % w \in 0..w - 1 /\ v = (v \div w) * w + (v % w)
        BY <1>2, Divided
      <4> QED  BY <4>1
    <3>2. d = q
      BY <2>5, <3>1, Digits
    <3> QED  BY <3>1, <3>2
  <2>7. PICK e \in Nat, b \in 0..Base - 1 : b = q % Base /\ q = (e * Base) + b
    <3>1. q \div Base \in Nat /\ q % Base \in 0..Base - 1 /\ q = (q \div Base) * Base + (q % Base)
      BY Divided
    <3> QED  BY <3>1
  <2>8. bytes[n + 1] = b
    <3>1. bytes[n + 1] = (v \div Weight[n]) % Base
      BY <1>4, <2>2
    <3> QED  BY <2>3, <2>6, <2>7, <3>1
  <2>9. f[n + 1] = x + (b * w)
    <3>1. f[n + 1] = f[n] + (bytes[n + 1] * Weight[n])
      BY <1>7, <2>2 DEF SumBy
    <3> QED  BY <2>3, <2>4, <2>8, <3>1
  <2>10. f[n + 1] \in 0..Weight[n + 1] - 1
    <3>1. x + (b * w) \in 0..(Base * w) - 1
      BY ByteAbove
    <3> QED  BY <2>3, <2>9, <3>1
  <2>11. v = (e * (Base * w)) + (x + (b * w))
    <3>1. ((e * Base) + b) * w = (e * (Base * w)) + (b * w)
      OBVIOUS
    <3>2. e * (Base * w) \in Nat /\ b * w \in Nat
      OBVIOUS
    <3> QED  BY <2>5, <2>7, <3>1, <3>2
  <2> QED  BY <2>3, <2>9, <2>10, <2>11
<1> HIDE DEF K, Split
<1>10. \A n \in Nat : n \in K
  BY <1>8, <1>9, Induction
<1>11. PICK w \in Nat \ {0} : w = Weight[length]
  BY Weights
<1>12. PICK q \in Nat, x \in 0..w - 1 : v = (q * w) + x /\ x = f[length]
  <2>1. Split(length) /\ f[length] \in 0..Weight[length] - 1
    BY <1>10 DEF K
  <2> QED  BY <1>11, <2>1 DEF Split
<1>13. v = (0 * w) + v /\ v \in 0..w - 1
  BY <1>2, <1>11
<1>14. v = x
  <2>1. PICK zero \in Nat : zero = 0
    OBVIOUS
  <2>2. (q * w) + x = (zero * w) + v
    BY <1>12, <1>13, <2>1
  <2> QED  BY <1>13, <2>2, Digits
<1> QED  BY <1>1, <1>7, <1>12, <1>14

\* A signed value and its bits tell each other.
LEMMA SignedTells ==
  ASSUME NEW width \in 0..8, Values(width) \in Nat \ {0}
  PROVE  LET V == Values(width)  H == Values(width) \div 2
         IN /\ \A value \in H - V..H - 1 :
                 /\ SignedBits(value, width) \in 0..V - 1
                 /\ SignedValue(SignedBits(value, width), width) = value
            /\ \A bits \in 0..V - 1 :
                 /\ SignedValue(bits, width) \in H - V..H - 1
                 /\ SignedBits(SignedValue(bits, width), width) = bits
<1>1. PICK V \in Nat \ {0} : V = Values(width)
  OBVIOUS
<1>2. PICK H \in Nat : H = Values(width) \div 2 /\ (V = 2 * H \/ V = (2 * H) + 1)
  <2>1. PICK two \in Nat \ {0} : two = 2
    OBVIOUS
  <2>2. V \div two \in Nat /\ V % two \in 0..two - 1 /\ V = (V \div two) * two + (V % two)
    BY Divided
  <2>3. PICK q \in Nat, r \in 0..1 : q = V \div two /\ V = q * two + r
    BY <2>1, <2>2
  <2> QED  BY <1>1, <2>1, <2>3
<1>3. ASSUME NEW value \in H - V..H - 1
      PROVE  /\ SignedBits(value, width) \in 0..V - 1
             /\ SignedValue(SignedBits(value, width), width) = value
  <2>1. PICK bits : bits = SignedBits(value, width)
    OBVIOUS
  <2>2. bits = IF value >= 0 THEN value ELSE ((V - 1) - (-value)) + 1
    BY <1>1, <2>1 DEF SignedBits
  <2>3. bits \in 0..V - 1 /\ (IF bits < H THEN bits ELSE -(((V - 1) - bits) + 1)) = value
    BY <1>2, <2>2
  <2> QED  BY <1>1, <1>2, <2>1, <2>3 DEF SignedValue
<1>4. ASSUME NEW bits \in 0..V - 1
      PROVE  /\ SignedValue(bits, width) \in H - V..H - 1
             /\ SignedBits(SignedValue(bits, width), width) = bits
  <2>1. PICK value : value = SignedValue(bits, width)
    OBVIOUS
  <2>2. value = IF bits < H THEN bits ELSE -(((V - 1) - bits) + 1)
    BY <1>1, <1>2, <2>1 DEF SignedValue
  <2>3. value \in H - V..H - 1 /\ (IF value >= 0 THEN value ELSE ((V - 1) - (-value)) + 1) = bits
    BY <1>2, <2>2
  <2> QED  BY <1>1, <2>1, <2>3 DEF SignedBits
<1> QED  BY <1>1, <1>2, <1>3, <1>4

LEMMA StoredIs ==
  ASSUME Base \in Nat \ {0, 1}, NEW length \in 0..8, NEW v \in Nat
  PROVE  /\ Stored(v, length) \in [1..length -> Byte]
         /\ Stored(v, length) \in Seq(Byte) /\ Len(Stored(v, length)) = length
<1>1. \A i \in 1..length : (v \div Weight[i - 1]) % Base \in Byte
  <2>1. ASSUME NEW i \in 1..length PROVE (v \div Weight[i - 1]) % Base \in Byte
    <3>1. PICK h \in 0..8 : h = i - 1
      <4>1. i - 1 \in 0..8
        OBVIOUS
      <4> QED  BY <4>1
    <3>2. PICK w \in Nat \ {0} : w = Weight[h]
      BY Weights
    <3>3. PICK q \in Nat : q = v \div w
      <4>1. v \div w \in Nat
        BY Divided
      <4> QED  BY <4>1
    <3>4. q % Base \in 0..Base - 1
      BY Divided
    <3> QED  BY <3>1, <3>2, <3>3, <3>4 DEF Byte
  <2> QED  BY <2>1
<1>2. PICK bytes : bytes = Stored(v, length)
  OBVIOUS
<1>3. bytes \in [1..length -> Byte]
  BY <1>1, <1>2 DEF Stored
<1>4. bytes \in Seq(Byte) /\ Len(bytes) = length
  <2>1. length \in Nat
    OBVIOUS
  <2> QED  BY <1>3, <2>1
<1> QED  BY <1>2, <1>3, <1>4

\* The two sizes that a type may have.
SizeOf(type, length) ==
  IF type = "bytes" THEN length ELSE IF type = "string" THEN 4 + length ELSE Width(type)

Whole(type, number) == [type |-> type, value |-> <<number>>]

LEMMA ItemKinds ==
  ASSUME NEW item \in ValidItems
  PROVE  \/ /\ item.type \in Number
            /\ \E v \in Numbers(item.type) : item = Whole(item.type, v)
         \/ item.type = "bytes" /\ item.value \in Seq(Byte) /\ item = [type |-> "bytes", value |-> item.value]
         \/ /\ item.type = "string" /\ item.value \in Seq(Byte) /\ Len(item.value) < Values(4)
            /\ item = [type |-> "string", value |-> item.value]
<1>1. CASE item \in NumberItems
  <2>1. PICK type \in Number : item \in [type : {type}, value : {<<v>> : v \in Numbers(type)}]
    BY <1>1 DEF NumberItems
  <2>2. item = [type |-> type, value |-> item.value] /\ item.value \in {<<v>> : v \in Numbers(type)}
        /\ item.type = type
    BY <2>1
  <2> QED  BY <2>2 DEF Whole
<1>2. CASE item \in [type : {"bytes"}, value : Seq(Byte)]
  BY <1>2
<1>3. CASE item \in [type : {"string"}, value : Texts]
  <2>1. item = [type |-> "string", value |-> item.value] /\ item.value \in Texts /\ item.type = "string"
    BY <1>3
  <2>2. item.value \in Seq(Byte) /\ Len(item.value) < Values(4)
    BY <2>1 DEF Texts
  <2> QED  BY <2>1, <2>2
<1> QED  BY <1>1, <1>2, <1>3 DEF ValidItems

LEMMA Kinds ==
  /\ \A type \in Number : type # "bytes" /\ type # "string" /\ Width(type) \in 0..8 /\ Width(type) > 0
  /\ Signed \subseteq Number
BY DEF Number, Signed, Width

\* What a number's type holds has the bits of its width.
LEMMA NumberBits ==
  ASSUME Base \in Nat \ {0, 1}, NEW type \in Number, NEW v \in Numbers(type)
  PROVE  \E bits \in 0..Weight[Width(type)] - 1 :
           /\ Encoded(Whole(type, v)) = Stored(bits, Width(type))
           /\ v = IF type \in Signed THEN SignedValue(bits, Width(type)) ELSE bits
<1>1. PICK width \in 0..8 : width = Width(type)
  BY Kinds
<1>2. Values(width) = Weight[width] /\ Weight[width] \in Nat \ {0}
  BY Weights DEF Values
<1>3. type # "bytes" /\ type # "string"
  BY Kinds
<1>4. PICK item : item = Whole(type, v) /\ item.type = type /\ item.value[1] = v
  <2>1. Whole(type, v).type = type /\ Whole(type, v).value = <<v>>
    BY DEF Whole
  <2>2. <<v>>[1] = v
    OBVIOUS
  <2> QED  BY <2>1, <2>2
<1>5. CASE type \in Signed
  <2>1. v \in (Values(width) \div 2) - Values(width)..(Values(width) \div 2) - 1
    BY <1>1, <1>5 DEF Numbers
  <2>2. SignedBits(v, width) \in 0..Values(width) - 1 /\ SignedValue(SignedBits(v, width), width) = v
    BY <1>2, <2>1, SignedTells
  <2>3. Encoded(item) = Stored(SignedBits(v, width), width)
    BY <1>1, <1>3, <1>4, <1>5 DEF Encoded
  <2> QED  BY <1>1, <1>2, <1>4, <1>5, <2>2, <2>3
<1>6. CASE type \notin Signed
  <2>1. v \in 0..Values(width) - 1
    BY <1>1, <1>6 DEF Numbers
  <2>2. Encoded(item) = Stored(v, width)
    BY <1>1, <1>3, <1>4, <1>6 DEF Encoded
  <2> QED  BY <1>1, <1>2, <1>4, <1>6, <2>1, <2>2
<1> QED  BY <1>5, <1>6

LEMMA EncodedIs ==
  ASSUME Base \in Nat \ {0, 1}, NEW item \in ValidItems
  PROVE  /\ Encoded(item) \in Seq(Byte) /\ Len(item.value) \in Nat
         /\ Len(Encoded(item)) = SizeOf(item.type, Len(item.value))
<1>1. CASE item.type \in Number /\ \E v \in Numbers(item.type) : item = Whole(item.type, v)
  <2>0. PICK type \in Number : item.type = type
    BY <1>1
  <2>1. PICK v \in Numbers(type) : item.type = type /\ item = Whole(type, v)
    BY <1>1, <2>0
  <2>2. PICK width \in 0..8 : width = Width(type)
    BY Kinds
  <2>3. PICK bits \in 0..Weight[width] - 1 : Encoded(item) = Stored(bits, width)
    BY <2>1, <2>2, NumberBits
  <2>4. bits \in Nat
    BY Weights
  <2>5. Encoded(item) \in Seq(Byte) /\ Len(Encoded(item)) = width
    <3>1. Stored(bits, width) \in Seq(Byte) /\ Len(Stored(bits, width)) = width
      BY <2>4, StoredIs
    <3> QED  BY <2>3, <3>1
  <2>6. SizeOf(type, Len(item.value)) = width
    BY <2>1, <2>2, Kinds DEF SizeOf
  <2>7. item.value = <<v>>
    BY <2>1 DEF Whole
  <2>8. Len(item.value) = 1
    BY <2>7
  <2> QED  BY <2>1, <2>5, <2>6, <2>8
<1>2. CASE item.type = "bytes" /\ item.value \in Seq(Byte)
  <2>1. Encoded(item) = item.value
    BY <1>2 DEF Encoded
  <2> QED  BY <1>2, <2>1, LenProperties DEF SizeOf
<1>3. CASE item.type = "string" /\ item.value \in Seq(Byte)
  <2>1. PICK n \in Nat : n = Len(item.value)
    BY <1>3, LenProperties
  <2>2. PICK four \in 0..8 : four = 4
    OBVIOUS
  <2>3. PICK head : head = Stored(n, four)
    OBVIOUS
  <2>4. head \in Seq(Byte) /\ Len(head) = 4
    BY <2>2, <2>3, StoredIs
  <2>5. Encoded(item) = head \o item.value
    BY <1>3, <2>1, <2>2, <2>3 DEF Encoded
  <2>6. PICK all : all = head \o item.value
    OBVIOUS
  <2>7. all \in Seq(Byte) /\ Len(all) = 4 + n
    <3>1. PICK tail \in Seq(Byte) : tail = item.value
      BY <1>3
    <3>2. head \o tail \in Seq(Byte) /\ Len(head \o tail) = Len(head) + Len(tail)
      BY <2>4, ConcatProperties
    <3> QED  BY <2>1, <2>4, <2>6, <3>1, <3>2
  <2> QED  BY <1>3, <2>1, <2>5, <2>6, <2>7 DEF SizeOf
<1> QED  BY <1>1, <1>2, <1>3, ItemKinds

\* Items of one type and one length with the same bytes are the same.
LEMMA EncodedTells ==
  ASSUME Base \in Nat \ {0, 1}, NEW a \in ValidItems, NEW b \in ValidItems,
         a.type = b.type, Len(a.value) = Len(b.value), Encoded(a) = Encoded(b)
  PROVE  a = b
<1>1. CASE a.type \in Number
  <2>1. PICK type \in Number : a.type = type /\ b.type = type /\ type # "bytes" /\ type # "string"
    BY <1>1, Kinds
  <2>2. PICK v \in Numbers(type), w \in Numbers(type) : a = Whole(type, v) /\ b = Whole(type, w)
    BY <2>1, ItemKinds
  <2>3. PICK width \in 0..8 : width = Width(type)
    BY Kinds
  <2>4. PICK x \in 0..Weight[width] - 1 :
          /\ Encoded(a) = Stored(x, width)
          /\ v = IF type \in Signed THEN SignedValue(x, width) ELSE x
    BY <2>2, <2>3, NumberBits
  <2>5. PICK y \in 0..Weight[width] - 1 :
          /\ Encoded(b) = Stored(y, width)
          /\ w = IF type \in Signed THEN SignedValue(y, width) ELSE y
    BY <2>2, <2>3, NumberBits
  <2>6. x = y
    <3>1. Loaded(Stored(x, width)) = x /\ Loaded(Stored(y, width)) = y
      BY LoadedStored
    <3> QED  BY <2>4, <2>5, <3>1
  <2> QED  BY <2>2, <2>4, <2>5, <2>6
<1>2. CASE a.type = "bytes"
  <2>1. a = [type |-> "bytes", value |-> a.value] /\ b = [type |-> "bytes", value |-> b.value]
    BY <1>2, ItemKinds, Kinds
  <2>2. Encoded(a) = a.value /\ Encoded(b) = b.value
    BY <1>2 DEF Encoded
  <2> QED  BY <2>1, <2>2
<1>3. CASE a.type = "string"
  <2>1. /\ a = [type |-> "string", value |-> a.value] /\ b = [type |-> "string", value |-> b.value]
        /\ a.value \in Seq(Byte) /\ b.value \in Seq(Byte)
    BY <1>3, ItemKinds, Kinds
  <2>2. PICK n \in Nat : n = Len(a.value) /\ n = Len(b.value)
    BY <2>1, LenProperties
  <2>3. PICK four \in 0..8 : four = 4
    OBVIOUS
  <2>4. PICK head : head = Stored(n, four)
    OBVIOUS
  <2>5. head \in Seq(Byte)
    BY <2>4, StoredIs
  <2>6. Encoded(a) = head \o a.value /\ Encoded(b) = head \o b.value
    BY <1>3, <2>2, <2>3, <2>4 DEF Encoded
  <2>7. PICK s \in Seq(Byte), t \in Seq(Byte) : s = a.value /\ t = b.value
    BY <2>1
  <2>8. s = t
    <3>1. PICK k \in Nat : k = Len(head)
      BY <2>5, LenProperties
    <3>2. Len(s) = n /\ Len(t) = n /\ head \o s = head \o t
      BY <2>2, <2>6, <2>7
    <3>3. /\ \A i \in 1..k + n : (head \o s)[i] = IF i <= k THEN head[i] ELSE s[i - k]
          /\ \A i \in 1..k + n : (head \o t)[i] = IF i <= k THEN head[i] ELSE t[i - k]
      BY <2>5, <3>1, <3>2, ConcatProperties
    <3>4. ASSUME NEW i \in 1..n PROVE s[i] = t[i]
      <4>1. k + i \in 1..k + n /\ ~(k + i <= k) /\ (k + i) - k = i
        OBVIOUS
      <4> QED  BY <3>2, <3>3, <4>1
    <3> QED  BY <3>2, <3>4, SeqEqual
  <2> QED  BY <2>1, <2>7, <2>8
<1> QED  BY <1>1, <1>2, <1>3, ItemKinds

-----------------------------------------------------------------------------
(* The encoding of all items.                                                *)

EncodedBy(f, items, length) ==
  f = [n \in 0..length |-> IF n = 0 THEN <<>> ELSE f[n - 1] \o Encoded(items[n])]

LEMMA AllUnroll ==
  ASSUME Base \in Nat \ {0, 1}, NEW items \in Seq(ValidItems), NEW length \in Nat,
         length = Len(items)
  PROVE  \E f : EncodedBy(f, items, length) /\ AllEncoded(items) = f[length]
<1> DEFINE T == Seq(Byte)
           With(n, s) == s \o Encoded(items[n])
           G == [n \in 1..length |-> [s \in T |-> With(n, s)]]
<1>1. \E f : EncodedBy(f, items, length)
  <2>1. ASSUME NEW n \in 1..length, NEW s \in T PROVE With(n, s) \in T
    <3>1. PICK item \in ValidItems : item = items[n]
      <4>1. items[n] \in ValidItems
        BY ElementOfSeq
      <4> QED  BY <4>1
    <3>2. PICK bytes \in Seq(Byte) : bytes = Encoded(item)
      BY EncodedIs
    <3>3. s \o bytes \in Seq(Byte)
      BY ConcatProperties
    <3> QED  BY <3>1, <3>2, <3>3
  <2>2. G \in [1..length -> [T -> T]]
    <3> HIDE DEF T, With
    <3> QED  BY <2>1
  <2>3. \A n \in 1..length : \A s \in T : G[n][s] = With(n, s)
    <3> HIDE DEF T, With
    <3> QED  OBVIOUS
  <2>4. <<>> \in T
    OBVIOUS
  <2> HIDE DEF G, T
  <2>5. PICK f : Unrolls(f, T, <<>>, length, G)
    <3>1. G \in StepFunctions(T, length)
      BY <2>2 DEF StepFunctions
    <3> QED  BY <2>4, <3>1, RecursionExists
  <2>6. /\ f \in [0..length -> T]
        /\ f[0] = <<>> /\ \A n \in 1..length : f[n] = G[n][f[n - 1]]
    BY <2>5 DEF Unrolls
  <2>7. ASSUME NEW n \in 0..length, n # 0 PROVE f[n] = With(n, f[n - 1])
    <3>1. n \in 1..length /\ n - 1 \in 0..length
      BY <2>7
    <3>2. f[n - 1] \in T
      BY <2>6, <3>1
    <3> HIDE DEF With
    <3> QED  BY <2>3, <2>6, <3>1, <3>2
  <2>8. f = [n \in 0..length |-> f[n]]
    BY <2>6
  <2>9. EncodedBy(f, items, length)
    BY <2>6, <2>7, <2>8 DEF EncodedBy
  <2> QED  BY <2>9
<1>2. AllEncoded(items) = (CHOOSE f : EncodedBy(f, items, length))[length]
  BY DEF AllEncoded, EncodedBy
<1> QED  BY <1>1, <1>2

EncodedSteps(f, items, length) ==
  /\ f[0] = <<>>
  /\ \A n \in Nat : n <= length => f[n] \in Seq(Byte)
  /\ \A n \in Nat : n < length =>
        /\ items[n + 1] \in ValidItems /\ Encoded(items[n + 1]) \in Seq(Byte)
        /\ f[n + 1] = f[n] \o Encoded(items[n + 1])

LEMMA AllSteps ==
  ASSUME Base \in Nat \ {0, 1}, NEW items \in Seq(ValidItems), NEW length \in Nat,
         length = Len(items), NEW f, EncodedBy(f, items, length)
  PROVE  EncodedSteps(f, items, length)
<1>1. f[0] = <<>>
  BY DEF EncodedBy
<1>2. ASSUME NEW n \in Nat, n < length
      PROVE  /\ items[n + 1] \in ValidItems /\ Encoded(items[n + 1]) \in Seq(Byte)
             /\ f[n + 1] = f[n] \o Encoded(items[n + 1])
  <2>1. n + 1 \in 0..length /\ n + 1 \in 1..length /\ n + 1 # 0 /\ (n + 1) - 1 = n
    BY <1>2
  <2>2. items[n + 1] \in ValidItems
    BY <2>1, ElementOfSeq
  <2>3. Encoded(items[n + 1]) \in Seq(Byte)
    BY <2>2, EncodedIs
  <2>4. f[n + 1] = f[n] \o Encoded(items[n + 1])
    BY <2>1 DEF EncodedBy
  <2> QED  BY <2>2, <2>3, <2>4
<1> DEFINE K == {n \in Nat : n <= length => f[n] \in Seq(Byte)}
<1>3. 0 \in K
  <2>1. <<>> \in Seq(Byte)
    BY EmptySeq
  <2> QED  BY <1>1, <2>1
<1>4. ASSUME NEW n \in Nat, n \in K PROVE n + 1 \in K
  <2>1. SUFFICES ASSUME n < length PROVE f[n + 1] \in Seq(Byte)
    OBVIOUS
  <2>2. PICK head \in Seq(Byte), tail \in Seq(Byte) : head = f[n] /\ tail = Encoded(items[n + 1])
    <3>1. f[n] \in Seq(Byte)
      BY <1>4, <2>1
    <3>2. Encoded(items[n + 1]) \in Seq(Byte)
      BY <1>2, <2>1
    <3> QED  BY <3>1, <3>2
  <2>3. head \o tail \in Seq(Byte)
    BY ConcatProperties
  <2> QED  BY <1>2, <2>1, <2>2, <2>3
<1> HIDE DEF K
<1>5. \A n \in Nat : n \in K
  BY <1>3, <1>4, Induction
<1> QED  BY <1>1, <1>2, <1>5 DEF K, EncodedSteps

LEMMA AllTyped ==
  ASSUME Base \in Nat \ {0, 1}, NEW items \in Seq(ValidItems)
  PROVE  AllEncoded(items) \in Seq(Byte)
<1>1. PICK length \in Nat : length = Len(items)
  BY LenProperties
<1>2. PICK f : EncodedBy(f, items, length) /\ AllEncoded(items) = f[length]
  BY <1>1, AllUnroll
<1>3. EncodedSteps(f, items, length)
  BY <1>1, <1>2, AllSteps
<1> QED  BY <1>2, <1>3 DEF EncodedSteps

LEMMA AllOfNothing == AllEncoded(<<>>) = <<>>
<1>1. PICK none \in Nat : none = 0
  OBVIOUS
<1>2. AllEncoded(<<>>) = (CHOOSE f : EncodedBy(f, <<>>, none))[none]
  BY <1>1 DEF AllEncoded, EncodedBy
<1>3. EncodedBy([n \in 0..none |-> <<>>], <<>>, none)
  BY <1>1 DEF EncodedBy
<1>4. PICK f : EncodedBy(f, <<>>, none) /\ AllEncoded(<<>>) = f[none]
  BY <1>2, <1>3
<1> QED  BY <1>1, <1>4 DEF EncodedBy

\* An item more adds its bytes.
LEMMA AllGrows ==
  ASSUME Base \in Nat \ {0, 1}, NEW items \in Seq(ValidItems), NEW item \in ValidItems
  PROVE  /\ AllEncoded(items) \in Seq(Byte) /\ Encoded(item) \in Seq(Byte)
         /\ Append(items, item) \in Seq(ValidItems)
         /\ AllEncoded(Append(items, item)) = AllEncoded(items) \o Encoded(item)
<1>1. PICK length \in Nat : length = Len(items)
  BY LenProperties
<1>2. PICK more \in Seq(ValidItems) : more = Append(items, item)
  <2>1. Append(items, item) \in Seq(ValidItems)
    OBVIOUS
  <2> QED  BY <2>1
<1>3. PICK size \in Nat : size = length + 1
  OBVIOUS
<1>4. Len(more) = size /\ more[size] = item /\ \A j \in 1..length : more[j] = items[j]
  BY <1>1, <1>2, <1>3
<1>5. PICK f : EncodedBy(f, items, length) /\ AllEncoded(items) = f[length]
  BY <1>1, AllUnroll
<1>6. PICK g : EncodedBy(g, more, size) /\ AllEncoded(more) = g[size]
  BY <1>4, AllUnroll
<1>7. /\ f[0] = <<>> /\ \A n \in Nat : n <= length => f[n] \in Seq(Byte)
      /\ \A n \in Nat : n < length => f[n + 1] = f[n] \o Encoded(items[n + 1])
  <2>1. EncodedSteps(f, items, length)
    BY <1>1, <1>5, AllSteps
  <2> QED  BY <2>1 DEF EncodedSteps
<1>8. /\ g[0] = <<>>
      /\ \A n \in Nat : n < size => g[n + 1] = g[n] \o Encoded(more[n + 1])
  <2>1. EncodedSteps(g, more, size)
    BY <1>4, <1>6, AllSteps
  <2> QED  BY <2>1 DEF EncodedSteps
<1> DEFINE K == {n \in Nat : n <= length => g[n] = f[n]}
<1>9. 0 \in K
  BY <1>7, <1>8
<1>10. ASSUME NEW n \in Nat, n \in K PROVE n + 1 \in K
  <2>1. SUFFICES ASSUME n < length PROVE g[n + 1] = f[n + 1]
    OBVIOUS
  <2>2. n < size /\ n + 1 \in 1..length
    BY <1>3, <2>1
  <2>3. g[n] = f[n]
    BY <1>10, <2>1
  <2> QED  BY <1>4, <1>7, <1>8, <2>1, <2>2, <2>3
<1> HIDE DEF K
<1>11. g[length] = f[length]
  <2>1. \A n \in Nat : n \in K
    BY <1>9, <1>10, Induction
  <2> QED  BY <2>1 DEF K
<1>12. g[size] = g[length] \o Encoded(item)
  <2>1. length < size /\ length + 1 = size
    BY <1>3
  <2>2. g[length + 1] = g[length] \o Encoded(more[length + 1])
    BY <1>8, <2>1
  <2> QED  BY <1>4, <2>1, <2>2
<1>13. Encoded(item) \in Seq(Byte)
  BY EncodedIs
<1> QED  BY <1>2, <1>5, <1>6, <1>7, <1>11, <1>12, <1>13

Heads(p, q) == Len(p) <= Len(q) /\ \A k \in 1..Len(p) : p[k] = q[k]

LEMMA HeadsGrow ==
  ASSUME NEW S, NEW p \in Seq(S), NEW r \in Seq(S)
  PROVE  Heads(p, p \o r)
<1>1. PICK n \in Nat, m \in Nat : n = Len(p) /\ m = Len(r)
  BY LenProperties
<1>2. Len(p \o r) = n + m /\ \A i \in 1..n + m : (p \o r)[i] = IF i <= n THEN p[i] ELSE r[i - n]
  BY <1>1, ConcatProperties
<1>3. ASSUME NEW k \in 1..n PROVE p[k] = (p \o r)[k]
  <2>1. k \in 1..n + m /\ k <= n
    OBVIOUS
  <2> QED  BY <1>2, <2>1
<1> QED  BY <1>1, <1>2, <1>3 DEF Heads

LEMMA HeadsFollow ==
  ASSUME NEW S, NEW p \in Seq(S), NEW q \in Seq(S), NEW r \in Seq(S), Heads(p, q), Heads(q, r)
  PROVE  Heads(p, r)
<1>1. PICK n \in Nat, m \in Nat, l \in Nat : n = Len(p) /\ m = Len(q) /\ l = Len(r)
  BY LenProperties
<1>2. n <= m /\ m <= l /\ (\A k \in 1..n : p[k] = q[k]) /\ (\A k \in 1..m : q[k] = r[k])
  BY <1>1 DEF Heads
<1>3. ASSUME NEW k \in 1..n PROVE p[k] = r[k]
  <2>1. k \in 1..m
    BY <1>2
  <2> QED  BY <1>2, <2>1
<1> QED  BY <1>1, <1>2, <1>3 DEF Heads

\* What follows the same bytes is the same, if it is as long.
LEMMA HeadsTell ==
  ASSUME NEW S, NEW p \in Seq(S), NEW a \in Seq(S), NEW b \in Seq(S), NEW q \in Seq(S),
         Len(a) = Len(b), Heads(p \o a, q), Heads(p \o b, q)
  PROVE  a = b
<1>1. PICK n \in Nat, m \in Nat : n = Len(p) /\ m = Len(a) /\ m = Len(b)
  BY LenProperties
<1>2. /\ Len(p \o a) = n + m /\ \A i \in 1..n + m : (p \o a)[i] = IF i <= n THEN p[i] ELSE a[i - n]
      /\ Len(p \o b) = n + m /\ \A i \in 1..n + m : (p \o b)[i] = IF i <= n THEN p[i] ELSE b[i - n]
  <2>1. Len(p \o a) = n + m /\ \A i \in 1..n + m : (p \o a)[i] = IF i <= n THEN p[i] ELSE a[i - n]
    <3>1. /\ Len(p \o a) = Len(p) + Len(a)
          /\ \A i \in 1..Len(p) + Len(a) :
               (p \o a)[i] = IF i <= Len(p) THEN p[i] ELSE a[i - Len(p)]
      BY ConcatProperties
    <3> QED  BY <1>1, <3>1
  <2>2. Len(p \o b) = n + m /\ \A i \in 1..n + m : (p \o b)[i] = IF i <= n THEN p[i] ELSE b[i - n]
    <3>1. /\ Len(p \o b) = Len(p) + Len(b)
          /\ \A i \in 1..Len(p) + Len(b) :
               (p \o b)[i] = IF i <= Len(p) THEN p[i] ELSE b[i - Len(p)]
      BY ConcatProperties
    <3> QED  BY <1>1, <3>1
  <2> QED  BY <2>1, <2>2
<1>3. ASSUME NEW k \in 1..m PROVE a[k] = b[k]
  <2>1. n + k \in 1..n + m /\ ~(n + k <= n) /\ (n + k) - n = k
    OBVIOUS
  <2>2. (p \o a)[n + k] = a[k] /\ (p \o b)[n + k] = b[k]
    BY <1>2, <2>1
  <2>3. (p \o a)[n + k] = q[n + k] /\ (p \o b)[n + k] = q[n + k]
    BY <1>2, <2>1 DEF Heads
  <2> QED  BY <2>2, <2>3
<1> QED  BY <1>1, <1>3, SeqEqual

\* The parts of an encoding come before the whole of it.
LEMMA EncodedHeads ==
  ASSUME NEW length \in Nat, NEW items, NEW f, EncodedSteps(f, items, length), NEW m \in Nat, m <= length
  PROVE  Heads(f[m], f[length])
<1> DEFINE K == {n \in Nat : m + n <= length => Heads(f[m], f[m + n])}
<1>1. f[m] \in Seq(Byte)
  BY DEF EncodedSteps
<1>2. 0 \in K
  <2>1. m + 0 = m
    OBVIOUS
  <2>2. Heads(f[m], f[m])
    <3>1. PICK p \in Seq(Byte) : p = f[m]
      BY <1>1
    <3>2. Len(p) \in Nat
      BY LenProperties
    <3> QED  BY <3>1, <3>2 DEF Heads
  <2> QED  BY <2>1, <2>2
<1>3. ASSUME NEW n \in Nat, n \in K PROVE n + 1 \in K
  <2>1. SUFFICES ASSUME m + (n + 1) <= length PROVE Heads(f[m], f[m + (n + 1)])
    OBVIOUS
  <2>2. PICK k \in Nat : k = m + n /\ k + 1 = m + (n + 1) /\ k < length
    <3>1. m + n \in Nat /\ (m + n) + 1 = m + (n + 1) /\ m + n < length
      BY <2>1
    <3> QED  BY <3>1
  <2>3. PICK p \in Seq(Byte), q \in Seq(Byte), t \in Seq(Byte) :
          p = f[m] /\ q = f[k] /\ t = Encoded(items[k + 1]) /\ f[k + 1] = q \o t
    <3>1. /\ f[m] \in Seq(Byte) /\ f[k] \in Seq(Byte) /\ Encoded(items[k + 1]) \in Seq(Byte)
          /\ f[k + 1] = f[k] \o Encoded(items[k + 1])
      <4>1. k <= length
        BY <2>2
      <4>2. f[m] \in Seq(Byte) /\ f[k] \in Seq(Byte)
        BY <4>1 DEF EncodedSteps
      <4>3. Encoded(items[k + 1]) \in Seq(Byte) /\ f[k + 1] = f[k] \o Encoded(items[k + 1])
        BY <2>2 DEF EncodedSteps
      <4> QED  BY <4>2, <4>3
    <3> QED  BY <3>1
  <2>4. Heads(p, q)
    BY <1>3, <2>2, <2>3
  <2>5. PICK r \in Seq(Byte) : r = q \o t
    BY ConcatProperties
  <2>6. Heads(q, r)
    BY <2>5, HeadsGrow
  <2>7. Heads(p, r)
    BY <2>4, <2>6, HeadsFollow
  <2> QED  BY <2>2, <2>3, <2>5, <2>7
<1> HIDE DEF K
<1>4. \A n \in Nat : n \in K
  BY <1>2, <1>3, Induction
<1>5. length - m \in Nat /\ m + (length - m) = length
  OBVIOUS
<1> QED  BY <1>4, <1>5 DEF K

\* Items read by their types and lengths out of what was written are what was written.
LEMMA ItemsTell ==
  ASSUME Base \in Nat \ {0, 1}, NEW a \in Seq(ValidItems), NEW b \in Seq(ValidItems),
         Heads(AllEncoded(a), AllEncoded(b)),
         \A i \in DOMAIN a : /\ i \in DOMAIN b /\ a[i].type = b[i].type
                             /\ Len(a[i].value) = Len(b[i].value)
  PROVE  IsPrefix(a, b)
<1>1. PICK n \in Nat, m \in Nat : n = Len(a) /\ m = Len(b) /\ DOMAIN a = 1..n /\ DOMAIN b = 1..m
  BY LenProperties
<1>2. PICK f : EncodedSteps(f, a, n) /\ AllEncoded(a) = f[n]
  <2>1. PICK f : EncodedBy(f, a, n) /\ AllEncoded(a) = f[n]
    BY <1>1, AllUnroll
  <2> QED  BY <1>1, <2>1, AllSteps
<1>3. PICK g : EncodedSteps(g, b, m) /\ AllEncoded(b) = g[m]
  <2>1. PICK g : EncodedBy(g, b, m) /\ AllEncoded(b) = g[m]
    BY <1>1, AllUnroll
  <2> QED  BY <1>1, <2>1, AllSteps
<1>4. PICK whole \in Seq(Byte) : whole = g[m]
  BY <1>3 DEF EncodedSteps
<1> DEFINE Same(k) == f[k] = g[k] /\ \A i \in 1..k : a[i] = b[i]
           K == {k \in Nat : k <= n => Same(k)}
<1>5. 0 \in K
  BY <1>2, <1>3 DEF EncodedSteps
<1>6. ASSUME NEW k \in Nat, k \in K PROVE k + 1 \in K
  <2>1. SUFFICES ASSUME k < n PROVE Same(k + 1)
    OBVIOUS
  <2>2. k + 1 \in 1..n /\ k <= n /\ k + 1 <= n
    BY <2>1
  <2>3. k + 1 \in 1..m /\ a[k + 1].type = b[k + 1].type /\ Len(a[k + 1].value) = Len(b[k + 1].value)
    BY <1>1, <2>2
  <2>4. k < m /\ k + 1 <= m
    BY <2>3
  <2>5. Same(k)
    BY <1>6, <2>2
  <2>6. PICK x \in ValidItems, y \in ValidItems : x = a[k + 1] /\ y = b[k + 1]
    BY <1>2, <1>3, <2>1, <2>4 DEF EncodedSteps
  <2>7. PICK p \in Seq(Byte) : p = f[k] /\ p = g[k]
    BY <1>2, <2>2, <2>5 DEF EncodedSteps
  <2>8. PICK s \in Seq(Byte), t \in Seq(Byte) : s = Encoded(x) /\ t = Encoded(y)
    BY EncodedIs
  <2>9. f[k + 1] = p \o s /\ g[k + 1] = p \o t
    <3>1. f[k + 1] = f[k] \o Encoded(a[k + 1])
      BY <1>2, <2>1 DEF EncodedSteps
    <3>2. g[k + 1] = g[k] \o Encoded(b[k + 1])
      BY <1>3, <2>4 DEF EncodedSteps
    <3> QED  BY <2>6, <2>7, <2>8, <3>1, <3>2
  <2>10. Heads(p \o s, whole)
    <3>1. PICK head \in Seq(Byte), all \in Seq(Byte) : head = f[k + 1] /\ all = f[n]
      BY <1>2, <2>2 DEF EncodedSteps
    <3>2. Heads(head, all)
      <4>1. PICK next \in Nat : next = k + 1
        OBVIOUS
      <4> QED  BY <1>2, <2>2, <3>1, <4>1, EncodedHeads
    <3>3. Heads(all, whole)
      BY <1>2, <1>3, <1>4, <3>1
    <3> QED  BY <2>9, <3>1, <3>2, <3>3, HeadsFollow
  <2>11. Heads(p \o t, whole)
    <3>1. PICK next \in Nat : next = k + 1
      OBVIOUS
    <3> QED  BY <1>3, <1>4, <2>4, <2>9, <3>1, EncodedHeads
  <2>12. Len(s) = Len(t)
    BY <2>3, <2>6, <2>8, EncodedIs
  <2>13. s = t
    BY <2>10, <2>11, <2>12, HeadsTell
  <2>14. x = y
    <3>1. x.type = y.type /\ Len(x.value) = Len(y.value) /\ Encoded(x) = Encoded(y)
      BY <2>3, <2>6, <2>8, <2>13
    <3> QED  BY <3>1, EncodedTells
  <2>15. ASSUME NEW i \in 1..k + 1 PROVE a[i] = b[i]
    <3>1. i \in 1..k \/ i = k + 1
      OBVIOUS
    <3> QED  BY <2>5, <2>6, <2>14, <3>1
  <2> QED  BY <2>9, <2>13, <2>15
<1> HIDE DEF K
<1>7. \A k \in Nat : k \in K
  BY <1>5, <1>6, Induction
<1>8. \A i \in 1..n : a[i] = b[i]
  BY <1>7 DEF K
<1>9. n <= m
  <2>1. CASE n = 0
    BY <2>1
  <2>2. CASE n # 0
    <3>1. n \in 1..n
      BY <2>2
    <3>2. n \in 1..m
      BY <1>1, <3>1
    <3> QED  BY <3>2
  <2> QED  BY <2>1, <2>2
<1>10. SubSeq(a, 1, n) = SubSeq(b, 1, n)
  <2>1. \A i \in 1..n : a[i] \in ValidItems
    BY <1>1, ElementOfSeq
  <2>2. \A i \in 1..n : b[i] \in ValidItems
    BY <1>8, <2>1
  <2>3. PICK one \in Int, last \in Int : one = 1 /\ last = n
    OBVIOUS
  <2>4. PICK u, v : u = SubSeq(a, one, last) /\ v = SubSeq(b, one, last)
    OBVIOUS
  <2>5. /\ u \in Seq(ValidItems) /\ Len(u) = (IF one <= last THEN (last - one) + 1 ELSE 0)
        /\ \A i \in 1..(last - one) + 1 : u[i] = a[(one + i) - 1]
    BY <2>1, <2>3, <2>4, SubSeqProperties
  <2>6. /\ v \in Seq(ValidItems) /\ Len(v) = (IF one <= last THEN (last - one) + 1 ELSE 0)
        /\ \A i \in 1..(last - one) + 1 : v[i] = b[(one + i) - 1]
    BY <2>2, <2>3, <2>4, SubSeqProperties
  <2>7. Len(u) = n /\ Len(v) = n /\ (last - one) + 1 = n
    BY <2>3, <2>5, <2>6
  <2>8. ASSUME NEW i \in 1..n PROVE u[i] = v[i]
    <3>1. (one + i) - 1 = i
      BY <2>3
    <3> QED  BY <1>8, <2>5, <2>6, <2>7, <3>1
  <2>9. u = v
    BY <2>5, <2>6, <2>7, <2>8, SeqEqual
  <2> QED  BY <2>3, <2>4, <2>9
<1> QED  BY <1>1, <1>9, <1>10 DEF IsPrefix

-----------------------------------------------------------------------------
(* The writer, the container and the reader.                                 *)

\* What the reader accepts, whatever the schemas and limits that it asks for.
Accepted(c) ==
  /\ c.whole /\ c.magic /\ c.header_sum = Header(c) /\ c.version = 1 /\ c.flags = 0
  /\ c.size = Len(c.payload) /\ c.payload_sum = c.payload

\* A container as it was finished.
Made(schema, payload, saved) ==
  [present |-> TRUE, whole |-> TRUE, magic |-> TRUE, version |-> 1, flags |-> 0,
   schema |-> schema, size |-> Len(payload), payload_sum |-> payload,
   header_sum |-> <<TRUE, 1, 0, schema, Len(payload), payload>>,
   payload |-> payload, touched |-> FALSE, saved |-> saved]

WriterInv ==
  /\ writer \in [initialized : BOOLEAN, schema : Nat, max : Nat, capacity : Nat, payload : Seq(Byte)]
  /\ written \in Seq(ValidItems) /\ writer.payload = AllEncoded(written)
  /\ Len(writer.payload) <= writer.capacity /\ writer.capacity <= writer.max

ContainerInv ==
  container.present =>
    /\ container.saved \in Seq(ValidItems) /\ container.schema \in Nat
    /\ Accepted(container) => container.payload = AllEncoded(container.saved)
    /\ ~container.touched =>
         container = Made(container.schema, AllEncoded(container.saved), container.saved)

Readers == [initialized : BOOLEAN, schema : Nat, minimum : Nat, maximum : Nat,
            payload : Seq(Byte), cursor : Nat]

ReaderInv ==
  /\ reader \in Readers
  /\ taken \in Seq(ValidItems)
  /\ reader.initialized =>
       /\ container.present /\ container.saved \in Seq(ValidItems)
       /\ reader.payload = AllEncoded(container.saved) /\ Understood(container, reader)
       /\ reader.cursor <= Len(reader.payload)
       /\ AllEncoded(taken) = SubSeq(reader.payload, 1, reader.cursor)

SaveInv == WriterInv /\ ContainerInv /\ ReaderInv

LEMMA SaveBase ==
  ASSUME SaveConstants
  PROVE  /\ Base \in Nat \ {0, 1} /\ FirstPayload \in Nat \ {0} /\ Items \subseteq ValidItems
         /\ PayloadLimits \subseteq Nat /\ Schemas \subseteq Nat /\ ReadSizes \subseteq Nat
BY DEF SaveConstants

\* A piece of a sequence.
LEMMA PieceIs ==
  ASSUME NEW S, NEW s \in Seq(S), NEW m \in Nat \ {0}, NEW n \in Nat, m <= n + 1, n <= Len(s)
  PROVE  /\ SubSeq(s, m, n) \in Seq(S) /\ Len(SubSeq(s, m, n)) = (n + 1) - m
         /\ \A i \in 1..(n + 1) - m : SubSeq(s, m, n)[i] = s[(m + i) - 1]
<1>1. PICK length \in Nat : length = Len(s)
  BY LenProperties
<1>2. ASSUME NEW i \in m..n PROVE s[i] \in S
  <2>1. i \in 1..length
    BY <1>1
  <2> QED  BY <1>1, <2>1, ElementOfSeq
<1>3. PICK u : u = SubSeq(s, m, n)
  OBVIOUS
<1>4. m \in Int /\ n \in Int
  OBVIOUS
<1>5. /\ u \in Seq(S) /\ Len(u) = (IF m <= n THEN n - m + 1 ELSE 0)
      /\ \A i \in 1..n - m + 1 : u[i] = s[m + i - 1]
  BY <1>2, <1>3, <1>4, SubSeqProperties
<1>6. (IF m <= n THEN n - m + 1 ELSE 0) = (n + 1) - m /\ n - m + 1 = (n + 1) - m
  OBVIOUS
<1> QED  BY <1>3, <1>5, <1>6

\* Neighbouring pieces.
LEMMA PiecesJoin ==
  ASSUME NEW S, NEW s \in Seq(S), NEW m \in Nat \ {0}, NEW k \in Nat, NEW n \in Nat,
         m <= k + 1, k <= n, n <= Len(s)
  PROVE  SubSeq(s, m, k) \o SubSeq(s, k + 1, n) = SubSeq(s, m, n)
<1>1. PICK length \in Nat : length = Len(s)
  BY LenProperties
<1>2. m \in 1..length + 1 /\ k \in m - 1..length /\ n \in k..length
  BY <1>1
<1> QED  BY <1>1, <1>2, ConcatAdjacentSubSeq

\* A piece of the rest.
LEMMA PieceOfRest ==
  ASSUME NEW S, NEW s \in Seq(S), NEW cursor \in Nat, NEW length \in Nat, length = Len(s),
         cursor <= length, NEW first \in Nat \ {0}, NEW last \in Nat,
         first <= last + 1, cursor + last <= length
  PROVE  SubSeq(SubSeq(s, cursor + 1, length), first, last) = SubSeq(s, cursor + first, cursor + last)
<1>1. PICK rest : rest = SubSeq(s, cursor + 1, length)
  OBVIOUS
<1>2. /\ rest \in Seq(S) /\ Len(rest) = length - cursor
      /\ \A i \in 1..length - cursor : rest[i] = s[cursor + i]
  <2>1. PICK m \in Nat \ {0} : m = cursor + 1 /\ m <= length + 1 /\ (length + 1) - m = length - cursor
    <3>1. cursor + 1 \in Nat \ {0} /\ (length + 1) - (cursor + 1) = length - cursor
      OBVIOUS
    <3> QED  BY <3>1
  <2>2. /\ SubSeq(s, m, length) \in Seq(S) /\ Len(SubSeq(s, m, length)) = (length + 1) - m
        /\ \A i \in 1..(length + 1) - m : SubSeq(s, m, length)[i] = s[(m + i) - 1]
    BY <2>1, PieceIs
  <2>3. ASSUME NEW i \in 1..length - cursor PROVE rest[i] = s[cursor + i]
    <3>1. (m + i) - 1 = cursor + i
      BY <2>1
    <3> QED  BY <1>1, <2>1, <2>2, <3>1
  <2> QED  BY <1>1, <2>1, <2>2, <2>3
<1>3. last <= Len(rest)
  BY <1>2
<1>4. PICK u : u = SubSeq(rest, first, last)
  OBVIOUS
<1>5. PICK size \in Nat : size = (last + 1) - first
  <2>1. (last + 1) - first \in Nat
    OBVIOUS
  <2> QED  BY <2>1
<1>6. u \in Seq(S) /\ Len(u) = size /\ \A i \in 1..size : u[i] = rest[(first + i) - 1]
  <2>1. /\ SubSeq(rest, first, last) \in Seq(S)
        /\ Len(SubSeq(rest, first, last)) = (last + 1) - first
        /\ \A i \in 1..(last + 1) - first : SubSeq(rest, first, last)[i] = rest[(first + i) - 1]
    BY <1>2, <1>3, PieceIs
  <2> QED  BY <1>4, <1>5, <2>1
<1>7. PICK a \in Nat \ {0}, b \in Nat : a = cursor + first /\ b = cursor + last
  <2>1. cursor + first \in Nat \ {0} /\ cursor + last \in Nat
    OBVIOUS
  <2> QED  BY <2>1
<1>8. PICK v : v = SubSeq(s, a, b)
  OBVIOUS
<1>9. a <= b + 1 /\ b <= Len(s) /\ (b + 1) - a = size
  BY <1>5, <1>7
<1>10. v \in Seq(S) /\ Len(v) = size /\ \A i \in 1..size : v[i] = s[(a + i) - 1]
  <2>1. /\ SubSeq(s, a, b) \in Seq(S) /\ Len(SubSeq(s, a, b)) = (b + 1) - a
        /\ \A i \in 1..(b + 1) - a : SubSeq(s, a, b)[i] = s[(a + i) - 1]
    BY <1>9, PieceIs
  <2> QED  BY <1>8, <1>9, <2>1
<1>11. ASSUME NEW i \in 1..size PROVE u[i] = v[i]
  <2>1. PICK j \in 1..length - cursor : j = (first + i) - 1 /\ cursor + j = (a + i) - 1
    <3>1. (first + i) - 1 \in 1..length - cursor /\ cursor + ((first + i) - 1) = (a + i) - 1
      BY <1>5, <1>7
    <3> QED  BY <3>1
  <2> QED  BY <1>2, <1>6, <1>10, <2>1
<1>12. u = v
  BY <1>6, <1>10, <1>11, SeqEqual
<1> QED  BY <1>1, <1>4, <1>7, <1>8, <1>12

\* The room a writer takes is enough, and within its limit.
LEMMA RoomIsEnough ==
  ASSUME SaveConstants, NEW required \in Nat, required <= writer.max,
         writer.max \in Nat, writer.capacity \in Nat, writer.capacity <= writer.max
  PROVE  /\ Capacity(required) \in Nat /\ required <= Capacity(required)
         /\ Capacity(required) <= writer.max
<1>1. PICK max \in Nat, capacity \in Nat : max = writer.max /\ capacity = writer.capacity
  OBVIOUS
<1>2. PICK first \in Nat : first = IF capacity = 0 THEN FirstPayload ELSE capacity
  BY SaveBase
<1>3. PICK start : start = IF first > max THEN max ELSE first
  OBVIOUS
<1>4. Capacity(required) = IF required <= capacity THEN capacity ELSE RoomFor(start, required, max)
  BY <1>1, <1>2, <1>3 DEF Capacity
<1>5. \A size : Roomier(size, required, max) = Grown(size, required, max)
  BY DEF Roomier, Grown
<1>6. RoomFor(start, required, max)
        = (CHOOSE f : GrowthSteps(f, required, first, required, max))[required]
  BY <1>3, <1>5 DEF RoomFor, GrowthSteps
<1>7. \E f : GrowthSteps(f, required, first, required, max)
  BY GrowthExists
<1>8. PICK f : /\ f = CHOOSE g : GrowthSteps(g, required, first, required, max)
               /\ GrowthSteps(f, required, first, required, max)
  BY <1>7
<1>9. f[required] \in Nat /\ required <= f[required] /\ f[required] <= max
  BY <1>1, <1>8, GrowthReaches
<1> QED  BY <1>1, <1>4, <1>6, <1>8, <1>9

LEMMA TakeKeeps ==
  ASSUME SaveConstants, WriterInv, NEW item, NEW bytes, NEW allocates, Take(item, bytes, allocates),
         ~(item.type = "string" /\ Len(item.value) >= Values(4))
            => item \in ValidItems /\ bytes = Encoded(item)
  PROVE  WriterInv' /\ UNCHANGED <<container, reader, taken>>
<1>0. PICK required : required = Len(writer.payload) + Len(bytes)
  OBVIOUS
<1> DEFINE Refused == \/ required > writer.max
                      \/ required > writer.capacity /\ ~allocates
                      \/ item.type = "string" /\ Len(item.value) >= Values(4)
<1>1. CASE Refused
  <2>1. UNCHANGED <<writer, written>> /\ UNCHANGED <<container, reader, taken>>
    BY <1>0, <1>1 DEF Take
  <2> QED  BY <2>1 DEF WriterInv
<1>2. CASE ~Refused
  <2>1. /\ writer' = [writer EXCEPT !.payload = @ \o bytes, !.capacity = Capacity(required)]
        /\ written' = Append(written, item) /\ UNCHANGED <<container, reader, taken>>
    BY <1>0, <1>2 DEF Take
  <2>2. item \in ValidItems /\ bytes = Encoded(item) /\ ~(required > writer.max)
    BY <1>2
  <2>3. PICK payload \in Seq(Byte), max \in Nat, capacity \in Nat :
          /\ payload = writer.payload /\ max = writer.max /\ capacity = writer.capacity
          /\ capacity <= max
    BY DEF WriterInv
  <2>4. bytes \in Seq(Byte) /\ payload \o bytes \in Seq(Byte)
        /\ Len(payload \o bytes) = Len(payload) + Len(bytes)
    BY <2>2, SaveBase, EncodedIs, ConcatProperties
  <2>5. required \in Nat /\ required = Len(payload \o bytes) /\ required <= max
    <3>1. Len(payload) \in Nat /\ Len(bytes) \in Nat
      BY <2>4, LenProperties
    <3> QED  BY <1>0, <2>2, <2>3, <2>4, <3>1
  <2>6. PICK room \in Nat : room = Capacity(required) /\ required <= room /\ room <= max
    BY <2>3, <2>5, RoomIsEnough
  <2>7. PICK grown \in Seq(Byte) : grown = payload \o bytes /\ Len(grown) <= room
    BY <2>4, <2>5, <2>6
  <2>8. writer' = [writer EXCEPT !.payload = grown, !.capacity = room]
    BY <2>1, <2>3, <2>6, <2>7
  <2>9. /\ writer' \in [initialized : BOOLEAN, schema : Nat, max : Nat, capacity : Nat,
                         payload : Seq(Byte)]
        /\ writer'.payload = grown /\ writer'.capacity = room /\ writer'.max = max
    BY <2>3, <2>8 DEF WriterInv
  <2>10. written' \in Seq(ValidItems) /\ AllEncoded(written') = grown
    <3>1. PICK items \in Seq(ValidItems) : items = written /\ AllEncoded(items) = payload
      BY <2>3 DEF WriterInv
    <3>2. Append(items, item) \in Seq(ValidItems)
          /\ AllEncoded(Append(items, item)) = AllEncoded(items) \o Encoded(item)
      BY <2>2, SaveBase, AllGrows
    <3> QED  BY <2>1, <2>2, <2>7, <3>1, <3>2
  <2> QED  BY <2>1, <2>6, <2>7, <2>9, <2>10 DEF WriterInv
<1> QED  BY <1>1, <1>2

LEMMA SaveWrites ==
  ASSUME SaveConstants, WriterInv, NEW allocates,
         \/ \E item \in Items : WriteItem(item, allocates)
         \/ \E type \in {"bytes", "string"}, size \in ReadSizes :
              \E offset \in 0..Len(writer.payload) : WriteOwn(type, offset, size, allocates)
  PROVE  WriterInv' /\ UNCHANGED <<container, reader, taken>>
<1>1. CASE \E item \in Items : WriteItem(item, allocates)
  <2>1. PICK item \in ValidItems : Take(item, Encoded(item), allocates)
    BY <1>1, SaveBase DEF WriteItem
  <2> QED  BY <2>1, TakeKeeps
<1>2. CASE \E type \in {"bytes", "string"}, size \in ReadSizes :
             \E offset \in 0..Len(writer.payload) : WriteOwn(type, offset, size, allocates)
  <2>1. PICK payload \in Seq(Byte), length \in Nat : payload = writer.payload /\ length = Len(payload)
    BY LenProperties DEF WriterInv
  <2>2. PICK type \in {"bytes", "string"}, size \in Nat, offset \in Nat :
          WriteOwn(type, offset, size, allocates)
    BY <1>2, <2>1, SaveBase
  <2>3. PICK value : value = SubSeq(payload, offset + 1, offset + size)
    OBVIOUS
  <2>4. PICK item : item = [type |-> type, value |-> value]
    OBVIOUS
  <2>5. offset + size <= length /\ Take(item, Encoded(item), allocates)
    BY <2>1, <2>2, <2>3, <2>4 DEF WriteOwn
  <2>6. value \in Seq(Byte)
    <3>1. PICK m \in Nat \ {0}, n \in Nat : m = offset + 1 /\ n = offset + size /\ m <= n + 1
      <4>1. offset + 1 \in Nat \ {0} /\ offset + size \in Nat /\ offset + 1 <= (offset + size) + 1
        OBVIOUS
      <4> QED  BY <4>1
    <3>2. SubSeq(payload, m, n) \in Seq(Byte)
      BY <2>1, <2>5, <3>1, PieceIs
    <3> QED  BY <2>3, <3>1, <3>2
  <2>7. PICK most \in Nat : most = Values(4)
    <3>1. PICK four \in 0..8 : four = 4
      OBVIOUS
    <3> QED  BY <3>1, SaveBase, Weights DEF Values
  <2>8. ~(item.type = "string" /\ Len(item.value) >= Values(4)) => item \in ValidItems
    <3>1. ASSUME ~(type = "string" /\ Len(value) >= most) PROVE item \in ValidItems
      <4>1. CASE type = "bytes"
        <5>1. item \in [type : {"bytes"}, value : Seq(Byte)]
          BY <2>4, <2>6, <4>1
        <5> QED  BY <5>1 DEF ValidItems
      <4>2. CASE type = "string"
        <5>1. Len(value) < most
          <6>1. Len(value) \in Nat
            BY <2>6, LenProperties
          <6> QED  BY <3>1, <4>2, <6>1
        <5>2. value \in Texts
          BY <2>6, <2>7, <5>1 DEF Texts
        <5>3. item \in [type : {"string"}, value : Texts]
          BY <2>4, <4>2, <5>2
        <5> QED  BY <5>3 DEF ValidItems
      <4> QED  BY <4>1, <4>2
    <3> QED  BY <2>4, <2>7, <3>1
  <2> QED  BY <2>5, <2>8, TakeKeeps
<1> QED  BY <1>1, <1>2

LEMMA WriterKept ==
  ASSUME WriterInv, UNCHANGED <<writer, written>>
  PROVE  WriterInv'
BY DEF WriterInv

LEMMA ContainerKept ==
  ASSUME ContainerInv, UNCHANGED container
  PROVE  ContainerInv'
BY DEF ContainerInv, Accepted, Header

LEMMA ReaderKept ==
  ASSUME ReaderInv, UNCHANGED <<reader, taken>>, UNCHANGED container
  PROVE  ReaderInv'
BY DEF ReaderInv

\* A container is made of what was written.
LEMMA SealKeeps ==
  ASSUME SaveInv, NEW allocates, WriterFinish(allocates)
  PROVE  SaveInv'
<1>1. /\ ~container.present /\ UNCHANGED <<writer, written, reader, taken>>
      /\ container' =
           Sealed([present |-> TRUE, whole |-> TRUE, magic |-> TRUE, version |-> 1, flags |-> 0,
                   schema |-> writer.schema, size |-> Len(writer.payload),
                   payload_sum |-> writer.payload, header_sum |-> <<>>,
                   payload |-> writer.payload, touched |-> FALSE, saved |-> written])
  BY DEF WriterFinish
<1>2. PICK payload \in Seq(Byte), schema \in Nat, saved \in Seq(ValidItems) :
        /\ payload = writer.payload /\ schema = writer.schema /\ saved = written
        /\ payload = AllEncoded(saved)
  BY DEF SaveInv, WriterInv
<1>3. container' = Made(schema, payload, saved)
  BY <1>1, <1>2 DEF Sealed, Header, Made
<1>4. /\ container'.present /\ container'.saved = saved /\ container'.schema = schema
      /\ container'.payload = payload
  BY <1>3 DEF Made
<1>5. ContainerInv'
  BY <1>2, <1>3, <1>4 DEF ContainerInv
<1>6. WriterInv'
  BY <1>1, WriterKept DEF SaveInv
<1>7. ReaderInv'
  BY <1>1 DEF SaveInv, ReaderInv
<1> QED  BY <1>5, <1>6, <1>7 DEF SaveInv

LEMMA SaveStarts ==
  ASSUME SaveConstants, SaveStart
  PROVE  SaveInv
<1>1. <<>> \in Seq(Byte) /\ <<>> \in Seq(ValidItems) /\ Len(<<>>) = 0
  BY EmptySeq
<1>2. WriterInv
  BY <1>1, AllOfNothing DEF SaveStart, NoWriter, WriterInv
<1>3. ContainerInv
  BY DEF SaveStart, NoContainer, ContainerInv
<1>4. ReaderInv
  BY <1>1 DEF SaveStart, NoReader, ReaderInv, Readers
<1> QED  BY <1>2, <1>3, <1>4 DEF SaveInv

LEMMA WriterMoves ==
  ASSUME SaveConstants, WriterInv,
         \/ \E schema \in Schemas, max \in PayloadLimits : WriterInit(schema, max)
         \/ WriterRelease
  PROVE  WriterInv' /\ UNCHANGED <<container, reader, taken>>
<1>1. <<>> \in Seq(Byte) /\ <<>> \in Seq(ValidItems) /\ Len(<<>>) = 0
  BY EmptySeq
<1>2. CASE \E schema \in Schemas, max \in PayloadLimits : WriterInit(schema, max)
  <2>1. PICK schema \in Nat, max \in Nat : WriterInit(schema, max)
    BY <1>2, SaveBase
  <2>2. /\ writer' = [initialized |-> TRUE, schema |-> schema, max |-> max, capacity |-> 0,
                      payload |-> <<>>]
        /\ written' = <<>> /\ UNCHANGED <<container, reader, taken>>
    BY <2>1 DEF WriterInit, NoWriter
  <2>3. WriterInv'
    BY <1>1, <2>2, AllOfNothing DEF WriterInv
  <2> QED  BY <2>2, <2>3
<1>3. CASE WriterRelease
  <2>1. writer' = NoWriter /\ written' = <<>> /\ UNCHANGED <<container, reader, taken>>
    BY <1>3 DEF WriterRelease
  <2>2. WriterInv'
    BY <1>1, <2>1, AllOfNothing DEF WriterInv, NoWriter
  <2> QED  BY <2>1, <2>2
<1> QED  BY <1>2, <1>3

Kept(c, payload, saved) ==
  /\ c.present /\ c.touched /\ c.saved = saved /\ c.schema \in Nat
  /\ Accepted(c) => c.payload = payload

\* Whatever happens to a container on its way, it is refused or its payload is as it was.
LEMMA DamageKeeps ==
  ASSUME Base \in Nat \ {0, 1}, NEW schema \in Nat, NEW payload \in Seq(Byte), NEW saved,
         NEW made, made = Made(schema, payload, saved),
         NEW c \in Damages(made) \cup Foreign(made)
  PROVE  Kept([c EXCEPT !.touched = TRUE], payload, saved)
<1>1. PICK length \in Nat : length = Len(payload) /\ DOMAIN payload = 1..length
  BY LenProperties
<1>2. payload # <<Base>>
  <2>1. SUFFICES ASSUME payload = <<Base>> PROVE FALSE
    OBVIOUS
  <2>2. Len(payload) = 1 /\ payload[1] = Base
    BY <2>1
  <2>3. 1 \in 1..Len(payload)
    BY <2>2
  <2>4. payload[1] \in Byte
    BY <2>3, ElementOfSeq
  <2> QED  BY <2>2, <2>4 DEF Byte
<1>3. PICK header : header = <<TRUE, 1, 0, schema, length, payload>>
  OBVIOUS
<1>4. made = [present |-> TRUE, whole |-> TRUE, magic |-> TRUE, version |-> 1, flags |-> 0,
              schema |-> schema, size |-> length, payload_sum |-> payload,
              header_sum |-> header, payload |-> payload, touched |-> FALSE, saved |-> saved]
  BY <1>1, <1>3 DEF Made
<1> DEFINE d == [c EXCEPT !.touched = TRUE]
<1>5. CASE c = [made EXCEPT !.whole = FALSE]
  BY <1>4, <1>5 DEF Kept, Accepted
<1>6. CASE c = [made EXCEPT !.magic = FALSE]
  BY <1>4, <1>6 DEF Kept, Accepted
<1>7. CASE c = [made EXCEPT !.version = 2]
  BY <1>4, <1>7 DEF Kept, Accepted
<1>8. CASE c = [made EXCEPT !.flags = 1]
  BY <1>4, <1>8 DEF Kept, Accepted
<1>9. CASE c = [made EXCEPT !.schema = @ + 1]
  BY <1>4, <1>9 DEF Kept, Accepted
<1>10. CASE c = [made EXCEPT !.size = @ + 1]
  BY <1>1, <1>4, <1>10 DEF Kept, Accepted
<1>11. CASE c = [made EXCEPT !.payload_sum = <<Base>>]
  BY <1>2, <1>4, <1>11 DEF Kept, Accepted
<1>12. CASE c = [made EXCEPT !.header_sum = <<Base>>]
  BY <1>4, <1>12 DEF Kept, Accepted, Header
<1>13. CASE \E other : c = [made EXCEPT !.payload = other]
  BY <1>4, <1>13 DEF Kept, Accepted
<1>14. CASE c = Sealed([made EXCEPT !.version = 2])
  BY <1>4, <1>14 DEF Kept, Accepted, Sealed
<1>15. CASE c = Sealed([made EXCEPT !.flags = 1])
  BY <1>4, <1>15 DEF Kept, Accepted, Sealed
<1>16. CASE c = Sealed([made EXCEPT !.schema = @ + 1])
  BY <1>4, <1>16 DEF Kept, Accepted, Sealed
<1>17. CASE c = Sealed([made EXCEPT !.size = @ + 1])
  BY <1>1, <1>4, <1>17 DEF Kept, Accepted, Sealed
<1>18. CASE c = Sealed([made EXCEPT !.payload_sum = <<Base>>])
  BY <1>2, <1>4, <1>18 DEF Kept, Accepted, Sealed
<1>19. c \in Foreign(made) =>
         \/ c = Sealed([made EXCEPT !.version = 2]) \/ c = Sealed([made EXCEPT !.flags = 1])
         \/ c = Sealed([made EXCEPT !.schema = @ + 1]) \/ c = Sealed([made EXCEPT !.size = @ + 1])
         \/ c = Sealed([made EXCEPT !.payload_sum = <<Base>>])
  BY DEF Foreign
<1>20. c \in Damages(made) =>
         \/ c = [made EXCEPT !.whole = FALSE] \/ c = [made EXCEPT !.magic = FALSE]
         \/ c = [made EXCEPT !.version = 2] \/ c = [made EXCEPT !.flags = 1]
         \/ c = [made EXCEPT !.schema = @ + 1] \/ c = [made EXCEPT !.size = @ + 1]
         \/ c = [made EXCEPT !.payload_sum = <<Base>>] \/ c = [made EXCEPT !.header_sum = <<Base>>]
         \/ \E other : c = [made EXCEPT !.payload = other]
  BY DEF Damages
<1> QED  BY <1>5, <1>6, <1>7, <1>8, <1>9, <1>10, <1>11, <1>12, <1>13, <1>14, <1>15, <1>16, <1>17,
            <1>18, <1>19, <1>20

LEMMA DeliverKeeps ==
  ASSUME SaveConstants, SaveInv, Deliver
  PROVE  SaveInv'
<1>1. PICK c \in Damages(container) \cup Foreign(container) :
        /\ container' = [c EXCEPT !.touched = TRUE] /\ container.present /\ ~container.touched
        /\ ~reader.initialized /\ UNCHANGED <<writer, written, reader, taken>>
  BY DEF Deliver
<1>2. PICK schema \in Nat, saved \in Seq(ValidItems) :
        container = Made(schema, AllEncoded(saved), saved)
  BY <1>1 DEF SaveInv, ContainerInv
<1>3. PICK payload \in Seq(Byte) : payload = AllEncoded(saved)
  BY SaveBase, AllTyped
<1>4. Kept(container', payload, saved)
  <2>1. Kept([c EXCEPT !.touched = TRUE], payload, saved)
    BY <1>1, <1>2, <1>3, SaveBase, DamageKeeps
  <2> QED  BY <1>1, <2>1
<1>5. ContainerInv'
  BY <1>3, <1>4 DEF Kept, ContainerInv, Accepted, Header
<1>6. WriterInv'
  BY <1>1, WriterKept DEF SaveInv
<1>7. ReaderInv'
  BY <1>1 DEF SaveInv, ReaderInv
<1> QED  BY <1>5, <1>6, <1>7 DEF SaveInv

\* A reader that opens has the payload of the items that were saved.
LEMMA ReaderOpens ==
  ASSUME SaveConstants, SaveInv, NEW limit, NEW minimum \in Nat, NEW maximum \in Nat,
         ReaderInit(limit, minimum, maximum)
  PROVE  SaveInv'
<1>1. /\ container.present /\ taken' = <<>> /\ UNCHANGED <<writer, written, container>>
      /\ reader' = IF OpenStatus(container, limit, minimum, maximum) # "ok" THEN NoReader
                   ELSE [initialized |-> TRUE, schema |-> container.schema,
                         minimum |-> minimum, maximum |-> maximum,
                         payload |-> container.payload, cursor |-> 0]
  BY DEF ReaderInit
<1>2. <<>> \in Seq(Byte) /\ <<>> \in Seq(ValidItems) /\ Len(<<>>) = 0
  BY EmptySeq
<1>3. ReaderInv'
  <2>1. CASE OpenStatus(container, limit, minimum, maximum) # "ok"
    BY <1>1, <1>2, <2>1 DEF ReaderInv, Readers, NoReader
  <2>2. CASE OpenStatus(container, limit, minimum, maximum) = "ok"
    <3>1. Accepted(container)
      BY <2>2 DEF OpenStatus, Accepted
    <3>2. PICK saved \in Seq(ValidItems), schema \in Nat :
            /\ saved = container.saved /\ schema = container.schema
            /\ container.payload = AllEncoded(saved)
      BY <1>1, <3>1 DEF SaveInv, ContainerInv
    <3>3. PICK payload \in Seq(Byte) : payload = AllEncoded(saved)
      BY SaveBase, AllTyped
    <3>4. reader' = [initialized |-> TRUE, schema |-> schema, minimum |-> minimum,
                     maximum |-> maximum, payload |-> payload, cursor |-> 0]
      BY <1>1, <2>2, <3>2, <3>3
    <3>5. SubSeq(payload, 1, 0) = <<>>
      BY SubSeqEmpty
    <3>6. Len(payload) \in Nat
      BY LenProperties
    <3>7. /\ reader' \in Readers
          /\ reader'.payload = payload /\ reader'.cursor = 0 /\ reader'.initialized
      BY <3>4 DEF Readers
    <3>8. taken' = <<>> /\ AllEncoded(taken') = SubSeq(payload, 1, 0) /\ taken' \in Seq(ValidItems)
      BY <1>1, <1>2, <3>5, AllOfNothing
    <3>9. /\ container'.present /\ container'.saved \in Seq(ValidItems)
          /\ payload = AllEncoded(container'.saved)
      BY <1>1, <3>2, <3>3
    <3>10. 0 <= Len(payload)
      BY <3>6
    <3>11. Understood(container', reader')
      <4>1. minimum <= schema /\ schema <= maximum
        BY <2>2, <3>2 DEF OpenStatus
      <4>2. container' = container /\ container.version = 1 /\ container.flags = 0
        BY <1>1, <3>1 DEF Accepted
      <4> QED  BY <3>2, <3>4, <4>1, <4>2 DEF Understood
    <3> QED  BY <3>7, <3>8, <3>9, <3>10, <3>11 DEF ReaderInv
  <2> QED  BY <2>1, <2>2
<1>4. WriterInv' /\ ContainerInv'
  BY <1>1, WriterKept, ContainerKept DEF SaveInv
<1> QED  BY <1>3, <1>4 DEF SaveInv

\* What is read moves from the rest to what was taken, if it encodes to its bytes.
LEMMA ReadKeepsReader ==
  ASSUME SaveConstants, SaveInv, NEW size \in Nat, NEW item, TakeRead(size, item),
         size <= Len(Rest) => item \in ValidItems /\ Encoded(item) = Ahead(size)
  PROVE  SaveInv'
<1>1. /\ reader.initialized /\ size <= Len(Rest)
      /\ reader' = [reader EXCEPT !.cursor = @ + size] /\ taken' = Append(taken, item)
      /\ UNCHANGED <<writer, written, container>>
  BY DEF TakeRead
<1>2. PICK payload \in Seq(Byte), cursor \in Nat, length \in Nat :
        /\ payload = reader.payload /\ cursor = reader.cursor /\ length = Len(payload)
        /\ cursor <= length
  BY <1>1, LenProperties DEF SaveInv, ReaderInv, Readers
<1>3. Rest = SubSeq(payload, cursor + 1, length) /\ Len(Rest) = length - cursor
  <2>1. PICK m \in Nat \ {0} : m = cursor + 1 /\ m <= length + 1 /\ (length + 1) - m = length - cursor
    <3>1. cursor + 1 \in Nat \ {0} /\ (length + 1) - (cursor + 1) = length - cursor
      OBVIOUS
    <3> QED  BY <1>2, <3>1
  <2>2. Len(SubSeq(payload, m, length)) = (length + 1) - m
    BY <1>2, <2>1, PieceIs
  <2> QED  BY <1>2, <2>1, <2>2 DEF Rest
<1>4. cursor + size <= length
  <2>1. PICK room : room = Len(Rest) /\ size <= room /\ room = length - cursor
    BY <1>1, <1>3
  <2> QED  BY <2>1
<1>5. Ahead(size) = SubSeq(payload, cursor + 1, cursor + size)
  <2>1. PICK one \in Nat \ {0} : one = 1
    OBVIOUS
  <2>2. one <= size + 1
    BY <2>1
  <2>3. SubSeq(SubSeq(payload, cursor + 1, length), one, size)
          = SubSeq(payload, cursor + one, cursor + size)
    <3>1. length = Len(payload) /\ cursor <= length
      BY <1>2
    <3> QED  BY <1>4, <2>2, <3>1, PieceOfRest
  <2> QED  BY <1>3, <2>1, <2>3 DEF Ahead
<1>6. PICK next \in Nat : next = cursor + size /\ next <= length /\ cursor <= next
  <2>1. cursor + size \in Nat /\ cursor <= cursor + size
    OBVIOUS
  <2> QED  BY <1>4, <2>1
<1>7. /\ reader' \in Readers
      /\ reader'.payload = payload /\ reader'.cursor = next /\ reader'.initialized
      /\ Understood(container', reader')
  <2>1. reader' = [reader EXCEPT !.cursor = next]
    BY <1>1, <1>2, <1>6
  <2>2. reader \in Readers /\ Understood(container, reader)
    BY <1>1 DEF SaveInv, ReaderInv
  <2>3. /\ reader' \in Readers
        /\ reader'.payload = payload /\ reader'.cursor = next /\ reader'.initialized
        /\ reader'.schema = reader.schema /\ reader'.minimum = reader.minimum
        /\ reader'.maximum = reader.maximum
    BY <1>1, <1>2, <2>1, <2>2 DEF Readers
  <2>4. Understood(container', reader')
    BY <1>1, <2>2, <2>3 DEF Understood
  <2> QED  BY <2>3, <2>4
<1>8. item \in ValidItems /\ Encoded(item) = SubSeq(payload, cursor + 1, next)
  BY <1>1, <1>5, <1>6
<1>9. PICK items \in Seq(ValidItems) : items = taken /\ AllEncoded(items) = SubSeq(payload, 1, cursor)
  BY <1>1, <1>2 DEF SaveInv, ReaderInv
<1>10. /\ Append(items, item) \in Seq(ValidItems)
       /\ AllEncoded(Append(items, item)) = AllEncoded(items) \o Encoded(item)
  BY <1>8, SaveBase, AllGrows
<1>11. SubSeq(payload, 1, cursor) \o SubSeq(payload, cursor + 1, next) = SubSeq(payload, 1, next)
  <2>1. PICK one \in Nat \ {0} : one = 1
    OBVIOUS
  <2>2. one <= cursor + 1
    BY <2>1
  <2>3. SubSeq(payload, one, cursor) \o SubSeq(payload, cursor + 1, next) = SubSeq(payload, one, next)
    <3>1. cursor <= next /\ next <= Len(payload)
      BY <1>2, <1>6
    <3> QED  BY <2>2, <3>1, PiecesJoin
  <2> QED  BY <2>1, <2>3
<1>12. taken' \in Seq(ValidItems) /\ AllEncoded(taken') = SubSeq(payload, 1, next)
  BY <1>1, <1>8, <1>9, <1>10, <1>11
<1>13. /\ container'.present /\ container'.saved \in Seq(ValidItems)
       /\ payload = AllEncoded(container'.saved)
  BY <1>1, <1>2 DEF SaveInv, ReaderInv
<1>14. ReaderInv'
  BY <1>2, <1>6, <1>7, <1>12, <1>13 DEF ReaderInv
<1>15. WriterInv' /\ ContainerInv'
  BY <1>1, WriterKept, ContainerKept DEF SaveInv
<1> QED  BY <1>14, <1>15 DEF SaveInv

\* Bytes ahead, when there are as many.
LEMMA AheadIs ==
  ASSUME SaveInv, NEW size \in Nat, size <= Len(Rest), reader.initialized
  PROVE  /\ Ahead(size) \in Seq(Byte) /\ Len(Ahead(size)) = size
         /\ Rest \in Seq(Byte)
<1>1. PICK payload \in Seq(Byte), cursor \in Nat, length \in Nat :
        /\ payload = reader.payload /\ cursor = reader.cursor /\ length = Len(payload)
        /\ cursor <= length
  BY LenProperties DEF SaveInv, ReaderInv, Readers
<1>2. Rest \in Seq(Byte)
  <2>1. PICK m \in Nat \ {0} : m = cursor + 1 /\ m <= length + 1
    <3>1. cursor + 1 \in Nat \ {0} /\ cursor + 1 <= length + 1
      BY <1>1
    <3> QED  BY <3>1
  <2>2. SubSeq(payload, m, length) \in Seq(Byte)
    BY <1>1, <2>1, PieceIs
  <2> QED  BY <1>1, <2>1, <2>2 DEF Rest
<1>3. PICK rest \in Seq(Byte), one \in Nat \ {0} : rest = Rest /\ one = 1
  BY <1>2
<1>4. one <= size + 1 /\ (size + 1) - one = size /\ size <= Len(rest)
  BY <1>3
<1>5. SubSeq(rest, one, size) \in Seq(Byte) /\ Len(SubSeq(rest, one, size)) = (size + 1) - one
  BY <1>4, PieceIs
<1> QED  BY <1>2, <1>3, <1>4, <1>5 DEF Ahead

\* A number read of its bytes is one that its type can hold, and has these bytes.
LEMMA NumberRead ==
  ASSUME Base \in Nat \ {0, 1}, NEW type \in Number, NEW bytes \in Seq(Byte),
         Len(bytes) = Width(type)
  PROVE  LET bits  == Loaded(bytes)
             value == IF type \in Signed THEN SignedValue(bits, Width(type)) ELSE bits
             item  == [type |-> type, value |-> <<value>>]
         IN item \in ValidItems /\ Encoded(item) = bytes
<1>1. PICK width \in 0..8 : width = Width(type)
  BY Kinds
<1>2. bytes \in [1..width -> Byte] /\ width = Len(bytes)
  BY <1>1, LenProperties
<1>3. PICK bits : bits = Loaded(bytes)
  OBVIOUS
<1>4. bits \in 0..Weight[width] - 1 /\ Stored(bits, width) = bytes
  BY <1>2, <1>3, LoadedDigits, StoredLoaded
<1>5. Values(width) = Weight[width] /\ Weight[width] \in Nat \ {0}
  BY Weights DEF Values
<1>6. PICK value : value = IF type \in Signed THEN SignedValue(bits, width) ELSE bits
  OBVIOUS
<1>7. /\ value \in Numbers(type)
      /\ (IF type \in Signed THEN SignedBits(value, width) ELSE value) = bits
  <2>1. CASE type \in Signed
    <3>1. /\ SignedValue(bits, width) \in (Values(width) \div 2) - Values(width)
                                           ..(Values(width) \div 2) - 1
          /\ SignedBits(SignedValue(bits, width), width) = bits
      BY <1>4, <1>5, SignedTells
    <3> QED  BY <1>1, <1>6, <2>1, <3>1 DEF Numbers
  <2>2. CASE type \notin Signed
    BY <1>1, <1>4, <1>5, <1>6, <2>2 DEF Numbers
  <2> QED  BY <2>1, <2>2
<1>8. PICK item : item = [type |-> type, value |-> <<value>>]
  OBVIOUS
<1>9. item \in NumberItems
  <2>1. item \in [type : {type}, value : {<<v>> : v \in Numbers(type)}]
    BY <1>7, <1>8
  <2> QED  BY <2>1 DEF NumberItems
<1>10. Encoded(item) = bytes
  <2>1. type # "bytes" /\ type # "string" /\ item.type = type /\ item.value[1] = value
    BY <1>8, Kinds
  <2>2. Encoded(item) = IF type \in Signed THEN Stored(SignedBits(value, width), width)
                        ELSE Stored(value, width)
    BY <1>1, <2>1 DEF Encoded
  <2> QED  BY <1>4, <1>7, <2>2
<1> QED  BY <1>1, <1>3, <1>6, <1>8, <1>9, <1>10 DEF ValidItems

LEMMA NumbersKeep ==
  ASSUME SaveConstants, SaveInv, NEW type \in Number, ReadNumber(type)
  PROVE  SaveInv'
<1>1. PICK width \in Nat : width = Width(type)
  BY Kinds
<1>2. PICK bytes : bytes = Ahead(width)
  OBVIOUS
<1>3. PICK item : item = [type |-> type,
                          value |-> <<IF type \in Signed THEN SignedValue(Loaded(bytes), Width(type))
                                      ELSE Loaded(bytes)>>]
  OBVIOUS
<1>4. TakeRead(width, item)
  BY <1>1, <1>2, <1>3 DEF ReadNumber
<1>5. ASSUME width <= Len(Rest) PROVE item \in ValidItems /\ Encoded(item) = Ahead(width)
  <2>1. reader.initialized
    BY <1>4 DEF TakeRead
  <2>2. bytes \in Seq(Byte) /\ Len(bytes) = Width(type)
    BY <1>1, <1>2, <1>5, <2>1, AheadIs
  <2> QED  BY <1>2, <1>3, <2>2, SaveBase, NumberRead
<1> QED  BY <1>4, <1>5, ReadKeepsReader

LEMMA BytesKeep ==
  ASSUME SaveConstants, SaveInv, NEW size \in Nat, ReadBytes(size)
  PROVE  SaveInv'
<1>1. PICK item : item = [type |-> "bytes", value |-> Ahead(size)]
  OBVIOUS
<1>2. TakeRead(size, item)
  BY <1>1 DEF ReadBytes
<1>3. ASSUME size <= Len(Rest) PROVE item \in ValidItems /\ Encoded(item) = Ahead(size)
  <2>1. reader.initialized
    BY <1>2 DEF TakeRead
  <2>2. Ahead(size) \in Seq(Byte)
    BY <1>3, <2>1, AheadIs
  <2>3. item \in [type : {"bytes"}, value : Seq(Byte)]
    BY <1>1, <2>2
  <2>4. Encoded(item) = Ahead(size)
    BY <1>1 DEF Encoded
  <2> QED  BY <2>3, <2>4 DEF ValidItems
<1> QED  BY <1>2, <1>3, ReadKeepsReader

LEMMA StringsKeep ==
  ASSUME SaveConstants, SaveInv, ReadString
  PROVE  SaveInv'
<1>1. PICK four \in 0..8 : four = 4 /\ four \in Nat
  OBVIOUS
<1>2. PICK rest : rest = Rest
  OBVIOUS
<1>3. PICK head : head = Ahead(four)
  OBVIOUS
<1>4. PICK size : size = Loaded(head)
  OBVIOUS
<1>5. PICK value : value = SubSeq(rest, 5, 4 + size)
  OBVIOUS
<1>6. PICK item : item = [type |-> "string", value |-> value]
  OBVIOUS
<1>7. /\ four <= Len(rest)
      /\ \/ TakeRead(4 + size, item)
         \/ UNCHANGED saveVars
  BY <1>1, <1>2, <1>3, <1>4, <1>5, <1>6 DEF ReadString
<1>8. CASE UNCHANGED saveVars
  <2>1. UNCHANGED <<writer, written>> /\ UNCHANGED <<reader, taken>> /\ UNCHANGED container
    BY <1>8 DEF saveVars
  <2> QED  BY <2>1, WriterKept, ContainerKept, ReaderKept DEF SaveInv
<1>9. CASE TakeRead(4 + size, item)
  <2>1. reader.initialized
    BY <1>9 DEF TakeRead
  <2>2. rest \in Seq(Byte) /\ head \in Seq(Byte) /\ Len(head) = 4
    BY <1>1, <1>2, <1>3, <1>7, <2>1, AheadIs
  <2>3. head \in [1..four -> Byte] /\ four = Len(head)
    BY <1>1, <2>2, LenProperties
  <2>4. size \in 0..Weight[four] - 1 /\ Stored(size, four) = head
    BY <1>4, <2>3, SaveBase, LoadedDigits, StoredLoaded
  <2>5. size \in Nat /\ size < Values(4)
    <3>1. Weight[four] \in Nat /\ Values(4) = Weight[four]
      BY <1>1, SaveBase, Weights DEF Values
    <3> QED  BY <2>4, <3>1
  <2>6. PICK all \in Nat : all = 4 + size
    <3>1. 4 + size \in Nat
      BY <2>5
    <3> QED  BY <3>1
  <2>7. ASSUME all <= Len(Rest) PROVE item \in ValidItems /\ Encoded(item) = Ahead(all)
    <3>1. PICK length \in Nat : length = Len(rest) /\ all <= length
      BY <1>2, <2>2, <2>7, LenProperties
    <3>2. PICK five \in Nat \ {0} : five = 5 /\ five = four + 1 /\ five <= all + 1
                                   /\ (all + 1) - five = size
      <4>1. 5 \in Nat \ {0} /\ 5 = four + 1 /\ 5 <= all + 1 /\ (all + 1) - 5 = size
        BY <1>1, <2>5, <2>6
      <4> QED  BY <4>1
    <3>3. value = SubSeq(rest, five, all)
      BY <1>5, <2>6, <3>2
    <3>4. value \in Seq(Byte) /\ Len(value) = size
      <4>1. /\ SubSeq(rest, five, all) \in Seq(Byte)
            /\ Len(SubSeq(rest, five, all)) = (all + 1) - five
        BY <2>2, <3>1, <3>2, PieceIs
      <4> QED  BY <3>2, <3>3, <4>1
    <3>5. item \in ValidItems
      <4>1. value \in Texts
        BY <2>5, <3>4 DEF Texts
      <4>2. item \in [type : {"string"}, value : Texts]
        BY <1>6, <4>1
      <4> QED  BY <4>2 DEF ValidItems
    <3>6. Encoded(item) = head \o value
      <4>1. item.type = "string" /\ item.value = value
        BY <1>6
      <4>2. Encoded(item) = Stored(Len(item.value), 4) \o item.value
        BY <4>1 DEF Encoded
      <4> QED  BY <1>1, <2>4, <3>4, <4>1, <4>2
    <3>7. PICK one \in Nat \ {0} : one = 1
      OBVIOUS
    <3>8. SubSeq(rest, one, four) \o SubSeq(rest, four + 1, all) = SubSeq(rest, one, all)
      <4>1. one <= four + 1 /\ four <= all /\ all <= Len(rest) /\ four \in Nat
        BY <1>1, <2>5, <2>6, <3>1, <3>7
      <4> QED  BY <2>2, <4>1, PiecesJoin
    <3>9. head \o value = Ahead(all)
      BY <1>2, <1>3, <3>2, <3>3, <3>7, <3>8 DEF Ahead
    <3> QED  BY <3>5, <3>6, <3>9
  <2>8. TakeRead(all, item)
    BY <1>9, <2>6
  <2> QED  BY <2>7, <2>8, ReadKeepsReader
<1> QED  BY <1>7, <1>8, <1>9

LEMMA SaveStep ==
  ASSUME SaveConstants, SaveInv, SaveNext
  PROVE  SaveInv'
<1>1. CASE \/ \E schema \in Schemas, max \in PayloadLimits : WriterInit(schema, max)
           \/ WriterRelease
           \/ \E allocates \in BOOLEAN :
                \/ \E item \in Items : WriteItem(item, allocates)
                \/ \E type \in {"bytes", "string"}, size \in ReadSizes :
                     \E offset \in 0..Len(writer.payload) : WriteOwn(type, offset, size, allocates)
  <2>1. WriterInv' /\ UNCHANGED <<container, reader, taken>>
    BY <1>1, WriterMoves, SaveWrites DEF SaveInv
  <2> QED  BY <2>1, ContainerKept, ReaderKept DEF SaveInv
<1>2. CASE \E allocates \in BOOLEAN : WriterFinish(allocates)
  BY <1>2, SealKeeps
<1>3. CASE Deliver
  BY <1>3, DeliverKeeps
<1>4. CASE \E limit \in PayloadLimits, minimum, maximum \in Schemas :
             ReaderInit(limit, minimum, maximum)
  <2>1. PICK limit \in PayloadLimits, minimum \in Schemas, maximum \in Schemas :
               ReaderInit(limit, minimum, maximum)
    BY <1>4
  <2>2. minimum \in Nat /\ maximum \in Nat
    BY SaveBase
  <2> QED  BY <2>1, <2>2, ReaderOpens
<1>5. CASE \E type \in Number : ReadNumber(type)
  BY <1>5, NumbersKeep
<1>6. CASE \E size \in ReadSizes : ReadBytes(size)
  BY <1>6, SaveBase, BytesKeep
<1>7. CASE ReadString
  BY <1>7, StringsKeep
<1> QED  BY <1>1, <1>2, <1>3, <1>4, <1>5, <1>6, <1>7 DEF SaveNext

LEMMA SaveStutters ==
  ASSUME SaveInv, UNCHANGED saveVars
  PROVE  SaveInv'
BY WriterKept, ContainerKept, ReaderKept DEF SaveInv, saveVars

LEMMA SaveInvIsEnough ==
  ASSUME SaveConstants, SaveInv
  PROVE  SaveRoundTrips
<1>1. writer.initialized => /\ writer.payload = AllEncoded(written)
                            /\ Len(writer.payload) <= writer.capacity
                            /\ writer.capacity <= writer.max
  BY DEF SaveInv, WriterInv
<1>2. ASSUME reader.initialized
      PROVE  /\ reader.payload = AllEncoded(container.saved) /\ Understood(container, reader)
             /\ AllEncoded(taken) \o Rest = reader.payload
             /\ (\A i \in DOMAIN taken : /\ i \in DOMAIN container.saved
                                        /\ taken[i].type = container.saved[i].type
                                        /\ Len(taken[i].value) = Len(container.saved[i].value))
                  => IsPrefix(taken, container.saved)
  <2>1. PICK payload \in Seq(Byte), cursor \in Nat, length \in Nat :
          /\ payload = reader.payload /\ cursor = reader.cursor /\ length = Len(payload)
          /\ cursor <= length
    BY <1>2, LenProperties DEF SaveInv, ReaderInv, Readers
  <2>2. PICK items \in Seq(ValidItems), saved \in Seq(ValidItems) :
          /\ items = taken /\ saved = container.saved /\ payload = AllEncoded(saved)
          /\ AllEncoded(items) = SubSeq(payload, 1, cursor)
    BY <1>2, <2>1 DEF SaveInv, ReaderInv
  <2>3. SubSeq(payload, 1, cursor) \o SubSeq(payload, cursor + 1, length) = payload
    <3>1. PICK one \in Nat \ {0} : one = 1
      OBVIOUS
    <3>2. one <= cursor + 1
      BY <3>1
    <3>3. SubSeq(payload, one, cursor) \o SubSeq(payload, cursor + 1, length)
            = SubSeq(payload, one, length)
      <4>1. cursor <= length /\ length <= Len(payload)
        BY <2>1
      <4> QED  BY <3>2, <4>1, PiecesJoin
    <3>4. SubSeq(payload, 1, Len(payload)) = payload
      BY SubSeqFull
    <3> QED  BY <2>1, <3>1, <3>3, <3>4
  <2>4. Rest = SubSeq(payload, cursor + 1, length)
    BY <2>1 DEF Rest
  <2>5. AllEncoded(items) \o Rest = payload
    BY <2>2, <2>3, <2>4
  <2>6. Heads(AllEncoded(items), payload)
    <3>1. PICK head \in Seq(Byte), rest \in Seq(Byte) : head = AllEncoded(items) /\ rest = Rest
      <4>1. PICK m \in Nat \ {0} : m = cursor + 1 /\ m <= length + 1
        <5>1. cursor + 1 \in Nat \ {0} /\ cursor + 1 <= length + 1
          BY <2>1
        <5> QED  BY <5>1
      <4>2. SubSeq(payload, m, length) \in Seq(Byte)
        BY <2>1, <4>1, PieceIs
      <4>3. AllEncoded(items) \in Seq(Byte)
        BY SaveBase, AllTyped
      <4> QED  BY <2>4, <4>1, <4>2, <4>3
    <3>2. Heads(head, head \o rest)
      BY HeadsGrow
    <3> QED  BY <2>5, <3>1, <3>2
  <2>7. ASSUME \A i \in DOMAIN items : /\ i \in DOMAIN saved /\ items[i].type = saved[i].type
                                      /\ Len(items[i].value) = Len(saved[i].value)
        PROVE  IsPrefix(items, saved)
    BY <2>2, <2>6, <2>7, SaveBase, ItemsTell
  <2>8. Understood(container, reader)
    BY <1>2 DEF SaveInv, ReaderInv
  <2> QED  BY <2>1, <2>2, <2>5, <2>7, <2>8
<1> QED  BY <1>1, <1>2 DEF SaveRoundTrips

-----------------------------------------------------------------------------
(* The parts side by side.                                                   *)

(* InputsAreExact (Assets): a load takes all of a file within its limit or   *)
(* keeps nothing, and what a store put there with success is what a load     *)
(* finds; a document becomes its pairs, each once and in order, or nothing,  *)
(* with an index that answers exactly for the entries, whatever the hash,    *)
(* and without a block left behind, whichever allocation fails.              *)
THEOREM InputsStayExact == AssetsSpec => []InputsAreExact
<1>1. AssetsInit => LoadInv /\ ConfigInv
  BY LoadStartHolds, ConfigStarts, ConfigConstants DEF AssetsInit
<1>2. LoadInv /\ ConfigInv /\ [AssetsNext]_AssetsVars => LoadInv' /\ ConfigInv'
  <2>1. SUFFICES ASSUME LoadInv, ConfigInv, AssetsNext \/ UNCHANGED AssetsVars
                 PROVE  LoadInv' /\ ConfigInv'
    OBVIOUS
  <2>2. LoadNext \/ UNCHANGED loadVars
    BY <2>1 DEF AssetsNext, Others, AssetsVars
  <2>3. ConfigNext \/ UNCHANGED configVars
    BY <2>1 DEF AssetsNext, Others, AssetsVars
  <2>4. LoadInv'
    BY <2>1, <2>2, LoadStep, LoadStutters, LoadConstants
  <2>5. ConfigInv'
    BY <2>1, <2>3, ConfigStepKeeps, ConfigStutters, ConfigConstants
  <2> QED  BY <2>4, <2>5
<1>3. LoadInv /\ ConfigInv => InputsAreExact
  BY LoadInvIsEnough, ConfigInvIsEnough, ConfigConstants DEF InputsAreExact
<1> QED  BY <1>1, <1>2, <1>3, PTL DEF AssetsSpec

(* SaveRoundTrips (SaveContainer): what a writer accepted, its own bytes and *)
(* moved blocks included, is what its payload encodes; whatever happens to   *)
(* the container on its way, a reader that opens it has that payload, in a   *)
(* format that it knows and a schema that it asked for; and                  *)
(* what it reads by the types and lengths that were written is what was      *)
(* written, for every base, width, value, limit and schedule of failures.    *)
THEOREM SavesComeBack == AssetsSpec => []SaveRoundTrips
<1>1. AssetsInit => SaveInv
  BY SaveStarts, SaveConstants DEF AssetsInit
<1>2. SaveInv /\ [AssetsNext]_AssetsVars => SaveInv'
  <2>1. SUFFICES ASSUME SaveInv, AssetsNext \/ UNCHANGED AssetsVars
                 PROVE  SaveInv'
    OBVIOUS
  <2>2. SaveNext \/ UNCHANGED saveVars
    BY <2>1 DEF AssetsNext, Others, AssetsVars
  <2> QED  BY <2>1, <2>2, SaveStep, SaveStutters, SaveConstants
<1>3. SaveInv => SaveRoundTrips
  BY SaveInvIsEnough, SaveConstants
<1> QED  BY <1>1, <1>2, <1>3, PTL DEF AssetsSpec
=============================================================================
