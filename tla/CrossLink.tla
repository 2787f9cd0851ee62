------------------------------ MODULE CrossLink ------------------------------
(***************************************************************************)
(* Cross-linked files of a multi-installation: directory entries in several*)
(* system folders of the memory card that all name the clusters of one     *)
(* boot program.  The EE asks for them in batches (CreateCrossLinkedFiles, *)
(* CleanupMultiInstallation in system.c); the MCTOOLS module edits the     *)
(* directories and the FAT itself, alias by alias (mctools.c).             *)
(*                                                                         *)
(* fs is the file system as MCTOOLS sees it, through the page cache.  What *)
(* of it reaches the card when the flush at the end is reached, fails or   *)
(* is skipped is the subject of PageCache.                                 *)
(***************************************************************************)
EXTENDS Integers, FiniteSets

CONSTANTS Folders,        \* the system folders
          NumAliases,     \* NUM_CROSSLINKED_FILES
          FolderOf,       \* [Aliases -> Folders]: the folder in FileAlias[].name
          MaxBatch,       \* MAX_RPC_FILE_ENTRIES
          NumClusters,    \* SuperBlock.clusters; cluster 0 is the root directory
          ClusterPages,   \* SuperBlock.pages_per_cluster; an entry takes a page
          FirstCluster,   \* [Folders -> Clusters]: where a folder starts
          AllocStart,     \* SuperBlock.alloc_start: what lies before is the FAT
          Word,           \* 2^32, the range of an unsigned int
          Faults,         \* what may fail: "call", "card"
          MaxFailures,    \* bound: failures in a behaviour
          Installations   \* where a session may start: the card and the original

Aliases == 1 .. NumAliases
Clusters == 0 .. NumClusters - 1
PageNums == 0 .. ClusterPages - 1

(* FAT entries: 0x7FFFFFFF, 0xFFFFFFFF, or 0x80000000 | next cluster. *)
FREE == -2
EOC == -1
EIO == 5
EINVAL == 22
Unsigned(x) == x % Word

Entry == [name : 0 .. NumAliases, exists : BOOLEAN]   \* 0: a file of others
FileSystem == [fat : [Clusters -> Clusters \cup {FREE, EOC}],
               pages : [Clusters -> [PageNums -> Entry]],
               len : [Folders -> Nat]]

ASSUME SizesAssumption ==
  /\ NumAliases \in Nat \ {0} /\ MaxBatch \in Nat \ {0}
  /\ NumClusters \in Nat \ {0} /\ ClusterPages \in Nat \ {0}
  /\ AllocStart \in Nat /\ Word \in Nat /\ AllocStart + NumClusters < Word
  /\ AllocStart >= EINVAL      \* 41 on a card of 8 MB: superblock, FAT
ASSUME FoldersAssumption ==
  /\ IsFiniteSet(Folders)
  /\ FolderOf \in [Aliases -> Folders]
  /\ FirstCluster \in [Folders -> Clusters \ {0}]
ASSUME FaultsAssumption == Faults \subseteq {"call", "card"} /\ MaxFailures \in Nat
(* The original is one of the aliases, or NumAliases + 1 if none of them. *)
ASSUME InstallationsAssumption ==
  Installations \subseteq [fs : FileSystem, original : 1 .. NumAliases + 1]

VARIABLES
  fs,           \* the file system, as seen through the page cache
  original,     \* the alias that is the real file: FileAlias[original].name = path
  start,        \* the file system at the start, for the properties
  systemArea,   \* what lies before AllocStart: "intact" or "overwritten"
  failures,     \* how many calls or card commands have failed
  session,      \* "idle", "create" or "delete"
  outcome,      \* of the sessions so far: "none", "linked", "failed", "unlinked"
  loop,         \* which of the two loops of CreateCrossLinkedFiles
  next, left,   \* FileIndex or i (from 1), NumFiles
  ok,           \* result >= 0
  iop,          \* where MCTOOLS is in the batch
  at, last,     \* the position in turn, the last one of the batch
  made,         \* result of the batch: entries created or deleted
  target        \* TargetCluster

cardVars == <<fs, systemArea>>
eeVars == <<session, outcome, loop, next, left, ok>>
iopVars == <<iop, at, last, made, target>>
vars == <<fs, original, start, systemArea, failures, eeVars, iopVars>>

-----------------------------------------------------------------------------
(* The k-th cluster of a folder, GetFatTableNextIndexData after            *)
(* GetFatTableNextIndexData; no cluster once the chain has ended.          *)
ClusterAt(s, f, k) ==
  LET cluster[j \in 0 .. NumClusters] ==
        IF j = 0 THEN FirstCluster[f]
        ELSE IF cluster[j - 1] \in Clusters THEN s.fat[cluster[j - 1]]
        ELSE cluster[j - 1]
  IN  cluster[k]

HasPage(s, f, r) ==
  r \div ClusterPages <= NumClusters /\ ClusterAt(s, f, r \div ClusterPages) \in Clusters
Record(s, f, r) == s.pages[ClusterAt(s, f, r \div ClusterPages)][r % ClusterPages]

(* UpdateDirEntInformation on the page of a record. *)
WithRecord(s, f, r, e) ==
  [s EXCEPT !.pages[ClusterAt(s, f, r \div ClusterPages)][r % ClusterPages] = e]

(* ScanThroughDirEnt, mode 0: the records with a name, and the first one. *)
Named(s, f, a) ==
  {r \in 0 .. s.len[f] - 1 :
     HasPage(s, f, r) /\ Record(s, f, r).exists /\ Record(s, f, r).name = a}
FirstNamed(s, f, a) == CHOOSE r \in Named(s, f, a) : \A q \in Named(s, f, a) : r <= q

\* Mutant: the search ends one record early.
UnusedOneEarly(s, f, r) == r = s.len[f] - 1 \/ ~HasPage(s, f, r) \/ ~Record(s, f, r).exists

(* Mode 1: the first deleted entry, or else the page after the last entry, *)
(* unless that would be the first page of a cluster.                       *)
Unused(s, f, r) == r = s.len[f] \/ ~HasPage(s, f, r) \/ ~Record(s, f, r).exists
Slot(s, f) ==
  CHOOSE r \in 0 .. s.len[f] : Unused(s, f, r) /\ \A q \in 0 .. r - 1 : ~Unused(s, f, q)
\* Mutant: a deleted entry at the start of a cluster is not reused.
HasSlotInside(s, f) ==
  LET r == Slot(s, f) IN HasPage(s, f, r) /\ r % ClusterPages # 0

HasSlot(s, f) ==
  LET r == Slot(s, f) IN HasPage(s, f, r) /\ (r < s.len[f] \/ r % ClusterPages # 0)

(* AddFATRecord: the first free cluster, and the end of the chain. *)
FreeClusters(s) == {c \in Clusters : s.fat[c] = FREE}
FirstFree(s) == CHOOSE c \in FreeClusters(s) : \A d \in FreeClusters(s) : c <= d
ChainOf(s, f) == {ClusterAt(s, f, k) : k \in 0 .. NumClusters} \cap Clusters
EndOf(s, f) == {c \in ChainOf(s, f) : s.fat[c] = EOC}

(* A sound folder: its chain has one end, and that is the cluster of the   *)
(* last record; no cluster is in the chains of two folders.                *)
Sound(s) ==
  \A f \in Folders :
    /\ s.len[f] > 0 /\ HasPage(s, f, s.len[f] - 1)
    /\ EndOf(s, f) = {ClusterAt(s, f, (s.len[f] - 1) \div ClusterPages)}
    /\ \A g \in Folders \ {f} : ChainOf(s, f) \cap ChainOf(s, g) = {}

(* A session starts on a sound card, whose folders have no entry for an    *)
(* alias: the cleanup came before.  The original has been copied.          *)
ASSUME StartsAssumption ==
  \A from \in Installations :
    /\ Sound(from.fs)
    /\ \A a \in Aliases :
         Cardinality(Named(from.fs, FolderOf[a], a)) = IF a = from.original THEN 1 ELSE 0

\* Mutant: the original is in the list as well.
ListedAll(k) == k

(* The entries that are deleted again: all aliases but the original, in    *)
(* the order in which GenerateUninstallFile wrote them.                    *)
NumLinked == Cardinality(Aliases \ {original})
Listed(k) == IF k < original THEN k ELSE k + 1

InTurn == IF session = "create" THEN at ELSE Listed(at)
Folder == FolderOf[InTurn]
New == [name |-> InTurn, exists |-> TRUE]

-----------------------------------------------------------------------------
Init ==
  /\ \E from \in Installations : fs = from.fs /\ original = from.original
  /\ start = fs
  /\ systemArea = "intact" /\ failures = 0
  /\ session = "idle" /\ outcome = "none"
  /\ loop = 1 /\ next = 1 /\ left = 0 /\ ok = TRUE
  /\ iop = "idle" /\ at = 1 /\ last = 0 /\ made = 0 /\ target = 0

Fault(kind) == kind \in Faults /\ failures < MaxFailures /\ failures' = failures + 1

(* CreateCrossLinkedFiles of the EE: the aliases before the original, then *)
(* those after it.                                                         *)
BeginCreate ==
  /\ session = "idle" /\ outcome = "none"
  /\ \/ /\ session' = "create"
        /\ loop' = 1 /\ next' = 1 /\ left' = original - 1 /\ ok' = TRUE
        /\ UNCHANGED <<outcome, failures>>
     \/ /\ Fault("call") /\ outcome' = "failed"          \* MCToolsInitPageCache
        /\ UNCHANGED <<session, loop, next, left, ok>>
  /\ UNCHANGED <<cardVars, original, start, iopVars>>

Ready(s) == session = s /\ iop = "idle"

(* The EE copies what fits into a request and terminates the list. *)
SendBatch(count, end) ==
  /\ iop' = "batch" /\ at' = next /\ made' = 0
  /\ last' = LET fits == next + (IF count < MaxBatch THEN count ELSE MaxBatch) - 1
             IN  IF fits < end THEN fits ELSE end
  /\ UNCHANGED <<cardVars, original, start, failures, eeVars, target>>

(* The call returns an error, or MCTOOLS cannot read the superblock or the *)
(* entry of the original: the loop ends.                                   *)
CreateCall ==
  /\ Ready("create") /\ left > 0
  /\ \/ SendBatch(left, NumAliases)
     \/ /\ Fault("call") /\ ok' = FALSE /\ left' = 0
        /\ UNCHANGED <<cardVars, original, start, session, outcome, loop, next, iopVars>>

\* Mutant: FileIndex is not moved past the original.
LoopOneEndsAtOriginal ==
  /\ Ready("create") /\ left = 0 /\ loop = 1
  /\ loop' = 2
  /\ left' = IF NumAliases >= next THEN NumAliases - next + 1 ELSE 0
  /\ UNCHANGED <<cardVars, original, start, failures, session, outcome, next, ok, iopVars>>

LoopOneEnds ==
  /\ Ready("create") /\ left = 0 /\ loop = 1
  /\ loop' = 2 /\ next' = next + 1
  /\ left' = IF NumAliases > next THEN NumAliases - next ELSE 0
  /\ UNCHANGED <<cardVars, original, start, failures, session, outcome, ok, iopVars>>

(* The flush comes only after a success; its result is the last word. *)
LoopTwoEnds ==
  /\ Ready("create") /\ left = 0 /\ loop = 2
  /\ session' = "idle"
  /\ \/ outcome' = (IF ok THEN "linked" ELSE "failed") /\ UNCHANGED failures
     \/ ok /\ Fault("call") /\ outcome' = "failed"
  /\ UNCHANGED <<cardVars, original, start, loop, next, left, ok, iopVars>>

(* CleanupMultiInstallation: the list of the uninstall file, once.  What   *)
(* cannot be deleted is stepped over.                                      *)
BeginDelete ==
  /\ session = "idle" /\ outcome = "linked"
  /\ session' = "delete" /\ next' = 1
  /\ UNCHANGED <<cardVars, original, start, failures, outcome, loop, left, ok, iopVars>>

DeleteCall ==
  /\ Ready("delete") /\ next <= NumLinked
  /\ \/ SendBatch(NumLinked, NumLinked)
     \/ /\ Fault("call") /\ next' = next + 1
        /\ UNCHANGED <<cardVars, original, start, session, outcome, loop, left, ok, iopVars>>

DeleteEnds ==
  /\ Ready("delete") /\ next > NumLinked
  /\ session' = "idle" /\ outcome' = "unlinked"
  /\ UNCHANGED <<cardVars, original, start, failures, loop, next, left, ok, iopVars>>

-----------------------------------------------------------------------------
InBatch(s) == session = s /\ iop = "batch" /\ at <= last

Made == made' = made + 1 /\ at' = at + 1 /\ iop' = "batch"
NotMade == at' = at + 1 /\ iop' = "batch" /\ UNCHANGED made

(* CreateNewVirtualDirent.  An entry that reuses a deleted one is done. *)
CreateInSlot ==
  /\ InBatch("create") /\ HasSlot(fs, Folder)
  /\ LET r == Slot(fs, Folder)
     IN  /\ fs' = WithRecord(fs, Folder, r, New)
         /\ IF r < fs.len[Folder] THEN Made ELSE iop' = "count" /\ UNCHANGED <<at, made>>
  /\ UNCHANGED <<original, start, systemArea, failures, eeVars, last, target>>

NoSlot ==
  /\ InBatch("create") /\ ~HasSlot(fs, Folder)
  /\ iop' = "grow"
  /\ UNCHANGED <<cardVars, original, start, failures, eeVars, at, last, made, target>>

(* The folder cannot be read: the alias is left out.  Any error of the     *)
(* search or of the write is taken for a folder without a free page.       *)
SlotFails ==
  /\ InBatch("create") /\ Fault("card")
  /\ \/ NotMade /\ UNCHANGED fs
     \/ iop' = "grow" /\ UNCHANGED <<fs, at, made>>
     \/ /\ HasSlot(fs, Folder) /\ iop' = "grow"
        /\ fs' = WithRecord(fs, Folder, Slot(fs, Folder), New)
        /\ UNCHANGED <<at, made>>
  /\ UNCHANGED <<original, start, systemArea, eeVars, last, target>>

(* AddFATRecord returns its error as a cluster number, and alloc_start is  *)
(* added to that.                                                          *)
PlaceAt(cluster) == target' = Unsigned(Unsigned(cluster) + AllocStart) /\ iop' = "place"

Grow ==
  /\ iop = "grow"
  /\ IF FreeClusters(fs) = {} \/ EndOf(fs, Folder) = {}
     THEN PlaceAt(-EINVAL) /\ UNCHANGED fs
     ELSE \E end \in EndOf(fs, Folder) :
            /\ fs' = [fs EXCEPT !.fat[end] = FirstFree(fs)]
            /\ target' = FirstFree(fs) /\ iop' = "mark"
  /\ UNCHANGED <<original, start, systemArea, failures, eeVars, at, last, made>>

\* Mutant: the new cluster is not made the end of the chain.
MarkForgotten ==
  /\ iop = "mark"
  /\ PlaceAt(target)
  /\ UNCHANGED <<cardVars, original, start, failures, eeVars, at, last, made>>

Mark ==
  /\ iop = "mark"
  /\ fs' = [fs EXCEPT !.fat[target] = EOC]
  /\ PlaceAt(target)
  /\ UNCHANGED <<original, start, systemArea, failures, eeVars, at, last, made>>

GrowFails ==
  /\ iop \in {"grow", "mark"} /\ Fault("card")
  /\ \E e \in {1, EIO} : PlaceAt(-e)
  /\ \/ UNCHANGED fs
     \/ iop = "mark" /\ fs' = [fs EXCEPT !.fat[target] = EOC]
  /\ UNCHANGED <<original, start, systemArea, eeVars, at, last, made>>

(* The new entry becomes the first page of the target cluster. *)
Place ==
  IF target >= AllocStart
  THEN fs' = [fs EXCEPT !.pages[target - AllocStart][0] = New] /\ UNCHANGED systemArea
  ELSE systemArea' = "overwritten" /\ UNCHANGED fs

PlaceNew ==
  /\ iop = "place"
  /\ Place
  /\ iop' = "count"
  /\ UNCHANGED <<original, start, failures, eeVars, at, last, made, target>>

(* ParentDirEnt.length++ *)
Lengthen == fs' = [fs EXCEPT !.len[Folder] = @ + 1]

Count ==
  /\ iop = "count"
  /\ Lengthen /\ Made
  /\ UNCHANGED <<original, start, systemArea, failures, eeVars, last, target>>

(* A failed write of the entry, or of the length of the folder: it may     *)
(* have reached the page all the same, since a cluster is several pages.   *)
PlaceOrCountFails ==
  /\ iop \in {"place", "count"} /\ Fault("card")
  /\ NotMade
  /\ \/ UNCHANGED cardVars
     \/ iop = "place" /\ Place
     \/ iop = "count" /\ Lengthen /\ UNCHANGED systemArea
  /\ UNCHANGED <<original, start, eeVars, last, target>>

(* DeleteVirtualDirent clears the existence flag of the first match. *)
Unlinked == WithRecord(fs, Folder, FirstNamed(fs, Folder, InTurn), [New EXCEPT !.exists = FALSE])

Unlink ==
  /\ InBatch("delete")
  /\ IF Named(fs, Folder, InTurn) = {} THEN NotMade /\ UNCHANGED fs ELSE Made /\ fs' = Unlinked
  /\ UNCHANGED <<original, start, systemArea, failures, eeVars, last, target>>

UnlinkFails ==
  /\ InBatch("delete") /\ Fault("card")
  /\ NotMade
  /\ \/ UNCHANGED fs
     \/ Named(fs, Folder, InTurn) # {} /\ fs' = Unlinked
  /\ UNCHANGED <<original, start, systemArea, eeVars, last, target>>

(* The batch returns how many entries it made or deleted, and the EE moves *)
(* on by that many.                                                        *)
CreateReply ==
  /\ session = "create" /\ iop = "batch" /\ at > last
  /\ iop' = "idle"
  /\ IF made > 0
     THEN next' = next + made /\ left' = left - made /\ ok' = TRUE
     ELSE ok' = FALSE /\ left' = 0 /\ UNCHANGED next
  /\ UNCHANGED <<cardVars, original, start, failures, session, outcome, loop, at, last, made, target>>

\* Mutant: what cannot be deleted is tried again.
DeleteReplyWithoutStep ==
  /\ session = "delete" /\ iop = "batch" /\ at > last
  /\ iop' = "idle"
  /\ next' = next + made
  /\ UNCHANGED <<cardVars, original, start, failures, session, outcome, loop, left, ok, at, last, made, target>>

DeleteReply ==
  /\ session = "delete" /\ iop = "batch" /\ at > last
  /\ iop' = "idle"
  /\ next' = next + (IF made > 0 THEN made ELSE 1)
  /\ UNCHANGED <<cardVars, original, start, failures, session, outcome, loop, left, ok, at, last, made, target>>

Over == session = "idle" /\ outcome \in {"failed", "unlinked"} /\ UNCHANGED vars

MctoolsNext ==
  \/ CreateInSlot \/ NoSlot \/ SlotFails \/ Grow \/ Mark \/ GrowFails \/ PlaceNew \/ Count
  \/ PlaceOrCountFails \/ Unlink \/ UnlinkFails
EENext ==
  \/ BeginCreate \/ CreateCall \/ CreateReply \/ LoopOneEnds \/ LoopTwoEnds
  \/ BeginDelete \/ DeleteCall \/ DeleteReply \/ DeleteEnds
Next == EENext \/ MctoolsNext \/ Over

Spec == Init /\ [][Next]_vars

(* The EE waits for MCTOOLS in the call; both run on until the session is  *)
(* over.                                                                   *)
FairSpec == Spec /\ WF_vars(EENext \/ MctoolsNext)

-----------------------------------------------------------------------------
(* The variables have their types. *)
TypeOK ==
  /\ fs \in FileSystem /\ start \in FileSystem /\ original \in 1 .. NumAliases + 1
  /\ systemArea \in {"intact", "overwritten"} /\ failures \in 0 .. MaxFailures
  /\ session \in {"idle", "create", "delete"}
  /\ outcome \in {"none", "linked", "failed", "unlinked"}
  /\ loop \in {1, 2} /\ next \in 1 .. NumAliases + 2 /\ left \in 0 .. NumAliases
  /\ ok \in BOOLEAN
  /\ iop \in {"idle", "batch", "grow", "mark", "place", "count"}
  /\ at \in 1 .. NumAliases + 1 /\ last \in 0 .. NumAliases /\ made \in 0 .. NumAliases
  /\ target \in 0 .. Word - 1

(* When nothing failed and the card had room, every folder is sound again  *)
(* after each batch, though the FAT, the pages and the length were edited  *)
(* one after the other.                                                    *)
FoldersSound == failures = 0 /\ systemArea = "intact" /\ iop = "idle" => Sound(fs)

(* A multi-installation that reports success without a failure has made    *)
(* exactly one entry for every alias, in its own folder, and none for the  *)
(* original, however the aliases were cut into loops and batches.          *)
LinkedOnce ==
  outcome = "linked" /\ session = "idle" /\ failures = 0 /\ systemArea = "intact" =>
    \A a \in Aliases : Cardinality(Named(fs, FolderOf[a], a)) = 1

(* Deleting them again leaves the original alone, when nothing failed. *)
UnlinkedAll ==
  outcome = "unlinked" /\ failures = 0 /\ systemArea = "intact" =>
    \A a \in Aliases : Cardinality(Named(fs, FolderOf[a], a)) = IF a = original THEN 1 ELSE 0

(* Whatever fails, no entry that was there at the start is touched, of the *)
(* original or of others, nor a cluster in use by something other than the *)
(* system folders; of what lies before AllocStart see SystemAreaIntact.    *)
InUse(s, f) == {r \in 0 .. s.len[f] - 1 : HasPage(s, f, r) /\ Record(s, f, r).exists}
InChains(s) == UNION {ChainOf(s, f) : f \in Folders}
ForeignDataKept ==
  /\ \A f \in Folders : \A r \in InUse(start, f) :
       HasPage(fs, f, r) /\ Record(fs, f, r) = Record(start, f, r)
  /\ \A c \in Clusters \ InChains(start) :
       start.fat[c] # FREE => fs.fat[c] = start.fat[c] /\ fs.pages[c] = start.pages[c]

(* A sound card with a free cluster for every ClusterPages aliases of a    *)
(* folder is enough: the error of AddFATRecord is never reached.           *)
NewIn(f) == Cardinality({a \in Aliases \ {original} : FolderOf[a] = f})
RoomFor ==
  Cardinality({p \in Folders \X (0 .. NumAliases - 1) : p[2] * ClusterPages < NewIn(p[1])})
RoomSuffices == failures = 0 /\ Cardinality(FreeClusters(start)) >= RoomFor => systemArea = "intact"

(* Every session comes to an end, also when batches make nothing or less   *)
(* than they were asked for.                                               *)
SessionEnds == \A s \in {"create", "delete"} : session = s ~> session = "idle"

(* "Returns 0 on error", and 0 is what CreateNewVirtualDirent checks: an   *)
(* error of AddFATRecord is never used as a cluster.                       *)
SystemAreaIntact == systemArea = "intact"

(* "CREATING AN ENTRY OF AN EXISTING ENTRY MIGHT CAUSE DATA LOSS": an      *)
(* installation that reports success has made no entry a second time.      *)
NoEntryTwice ==
  outcome = "linked" => \A a \in Aliases : Cardinality(Named(fs, FolderOf[a], a)) <= 1
=============================================================================
