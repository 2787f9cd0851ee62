------------------------------ MODULE CopyFiles ------------------------------
(***************************************************************************)
(* CopyFiles and SyncMCFileWrite (system.c): the copy loop of the memory   *)
(* card installation.  The write of a file is only started in its turn of  *)
(* the loop; it goes on while the next file is read and is waited for,     *)
(* closed and its buffer freed in a later turn, or after the loop.  What   *)
(* has to survive from turn to turn is in McFileFD, PrevFileSize, buffer.  *)
(*                                                                         *)
(* libmc (not part of the repository) runs one command at a time: a call   *)
(* made while a command is outstanding is refused, and mcSync returns the  *)
(* result of the outstanding one.                                          *)
(***************************************************************************)
EXTENDS Integers, Sequences

CONSTANTS MaxEntries,   \* length of the longest FileCopyList
          Kinds,        \* "file", "kelf", "empty", "dir", "skip"
          Faults        \* "source", "memory", "card", "sign"

ASSUME EntriesAssumption == MaxEntries \in Nat
ASSUME KindsAssumption == Kinds \subseteq {"file", "kelf", "empty", "dir", "skip"}
ASSUME FaultsAssumption == Faults \subseteq {"source", "memory", "card", "sign"}

VARIABLES
  list,        \* FileCopyList: the kinds of its entries
  i,           \* the entry in turn
  pc,          \* "entry", "loaded", "signing", "creating" or "returned"
  result,
  why,         \* which part of the work the failure was in, for the properties
  fd,          \* McFileFD, named by its entry; 0 before the first mcOpen
  prev,        \* PrevFileSize > 0
  buffer,      \* the entry whose content buffer points to; 0 is NULL
  live,        \* buffers allocated, by entry
  freedTwice,  \* was a buffer freed that was not allocated?
  open,        \* files open on the memory card
  write,       \* the outstanding mcWrite: into which file, from which buffer
  target       \* [Entries -> what is on the card]

ownVars == <<fd, prev, buffer, live, freedTwice>>
cardVars == <<open, write, target>>
vars == <<list, i, pc, result, why, ownVars, cardVars>>

Entries == 1 .. MaxEntries
FileKinds == {"file", "kelf", "empty"}
NoWrite == [file |-> 0, from |-> 0, state |-> "none"]
StartWrite(f) == write' = [file |-> f, from |-> i, state |-> "busy"]

(* Error codes, and x | bit for a negative x in two's complement. *)
EIO == 5
ENOENT == 2
ENOMEM == 12
EEXTMGSIGNERR == 4096
ERROR_SIDE_SRC == 32768
SetBit(x, bit) == IF x % (2 * bit) >= bit THEN x ELSE x + bit

Init ==
  /\ list \in UNION {[1 .. n -> Kinds] : n \in 0 .. MaxEntries}
  /\ i = 1 /\ pc = "entry" /\ result = 0 /\ why = "none"
  /\ fd = 0 /\ prev = FALSE /\ buffer = 0 /\ live = {} /\ freedTwice = FALSE
  /\ open = {} /\ write = NoWrite
  /\ target = [e \in Entries |-> "absent"]

InLoop == pc = "entry" /\ i <= Len(list)
Kind == list[i]

Fail(part, r) == pc' = "returned" /\ result' = r /\ why' = part /\ UNCHANGED i
Go(p) == pc' = p /\ UNCHANGED <<i, why>>
Advance == pc' = "entry" /\ i' = i + 1 /\ UNCHANGED why

(* The result SyncMCFileWrite computes: that of the outstanding write, or, *)
(* when there is none, the 0 it started from.                              *)
SyncResult == IF write.state = "failed" THEN -EIO ELSE 0

\* Mutant: the file is closed and its buffer freed before the write has ended.
SyncWithoutWaiting ==
  /\ open' = open \ {fd}
  /\ live' = live \ {buffer}
  /\ freedTwice' = (freedTwice \/ (buffer # 0 /\ buffer \notin live))
  /\ UNCHANGED <<fd, buffer, write, target>>

\* Mutant: the file is not closed.
SyncWithoutClose ==
  /\ write.state # "busy"
  /\ write' = NoWrite
  /\ live' = live \ {buffer}
  /\ freedTwice' = (freedTwice \/ (buffer # 0 /\ buffer \notin live))
  /\ UNCHANGED <<fd, buffer, open, target>>

(* SyncMCFileWrite: wait, close, free. *)
Sync ==
  /\ write.state # "busy"
  /\ write' = NoWrite
  /\ open' = open \ {fd}
  /\ live' = live \ {buffer}
  /\ freedTwice' = (freedTwice \/ (buffer # 0 /\ buffer \notin live))
  /\ UNCHANGED <<fd, buffer, target>>

-----------------------------------------------------------------------------
\* Mutant: the result of the write is not looked at.
SyncBeforeUnchecked ==
  /\ InLoop /\ Kind \in {"skip", "dir"} /\ prev
  /\ Sync
  /\ prev' = FALSE /\ UNCHANGED result /\ Go("entry")
  /\ UNCHANGED list

(* FILE_SKIP entries and directories first finish the file before them. *)
SyncBefore ==
  /\ InLoop /\ Kind \in {"skip", "dir"} /\ prev
  /\ Sync
  /\ IF SyncResult < 0 THEN Fail("write", SyncResult) /\ UNCHANGED prev
     ELSE prev' = FALSE /\ result' = SyncResult /\ Go("entry")
  /\ UNCHANGED list

Skip ==
  /\ InLoop /\ Kind = "skip" /\ ~prev
  /\ Advance
  /\ UNCHANGED <<list, result, ownVars, cardVars>>

(* A refused mcMkDir returns the command outstanding, which is no error. *)
MkDir ==
  /\ InLoop /\ Kind = "dir" /\ ~prev
  /\ \/ /\ write = NoWrite
        /\ result' = 0 /\ target' = [target EXCEPT ![i] = "whole"] /\ Advance
     \/ /\ write # NoWrite
        /\ result' = 1 /\ UNCHANGED target /\ Advance
     \/ /\ write = NoWrite /\ "card" \in Faults
        /\ Fail("mkdir", -EIO) /\ UNCHANGED target
  /\ UNCHANGED <<list, ownVars, open, write>>

(* fopen, memalign, fread into NextFileBuf. *)
Load ==
  /\ InLoop /\ Kind \in FileKinds
  /\ \/ Go("loaded") /\ live' = live \cup {i} /\ UNCHANGED result
     \/ "source" \in Faults /\ Fail("load", SetBit(-ENOENT, ERROR_SIDE_SRC)) /\ UNCHANGED live
     \/ "source" \in Faults /\ Fail("load", SetBit(-EIO, ERROR_SIDE_SRC)) /\ live' = live \cup {i}
     \/ "memory" \in Faults /\ Fail("load", -ENOMEM) /\ UNCHANGED live
  /\ UNCHANGED <<list, fd, prev, buffer, freedTwice, cardVars>>

(* The file before is finished once this one has been read. *)
SyncAfterLoad ==
  /\ pc = "loaded" /\ prev
  /\ Sync
  /\ IF SyncResult < 0 THEN Fail("write", SyncResult) ELSE Go("signing") /\ result' = SyncResult
  /\ UNCHANGED <<list, prev>>

NothingToSync ==
  /\ pc = "loaded" /\ ~prev
  /\ Go("signing")
  /\ UNCHANGED <<list, result, ownVars, cardVars>>

(* SignKELF returns 1; TwinSignKELF takes the place of it for a PSX. *)
Sign ==
  /\ pc = "signing"
  /\ \/ /\ Go("creating")
        /\ result' = IF Kind = "kelf" THEN 1 ELSE result
        /\ UNCHANGED live
     \/ Kind = "kelf" /\ "sign" \in Faults /\ Fail("sign", -EEXTMGSIGNERR) /\ live' = live \ {i}
  /\ UNCHANGED <<list, fd, prev, buffer, freedTwice, cardVars>>

(* mcOpen, mcSync, and mcWrite without waiting for it.  When a command is  *)
(* outstanding, which only the write of an empty file can be (PrevFileSize *)
(* is 0 then), mcOpen is refused, and the mcSync after it takes the result *)
(* of that command for the descriptor: 0, that of the empty file.          *)
Create ==
  /\ pc = "creating"
  /\ buffer' = i
  /\ \/ /\ write = NoWrite
        /\ fd' = i /\ open' = open \cup {i}
        /\ target' = [target EXCEPT ![i] = "created"]
        /\ StartWrite(i)
        /\ prev' = (Kind # "empty")
        /\ Advance /\ UNCHANGED result
     \/ /\ write.state = "done"
        /\ fd' = write.file /\ StartWrite(write.file)
        /\ prev' = (Kind # "empty")
        /\ Advance /\ UNCHANGED <<result, open, target>>
     \/ /\ \/ write = NoWrite /\ "card" \in Faults
           \/ write.state = "failed"
        /\ fd' = 0 /\ Fail("create", -EIO)
        /\ write' = NoWrite
        /\ UNCHANGED <<open, target, prev>>
  /\ UNCHANGED <<list, live, freedTwice>>

\* Mutant: the last write is only waited for when a file came last.
FinalSyncSometimes ==
  /\ pc = "entry" /\ i > Len(list)
  /\ IF i > 1 /\ list[i - 1] = "file" THEN Sync ELSE UNCHANGED <<ownVars, cardVars>>
  /\ Go("returned") /\ UNCHANGED <<list, result, prev>>

(* After the loop the last write is waited for, whatever the list ended in. *)
FinalSync ==
  /\ pc = "entry" /\ i > Len(list)
  /\ Sync
  /\ Go("returned") /\ result' = SyncResult
  /\ UNCHANGED <<list, prev>>

(* The card carries the write out, or fails or runs short of space. *)
CardWrites ==
  /\ write.state = "busy"
  /\ \/ /\ write' = [write EXCEPT !.state = "done"]
        /\ target' = [target EXCEPT ![write.file] =
                        IF write.from = write.file THEN "whole" ELSE "foreign"]
     \/ "card" \in Faults /\ write' = [write EXCEPT !.state = "failed"] /\ UNCHANGED target
  /\ UNCHANGED <<list, i, pc, result, why, ownVars, open>>

Returned == pc = "returned" /\ UNCHANGED vars

Next ==
  \/ SyncBefore \/ Skip \/ MkDir \/ Load \/ SyncAfterLoad \/ NothingToSync \/ Sign \/ Create
  \/ FinalSync \/ CardWrites \/ Returned

Spec == Init /\ [][Next]_vars

-----------------------------------------------------------------------------
(* The variables have their types. *)
TypeOK ==
  /\ list \in Seq(Kinds) /\ Len(list) <= MaxEntries
  /\ i \in 1 .. MaxEntries + 1
  /\ pc \in {"entry", "loaded", "signing", "creating", "returned"}
  /\ result \in Int
  /\ why \in {"none", "load", "write", "mkdir", "sign", "create"}
  /\ fd \in 0 .. MaxEntries /\ buffer \in 0 .. MaxEntries
  /\ prev \in BOOLEAN /\ freedTwice \in BOOLEAN
  /\ live \subseteq Entries /\ open \subseteq Entries
  /\ write \in [file : 0 .. MaxEntries, from : 0 .. MaxEntries,
                state : {"none", "busy", "done", "failed"}]
  /\ target \in [Entries -> {"absent", "created", "whole", "foreign"}]

(* "so skipping never drops data": when CopyFiles returns success, every   *)
(* file and directory of the list is whole on the card, though each write  *)
(* was finished by whatever entry came after it.  An empty file leaves a   *)
(* command outstanding that no later turn waits for; what is promised ends *)
(* at the first one of the list.                                           *)
UpToEmptyFile(e) == \A d \in 1 .. e : list[d] # "empty"

SkippingNeverDropsData ==
  pc = "returned" /\ result >= 0 =>
    \A e \in DOMAIN list :
      list[e] # "skip" /\ UpToEmptyFile(e) => target[e] = "whole"

(* The buffer the card is reading from is not freed under it, and a buffer *)
(* is only reached through the descriptor of the file written from it.     *)
WriteKeepsItsBuffer == write.state = "busy" => write.from \in live /\ buffer = write.from

(* Only one file is open on the card at a time, the one being written: the *)
(* descriptor of an open file is never overwritten.                        *)
OneFileOpen == pc # "returned" => open \subseteq {fd}

(* No file stays open on the card when the copy ends, however it ends,     *)
(* unless what failed was the loading of a later file: that path does not  *)
(* wait for the write that is under way.                                   *)
ClosedUnlessLoadFailed ==
  pc = "returned" /\ why # "load" /\ (\A d \in 1 .. i - 1 : list[d] # "empty") => open = {}

(* The same without the two exceptions.  Both fail: the write of an empty  *)
(* file, and that before a file that cannot be loaded, is waited for by    *)
(* nobody.                                                                 *)
EveryFileWhole ==
  pc = "returned" /\ result >= 0 => \A e \in DOMAIN list : list[e] # "skip" => target[e] = "whole"
ClosedAtEnd == pc = "returned" => open = {}

(* A pending write is flushed once, "exactly as the directory case": the   *)
(* buffer of a file is not freed a second time.                            *)
NothingFreedTwice == ~freedTwice
=============================================================================
