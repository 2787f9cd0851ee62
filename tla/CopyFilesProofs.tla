--------------------------- MODULE CopyFilesProofs ---------------------------
(***************************************************************************)
(* The copy loop for lists of every length, of any kinds of entries and    *)
(* under any faults.  What the loop carries from turn to turn is the write *)
(* that is outstanding and PrevFileSize, which says whether a later turn   *)
(* will wait for it; the invariant ties the two to the descriptor, the     *)
(* buffer and the files that are open.                                     *)
(***************************************************************************)
EXTENDS CopyFiles, TLAPS

Copying == pc # "returned"
Pending == write # NoWrite

(* Where in the list the loop is, and that it has an entry in hand. *)
Turn ==
  /\ i <= Len(list) + 1
  /\ pc \in {"loaded", "signing", "creating"} =>
       i <= Len(list) /\ i \in live /\ Kind \in FileKinds
  /\ Copying => buffer < i

(* The outstanding write is of the file behind McFileFD, from the buffer   *)
(* that is still allocated.                                                *)
WriteInHand ==
  /\ write.state = "none" <=> write = NoWrite
  /\ Pending => /\ write.file \in 1 .. i - 1 /\ write.from \in 1 .. i - 1
                /\ fd = write.file /\ buffer = write.from /\ write.from \in live

(* Only the write of an empty file is outstanding without PrevFileSize, or *)
(* past the point where the file before is waited for; and only into an    *)
(* empty file goes what was read for another one.                          *)
OnlyEmptyUnwaited ==
  Pending => \/ list[write.file] = "empty"
             \/ /\ write.from = write.file
                /\ Copying => prev /\ pc \notin {"signing", "creating"}

OpenIsWritten == Copying => open \subseteq {fd} /\ (~Pending => open = {})

(* An entry the loop has passed is whole, or its write is outstanding. *)
PassedIsWhole ==
  Copying \/ result >= 0 =>
    \A e \in 1 .. i - 1 :
      list[e] # "skip" /\ UpToEmptyFile(e) =>
        target[e] = "whole" \/ (write.file = e /\ write.state \in {"busy", "failed"})

SucceedsAtTheEnd == pc = "returned" /\ result >= 0 => i = Len(list) + 1 /\ ~Pending

IInv ==
  /\ TypeOK /\ Turn /\ WriteInHand /\ OnlyEmptyUnwaited
  /\ OpenIsWritten /\ ClosedUnlessLoadFailed /\ PassedIsWhole /\ SucceedsAtTheEnd
-----------------------------------------------------------------------------
(* A small negative number, divided by n, leaves what it lacks to n. *)
LEMMA Division ==
  ASSUME NEW n \in Nat, NEW x \in Int, x < 0, n + x >= 0
  PROVE  x % n = n + x
<1>1. PICK q \in Int, r \in Int : q = x \div n /\ r = x % n /\ x = n * q + r /\ 0 <= r /\ r < n
  OBVIOUS
<1>2. q < 0
  <2>1. q >= 0 => n * q >= 0
    BY <1>1
  <2> QED
    BY <1>1, <2>1
<1>3. q > -2
  <2>1. q + 2 <= 0 => n * (q + 2) <= 0
    BY <1>1
  <2>2. n * (q + 2) = n * q + n + n
    BY <1>1
  <2> QED
    BY <1>1, <2>1, <2>2
<1>4. n * (-1) = -n
  OBVIOUS
<1> QED
  BY <1>1, <1>2, <1>3, <1>4

(* A negative error code stays as it is when the side bit is set. *)
LEMMA SideBitOfError ==
  ASSUME NEW bit \in Nat, NEW x \in Int, x < 0, bit + x >= 0
  PROVE  SetBit(x, bit) = x
<1>1. x % (2 * bit) = 2 * bit + x
  BY Division
<1>2. 2 * bit + x >= bit
  OBVIOUS
<1> QED
  BY <1>1, <1>2 DEF SetBit

LEMMA LoadFails ==
  /\ SetBit(-ENOENT, ERROR_SIDE_SRC) \in Int /\ SetBit(-ENOENT, ERROR_SIDE_SRC) < 0
  /\ SetBit(-EIO, ERROR_SIDE_SRC) \in Int /\ SetBit(-EIO, ERROR_SIDE_SRC) < 0
<1>1. /\ ERROR_SIDE_SRC \in Nat /\ -ENOENT \in Int /\ -EIO \in Int
      /\ -ENOENT < 0 /\ ERROR_SIDE_SRC + (-ENOENT) >= 0
      /\ -EIO < 0 /\ ERROR_SIDE_SRC + (-EIO) >= 0
  BY DEF ENOENT, EIO, ERROR_SIDE_SRC
<1>2. SetBit(-ENOENT, ERROR_SIDE_SRC) = -ENOENT
  BY <1>1, SideBitOfError
<1>3. SetBit(-EIO, ERROR_SIDE_SRC) = -EIO
  BY <1>1, SideBitOfError
<1> QED
  BY <1>1, <1>2, <1>3

LEMMA InitInv == Init => IInv
<1> SUFFICES ASSUME Init PROVE IInv
  OBVIOUS
<1> USE EntriesAssumption
<1>1. PICK n \in 0 .. MaxEntries : list \in [1 .. n -> Kinds]
  BY DEF Init
<1>2. list \in Seq(Kinds) /\ Len(list) = n
  BY <1>1
<1>3. TypeOK
  <2>1. prev \in BOOLEAN /\ freedTwice \in BOOLEAN
    BY Zenon DEF Init
  <2>2. write \in [file : 0 .. MaxEntries, from : 0 .. MaxEntries,
                   state : {"none", "busy", "done", "failed"}]
    BY DEF Init, NoWrite
  <2> QED
    BY <1>2, <2>1, <2>2 DEF Init, TypeOK, Entries
<1>4. Turn /\ WriteInHand /\ OnlyEmptyUnwaited /\ OpenIsWritten
  BY <1>2 DEF Init, Turn, WriteInHand, OnlyEmptyUnwaited, OpenIsWritten, Pending, Copying, NoWrite
<1>5. ClosedUnlessLoadFailed /\ PassedIsWhole /\ SucceedsAtTheEnd
  BY DEF Init, ClosedUnlessLoadFailed, PassedIsWhole, SucceedsAtTheEnd
<1> QED
  BY <1>3, <1>4, <1>5 DEF IInv

LEMMA SyncBeforeStep == IInv /\ SyncBefore => IInv'
<1> SUFFICES ASSUME IInv, SyncBefore PROVE IInv'
  OBVIOUS
<1> USE EntriesAssumption DEF IInv
<1>1. CASE SyncResult < 0
  <2>1. InLoop /\ Kind \in {"skip", "dir"} /\ prev /\ Sync /\ Fail("write", SyncResult)
        /\ prev' /\ prev' \in BOOLEAN /\ list' = list
    BY <1>1, Zenon DEF SyncBefore
  <2> USE DEF InLoop, Kind, Sync, SyncResult, EIO, Fail
  <2>2. TypeOK'
    BY <1>1, <2>1 DEF TypeOK, Entries, NoWrite
  <2>3. Turn'
    BY <1>1, <2>1 DEF TypeOK, Turn, Copying
  <2>4. WriteInHand'
    BY <2>1 DEF WriteInHand, Pending, NoWrite
  <2>5. OnlyEmptyUnwaited'
    BY <1>1, <2>1 DEF TypeOK, Turn, WriteInHand, OnlyEmptyUnwaited, Copying, Pending, NoWrite
  <2>6. OpenIsWritten'
    BY <1>1, <2>1 DEF TypeOK, OpenIsWritten, WriteInHand, Copying, Pending, NoWrite
  <2>7. ClosedUnlessLoadFailed'
    BY <1>1, <2>1 DEF TypeOK, Turn, OpenIsWritten, ClosedUnlessLoadFailed, Copying, Pending, NoWrite
  <2>8. PassedIsWhole'
    BY <1>1, <2>1 DEF TypeOK, Turn, WriteInHand, PassedIsWhole, UpToEmptyFile, Copying, Pending,
        NoWrite
  <2>9. SucceedsAtTheEnd'
    BY <1>1, <2>1 DEF TypeOK, Turn, SucceedsAtTheEnd, Copying, Pending, NoWrite
  <2> QED
    BY <2>2, <2>3, <2>4, <2>5, <2>6, <2>7, <2>8, <2>9
<1>2. CASE ~(SyncResult < 0)
  <2>1. InLoop /\ Kind \in {"skip", "dir"} /\ prev /\ Sync /\ Go("entry")
        /\ ~prev' /\ prev' \in BOOLEAN /\ result' = SyncResult /\ list' = list
    BY <1>2, Zenon DEF SyncBefore
  <2> USE DEF InLoop, Kind, Sync, SyncResult, EIO, Go
  <2>2. TypeOK'
    BY <1>2, <2>1 DEF TypeOK, Entries, NoWrite
  <2>3. Turn'
    BY <1>2, <2>1 DEF TypeOK, Turn, Copying
  <2>4. WriteInHand'
    BY <2>1 DEF WriteInHand, Pending, NoWrite
  <2>5. OnlyEmptyUnwaited'
    BY <1>2, <2>1 DEF TypeOK, Turn, WriteInHand, OnlyEmptyUnwaited, Copying, Pending, NoWrite
  <2>6. OpenIsWritten'
    BY <1>2, <2>1 DEF TypeOK, OpenIsWritten, WriteInHand, Copying, Pending, NoWrite
  <2>7. ClosedUnlessLoadFailed'
    BY <1>2, <2>1 DEF TypeOK, Turn, OpenIsWritten, ClosedUnlessLoadFailed, Copying, Pending, NoWrite
  <2>8. PassedIsWhole'
    BY <1>2, <2>1 DEF TypeOK, Turn, WriteInHand, PassedIsWhole, UpToEmptyFile, Copying, Pending,
        NoWrite
  <2>9. SucceedsAtTheEnd'
    BY <1>2, <2>1 DEF TypeOK, Turn, SucceedsAtTheEnd, Copying, Pending, NoWrite
  <2> QED
    BY <2>2, <2>3, <2>4, <2>5, <2>6, <2>7, <2>8, <2>9
<1> QED
  BY <1>1, <1>2

LEMMA SkipStep == IInv /\ Skip => IInv'
<1> SUFFICES ASSUME IInv, Skip PROVE IInv'
  OBVIOUS
<1> USE EntriesAssumption DEF IInv, Skip, InLoop, Kind, Advance, ownVars, cardVars, Copying,
    Pending, NoWrite
<1>1. TypeOK'
  BY DEF TypeOK, Entries
<1>2. Turn'
  BY DEF TypeOK, Turn
<1>3. WriteInHand'
  BY DEF TypeOK, Turn, WriteInHand
<1>4. OnlyEmptyUnwaited'
  BY DEF TypeOK, Turn, WriteInHand, OnlyEmptyUnwaited
<1>5. OpenIsWritten'
  BY DEF TypeOK, OpenIsWritten, WriteInHand
<1>6. ClosedUnlessLoadFailed'
  BY DEF TypeOK, Turn, WriteInHand, OnlyEmptyUnwaited, OpenIsWritten, ClosedUnlessLoadFailed
<1>7. PassedIsWhole'
  BY DEF TypeOK, Turn, WriteInHand, OnlyEmptyUnwaited, PassedIsWhole, UpToEmptyFile, Entries
<1>8. SucceedsAtTheEnd'
  BY DEF TypeOK, Turn, SucceedsAtTheEnd
<1> QED
  BY <1>1, <1>2, <1>3, <1>4, <1>5, <1>6, <1>7, <1>8

LEMMA MkDirStep == IInv /\ MkDir => IInv'
<1> SUFFICES ASSUME IInv, MkDir PROVE IInv'
  OBVIOUS
<1> USE EntriesAssumption DEF IInv, Copying, Pending, NoWrite,
      MkDir, InLoop, Kind, Advance, Fail, EIO, ownVars
<1>1. TypeOK'
  BY DEF TypeOK, Entries
<1>2. Turn'
  BY DEF TypeOK, Turn
<1>3. WriteInHand'
  BY DEF TypeOK, Turn, WriteInHand
<1>4. OnlyEmptyUnwaited'
  BY DEF TypeOK, Turn, WriteInHand, OnlyEmptyUnwaited
<1>5. OpenIsWritten'
  BY DEF TypeOK, OpenIsWritten, WriteInHand
<1>6. ClosedUnlessLoadFailed'
  BY DEF TypeOK, Turn, WriteInHand, OnlyEmptyUnwaited, OpenIsWritten, ClosedUnlessLoadFailed
<1>7. PassedIsWhole'
  BY DEF TypeOK, Turn, WriteInHand, OnlyEmptyUnwaited, PassedIsWhole, UpToEmptyFile, Entries
<1>8. SucceedsAtTheEnd'
  BY DEF TypeOK, Turn, SucceedsAtTheEnd
<1> QED
  BY <1>1, <1>2, <1>3, <1>4, <1>5, <1>6, <1>7, <1>8

LEMMA LoadStep == IInv /\ Load => IInv'
<1> SUFFICES ASSUME IInv, Load PROVE IInv'
  OBVIOUS
<1> USE EntriesAssumption DEF IInv, Copying, Pending, NoWrite,
      Load, InLoop, Kind, FileKinds, Go, Fail, ENOMEM, cardVars
<1>1. TypeOK'
  <2>1. prev' \in BOOLEAN /\ freedTwice' \in BOOLEAN
    BY Zenon DEF TypeOK, Load
  <2>2. list' \in Seq(Kinds) /\ Len(list') <= MaxEntries /\ i' \in 1 .. MaxEntries + 1
        /\ pc' \in {"entry", "loaded", "signing", "creating", "returned"} /\ result' \in Int
        /\ why' \in {"none", "load", "write", "mkdir", "sign", "create"}
    BY LoadFails DEF TypeOK, Turn
  <2>3. i \in Entries /\ live \subseteq Entries
    BY DEF TypeOK, Turn, Entries
  <2>4. fd' \in 0 .. MaxEntries /\ buffer' \in 0 .. MaxEntries
    BY <2>3 DEF TypeOK, Entries
  <2>5. live' \subseteq Entries
    <3>1. live' = live \/ live' = live \cup {i}
      OBVIOUS
    <3> QED
      BY <2>3, <3>1
  <2>6. open' \subseteq Entries
    BY <2>3 DEF TypeOK
  <2>7. /\ write' \in [file : 0 .. MaxEntries, from : 0 .. MaxEntries,
                       state : {"none", "busy", "done", "failed"}]
        /\ target' \in [Entries -> {"absent", "created", "whole", "foreign"}]
    BY DEF TypeOK, Turn, Entries
  <2> QED
    BY <2>1, <2>2, <2>4, <2>5, <2>6, <2>7 DEF TypeOK
<1>2. Turn'
  BY LoadFails DEF TypeOK, Turn
<1>3. WriteInHand'
  BY LoadFails DEF TypeOK, Turn, WriteInHand
<1>4. OnlyEmptyUnwaited'
  BY LoadFails DEF TypeOK, Turn, WriteInHand, OnlyEmptyUnwaited
<1>5. OpenIsWritten'
  BY LoadFails DEF TypeOK, OpenIsWritten, WriteInHand
<1>6. ClosedUnlessLoadFailed'
  BY LoadFails DEF TypeOK, Turn, WriteInHand, OnlyEmptyUnwaited, OpenIsWritten,
      ClosedUnlessLoadFailed
<1>7. PassedIsWhole'
  BY LoadFails DEF TypeOK, Turn, WriteInHand, OnlyEmptyUnwaited, PassedIsWhole, UpToEmptyFile,
      Entries
<1>8. SucceedsAtTheEnd'
  BY LoadFails DEF TypeOK, Turn, SucceedsAtTheEnd
<1> QED
  BY <1>1, <1>2, <1>3, <1>4, <1>5, <1>6, <1>7, <1>8

LEMMA SyncAfterLoadStep == IInv /\ SyncAfterLoad => IInv'
<1> SUFFICES ASSUME IInv, SyncAfterLoad PROVE IInv'
  OBVIOUS
<1> USE EntriesAssumption DEF IInv, SyncAfterLoad, Sync, SyncResult, EIO, Fail, Go, Copying,
    Pending, NoWrite
<1>1. TypeOK'
  BY DEF TypeOK, Entries
<1>2. Turn'
  BY DEF TypeOK, Turn, Kind
<1>3. WriteInHand'
  BY DEF TypeOK, Turn, WriteInHand
<1>4. OnlyEmptyUnwaited'
  BY DEF TypeOK, Turn, WriteInHand, OnlyEmptyUnwaited
<1>5. OpenIsWritten'
  BY DEF TypeOK, OpenIsWritten, WriteInHand
<1>6. ClosedUnlessLoadFailed'
  BY DEF TypeOK, Turn, WriteInHand, OnlyEmptyUnwaited, OpenIsWritten, ClosedUnlessLoadFailed
<1>7. PassedIsWhole'
  BY DEF TypeOK, Turn, WriteInHand, OnlyEmptyUnwaited, PassedIsWhole, UpToEmptyFile, Entries
<1>8. SucceedsAtTheEnd'
  BY DEF TypeOK, Turn, SucceedsAtTheEnd
<1> QED
  BY <1>1, <1>2, <1>3, <1>4, <1>5, <1>6, <1>7, <1>8

LEMMA NothingToSyncStep == IInv /\ NothingToSync => IInv'
<1> SUFFICES ASSUME IInv, NothingToSync PROVE IInv'
  OBVIOUS
<1> USE EntriesAssumption DEF IInv, NothingToSync, Go, ownVars, cardVars, Copying, Pending, NoWrite
<1>1. TypeOK'
  <2>1. prev' \in BOOLEAN /\ freedTwice' \in BOOLEAN
    <3>1. prev' = prev /\ freedTwice' = freedTwice
      OBVIOUS
    <3> QED
      BY <3>1, Zenon DEF TypeOK
  <2>2. list' \in Seq(Kinds) /\ Len(list') <= MaxEntries /\ i' \in 1 .. MaxEntries + 1
        /\ pc' \in {"entry", "loaded", "signing", "creating", "returned"} /\ result' \in Int
        /\ why' \in {"none", "load", "write", "mkdir", "sign", "create"}
    BY DEF TypeOK, Turn
  <2>3. fd' \in 0 .. MaxEntries /\ buffer' \in 0 .. MaxEntries
        /\ live' \subseteq Entries /\ open' \subseteq Entries
    BY DEF TypeOK, Turn, Entries
  <2>4. /\ write' \in [file : 0 .. MaxEntries, from : 0 .. MaxEntries,
                       state : {"none", "busy", "done", "failed"}]
        /\ target' \in [Entries -> {"absent", "created", "whole", "foreign"}]
    BY DEF TypeOK, Turn, Entries
  <2> QED
    BY <2>1, <2>2, <2>3, <2>4 DEF TypeOK
<1>2. Turn'
  BY DEF TypeOK, Turn, Kind
<1>3. WriteInHand'
  BY DEF TypeOK, Turn, WriteInHand
<1>4. OnlyEmptyUnwaited'
  BY DEF TypeOK, Turn, WriteInHand, OnlyEmptyUnwaited
<1>5. OpenIsWritten'
  BY DEF TypeOK, OpenIsWritten, WriteInHand
<1>6. ClosedUnlessLoadFailed'
  BY DEF TypeOK, Turn, WriteInHand, OnlyEmptyUnwaited, OpenIsWritten, ClosedUnlessLoadFailed
<1>7. PassedIsWhole'
  BY DEF TypeOK, Turn, WriteInHand, OnlyEmptyUnwaited, PassedIsWhole, UpToEmptyFile, Entries
<1>8. SucceedsAtTheEnd'
  BY DEF TypeOK, Turn, SucceedsAtTheEnd
<1> QED
  BY <1>1, <1>2, <1>3, <1>4, <1>5, <1>6, <1>7, <1>8

LEMMA SignStep == IInv /\ Sign => IInv'
<1> SUFFICES ASSUME IInv, Sign PROVE IInv'
  OBVIOUS
<1> USE EntriesAssumption DEF IInv
<1>1. TypeOK'
  <2>1. prev' \in BOOLEAN /\ freedTwice' \in BOOLEAN
    BY Zenon DEF TypeOK, Sign
  <2>2. list' \in Seq(Kinds) /\ Len(list') <= MaxEntries /\ i' \in 1 .. MaxEntries + 1
        /\ pc' \in {"entry", "loaded", "signing", "creating", "returned"} /\ result' \in Int
        /\ why' \in {"none", "load", "write", "mkdir", "sign", "create"}
    BY DEF TypeOK, Turn, Sign, Kind, Go, Fail, EEXTMGSIGNERR, cardVars
  <2>3. i \in Entries
    BY DEF TypeOK, Turn, Entries, Sign, Kind, Go, Fail, EEXTMGSIGNERR, cardVars
  <2>4. fd' \in 0 .. MaxEntries /\ buffer' \in 0 .. MaxEntries
    BY <2>3 DEF TypeOK, Entries, Sign, Kind, Go, Fail, EEXTMGSIGNERR, cardVars
  <2>5. live' \subseteq Entries
    <3>1. live' = live \/ live' = live \ {i}
      BY DEF Sign
    <3>2. live \subseteq Entries
      BY ONLY TypeOK DEF TypeOK
    <3> QED
      BY ONLY <2>3, <3>1, <3>2
  <2>6. open' \subseteq Entries
    BY <2>3 DEF TypeOK, Sign, Kind, Go, Fail, EEXTMGSIGNERR, cardVars
  <2>7. /\ write' \in [file : 0 .. MaxEntries, from : 0 .. MaxEntries,
                       state : {"none", "busy", "done", "failed"}]
        /\ target' \in [Entries -> {"absent", "created", "whole", "foreign"}]
    BY DEF TypeOK, Turn, Entries, NoWrite, Sign, Kind, Go, Fail, EEXTMGSIGNERR, cardVars
  <2> QED
    BY <2>1, <2>2, <2>4, <2>5, <2>6, <2>7 DEF TypeOK
<1> USE DEF Sign, Kind, Go, Fail, EEXTMGSIGNERR, cardVars, Copying, Pending, NoWrite
<1>2. Turn'
  BY DEF TypeOK, Turn
<1>3. WriteInHand'
  BY DEF TypeOK, Turn, WriteInHand
<1>4. OnlyEmptyUnwaited'
  BY DEF TypeOK, Turn, WriteInHand, OnlyEmptyUnwaited
<1>5. OpenIsWritten'
  BY DEF TypeOK, OpenIsWritten, WriteInHand
<1>6. ClosedUnlessLoadFailed'
  BY DEF TypeOK, Turn, WriteInHand, OnlyEmptyUnwaited, OpenIsWritten, ClosedUnlessLoadFailed
<1>7. PassedIsWhole'
  BY DEF TypeOK, Turn, WriteInHand, OnlyEmptyUnwaited, PassedIsWhole, UpToEmptyFile, Entries
<1>8. SucceedsAtTheEnd'
  BY DEF TypeOK, Turn, SucceedsAtTheEnd
<1> QED
  BY <1>1, <1>2, <1>3, <1>4, <1>5, <1>6, <1>7, <1>8

LEMMA CreateStep == IInv /\ Create => IInv'
<1> SUFFICES ASSUME IInv, Create PROVE IInv'
  OBVIOUS
<1> USE EntriesAssumption DEF IInv, Create, StartWrite, Kind, Advance, Fail, EIO, Copying, Pending,
    NoWrite
<1>1. TypeOK'
  <2>1. prev' \in BOOLEAN /\ freedTwice' \in BOOLEAN
    BY Zenon DEF TypeOK, Create
  <2>2. list' \in Seq(Kinds) /\ Len(list') <= MaxEntries /\ i' \in 1 .. MaxEntries + 1
        /\ pc' \in {"entry", "loaded", "signing", "creating", "returned"} /\ result' \in Int
        /\ why' \in {"none", "load", "write", "mkdir", "sign", "create"}
    BY DEF TypeOK, Turn
  <2>3. i \in Entries /\ open \subseteq Entries
    BY DEF TypeOK, Turn, Entries
  <2>4. fd' \in 0 .. MaxEntries /\ buffer' \in 0 .. MaxEntries
    BY <2>3 DEF TypeOK, Entries
  <2>5. live' \subseteq Entries
    BY <2>3 DEF TypeOK
  <2>6. open' \subseteq Entries
    <3>1. open' = open \/ open' = open \cup {i}
      OBVIOUS
    <3> QED
      BY <2>3, <3>1
  <2>7. /\ write' \in [file : 0 .. MaxEntries, from : 0 .. MaxEntries,
                       state : {"none", "busy", "done", "failed"}]
        /\ target' \in [Entries -> {"absent", "created", "whole", "foreign"}]
    BY DEF TypeOK, Turn, Entries
  <2> QED
    BY <2>1, <2>2, <2>4, <2>5, <2>6, <2>7 DEF TypeOK
<1>2. Turn'
  BY DEF TypeOK, Turn
<1>3. WriteInHand'
  BY DEF TypeOK, Turn, WriteInHand
<1>4. OnlyEmptyUnwaited'
  <2>1. CASE write = NoWrite /\ StartWrite(i) /\ prev' = (Kind # "empty") /\ list' = list
    <3>1. ~prev' => Kind = "empty"
      BY <2>1, Zenon
    <3>2. write'.from = i /\ write'.file = i /\ pc' \notin {"signing", "creating"}
      BY <2>1
    <3> QED
      BY <2>1, <3>1, <3>2, Zenon DEF OnlyEmptyUnwaited, Kind
  <2>2. CASE write.state = "done" /\ StartWrite(write.file) /\ list' = list
    BY <2>2 DEF WriteInHand, OnlyEmptyUnwaited
  <2>3. CASE write' = NoWrite
    BY <2>3 DEF OnlyEmptyUnwaited
  <2> QED
    BY <2>1, <2>2, <2>3
<1>5. OpenIsWritten'
  BY DEF TypeOK, OpenIsWritten, WriteInHand
<1>6. ClosedUnlessLoadFailed'
  BY DEF TypeOK, Turn, WriteInHand, OnlyEmptyUnwaited, OpenIsWritten, ClosedUnlessLoadFailed
<1>7. PassedIsWhole'
  <2>1. /\ pc = "creating" /\ list' = list /\ i \in 1 .. Len(list) /\ i \in Entries
        /\ target \in [Entries -> {"absent", "created", "whole", "foreign"}]
    BY DEF TypeOK, Turn, Entries
  <2>2. \A e \in 1 .. i - 1 :
          list[e] # "skip" /\ UpToEmptyFile(e) =>
            target[e] = "whole" \/ (write.file = e /\ write.state \in {"busy", "failed"})
    BY ONLY <2>1, PassedIsWhole DEF PassedIsWhole, Copying
  <2>3. ASSUME write = NoWrite, StartWrite(i), i' = i + 1, target' = [target EXCEPT ![i] = "created"]
        PROVE  PassedIsWhole'
    BY ONLY <2>1, <2>2, <2>3 DEF PassedIsWhole, UpToEmptyFile, StartWrite, NoWrite
  <2>4. ASSUME write.state = "done", i' = i + 1, target' = target PROVE PassedIsWhole'
    <3>1. write.file \in 1 .. i - 1 /\ list[write.file] = "empty"
      BY <2>1, <2>4 DEF WriteInHand, OnlyEmptyUnwaited
    <3>2. ~UpToEmptyFile(i)
      BY ONLY <2>1, <3>1 DEF UpToEmptyFile
    <3> QED
      BY ONLY <2>1, <2>2, <2>4, <3>2 DEF PassedIsWhole, UpToEmptyFile
  <2>5. ASSUME Fail("create", -EIO) PROVE PassedIsWhole'
    BY ONLY <2>5 DEF Fail, EIO, PassedIsWhole, Copying
  <2> QED
    BY ONLY Create, <2>3, <2>4, <2>5 DEF Create, Advance
<1>8. SucceedsAtTheEnd'
  BY DEF TypeOK, Turn, SucceedsAtTheEnd
<1> QED
  BY <1>1, <1>2, <1>3, <1>4, <1>5, <1>6, <1>7, <1>8

LEMMA FinalSyncStep == IInv /\ FinalSync => IInv'
<1> SUFFICES ASSUME IInv, FinalSync PROVE IInv'
  OBVIOUS
<1> USE EntriesAssumption DEF IInv, FinalSync, Sync, SyncResult, EIO, Go, Copying, Pending, NoWrite
<1>1. TypeOK'
  BY DEF TypeOK, Entries
<1>2. Turn'
  BY DEF TypeOK, Turn, Kind
<1>3. WriteInHand'
  BY DEF TypeOK, Turn, WriteInHand
<1>4. OnlyEmptyUnwaited'
  BY DEF TypeOK, Turn, WriteInHand, OnlyEmptyUnwaited
<1>5. OpenIsWritten'
  BY DEF TypeOK, OpenIsWritten, WriteInHand
<1>6. ClosedUnlessLoadFailed'
  BY DEF TypeOK, Turn, WriteInHand, OnlyEmptyUnwaited, OpenIsWritten, ClosedUnlessLoadFailed
<1>7. PassedIsWhole'
  BY DEF TypeOK, Turn, WriteInHand, OnlyEmptyUnwaited, PassedIsWhole, UpToEmptyFile, Entries
<1>8. SucceedsAtTheEnd'
  BY DEF TypeOK, Turn, SucceedsAtTheEnd
<1> QED
  BY <1>1, <1>2, <1>3, <1>4, <1>5, <1>6, <1>7, <1>8

LEMMA CardWritesStep == IInv /\ CardWrites => IInv'
<1> SUFFICES ASSUME IInv, CardWrites PROVE IInv'
  OBVIOUS
<1> USE EntriesAssumption DEF IInv
<1>1. PICK s \in {"done", "failed"} :
        /\ write' = [file |-> write.file, from |-> write.from, state |-> s]
        /\ s = "failed" => target' = target
        /\ s = "done" => target' = [target EXCEPT ![write.file] =
                                      IF write.from = write.file THEN "whole" ELSE "foreign"]
  BY DEF CardWrites, TypeOK
<1>2. write.state = "busy" /\ write # NoWrite /\ write' # NoWrite
      /\ UNCHANGED <<list, i, pc, result, why, ownVars, open>>
  BY <1>1 DEF CardWrites, NoWrite
<1>3. ASSUME write.from # write.file PROVE list[write.file] = "empty"
  <2>1. OnlyEmptyUnwaited /\ Pending
    BY <1>2 DEF Pending
  <2> QED
    BY <2>1, <1>3, Zenon DEF OnlyEmptyUnwaited
<1> USE <1>1, <1>2 DEF ownVars
<1>4. TypeOK'
  BY DEF TypeOK, Entries
<1>5. Turn'
  BY DEF Turn, Copying, Kind
<1>6. WriteInHand'
  BY DEF WriteInHand, Pending
<1>7. OnlyEmptyUnwaited'
  BY DEF OnlyEmptyUnwaited, Copying, Pending
<1>8. OpenIsWritten'
  BY DEF OpenIsWritten, Copying, Pending
<1>9. ClosedUnlessLoadFailed'
  BY DEF ClosedUnlessLoadFailed
<1>10. PassedIsWhole'
  <2> SUFFICES ASSUME Copying \/ result >= 0, NEW e \in 1 .. i - 1, list[e] # "skip", UpToEmptyFile(e)
               PROVE  target'[e] = "whole" \/ (write'.file = e /\ write'.state \in {"busy", "failed"})
    BY DEF PassedIsWhole, UpToEmptyFile, Copying
  <2>1. e \in Entries /\ list[e] # "empty"
    BY DEF TypeOK, Entries, UpToEmptyFile
  <2>2. CASE e = write.file
    <3>1. write.from = write.file
      BY <2>1, <2>2, <1>3
    <3> QED
      BY <2>1, <2>2, <3>1 DEF TypeOK
  <2>3. CASE e # write.file
    BY <2>1, <2>3 DEF TypeOK, PassedIsWhole
  <2> QED
    BY <2>2, <2>3
<1>11. SucceedsAtTheEnd'
  BY DEF SucceedsAtTheEnd, Pending
<1> QED
  BY <1>4, <1>5, <1>6, <1>7, <1>8, <1>9, <1>10, <1>11

LEMMA NextInv == IInv /\ [Next]_vars => IInv'
<1> SUFFICES ASSUME IInv, [Next]_vars PROVE IInv'
  OBVIOUS
<1>1. CASE Returned \/ UNCHANGED vars
  <2>0. IInv /\ UNCHANGED vars
    BY ONLY IInv, <1>1 DEF Returned, vars
  <2> USE DEF IInv, vars, ownVars, cardVars
  <2>1. TypeOK'
    BY ONLY <2>0 DEF TypeOK
  <2>2. Turn'
    BY ONLY <2>0 DEF Turn, Copying, Kind
  <2>3. WriteInHand'
    BY ONLY <2>0 DEF WriteInHand, Pending
  <2>4. OnlyEmptyUnwaited'
    BY ONLY <2>0 DEF OnlyEmptyUnwaited, Pending, Copying, Kind
  <2>5. OpenIsWritten'
    BY ONLY <2>0 DEF OpenIsWritten, Copying, Pending
  <2>6. ClosedUnlessLoadFailed'
    BY ONLY <2>0 DEF ClosedUnlessLoadFailed, Copying, Pending
  <2>7. PassedIsWhole'
    BY ONLY <2>0 DEF PassedIsWhole, Copying, UpToEmptyFile
  <2>8. SucceedsAtTheEnd'
    BY ONLY <2>0 DEF SucceedsAtTheEnd, Pending
  <2> QED
    BY <2>1, <2>2, <2>3, <2>4, <2>5, <2>6, <2>7, <2>8
<1> QED
  BY <1>1, SyncBeforeStep, SkipStep, MkDirStep, LoadStep, SyncAfterLoadStep, NothingToSyncStep,
    SignStep, CreateStep, FinalSyncStep, CardWritesStep DEF Next

LEMMA Invariant == Spec => []IInv
  BY InitInv, NextInv, PTL DEF Spec

(* The variables keep their types. *)
THEOREM TypeCorrect == Spec => []TypeOK
<1>1. IInv => TypeOK
  BY DEF IInv
<1> QED
  BY <1>1, Invariant, PTL

(* "So skipping never drops data": for every list CopyFiles may be given,  *)
(* when it returns success all it has passed up to the first empty file is *)
(* whole on the card.                                                      *)
THEOREM NothingDropped == Spec => []SkippingNeverDropsData
<1>1. IInv => SkippingNeverDropsData
  <2> SUFFICES ASSUME IInv, pc = "returned", result >= 0, NEW e \in DOMAIN list,
                      list[e] # "skip", UpToEmptyFile(e)
               PROVE  target[e] = "whole"
    BY DEF SkippingNeverDropsData
  <2>1. i = Len(list) + 1 /\ write = NoWrite
    BY DEF IInv, SucceedsAtTheEnd, Pending
  <2>2. e \in 1 .. i - 1
    BY <2>1 DEF IInv, TypeOK
  <2> QED
    BY <2>1, <2>2 DEF IInv, PassedIsWhole, NoWrite
<1> QED
  BY <1>1, Invariant, PTL

(* The memory card reads from a buffer that is still allocated, the one    *)
(* SyncMCFileWrite will free.                                              *)
THEOREM BufferKept == Spec => []WriteKeepsItsBuffer
<1>1. IInv => WriteKeepsItsBuffer
  BY DEF IInv, WriteInHand, WriteKeepsItsBuffer, Pending, NoWrite
<1> QED
  BY <1>1, Invariant, PTL

(* McFileFD is never overwritten while the file behind it is open. *)
THEOREM OneOpen == Spec => []OneFileOpen
<1>1. IInv => OneFileOpen
  BY DEF IInv, OpenIsWritten, OneFileOpen, Copying
<1> QED
  BY <1>1, Invariant, PTL

(* Whichever part of a turn fails, but the loading, no file stays open. *)
THEOREM AllClosed == Spec => []ClosedUnlessLoadFailed
<1>1. IInv => ClosedUnlessLoadFailed
  BY DEF IInv
<1> QED
  BY <1>1, Invariant, PTL
=============================================================================
