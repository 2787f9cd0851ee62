# Verification of the FMCB installer

TLA+ models, TLC runs and TLAPS proofs for the FreeMcBoot installer of this
repository: a PlayStation 2 program (`src/installer`) that installs, removes and
backs up a boot program on memory cards and hard disks, and the IOP modules it
loads (`src/installer/irx`). Every definition is translated from the source;
`PROJECT.json` maps it to its lines.

## 1. The system

The machine has two processors. The EE runs the installer (menu, installation,
a worker thread). The IOP runs the drivers; the installer reboots it to swap
the main set of modules for MCTOOLS and back, and talks to MCTOOLS by RPC.

| Component | State | Operations | Hard behaviour | What makes it correct |
|---|---|---|---|---|
| MCTOOLS page cache (`cache.c`, `MCIO.c`) | 128 page slots with exists/dirty flags, the block under rewriting | InitPageCache, ReadPageCached, WritePageCached, FlushPageCache | eviction by flushing everything; power loss between erase and program; card errors | reads see the last write; nothing lost by eviction; damage stays within a block being written back |
| MCTOOLS file system (`mctools.c`) | the FAT and the directories, through the cache | create and delete directory entries, grow a folder | four updates to grow a folder; error codes in the type of a cluster number | folders stay well formed; the entries of others are untouched |
| MCTOOLS RPC client (`mctools_rpc.c`) | transmit and receive buffer, call in flight | synchronous calls; asynchronous read and write with MCToolsSync | completion against use of the buffer | one call at a time; its result read after it ends |
| Worker thread (`system.c` 2640-3087) | one-command mailbox, result code, two buffers, dump file | dump, restore, STOP, StopWorkerThread | mailbox without a lock; counted wakeups; cancellation racing completion; double buffering | no command lost; no use after close; "complete" means complete; it ends |
| Copying (`system.c` 1973-2118) | list, open descriptor, pending write and its buffer | CopyFiles, SyncMCFileWrite | the write of a file is finished by a later entry | nothing dropped, one file open, each buffer kept while written and freed once |
| Cross-linking (`system.c` 2463-2567, 2346-2359) | FileAlias list, batch position, result | CreateCrossLinkedFiles, GenerateUninstallFile, deletion loop | partial batches, two loops around the original | one entry per alias, none for the original |
| Memory card installation (`system.c` 1587-1971) | copy list, space needed, result | PerformInstallation, CleanupTarget, CreateBasicFolders | a list counted and filled by different conditions; folders made apart from the list; errors in the middle | the list has the length counted; every file finds its folder; the user's configuration is kept; only names are freed |
| Removal (`system.c` 2120-2461) | uninstall file, alias list | three uninstall formats, folder deletion | early returns between reboots; the uninstall file goes first | never deletes the folder of this console's region |
| HDD installation (`system.c` 1037-1585) | partitions, the one mounted and its name, the switch for booting | PerformHDDInstallation, CopyFilesToHDD | a mount that is remembered by name; failure between cleanup and copy | files go to their own partition; booting is only switched on after a copy whose errors were looked at, and there were none |
| Installation lock and power-off (`system.c`, `main.c`, `iop.c`) | InstallLockSema, module set of the IOP | poweroffCallback, IOP reboots | a callback thread against the main one | no power-off during an installation; the main modules back at the end |
| Card authentication, KELF signing (`secrman`, `secrsif`, `libsecr`) | where the card and the mechacon are in their protocols; the file with its keys | authentication, signing, twin signing, boot | a swapped card, a lost, refused or garbled command anywhere in a handshake; the places of the keys computed eight times | authenticated means both sides agree; a signed file has its keys in place, for this card |
| Menu (`menu.c`, `UI.c`) | page and item selected, what the poll found out about the cards | polls, choice of slot, prompts, checks | the card changes after it was polled; a table indexed by event | no operation without what it needs, none that a check was to refuse |
| Drawing, fonts, pad, MBR program | screen, pad | drawing, boot | none that the above depend on | - |

Interactions: the menu calls the installations and the dump on the main
thread; these hold `InstallLockSema`. The dump hands the work to the worker
thread, which calls MCTOOLS asynchronously and bypasses the page cache.
Cross-linking reboots the IOP to MCTOOLS, edits the file system through the
page cache, flushes it and reboots back.

`PROJECT.json` lists these as `components`, and under `hazards` what is hard to
test in them, each at its line with the properties that watch it.

## 2. The modules

| Module | Models | Correspondence |
|---|---|---|
| `PageStore` | what the cache promises | abstract: `view` (what reads return) over `durable` (the card); no slots, no flush order |
| `PageCache` | `cache.c`, `ReadBlock`/`WriteBlock` | `slot` is `PageCache[]`; a request of `pend` is served by hit, miss, fill or flush actions; a flush is one action per card command, so that power can fail between any two |
| `PageCacheProofs` | theorems about `PageCache`; that it implements `PageStore` | |
| `WorkerThread` | mailbox, dump and restore loops, asynchronous calls | one action per statement that another thread can see; `wakes` counts wakeups; `rpc` is the call in flight |
| `WorkerThreadProofs` | theorems about `WorkerThread` | |
| `CopyFiles` | `CopyFiles`, `SyncMCFileWrite` | one action per branch of the loop; the card carries out the outstanding `mcWrite` on its own |
| `CopyFilesProofs` | theorems about `CopyFiles` | |
| `CrossLink` | `CreateCrossLinkedFiles`, the deletion loop, the directory and FAT code of `mctools.c` | `fs` has the FAT, the pages of the directories and the lengths of the folders; the EE moves batch by batch, MCTOOLS alias by alias and update by update |
| `CrossLinkProofs` | theorems about `CrossLink`, lemmas on the chains of its FAT | |
| `CardAuth` | `SecrAuthCard`, `CardAuth.c`, `MechaAuth.c` | an operation is the sequence of exchanges its nested ifs make, `todo`; each may be lost, refused or garbled, the card swapped between any two; the two devices are external and accept only what their own session calls for |
| `Secrman` | `secrman.c`, `keyman.c`, SECRSIF, `libsecr.c`, `SignKELF`, `TwinSignKELF` | EXTENDS `CardAuth`; the file is a sequence of 8 byte units, `buf`; an exchange names the units it carries |
| `SecrmanProofs` | theorems about `CardAuth` and `Secrman` | |
| `SecrmanCleanProofs` | EXTENDS it: that an operation which meets no fault succeeds | |
| `Session` | `main.c`, `menu.c`, UIExecMenu, `iop.c`, poweroffCallback, the frame of every operation | `pc` is where the main thread is, `event` what it is busy with; `McData` what the poll found; `modules` and `loading` the IOP; `lock` the semaphore; `callback` the thread of the power button |
| `SessionProofs` | theorems about `Session` | |
| `InstallLists` | the file tables and the conditions that count and fill a list | operators of the console and the mode; `NumFiles` is the count, `FileCopyList` the list |
| `Installation` | PerformInstallation, PerformHDDInstallation | EXTENDS `InstallLists`; one action per phase, and one per entry of the list while copying |
| `InstallationProofs` | theorems about `Installation`, lemmas on the tables of `InstallLists` | |
| `MC...` | instances for TLC | |

The modules meet at interfaces: `PageCache` implements `PageStore` under the
refinement mapping `View` (the slot of a page, else the block image under
rewriting, else the card). `CrossLink` runs on such a store and keeps only its
view. `WorkerThread` uses the raw cluster and block calls, which do not go
through the cache. `Session` is the composition of the main thread, the loader
of the IOP modules and the power button: an operation is one step there, `Work`,
between its lock and its unlock, and `WorkerThread`, `Installation`, `CrossLink`
have its inside. An entry of the list is one step in `Installation`; `CopyFiles`
has the inside of the copy to a card, `Secrman` that of the signing.

### Abstractions

* Page 0 (the superblock) is outside of what `PageStore` promises: the hit tests
  of `cache.c` compare page numbers only, and a free slot has number 0. The
  model keeps that behaviour and checks that such an access harms no other page.
* Contents are model values. ECC, encoding and messages are left out.
* `CopyFiles`: libmc has one outstanding command, a call made meanwhile is
  refused and returns the outstanding command. This is modelled from how
  `system.c` relies on it and marked external, like the card itself.
* `CrossLink`: an entry is a name and an existence flag; all aliases name the
  same clusters, so these are left out. What is overwritten before
  `alloc_start` is one flag, `systemArea`: which FAT entries are hit depends on
  the size of the card (on an 8 MB card those of clusters from 2560 on), and the
  others are as before. Where a session may start (how long and how full the
  folders are, which clusters are free, which alias is the original) is the
  constant `Installations`. What is assumed of it: each folder has a chain of its
  own that ends with its last record, and the folder of an alias has no entry for
  it, but for the original's (`StartsAssumption`). What free clusters hold is open.
* Unsigned arithmetic of `AddFATRecord` is modulo `Word`; 2^32 in the code, 2^16
  in TLC, whose integers have 32 bits. Only the wrap of a small negative number
  plus `alloc_start` matters.
* `CardAuth`: a challenge or a response is the name of the value and the number
  of the operation that made it; ciphers are not modelled, a device recognises
  what its partner made in the same session. Lengths and checksums are the
  difference between an answer that is intact and one that is garbled.
* `Secrman`: a key half is encrypted by the card in the slot; a unit that was
  never sent stands for the random content a too short buffer would give.
  The eight computations of the places of Kbit and Kc (libsecr, keyman,
  `system.c`) are a definition each, beside `KbitOffset`, the layout the mechacon
  reads. Of what a boot writes to its buffer only the keys are modelled: not
  where `get_BitTableOffset` (`secrman.c` 966) puts the deciphered bit table, nor
  the deciphered blocks. `SecrResetAuthCard` calls the handler without a check
  (`secrman.c` 856); it is MCMAN that calls it, so it is modelled from when MCMAN
  has set one.
* `Session`: a prompt is a choice of its answer. A dialog that shows a message
  and waits is left out. `HasOldMultiInstall` is exact for the card that is
  there. Before `InstallLockSema` exists the callback polls semaphore 0, which may
  or may not be there: both outcomes.
* `Installation`: sizes are left out, the space check is a choice. A deletion by
  the cleanup may fail for any subset of the files. What a partition holds of
  other programs is left out. A write whose error nobody looks at (`fclose`,
  `DEVCTL_SET_OSDMBR`, on a card the `mcClose` of `SyncMCFileWrite`) is an outcome of
  the copy: the file is then in `unseen`. Behind the end of the list there may be
  anything to be freed: `FreeNames` returns or crashes.

## 3. The runs

| Run | Question | Bounds | States |
|---|---|---|---|
| `cache_clean` | does the cache implement the store, with power loss at any moment, when the card works? | 2 slots, 2 blocks of 2 pages, 2 values | 790 thousand |
| `cache_faulty` | with card errors: is damage confined, the flush list long enough, does every request return? | 3 slots, 2 blocks of 2 pages, 1 value | 310 thousand |
| `worker_all` | mailbox, cancellation, faults in every interleaving | 3 clusters or blocks | 1.1 million |
| `copy_lists` | every copy list with every fault | lists up to 4 entries of 5 kinds | 32 thousand |
| `crosslink_sessions` | linking and unlinking, with and without room | 2 folders, 4 aliases, batches of 3, 7 clusters, 2 failures | 240 thousand |
| `secr` | does what is reported as authenticated, signed or booted deserve it, whatever is swapped or lost? | 2 cards, 4 files, 3 operations, 2 faults, 1 swap | 280 thousand |
| `session` | do the operations, the power button and the reboots of the IOP keep out of each other's way, from the boot to the exit? | 2 consoles, 3 kinds of cards, 1 exchange, 1 press | 1.7 million |
| `installation` | does an installation write what it should, where it should, and switch on booting only then? | 10 consoles, 4 modes with and without a configuration to keep, 4 payloads, 1 file absent, 1 failure | 2.8 million |

Why the bounds are enough. A cache with fewer slots than pages evicts; three
slots are more than a block has pages, and a flush then spans blocks. Three
clusters let both buffers of a dump be used twice. Four entries put every kind
of entry before, between and after two files. Four aliases in two folders place
the original first, between or last, or in neither loop; a batch of three is cut
by `MAX_RPC_FILE_ENTRIES` and by failures; seven clusters leave between none and
four free; folders have an odd or even number of entries, with or without a
deleted one. Two failures allow one failed batch and one more in the session
after it. `Erased` is not a value that is written, so an erased page is never
mistaken for a written one. `cache_clean` uses symmetry of the values and checks
no liveness; the runs with liveness use none.

`secr`: three operations let a try that failed be followed by a signing and a
boot; two faults lose an exchange and then the clean-up after it; the four files
have both kinds of header layout, one to three blocks, signed and plain ones, a
length that is no multiple of 16 bytes and one longer than the buffer of SECRSIF
(`RpcUnits` = 4, for 128). A padding or an optional part left out of any one of the
copies of the key offsets is found, in a signing or in a boot. `session`: one exchange of cards at any moment makes
every poll stale; the callback runs once at most (its first success ends in
power off or in a dead call), so a second press adds only another that gives up;
the two consoles enable all items of the menu and none of the hard disk ones.
The program stops at its exit and when the power goes off, so the run checks no
deadlock; `OperationReturns` says which waits for ever there are.
`installation`: the consoles have every region, and every ROM version that a
condition names; the payloads have all of the optional folders of the card and of the
hard disk, none, some that are not next to each other, and two configurations, one of
which has no mark. An installation ends, so deadlock is not
checked there; `secr` ends when its operations are used up.

What holds. With a working card the cache is a store: no stale read, no write
lost by an eviction, no page in two slots; with a faulty card, only blocks that
had a dirty page change. The worker takes each command once and with its
argument, though it reads the two apart and the sender writes them apart; a
STOP that arrives at any moment neither hangs nor leaves the worker with a
closed file; "complete" is reported only of a whole dump or restore. A copy list
that ends in success is whole on the card, up to its first empty file. Linking
gives every alias one entry when nothing failed and there was room, and failures
never touch an entry that was there before. An authentication that is reported as such has
both devices in one session, and whatever was cut short before, the next clean
one succeeds; a file reported as signed has its four key halves at the places its
header names, for the card that was there at the start. The power button never
cuts an operation that works under the lock, and every operation gives the lock
back. In each of the ten consoles and every mode the list of an installation has
the length that was counted, but for a `realloc` that fails, and each file finds its
folder and partition; an error that the code looks at keeps booting from being
switched on.

No eviction loses a write: `PageStore` may only fall back to the card where the
power is lost, the IOP reboots or `InitPageCache` is called.

The violation runs check one statement of the repository each and find it
broken (`findings` in `PROJECT.json` quotes the lines):

| Run | Statement | What happens |
|---|---|---|
| `cache_lostflush` | the flush result is that of the operation | the result of a block overwrites that of the block before |
| `copy_doublefree` | a skipped entry finishes a file exactly as a directory does, dropping nothing | a list ending in one of the two frees the last buffer twice |
| `crosslink_full` | `AddFATRecord` returns 0 on error | on a full card its `-EINVAL` is used as a cluster, in the FAT |
| `session_crosspsx` | "Multi-installation detected! Please uninstall first." | `OpModeFlags` has no entry for the PSX installation, which is made over a multi-installation |

More statements about the code fail and have no run of their own. Each is a
definition of its module; to see it fail, add its name to the INVARIANTS
(`WaitsForNoWorker`: to the PROPERTIES) of the configuration named.

| Property | Configuration | Statement | What happens |
|---|---|---|---|
| `FailedInitFreesBuffers` | `MCPageCache_clean.cfg`, `MaxLost = 1` | the cache frees its memory when an error occurs | a failed initialisation keeps its buffers |
| `DumpIsPrefix` | `MCWorkerThread_all.cfg` | an empty buffer is not written (`system.c` 2881) | a dump stopped before its first cluster writes one |
| `BuffersOutliveTransfers` | `MCWorkerThread_all.cfg` | the call is asynchronous (`mctools_rpc.c` 175) | a full disk frees the buffers with a read in flight |
| `NoEntryTwice` | `MCCrossLink_sessions.cfg` | no entry of an existing entry (`mctools.c` 723) | an error of the first loop is forgotten by the second, which links the original |
| `EveryFileWhole` | `MCCopyFiles_lists.cfg` | "so skipping never drops data", of every list | the write of an empty file is waited for by nobody; the next call is refused and the next file goes into the empty one |
| `ClosedAtEnd` | `MCCopyFiles_lists.cfg` | each file is closed, however the copy ends | a file that cannot be loaded leaves the one before it open |
| `NeverCut` | `MCSession.cfg` | "If no installation is in progress, begin shutdown", of every press | one before the semaphore is created polls none, and its shutdown goes on beside the menu |
| `WaitsForNoWorker` | `MCSession.cfg` | every operation returns | without a worker thread, whose creation is not checked, the first dump sleeps for ever |
| `FreesOnlyNames` | `MCInstallation.cfg` | "Free filenames." | `AddDirContentsToFileCopyList` has raised its counter when `realloc` fails (`system.c` 960-967), and the loop frees behind the list |
| `BootMeansComplete` | `MCInstallation.cfg` | booting is switched on over a whole copy | the results of `fclose` and `APA_DEVCTL_SET_OSDMBR` are ignored (`system.c` 1262, 1134) |
| `ConfigAlwaysKept` | `MCInstallation.cfg` | "Keep the user's existing configuration file, if requested." | `HDD/HDD_OSD/sysconf` is copied without the mark, and a `FMCB/FREEHDB.CNF` in it goes over the one to be kept |
| `MainModulesInMenu` | `MCSession.cfg` | "Reboot the IOP to allow the remainder of the program to continue" | the early returns of a dump or restore go back to the menu with the MCTOOLS set |

Three things are recorded here only. The bit for the source side of an error is
ORed into a negative number and so never arrives in the menu (`system.c` 2065).
The space check adds clusters to bytes (`system.c` 1910-1915), so a full card is
met while copying and linking; the model lets the check pass or fail. The cleanup
of a card and the formatting take no lock, so the power button may cut them:
`NoCutDuringInstall` speaks of what takes it.

Every property of a passing run has a mutant in the modules (marked `Mutant`): a
plausible bug in one definition under which TLC finds that property violated.
`WorkerThread`, `CopyFiles`, `CrossLink` and `Secrman` state a type invariant,
`TypeOK`, that no run lists: it holds, and the runs are kept for the rest.

### Fairness

* `PageCache`: weak fairness of `Serve`, the work on a request. The RPC server
  thread runs a handler to its end. Power loss is never fair.
* `WorkerThread`: weak fairness of the worker, of the MCTOOLS server and of the
  main thread where it does not wait for the user. The threads give way to
  each other in `SleepThread`, in file I/O and in the RPC wait, so each runs in
  the end; the user need not ever cancel or choose again.
* `CrossLink`: weak fairness of the two sides together; the EE waits in the
  call while MCTOOLS works, nobody else runs in between.
* `Secrman`: weak fairness of the next step of an operation, which the IOP's
  thread runs to its end, and of the mechacon's calculation, which takes a while
  and then is over. The busy loop of pol_cal_cmplt returns for no other reason.
* `Session`: weak fairness of the main thread, of the loader of the modules and of
  the callback. Each is a thread of its own, and the main one waits in semaphores
  and for the pad. The user need never choose, exchange a card or press.
* `CopyFiles` and `Installation` have no liveness property and assume none.

## 4. The proofs

`PageCacheProofs` proves, for every number of slots, blocks and pages, every set
of values and with or without card faults, from the named assumptions of
`PageCache` alone:

* `TypeCorrect`, `PageUniqueness`, `CleanPageSafety`, `FlushListBounded`;
* `FlushIsComplete`: without card faults a flush that reports success has
  written every dirty page (with faults it is false, see `cache_lostflush`);
* `DamageIsConfined`: the action property, faults included.

The argument. `CacheInvariant` strengthens the invariants to an inductive one.
`CachePagesUnique` alone is not inductive: a fill adds a page to a slot, so one
must know that the page is in none (`MissedPageAbsent`), which a flush in between
must keep. `CleanPagesSafe` alone is not either: when a block has been erased its
clean pages exist only in `BlockBuffer`, so one must know that what is left to
program is in the block under rewriting and that this image has every page of it
(`BlockUnderRewriting`). `DirtySecured` says of each dirty page whether its block
has been passed, is being written or is still to come; it makes `FlushIsComplete`
follow at the end of the card. `FlushListBounded` follows from uniqueness: the
dirty slots of a block map one to one to its pages. `Invariance` has one lemma per
action; the theorems follow by PTL. TLC checked the conjuncts before they were
proved.

`SessionProofs` proves, for any kinds of cards, consoles, exchanges and presses:

* `OneHolder`: `InstallLockSema` is taken exactly while an operation works or a
  shutdown that found it has it, and never by both;
* `NoCut`: no shutdown is between its first call and the power-off while an
  operation works, unless the button was pressed before there was a semaphore;
* `Returned`: the lock is free whenever neither has it, whichever of its returns
  an operation took.

The argument. `NoCutDuringInstall` and `LockReturned` are not inductive: that the
callback finds the semaphore taken is only of use if taken means that an operation
works (`LockMeaning`); that an operation which found it free has no shutdown
beside it needs the converse. The semaphore does not exist at the start and at the
end, so one has to know where the main thread is then (`LockLife`): a reset of the
IOP before the menu, with `event` still `BOOT`, is told from that of a dump, which
runs with the lock there. `CallbackLife` says that a callback that passed without a
semaphore is one that has begun, and stays outside of the promise. One step per
action of `Next`.

Two more layers prove of cards and modules, for the same constants:

* `NeedsAreMet`: an operation starts with the modules and devices it needs.
  `NeedsInv` follows the main thread from the poll to the work: what is loaded at
  each place (`Loaded`), which set an operation asks for (`Tools`), the way from
  the menu to it (`Route`) and what the menu offered (`Offered`);
* `NoMultiTouched`: no installation over a multi-installation that was there when
  the card was polled, the PSX one excepted (see `session_crosspsx`). `MultiInv`
  relates what the poll wrote to the card (`CardTypes`, `Polls`) and what was
  asked of it to the operation chosen (`Checked`).

The second part of `PageCacheProofs` is the refinement: without card faults
`PageCache` implements `PageStore`, for every number of slots, blocks, pages and values, with
power loss at any moment. `Refinement` maps the initial states and each action to
a step or a stutter: a hit, a miss and a flush are stutters except where the
request is answered or a page reaches the card, so the flush of an eviction must
keep what every page reads as. Only a loss of power and an `InitPageCache` map to
`Forget`. Beyond `CacheInvariant` it needs
`MapInv`: a free slot has page 0 and no flag (`FreeIsPageZero`), a cache that is
not ready holds nothing (`NotReadyEmpty`), and what a request under service may
look like (`RequestForm`).

`CopyFilesProofs` proves `TypeCorrect`, `NothingDropped`, `BufferKept`, `OneOpen`
and `AllClosed`, for copy lists of any length and any outcome of each call. The
loop finishes a file when it comes to a later entry, so its variables describe an
earlier file than its index: `IInv` ties the outstanding write, `PrevFileSize`,
the descriptor, the buffer and the set of open files to each other at each
statement (`Turn`, `WriteInHand`, `OpenIsWritten`, `OnlyEmptyUnwaited`), and says
that every entry passed is whole on the card up to the first empty file
(`PassedIsWhole`).

`WorkerThreadProofs` proves `TypeCorrect`, `CommandTaken`, `RightArgument`,
`FileOutlivesUse`, `CompleteExact` and `WritesInPlace`, for any number of clusters
and blocks. `TInv` is about types. `Handshake` says what each of the two threads
may take for granted at each of its statements, while the other can be anywhere
(`Sending`, `Taking`, `Taken`, `Polling`, `Stopping`, `Resting`, `Ended`): the
mailbox has no lock, and this is the reason it needs none. `Copied` is about the
loops: which block is in which buffer, on its way or written (`BlockInTurn`,
`DumpProgress`, `RestoreProgress`, `NothingInFlight`), from which "complete" means
all of them (`LoopResult`, `SeenIsDone`).

`InstallationProofs` proves `ListCounted`, `PlacedRight`, `BootsComplete`,
`UserConfigKept` and `FoldersComeFirst`, for every console, every payload, any
number of failures and absent files. Lemmas about the tables come first: the
number of entries each condition counts is that of those it fills, two entries
with one destination are one entry, every file is for a folder made before it.
`IInv` then relates the list, the mark of the user's configuration, the mounted
partition and the files that are new (`Counted`, `Marks`, `MountKnown`, `Passed`,
`BootedAtTheEnd`, `OldKept`); `FInv` adds that the folder of each entry is there
when its turn comes. The assumptions: a console has one of the five region letters
and a ROM of v1.00 or later (`ConsolesAssumption`), and the folders of a payload are
listings of files and folders, a folder before what is in it (`PayloadsAssumption`).
What else a user puts there is open, two configuration files included: the code
marks only the entries of one call as the user's (`system.c` 1515-1528), so
`ConfigKept` itself leaves out a payload whose `HDD/HDD_OSD/sysconf` brings another
(`BroughtUnmarked`). `ListCounted` and `BootsComplete` hold with every failure: a
`realloc` that fails counts one more (`Cut`), and what is not seen to fail is in
`unseen` (`WriteKeeps`).

`CrossLinkProofs` proves `StaySound`, `EachLinkedOnce`, `AllUnlinked`,
`EnoughRoom`, `ForeignKept` and `TypeCorrect`, for any folders, aliases, batches,
clusters, records and failures. The k-th cluster of a folder is a recursive
function of k; what holds along a chain is shown with the least k at which it
would not (`LeastElement`, from WFMin): a chain visits no cluster twice, is shorter
than the card, stays while the FAT entries of its clusters do, and grows by the
cluster its end is made to point to (`ChainDistinct`, `ChainFits`, `ChainKept`,
`ChainGrows`). The invariants are four:

* `LoopInv`: the two loops and the batches cut the list of aliases without a gap
  while nothing failed, and stay within it when something did;
* `CardInv`: while nothing failed, the folders are tidy (`Tidy`), counting as the
  end of a chain the cluster that is linked but not yet marked (`Grown`), with the
  record that is written but not yet counted (`Growing`), and an alias has an
  entry exactly if the loops have passed it (`Entries`). `FoldersSound`,
  `LinkedOnce` and `UnlinkedAll` follow where nothing is in between;
* `RoomInv`: there is a free cluster for each one that the folders are still to
  grow by, which is counted as the set of clusters that the aliases not yet linked
  need behind the end of each chain (`Missing`). Hence `RoomSuffices`;
* `KeptInv`, whatever fails: a cluster in use at the start keeps its FAT entry, but
  for the end of a folder, which may go on to one that was free (`Table`); so the
  chains of the start are beginnings of the chains, what is behind them was free,
  and the pages written are those of free clusters or hold no entry of the start
  (`Harmless`). Hence `ForeignDataKept`, also where after a failed growth two
  chains share a cluster.

The assumptions: the FAT comes after at least `EINVAL` clusters (`alloc_start` is
41 on a card of 8 MB), the numbers of clusters fit into a word, and
`StartsAssumption`.

`SecrmanProofs` proves `AuthenticationIsMutual`, `FailureIsCleanedUp`,
`SigningBindsToCard`, `NoBootElsewhere` and `SecrmanTypes`, for any cards, files, faults and swaps. A
handshake is a list of 32 or 33 exchanges, each of which may be lost, refused, garbled
or met by another card, so the invariant goes by how many are done: `AuthAt` says which
exchanges of one try the card and the mechacon can have taken when n are done, and which
of the three challenges the locals hold. Between the mechacon's challenge and the
card's last command the two agree on the nonce because the card takes a challenge of
its own try only. `PairInv` is what no operation may break: both authenticated means the
same nonce. It needs `ScriptInv`, that the scripts of a file hold no exchange that
authenticates (`FileStep`), and `CleanupInv`, what is left to send after a failure.
The scripts are sets of steps in an order, so no induction over them is
needed: the loop over the blocks of a file is a step of its own (`NextBlock`), and
what holds of a concatenation is a lemma (`InScriptConcat`). Two findings of the proof
are in the model: with two swaps the property needs the second to count as well as the
first (`hit`), and the mechacon's commands are told apart by one condition each
(`MechaReady`).

`SignedIsBound` relates the file that comes out of a signing to every exchange that went
into it, so its invariant `KInv` says where the signing is (`SignInv`): in the header
(`HeaderAt`), at the loop (`LoopAt`), within a marked block (`BlockAt`) or at the keys
(`KeysAt`), each with the number of exchanges done. For each place it says

* how many marked blocks the mechacon has counted (`mecha.nth`): the number before
  this one, and one more when the last chunk of a block is in. At the keys it is all of
  them, which is why a block that is too long or odd cannot be part of a signed file;
* where each of the four key halves is (`HalfAt`): the mechacon's plain half in a local,
  then with the card, then bound to it. A card that was swapped in is not authenticated
  and gives the command up (`OfStart`), so bound means bound to the card of the start;
* what the buffer holds (`BufAt`): the content it had, but for ICVPS2 and, once they are
  stored, the halves at their places.

`SignedInv` carries that over the return to the end of time. `BootsOnlyOnItsCard` begins
there: `BootInv` follows the first half of Kbit, bound to the card of the signing, from the
buffer into a local (`BootAt`), to a card that is not that one and turns it into noise,
back into the buffer, and unit by unit into the mechacon, which then fails the header
(`ChunksSent`), so that the last step of the header is never passed. A card swapped
in during the boot is not authenticated and gives no key back, the one of the signing
included. `Copies` proves of the eight computations of the places of the keys that they
agree with the layout, and is cited wherever keys are stored or fetched. The
assumptions: `FilesAssumption`, `OldFilesAssumption`, `CardsAssumption`,
`TwinsAssumption`.

`SecrmanCleanProofs` proves `CleanTriesSucceed`, that is `CleanTrySucceeds`: a safety
property, although it says that something works. That nothing fails means that the
device accepts each exchange of each script and that each check of the IOP comes out
right, so `CleanInv` says of an operation that is `due`, and not yet `hit`, where its
script, the card and the mechacon are, exactly and not only as far as they may be:

* `AuthClean`: n exchanges of the handshake are done, each device has taken all of its
  own (`Answering`), and the locals hold what the next one needs (`Known`);
* `SignClean`, `BootClean`: which part of the script is left (in the header, at the loop,
  in a block, at the keys), what the mechacon is told to expect and has of it
  (`HeaderClean`, `BlockClean`), and that it is ready for the next command (`Prepared`);
* `AuthGoesOn`, `SignGoesOn`, `BootGoesOn`: the next exchange leads to the next place.

What was left in the devices by an operation that was cut short does not matter: the
first exchanges of a handshake put both back to the start of a session, the one that
starts a header makes the mechacon forget the file before it, and the proof shows that
these are accepted in every state. The header that a boot hands over is the one that
the signing made. The mechacon finds it good if it has the content of the file (`Kept`),
the key halves for its own session, for which `SignedInv` is used again, and an ICVPS2
that is the mechacon's or the file's, which needs an invariant of its own (`IcvInv`): the
value is stored right after the mechacon gave it, and stays. The position of a block in
the file is a recursive function (`BlockOffset`); that the blocks lie one behind the other
within the file (`OffsetsAre`, `OffsetsWithin`) follows with WFMin, as in
`CrossLinkProofs`. Beyond the assumptions above it uses `RpcUnitsAssumption`, that the
capacity of a SECRSIF packet is a natural number: a block is `Signable` only if it fits,
and a signing has to succeed only if its blocks are.

In all of these modules the proof of a step has one step per action, and the
theorems follow by PTL from the invariant. Each conjunct of an inductive
invariant was checked by TLC before it was proved.

Only model-checked:

* the liveness properties, `RequestCompletes`, `OperationEnds`, `SessionEnds`,
  `OperationReturns` and `Returns`: fairness and ENABLED are out of the prover's reach;
* the violation runs, of course: what they check is false.

## 5. Not modelled

* FreeUnusedFATRecords of `mctools.c` is compiled out; the card information
  calls keep no state.
* The multi-installation and its removal as a whole (CleanupMultiInstallation
  around the deletion loop, the three formats of the uninstall file): the menu has
  no button for either any more (`menu.c` 372). Their linking and unlinking, the
  hard part, is in `CrossLink`.
* The SecrDiskBoot functions of `secrman.c`: the installer does not call them.
  Ciphers.
* CheckFormat does not look at the result of formatting the hard disk
  (`menu.c` 282): what the disk is afterwards is a choice in `Session`.
* Drawing, fonts, translations, pad input: no state that an operation depends on;
  of `UI.c` only the selection of menu items is modelled. The MBR program and
  EELOAD: straight-line code, partly assembly.

## 6. Plan

What is left, in the order of importance:

1. `Uninstall`: CleanupMultiInstallation around the deletion loop of `CrossLink`.
   Properties: the folder of the region that stays is never deleted (the
   `case 'E'` of `system.c` 2429 falls into `case 'C'`), the uninstall file is not
   gone before its entries are.
2. The card information calls of MCTOOLS and the arithmetic of the space check.
