------------------------------ MODULE PageCache ------------------------------
(***************************************************************************)
(* The page cache of the MCTOOLS module (mctools/src/cache.c) and the      *)
(* block writer below it (MCIO.c).  Requests come one at a time from the   *)
(* RPC server thread.  A miss takes the first free slot; when there is     *)
(* none the whole cache is flushed, block by block: read the erase block,  *)
(* overlay the dirty pages, erase, program page after page.  A flush is    *)
(* not one step here, since the machine can lose power, and the IOP can be *)
(* rebooted, between any two card commands.                                *)
(***************************************************************************)
EXTENDS Integers, FiniteSets

CONSTANTS NumSlots,     \* PAGE_CACHE_SIZE
          NumBlocks,    \* CacheCardSizeBlocks
          BlockSize,    \* CacheBlockSize, in pages
          Vals,         \* what callers write
          Erased,       \* the content of an erased page
          CardFaults,   \* may card commands, and WriteBlock's malloc, fail?
          MaxLost       \* bound on the page buffers lost by failed initialisations

ASSUME SizesAssumption ==
  /\ NumSlots \in Nat \ {0}
  /\ NumBlocks \in Nat \ {0}
  /\ BlockSize \in Nat \ {0}
ASSUME ValsAssumption == Erased \notin Vals
ASSUME FaultsAssumption == CardFaults \in BOOLEAN /\ MaxLost \in Nat

VARIABLES card,         \* [Pages -> Data]: the memory card
          slot,         \* [Slots -> SlotState]: PageCache[]
          ready,        \* CacheInitialized
          pend,         \* the request being served
          ret,          \* what the last completed request returned
          flushing,     \* "off", "scan" (between blocks) or "program" (block erased)
          block,        \* BlockNum of the flush
          blockOk,      \* result >= 0 of the flush so far
          buf,          \* BlockBuffer
          todo,         \* pages of the block still to be programmed
          lost          \* buffers allocated that nothing points to any more

flushVars == <<flushing, block, blockOk, buf, todo>>
vars == <<card, slot, ready, pend, ret, flushVars, lost>>

Pages == 0 .. NumBlocks * BlockSize - 1
Slots == 0 .. NumSlots - 1
Blocks == 0 .. NumBlocks - 1
Data == Vals \cup {Erased}
Block(p) == p \div BlockSize

SlotState == [page : Pages, data : Data, exists : BOOLEAN, dirty : BOOLEAN]
Request == [op : {"none", "read", "write", "flush"}, page : Pages, data : Data]
Reply == [op : {"none", "init", "read", "write", "flush"}, page : Pages, data : Data, ok : BOOLEAN]

NoRequest == [op |-> "none", page |-> 0, data |-> Erased]
\* What the buffer of a free slot holds is not tracked: reading it gives anything.
FreeSlot == [page |-> 0, data |-> Erased, exists |-> FALSE, dirty |-> FALSE]
BufferOf(s) == IF slot[s].exists THEN {slot[s].data} ELSE Data
NoImage == [p \in Pages |-> Erased]

Idle == pend.op = "none"

(* The slot the linear searches of the code stop at. *)
FirstHit(s, p) ==
  /\ slot[s].page = p
  /\ \A t \in Slots : t < s => slot[t].page # p
FirstFree(s) ==
  /\ ~slot[s].exists
  /\ \A t \in Slots : t < s => slot[t].exists

Hit(p) == \E s \in Slots : slot[s].page = p
Full == \A s \in Slots : slot[s].exists

Dirty(s) == slot[s].exists /\ slot[s].dirty
DirtyIn(b) == {s \in Slots : Dirty(s) /\ Block(slot[s].page) = b}

Return(op, p, d, ok) ==
  /\ ret' = [op |-> op, page |-> p, data |-> d, ok |-> ok]
  /\ pend' = NoRequest

Init ==
  /\ card \in [Pages -> Vals]
  /\ slot = [s \in Slots |-> FreeSlot]
  /\ ready = FALSE
  /\ pend = NoRequest
  /\ ret = [op |-> "none", page |-> 0, data |-> Erased, ok |-> TRUE]
  /\ flushing = "off" /\ block = 0 /\ blockOk = TRUE
  /\ buf = NoImage /\ todo = {}
  /\ lost = 0

-----------------------------------------------------------------------------
(* InitPageCache.  DeinitPageCache drops what an earlier session cached.   *)
(* When the card does not answer or a malloc fails, DeinitPageCache runs   *)
(* with CacheInitialized clear, and then it frees none of the n buffers    *)
(* already allocated.                                                      *)
InitPageCache ==
  /\ Idle
  /\ slot' = [s \in Slots |-> FreeSlot]
  /\ \/ ready' = TRUE /\ lost' = lost
     \/ /\ ready' = FALSE
        /\ \E n \in 0 .. NumSlots - 1 : lost' = lost + n
        /\ lost' <= MaxLost
  /\ Return("init", 0, Erased, ready')
  /\ UNCHANGED <<card, flushVars>>

-----------------------------------------------------------------------------
(* ReadPageCached *)
ReadHit(p) ==
  /\ Idle /\ ready
  /\ \E s \in Slots : FirstHit(s, p) /\ \E d \in BufferOf(s) : Return("read", p, d, TRUE)
  /\ UNCHANGED <<card, slot, ready, flushVars, lost>>

ReadMiss(p) ==
  /\ Idle /\ ready /\ ~Hit(p)
  /\ pend' = [op |-> "read", page |-> p, data |-> Erased]
  /\ UNCHANGED <<card, slot, ready, ret, flushVars, lost>>

FillRead ==
  /\ pend.op = "read" /\ flushing = "off"
  /\ \E s \in Slots :
       /\ FirstFree(s)
       /\ slot' = [slot EXCEPT ![s] = [page |-> pend.page, data |-> card[pend.page],
                                       exists |-> TRUE, dirty |-> FALSE]]
  /\ Return("read", pend.page, card[pend.page], TRUE)
  /\ UNCHANGED <<card, ready, flushVars, lost>>

(* McReadPage fails: the slot stays free. *)
ReadFails ==
  /\ CardFaults
  /\ pend.op = "read" /\ flushing = "off"
  /\ ~Full
  /\ Return("read", pend.page, Erased, FALSE)
  /\ UNCHANGED <<card, slot, ready, flushVars, lost>>

ReadUncached(p) ==
  /\ Idle /\ ~ready
  /\ \/ Return("read", p, card[p], TRUE)
     \/ CardFaults /\ Return("read", p, Erased, FALSE)
  /\ UNCHANGED <<card, slot, ready, flushVars, lost>>

-----------------------------------------------------------------------------
(* WritePageCached *)
WriteHit(p, d) ==
  /\ Idle /\ ready
  /\ \E s \in Slots :
       FirstHit(s, p) /\ slot' = [slot EXCEPT ![s] = [@ EXCEPT !.data = d, !.dirty = TRUE]]
  /\ Return("write", p, Erased, TRUE)
  /\ UNCHANGED <<card, ready, flushVars, lost>>

\* Mutant: a write takes a new slot without looking for the page first.
WriteMissUnsearched(p, d) ==
  /\ Idle /\ ready
  /\ pend' = [op |-> "write", page |-> p, data |-> d]
  /\ UNCHANGED <<card, slot, ready, ret, flushVars, lost>>

WriteMiss(p, d) ==
  /\ Idle /\ ready /\ ~Hit(p)
  /\ pend' = [op |-> "write", page |-> p, data |-> d]
  /\ UNCHANGED <<card, slot, ready, ret, flushVars, lost>>

FillWrite ==
  /\ pend.op = "write" /\ flushing = "off"
  /\ \E s \in Slots :
       /\ FirstFree(s)
       /\ slot' = [slot EXCEPT ![s] = [page |-> pend.page, data |-> pend.data,
                                       exists |-> TRUE, dirty |-> TRUE]]
  /\ Return("write", pend.page, Erased, TRUE)
  /\ UNCHANGED <<card, ready, flushVars, lost>>

WriteNotReady(p, d) ==
  /\ Idle /\ ~ready
  /\ Return("write", p, Erased, FALSE)
  /\ UNCHANGED <<card, slot, ready, flushVars, lost>>

-----------------------------------------------------------------------------
(* FlushPageCache *)
FlushRequest ==
  /\ Idle
  /\ \/ ready /\ pend' = [NoRequest EXCEPT !.op = "flush"] /\ ret' = ret
     \/ ~ready /\ Return("flush", 0, Erased, TRUE)
  /\ UNCHANGED <<card, slot, ready, flushVars, lost>>

(* Asked for by a caller, or by a read or write that found no free slot. *)
NeedsFlush ==
  /\ flushing = "off"
  /\ pend.op = "flush" \/ (pend.op \in {"read", "write"} /\ Full)

\* Mutant: the loop over the blocks starts at the second one.
FlushStartAtOne ==
  /\ NeedsFlush
  /\ flushing' = "scan" /\ block' = 1 /\ blockOk' = TRUE
  /\ UNCHANGED <<card, slot, ready, pend, ret, buf, todo, lost>>

\* Mutant: a full cache is emptied for a miss without being written back.
FlushStartForCallersOnly ==
  /\ NeedsFlush
  /\ flushing' = "scan" /\ block' = (IF pend.op = "flush" THEN 0 ELSE NumBlocks) /\ blockOk' = TRUE
  /\ UNCHANGED <<card, slot, ready, pend, ret, buf, todo, lost>>

FlushStart ==
  /\ NeedsFlush
  /\ flushing' = "scan" /\ block' = 0 /\ blockOk' = TRUE
  /\ UNCHANGED <<card, slot, ready, pend, ret, buf, todo, lost>>

(* No memory for the flush list or the block buffer: nothing was touched. *)
FlushNoMemory ==
  /\ NeedsFlush
  /\ Return(pend.op, pend.page, Erased, FALSE)
  /\ UNCHANGED <<card, slot, ready, flushVars, lost>>

\* Mutant: the loop runs one block too far.
FlushSkipTooFar ==
  /\ flushing = "scan" /\ block <= NumBlocks
  /\ DirtyIn(block) = {}
  /\ block' = block + 1 /\ blockOk' = TRUE
  /\ UNCHANGED <<card, slot, ready, pend, ret, flushing, buf, todo, lost>>

(* A block with no dirty page: FlushBlock returns 0, and so result is 0. *)
FlushSkip ==
  /\ flushing = "scan" /\ block < NumBlocks
  /\ DirtyIn(block) = {}
  /\ block' = block + 1 /\ blockOk' = TRUE
  /\ UNCHANGED <<card, slot, ready, pend, ret, flushing, buf, todo, lost>>

(* ReadBlock, the overlay of the dirty pages, McEraseBlock2. *)
BlockPages(b) == {p \in Pages : Block(p) = b}
Overlay(b) ==
  [p \in Pages |-> IF Block(p) # b THEN Erased
                   ELSE IF \E s \in DirtyIn(b) : slot[s].page = p
                   THEN slot[CHOOSE s \in DirtyIn(b) : slot[s].page = p].data
                   ELSE card[p]]
\* Mutant: the erase block after the one meant is erased with it.
EraseOnCardTwoBlocks(b) ==
  [p \in Pages |-> IF Block(p) \in {b, b + 1} THEN Erased ELSE card[p]]

EraseOnCard(b) == [p \in Pages |-> IF Block(p) = b THEN Erased ELSE card[p]]

\* Mutant: a block without a dirty page is rewritten as well.
FlushEraseEveryBlock ==
  /\ flushing = "scan" /\ block < NumBlocks
  /\ flushing' = "program"
  /\ buf' = Overlay(block)
  /\ todo' = BlockPages(block)
  /\ card' = EraseOnCard(block)
  /\ UNCHANGED <<slot, ready, pend, ret, block, blockOk, lost>>

FlushErase ==
  /\ flushing = "scan" /\ block < NumBlocks
  /\ DirtyIn(block) # {}
  /\ flushing' = "program"
  /\ buf' = Overlay(block)
  /\ todo' = BlockPages(block)
  /\ card' = EraseOnCard(block)
  /\ UNCHANGED <<slot, ready, pend, ret, block, blockOk, lost>>

(* The block cannot be read, erased, or its ECC buffer allocated. *)
FlushBlockFails ==
  /\ CardFaults
  /\ flushing = "scan" /\ block < NumBlocks
  /\ DirtyIn(block) # {}
  /\ card' \in {card, EraseOnCard(block)}
  /\ block' = block + 1 /\ blockOk' = FALSE
  /\ UNCHANGED <<slot, ready, pend, ret, flushing, buf, todo, lost>>

(* WriteBlock programs the pages in ascending order. *)
Next2Program(p) == p \in todo /\ \A q \in todo : p <= q
EndOfBlock(ok) ==
  /\ flushing' = "scan" /\ block' = block + 1 /\ blockOk' = ok
  /\ buf' = NoImage /\ todo' = {}

ProgramPage ==
  /\ flushing = "program"
  /\ \E p \in todo :
       /\ Next2Program(p)
       /\ card' = [card EXCEPT ![p] = buf[p]]
       /\ IF todo = {p} THEN EndOfBlock(TRUE)
          ELSE todo' = todo \ {p} /\ UNCHANGED <<flushing, block, blockOk, buf>>
  /\ UNCHANGED <<slot, ready, pend, ret, lost>>

(* McWritePage fails: the rest of the block stays erased. *)
ProgramFails ==
  /\ CardFaults
  /\ flushing = "program"
  /\ EndOfBlock(FALSE)
  /\ UNCHANGED <<card, slot, ready, pend, ret, lost>>

\* Mutant: a flush keeps the pages cached, as clean ones.
FlushDoneKeepsSlots ==
  /\ flushing = "scan" /\ block = NumBlocks
  /\ slot' = [s \in Slots |-> [slot[s] EXCEPT !.dirty = FALSE]]
  /\ flushing' = "off" /\ block' = 0 /\ blockOk' = TRUE
  /\ IF pend.op = "flush" \/ ~blockOk
     THEN Return(pend.op, pend.page, Erased, blockOk)
     ELSE UNCHANGED <<pend, ret>>
  /\ UNCHANGED <<card, ready, buf, todo, lost>>

(* The result of the flush is that of the last block.  Every slot is freed *)
(* whatever it was; a read or write that was waiting retries on success.   *)
FlushDone ==
  /\ flushing = "scan" /\ block = NumBlocks
  /\ slot' = [s \in Slots |-> FreeSlot]
  /\ flushing' = "off" /\ block' = 0 /\ blockOk' = TRUE
  /\ IF pend.op = "flush" \/ ~blockOk
     THEN Return(pend.op, pend.page, Erased, blockOk)
     ELSE UNCHANGED <<pend, ret>>
  /\ UNCHANGED <<card, ready, buf, todo, lost>>

-----------------------------------------------------------------------------
(* Power is lost, or the EE reboots the IOP: only the card survives, and   *)
(* the answer to the last request is as good as forgotten.                 *)
PowerLoss ==
  /\ slot' = [s \in Slots |-> FreeSlot]
  /\ ready' = FALSE
  /\ Return("none", 0, Erased, TRUE)
  /\ flushing' = "off" /\ block' = 0 /\ blockOk' = TRUE
  /\ buf' = NoImage /\ todo' = {}
  /\ lost' = 0
  /\ UNCHANGED card

Call ==
  \/ InitPageCache
  \/ \E p \in Pages : ReadHit(p) \/ ReadMiss(p) \/ ReadUncached(p)
  \/ \E p \in Pages, d \in Vals : WriteHit(p, d) \/ WriteMiss(p, d) \/ WriteNotReady(p, d)
  \/ FlushRequest

Serve ==
  \/ FillRead \/ ReadFails \/ FillWrite
  \/ FlushStart \/ FlushNoMemory \/ FlushSkip \/ FlushErase \/ FlushBlockFails
  \/ ProgramPage \/ ProgramFails \/ FlushDone

Next == Call \/ Serve \/ PowerLoss

Spec == Init /\ [][Next]_vars

(* The RPC server thread runs a request to its end. *)
FairSpec == Spec /\ WF_vars(Serve)

-----------------------------------------------------------------------------
(* The variables have their types; the flush state is reset between flushes. *)
TypeOK ==
  /\ card \in [Pages -> Data]
  /\ slot \in [Slots -> SlotState]
  /\ ready \in BOOLEAN
  /\ pend \in Request
  /\ ret \in Reply
  /\ flushing \in {"off", "scan", "program"}
  /\ block \in 0 .. NumBlocks
  /\ blockOk \in BOOLEAN
  /\ buf \in [Pages -> Data]
  /\ todo \in SUBSET Pages
  /\ lost \in 0 .. MaxLost

(* "A fact: Each page cannot occur twice in the cache."  No two slots in   *)
(* use hold the same page, across hits, evictions and failed flushes.      *)
CachePagesUnique ==
  \A s, t \in Slots :
    slot[s].exists /\ slot[t].exists /\ slot[s].page = slot[t].page => s = t

(* AddCacheBlockFlushList looks for a free entry without a bound: the list *)
(* of a block never needs more entries than the block has pages.           *)
FlushListFits == \A b \in Blocks : Cardinality(DirtyIn(b)) <= BlockSize

(* What a loss of power would take: a page that was only read is intact on *)
(* the card, unless it lies in a block whose rewriting has begun in the    *)
(* flush under way, and then, until a card command fails, the image in     *)
(* BlockBuffer still has it.                                               *)
OnCardOrInImage(p) == IF p \in todo THEN buf[p] ELSE card[p]

CleanPagesSafe ==
  \A s \in Slots :
    slot[s].exists /\ ~slot[s].dirty =>
      LET p == slot[s].page
      IN  \/ OnCardOrInImage(p) = slot[s].data
          \/ CardFaults /\ flushing # "off" /\ Block(p) < block

(* A flush whose result says that all went well has put every dirty page   *)
(* on the card: it is about to free the slots that hold the only copy.     *)
FlushReportsFailure ==
  flushing = "scan" /\ block = NumBlocks /\ blockOk =>
    \A s \in Slots : Dirty(s) => card[slot[s].page] = slot[s].data

(* A failed InitPageCache leaves no page buffer allocated ("free up it's   *)
(* allocated cache memory if an error occurs").                            *)
FailedInitFreesBuffers == lost = 0

(* A step that changes the card stays within one erase block, and that     *)
(* block holds a page the cache has to write back: faults included, a      *)
(* flush never harms a block nobody wrote to.                              *)
WithinOneDirtyBlock ==
  \A p \in Pages : card'[p] # card[p] => Block(p) = block /\ DirtyIn(block) # {}
DamageConfined == [][WithinOneDirtyBlock]_vars

(* Every request returns, whether its flush works or fails, unless the     *)
(* machine is turned off.                                                  *)
RequestCompletes == (pend.op # "none") ~> (pend.op = "none")

(* With a working card, the cache is the store of PageStore: no read sees  *)
(* an old value; no write is lost by an eviction, since only InitPageCache *)
(* and a loss of power may fall back to what is on the card; a flush that  *)
(* reports success has brought the card up to date; and a power failure    *)
(* costs exactly what had not reached the card.                            *)
View ==
  [p \in Pages |->
     IF \E s \in Slots : slot[s].exists /\ slot[s].page = p
     THEN slot[CHOOSE s \in Slots : slot[s].exists /\ slot[s].page = p].data
     ELSE OnCardOrInImage(p)]

Store == INSTANCE PageStore
           WITH view <- View, durable <- card, reply <- ret, BlockOf <- Block
ImplementsPageStore == Store!StoreSpec

-----------------------------------------------------------------------------
(* The inductive invariant behind the safety properties, conjunct by       *)
(* conjunct: requests are served one at a time and only they flush; the    *)
(* page a miss waits for is in no slot; the image of the block under       *)
(* rewriting; what a flush without faults has already secured.             *)
OneAtATime ==
  /\ flushing # "off" => pend.op # "none"
  /\ flushing # "program" => todo = {}

MissedPageAbsent ==
  pend.op \in {"read", "write"} =>
    \A s \in Slots : slot[s].exists => slot[s].page # pend.page

BlockUnderRewriting ==
  flushing = "program" =>
    /\ block < NumBlocks
    /\ todo # {}
    /\ \A p \in todo : Block(p) = block
    /\ DirtyIn(block) # {}

DirtySecured ==
  flushing # "off" /\ ~CardFaults =>
    \A s \in Slots :
      Dirty(s) =>
        LET p == slot[s].page
        IN  /\ Block(p) < block => card[p] = slot[s].data
            /\ flushing = "program" /\ Block(p) = block => OnCardOrInImage(p) = slot[s].data

CacheInvariant ==
  /\ TypeOK
  /\ OneAtATime
  /\ CachePagesUnique
  /\ MissedPageAbsent
  /\ BlockUnderRewriting
  /\ CleanPagesSafe
  /\ DirtySecured

=============================================================================
