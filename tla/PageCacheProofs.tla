--------------------------- MODULE PageCacheProofs ---------------------------
(***************************************************************************)
(* Theorems about PageCache for every cache size, card geometry and set of *)
(* values.  CacheInvariant is inductive; the safety properties follow from *)
(* it.  The second part shows that the cache implements PageStore as long  *)
(* as the card works: each step of PageCache is a step of PageStore, or    *)
(* leaves what it shows as it is.                                          *)
(***************************************************************************)
EXTENDS PageCache, FiniteSetTheorems, TLAPS

(* A page of the card lies in one of its erase blocks. *)
LEMMA BlockOfPage == \A p \in Pages : Block(p) \in Blocks
<1> SUFFICES ASSUME NEW p \in Pages PROVE Block(p) \in Blocks
  OBVIOUS
<1> DEFINE q == p \div BlockSize
<1>1. /\ p \in Nat /\ BlockSize \in Nat \ {0} /\ NumBlocks \in Nat \ {0}
      /\ p < NumBlocks * BlockSize
  BY SizesAssumption DEF Pages
<1>2. q \in Nat /\ BlockSize * q <= p
  BY <1>1
<1>3. q < NumBlocks
  <2>1. SUFFICES ASSUME q >= NumBlocks PROVE FALSE
    BY <1>1, <1>2
  <2>2. BlockSize * q >= BlockSize * NumBlocks
    BY <1>1, <1>2, <2>1
  <2> QED BY <1>1, <1>2, <2>2
<1> QED BY <1>1, <1>2, <1>3 DEF Block, Blocks

(* The pages are integers that include page 0. *)
LEMMA PagesAreIntegers == Pages \subseteq Nat /\ 0 \in Pages
<1>1. NumBlocks * BlockSize \in Nat /\ NumBlocks * BlockSize >= 1
  BY SizesAssumption
<1> QED BY <1>1 DEF Pages

(* Before InitPageCache the cache is empty, whatever the card holds. *)
LEMMA InitInvariant == Init => CacheInvariant
<1> SUFFICES ASSUME Init PROVE CacheInvariant
  OBVIOUS
<1> USE PagesAreIntegers, SizesAssumption, FaultsAssumption DEF Init
<1>1. TypeOK
  <2>1. card \in [Pages -> Data] /\ buf \in [Pages -> Data]
    BY DEF Data, NoImage
  <2>2. FreeSlot \in SlotState /\ pend \in Request /\ ret \in Reply
    BY DEF Data, SlotState, Request, Reply, FreeSlot, NoRequest
  <2>3. slot \in [Slots -> SlotState]
    BY <2>2
  <2>4. block \in 0 .. NumBlocks /\ lost \in 0 .. MaxLost
    OBVIOUS
  <2> QED BY <2>1, <2>2, <2>3, <2>4 DEF TypeOK
<1>2. OneAtATime /\ MissedPageAbsent /\ BlockUnderRewriting /\ DirtySecured
  BY DEF OneAtATime, MissedPageAbsent, BlockUnderRewriting, DirtySecured, NoRequest
<1>3. CachePagesUnique /\ CleanPagesSafe
  BY DEF CachePagesUnique, CleanPagesSafe, FreeSlot
<1> QED BY <1>1, <1>2, <1>3 DEF CacheInvariant

-----------------------------------------------------------------------------
(* A step that only accepts or answers a request, outside a flush. *)
LEMMA RequestStep ==
  ASSUME CacheInvariant, UNCHANGED <<card, slot, flushVars>>, flushing = "off",
         pend' \in Request, ret' \in Reply, ready' \in BOOLEAN, lost' = lost,
         MissedPageAbsent'
  PROVE  CacheInvariant'
<1> USE DEF flushVars
<1>1. TypeOK'
  BY DEF CacheInvariant, TypeOK
<1>2. OneAtATime' /\ BlockUnderRewriting' /\ DirtySecured'
  BY DEF CacheInvariant, OneAtATime, BlockUnderRewriting, DirtySecured, OnCardOrInImage
<1>3. CachePagesUnique' /\ CleanPagesSafe'
  BY DEF CacheInvariant, CachePagesUnique, CleanPagesSafe, OnCardOrInImage
<1> QED BY <1>1, <1>2, <1>3 DEF CacheInvariant

(* A step after which every slot is free and no flush is under way. *)
LEMMA EmptyingStep ==
  ASSUME CacheInvariant, card' = card, slot' = [s \in Slots |-> FreeSlot],
         flushing' = "off", block' \in 0 .. NumBlocks, blockOk' \in BOOLEAN,
         buf' \in [Pages -> Data], todo' = {},
         pend' \in Request, ret' \in Reply, ready' \in BOOLEAN, lost' \in 0 .. MaxLost
  PROVE  CacheInvariant'
<1>1. FreeSlot \in SlotState
  BY PagesAreIntegers DEF FreeSlot, SlotState, Data
<1>2. TypeOK'
  BY <1>1 DEF CacheInvariant, TypeOK
<1>3. \A s \in Slots : ~slot'[s].exists
  BY DEF FreeSlot
<1>4. CachePagesUnique' /\ CleanPagesSafe' /\ MissedPageAbsent'
  BY <1>3 DEF CachePagesUnique, CleanPagesSafe, MissedPageAbsent
<1>5. OneAtATime' /\ BlockUnderRewriting' /\ DirtySecured'
  BY <1>3 DEF OneAtATime, BlockUnderRewriting, DirtySecured, OnCardOrInImage
<1> QED BY <1>2, <1>4, <1>5 DEF CacheInvariant

(* A miss takes a free slot for the page it waited for; a page that was    *)
(* only read enters the cache with the content of the card.                *)
LEMMA FillStep ==
  ASSUME CacheInvariant, NEW s \in Slots, NEW r \in SlotState,
         slot' = [slot EXCEPT ![s] = r],
         pend.op \in {"read", "write"}, flushing = "off",
         r.page = pend.page, r.exists, ~r.dirty => r.data = card[pend.page],
         pend' = NoRequest, ret' \in Reply,
         UNCHANGED <<card, ready, flushVars, lost>>
  PROVE  CacheInvariant'
<1> USE DEF flushVars
<1>1. slot \in [Slots -> SlotState] /\ slot' \in [Slots -> SlotState]
  BY DEF CacheInvariant, TypeOK
<1>2. pend' \in Request
  BY PagesAreIntegers DEF NoRequest, Request, Data
<1>3. TypeOK'
  BY <1>1, <1>2 DEF CacheInvariant, TypeOK
<1>4. \A t \in Slots : slot'[t] = IF t = s THEN r ELSE slot[t]
  BY <1>1
<1>5. \A t \in Slots : slot[t].exists => slot[t].page # r.page
  BY DEF CacheInvariant, MissedPageAbsent
<1>6. CachePagesUnique'
  BY <1>4, <1>5 DEF CacheInvariant, CachePagesUnique
<1>7. CleanPagesSafe'
  <2>1. todo = {} /\ todo' = {}
    BY DEF CacheInvariant, OneAtATime
  <2> QED BY <1>4, <2>1 DEF CacheInvariant, CleanPagesSafe, OnCardOrInImage
<1>8. OneAtATime' /\ MissedPageAbsent' /\ BlockUnderRewriting' /\ DirtySecured'
  BY DEF CacheInvariant, OneAtATime, MissedPageAbsent, BlockUnderRewriting, DirtySecured, NoRequest
<1> QED BY <1>3, <1>6, <1>7, <1>8 DEF CacheInvariant

(* A write that hits makes the page dirty where it is. *)
LEMMA WriteHitStep ==
  ASSUME CacheInvariant, NEW p \in Pages, NEW d \in Vals, WriteHit(p, d)
  PROVE  CacheInvariant'
<1> USE DEF WriteHit, flushVars
<1>1. PICK s \in Slots : slot' = [slot EXCEPT ![s] = [@ EXCEPT !.data = d, !.dirty = TRUE]]
  OBVIOUS
<1>2. slot \in [Slots -> SlotState] /\ d \in Data
  BY DEF CacheInvariant, TypeOK, Data
<1> DEFINE r == [slot[s] EXCEPT !.data = d, !.dirty = TRUE]
<1>a. slot' = [slot EXCEPT ![s] = r]
  BY <1>1, <1>2
<1>b. /\ r \in SlotState /\ r.dirty
      /\ r.page = slot[s].page /\ r.exists = slot[s].exists
  <2>1. slot[s] \in SlotState
    BY ONLY <1>2
  <2>2. r \in SlotState
    BY ONLY <1>2, <2>1 DEF SlotState
  <2>3. r.dirty
    BY ONLY <2>1, Zenon DEF SlotState
  <2>4. r.page = slot[s].page /\ r.exists = slot[s].exists
    BY ONLY <2>1 DEF SlotState
  <2> QED
    BY <2>2, <2>3, <2>4
<1>3. /\ slot' \in [Slots -> SlotState]
      /\ \A t \in Slots : /\ slot'[t].page = slot[t].page
                          /\ slot'[t].exists = slot[t].exists
                          /\ t # s => slot'[t] = slot[t]
      /\ slot'[s].dirty
  <2> HIDE DEF r
  <2> QED BY <1>a, <1>b, <1>2
<1>4. flushing = "off" /\ todo = {}
  BY DEF Idle, CacheInvariant, OneAtATime
<1>5. pend' = NoRequest /\ pend' \in Request /\ ret' \in Reply
  BY PagesAreIntegers DEF Return, NoRequest, Request, Reply, Data
<1>6. TypeOK'
  BY <1>3, <1>5 DEF CacheInvariant, TypeOK
<1>7. CachePagesUnique'
  BY <1>3 DEF CacheInvariant, CachePagesUnique
<1>8. CleanPagesSafe'
  BY <1>3 DEF CacheInvariant, CleanPagesSafe, OnCardOrInImage
<1>9. OneAtATime' /\ MissedPageAbsent' /\ BlockUnderRewriting' /\ DirtySecured'
  BY <1>4, <1>5 DEF OneAtATime, MissedPageAbsent, BlockUnderRewriting, DirtySecured, NoRequest
<1> QED BY <1>6, <1>7, <1>8, <1>9 DEF CacheInvariant

-----------------------------------------------------------------------------
(* A flush starts with nothing secured and nothing harmed. *)
LEMMA FlushStartStep ==
  ASSUME CacheInvariant, FlushStart
  PROVE  CacheInvariant'
<1> USE DEF FlushStart, NeedsFlush
<1>1. TypeOK' /\ OneAtATime' /\ CachePagesUnique' /\ MissedPageAbsent' /\ BlockUnderRewriting'
  BY SizesAssumption DEF CacheInvariant, TypeOK, OneAtATime, CachePagesUnique, MissedPageAbsent,
     BlockUnderRewriting
<1>2. \A s \in Slots : slot[s].page \in Pages
  BY DEF CacheInvariant, TypeOK, SlotState
<1>3. CleanPagesSafe'
  BY DEF CacheInvariant, CleanPagesSafe, OnCardOrInImage
<1>4. DirtySecured'
  BY <1>2, BlockOfPage DEF DirtySecured, Blocks, Dirty
<1> QED BY <1>1, <1>3, <1>4 DEF CacheInvariant

(* A block without dirty pages has nothing to secure. *)
LEMMA FlushSkipStep ==
  ASSUME CacheInvariant, FlushSkip
  PROVE  CacheInvariant'
<1> USE DEF FlushSkip
<1>1. TypeOK'
  BY SizesAssumption DEF CacheInvariant, TypeOK
<1>2. OneAtATime' /\ CachePagesUnique' /\ MissedPageAbsent' /\ BlockUnderRewriting'
  BY DEF CacheInvariant, OneAtATime, CachePagesUnique, MissedPageAbsent, BlockUnderRewriting
<1>3. \A s \in Slots : Block(slot[s].page) \in Int /\ block \in Int
  BY BlockOfPage, SizesAssumption DEF CacheInvariant, TypeOK, SlotState, Blocks
<1>4. CleanPagesSafe'
  BY <1>3 DEF CacheInvariant, CleanPagesSafe, OnCardOrInImage, OneAtATime
<1>5. DirtySecured'
  BY <1>3 DEF CacheInvariant, DirtySecured, OnCardOrInImage, DirtyIn, Dirty
<1> QED BY <1>1, <1>2, <1>4, <1>5 DEF CacheInvariant

(* In the image, a page the cache holds is the page as the cache holds it, *)
(* and any other page of the block is as on the card.                      *)
LEMMA OverlayValue ==
  ASSUME CacheInvariant, NEW b \in Blocks
  PROVE  /\ Overlay(b) \in [Pages -> Data]
         /\ \A s \in DirtyIn(b) : Overlay(b)[slot[s].page] = slot[s].data
         /\ \A p \in Pages :
              Block(p) = b /\ (\A s \in DirtyIn(b) : slot[s].page # p) => Overlay(b)[p] = card[p]
<1>1. \A s \in DirtyIn(b) :
        /\ s \in Slots /\ slot[s].exists /\ slot[s].data \in Data
        /\ slot[s].page \in Pages /\ Block(slot[s].page) = b
  BY DEF DirtyIn, Dirty, CacheInvariant, TypeOK, SlotState
<1>2. Overlay(b) \in [Pages -> Data]
  <2> SUFFICES ASSUME NEW p \in Pages PROVE Overlay(b)[p] \in Data
    BY DEF Overlay
  <2>1. CASE \E s \in DirtyIn(b) : slot[s].page = p
    BY <2>1, <1>1 DEF Overlay, Data
  <2>2. CASE ~\E s \in DirtyIn(b) : slot[s].page = p
    BY <2>2 DEF Overlay, Data, CacheInvariant, TypeOK
  <2> QED BY <2>1, <2>2
<1>3. ASSUME NEW s \in DirtyIn(b) PROVE Overlay(b)[slot[s].page] = slot[s].data
  <2>1. \A t \in DirtyIn(b) : slot[t].page = slot[s].page => t = s
    BY <1>1 DEF CacheInvariant, CachePagesUnique
  <2>2. (CHOOSE t \in DirtyIn(b) : slot[t].page = slot[s].page) = s
    BY <2>1
  <2> QED BY <1>1, <2>2 DEF Overlay
<1>4. \A p \in Pages :
        Block(p) = b /\ (\A s \in DirtyIn(b) : slot[s].page # p) => Overlay(b)[p] = card[p]
  BY DEF Overlay
<1> QED BY <1>2, <1>3, <1>4

(* Erasing a block leaves its pages, clean and dirty, in the image. *)
LEMMA FlushEraseStep ==
  ASSUME CacheInvariant, FlushErase
  PROVE  CacheInvariant'
<1> USE DEF FlushErase
<1>1. block \in Blocks
  BY SizesAssumption DEF Blocks, CacheInvariant, TypeOK
<1>2. todo = {} /\ card \in [Pages -> Data] /\ slot \in [Slots -> SlotState]
  BY DEF CacheInvariant, OneAtATime, TypeOK
<1>3. /\ card' \in [Pages -> Data]
      /\ \A p \in Pages : Block(p) # block => card'[p] = card[p]
      /\ \A p \in Pages : Block(p) = block <=> p \in todo'
  BY <1>2 DEF EraseOnCard, Data, BlockPages
<1>4. buf' = Overlay(block) /\ buf' \in [Pages -> Data]
  BY <1>1, OverlayValue
<1>5. TypeOK'
  BY <1>3, <1>4 DEF CacheInvariant, TypeOK, BlockPages
<1>6. OneAtATime' /\ CachePagesUnique' /\ MissedPageAbsent'
  BY DEF CacheInvariant, OneAtATime, CachePagesUnique, MissedPageAbsent
<1>7. BlockUnderRewriting'
  <2>1. PICK s \in DirtyIn(block) : TRUE
    OBVIOUS
  <2>2. slot[s].page \in todo'
    BY <1>2, <2>1 DEF DirtyIn, SlotState, BlockPages
  <2> QED BY <2>2 DEF BlockUnderRewriting, BlockPages, DirtyIn, Dirty
<1>8. CleanPagesSafe'
  <2> SUFFICES ASSUME NEW s \in Slots, slot[s].exists, ~slot[s].dirty
               PROVE  LET p == slot[s].page
                      IN  \/ OnCardOrInImage(p)' = slot[s].data
                          \/ CardFaults /\ flushing' # "off" /\ Block(p) < block
    BY DEF CleanPagesSafe, OnCardOrInImage
  <2> DEFINE p == slot[s].page
  <2>1. p \in Pages /\ (card[p] = slot[s].data \/ (CardFaults /\ Block(p) < block))
    BY <1>2 DEF CacheInvariant, CleanPagesSafe, OnCardOrInImage, SlotState
  <2>2. CASE Block(p) # block
    BY <1>3, <2>1, <2>2 DEF OnCardOrInImage
  <2>3. CASE Block(p) = block
    <3>1. card[p] = slot[s].data
      BY <1>1, <2>1, <2>3 DEF Blocks
    <3>2. \A t \in DirtyIn(block) : slot[t].page # p
      BY DEF CacheInvariant, CachePagesUnique, DirtyIn, Dirty
    <3>3. buf'[p] = card[p]
      BY <1>1, <1>4, <2>1, <2>3, <3>2, OverlayValue
    <3> QED BY <1>3, <2>1, <2>3, <3>1, <3>3 DEF OnCardOrInImage
  <2> QED BY <2>2, <2>3
<1>9. DirtySecured'
  <2> SUFFICES ASSUME ~CardFaults, NEW s \in Slots, Dirty(s)
               PROVE  LET p == slot[s].page
                      IN  /\ Block(p) < block => card'[p] = slot[s].data
                          /\ Block(p) = block => p \in todo' /\ buf'[p] = slot[s].data
    BY DEF DirtySecured, OnCardOrInImage, Dirty
  <2>1. slot[s].page \in Pages
    BY <1>2 DEF SlotState
  <2>2. CASE Block(slot[s].page) = block
    <3>1. s \in DirtyIn(block)
      BY <2>2 DEF DirtyIn
    <3> QED BY <1>1, <1>3, <1>4, <2>1, <2>2, <3>1, OverlayValue DEF Blocks
  <2>3. CASE Block(slot[s].page) # block
    BY <1>3, <2>1, <2>3 DEF CacheInvariant, DirtySecured, OnCardOrInImage
  <2> QED BY <2>2, <2>3
<1> QED BY <1>5, <1>6, <1>7, <1>8, <1>9 DEF CacheInvariant

(* A block that cannot be rewritten is given up, and only that one. *)
LEMMA FlushBlockFailsStep ==
  ASSUME CacheInvariant, FlushBlockFails
  PROVE  CacheInvariant'
<1> USE DEF FlushBlockFails
<1>1. card \in [Pages -> Data] /\ slot \in [Slots -> SlotState] /\ block \in 0 .. NumBlocks
  BY DEF CacheInvariant, TypeOK
<1>2. /\ card' \in [Pages -> Data]
      /\ \A p \in Pages : Block(p) # block => card'[p] = card[p]
  BY <1>1 DEF EraseOnCard, Data
<1>a. block' \in 0 .. NumBlocks
  BY <1>1, SizesAssumption
<1>3. TypeOK'
  BY <1>2, <1>a DEF CacheInvariant, TypeOK
<1>4. OneAtATime' /\ CachePagesUnique' /\ MissedPageAbsent' /\ BlockUnderRewriting' /\ DirtySecured'
  BY DEF CacheInvariant, OneAtATime, CachePagesUnique, MissedPageAbsent, BlockUnderRewriting,
     DirtySecured, OnCardOrInImage
<1>5. CleanPagesSafe'
  <2> SUFFICES ASSUME NEW s \in Slots, slot[s].exists, ~slot[s].dirty
               PROVE  card'[slot[s].page] = slot[s].data \/ Block(slot[s].page) < block + 1
    BY DEF CacheInvariant, CleanPagesSafe, OneAtATime, OnCardOrInImage
  <2>1. slot[s].page \in Pages /\ Block(slot[s].page) \in Int /\ block \in Int
    BY <1>1, BlockOfPage, SizesAssumption DEF SlotState, Blocks
  <2>2. card[slot[s].page] = slot[s].data \/ Block(slot[s].page) < block
    BY DEF CacheInvariant, CleanPagesSafe, OnCardOrInImage, OneAtATime
  <2> QED BY <1>2, <2>1, <2>2
<1> QED BY <1>3, <1>4, <1>5 DEF CacheInvariant

(* A page programmed is on the card what it was in the image. *)
LEMMA ProgramPageStep ==
  ASSUME CacheInvariant, ProgramPage
  PROVE  CacheInvariant'
<1> USE DEF ProgramPage
<1>1. PICK p \in todo : /\ card' = [card EXCEPT ![p] = buf[p]]
                       /\ IF todo = {p} THEN EndOfBlock(TRUE)
                          ELSE todo' = todo \ {p} /\ UNCHANGED <<flushing, block, blockOk, buf>>
  OBVIOUS
<1>2. /\ card \in [Pages -> Data] /\ buf \in [Pages -> Data] /\ todo \subseteq Pages
      /\ slot \in [Slots -> SlotState] /\ block \in 0 .. NumBlocks /\ p \in Pages
  BY DEF CacheInvariant, TypeOK
<1>3. block < NumBlocks /\ (\A q \in todo : Block(q) = block) /\ DirtyIn(block) # {}
  BY DEF CacheInvariant, BlockUnderRewriting
<1>4. /\ card' \in [Pages -> Data] /\ card'[p] = buf[p]
      /\ \A q \in Pages : q # p => card'[q] = card[q]
  BY <1>1, <1>2
<1>5. \A s \in Slots : slot[s].page \in Pages /\ Block(slot[s].page) \in Int
  BY <1>2, BlockOfPage DEF SlotState, Blocks
<1>6. CASE todo = {p}
  <2>1. flushing' = "scan" /\ block' = block + 1 /\ blockOk' = TRUE /\ buf' = NoImage /\ todo' = {}
    BY <1>1, <1>6 DEF EndOfBlock
  <2>2. TypeOK'
    BY <1>2, <1>3, <1>4, <2>1, SizesAssumption DEF CacheInvariant, TypeOK, NoImage, Data
  <2>3. OneAtATime' /\ CachePagesUnique' /\ MissedPageAbsent' /\ BlockUnderRewriting'
    BY <2>1 DEF CacheInvariant, OneAtATime, CachePagesUnique, MissedPageAbsent, BlockUnderRewriting
  <2>4. CleanPagesSafe'
    <3> SUFFICES ASSUME NEW s \in Slots, slot[s].exists, ~slot[s].dirty
                 PROVE  \/ card'[slot[s].page] = slot[s].data
                        \/ CardFaults /\ Block(slot[s].page) < block + 1
      BY <2>1 DEF CleanPagesSafe, OnCardOrInImage
    <3>1. \/ OnCardOrInImage(slot[s].page) = slot[s].data
          \/ CardFaults /\ Block(slot[s].page) < block
      BY DEF CacheInvariant, CleanPagesSafe
    <3>a. block \in Int
      BY <1>2, SizesAssumption
    <3>2. CASE slot[s].page = p
      BY <1>4, <1>5, <3>1, <3>2, <3>a DEF OnCardOrInImage
    <3>3. CASE slot[s].page # p
      BY <1>4, <1>5, <1>6, <3>1, <3>3, <3>a DEF OnCardOrInImage
    <3> QED BY <3>2, <3>3
  <2>5. DirtySecured'
    <3> SUFFICES ASSUME ~CardFaults, NEW s \in Slots, Dirty(s), Block(slot[s].page) < block + 1
                 PROVE  card'[slot[s].page] = slot[s].data
      BY <2>1 DEF DirtySecured, Dirty
    <3>1. Block(slot[s].page) < block \/ Block(slot[s].page) = block
      BY <1>2, <1>5
    <3>2. CASE Block(slot[s].page) < block
      <4>1. card[slot[s].page] = slot[s].data /\ slot[s].page # p
        BY <1>3, <1>5, <3>2 DEF CacheInvariant, DirtySecured
      <4> QED BY <1>4, <1>5, <4>1
    <3>3. CASE Block(slot[s].page) = block
      <4>1. OnCardOrInImage(slot[s].page) = slot[s].data
        BY <3>3 DEF CacheInvariant, DirtySecured
      <4> QED BY <1>4, <1>5, <1>6, <4>1 DEF OnCardOrInImage
    <3> QED BY <3>1, <3>2, <3>3
  <2> QED BY <2>2, <2>3, <2>4, <2>5 DEF CacheInvariant
<1>7. CASE todo # {p}
  <2>1. todo' = todo \ {p} /\ UNCHANGED <<flushing, block, blockOk, buf>>
    BY <1>1, <1>7
  <2>2. TypeOK'
    BY <1>4, <2>1 DEF CacheInvariant, TypeOK
  <2>3. OneAtATime' /\ CachePagesUnique' /\ MissedPageAbsent'
    BY <2>1 DEF CacheInvariant, OneAtATime, CachePagesUnique, MissedPageAbsent
  <2>4. BlockUnderRewriting'
    BY <1>3, <1>7, <2>1 DEF BlockUnderRewriting, DirtyIn, Dirty
  <2>5. CleanPagesSafe'
    <3> SUFFICES ASSUME NEW s \in Slots, slot[s].exists, ~slot[s].dirty
                 PROVE  \/ OnCardOrInImage(slot[s].page)' = slot[s].data
                        \/ CardFaults /\ flushing # "off" /\ Block(slot[s].page) < block
      BY <2>1 DEF CleanPagesSafe, OnCardOrInImage
    <3>1. \/ OnCardOrInImage(slot[s].page) = slot[s].data
          \/ CardFaults /\ flushing # "off" /\ Block(slot[s].page) < block
      BY DEF CacheInvariant, CleanPagesSafe
    <3>2. CASE slot[s].page = p
      BY <1>4, <1>5, <2>1, <3>1, <3>2 DEF OnCardOrInImage
    <3>3. CASE slot[s].page # p
      BY <1>4, <1>5, <2>1, <3>1, <3>3 DEF OnCardOrInImage
    <3> QED BY <3>2, <3>3
  <2>6. DirtySecured'
    <3> SUFFICES ASSUME ~CardFaults, NEW s \in Slots, Dirty(s)
                 PROVE  LET q == slot[s].page
                        IN  /\ Block(q) < block => card'[q] = slot[s].data
                            /\ Block(q) = block => OnCardOrInImage(q)' = slot[s].data
      BY <2>1 DEF DirtySecured, Dirty
    <3>1. LET q == slot[s].page
          IN  /\ Block(q) < block => card[q] = slot[s].data
              /\ Block(q) = block => OnCardOrInImage(q) = slot[s].data
      BY DEF CacheInvariant, DirtySecured, OnCardOrInImage
    <3>2. p \in todo /\ Block(p) = block /\ block \in Int
      BY <1>2, <1>3, SizesAssumption
    <3>3. CASE slot[s].page = p
      BY <1>4, <1>5, <2>1, <3>1, <3>2, <3>3 DEF OnCardOrInImage
    <3>4. CASE slot[s].page # p
      BY <1>4, <1>5, <2>1, <3>1, <3>4 DEF OnCardOrInImage
    <3> QED BY <3>3, <3>4
  <2> QED BY <2>2, <2>3, <2>4, <2>5, <2>6 DEF CacheInvariant
<1> QED BY <1>6, <1>7

(* A page that cannot be programmed costs its own block only. *)
LEMMA ProgramFailsStep ==
  ASSUME CacheInvariant, ProgramFails
  PROVE  CacheInvariant'
<1> USE DEF ProgramFails, EndOfBlock
<1>1. block < NumBlocks /\ (\A q \in todo : Block(q) = block)
  BY DEF CacheInvariant, BlockUnderRewriting
<1>a. block' \in 0 .. NumBlocks /\ buf' \in [Pages -> Data]
  BY <1>1, SizesAssumption DEF CacheInvariant, TypeOK, NoImage, Data
<1>2. TypeOK'
  BY <1>a DEF CacheInvariant, TypeOK
<1>3. OneAtATime' /\ CachePagesUnique' /\ MissedPageAbsent' /\ BlockUnderRewriting' /\ DirtySecured'
  BY DEF CacheInvariant, OneAtATime, CachePagesUnique, MissedPageAbsent, BlockUnderRewriting,
     DirtySecured, OnCardOrInImage
<1>4. \A s \in Slots : Block(slot[s].page) \in Int /\ block \in Int
  BY BlockOfPage, SizesAssumption DEF CacheInvariant, TypeOK, SlotState, Blocks
<1>5. CleanPagesSafe'
  BY <1>1, <1>4 DEF CacheInvariant, CleanPagesSafe, OnCardOrInImage
<1> QED BY <1>2, <1>3, <1>5 DEF CacheInvariant

-----------------------------------------------------------------------------
(* Every step of the cache preserves the invariant. *)
LEMMA NextInvariant == CacheInvariant /\ [Next]_vars => CacheInvariant'
<1> SUFFICES ASSUME CacheInvariant, [Next]_vars PROVE CacheInvariant'
  OBVIOUS
<1>1. /\ NoRequest \in Request
      /\ \A op \in {"none", "init", "read", "write", "flush"}, p \in Pages, d \in Data, ok \in BOOLEAN :
           [op |-> op, page |-> p, data |-> d, ok |-> ok] \in Reply
  BY PagesAreIntegers DEF NoRequest, Request, Reply, Data
<1>2. /\ card \in [Pages -> Data] /\ slot \in [Slots -> SlotState]
      /\ pend \in Request /\ ret \in Reply /\ ready \in BOOLEAN
      /\ blockOk \in BOOLEAN /\ buf \in [Pages -> Data] /\ lost \in 0 .. MaxLost
      /\ block \in 0 .. NumBlocks /\ 0 \in 0 .. NumBlocks
      /\ Erased \in Data /\ 0 \in Pages /\ NoImage \in [Pages -> Data]
  BY PagesAreIntegers, SizesAssumption DEF CacheInvariant, TypeOK, Data, NoImage
<1>3. Idle => flushing = "off"
  BY DEF Idle, CacheInvariant, OneAtATime
<1>4. pend' = NoRequest => MissedPageAbsent'
  BY DEF MissedPageAbsent, NoRequest
<1>5. \A p \in Pages : slot' = slot /\ ~Hit(p) /\ pend'.page = p => MissedPageAbsent'
  BY DEF MissedPageAbsent, Hit
<1>6. CASE InitPageCache
  <2>1. lost' \in 0 .. MaxLost
    BY <1>2, <1>6, FaultsAssumption, SizesAssumption DEF InitPageCache
  <2>2. flushing = "off" /\ todo = {} /\ ready' \in BOOLEAN
    BY <1>3, <1>6 DEF InitPageCache, CacheInvariant, OneAtATime
  <2>3. pend' \in Request /\ ret' \in Reply
    BY <1>1, <1>2, <1>6, <2>2 DEF InitPageCache, Return
  <2> QED BY <1>2, <1>6, <2>1, <2>2, <2>3, EmptyingStep DEF InitPageCache, flushVars
<1>7. ASSUME NEW p \in Pages, ReadHit(p) PROVE CacheInvariant'
  <2>1. PICK s \in Slots : \E d \in BufferOf(s) : Return("read", p, d, TRUE)
    BY <1>7 DEF ReadHit
  <2>2. PICK d \in Data : Return("read", p, d, TRUE)
    BY <1>2, <2>1 DEF BufferOf, SlotState
  <2> QED BY <1>1, <1>2, <1>3, <1>4, <1>7, <2>2, RequestStep DEF ReadHit, Return
<1>8. ASSUME NEW p \in Pages, ReadMiss(p) PROVE CacheInvariant'
  BY <1>2, <1>3, <1>5, <1>8, RequestStep DEF ReadMiss, Request
<1>9. ASSUME NEW p \in Pages, ReadUncached(p) PROVE CacheInvariant'
  BY <1>1, <1>2, <1>3, <1>4, <1>9, RequestStep DEF ReadUncached, Return
<1>10. ASSUME NEW p \in Pages, NEW d \in Vals, WriteHit(p, d) PROVE CacheInvariant'
  BY <1>10, WriteHitStep
<1>11. ASSUME NEW p \in Pages, NEW d \in Vals, WriteMiss(p, d) PROVE CacheInvariant'
  BY <1>2, <1>3, <1>5, <1>11, RequestStep DEF WriteMiss, Request, Data
<1>12. ASSUME NEW p \in Pages, NEW d \in Vals, WriteNotReady(p, d) PROVE CacheInvariant'
  BY <1>1, <1>2, <1>3, <1>4, <1>12, RequestStep DEF WriteNotReady, Return
<1>13. CASE FlushRequest
  <2>1. CASE ready
    <3>1. pend' \in Request /\ MissedPageAbsent'
      BY <1>1, <1>13, <2>1 DEF FlushRequest, NoRequest, Request, MissedPageAbsent
    <3> QED BY <1>2, <1>3, <1>13, <2>1, <3>1, RequestStep DEF FlushRequest
  <2>2. CASE ~ready
    BY <1>1, <1>2, <1>3, <1>4, <1>13, <2>2, RequestStep DEF FlushRequest, Return
  <2> QED BY <2>1, <2>2
<1>14. CASE FillRead
  <2>1. PICK s \in Slots :
          slot' = [slot EXCEPT ![s] = [page |-> pend.page, data |-> card[pend.page],
                                       exists |-> TRUE, dirty |-> FALSE]]
    BY <1>14 DEF FillRead
  <2>2. pend.page \in Pages /\ card[pend.page] \in Data
    BY <1>2 DEF Request
  <2> DEFINE r == [page |-> pend.page, data |-> card[pend.page], exists |-> TRUE, dirty |-> FALSE]
  <2>3. r \in SlotState /\ r.page = pend.page /\ r.exists /\ r.data = card[pend.page]
    BY <2>2 DEF SlotState
  <2>4. pend' = NoRequest /\ ret' \in Reply
    BY <1>1, <1>14, <2>2 DEF FillRead, Return
  <2> HIDE DEF r
  <2> QED BY <1>14, <2>1, <2>3, <2>4, FillStep DEF FillRead, r
<1>15. CASE FillWrite
  <2>1. PICK s \in Slots :
          slot' = [slot EXCEPT ![s] = [page |-> pend.page, data |-> pend.data,
                                       exists |-> TRUE, dirty |-> TRUE]]
    BY <1>15 DEF FillWrite
  <2>2. pend.page \in Pages /\ pend.data \in Data
    BY <1>2 DEF Request
  <2> DEFINE r == [page |-> pend.page, data |-> pend.data, exists |-> TRUE, dirty |-> TRUE]
  <2>3. r \in SlotState /\ r.page = pend.page /\ r.exists /\ r.dirty
    BY <2>2 DEF SlotState
  <2>4. pend' = NoRequest /\ ret' \in Reply
    BY <1>1, <1>2, <1>15, <2>2 DEF FillWrite, Return
  <2> HIDE DEF r
  <2> QED BY <1>15, <2>1, <2>3, <2>4, FillStep DEF FillWrite, r
<1>16. CASE ReadFails
  <2>1. pend.page \in Pages
    BY <1>2 DEF Request
  <2> QED BY <1>1, <1>2, <1>4, <1>16, <2>1, RequestStep DEF ReadFails, Return
<1>17. CASE FlushNoMemory
  <2>1. pend.page \in Pages /\ pend.op \in {"read", "write", "flush"} /\ flushing = "off"
    BY <1>2, <1>17 DEF Request, FlushNoMemory, NeedsFlush
  <2> QED BY <1>1, <1>2, <1>4, <1>17, <2>1, RequestStep DEF FlushNoMemory, Return
<1>18. CASE FlushDone
  <2>1. pend.page \in Pages /\ pend.op \in {"read", "write", "flush"}
    BY <1>2, <1>18 DEF Request, FlushDone, CacheInvariant, OneAtATime
  <2>2. pend' \in Request /\ ret' \in Reply
    BY <1>1, <1>2, <1>18, <2>1 DEF FlushDone, Return
  <2>3. todo = {}
    BY <1>18 DEF FlushDone, CacheInvariant, OneAtATime
  <2> QED BY <1>2, <1>18, <2>2, <2>3, EmptyingStep DEF FlushDone
<1>19. CASE PowerLoss
  <2>a. 0 \in 0 .. MaxLost
    BY FaultsAssumption
  <2>b. pend' \in Request /\ ret' \in Reply
    BY <1>1, <1>2, <1>19 DEF PowerLoss, Return
  <2>1. /\ lost' \in 0 .. MaxLost /\ card' = card /\ ret' \in Reply /\ pend' \in Request
        /\ buf' \in [Pages -> Data] /\ block' \in 0 .. NumBlocks /\ blockOk' \in BOOLEAN
        /\ ready' \in BOOLEAN
    BY <1>2, <1>19, <2>a, <2>b DEF PowerLoss
  <2> QED BY <1>19, <2>1, EmptyingStep DEF PowerLoss
<1>20. CASE UNCHANGED vars
  BY <1>20 DEF vars, flushVars, CacheInvariant, TypeOK, OneAtATime, CachePagesUnique,
     MissedPageAbsent, BlockUnderRewriting, CleanPagesSafe, DirtySecured, OnCardOrInImage,
     Dirty, DirtyIn
<1> QED
  BY <1>6, <1>7, <1>8, <1>9, <1>10, <1>11, <1>12, <1>13, <1>14, <1>15, <1>16, <1>17, <1>18, <1>19,
     <1>20, FlushStartStep, FlushSkipStep, FlushEraseStep, FlushBlockFailsStep, ProgramPageStep,
     ProgramFailsStep DEF Next, Call, Serve

-----------------------------------------------------------------------------
(* CacheInvariant holds of every reachable state, for every cache size,    *)
(* card geometry and set of values, with card faults or without.           *)
THEOREM Invariance == Spec => []CacheInvariant
<1>1. Init => CacheInvariant
  BY InitInvariant
<1>2. CacheInvariant /\ [Next]_vars => CacheInvariant'
  BY NextInvariant
<1> QED BY <1>1, <1>2, PTL DEF Spec

(* The variables keep their types, BlockNum and the lists in range. *)
THEOREM TypeCorrect == Spec => []TypeOK
<1>1. CacheInvariant => TypeOK
  BY DEF CacheInvariant
<1> QED BY <1>1, Invariance, PTL

(* No page is ever in two slots: "A fact: Each page cannot occur twice in  *)
(* the cache."                                                             *)
THEOREM PageUniqueness == Spec => []CachePagesUnique
<1>1. CacheInvariant => CachePagesUnique
  BY DEF CacheInvariant
<1> QED BY <1>1, Invariance, PTL

(* Power lost at any moment spares the pages that were only read, outside  *)
(* the one block being rewritten.                                          *)
THEOREM CleanPageSafety == Spec => []CleanPagesSafe
<1>1. CacheInvariant => CleanPagesSafe
  BY DEF CacheInvariant
<1> QED BY <1>1, Invariance, PTL

(* The pages of a block fit the list FlushPageCache allocates for them. *)
LEMMA BlockHasBlockSizePages ==
  ASSUME NEW b \in Blocks
  PROVE  IsFiniteSet(BlockPages(b)) /\ Cardinality(BlockPages(b)) <= BlockSize
<1> DEFINE lo == b * BlockSize
<1>1. b \in Nat /\ BlockSize \in Nat \ {0} /\ lo \in Nat
  BY SizesAssumption DEF Blocks
<1>2. ASSUME NEW p \in BlockPages(b) PROVE lo <= p /\ p < lo + BlockSize
  <2>1. p \in Nat /\ p \div BlockSize = b
    BY PagesAreIntegers DEF BlockPages, Block
  <2>2. p = BlockSize * (p \div BlockSize) + (p % BlockSize) /\ p % BlockSize \in 0 .. BlockSize - 1
    BY <1>1, <2>1
  <2> QED BY <1>1, <2>1, <2>2
<1> HIDE DEF lo
<1>3. BlockPages(b) \subseteq lo .. (lo + BlockSize - 1)
  <2> SUFFICES ASSUME NEW p \in BlockPages(b) PROVE p \in lo .. (lo + BlockSize - 1)
    OBVIOUS
  <2>1. p \in Nat
    BY PagesAreIntegers DEF BlockPages
  <2>2. lo <= p /\ p < lo + BlockSize
    BY <1>2
  <2> QED BY <1>1, <2>1, <2>2
<1>4. /\ IsFiniteSet(lo .. (lo + BlockSize - 1))
      /\ Cardinality(lo .. (lo + BlockSize - 1)) = BlockSize
  BY <1>1, FS_Interval
<1> QED BY <1>3, <1>4, FS_Subset

(* AddCacheBlockFlushList never runs past the list, whatever was cached. *)
THEOREM FlushListBounded == Spec => []FlushListFits
<1>1. CacheInvariant => FlushListFits
  <2> SUFFICES ASSUME CacheInvariant, NEW b \in Blocks
               PROVE  Cardinality(DirtyIn(b)) <= BlockSize
    BY DEF FlushListFits
  <2> DEFINE f == [s \in DirtyIn(b) |-> slot[s].page]
  <2>1. f \in [DirtyIn(b) -> BlockPages(b)]
    BY DEF DirtyIn, BlockPages, CacheInvariant, TypeOK, SlotState
  <2>2. \A s, t \in DirtyIn(b) : f[s] = f[t] => s = t
    BY DEF DirtyIn, Dirty, CacheInvariant, CachePagesUnique
  <2> HIDE DEF f
  <2>3. f \in Injection(DirtyIn(b), BlockPages(b))
    BY <2>1, <2>2 DEF Injection, IsInjective
  <2>4. IsFiniteSet(BlockPages(b)) /\ Cardinality(BlockPages(b)) <= BlockSize
    BY BlockHasBlockSizePages
  <2>5. IsFiniteSet(DirtyIn(b)) /\ Cardinality(DirtyIn(b)) <= Cardinality(BlockPages(b))
    BY <2>3, <2>4, FS_Injection
  <2>6. Cardinality(DirtyIn(b)) \in Nat /\ Cardinality(BlockPages(b)) \in Nat
    BY <2>4, <2>5, FS_CardinalityType
  <2> QED BY <2>4, <2>5, <2>6, SizesAssumption
<1> QED BY <1>1, Invariance, PTL

(* With a working card, a flush that returns success has written every     *)
(* dirty page: freeing all the slots loses nothing.                        *)
THEOREM FlushIsComplete == ~CardFaults => (Spec => []FlushReportsFailure)
<1> SUFFICES ASSUME ~CardFaults PROVE Spec => []FlushReportsFailure
  OBVIOUS
<1>1. CacheInvariant => FlushReportsFailure
  <2> SUFFICES ASSUME CacheInvariant, flushing = "scan", block = NumBlocks,
                      NEW s \in Slots, Dirty(s)
               PROVE  card[slot[s].page] = slot[s].data
    BY DEF FlushReportsFailure
  <2>1. Block(slot[s].page) < block
    BY BlockOfPage, SizesAssumption DEF CacheInvariant, TypeOK, SlotState, Blocks
  <2> QED BY <2>1 DEF CacheInvariant, DirtySecured
<1> QED BY <1>1, Invariance, PTL

(* Card faults included, the card only ever changes inside a block that    *)
(* holds a page to be written back.                                        *)
THEOREM DamageIsConfined == Spec => DamageConfined
<1>1. CacheInvariant /\ [Next]_vars => [WithinOneDirtyBlock]_vars
  <2> SUFFICES ASSUME CacheInvariant, Next PROVE WithinOneDirtyBlock
    OBVIOUS
  <2> USE DEF WithinOneDirtyBlock
  <2>0. card \in [Pages -> Data]
    BY DEF CacheInvariant, TypeOK
  <2>1. CASE FlushErase
    BY <2>0, <2>1 DEF FlushErase, EraseOnCard
  <2>2. CASE FlushBlockFails
    BY <2>0, <2>2 DEF FlushBlockFails, EraseOnCard
  <2>3. CASE ProgramPage
    BY <2>0, <2>3 DEF ProgramPage, CacheInvariant, BlockUnderRewriting
  <2>4. CASE card' = card
    BY <2>4
  <2> QED BY <2>1, <2>2, <2>3, <2>4 DEF Next, Call, Serve, InitPageCache, ReadHit, ReadMiss,
        ReadUncached, WriteHit, WriteMiss, WriteNotReady, FlushRequest, FillRead, ReadFails,
        FillWrite, FlushStart, FlushNoMemory, FlushSkip, ProgramFails, FlushDone, PowerLoss
<1> QED BY <1>1, Invariance, PTL DEF Spec, DamageConfined

(***************************************************************************)
(* The refinement of PageStore.                                            *)
(***************************************************************************)

(* What the mapping needs beyond CacheInvariant: a free slot has the page  *)
(* number 0 that makes page 0 a special case; a cache that is not ready    *)
(* holds nothing and serves nothing; what the request under way may be.    *)
FreeIsPageZero == \A s \in Slots : ~slot[s].exists => slot[s].page = 0
NotReadyEmpty == ~ready => pend.op = "none" /\ \A s \in Slots : ~slot[s].exists
RequestForm ==
  /\ pend.op = "write" => pend.data \in Vals
  /\ pend.op = "flush" => pend.page = 0
MapInv == FreeIsPageZero /\ NotReadyEmpty /\ RequestForm

(* The view as a function of the variables it reads. *)
ViewOf(sl, c, t, b) ==
  [p \in Pages |->
     IF \E s \in Slots : sl[s].exists /\ sl[s].page = p
     THEN sl[CHOOSE s \in Slots : sl[s].exists /\ sl[s].page = p].data
     ELSE IF p \in t THEN b[p] ELSE c[p]]

Unique(sl) == \A s, t \in Slots : sl[s].exists /\ sl[t].exists /\ sl[s].page = sl[t].page => s = t

LEMMA ViewOfSlot ==
  ASSUME NEW sl, NEW c, NEW t, NEW b, Unique(sl), NEW s \in Slots, sl[s].exists, sl[s].page \in Pages
  PROVE  ViewOf(sl, c, t, b)[sl[s].page] = sl[s].data
<1> DEFINE p == sl[s].page
<1>1. (CHOOSE r \in Slots : sl[r].exists /\ sl[r].page = p) = s
  BY DEF Unique
<1> QED
  BY <1>1 DEF ViewOf

LEMMA ViewOfRest ==
  ASSUME NEW sl, NEW c, NEW t, NEW b, NEW p \in Pages, \A s \in Slots : sl[s].exists => sl[s].page # p
  PROVE  ViewOf(sl, c, t, b)[p] = IF p \in t THEN b[p] ELSE c[p]
  BY DEF ViewOf

(* Both views, before and after a step. *)
Shows(view, sl, c, t, b) ==
  /\ view = [p \in Pages |-> view[p]]
  /\ \A s \in Slots : sl[s].exists => view[sl[s].page] = sl[s].data
  /\ \A p \in Pages : (\A s \in Slots : sl[s].exists => sl[s].page # p) =>
       view[p] = IF p \in t THEN b[p] ELSE c[p]

LEMMA ViewShows == CacheInvariant => Shows(View, slot, card, todo, buf)
<1> SUFFICES ASSUME CacheInvariant PROVE Shows(View, slot, card, todo, buf)
  OBVIOUS
<1>1. View = ViewOf(slot, card, todo, buf)
  BY DEF View, ViewOf, OnCardOrInImage
<1>2. Unique(slot) /\ \A s \in Slots : slot[s].page \in Pages
  BY DEF CacheInvariant, CachePagesUnique, Unique, TypeOK, SlotState
<1>3. View = [p \in Pages |-> View[p]]
  BY <1>1 DEF ViewOf
<1> QED
  BY <1>1, <1>2, <1>3, ViewOfSlot, ViewOfRest DEF Shows

LEMMA ViewShowsAfter == CacheInvariant' => Shows(View', slot', card', todo', buf')
<1> SUFFICES ASSUME CacheInvariant' PROVE Shows(View', slot', card', todo', buf')
  OBVIOUS
<1>1. View' = ViewOf(slot', card', todo', buf')
  BY DEF View, ViewOf, OnCardOrInImage
<1>2. Unique(slot') /\ \A s \in Slots : slot'[s].page \in Pages
  BY DEF CacheInvariant, CachePagesUnique, Unique, TypeOK, SlotState
<1>3. View' = [p \in Pages |-> View'[p]]
  BY <1>1 DEF ViewOf
<1> QED
  BY <1>1, <1>2, <1>3, ViewOfSlot, ViewOfRest DEF Shows

LEMMA MapInit == Init => MapInv
  BY DEF Init, MapInv, FreeIsPageZero, NotReadyEmpty, RequestForm, FreeSlot, NoRequest

LEMMA MapNext == CacheInvariant /\ MapInv /\ [Next]_vars => MapInv'
<1> SUFFICES ASSUME CacheInvariant, MapInv, [Next]_vars PROVE MapInv'
  OBVIOUS
<1> USE DEF MapInv
<1>1. slot' = [s \in Slots |-> FreeSlot] => FreeIsPageZero' /\ \A s \in Slots : ~slot'[s].exists
  BY DEF FreeIsPageZero, FreeSlot
<1>2. pend' = NoRequest => RequestForm' /\ pend'.op = "none"
  BY DEF RequestForm, NoRequest
<1>3. slot' = slot /\ ready' = ready /\ (pend' = pend \/ pend' = NoRequest) => MapInv'
  BY <1>2 DEF FreeIsPageZero, NotReadyEmpty, RequestForm
<1>4. slot \in [Slots -> SlotState]
  BY DEF CacheInvariant, TypeOK
<1>5. CASE InitPageCache \/ FlushDone \/ PowerLoss
  <2>1. slot' = [s \in Slots |-> FreeSlot] /\ (pend' = pend \/ pend' = NoRequest)
    BY <1>5 DEF InitPageCache, FlushDone, PowerLoss, Return
  <2>2. FreeIsPageZero' /\ RequestForm'
    BY <1>1, <1>2, <2>1 DEF RequestForm
  <2>3. NotReadyEmpty'
    BY <1>1, <1>2, <1>5, <2>1 DEF NotReadyEmpty, InitPageCache, Idle, FlushDone, PowerLoss, Return
  <2> QED
    BY <2>2, <2>3
<1>6. CASE \E p \in Pages, d \in Vals : WriteHit(p, d)
  <2>1. PICK s \in Slots, d \in Vals : slot' = [slot EXCEPT ![s] = [@ EXCEPT !.data = d, !.dirty = TRUE]]
    BY <1>6 DEF WriteHit
  <2>2. \A t \in Slots : slot'[t].page = slot[t].page /\ slot'[t].exists = slot[t].exists
    BY <1>4, <2>1 DEF SlotState
  <2>3. ready /\ ready' = ready /\ pend' = NoRequest
    BY <1>6 DEF WriteHit, Return
  <2> QED
    BY <1>2, <2>2, <2>3 DEF FreeIsPageZero, NotReadyEmpty
<1>7. CASE FillRead \/ FillWrite
  <2>1. ASSUME NEW s \in Slots, NEW r, r.exists, slot' = [slot EXCEPT ![s] = r]
        PROVE  \A t \in Slots : ~slot'[t].exists => slot'[t] = slot[t]
    BY <1>4, <2>1
  <2>2. \A t \in Slots : ~slot'[t].exists => slot'[t] = slot[t]
    <3>1. CASE FillRead
      <4>1. PICK s \in Slots :
              slot' = [slot EXCEPT ![s] = [page |-> pend.page, data |-> card[pend.page],
                                           exists |-> TRUE, dirty |-> FALSE]]
        BY <3>1 DEF FillRead
      <4> QED
        BY <2>1, <4>1
    <3>2. CASE FillWrite
      <4>1. PICK s \in Slots :
              slot' = [slot EXCEPT ![s] = [page |-> pend.page, data |-> pend.data,
                                           exists |-> TRUE, dirty |-> TRUE]]
        BY <3>2 DEF FillWrite
      <4> QED
        BY <2>1, <4>1
    <3> QED
      BY <1>7, <3>1, <3>2
  <2>3. ready /\ ready' = ready /\ pend' = NoRequest
    BY <1>7 DEF FillRead, FillWrite, Return, NotReadyEmpty
  <2> QED
    BY <1>2, <2>2, <2>3 DEF FreeIsPageZero, NotReadyEmpty
<1>8. CASE \E p \in Pages : ReadMiss(p)
  BY <1>8 DEF ReadMiss, FreeIsPageZero, NotReadyEmpty, RequestForm
<1>9. CASE \E p \in Pages, d \in Vals : WriteMiss(p, d)
  BY <1>9 DEF WriteMiss, FreeIsPageZero, NotReadyEmpty, RequestForm
<1>10. CASE FlushRequest
  BY <1>2, <1>10 DEF FlushRequest, FreeIsPageZero, NotReadyEmpty, RequestForm, Return, NoRequest
<1>11. CASE \/ \E p \in Pages : ReadHit(p) \/ ReadUncached(p)
            \/ \E p \in Pages, d \in Vals : WriteNotReady(p, d)
            \/ ReadFails \/ FlushNoMemory
  BY <1>3, <1>11 DEF ReadHit, ReadUncached, WriteNotReady, ReadFails, FlushNoMemory, Return
<1>12. CASE FlushStart \/ FlushSkip \/ FlushErase \/ FlushBlockFails \/ ProgramPage \/ ProgramFails
  BY <1>3, <1>12 DEF FlushStart, FlushSkip, FlushErase, FlushBlockFails, ProgramPage, ProgramFails
<1>13. CASE UNCHANGED vars
  BY <1>3, <1>13 DEF vars
<1> QED
  BY <1>5, <1>6, <1>7, <1>8, <1>9, <1>10, <1>11, <1>12, <1>13 DEF Next, Call, Serve

-----------------------------------------------------------------------------
(* The initial states show an empty cache over any card. *)
LEMMA InitMaps == Init => Store!StoreInit
<1> SUFFICES ASSUME Init PROVE Store!StoreInit
  OBVIOUS
<1>1. Shows(View, slot, card, todo, buf)
  BY InitInvariant, ViewShows
<1>2. View = card
  BY <1>1 DEF Init, Shows, FreeSlot
<1> QED
  BY <1>2 DEF Init, Store!StoreInit, Store!Reply

LEMMA SameView ==
  ASSUME NEW v, NEW w, v = [p \in Pages |-> v[p]], w = [p \in Pages |-> w[p]],
         \A p \in Pages : v[p] = w[p]
  PROVE  v = w
  OBVIOUS

(* A step that changes neither the slots nor the card. *)
LEMMA StillView == UNCHANGED <<slot, card, todo, buf>> => View' = View
  BY DEF View, OnCardOrInImage

(* What is shown when every slot is free and no block is under rewriting. *)
LEMMA EmptyView ==
  ASSUME NEW v, NEW sl, NEW t, NEW b, Shows(v, sl, card, t, b), t = {}, \A s \in Slots : ~sl[s].exists,
         card \in [Pages -> Data]
  PROVE  v = card
  BY DEF Shows

Mapped == CacheInvariant /\ MapInv /\ CacheInvariant'

LEMMA AnswerHit ==
  ASSUME Mapped, NEW p \in Pages, ReadHit(p) PROVE Store!StoreNext
<1>1. View' = View /\ card' = card
  BY StillView DEF ReadHit, flushVars
<1>a. PICK s \in Slots : slot[s].page = p /\ \E d \in BufferOf(s) : Return("read", p, d, TRUE)
  BY DEF ReadHit, FirstHit
<1>2. PICK d \in BufferOf(s) : slot[s].page = p /\ ret' = Store!Reply("read", p, d, TRUE)
  BY <1>a DEF Return, Store!Reply
<1>3. CASE p = 0
  <2>1. d \in Vals \cup {Erased}
    BY <1>2 DEF BufferOf, Data, Mapped, CacheInvariant, TypeOK, SlotState
  <2> QED
    BY <1>1, <1>2, <1>3, <2>1 DEF Store!StoreNext, Store!Page0Access
<1>4. CASE p # 0
  <2>1. slot[s].exists
    BY <1>2, <1>4 DEF Mapped, MapInv, FreeIsPageZero
  <2>2. d = View[p]
    BY <1>2, <2>1, ViewShows DEF BufferOf, Mapped, Shows
  <2> QED
    BY <1>1, <1>2, <1>4, <2>2 DEF Store!StoreNext, Store!Read, Store!Promised
<1> QED
  BY <1>3, <1>4

LEMMA AnswerUncached ==
  ASSUME Mapped, ~CardFaults, NEW p \in Pages, ReadUncached(p) PROVE Store!StoreNext
<1>1. View' = View /\ card' = card
  BY StillView DEF ReadUncached, flushVars
<1>2. ret' = Store!Reply("read", p, card[p], TRUE)
  BY DEF ReadUncached, Return, Store!Reply
<1>3. View[p] = card[p]
  BY ViewShows DEF Mapped, MapInv, NotReadyEmpty, CacheInvariant, OneAtATime, ReadUncached, Idle, Shows
<1>4. card[p] \in Vals \cup {Erased}
  BY DEF Mapped, CacheInvariant, TypeOK, Data
<1> QED
  BY <1>1, <1>2, <1>3, <1>4 DEF Store!StoreNext, Store!Page0Access, Store!Read, Store!Promised

LEMMA AnswerWriteHit ==
  ASSUME Mapped, NEW p \in Pages, NEW d \in Vals, WriteHit(p, d) PROVE Store!StoreNext
<1>1. PICK s \in Slots : slot[s].page = p /\ slot' = [slot EXCEPT ![s] = [@ EXCEPT !.data = d, !.dirty = TRUE]]
  BY DEF WriteHit, FirstHit
<1>2. slot \in [Slots -> SlotState]
  BY DEF Mapped, CacheInvariant, TypeOK
<1>3. /\ \A t \in Slots : slot'[t].page = slot[t].page /\ slot'[t].exists = slot[t].exists
      /\ \A t \in Slots : slot'[t].data = IF t = s THEN d ELSE slot[t].data
  BY <1>1, <1>2 DEF SlotState
<1>4. card' = card /\ todo' = todo /\ buf' = buf /\ ret' = Store!Reply("write", p, Erased, TRUE)
  BY DEF WriteHit, flushVars, Return, Store!Reply
<1>5. Shows(View, slot, card, todo, buf) /\ Shows(View', slot', card, todo, buf)
  BY <1>4, ViewShows, ViewShowsAfter DEF Mapped
<1>6. ASSUME NEW q \in Pages, q # p PROVE View'[q] = View[q]
  <2>1. CASE \E t \in Slots : slot[t].exists /\ slot[t].page = q
    <3>1. PICK t \in Slots : slot[t].exists /\ slot[t].page = q
      BY <2>1
    <3>2. t # s
      BY <1>1, <1>6, <3>1
    <3>3. slot'[t].exists /\ slot'[t].page = q /\ slot'[t].data = slot[t].data
      BY <1>3, <3>1, <3>2
    <3>4. View[q] = slot[t].data
      BY <1>5, <3>1 DEF Shows
    <3>5. View'[q] = slot'[t].data
      BY <1>5, <3>3 DEF Shows
    <3> QED
      BY <3>3, <3>4, <3>5
  <2>2. CASE \A t \in Slots : slot[t].exists => slot[t].page # q
    BY <1>3, <1>5, <2>2 DEF Shows
  <2> QED
    BY <2>1, <2>2
<1>7. CASE p = 0
  BY <1>4, <1>6, <1>7 DEF Store!StoreNext, Store!Page0Access, Store!Promised
<1>8. CASE p # 0
  <2>1. View'[p] = d
    BY <1>1, <1>3, <1>5, <1>8 DEF Shows, Mapped, MapInv, FreeIsPageZero
  <2>2. View' = [View EXCEPT ![p] = d]
    BY <1>5, <1>6, <2>1 DEF Shows
  <2> QED
    BY <1>4, <1>8, <2>2 DEF Store!StoreNext, Store!Write, Store!Promised
<1> QED
  BY <1>7, <1>8

(* A slot is filled: the page it takes was in no slot. *)
LEMMA FilledView ==
  ASSUME Mapped, NEW s \in Slots, ~slot[s].exists, NEW r \in SlotState, r.exists, r.page = pend.page,
         slot' = [slot EXCEPT ![s] = r], UNCHANGED <<card, todo, buf>>, todo = {},
         pend.op \in {"read", "write"}
  PROVE  /\ pend.page \in Pages /\ View[pend.page] = card[pend.page] /\ View'[pend.page] = r.data
         /\ \A q \in Pages : q # pend.page => View'[q] = View[q]
         /\ View = [q \in Pages |-> View[q]] /\ View' = [q \in Pages |-> View'[q]]
<1>1. slot \in [Slots -> SlotState] /\ pend.page \in Pages
  BY DEF Mapped, CacheInvariant, TypeOK, Request
<1>2. \A t \in Slots : slot'[t] = IF t = s THEN r ELSE slot[t]
  BY <1>1
<1>3. Shows(View, slot, card, todo, buf) /\ Shows(View', slot', card, todo, buf)
  BY ViewShows, ViewShowsAfter DEF Mapped
<1>4. \A t \in Slots : slot[t].exists => slot[t].page # pend.page
  BY DEF Mapped, CacheInvariant, MissedPageAbsent
<1>5. View[pend.page] = card[pend.page] /\ View'[pend.page] = r.data
  BY <1>1, <1>2, <1>3, <1>4 DEF Shows
<1>6. ASSUME NEW q \in Pages, q # pend.page PROVE View'[q] = View[q]
  <2>1. CASE \E t \in Slots : slot[t].exists /\ slot[t].page = q
    <3>1. PICK t \in Slots : slot[t].exists /\ slot[t].page = q
      BY <2>1
    <3>2. t # s
      BY <3>1
    <3>3. slot'[t] = slot[t]
      BY <1>2, <3>2
    <3>4. View[q] = slot[t].data
      BY <1>3, <3>1 DEF Shows
    <3>5. View'[q] = slot'[t].data
      BY <1>3, <3>1, <3>3 DEF Shows
    <3> QED
      BY <3>3, <3>4, <3>5
  <2>2. CASE \A t \in Slots : slot[t].exists => slot[t].page # q
    <3>1. \A t \in Slots : slot'[t].exists => slot'[t].page # q
      BY <1>2, <1>6, <2>2
    <3> QED
      BY <1>3, <2>2, <3>1 DEF Shows
  <2> QED
    BY <2>1, <2>2
<1> QED
  BY <1>1, <1>3, <1>5, <1>6 DEF Shows

LEMMA AnswerFillRead == ASSUME Mapped, FillRead PROVE Store!StoreNext
<1> DEFINE r == [page |-> pend.page, data |-> card[pend.page], exists |-> TRUE, dirty |-> FALSE]
<1>1. PICK s \in Slots : FirstFree(s) /\ slot' = [slot EXCEPT ![s] = r]
  BY DEF FillRead
<1>2. /\ ret' = Store!Reply("read", pend.page, card[pend.page], TRUE)
      /\ UNCHANGED <<card, todo, buf>> /\ pend.op = "read" /\ todo = {}
  BY DEF FillRead, flushVars, Return, Store!Reply, Mapped, CacheInvariant, OneAtATime
<1>3. pend.page \in Pages /\ card[pend.page] \in Data
  BY DEF Mapped, CacheInvariant, TypeOK, Request
<1>4. r \in SlotState /\ r.exists /\ r.page = pend.page /\ r.data = card[pend.page]
  BY <1>3 DEF SlotState
<1> HIDE DEF r
<1>5. /\ View[pend.page] = card[pend.page] /\ View'[pend.page] = card[pend.page]
      /\ \A q \in Pages : q # pend.page => View'[q] = View[q]
      /\ View = [q \in Pages |-> View[q]] /\ View' = [q \in Pages |-> View'[q]]
  BY <1>1, <1>2, <1>4, FilledView DEF FirstFree
<1>6. View' = View
  BY <1>5, SameView
<1> QED
  BY <1>2, <1>3, <1>5, <1>6 DEF Store!StoreNext, Store!Page0Access, Store!Read, Store!Promised, Data

LEMMA AnswerFillWrite == ASSUME Mapped, FillWrite PROVE Store!StoreNext
<1> DEFINE r == [page |-> pend.page, data |-> pend.data, exists |-> TRUE, dirty |-> TRUE]
<1>1. PICK s \in Slots : FirstFree(s) /\ slot' = [slot EXCEPT ![s] = r]
  BY DEF FillWrite
<1>2. /\ ret' = Store!Reply("write", pend.page, Erased, TRUE)
      /\ UNCHANGED <<card, todo, buf>> /\ pend.op = "write" /\ todo = {}
  BY DEF FillWrite, flushVars, Return, Store!Reply, Mapped, CacheInvariant, OneAtATime
<1>3. pend.page \in Pages /\ pend.data \in Vals
  BY <1>2 DEF Mapped, MapInv, RequestForm, CacheInvariant, TypeOK, Request
<1>4. r \in SlotState /\ r.exists /\ r.page = pend.page /\ r.data = pend.data
  BY <1>3 DEF SlotState, Data
<1> HIDE DEF r
<1>5. /\ View'[pend.page] = pend.data
      /\ \A q \in Pages : q # pend.page => View'[q] = View[q]
      /\ View = [q \in Pages |-> View[q]] /\ View' = [q \in Pages |-> View'[q]]
  BY <1>1, <1>2, <1>4, FilledView DEF FirstFree
<1>6. View' = [View EXCEPT ![pend.page] = pend.data]
  BY <1>3, <1>5
<1> QED
  BY <1>2, <1>3, <1>5, <1>6 DEF Store!StoreNext, Store!Page0Access, Store!Write, Store!Promised

-----------------------------------------------------------------------------
(* Erasing: the pages of the block are in slots or in the image. *)
LEMMA EraseMaps == ASSUME Mapped, FlushErase PROVE Store!StoreNext
<1>1. /\ slot' = slot /\ ret' = ret /\ todo = {} /\ block \in Blocks
      /\ card' = EraseOnCard(block) /\ todo' = BlockPages(block) /\ buf' = Overlay(block)
  BY SizesAssumption DEF FlushErase, Mapped, CacheInvariant, OneAtATime, TypeOK, Blocks
<1>2. Shows(View, slot, card, todo, buf) /\ Shows(View', slot, card', todo', buf')
  BY <1>1, ViewShows, ViewShowsAfter DEF Mapped
<1>3. ASSUME NEW q \in Pages PROVE View'[q] = View[q]
  <2>1. CASE \E t \in Slots : slot[t].exists /\ slot[t].page = q
    BY <1>2, <2>1 DEF Shows
  <2>2. CASE \A t \in Slots : slot[t].exists => slot[t].page # q
    <3>1. View[q] = card[q] /\ View'[q] = IF q \in todo' THEN buf'[q] ELSE card'[q]
      BY <1>1, <1>2, <2>2 DEF Shows
    <3>2. CASE Block(q) = block
      <4>1. Overlay(block)[q] = card[q]
        BY <1>1, <2>2, <3>2, OverlayValue DEF Mapped, DirtyIn, Dirty
      <4> QED
        BY <1>1, <3>1, <3>2, <4>1 DEF BlockPages
    <3>3. CASE Block(q) # block
      BY <1>1, <3>1, <3>3 DEF BlockPages, EraseOnCard
    <3> QED
      BY <3>2, <3>3
  <2> QED
    BY <2>1, <2>2
<1>4. View' = View
  BY <1>2, <1>3, SameView DEF Shows
<1>5. \E p \in Pages : Block(p) = block
  BY DEF FlushErase, DirtyIn, Mapped, CacheInvariant, TypeOK, SlotState
<1> QED
  BY <1>1, <1>4, <1>5 DEF Store!StoreNext, Store!EraseBlock, EraseOnCard

(* Programming: the image holds for each page what the view shows. *)
LEMMA ProgramMaps == ASSUME Mapped, ~CardFaults, ProgramPage PROVE Store!StoreNext
<1>1. PICK p \in todo : /\ card' = [card EXCEPT ![p] = buf[p]]
                       /\ \/ todo = {p} /\ todo' = {}
                          \/ todo' = todo \ {p} /\ buf' = buf
  BY DEF ProgramPage, EndOfBlock
<1>2. slot' = slot /\ ret' = ret
  BY DEF ProgramPage
<1>3. /\ card \in [Pages -> Data] /\ p \in Pages /\ flushing = "program" /\ Block(p) = block
      /\ \A s \in Slots : slot[s].page \in Pages
  BY DEF Mapped, CacheInvariant, TypeOK, SlotState, BlockUnderRewriting, ProgramPage
<1>4. Shows(View, slot, card, todo, buf) /\ Shows(View', slot, card', todo', buf')
  BY <1>2, ViewShows, ViewShowsAfter DEF Mapped
<1>5. View[p] = buf[p]
  <2>1. CASE \E s \in Slots : slot[s].exists /\ slot[s].page = p
    <3>1. PICK s \in Slots : slot[s].exists /\ slot[s].page = p
      BY <2>1
    <3>2. View[p] = slot[s].data
      BY <1>4, <3>1 DEF Shows
    <3>3. OnCardOrInImage(p) = slot[s].data
      BY <1>3, <3>1 DEF Mapped, CacheInvariant, CleanPagesSafe, DirtySecured, Dirty
    <3> QED
      BY <1>1, <3>2, <3>3 DEF OnCardOrInImage
  <2>2. CASE \A s \in Slots : slot[s].exists => slot[s].page # p
    BY <1>3, <1>4, <2>2 DEF Shows
  <2> QED
    BY <2>1, <2>2
<1>6. \A q \in Pages : (IF q \in todo' THEN buf'[q] ELSE card'[q]) = (IF q \in todo THEN buf[q] ELSE card[q])
  <2>1. card'[p] = buf[p] /\ \A q \in Pages : q # p => card'[q] = card[q]
    BY <1>1, <1>3
  <2>2. CASE todo = {p} /\ todo' = {}
    BY <2>1, <2>2
  <2>3. CASE todo' = todo \ {p} /\ buf' = buf
    BY <2>1, <2>3
  <2> QED
    BY <1>1, <2>2, <2>3
<1>7. ASSUME NEW q \in Pages PROVE View'[q] = View[q]
  <2>1. CASE \E t \in Slots : slot[t].exists /\ slot[t].page = q
    BY <1>4, <2>1 DEF Shows
  <2>2. CASE \A t \in Slots : slot[t].exists => slot[t].page # q
    BY <1>4, <1>6, <2>2 DEF Shows
  <2> QED
    BY <2>1, <2>2
<1>8. View' = View
  BY <1>4, <1>7, SameView DEF Shows
<1> QED
  BY <1>1, <1>2, <1>3, <1>5, <1>8 DEF Store!StoreNext, Store!ProgramPage

(* The end of a flush frees every slot: the card shows the same. *)
LEMMA DoneMaps == ASSUME Mapped, ~CardFaults, FlushDone PROVE Store!StoreNext \/ UNCHANGED Store!storeVars
<1>1. /\ slot' = [s \in Slots |-> FreeSlot] /\ card' = card /\ todo = {} /\ todo' = {}
      /\ flushing = "scan" /\ block = NumBlocks /\ card \in [Pages -> Data]
  BY DEF FlushDone, Mapped, CacheInvariant, OneAtATime, TypeOK
<1>2. Shows(View, slot, card, todo, buf) /\ Shows(View', slot', card, todo', buf')
  BY <1>1, ViewShows, ViewShowsAfter DEF Mapped
<1>3. View' = card
  <2>1. \A s \in Slots : ~slot'[s].exists
    BY <1>1 DEF FreeSlot
  <2> QED
    BY <1>1, <1>2, <2>1, EmptyView
<1>4. ASSUME NEW s \in Slots, slot[s].exists PROVE card[slot[s].page] = slot[s].data
  <2>1. Block(slot[s].page) < block
    BY <1>1, BlockOfPage, SizesAssumption DEF Mapped, CacheInvariant, TypeOK, SlotState, Blocks
  <2> QED
    BY <1>1, <1>4, <2>1 DEF Mapped, CacheInvariant, DirtySecured, CleanPagesSafe, OnCardOrInImage, Dirty
<1>5. ASSUME NEW q \in Pages PROVE View[q] = card[q]
  <2>1. CASE \E t \in Slots : slot[t].exists /\ slot[t].page = q
    <3>1. PICK t \in Slots : slot[t].exists /\ slot[t].page = q
      BY <2>1
    <3>2. View[q] = slot[t].data
      BY <1>2, <3>1 DEF Shows
    <3>3. card[q] = slot[t].data
      BY <1>4, <3>1
    <3> QED
      BY <3>2, <3>3
  <2>2. CASE \A t \in Slots : slot[t].exists => slot[t].page # q
    BY <1>1, <1>2, <2>2 DEF Shows
  <2> QED
    BY <2>1, <2>2
<1>6. View = card
  BY <1>1, <1>2, <1>5 DEF Shows
<1>7. pend.op \in {"read", "write", "flush"} /\ pend.page \in Pages /\ blockOk \in BOOLEAN
  BY <1>1 DEF Mapped, CacheInvariant, OneAtATime, TypeOK, Request
<1>8. CASE ret' = ret
  BY <1>1, <1>3, <1>6, <1>8 DEF Store!storeVars
<1>9. CASE ~blockOk /\ ret' = Store!Reply(pend.op, pend.page, Erased, FALSE)
  BY <1>1, <1>3, <1>6, <1>7, <1>9 DEF Store!StoreNext, Store!Refuse
<1>10. CASE pend.op = "flush" /\ ret' = Store!Reply("flush", pend.page, Erased, TRUE)
  <2>1. pend.page = 0
    BY <1>10 DEF Mapped, MapInv, RequestForm
  <2> QED
    BY <1>1, <1>3, <1>6, <1>10, <2>1 DEF Store!StoreNext, Store!Flushed
<1> QED
  <2>1. \/ ret' = ret
        \/ ~blockOk /\ ret' = Store!Reply(pend.op, pend.page, Erased, blockOk)
        \/ pend.op = "flush" /\ blockOk /\ ret' = Store!Reply(pend.op, pend.page, Erased, blockOk)
    BY <1>7 DEF FlushDone, Return, Store!Reply
  <2>2. blockOk = TRUE \/ blockOk = FALSE
    BY <1>7
  <2> QED
    BY <1>8, <1>9, <1>10, <2>1, <2>2

-----------------------------------------------------------------------------
(* The cache emptied by force: what the card holds is what is left. *)
LEMMA ForgetMaps == ASSUME Mapped, InitPageCache \/ PowerLoss PROVE Store!StoreNext
<1>1. /\ slot' = [s \in Slots |-> FreeSlot] /\ card' = card /\ todo' = {}
      /\ card \in [Pages -> Data]
  BY DEF InitPageCache, PowerLoss, flushVars, Mapped, CacheInvariant, OneAtATime, Idle, TypeOK
<1>2. \A s \in Slots : ~slot'[s].exists
  BY <1>1 DEF FreeSlot
<1>3. Shows(View', slot', card, todo', buf')
  BY <1>1, ViewShowsAfter DEF Mapped
<1>4. View' = card
  BY <1>1, <1>2, <1>3, EmptyView
<1>5. \/ \E ok \in BOOLEAN : ret' = Store!Reply("init", 0, Erased, ok)
      \/ ret' = Store!Reply("none", 0, Erased, TRUE)
  BY DEF InitPageCache, PowerLoss, Return, Store!Reply
<1> QED
  BY <1>1, <1>4, <1>5 DEF Store!StoreNext, Store!Forget

LEMMA RefusalMaps ==
  ASSUME Mapped, \/ FlushNoMemory
                 \/ \E p \in Pages, d \in Vals : WriteNotReady(p, d)
  PROVE  Store!StoreNext
<1>1. View' = View /\ card' = card
  BY StillView DEF FlushNoMemory, WriteNotReady, flushVars
<1>2. \E op \in {"read", "write", "flush"}, p \in Pages : ret' = Store!Reply(op, p, Erased, FALSE)
  BY DEF FlushNoMemory, NeedsFlush, WriteNotReady, Return, Store!Reply, Mapped, CacheInvariant, TypeOK, Request
<1> QED
  BY <1>1, <1>2 DEF Store!StoreNext, Store!Refuse

LEMMA FlushRequestMaps ==
  ASSUME Mapped, FlushRequest PROVE Store!StoreNext \/ UNCHANGED Store!storeVars
<1>1. View' = View /\ card' = card
  BY StillView DEF FlushRequest, flushVars
<1>2. CASE ready
  BY <1>1, <1>2 DEF FlushRequest, Store!storeVars
<1>3. CASE ~ready
  <2>1. View = card
    <3>1. /\ Shows(View, slot, card, todo, buf) /\ todo = {} /\ card \in [Pages -> Data]
          /\ \A s \in Slots : ~slot[s].exists
      BY <1>3, ViewShows DEF Mapped, MapInv, NotReadyEmpty, CacheInvariant, OneAtATime, TypeOK, FlushRequest, Idle
    <3> QED
      BY <3>1, EmptyView
  <2>2. ret' = Store!Reply("flush", 0, Erased, TRUE)
    BY <1>3 DEF FlushRequest, Return, Store!Reply
  <2> QED
    BY <1>1, <2>1, <2>2 DEF Store!StoreNext, Store!Flushed
<1> QED
  BY <1>2, <1>3

(* Every step of the cache is a step of the store, or one it cannot see. *)
LEMMA StepMaps ==
  ASSUME Mapped, ~CardFaults, [Next]_vars PROVE [Store!StoreNext]_(Store!storeVars)
<1>1. CASE \/ \E p \in Pages : ReadMiss(p)
           \/ \E p \in Pages, d \in Vals : WriteMiss(p, d)
           \/ FlushStart \/ FlushSkip \/ UNCHANGED vars
  <2>1. View' = View /\ card' = card /\ ret' = ret
    BY <1>1, StillView DEF ReadMiss, WriteMiss, FlushStart, FlushSkip, flushVars, vars
  <2> QED
    BY <2>1 DEF Store!storeVars
<1>2. ~ReadFails /\ ~FlushBlockFails /\ ~ProgramFails
  BY DEF ReadFails, FlushBlockFails, ProgramFails
<1> QED
  BY <1>1, <1>2, AnswerHit, AnswerUncached, AnswerWriteHit, AnswerFillRead, AnswerFillWrite, EraseMaps,
     ProgramMaps, DoneMaps, ForgetMaps, RefusalMaps, FlushRequestMaps DEF Next, Call, Serve

(* With a working card the page cache is the store of PageStore: no read   *)
(* of a page but page 0 sees an old value, no write is lost by an          *)
(* eviction, a flush that reports success has brought the card up to date, *)
(* and a failure of power costs what had not reached the card.             *)
THEOREM Refinement == ~CardFaults => (Spec => ImplementsPageStore)
<1> SUFFICES ASSUME ~CardFaults PROVE Spec => ImplementsPageStore
  OBVIOUS
<1>1. Init => CacheInvariant /\ MapInv
  BY InitInvariant, MapInit
<1>2. CacheInvariant /\ MapInv /\ [Next]_vars => (CacheInvariant /\ MapInv)'
  BY NextInvariant, MapNext
<1>3. CacheInvariant /\ MapInv /\ (CacheInvariant /\ MapInv)' /\ [Next]_vars
        => [Store!StoreNext]_(Store!storeVars)
  BY StepMaps DEF Mapped
<1> QED
  BY <1>1, <1>2, <1>3, InitMaps, PTL DEF Spec, ImplementsPageStore, Store!StoreSpec
=============================================================================
