------------------------------ MODULE PageStore ------------------------------
(***************************************************************************)
(* What the page cache of MCTOOLS promises its callers while the card      *)
(* works: a store of pages in which a read returns the last value written, *)
(* with a durable copy (the memory card) that catches up with it when the  *)
(* cache is flushed.  A memory card is rewritten one erase block at a      *)
(* time, so the durable copy passes through states in which a block is     *)
(* partly erased; a power failure then costs exactly what the card lacks.  *)
(*                                                                         *)
(* Page 0 is left out of the promise: the hit test of ReadPageCached and   *)
(* WritePageCached compares page numbers only, and every free slot has     *)
(* page number 0.                                                          *)
(***************************************************************************)
EXTENDS Integers

CONSTANTS Pages,        \* the pages of the card, 0 among them
          Vals,         \* the contents a caller may write
          Erased,       \* the content of an erased page
          BlockOf(_)    \* the erase block a page lies in

VARIABLES view,         \* [Pages -> content]: what a read returns
          durable,      \* [Pages -> content]: what is on the card
          reply         \* the last completed request

storeVars == <<view, durable, reply>>

Promised == Pages \ {0}

Reply(op, p, d, ok) == [op |-> op, page |-> p, data |-> d, ok |-> ok]

StoreInit ==
  /\ durable \in [Pages -> Vals]
  /\ view = durable
  /\ reply = Reply("none", 0, Erased, TRUE)

(* A read returns the page as the last write left it. *)
Read ==
  /\ \E p \in Promised : reply' = Reply("read", p, view[p], TRUE)
  /\ UNCHANGED <<view, durable>>

(* A write is visible at once and changes nothing on the card. *)
Write ==
  /\ \E p \in Promised, d \in Vals :
       /\ view' = [view EXCEPT ![p] = d]
       /\ reply' = Reply("write", p, Erased, TRUE)
  /\ UNCHANGED durable

(* Nothing is promised about page 0, except that the others are left alone. *)
Page0Access ==
  /\ \E op \in {"read", "write"}, d \in Vals \cup {Erased}, ok \in BOOLEAN :
       reply' = Reply(op, 0, d, ok)
  /\ \A p \in Promised : view'[p] = view[p]
  /\ \A p \in Promised : durable'[p] = durable[p]

(* A request that fails changes nothing. *)
Refuse ==
  /\ \E op \in {"read", "write", "flush"}, p \in Pages : reply' = Reply(op, p, Erased, FALSE)
  /\ UNCHANGED <<view, durable>>

(* Erasing takes a whole block off the card; the view does not notice. *)
EraseBlock ==
  /\ \E b \in {BlockOf(p) : p \in Pages} :
       durable' = [p \in Pages |-> IF BlockOf(p) = b THEN Erased ELSE durable[p]]
  /\ UNCHANGED <<view, reply>>

(* A page is programmed with what the view holds, and with nothing else. *)
ProgramPage ==
  /\ \E p \in Pages : durable' = [durable EXCEPT ![p] = view[p]]
  /\ UNCHANGED <<view, reply>>

(* A flush reports success only when the card has caught up. *)
Flushed ==
  /\ \A p \in Promised : durable[p] = view[p]
  /\ reply' = Reply("flush", 0, Erased, TRUE)
  /\ UNCHANGED <<view, durable>>

(* What is not on the card is gone after a loss of power or a reboot of    *)
(* the IOP, when nobody is left to be answered, and after an InitPageCache,*)
(* which answers its caller; it never goes unnoticed.                      *)
Forget ==
  /\ view' = durable
  /\ \/ \E ok \in BOOLEAN : reply' = Reply("init", 0, Erased, ok)
     \/ reply' = Reply("none", 0, Erased, TRUE)
  /\ UNCHANGED durable

StoreNext == \/ Read \/ Write \/ Page0Access \/ Refuse
             \/ EraseBlock \/ ProgramPage \/ Flushed \/ Forget

StoreSpec == StoreInit /\ [][StoreNext]_storeVars
=============================================================================
