---------------------------- MODULE MCPageCache ----------------------------
(* Instances of PageCache for TLC: one slot fewer than the pages a caller  *)
(* touches, so that evictions happen, and two erase blocks of two pages.   *)
EXTENDS PageCache, TLC

CONSTANTS v1, v2

TwoVals == {v1, v2}
OneVal == {v1}

(* The contents of pages are interchangeable. *)
ValueSymmetry == Permutations({v1, v2})
=============================================================================
