------------------------------- MODULE MCSession -------------------------------
(***************************************************************************)
(* Two consoles, one that has every button of the menu and one that lacks  *)
(* those of the Extra page; two slots with every pair of cards, one card   *)
(* exchanged and the power button pressed once, each at any moment.  A     *)
(* card not there behaves as an unformatted one that was just inserted.    *)
(***************************************************************************)
EXTENDS Session

MCConsoles == {<<"PS2", "raw">>, <<"PSX", "none">>}
=============================================================================
