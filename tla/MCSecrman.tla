----------------------------- MODULE MCSecrman ------------------------------
(* Secrman on four small files: a PS2 file with two signed blocks and one  *)
(* plain, the PSX file that takes its keys, with another layout, and two   *)
(* that cannot be signed: a block of a length that is no multiple of 16    *)
(* bytes, and one longer than SECRSIF's buffer.                            *)
EXTENDS Secrman

PS2 == [name |-> "ps2", units |-> 23, keys |-> "k", BIT_count |-> 0, flag1 |-> FALSE, opt |-> 0,
        flagF000 |-> FALSE, icvps2 |-> TRUE,
        blocks |-> <<[flags |-> 2, size |-> 2], [flags |-> 0, size |-> 2],
                     [flags |-> 3, size |-> 2]>>]
PSX == [name |-> "psx", units |-> 18, keys |-> "k", BIT_count |-> 1, flag1 |-> TRUE, opt |-> 1,
        flagF000 |-> TRUE, icvps2 |-> FALSE, blocks |-> <<[flags |-> 3, size |-> 4]>>]
Odd == [name |-> "odd", units |-> 15, keys |-> "l", BIT_count |-> 0, flag1 |-> FALSE, opt |-> 0,
        flagF000 |-> FALSE, icvps2 |-> FALSE,
        blocks |-> <<[flags |-> 3, size |-> 3]>>]
Big == [Odd EXCEPT !.name = "big", !.units = 18, !.blocks = <<[flags |-> 2, size |-> 6]>>]

MCFiles == {PS2, PSX, Odd, Big}
MCOldFiles == {PS2}
MCTwins == {<<PS2, PSX>>}
=============================================================================
