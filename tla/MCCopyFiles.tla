---------------------------- MODULE MCCopyFiles ----------------------------
(* Instances of CopyFiles for TLC: every list of up to MaxEntries entries. *)
EXTENDS CopyFiles

AllKinds == {"file", "kelf", "empty", "dir", "skip"}
NonEmptyKinds == {"file", "kelf", "dir", "skip"}
AllFaults == {"source", "memory", "card", "sign"}
NoFaults == {}
=============================================================================
