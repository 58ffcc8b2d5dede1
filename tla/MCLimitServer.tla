---------------------------- MODULE MCLimitServer ----------------------------
(* Small instances of LimitServer for TLC. *)
EXTENDS LimitServer, TLC

CONSTANTS rpm, tpm, h1, h2, i1, i2, i3

Symmetry == Permutations(Inode) \cup Permutations(Handler) \cup Permutations(Key)
=============================================================================
