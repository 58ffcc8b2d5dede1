----------------------------- MODULE MCSubmitter -----------------------------
(* Small instances of Submitter for TLC. *)
EXTENDS Submitter, TLC

CONSTANTS c1, c2, c3, look, k1, k2

\* Two items fill a batch, the third overflows it.
McSize == c1 :> 2 @@ c2 :> 1 @@ c3 :> 2
McRefused == c1 :> {1} @@ c2 :> {} @@ c3 :> {0}
=============================================================================
