------------------------------ MODULE MCBatcher ------------------------------
(* Small instances of Batcher for TLC. *)
EXTENDS Batcher

CONSTANTS r1, c1, c2

RccKindOf == (r1 :> "reserve") @@ (c1 :> "complete") @@ (c2 :> "complete")
=============================================================================
