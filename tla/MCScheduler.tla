---------------------------- MODULE MCScheduler ----------------------------
(* Small instances of Scheduler for TLC. *)
EXTENDS Scheduler

CONSTANTS j1, j2, j3, gpt, claude

\* Two jobs of one model and one of another.
TwoQueues == {gpt, claude}
McQueueOf == (j1 :> gpt) @@ (j2 :> gpt) @@ (j3 :> claude)
TwoQueueOf == (j1 :> gpt) @@ (j2 :> claude)
=============================================================================
