----------------------------- MODULE MCJobQueue -----------------------------
(* The job manager with one job that is followed and one that is waited for. *)
EXTENDS JobQueue
CONSTANTS j1, j2
MCJob == {j1, j2}
MCBlocking == {j2}
=============================================================================
