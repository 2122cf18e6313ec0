---------------------------- MODULE MCDrainWake ----------------------------
(* The instance of DrainWake for TLC. *)
EXTENDS DrainWake

CONSTANTS j1, j2, e1, e2

TwoJobs == {j1, j2}
TwoExecutors == {e1, e2}
=============================================================================
