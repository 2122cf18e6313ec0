----------------------------- MODULE MCJobQueue -----------------------------
(* Instances of JobQueue for TLC: one webhook row, and one row of a
   template sweep that belongs to a task run. *)
EXTENDS JobQueue, TLC

CONSTANTS w1, s1, e1, e2

MCJob == {w1, s1}
MCWebhook == {w1}
MCSweep == {s1}
MCFollowUp == {s1}
MCExecutor == {e1, e2}
=============================================================================
