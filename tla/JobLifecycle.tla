---------------------------- MODULE JobLifecycle ----------------------------
(***************************************************************************)
(* What the durable job queue promises, without executors, claim tokens,   *)
(* the reaper or crashes.  A submitted job is worked on any number of      *)
(* times, its effect may land more than once and even after the job is     *)
(* finished, but the job only becomes DONE after its effect has landed (or *)
(* because a newer sweep superseded it while it was still waiting), and a  *)
(* finished job is never picked up again.                                  *)
(***************************************************************************)
CONSTANTS Job,        \* the rows of the job table
          Sweep,      \* the rows a newer sweep may supersede
          FollowUp    \* the rows of a task run that may be abandoned

VARIABLES status,     \* Job.status; "ABSENT" before the row is inserted
          performed   \* jobs whose effect counts as having landed

Init == /\ status = [j \in Job |-> "ABSENT"]
        /\ performed = {}

Move(j, from, to) == /\ status[j] = from
                     /\ status' = [status EXCEPT ![j] = to]
                     /\ UNCHANGED performed

Submit(j) == Move(j, "ABSENT", "PENDING")
Start(j)  == Move(j, "PENDING", "CLAIMED")
GiveUp(j) == Move(j, "CLAIMED", "FAILED")

Complete(j) == /\ j \in performed
               /\ Move(j, "CLAIMED", "DONE")

MoveAll(S, from, to) == /\ S # {} /\ \A j \in S : status[j] = from
                        /\ status' = [j \in Job |-> IF j \in S THEN to ELSE status[j]]
                        /\ UNCHANGED performed

\* A retry, the reaper or a restart puts started jobs back.
Requeue(S) == MoveAll(S, "CLAIMED", "PENDING")

\* An enqueuer may drop rows of an older sweep that nobody has started.
Supersede(S) == S \subseteq Sweep /\ MoveAll(S, "PENDING", "DONE")

\* Abandoning a task run fails its rows, finished or not.
Withdraw(S) == /\ S # {} /\ S \subseteq FollowUp
               /\ \A j \in S : status[j] # "ABSENT"
               /\ status' = [j \in Job |-> IF j \in S THEN "FAILED" ELSE status[j]]
               /\ UNCHANGED performed

\* The effect needs a job that was once started, not one that still is.
Perform(j) == /\ status[j] # "ABSENT"
              /\ performed' = performed \union {j}
              /\ UNCHANGED status

Next == \/ \E j \in Job : \/ Submit(j) \/ Start(j) \/ GiveUp(j)
                          \/ Complete(j) \/ Perform(j)
        \/ \E S \in SUBSET Job : Requeue(S) \/ Supersede(S) \/ Withdraw(S)

vars == <<status, performed>>
Spec == Init /\ [][Next]_vars
=============================================================================
