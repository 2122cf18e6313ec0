----------------------------- MODULE DrainWake -----------------------------
(***************************************************************************)
(* How executor threads learn that there is work: the NOTIFY trigger on    *)
(* the job table, the notifier's LISTEN connection, the one _drain_event   *)
(* that all executors share, the run_after-aware wait and the safety poll  *)
(* (services/worker.py _executor_loop, services/postgres/notifier.py).     *)
(* What a claim and its finish do to a row is JobQueue's subject; here a   *)
(* row only has to be claimed by somebody, and soon.                       *)
(*                                                                         *)
(* Time is left out: a run_after passes by itself (Due), and a wait may    *)
(* always time out, since the safety poll bounds it.                       *)
(***************************************************************************)
EXTENDS Naturals, FiniteSets

CONSTANTS Job,          \* rows of the job table
          Executor,     \* worker threads
          Nobody,       \* no executor holds the row
          MaxPerDrain,  \* WORKER_MAX_JOBS_PER_DRAIN
          MaxFaults     \* bound: failed statements, lost connections, retries,
                        \* row locks and reaps of a running job

ASSUME DrainAssumption == MaxPerDrain \in Nat \ {0} /\ MaxFaults \in Nat /\ Nobody \notin Executor

VARIABLES notifyOn,  \* WORKER_NOTIFY_ENABLED, read when the loop starts
          row,       \* [Job -> RowState]
          owner,     \* [Job -> the executor whose claim a taken row carries]
          locked,    \* rows an enqueuer holds FOR UPDATE to merge into
          silent,    \* rows that came to be claimable without a NOTIFY
          flag,      \* _drain_event
          link,      \* the notifier's connection
          wire,      \* is a NOTIFY sent and not yet read from that connection?
          pc,        \* [Executor -> where in _executor_loop]
          drained,   \* [Executor -> jobs of this drain pass]
          alarm,     \* [Executor -> rows whose run_after bounds the wait]
          faults

vars == <<notifyOn, row, owner, locked, silent, flag, link, wire, pc, drained, alarm, faults>>
rows == <<row, owner, locked, silent>>
wakes == <<flag, link, wire>>
threads == <<pc, drained, alarm>>

RowState == {"absent", "later", "ready", "taken", "done"}
Link == {"down", "listening", "up", "deaf"}
Pc == {"held", "clear", "drain", "run", "look", "asleep"}

Init == /\ notifyOn \in BOOLEAN
        /\ row = [j \in Job |-> "absent"]
        /\ owner = [j \in Job |-> Nobody]
        /\ locked = {} /\ silent = {}
        /\ flag = FALSE
        /\ link = "down"
        /\ wire = FALSE
        /\ pc = [e \in Executor |-> "held"]
        /\ drained = [e \in Executor |-> 0]
        /\ alarm = [e \in Executor |-> {}]
        /\ faults = MaxFaults

Fault == faults > 0 /\ faults' = faults - 1

\* job_notify_insert and job_notify_update: a commit that inserted rows or set
\* status or run_after sends a NOTIFY, which only a live LISTEN receives.
Notify == /\ wire' = (wire \/ link \in {"listening", "up"})
          /\ UNCHANGED <<flag, link>>

\* Event.set wakes every thread that is waiting, whatever becomes of the flag.
Awakened == [e \in Executor |-> IF notifyOn /\ pc[e] = "asleep" THEN "clear" ELSE pc[e]]
SetEvent == /\ flag' = TRUE
            /\ pc' = Awakened
            /\ UNCHANGED <<drained, alarm>>

Claimable == {j \in Job : row[j] = "ready" /\ j \notin locked}

-----------------------------------------------------------------------------
(* Enqueuers and the clock *)

Enqueue(j, s) == /\ row[j] = "absent"
                 /\ row' = [row EXCEPT ![j] = s]
                 /\ Notify
                 /\ UNCHANGED <<notifyOn, owner, locked, silent, threads, faults>>

\* Nothing is sent when a run_after passes.
Due(j) == /\ row[j] = "later"
          /\ row' = [row EXCEPT ![j] = "ready"]
          /\ silent' = silent \union {j}
          /\ UNCHANGED <<notifyOn, owner, locked, wakes, threads, faults>>

\* enqueue_batched_placeholder_job locks PENDING rows to merge ids into them,
\* and SKIP LOCKED hides them from claims.
Lock(j) == /\ row[j] \in {"later", "ready"} /\ j \notin locked
           /\ locked' = locked \union {j}
           /\ Fault
           /\ UNCHANGED <<notifyOn, row, owner, silent, wakes, threads>>

\* It writes payload and updated_at, on which no trigger is defined.
Unlock(j) == /\ j \in locked
             /\ locked' = locked \ {j}
             /\ silent' = silent \union ({j} \ {k \in Job : row[k] = "later"})
             /\ UNCHANGED <<notifyOn, row, owner, wakes, threads, faults>>

\* supersede_pending_template_nfo_jobs and _cancel_follow_up_jobs_for_task_run
\* end a row that is waiting or, the latter, one that is still running.
Retire(j) == /\ row[j] \in {"later", "ready", "taken"} /\ j \notin locked
             /\ row' = [row EXCEPT ![j] = "done"]
             /\ owner' = [owner EXCEPT ![j] = Nobody]
             /\ Notify
             /\ UNCHANGED <<notifyOn, locked, silent, threads, faults>>

-----------------------------------------------------------------------------
(* The executor loop *)

\* The gate opens, or its 30 minutes are over.
Start(e) == /\ pc[e] = "held"
            /\ pc' = [pc EXCEPT ![e] = "clear"]
            /\ UNCHANGED <<notifyOn, rows, wakes, drained, alarm, faults>>

ClearEvent(e) == /\ pc[e] = "clear"
                 /\ flag' = FALSE
                 /\ pc' = [pc EXCEPT ![e] = "drain"]
                 /\ drained' = [drained EXCEPT ![e] = 0]
                 /\ alarm' = [alarm EXCEPT ![e] = {}]
                 /\ UNCHANGED <<notifyOn, rows, link, wire, faults>>

Claim(e, j) == /\ pc[e] = "drain"
               /\ j \in Claimable
               /\ row' = [row EXCEPT ![j] = "taken"]
               /\ owner' = [owner EXCEPT ![j] = e]
               /\ silent' = silent \ {j}
               /\ pc' = [pc EXCEPT ![e] = "run"]
               /\ Notify
               /\ UNCHANGED <<notifyOn, locked, drained, alarm, faults>>

NothingToClaim(e) == /\ pc[e] = "drain"
                     /\ Claimable = {}
                     /\ pc' = [pc EXCEPT ![e] = "look"]
                     /\ UNCHANGED <<notifyOn, rows, wakes, drained, alarm, faults>>

\* A lock timeout or any other error ends the pass.
ClaimFails(e) == /\ pc[e] = "drain"
                 /\ pc' = [pc EXCEPT ![e] = "look"]
                 /\ silent' = silent \union Claimable
                 /\ Fault
                 /\ UNCHANGED <<notifyOn, row, owner, locked, wakes, drained, alarm>>

\* After a job the pass goes on, up to its cap.
NextInPass(e) == /\ drained' = [drained EXCEPT ![e] = @ + 1]
                 /\ pc' = [pc EXCEPT ![e] = IF drained[e] + 1 < MaxPerDrain THEN "drain" ELSE "look"]
                 /\ UNCHANGED <<alarm>>

Finish(e, j, s) == /\ pc[e] = "run" /\ owner[j] = e
                   /\ row' = [row EXCEPT ![j] = s]
                   /\ owner' = [owner EXCEPT ![j] = Nobody]
                   /\ IF s = "done" THEN UNCHANGED faults ELSE Fault
                   /\ Notify
                   /\ NextInPass(e)
                   /\ UNCHANGED <<notifyOn, locked, silent>>

\* The finish is stale, or its transaction fails and leaves the row taken.
FinishNothing(e) == /\ pc[e] = "run"
                    /\ \/ /\ \A j \in Job : owner[j] # e
                          /\ UNCHANGED <<owner, faults>>
                       \/ /\ \E j \in Job : owner[j] = e
                          /\ owner' = [j \in Job |-> IF owner[j] = e THEN Nobody ELSE owner[j]]
                          /\ Fault
                    /\ NextInPass(e)
                    /\ UNCHANGED <<notifyOn, row, locked, silent, wakes>>

\* An error that escapes _process_one_descriptor ends the pass.
Escape(e) == /\ pc[e] = "run"
             /\ owner' = [j \in Job |-> IF owner[j] = e THEN Nobody ELSE owner[j]]
             /\ pc' = [pc EXCEPT ![e] = "look"]
             /\ Fault
             /\ UNCHANGED <<notifyOn, row, locked, silent, wakes, drained, alarm>>

AfterWait(e) == [pc EXCEPT ![e] = IF notifyOn /\ flag THEN "clear" ELSE "asleep"]

LookThenClear(e) ==   \* the event is cleared after the pass instead of before it
  /\ pc[e] = "look"
  /\ alarm' = [alarm EXCEPT ![e] = {j \in Job : row[j] = "later"}]
  /\ pc' = [pc EXCEPT ![e] = "asleep"]
  /\ flag' = FALSE
  /\ UNCHANGED <<notifyOn, rows, link, wire, drained, faults>>

\* _next_run_after_seconds, then the wait, which returns at once if the event
\* is set.  The wait ends when the first of the rows it saw is due.
Look(e) == /\ pc[e] = "look"
           /\ alarm' = [alarm EXCEPT ![e] = {j \in Job : row[j] = "later"}]
           /\ pc' = AfterWait(e)
           /\ UNCHANGED <<notifyOn, rows, wakes, drained, faults>>

\* The query fails: only the safety poll bounds the wait.
LookFails(e) == /\ pc[e] = "look"
                /\ silent' = silent \union {j \in Job : row[j] = "later"}
                /\ pc' = AfterWait(e)
                /\ Fault
                /\ UNCHANGED <<notifyOn, row, owner, locked, wakes, drained, alarm>>

Timeout(e) == /\ pc[e] = "asleep"
              /\ pc' = [pc EXCEPT ![e] = "clear"]
              /\ UNCHANGED <<notifyOn, rows, wakes, drained, alarm, faults>>

-----------------------------------------------------------------------------
(* The reaper and the notifier *)

ReapOwnedOnly(j) ==   \* rows without a thread are forgotten
  /\ row[j] = "taken" /\ owner[j] # Nobody
  /\ Fault
  /\ row' = [row EXCEPT ![j] = "ready"]
  /\ owner' = [owner EXCEPT ![j] = Nobody]
  /\ wire' = (wire \/ link \in {"listening", "up"})
  /\ SetEvent
  /\ UNCHANGED <<notifyOn, locked, silent, link>>

\* The reaper requeues a row whose executor is gone, or which has been taken
\* for too long, and sets the event itself.
Reap(j) == /\ row[j] = "taken"
           /\ IF owner[j] = Nobody THEN UNCHANGED faults ELSE Fault
           /\ row' = [row EXCEPT ![j] = "ready"]
           /\ owner' = [owner EXCEPT ![j] = Nobody]
           /\ wire' = (wire \/ link \in {"listening", "up"})
           /\ SetEvent
           /\ UNCHANGED <<notifyOn, locked, silent, link>>

\* A connection is opened and LISTEN sent; _issue_listen swallows a failure.
Listen(l) == /\ notifyOn /\ link = "down"
             /\ link' = l
             /\ IF l = "listening" THEN UNCHANGED faults ELSE Fault
             /\ UNCHANGED <<notifyOn, rows, flag, wire, threads>>

\* After LISTEN every callback runs once, for what was missed before.
ForceDrain == /\ link = "listening"
              /\ link' = "up"
              /\ SetEvent
              /\ UNCHANGED <<notifyOn, rows, wire, faults>>

Deliver == /\ link = "up" /\ wire
           /\ wire' = FALSE
           /\ SetEvent
           /\ UNCHANGED <<notifyOn, rows, link, faults>>

\* The connection breaks, or poll() finds that it already had.
Disconnect == /\ link # "down"
              /\ IF link = "deaf" THEN UNCHANGED faults ELSE Fault
              /\ link' = "down"
              /\ wire' = FALSE
              /\ UNCHANGED <<notifyOn, rows, flag, threads>>

-----------------------------------------------------------------------------
Step(e) == \/ Start(e) \/ ClearEvent(e)
           \/ \E j \in Job : Claim(e, j)
           \/ NothingToClaim(e) \/ ClaimFails(e)
           \/ \E j \in Job, s \in {"done", "ready"} : Finish(e, j, s)
           \/ FinishNothing(e) \/ Escape(e)
           \/ Look(e) \/ LookFails(e) \/ Timeout(e)

Notifier == \/ \E l \in {"listening", "deaf"} : Listen(l)
            \/ ForceDrain \/ Deliver \/ Disconnect

Next == \/ \E j \in Job : \/ \E s \in {"later", "ready"} : Enqueue(j, s)
                          \/ Due(j) \/ Lock(j) \/ Unlock(j) \/ Retire(j) \/ Reap(j)
        \/ \E e \in Executor : Step(e)
        \/ Notifier

\* Threads run and handlers return, every wait has a timeout, run_afters pass,
\* enqueuers commit, and the reaper runs on a timer.  Nothing is assumed of the
\* notifier.
Fairness == /\ \A e \in Executor : WF_vars(Step(e))
            /\ \A j \in Job : WF_vars(Due(j)) /\ WF_vars(Unlock(j)) /\ WF_vars(Reap(j))

Spec == Init /\ [][Next]_vars
FairSpec == Spec /\ Fairness

-----------------------------------------------------------------------------
(* Properties *)

\* Every variable stays in its range, and no pass takes more jobs than its cap.
TypeOK == /\ notifyOn \in BOOLEAN
          /\ row \in [Job -> RowState]
          /\ owner \in [Job -> Executor \union {Nobody}]
          /\ locked \subseteq Job /\ silent \subseteq Job
          /\ flag \in BOOLEAN /\ link \in Link /\ wire \in BOOLEAN
          /\ pc \in [Executor -> Pc]
          /\ drained \in [Executor -> 0..MaxPerDrain]
          /\ \A e \in Executor : pc[e] \in {"drain", "run"} => drained[e] < MaxPerDrain
          /\ alarm \in [Executor -> SUBSET Job]
          /\ faults \in Nat

Connected == notifyOn /\ link \in {"listening", "up"}
Coming == link = "listening" \/ wire \/ flag   \* the event is set, or will be
WillClaim(e) == pc[e] \in {"held", "clear", "drain"}

\* While the notifier listens, a row that a NOTIFY announced is not left to the
\* safety poll: the event is set or about to be, or an executor has still to
\* look for rows in its pass.  So the event may be shared, passes may be capped
\* and connections may break without a wake-up being lost.
NoLostWakeup ==
  \A j \in Claimable \ silent :
     Connected => Coming \/ \E e \in Executor : WillClaim(e)

\* A row scheduled for later is not left to the safety poll either: some
\* executor is awake or wakes up when the row is due.
DelayedRowHasAlarm ==
  \A j \in {k \in Job : row[k] = "later"} \ silent :
     Connected => Coming \/ \E e \in Executor : pc[e] # "asleep" \/ j \in alarm[e]

\* Whatever is lost on the way, every row is done in the end.
EveryRowDone == \A j \in Job : row[j] \in {"later", "ready"} ~> row[j] = "done"
=============================================================================
