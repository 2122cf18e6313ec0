------------------------------ MODULE JobQueue ------------------------------
(***************************************************************************)
(* The durable job queue of services/worker.py: rows of the job table that *)
(* several executor threads claim, run and finish in separate database     *)
(* transactions, while a reaper requeues claims it takes for dead and the  *)
(* process may restart at any point.                                       *)
(*                                                                         *)
(* A claim writes a fresh claim_token.  uuid4 tokens are numbered here in  *)
(* the order they are issued, so a token also stands for the row's         *)
(* updated_at while it is CLAIMED, which the reaper compares.  (Coalescing *)
(* into a media_refresh row just claimed may push its updated_at: see      *)
(* MediaRefresh.  The reaper then only comes later.)  A row whose          *)
(* run_after lies in the future behaves as one that is not inserted yet.   *)
(* The claim's ORDER BY is left out: SKIP LOCKED already lets an executor  *)
(* be handed any row that others do not hold locked.                       *)
(***************************************************************************)
EXTENDS Integers, FiniteSets

CONSTANTS Job,              \* ids of rows
          Webhook,          \* the rows of type webhook_event
          Sweep,            \* nfo_refresh rows of template backfills
          FollowUp,         \* nfo_refresh and placeholder_art_refresh rows
                            \* that carry the id of a task run
          Executor,         \* worker threads
          MaxAttempts,      \* Job.max_attempts
          MaxEventAttempts, \* EventLog.max_attempts
          MaxFaults         \* bound: reaps that hit a live handler, process
                            \* restarts, transactions the database fails and
                            \* cancellations

ASSUME KindAssumption == /\ Webhook \subseteq Job
                         /\ Sweep \subseteq Job \ Webhook
                         /\ FollowUp \subseteq Job \ Webhook
ASSUME AttemptAssumption == MaxAttempts \in Nat \ {0} /\ MaxEventAttempts \in Nat \ {0}
ASSUME BoundAssumption == MaxFaults \in Nat

VARIABLES row,        \* [Job -> [status, attempts, token]], the job table
          event,      \* [Webhook -> [status, attempts]], the event_log table
          exec,       \* [Executor -> where the thread is in _process_one_descriptor]
          issued,     \* claim tokens issued so far
          performed,  \* jobs whose handler transaction has committed
          swallowed,  \* jobs with a failed commit that was taken for a success
          revoked,    \* _revoked_claim_ids, in memory
          marking,    \* ids the reaper has requeued and not yet marked, in memory
          faults,     \* what is left of MaxFaults
          cancelling  \* for each cancellation under way, the rows it has read

vars == <<row, event, exec, issued, performed, swallowed, revoked, marking, faults, cancelling>>

NoToken == 0
Terminal == {"DONE", "FAILED"}
Idle == [pc |-> "idle"]

\* A ClaimedJobDescriptor, with the event status the handler's session loaded.
Descriptor(pc, j, t, n, s) ==
  [pc |-> pc, job |-> j, token |-> t, attempts |-> n, seen |-> s]

Busy(e) == exec[e].pc # "idle"
At(e, S) == exec[e].pc \in S
Goto(e, pc) == exec' = [exec EXCEPT ![e].pc = pc]

\* The conditional UPDATE ... WHERE id, status='CLAIMED', claim_token matches it.
Holds(e) == /\ Busy(e)
            /\ row[exec[e].job].status = "CLAIMED"
            /\ row[exec[e].job].token = exec[e].token

Claimed == {j \in Job : row[j].status = "CLAIMED"}

\* Some thread has the claim of row j in hand; otherwise its thread is gone, or
\* has left it behind.
Live(j) == \E e \in Executor : /\ At(e, {"claimed", "running", "ok", "err", "fatal"})
                               /\ exec[e].job = j /\ Holds(e)

Init == /\ row = [j \in Job |-> [status |-> "ABSENT", attempts |-> 0, token |-> NoToken]]
        /\ event = [j \in Webhook |-> [status |-> "PENDING", attempts |-> 0]]
        /\ exec = [e \in Executor |-> Idle]
        /\ issued = 0
        /\ performed = {}
        /\ swallowed = {}
        /\ revoked = {}
        /\ marking = {}
        /\ faults = MaxFaults
        /\ cancelling = {}

-----------------------------------------------------------------------------
(* Enqueuers *)

Enqueue(j) == /\ row[j].status = "ABSENT"
              /\ row' = [row EXCEPT ![j].status = "PENDING"]
              /\ UNCHANGED <<event, exec, issued, performed, swallowed, revoked, marking, faults, cancelling>>

\* supersede_pending_template_nfo_jobs: a newer sweep retires the waiting rows
\* of an older one; it locks them SKIP LOCKED, so it may leave some of them.
Supersede(S) == /\ S # {} /\ S \subseteq {j \in Sweep : row[j].status = "PENDING"}
                /\ row' = [j \in Job |-> IF j \in S THEN [row[j] EXCEPT !.status = "DONE"]
                                                    ELSE row[j]]
                /\ UNCHANGED <<event, exec, issued, performed, swallowed, revoked, marking, faults, cancelling>>

\* _cancel_follow_up_jobs_for_task_run, for a task run that is abandoned: the
\* open rows of the run are read without a lock ...
CancelReads(S) ==
  /\ S # {} /\ S \subseteq {j \in FollowUp : row[j].status \in {"PENDING", "CLAIMED"}}
  /\ cancelling' = cancelling \union {S}
  /\ faults > 0
  /\ faults' = faults - 1
  /\ UNCHANGED <<row, event, exec, issued, performed, swallowed, revoked, marking>>

\* ... and written by primary key when the session commits, whatever they have
\* become since; the claim token stays.
CancelWrites(S) ==
  /\ S \in cancelling
  /\ row' = [j \in Job |-> IF j \in S THEN [row[j] EXCEPT !.status = "FAILED"] ELSE row[j]]
  /\ cancelling' = cancelling \ {S}
  /\ UNCHANGED <<event, exec, issued, performed, swallowed, revoked, marking, faults>>

-----------------------------------------------------------------------------
(* Executors *)

\* _claim_next_job: one short transaction; attempts is bumped but not compared
\* with max_attempts.
Claim(e, j) ==
  /\ At(e, {"idle"})
  /\ row[j].status = "PENDING"
  /\ issued' = issued + 1
  /\ row' = [row EXCEPT ![j] = [status |-> "CLAIMED", attempts |-> @.attempts + 1,
                                token |-> issued + 1]]
  /\ exec' = [exec EXCEPT ![e] = Descriptor("claimed", j, issued + 1,
                                            row[j].attempts + 1, "PENDING")]
  /\ UNCHANGED <<event, performed, swallowed, revoked, marking, faults, cancelling>>

\* _reload_job_for_handler finds the claim still ours, and the handler loads
\* its event.
Reload(e) ==
  LET d == exec[e]
      s == IF d.job \in Webhook THEN event[d.job].status ELSE d.seen
  IN
  /\ At(e, {"claimed"}) /\ Holds(e)
  /\ exec' = [exec EXCEPT ![e] = Descriptor("running", d.job, d.token, d.attempts, s)]
  /\ UNCHANGED <<row, event, issued, performed, swallowed, revoked, marking, faults, cancelling>>

\* The claim is gone: the early return, which skips _clear_claim_revoked.
Abandon(e) ==
  /\ At(e, {"claimed"}) /\ ~Holds(e)
  /\ exec' = [exec EXCEPT ![e] = Idle]
  /\ UNCHANGED <<row, event, issued, performed, swallowed, revoked, marking, faults, cancelling>>

\* The reload raises: _process_one_descriptor is left by its finally, with the
\* row still CLAIMED.
ReloadError(e) ==
  /\ At(e, {"claimed"}) /\ faults > 0
  /\ exec' = [exec EXCEPT ![e] = Idle]
  /\ faults' = faults - 1
  /\ UNCHANGED <<row, event, issued, performed, swallowed, revoked, marking, cancelling>>

\* The handler returns and handler_session.commit() succeeds, whether or not
\* the claim is still valid.  The ORM writes event.status only if it differs
\* from the value it loaded.
HandlerCommits(e) ==
  LET j == exec[e].job IN
  /\ At(e, {"running"})
  /\ Goto(e, "ok")
  /\ performed' = performed \union {j}
  /\ event' = IF j \in Webhook /\ exec[e].seen # "DONE"
                THEN [event EXCEPT ![j].status = "DONE"] ELSE event
  /\ UNCHANGED <<row, issued, swallowed, revoked, marking, faults, cancelling>>

\* The commit fails with an error whose text contains "closed", as libpq's
\* "server closed the connection unexpectedly" does: nothing was written, and
\* the handler still counts as done.
CommitSwallowed(e) ==
  /\ At(e, {"running"}) /\ faults > 0
  /\ Goto(e, "ok")
  /\ swallowed' = swallowed \union {exec[e].job}
  /\ faults' = faults - 1
  /\ UNCHANGED <<row, event, issued, performed, revoked, marking, cancelling>>

HandlerErrorSwallowed(e, pc) ==   \* a failed handler counts as done
  /\ At(e, {"running"})
  /\ pc = "err" \/ (pc = "fatal" /\ exec[e].job \in Webhook)
  /\ Goto(e, "ok")
  /\ UNCHANGED <<row, event, issued, performed, swallowed, revoked, marking, faults, cancelling>>

\* The handler raises, or its commit fails; the session is rolled back.  Only
\* a webhook_event has errors that are not worth a retry.
HandlerRaises(e, pc) ==
  /\ At(e, {"running"})
  /\ pc = "err" \/ (pc = "fatal" /\ exec[e].job \in Webhook)
  /\ Goto(e, pc)
  /\ UNCHANGED <<row, event, issued, performed, swallowed, revoked, marking, faults, cancelling>>

FinishDoneUnchecked(e) ==   \* UPDATE ... WHERE id only
  /\ At(e, {"ok"})
  /\ row' = [row EXCEPT ![exec[e].job].status = "DONE", ![exec[e].job].token = NoToken]
  /\ Goto(e, "clearing")
  /\ UNCHANGED <<event, issued, performed, swallowed, revoked, marking, faults, cancelling>>

FinishDoneByStatus(e) ==   \* UPDATE ... WHERE id AND status, without the token
  /\ At(e, {"ok"}) /\ row[exec[e].job].status = "CLAIMED"
  /\ row' = [row EXCEPT ![exec[e].job].status = "DONE", ![exec[e].job].token = NoToken]
  /\ Goto(e, "clearing")
  /\ UNCHANGED <<event, issued, performed, swallowed, revoked, marking, faults, cancelling>>

\* _mark_descriptor_done.
FinishDone(e) ==
  /\ At(e, {"ok"}) /\ Holds(e)
  /\ row' = [row EXCEPT ![exec[e].job].status = "DONE", ![exec[e].job].token = NoToken]
  /\ Goto(e, "clearing")
  /\ UNCHANGED <<event, issued, performed, swallowed, revoked, marking, faults, cancelling>>

GivesUp(e) == exec[e].pc = "fatal" \/ exec[e].attempts >= MaxAttempts

FinishFailedUnchecked(e) ==   \* the failure path without the conditional UPDATE
  LET j == exec[e].job
      n == event[j].attempts + 1
  IN
  /\ At(e, {"err", "fatal"})
  /\ row' = [row EXCEPT ![j] = [status |-> IF GivesUp(e) THEN "FAILED" ELSE "PENDING",
                                attempts |-> @.attempts, token |-> NoToken]]
  /\ event' = IF j \notin Webhook THEN event ELSE
                [event EXCEPT ![j] = [status |-> IF exec[e].pc = "fatal" \/ n >= MaxEventAttempts
                                                   THEN "FAILED" ELSE @.status,
                                      attempts |-> n]]
  /\ Goto(e, "clearing")
  /\ UNCHANGED <<issued, performed, swallowed, revoked, marking, faults, cancelling>>

\* _mark_descriptor_failed: the row, then the event's own bookkeeping.
FinishFailed(e) ==
  LET j == exec[e].job
      n == event[j].attempts + 1
  IN
  /\ At(e, {"err", "fatal"}) /\ Holds(e)
  /\ row' = [row EXCEPT ![j] = [status |-> IF GivesUp(e) THEN "FAILED" ELSE "PENDING",
                                attempts |-> @.attempts, token |-> NoToken]]
  /\ event' = IF j \notin Webhook THEN event ELSE
                [event EXCEPT ![j] = [status |-> IF exec[e].pc = "fatal" \/ n >= MaxEventAttempts
                                                   THEN "FAILED" ELSE @.status,
                                      attempts |-> n]]
  /\ Goto(e, "clearing")
  /\ UNCHANGED <<issued, performed, swallowed, revoked, marking, faults, cancelling>>

\* StaleJobClaimError: the UPDATE matches no row and the finish is skipped.
FinishStale(e) ==
  /\ At(e, {"ok", "err", "fatal"}) /\ ~Holds(e)
  /\ Goto(e, "clearing")
  /\ UNCHANGED <<row, event, issued, performed, swallowed, revoked, marking, faults, cancelling>>

\* The finish transaction fails: logged, and the row stays CLAIMED.
FinishError(e) ==
  /\ At(e, {"ok", "err", "fatal"}) /\ faults > 0
  /\ Goto(e, "clearing")
  /\ faults' = faults - 1
  /\ UNCHANGED <<row, event, issued, performed, swallowed, revoked, marking, cancelling>>

\* _clear_claim_revoked, by job id.
Clear(e) ==
  /\ At(e, {"clearing"})
  /\ revoked' = revoked \ {exec[e].job}
  /\ exec' = [exec EXCEPT ![e] = Idle]
  /\ UNCHANGED <<row, event, issued, performed, swallowed, marking, faults, cancelling>>

-----------------------------------------------------------------------------
(* The reaper and the process *)

OlderButLast(cutoff) == {j \in Claimed : row[j].token < cutoff}   \* off by one

Older(cutoff) == {j \in Claimed : row[j].token <= cutoff}

\* One pass of the reaper requeues every row claimed before a cutoff.  A pass
\* that hits a live claim spends one of the bound.
Reap(cutoff) ==
  LET S == Older(cutoff) IN
  /\ marking = {} /\ S # {}
  /\ \/ /\ \A j \in S : ~Live(j)
        /\ UNCHANGED faults
     \/ /\ \E j \in S : Live(j)
        /\ faults > 0
        /\ faults' = faults - 1
  /\ row' = [j \in Job |-> IF j \in S THEN [row[j] EXCEPT !.status = "PENDING", !.token = NoToken]
                                      ELSE row[j]]
  /\ marking' = S
  /\ UNCHANGED <<event, exec, issued, performed, swallowed, revoked, cancelling>>

\* mark_claim_revoked runs after the commit, one id at a time.
Mark(j) ==
  /\ j \in marking
  /\ marking' = marking \ {j}
  /\ revoked' = revoked \union {j}
  /\ UNCHANGED <<row, event, exec, issued, performed, swallowed, faults, cancelling>>

\* The process dies and starts again.  Memory is lost; lifespan() puts every
\* CLAIMED row back without touching its token, unless that statement fails.
Restart(S) ==
  /\ faults > 0
  /\ S \in {Claimed, {}}
  /\ row' = [j \in Job |-> IF j \in S THEN [row[j] EXCEPT !.status = "PENDING"] ELSE row[j]]
  /\ exec' = [e \in Executor |-> Idle]
  /\ revoked' = {}
  /\ marking' = {}
  /\ cancelling' = {}
  /\ faults' = faults - 1
  /\ UNCHANGED <<event, issued, performed, swallowed>>

-----------------------------------------------------------------------------
Finish(e) == FinishDone(e) \/ FinishFailed(e) \/ FinishStale(e) \/ FinishError(e)

Handler(e) == \/ HandlerCommits(e) \/ CommitSwallowed(e)
              \/ \E pc \in {"err", "fatal"} : HandlerRaises(e, pc)

Thread(e) == \/ \E j \in Job : Claim(e, j)
             \/ Reload(e) \/ ReloadError(e) \/ Abandon(e)
             \/ Handler(e) \/ Finish(e) \/ Clear(e)

Reaper == \/ \E cutoff \in 1..issued : Reap(cutoff)
          \/ \E j \in Job : Mark(j)

Next == \/ \E j \in Job : Enqueue(j)
        \/ \E S \in SUBSET Sweep : Supersede(S)
        \/ \E S \in SUBSET FollowUp : CancelReads(S) \/ CancelWrites(S)
        \/ \E e \in Executor : Thread(e)
        \/ Reaper
        \/ \E S \in {Claimed, {}} : Restart(S)

\* Every step of a thread is enabled until taken (handlers return: their I/O
\* has timeouts), the reaper runs on a timer, and the threads take jobs as
\* long as there are any; so each thread is scheduled, and so is the reaper.
Fairness == /\ \A e \in Executor : WF_vars(Thread(e))
            /\ WF_vars(Reaper)

Spec == Init /\ [][Next]_vars
FairSpec == Spec /\ Fairness
-----------------------------------------------------------------------------
(* Properties *)

Pc == {"claimed", "running", "ok", "err", "fatal", "clearing"}
EventStatus == {"PENDING", "DONE", "FAILED"}
Rows == [status : {"ABSENT", "PENDING", "CLAIMED", "DONE", "FAILED"},
         attempts : Nat, token : Nat]
Descriptors == [pc : Pc, job : Job, token : Nat, attempts : Nat, seen : EventStatus]

\* Every variable stays in its range: a row has one of the four statuses of
\* models.py (or is not inserted), a thread is idle or carries a descriptor.
TypeOK ==
  /\ row \in [Job -> Rows]
  /\ event \in [Webhook -> [status : EventStatus, attempts : Nat]]
  /\ exec \in [Executor -> {Idle} \union Descriptors]
  /\ issued \in Nat
  /\ performed \subseteq Job /\ swallowed \subseteq Job /\ revoked \subseteq Job /\ marking \subseteq Job
  /\ faults \in Nat
  /\ cancelling \subseteq SUBSET FollowUp

\* A claim token names one claim: no row and no thread has one that was not
\* issued, and two threads never carry the same one (_claim_next_job).
TokensNameClaims ==
  /\ \A j \in Job : row[j].token <= issued /\ (row[j].status = "CLAIMED" => row[j].token > 0)
  /\ \A e \in Executor : Busy(e) => exec[e].token \in 1..issued
  /\ \A d, e \in Executor :
        d # e /\ Busy(d) /\ Busy(e) => exec[d].token # exec[e].token

\* A descriptor whose token is still in some row speaks of that row and has its
\* number of attempts, so the retry decision of _mark_descriptor_failed, taken
\* from the snapshot, is the one the row calls for.
SnapshotIsCurrent ==
  \A e \in Executor : Busy(e) =>
     /\ row[exec[e].job].status # "ABSENT"
     /\ \A j \in Job : row[j].token = exec[e].token =>
                        j = exec[e].job /\ row[j].attempts = exec[e].attempts

\* Until the current holder of a webhook job has failed, an event it saw DONE
\* stays DONE: failures of other holders cannot land in between.
HolderSeesEvent ==
  \A e \in Executor :
     /\ Holds(e) /\ exec[e].job \in Webhook
     /\ \/ exec[e].pc = "ok" /\ exec[e].job \notin swallowed
        \/ (exec[e].pc = "running" /\ exec[e].seen = "DONE")
     => event[exec[e].job].status = "DONE"

\* A job is only recorded DONE after the transaction with its effect has
\* committed (or it was superseded while waiting), and its webhook event is
\* then DONE as well, whatever other threads that once held the job do.  The
\* one way out is a commit whose failure was swallowed.
DoneMeansPerformed ==
  \A j \in Job : row[j].status = "DONE" =>
     /\ j \in performed \union swallowed \union Sweep
     /\ j \in Webhook \ swallowed => event[j].status = "DONE"

\* A webhook event is charged at most one failed attempt per claim of its job,
\* and none yet for the claim in progress, although retries, the reaper and
\* restarts let several threads run the same job.
EventChargedPerClaim ==
  \A j \in Webhook :
     event[j].attempts + (IF row[j].status = "CLAIMED" THEN 1 ELSE 0) <= row[j].attempts

\* A thread that is about to record DONE has committed its effect, or had the
\* failure of that commit swallowed.
OkMeansPerformed ==
  \A e \in Executor : exec[e].pc = "ok" => exec[e].job \in performed \union swallowed

\* Only failures of the handler are counted against max_attempts, and a requeue by
\* the reaper or a restart may go beyond it, but by one claim per such event:
\* neither stale finishes nor lost ones buy a row further attempts.
AttemptsBounded == \A j \in Job : row[j].attempts <= MaxAttempts + (MaxFaults - faults)

\* A cancellation only writes rows that exist.
CancelledRowsExist == \A S \in cancelling : \A j \in S : row[j].status # "ABSENT"

Used == MaxFaults - faults

\* An open row that no live claim works on could be claimed once more without
\* exceeding what AttemptsBounded allows.
AttemptsCovered ==
  /\ faults <= MaxFaults
  /\ \A j \in Job : /\ row[j].attempts <= MaxAttempts + Used
                    /\ row[j].status \notin Terminal /\ ~Live(j) =>
                         row[j].attempts < MaxAttempts + Used

\* The inductive invariant behind the results above.
IInv ==
  /\ TypeOK /\ TokensNameClaims /\ SnapshotIsCurrent /\ HolderSeesEvent
  /\ DoneMeansPerformed /\ EventChargedPerClaim /\ OkMeansPerformed
  /\ CancelledRowsExist

\* The step is the write of a cancellation that fails row j.
CancelFails(j) == row'[j].status = "FAILED" /\ \E S \in cancelling \ cancelling' : j \in S

\* A finished row is never written again: not by a stale finish, not by the
\* reaper, not by a restart.  The one writer that may still change it is a
\* cancellation that read the row while it was open.
TerminalIsFinal ==
  [][\A j \in Job : row[j].status \in Terminal => row'[j] = row[j] \/ CancelFails(j)]_vars

\* A started job is only finished by the thread of its latest claim, with the
\* outcome of its own handler, or by a cancellation; an older thread that wakes
\* up decides nothing.
LatestClaimDecides ==
  [][\A j \in Job : row[j].status = "CLAIMED" /\ row'[j].status \in Terminal =>
       \/ CancelFails(j)
       \/ \E e \in Executor :
             /\ Busy(e) /\ exec[e].job = j /\ exec[e].token = row[j].token
             /\ IF row'[j].status = "DONE"
                  THEN exec[e].pc = "ok"
                  ELSE \/ exec[e].pc = "fatal"
                       \/ exec[e].pc = "err" /\ row[j].attempts >= MaxAttempts
    ]_vars

\* Whatever the reaper, restarts and failed finish transactions do, a job that
\* was enqueued is finished in the end, and none stays CLAIMED for good.
EveryJobSettles ==
  \A j \in Job : row[j].status = "PENDING" ~> row[j].status \in Terminal

\* The queue keeps the promise of JobLifecycle, for effects as the worker sees
\* them: a swallowed commit failure counts as an effect.
Lifecycle == INSTANCE JobLifecycle WITH status <- [j \in Job |-> row[j].status],
                                        performed <- performed \union swallowed
ImplementsLifecycle == Lifecycle!Spec

-----------------------------------------------------------------------------
(* What comments of the code say and the code does not do *)

\* worker.py:945-947: an error is swallowed only when "the handler already closed
\* the session", which "is responsible for having committed before close": then
\* no job is DONE without its effect.
DoneMeansCommitted == \A j \in Job \ Sweep : row[j].status = "DONE" => j \in performed

\* task_run_history.py:128: abandoning a task run "fail[s] queued art/NFO jobs
\* tied to a task run that will not complete"; a job that has run and is DONE is not queued.
DoneIsNotCancelled ==
  [][\A j \in performed : row[j].status = "DONE" => row'[j].status # "FAILED"]_vars
=============================================================================
