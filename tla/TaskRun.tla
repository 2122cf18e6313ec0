------------------------------ MODULE TaskRun -------------------------------
(***************************************************************************)
(* A task run with follow-up batches: the runner enqueues NFO and art      *)
(* batches and opens a phase for each; the workers run them, count them,   *)
(* look for the last one of a batch run, refresh the library sections and  *)
(* complete the task run (services/task_run_phases.py,                     *)
(* task_run_history.py, source_of_truth/scheduled_sync.py,                 *)
(* placeholder_refresh.py, status_reconciler.py,                           *)
(* placeholder_art_reconciler.py, worker.py).                              *)
(*                                                                         *)
(* Nobody locks the row of the task run: what one transaction reads of it  *)
(* or of its batches is acted upon in a later one.                         *)
(***************************************************************************)
EXTENDS Naturals, FiniteSets

CONSTANTS Nfo, Art,  \* the rows of the two batch runs
          Thread,    \* worker threads
          Poller,    \* the request that lists the task runs and repairs them
          Nobody,
          MaxFaults  \* bound: errors, reaps, cancellations, restarts, sweeps

Linked == Nfo \union Art
Actor == Thread \union {Poller}
BatchRun == {"nfo", "art"}

\* A batch run without a row is never enqueued.
ASSUME RunAssumption == /\ IsFiniteSet(Linked) /\ Nfo \intersect Art = {}
                        /\ Nfo # {} /\ Art # {}
                        /\ Poller \notin Thread /\ Nobody \notin Thread \union Linked
                        /\ MaxFaults \in Nat

VARIABLES kind,      \* "full" (full_sync) or "placeholder" (placeholder_refresh)
          runner,    \* [pc, at, wants, queued, seen], the thread of the task
          run,       \* [status, begun, done, closed], the row with its art_backfill
          job,       \* [Linked -> [status, claim]]
          key,       \* rows with a committed processed_job_key
          worker,    \* [Actor -> [pc, job, then, seen, bad]]
          refreshed, \* [BatchRun -> number of section refreshes]
          past,      \* what has happened, for the properties
          faults

vars == <<kind, runner, run, job, key, worker, refreshed, past, faults>>

Idle == [pc |-> "idle", job |-> Nobody, then |-> "idle", seen |-> 0, bad |-> FALSE]

Init == /\ kind \in {"full", "placeholder"}
        /\ \E W \in (SUBSET BatchRun) \ {{}} :
             runner = [pc |-> "sync", at |-> "nfo", wants |-> W, queued |-> {}, seen |-> <<0, FALSE>>]
        /\ run = [status |-> "working", begun |-> FALSE, done |-> 0, closed |-> FALSE]
        /\ job = [j \in Linked |-> [status |-> "absent", claim |-> Nobody]]
        /\ key = {}
        /\ worker = [a \in Actor |-> Idle]
        /\ refreshed = [b \in BatchRun |-> 0]
        /\ past = {}
        /\ faults = MaxFaults

Fault == faults > 0 /\ faults' = faults - 1

Rows(b) == IF b = "nfo" THEN Nfo ELSE Art
BatchOf(j) == IF j \in Nfo THEN "nfo" ELSE "art"
Open(S) == {j \in S : job[j].status \in {"pending", "claimed"}}
SetRows(S, s) == [j \in Linked |-> IF j \in S THEN [status |-> s, claim |-> Nobody] ELSE job[j]]

-----------------------------------------------------------------------------
(* The runner: run_scheduled_full_sync with run_placeholder_refresh_if_pending, *)
(* or run_placeholder_refresh_task.                                              *)

\* What comes after batch run b.
Passed(b) == IF b = "nfo" THEN [runner EXCEPT !.pc = "enqueue", !.at = "art"]
                          ELSE [runner EXCEPT !.pc = "end"]

SyncEnds == /\ runner.pc = "sync"
            /\ runner' = [runner EXCEPT !.pc = "enqueue"]
            /\ UNCHANGED <<kind, run, job, key, worker, refreshed, past, faults>>

\* The sync raises: no batch exists yet, so the run is completed as failed.
SyncFails == /\ runner.pc = "sync" /\ kind = "full"
             /\ runner' = [runner EXCEPT !.pc = "over"]
             /\ run' = [run EXCEPT !.status = "failed"]
             /\ Fault
             /\ UNCHANGED <<kind, job, key, worker, refreshed, past>>

Unwanted == /\ runner.pc = "enqueue" /\ runner.at \notin runner.wants
            /\ runner' = Passed(runner.at)
            /\ UNCHANGED <<kind, run, job, key, worker, refreshed, past, faults>>

EnqueueFails == /\ runner.pc = "enqueue" /\ runner.at \in runner.wants
                /\ runner' = Passed(runner.at)
                /\ Fault
                /\ UNCHANGED <<kind, run, job, key, worker, refreshed, past>>

\* The rows are committed before the phase is opened.
EnqueueBatches == /\ runner.pc = "enqueue" /\ runner.at \in runner.wants
                  /\ job' = SetRows(Rows(runner.at), "pending")
                  /\ runner' = [runner EXCEPT !.pc = "begin"]
                  /\ past' = past \ {<<"late", "run">>}
                  /\ UNCHANGED <<kind, run, key, worker, refreshed, faults>>

\* begin_nfo_backfill_phase, begin_art_backfill_phase
BeginPhase == LET b == runner.at IN
              /\ runner.pc = "begin"
              /\ runner' = [Passed(b) EXCEPT !.queued = @ \union {b}]
              /\ run' = [run EXCEPT !.status = "working",
                                    !.begun = @ \/ b = "art",
                                    !.done = IF b = "art" THEN 0 ELSE @,
                                    !.closed = IF b = "art" THEN FALSE ELSE @]
              /\ past' = IF Open(Linked) = {} THEN past \union {<<"late", "run">>} ELSE past
              /\ UNCHANGED <<kind, job, key, worker, refreshed, faults>>

\* The phase cannot be opened.  A full sync takes the batches for not enqueued;
\* a placeholder refresh ends there and fails.
BeginFails == /\ runner.pc = "begin"
              /\ IF kind = "full"
                   THEN runner' = Passed(runner.at) /\ UNCHANGED run
                   ELSE /\ runner' = [runner EXCEPT !.pc = "over"]
                        /\ run' = [run EXCEPT !.status = "failed"]
              /\ past' = past \union {<<"unopened", "run">>}
              /\ Fault
              /\ UNCHANGED <<kind, job, key, worker, refreshed>>

\* refresh_full_sync_task_progress reads the whole summary and writes it back.
ReadSummary == /\ runner.pc = "end" /\ kind = "full" /\ runner.queued # {}
               /\ runner' = [runner EXCEPT !.pc = "save", !.seen = <<run.done, run.closed>>]
               /\ UNCHANGED <<kind, run, job, key, worker, refreshed, past, faults>>

SaveSummary == /\ runner.pc = "save"
               /\ runner' = [runner EXCEPT !.pc = "over", !.seen = <<0, FALSE>>]
               /\ run' = [run EXCEPT !.done = runner.seen[1], !.closed = runner.seen[2]]
               /\ UNCHANGED <<kind, job, key, worker, refreshed, past, faults>>

\* Nothing was enqueued, as far as the full sync knows.
NoFollowUps == /\ runner.pc = "end" /\ kind = "full" /\ runner.queued = {}
               /\ runner' = [runner EXCEPT !.pc = "over"]
               /\ run' = IF Open(Linked) = {} THEN [run EXCEPT !.status = "done"] ELSE run
               /\ UNCHANGED <<kind, job, key, worker, refreshed, past, faults>>

\* _finalize_placeholder_refresh_enqueue: the run fails only if nothing was enqueued.
FinalizeEnqueue == /\ runner.pc = "end" /\ kind = "placeholder"
                   /\ runner' = [runner EXCEPT !.pc = "over"]
                   /\ run' = IF runner.queued = {} THEN [run EXCEPT !.status = "failed"] ELSE run
                   /\ UNCHANGED <<kind, job, key, worker, refreshed, past, faults>>

Runner == \/ SyncEnds \/ SyncFails \/ Unwanted \/ EnqueueFails \/ EnqueueBatches \/ BeginPhase
          \/ BeginFails \/ ReadSummary \/ SaveSummary \/ NoFollowUps \/ FinalizeEnqueue

-----------------------------------------------------------------------------
(* A worker and the handlers of the batches *)

Holds(t) == job[worker[t].job].claim = t
Others(t) == Linked \ {worker[t].job}

\* The handler has inserted the row's key and not committed it.
HasKey(t) == worker[t].pc \in {"count", "counted", "scan", "ok"} \/ worker[t].then = "scan"

Claim(t, j) == /\ worker[t].pc = "idle" /\ job[j].status = "pending"
               /\ job' = [job EXCEPT ![j] = [status |-> "claimed", claim |-> t]]
               /\ worker' = [worker EXCEPT ![t].pc = "claimed", ![t].job = j]
               /\ UNCHANGED <<kind, runner, run, key, refreshed, past, faults>>

\* An earlier run of the row has left its key behind.
Skip(t) == LET j == worker[t].job IN
           /\ worker[t].pc = "claimed" /\ j \in key
           /\ worker' = [worker EXCEPT ![t].pc = "ok"]
           /\ past' = past \union {<<"skipped", BatchOf(j)>>}
           /\ UNCHANGED <<kind, runner, run, job, key, refreshed, faults>>

\* The nfo_refresh handler looks for the last batch, unless the art batches of
\* a placeholder refresh will do so.
Scans(j) == j \in Art \/ kind = "full" \/ "art" \notin runner.wants

\* No unique index makes it wait.
WorkAtOnce(t) == LET j == worker[t].job IN
                 /\ worker[t].pc = "claimed" /\ j \notin key
                 /\ worker' = [worker EXCEPT ![t].pc = CASE j \in Art -> "count"
                                                         [] j \in Nfo /\ Scans(j) -> "scan"
                                                         [] OTHER -> "ok"]
                 /\ UNCHANGED <<kind, runner, run, job, key, refreshed, past, faults>>

\* The key is inserted, once no other run of the row holds it, and the files are
\* written.
Work(t) == LET j == worker[t].job IN
           /\ worker[t].pc = "claimed" /\ j \notin key
           /\ \A u \in Thread : HasKey(u) => worker[u].job # j
           /\ worker' = [worker EXCEPT ![t].pc = CASE j \in Art -> "count"
                                                   [] j \in Nfo /\ Scans(j) -> "scan"
                                                   [] OTHER -> "ok"]
           /\ UNCHANGED <<kind, runner, run, job, key, refreshed, past, faults>>

\* accumulate_art_backfill_counts: reads the summary, ...
ReadCount(t) == /\ worker[t].pc = "count"
                /\ worker' = [worker EXCEPT ![t].pc = IF run.begun THEN "counted" ELSE "scan",
                                            ![t].seen = IF run.begun THEN run.done ELSE 0]
                /\ UNCHANGED <<kind, runner, run, job, key, refreshed, past, faults>>

AllCounted(n) == n >= Cardinality(Art)

\* ... and writes the counter back; with the last batch it closes the phase
\* (finalize_art_backfill_phase) and tries to complete the run.
SaveCount(t) ==
  LET n == worker[t].seen + 1
      last == AllCounted(n) /\ Open(Others(t)) = {}
  IN  /\ worker[t].pc = "counted"
      /\ run' = [run EXCEPT !.done = n, !.closed = last]
      /\ worker' = [worker EXCEPT ![t].pc = IF last THEN "check" ELSE "scan",
                                  ![t].then = IF last THEN "scan" ELSE "idle",
                                  ![t].seen = 0]
      /\ UNCHANGED <<kind, runner, job, key, refreshed, past, faults>>

\* A template run refreshes the sections only while its marker is there: a newer
\* sweep replaces it, and the refresh clears it.
Superseded(j) == j \in Nfo /\ {<<x, "nfo">> : x \in {"superseded", "cleared"}} \intersect past # {}

\* What the handler looks at: the other rows of its batch run.
SiblingsAndSelf(j) == Rows(BatchOf(j))
Siblings(j) == Rows(BatchOf(j)) \ {j}

\* One of them is open, or the marker is not there any more: nothing to do.
ScanNotLast(t) ==
  LET j == worker[t].job
  IN  /\ worker[t].pc = "scan" /\ (Open(Siblings(j)) # {} \/ Superseded(j))
      /\ worker' = [worker EXCEPT ![t].pc = "ok"]
      /\ past' = IF \E u \in Thread \ {t} : worker[u].job \in Siblings(j) /\ worker[u].pc = "ok"
                   THEN past \union {<<"crossed", BatchOf(j)>>} ELSE past
      /\ UNCHANGED <<kind, runner, run, job, key, refreshed, faults>>

\* The last batch: the handler's session, and the key with it, is committed and
\* closed before the requests to the media servers.  If the commit fails the key
\* is rolled back, and the handler goes on without it.  What it reads of the
\* job's row from here on raises: the row is expired by the commit or the
\* rollback and belongs to no session any more.  The art handler reads it (to
\* close its phase) before it asks for the refresh, the NFO handler after it.
ScanLast(t) ==
  LET j == worker[t].job
  IN  /\ worker[t].pc = "scan" /\ Open(Siblings(j)) = {} /\ ~Superseded(j)
      /\ \/ key' = key \union {j} /\ UNCHANGED <<past, faults>>
         \/ past' = past \union {<<"unkeyed", BatchOf(j)>>} /\ Fault /\ UNCHANGED key
      /\ worker' = [worker EXCEPT ![t].pc = IF j \in Nfo THEN "refresh" ELSE "err"]
      /\ UNCHANGED <<kind, runner, run, job, refreshed>>

\* refresh_all_sections, whatever the media servers answer.  The marker of a
\* template run is then cleared, or stays if that fails.
Refresh(t) ==
  /\ worker[t].pc = "refresh"
  /\ refreshed' = [refreshed EXCEPT ![BatchOf(worker[t].job)] = @ + 1]
  /\ worker' = [worker EXCEPT ![t].pc = "err"]
  /\ \/ /\ past' = IF kind = "full" THEN past \union {<<"cleared", BatchOf(worker[t].job)>>} ELSE past
        /\ UNCHANGED faults
     \/ kind = "full" /\ Fault /\ UNCHANGED past
  /\ UNCHANGED <<kind, runner, run, job, key>>

\* The batches that a completion looks at: from within a handler its own is
\* left out.
Looked(a) == IF worker[a].then = "idle" THEN Linked ELSE Others(a)
Drained(a) == Open(Looked(a)) = {} /\ (kind = "full" \/ run.status = "working")
Failed(a) == kind = "placeholder" /\ \E j \in Looked(a) : job[j].status = "failed"

\* try_complete_full_sync_task_run, try_complete_placeholder_refresh_task_run
Check(a) ==
  LET w == worker[a]
      go == Drained(a)
  IN  /\ w.pc = "check"
      /\ worker' = [worker EXCEPT ![a] =
           [w EXCEPT !.pc = IF go THEN "complete" ELSE w.then,
                     !.then = IF go THEN @ ELSE "idle",
                     !.job = IF ~go /\ w.then = "idle" THEN Nobody ELSE @,
                     !.bad = go /\ (@ \/ Failed(a))]]
      /\ UNCHANGED <<kind, runner, run, job, key, refreshed, past, faults>>

\* finish_task_run, whatever the status is by now.
Complete(a) ==
  LET w == worker[a] IN
  /\ w.pc = "complete"
  /\ run' = [run EXCEPT !.status = IF w.bad THEN "failed" ELSE "done"]
  /\ worker' = [worker EXCEPT ![a] = IF w.then = "idle" THEN Idle
                                     ELSE [w EXCEPT !.pc = w.then, !.then = "idle", !.bad = FALSE]]
  /\ past' = IF Drained(a) THEN past ELSE past \union {<<"outdated", "run">>}
  /\ UNCHANGED <<kind, runner, job, key, refreshed, faults>>

\* The handler raises before it has committed, or the worker's commit fails.
Raise(t) == /\ worker[t].pc \in {"claimed", "scan", "ok"}
            /\ worker' = [worker EXCEPT ![t].pc = "err"]
            /\ Fault
            /\ UNCHANGED <<kind, runner, run, job, key, refreshed, past>>

\* Nobody looks at the task run after the last batch.
FinishOnly(t) ==
  LET w == worker[t] IN
  /\ w.pc \in {"ok", "err"}
  /\ key' = IF w.pc = "ok" THEN key \union {w.job} ELSE key
  /\ IF Holds(t)
       THEN \E s \in IF w.pc = "ok" THEN {"done"} ELSE {"pending", "failed"} :
              job' = SetRows({w.job}, s)
       ELSE UNCHANGED job
  /\ worker' = [worker EXCEPT ![t] = Idle]
  /\ UNCHANGED <<kind, runner, run, refreshed, past, faults>>

\* The worker commits the handler's session and finishes the row if the claim
\* still is its own; after that it tries to complete the run.
Finish(t) ==
  LET w == worker[t] IN
  /\ w.pc \in {"ok", "err"}
  /\ key' = IF w.pc = "ok" THEN key \union {w.job} ELSE key
  /\ IF Holds(t)
       THEN /\ \E s \in IF w.pc = "ok" THEN {"done"} ELSE {"pending", "failed"} :
                 job' = SetRows({w.job}, s)
            /\ worker' = [worker EXCEPT ![t] = [Idle EXCEPT !.pc = "check", !.bad = w.pc = "err"]]
       ELSE worker' = [worker EXCEPT ![t] = Idle] /\ UNCHANGED job
  /\ UNCHANGED <<kind, runner, run, refreshed, past, faults>>

Step(t) == \/ \E j \in Linked : Claim(t, j)
           \/ Skip(t) \/ Work(t) \/ ReadCount(t) \/ SaveCount(t) \/ ScanNotLast(t) \/ ScanLast(t)
           \/ Refresh(t) \/ Check(t) \/ Complete(t) \/ Raise(t) \/ Finish(t)

-----------------------------------------------------------------------------
(* The rest of the program *)

\* reconcile_stuck_art_backfill_tasks, reconcile_stuck_placeholder_refresh_tasks
Poll == /\ worker[Poller].pc = "idle" /\ run.status = "working"
        /\ kind = "full" => run.begun /\ AllCounted(run.done) /\ Open(Linked) = {}
        /\ run' = IF kind = "full" THEN [run EXCEPT !.closed = TRUE] ELSE run
        /\ worker' = [worker EXCEPT ![Poller].pc = "check"]
        /\ UNCHANGED <<kind, runner, job, key, refreshed, past, faults>>

\* The reaper takes a row from a thread that may well be at work.
Reap(j) == /\ job[j].status = "claimed"
           /\ job' = SetRows({j}, "pending")
           /\ Fault
           /\ UNCHANGED <<kind, runner, run, key, worker, refreshed, past>>

\* A sweep that a user asks for supersedes the waiting NFO rows of a full sync.
Supersede == /\ kind = "full" /\ \E j \in Nfo : job[j].status # "absent"
             /\ job' = SetRows({j \in Nfo : job[j].status = "pending"}, "done")
             /\ past' = past \union {<<"superseded", "nfo">>}
             /\ Fault
             /\ UNCHANGED <<kind, runner, run, key, worker, refreshed>>

\* abandon_task_run
Abandon == /\ run.status = "working"
           /\ run' = [run EXCEPT !.status = "failed"]
           /\ job' = SetRows(Open(Linked), "failed")
           /\ Fault
           /\ UNCHANGED <<kind, runner, key, worker, refreshed, past>>

\* At startup claimed rows are requeued, then working runs are abandoned.
Restart == /\ worker' = [a \in Actor |-> Idle]
           /\ runner' = [runner EXCEPT !.pc = "over"]
           /\ IF run.status = "working"
                THEN run' = [run EXCEPT !.status = "failed"] /\ job' = SetRows(Open(Linked), "failed")
                ELSE UNCHANGED run /\ job' = SetRows(Open(Linked), "pending")
           /\ past' = IF runner.pc = "begin" THEN past \union {<<"unopened", "run">>} ELSE past
           /\ Fault
           /\ UNCHANGED <<kind, key, refreshed>>

-----------------------------------------------------------------------------
Next == \/ Runner
        \/ \E t \in Thread : Step(t)
        \/ Poll \/ Check(Poller) \/ Complete(Poller)
        \/ \E j \in Linked : Reap(j)
        \/ Supersede \/ Abandon \/ Restart

Spec == Init /\ [][Next]_vars

-----------------------------------------------------------------------------
(* Properties *)

Pc == {"idle", "claimed", "count", "counted", "scan", "refresh", "check", "complete", "ok", "err"}

\* Every variable stays in its range, only a claimed row carries a claim, and a
\* thread goes on after a check only to what it has left to do.
TypeOK ==
  /\ kind \in {"full", "placeholder"}
  /\ runner \in [pc : {"sync", "enqueue", "begin", "end", "save", "over"}, at : BatchRun,
                 wants : SUBSET BatchRun, queued : SUBSET BatchRun, seen : Nat \X BOOLEAN]
  /\ run \in [status : {"working", "done", "failed"}, begun : BOOLEAN, done : Nat, closed : BOOLEAN]
  /\ job \in [Linked -> [status : {"absent", "pending", "claimed", "done", "failed"},
                         claim : Thread \union {Nobody}]]
  /\ \A j \in Linked : job[j].status = "claimed" <=> job[j].claim # Nobody
  /\ key \subseteq Linked
  /\ worker \in [Actor -> [pc : Pc, job : Linked \union {Nobody}, then : {"idle", "scan"},
                           seen : Nat, bad : BOOLEAN]]
  /\ refreshed \in [BatchRun -> Nat]
  /\ faults \in Nat

\* The runner has ended, and so have all batches and the threads that ran them.
Quiet == runner.pc = "over" /\ Open(Linked) = {} /\ \A t \in Thread : worker[t].pc = "idle"

\* The media servers are asked at most once to refresh the library sections for
\* a batch run, whichever batches finish together, are retried, are taken from
\* live threads or run again after a restart, unless a batch failed for good or
\* the last batch could not commit its key.
RefreshedOnce == \A b \in BatchRun :
  \/ refreshed[b] <= 1
  \/ \E j \in Rows(b) : job[j].status = "failed"
  \/ <<"unkeyed", b>> \in past

\* When every NFO batch is done, they have been asked, with three exceptions: two
\* batches were both between their look at the others and their end, a batch
\* was skipped for its key, or a newer sweep has taken over.
RefreshNotMissed ==
  /\ Quiet
  /\ \A j \in Nfo : job[j].status = "done" /\ Scans(j)
  /\ <<"superseded", "nfo">> \notin past
  => refreshed["nfo"] > 0 \/ {<<x, "nfo">> : x \in {"crossed", "skipped"}} \intersect past # {}

\* A task run is not left working, unless its last batch finished before its
\* phase was opened, or a sweep superseded it.
SettledWhenDrained == Quiet /\ run.status = "working" => {<<"late", "run">>, <<"superseded", "nfo">>} \intersect past # {}

\* Once the runner has ended, a run that is done has at most one open batch, the
\* one that completed it from within its handler, unless a completion acted on
\* a look that was no longer true or a phase was never opened.
DoneIsDrained == runner.pc = "over" /\ run.status = "done" =>
                   \/ Cardinality(Open(Linked)) <= 1
                   \/ {<<x, "run">> : x \in {"outdated", "unopened"}} \intersect past # {}

-----------------------------------------------------------------------------
(* What the documentation says and the code does not do *)

\* CHANGELOG.md:593: "The task row stays WORKING until art (and any NFO backfill)
\* jobs finish, then closes": no full sync is left working with nothing to do.
RunCloses == Quiet /\ kind = "full" => run.status # "working"

\* CHANGELOG.md:590: "When the last bulk batch finishes, Plex TV/movie libraries
\* refresh with forced metadata": once all art batches are done and nothing went
\* wrong, the sections have been refreshed.
ArtIsRefreshed ==
  /\ Quiet /\ faults = MaxFaults
  /\ \A j \in Art : job[j].status = "done"
  /\ <<"crossed", "art">> \notin past
  => refreshed["art"] > 0
=============================================================================
