---------------------------- MODULE MediaRefresh ----------------------------
(***************************************************************************)
(* media_refresh jobs: an enqueue merges its path into the newest PENDING  *)
(* row of its group, reading that row without a lock and committing later; *)
(* a run takes a key that is never given back and then asks the media      *)
(* server to refresh the paths it read                                     *)
(* (services/source_of_truth/media_refresh_handler.py, idempotency.py).    *)
(*                                                                         *)
(* One coalescing group; a call of enqueue_media_refresh_job brings one    *)
(* path.  Of JobQueue's claim only what decides who may finish a row is    *)
(* kept, and run_after is left out.                                        *)
(***************************************************************************)
EXTENDS Naturals, FiniteSets

CONSTANTS MaxJob,    \* bound: rows
          Path,
          Thread,    \* worker threads
          Nobody,
          MaxFaults  \* bound: reaps of a running job, crashes, errors, refusals

Job == 1..MaxJob

ASSUME RefreshAssumption == MaxJob \in Nat /\ MaxFaults \in Nat /\ Nobody \notin Thread \union Job

VARIABLES row,        \* [Job -> [status, paths, claim]]
          key,        \* rows with a processed_job_key
          call,       \* [Path -> [pc, job, paths]], the enqueues
          run,        \* [Thread -> [pc, job, paths]], the handlers
          fired,      \* [Job -> refreshes sent for the row]
          refreshed,  \* paths that every media server asked has accepted
          refused,    \* <<row, path>>: asked for by the row and not accepted
          overlapped, \* rows that changed while an enqueue was merging into them
          spent,      \* rows whose key went to a run without the claim
          unkeyed,    \* rows refreshed although their key could not be taken
          faults

vars == <<row, key, call, run, fired, refreshed, refused, overlapped, spent, unkeyed, faults>>
history == <<overlapped, spent, unkeyed>>
server == <<fired, refreshed, refused>>

NoCall == [pc |-> "idle", job |-> Nobody, paths |-> {}]
Idle == [pc |-> "idle", job |-> Nobody, paths |-> {}]

Init == /\ row = [j \in Job |-> [status |-> "absent", paths |-> {}, claim |-> Nobody]]
        /\ key = {}
        /\ call = [p \in Path |-> NoCall]
        /\ run = [t \in Thread |-> Idle]
        /\ fired = [j \in Job |-> 0]
        /\ refreshed = {} /\ refused = {}
        /\ overlapped = {} /\ spent = {} /\ unkeyed = {}
        /\ faults = MaxFaults

Fault == faults > 0 /\ faults' = faults - 1
With(s) == {j \in Job : row[j].status = s}

-----------------------------------------------------------------------------
(* enqueue_media_refresh_job *)

\* The SELECT, which takes no lock, of the newest waiting row.
Read(p) ==
  /\ call[p].pc = "idle"
  /\ \/ /\ With("pending") = {}
        /\ call' = [call EXCEPT ![p] = [pc |-> "merging", job |-> Nobody, paths |-> {}]]
     \/ \E j \in With("pending") :
          /\ \A k \in With("pending") : k <= j
          /\ call' = [call EXCEPT ![p] = [pc |-> "merging", job |-> j, paths |-> row[j].paths]]
  /\ UNCHANGED <<row, key, run, server, history, faults>>

Insert(p, j) == /\ row[j].status = "absent"
                /\ \A k \in With("absent") : j <= k
                /\ row' = [row EXCEPT ![j] = [status |-> "pending", paths |-> {p}, claim |-> Nobody]]
                /\ UNCHANGED overlapped

\* The merged payload goes over whatever the row has now.
Overwrite(p, j) ==
  /\ row' = [row EXCEPT ![j].paths = call[p].paths \union {p}]
  /\ overlapped' = IF row[j].status = "pending" /\ row[j].paths = call[p].paths
                     THEN overlapped ELSE overlapped \union {j}

\* The commit.
Commit(p) ==
  /\ call[p].pc = "merging"
  /\ call' = [call EXCEPT ![p] = [pc |-> "asked", job |-> Nobody, paths |-> {}]]
  /\ \/ call[p].job = Nobody /\ \E j \in Job : Insert(p, j)
     \/ call[p].job # Nobody /\ Overwrite(p, call[p].job)
  /\ UNCHANGED <<key, run, server, spent, unkeyed, faults>>

-----------------------------------------------------------------------------
(* The worker and process_media_refresh_job *)

Claim(t, j) == /\ run[t].pc = "idle" /\ row[j].status = "pending"
               /\ row' = [row EXCEPT ![j].status = "claimed", ![j].claim = t]
               /\ run' = [run EXCEPT ![t] = [pc |-> "claimed", job |-> j, paths |-> {}]]
               /\ UNCHANGED <<key, call, server, history, faults>>

Holds(t) == row[run[t].job].claim = t

\* The payload is read once, if the claim is still good.
Reload(t) == /\ run[t].pc = "claimed"
             /\ run' = [run EXCEPT ![t] = IF Holds(t)
                          THEN [pc |-> "loaded", job |-> run[t].job, paths |-> row[run[t].job].paths]
                          ELSE Idle]
             /\ UNCHANGED <<row, key, call, server, history, faults>>

TakeKeyLate(t) ==   \* the key is looked up, and written with the refresh
  /\ run[t].pc = "loaded" /\ run[t].job \notin key
  /\ run' = [run EXCEPT ![t].pc = "firing"]
  /\ UNCHANGED <<row, key, call, server, history, faults>>

\* try_claim_processed_key and its commit, before anything is sent.
TakeKey(t) == /\ run[t].pc = "loaded" /\ run[t].job \notin key
              /\ key' = key \union {run[t].job}
              /\ run' = [run EXCEPT ![t].pc = "firing"]
              /\ spent' = IF Holds(t) THEN spent ELSE spent \union {run[t].job}
              /\ UNCHANGED <<row, call, server, overlapped, unkeyed, faults>>

\* Somebody has the key: skipped, as a success.
Skip(t) == /\ run[t].pc = "loaded" /\ run[t].job \in key
           /\ run' = [run EXCEPT ![t].pc = "ok"]
           /\ UNCHANGED <<row, key, call, server, history, faults>>

\* The INSERT or its commit fails, and the handler goes on without a key.
KeyError(t) == /\ run[t].pc = "loaded"
               /\ run' = [run EXCEPT ![t].pc = "firing"]
               /\ unkeyed' = unkeyed \union {run[t].job}
               /\ Fault
               /\ UNCHANGED <<row, key, call, server, overlapped, spent>>

\* The requests for the paths are sent.  One that fails, or is held back while a
\* sync suppresses refreshes, is counted and nothing else: the handler returns
\* {"ok": True}.
Fire(t) == LET j == run[t].job IN
           /\ run[t].pc = "firing"
           /\ fired' = [fired EXCEPT ![j] = @ + 1]
           /\ \E denied \in SUBSET run[t].paths :
                /\ refreshed' = refreshed \union (run[t].paths \ denied)
                /\ refused' = refused \union ({j} \X denied)
                /\ IF denied = {} THEN UNCHANGED faults ELSE Fault
           /\ run' = [run EXCEPT ![t].pc = "ok"]
           /\ UNCHANGED <<row, key, call, history>>

\* {"ok": False}: the worker raises, and the job is retried or FAILED.
FireFails(t) == /\ run[t].pc = "firing"
                /\ run' = [run EXCEPT ![t].pc = "err"]
                /\ Fault
                /\ UNCHANGED <<row, key, call, server, history>>

FinishByStatus(t) ==   \* UPDATE ... WHERE status, whosever claim it is
  /\ run[t].pc \in {"ok", "err"}
  /\ row' = IF row[run[t].job].status = "claimed"
              THEN [row EXCEPT ![run[t].job].status = "done", ![run[t].job].claim = Nobody]
              ELSE row
  /\ run' = [run EXCEPT ![t] = Idle]
  /\ UNCHANGED <<key, call, server, history, faults>>

\* The worker's conditional finish.
Finish(t) ==
  LET j == run[t].job IN
  /\ run[t].pc \in {"ok", "err"}
  /\ run' = [run EXCEPT ![t] = Idle]
  /\ IF Holds(t)
       THEN \E s \in IF run[t].pc = "ok" THEN {"done"} ELSE {"pending", "failed"} :
               /\ row' = [row EXCEPT ![j].status = s, ![j].claim = Nobody]
               /\ spent' = IF s = "pending" THEN spent \union ({j} \intersect key) ELSE spent
       ELSE UNCHANGED <<row, spent>>
  /\ UNCHANGED <<key, call, server, overlapped, unkeyed, faults>>

Requeue(S) == /\ row' = [j \in Job |-> IF j \in S THEN [row[j] EXCEPT !.status = "pending",
                                                                       !.claim = Nobody]
                                       ELSE row[j]]
              /\ spent' = spent \union (S \intersect key)

\* A run that takes longer than the reaper waits.
Reap(j) == /\ row[j].status = "claimed"
           /\ Requeue({j})
           /\ Fault
           /\ UNCHANGED <<key, call, run, server, overlapped, unkeyed>>

\* Runs and uncommitted enqueues are gone; claims are put back.
Restart == /\ Requeue(With("claimed"))
           /\ run' = [t \in Thread |-> Idle]
           /\ call' = [p \in Path |-> IF call[p].pc = "merging" THEN NoCall ELSE call[p]]
           /\ Fault
           /\ UNCHANGED <<key, server, overlapped, unkeyed>>

-----------------------------------------------------------------------------
Step(t) == \/ \E j \in Job : Claim(t, j)
           \/ Reload(t) \/ TakeKey(t) \/ Skip(t) \/ KeyError(t)
           \/ Fire(t) \/ FireFails(t) \/ Finish(t)

Next == \/ \E p \in Path : Read(p) \/ Commit(p)
        \/ \E t \in Thread : Step(t)
        \/ \E j \in Job : Reap(j)
        \/ Restart

Spec == Init /\ [][Next]_vars

-----------------------------------------------------------------------------
(* Properties *)

Rows == [status : {"absent", "pending", "claimed", "done", "failed"},
         paths : SUBSET Path, claim : Thread \union {Nobody}]
Calls == [pc : {"idle", "merging", "asked"}, job : Job \union {Nobody}, paths : SUBSET Path]
Runs == [pc : {"idle", "claimed", "loaded", "firing", "ok", "err"},
         job : Job \union {Nobody}, paths : SUBSET Path]

\* Every variable stays in its range; only a claimed row carries a claim, and a
\* busy thread has a row.
TypeOK == /\ row \in [Job -> Rows]
          /\ \A j \in Job : row[j].status = "claimed" <=> row[j].claim # Nobody
          /\ key \subseteq Job
          /\ call \in [Path -> Calls]
          /\ run \in [Thread -> Runs]
          /\ \A t \in Thread : run[t].pc # "idle" => run[t].job \in Job
          /\ fired \in [Job -> Nat]
          /\ refreshed \subseteq Path /\ refused \subseteq Job \X Path
          /\ overlapped \subseteq Job /\ spent \subseteq Job /\ unkeyed \subseteq Job
          /\ faults \in Nat

\* However often a row is reaped, retried or claimed again after a restart, its
\* refresh is sent at most once, as long as the key could be written.
FiredOnce == \A j \in Job \ unkeyed : fired[j] <= 1

\* Of the row's paths, those its own request lost.
Lost(j) == {p \in row[j].paths : <<j, p>> \in refused}

\* Every path of a row that is DONE was asked for and accepted, or asked for by
\* this row and refused, with two exceptions: an enqueue overlapped with another
\* or with a claim, or the key went to a run that lost the claim, so that the run
\* with the claim skipped the refresh.
DoneIsRefreshed ==
  \A j \in With("done") \ (overlapped \union spent) : row[j].paths \subseteq refreshed \union Lost(j)

\* A row that is not spent has a key only while the run with its claim is past
\* the key, or once it is finished.
KeyIsClaimants ==
  \A j \in key \ spent :
     \/ row[j].status \in {"done", "failed"}
     \/ \E t \in Thread : /\ row[j].claim = t /\ run[t].job = j
                           /\ run[t].pc \in {"firing", "ok", "err"}

\* The run with the claim has the row's paths, unless an enqueue overlapped.
ClaimantHasPaths ==
  \A t \in Thread : \A j \in Job \ (overlapped \union spent) :
     row[j].claim = t /\ run[t].job = j =>
       /\ run[t].pc \in {"loaded", "firing"} => run[t].paths = row[j].paths
       /\ run[t].pc = "ok" => row[j].paths \subseteq refreshed \union Lost(j)

\* Without a key nothing is fired; with one, a single run is about to fire.
KeyIsSpentOnce ==
  \A j \in Job \ unkeyed :
     /\ j \notin key => fired[j] = 0 /\ \A t \in Thread : run[t].pc = "firing" => run[t].job # j
     /\ \A t \in Thread : run[t].pc = "firing" /\ run[t].job = j =>
          /\ fired[j] = 0
          /\ \A u \in Thread : run[u].pc = "firing" /\ run[u].job = j => u = t
     /\ fired[j] <= 1

\* The inductive invariant behind the results above.
IInv == /\ TypeOK /\ DoneIsRefreshed /\ KeyIsClaimants /\ ClaimantHasPaths /\ KeyIsSpentOnce

-----------------------------------------------------------------------------
(* What comments of the code say and the code does not do *)

\* media_refresh_handler.py:7: "Refreshes survive app restarts".
RefreshSurvives == \A j \in With("done") : fired[j] > 0

\* media_refresh_handler.py:106-107: an existing PENDING job "has paths merged and
\* run_after pushed later so one refresh covers the combined path set".
OneRefreshCoversAll ==
  \A p \in Path : call[p].pc = "asked" =>
     p \in refreshed \/ \E j \in Job : /\ p \in row[j].paths
                                       /\ row[j].status \in {"pending", "claimed"}
=============================================================================
