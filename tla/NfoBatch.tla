------------------------------ MODULE NfoBatch ------------------------------
(***************************************************************************)
(* nfo_refresh jobs: a request merges placeholder ids into rows that wait, *)
(* under row locks and up to a batch size, and a run rewrites the sidecar  *)
(* files of its row's ids under a key that commits with its transaction    *)
(* (services/source_of_truth/placeholder_job_enqueue.py, idempotency.py,   *)
(* status_reconciler.py process_nfo_refresh_job).                          *)
(*                                                                         *)
(* The sidecar of a placeholder is current if the run that wrote it last   *)
(* read the placeholder after the last request for it.                     *)
(***************************************************************************)
EXTENDS Naturals, FiniteSets

CONSTANTS MaxJob,    \* bound: rows
          Id,        \* placeholders
          Batch,     \* STATUS_JOB_BATCH_SIZE
          Thread,    \* worker threads
          Nobody,
          MaxFaults  \* bound: reaps of a running job, restarts,
             \* cancellations, errors

Job == 1..MaxJob

VARIABLES row,      \* [Job -> [status, ids, claim]]
          key,      \* rows with a committed processed_job_key
          run,      \* [Thread -> [pc, job, ids, old]], the handlers
          wrote,    \* [Job -> ids that committed runs of the row have written]
          current,  \* placeholders whose sidecar is current
          crossed,  \* placeholders last written from an outdated read
          lost,     \* placeholders that a run skipped unwritten
          faults

vars == <<row, key, run, wrote, current, crossed, lost, faults>>
files == <<wrote, current, crossed, lost>>

Idle == [pc |-> "idle", job |-> Nobody, ids |-> {}, old |-> {}]

Init == /\ row = [j \in Job |-> [status |-> "absent", ids |-> {}, claim |-> Nobody]]
        /\ key = {}
        /\ run = [t \in Thread |-> Idle]
        /\ wrote = [j \in Job |-> {}]
        /\ current = Id
        /\ crossed = {} /\ lost = {}
        /\ faults = MaxFaults

Fault == faults > 0 /\ faults' = faults - 1
With(s) == {j \in Job : row[j].status = s}

-----------------------------------------------------------------------------
(* enqueue_batched_placeholder_job *)

\* Rows that are full are passed by.
Open(s) == {j \in With(s) : Cardinality(row[j].ids) < Batch}

\* The rows L are filled in order: f[j] is what row j takes of the ids that no
\* earlier row has taken, as many as fit.  An id the row already has is neither
\* added nor taken.
Fills(f, S, L) ==
  \A j \in L :
    LET left == (S \ UNION {f[k] : k \in {l \in L : l < j}}) \ row[j].ids
        room == Batch - Cardinality(row[j].ids)
    IN  f[j] \subseteq left /\ (f[j] = left \/ Cardinality(f[j]) = room) /\ Cardinality(f[j]) <= room

\* The rest R goes to as few new rows as it needs; ids of rows are handed out in
\* order.
NewRows(R) == {N \in SUBSET With("absent") :
                 /\ Cardinality(N) = (Cardinality(R) + Batch - 1) \div Batch
                 /\ \A j \in N, k \in With("absent") \ N : j < k}

\* Of these only the last may not be full.
Chunks(g, R, N) ==
  /\ UNION {g[j] : j \in N} = R
  /\ \A j \in N : Cardinality(g[j]) \in 1..Batch /\ \A k \in N \ {j} : g[j] \intersect g[k] = {}
  /\ \A j, k \in N : j < k => Cardinality(g[j]) = Batch

Filled(f, g) == [j \in Job |->
  CASE j \in DOMAIN f -> [row[j] EXCEPT !.ids = @ \union f[j]]
    [] j \in DOMAIN g -> [status |-> "pending", ids |-> g[j], claim |-> Nobody]
    [] OTHER -> row[j]]

\* Runs that have read a placeholder and not written it yet have read it too early.
Requested(S) == /\ current' = current \ S
                /\ run' = [t \in Thread |-> IF run[t].pc = "writing"
                                              THEN [run[t] EXCEPT !.old = @ \union (S \intersect run[t].ids)]
                                              ELSE run[t]]
                /\ lost' = lost \ S
                /\ UNCHANGED <<key, wrote, crossed, faults>>

\* The rows L take what they can of S, and new rows the rest.
Merge(S, L) ==
  \E f \in [L -> SUBSET S] :
    LET R == S \ UNION {f[j] : j \in L} IN
    /\ Fills(f, S, L)
    /\ \E N \in NewRows(R) : \E g \in [N -> SUBSET R] :
         Chunks(g, R, N) /\ row' = Filled(f, g)

RequestIntoAny(S) ==   \* claimed rows are merged into as well
  /\ \E L \in SUBSET (Open("pending") \union Open("claimed")) : Merge(S, L)
  /\ Requested(S)

\* One transaction.  L is what it can lock: SKIP LOCKED leaves out the rows that
\* another request or a claim has locked.
Request(S) == /\ \E L \in SUBSET Open("pending") : Merge(S, L)
              /\ Requested(S)

\* The rows L are given the status s by somebody, and no claim on them is left.
SetRows(L, s) == [j \in Job |-> IF j \in L THEN [row[j] EXCEPT !.status = s, !.claim = Nobody] ELSE row[j]]

\* enqueue_template_backfill: waiting rows of earlier sweeps are superseded,
\* with whatever ids others have merged into them, and every placeholder is
\* requested in new rows, in the same transaction.
Sweep ==
  /\ \E L \in SUBSET With("pending"), N \in NewRows(Id) : \E g \in [N -> SUBSET Id] :
       Chunks(g, Id, N) /\ row' = [j \in Job |-> IF j \in L THEN [row[j] EXCEPT !.status = "done"]
                                             ELSE Filled(<<>>, g)[j]]
  /\ Requested(Id)

\* Abandoning a task run fails its rows: waiting, running, or finished since the
\* cancellation read them.
Cancel(S) == /\ S # {} /\ S \subseteq Job \ With("absent")
             /\ row' = SetRows(S, "failed")
             /\ Fault
             /\ UNCHANGED <<key, run, files>>

-----------------------------------------------------------------------------
(* The worker and process_nfo_refresh_job *)

Claim(t, j) == /\ run[t].pc = "idle" /\ row[j].status = "pending"
               /\ row' = [row EXCEPT ![j].status = "claimed", ![j].claim = t]
               /\ run' = [run EXCEPT ![t] = [pc |-> "claimed", job |-> j, ids |-> {}, old |-> {}]]
               /\ UNCHANGED <<key, files, faults>>

Holds(t) == row[run[t].job].claim = t

\* The handler is left, with its outcome.
Return(t, pc) == run' = [run EXCEPT ![t] = [pc |-> pc, job |-> run[t].job, ids |-> {}, old |-> {}]]

Reload(t) == /\ run[t].pc = "claimed"
             /\ run' = [run EXCEPT ![t] = IF Holds(t)
                          THEN [@ EXCEPT !.pc = "loaded", !.ids = row[run[t].job].ids]
                          ELSE Idle]
             /\ UNCHANGED <<row, key, files, faults>>

HasKey(t) == run[t].pc \in {"writing", "written"}   \* inserted, not committed

TakeKeyAtOnce(t) ==   \* the unique index does not make it wait
  /\ run[t].pc = "loaded" /\ run[t].job \notin key
  /\ run' = [run EXCEPT ![t].pc = "writing"]
  /\ UNCHANGED <<row, key, files, faults>>

\* The INSERT, which waits for another transaction with the same key; then the
\* placeholders are read.
TakeKey(t) == /\ run[t].pc = "loaded" /\ run[t].job \notin key
              /\ \A u \in Thread \ {t} : HasKey(u) => run[u].job # run[t].job
              /\ run' = [run EXCEPT ![t].pc = "writing"]
              /\ UNCHANGED <<row, key, files, faults>>

Skip(t) == /\ run[t].pc = "loaded" /\ run[t].job \in key
           /\ Return(t, "ok")
           /\ lost' = IF Holds(t) THEN lost \union (run[t].ids \ wrote[run[t].job]) ELSE lost
           /\ UNCHANGED <<row, key, wrote, current, crossed, faults>>

Write(t) == /\ run[t].pc = "writing"
            /\ run' = [run EXCEPT ![t].pc = "written", ![t].old = {}]
            /\ current' = (current \union run[t].ids) \ run[t].old
            /\ crossed' = (crossed \ run[t].ids) \union run[t].old
            /\ lost' = lost \ run[t].ids
            /\ UNCHANGED <<row, key, wrote, faults>>

\* The worker commits the handler's session, and the key with it.
Commit(t) == LET j == run[t].job IN
             /\ run[t].pc = "written"
             /\ Return(t, "ok")
             /\ key' = key \union {j}
             /\ wrote' = [wrote EXCEPT ![j] = @ \union run[t].ids]
             /\ UNCHANGED <<row, current, crossed, lost, faults>>

\* An error rolls the key back.  A failed INSERT counts as taken, but leaves
\* the transaction aborted, so that the next statement raises.
Raise(t) == /\ run[t].pc \in {"loaded", "writing", "written"}
            /\ Return(t, "err")
            /\ Fault
            /\ UNCHANGED <<row, key, files>>

Finish(t) ==
  LET j == run[t].job IN
  /\ run[t].pc \in {"ok", "err"}
  /\ run' = [run EXCEPT ![t] = Idle]
  /\ IF Holds(t)
       THEN \E s \in IF run[t].pc = "ok" THEN {"done"} ELSE {"pending", "failed"} :
               row' = SetRows({j}, s)
       ELSE UNCHANGED row
  /\ UNCHANGED <<key, files, faults>>

Reap(j) == /\ row[j].status = "claimed"
           /\ row' = SetRows({j}, "pending")
           /\ Fault
           /\ UNCHANGED <<key, run, files>>

Restart == /\ row' = SetRows(With("claimed"), "pending")
           /\ run' = [t \in Thread |-> Idle]
           /\ Fault
           /\ UNCHANGED <<key, files>>

-----------------------------------------------------------------------------
Step(t) == \/ \E j \in Job : Claim(t, j)
           \/ Reload(t) \/ TakeKey(t) \/ Skip(t) \/ Write(t) \/ Commit(t) \/ Raise(t) \/ Finish(t)

Next == \/ \E S \in (SUBSET Id) \ {{}} : Request(S)
        \/ Sweep
        \/ \E L \in SUBSET Job : Cancel(L)
        \/ \E t \in Thread : Step(t)
        \/ \E j \in Job : Reap(j)
        \/ Restart

Spec == Init /\ [][Next]_vars

-----------------------------------------------------------------------------
(* Properties *)

Pc == {"idle", "claimed", "loaded", "writing", "written", "ok", "err"}

\* Every variable stays in its range; no row has more ids than a batch, and only
\* a claimed row carries a claim.
TypeOK == /\ row \in [Job -> [status : {"absent", "pending", "claimed", "done", "failed"},
                              ids : SUBSET Id, claim : Thread \union {Nobody}]]
          /\ \A j \in Job : /\ row[j].status = "claimed" <=> row[j].claim # Nobody
                            /\ Cardinality(row[j].ids) <= Batch
          /\ key \subseteq Job
          /\ run \in [Thread -> [pc : Pc, job : Job \union {Nobody}, ids : SUBSET Id, old : SUBSET Id]]
          /\ wrote \in [Job -> SUBSET Id]
          /\ current \subseteq Id /\ crossed \subseteq Id /\ lost \subseteq Id
          /\ faults \in Nat

\* Two runs of the same row never write at the same time, although the reaper
\* may have given the row to a second one.
OneWriter == \A t, u \in Thread : HasKey(t) /\ HasKey(u) /\ run[t].job = run[u].job => t = u

\* Row j will be written with a fresh read of i, or has failed.
Due(i, j) ==
  /\ i \in row[j].ids
  /\ \/ row[j].status \in {"pending", "failed"}
     \/ \E t \in Thread : /\ row[j].claim = t /\ run[t].job = j
                          /\ \/ run[t].pc \in {"claimed", "loaded", "err"}
                             \/ run[t].pc = "writing" /\ i \notin run[t].old

\* A request is never lost between merges, locks, claims, sweeps, retries and
\* restarts: a sidecar that is not current is due, with two exceptions: it was
\* overwritten from an outdated read, or a run skipped it for a key that an
\* earlier run of the row had left behind.
CurrentOrDue == \A i \in Id \ (current \union crossed \union lost) : \E j \in Job : Due(i, j)

-----------------------------------------------------------------------------
(* What comments of the code say and the code does not do *)

\* status_reconciler.py:253-256: "A reaper-induced re-claim sees the key and skips,
\* avoiding duplicate disk writes": what is skipped was written before.
SkipsAreDuplicates ==
  [][\A t \in Thread : run[t].pc = "loaded" /\ run'[t].pc = "ok" =>
        run[t].ids \subseteq wrote[run[t].job]]_vars
=============================================================================
