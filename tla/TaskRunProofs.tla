----------------------------- MODULE TaskRunProofs -----------------------------
(***************************************************************************)
(* What the run checks of TaskRun for four rows and two threads, for any   *)
(* number of them and of faults: types; that the media servers are asked   *)
(* at most once to refresh the sections for a batch run of which no batch  *)
(* failed or could not commit its key; that they are asked for the NFO     *)
(* batches unless the last ones crossed; and that a run no row of which is *)
(* left to work on has been settled.                                       *)
(***************************************************************************)
EXTENDS TaskRun, TLAPS

RunnerRec == [pc : {"sync", "enqueue", "begin", "end", "save", "over"},
              at : BatchRun, wants : SUBSET BatchRun, queued : SUBSET BatchRun,
              seen : Nat \X BOOLEAN]
RunRec == [status : {"working", "done", "failed"}, begun : BOOLEAN, done : Nat,
           closed : BOOLEAN]
JobRec == [status : {"absent", "pending", "claimed", "done", "failed"},
           claim : Thread \union {Nobody}]
WorkerRec == [pc : Pc, job : Linked \union {Nobody},
              then : {"idle", "scan"}, seen : Nat,
              bad : BOOLEAN]

JobsOK ==
  /\ job \in [Linked -> JobRec]
  /\ \A j \in Linked : job[j].status = "claimed" <=> job[j].claim # Nobody

\* A thread has something left to do only while it completes, and has a row
\* while it handles one.
Shape(a, w) ==
  /\ w.then # "idle" => w.pc \in {"check", "complete"}
  /\ \/ w.pc \in {"claimed", "count", "counted", "scan", "refresh", "ok", "err"}
     \/ w.then # "idle"
     => a \in Thread /\ w.job \in Linked

WorkersOK ==
  /\ worker \in [Actor -> WorkerRec]
  /\ \A a \in Actor : Shape(a, worker[a])

RestOK ==
  /\ kind \in {"full", "placeholder"}
  /\ runner \in RunnerRec /\ run \in RunRec
  /\ key \subseteq Linked
  /\ refreshed \in [BatchRun -> Nat]
  /\ faults \in Nat

Typed == JobsOK /\ WorkersOK /\ RestOK

LEMMA TypedGivesTypeOK == Typed => TypeOK
BY DEF Typed, JobsOK, WorkersOK, RestOK, TypeOK, RunnerRec, RunRec, JobRec,
       WorkerRec

LEMMA SetRowsType ==
  ASSUME JobsOK, NEW S, NEW s \in {"absent", "pending", "done", "failed"},
         job' = SetRows(S, s)
  PROVE  JobsOK'
BY RunAssumption DEF JobsOK, SetRows, JobRec

LEMMA IdleWorker == Idle \in WorkerRec /\ \A a \in Actor : Shape(a, Idle)
BY DEF Idle, WorkerRec, Pc, Shape

LEMMA FaultType == ASSUME RestOK, Fault PROVE faults' \in Nat
BY DEF RestOK, Fault

\* One actor's record changes.
LEMMA OneWorker ==
  ASSUME WorkersOK, NEW a \in Actor, NEW w \in WorkerRec, Shape(a, w),
         worker' = [worker EXCEPT ![a] = w]
  PROVE  WorkersOK'
BY DEF WorkersOK

LEMMA InitTyped == Init => Typed
<1> SUFFICES ASSUME Init PROVE Typed
  OBVIOUS
<1>1. JobsOK
  BY DEF Init, JobsOK, JobRec
<1>2. WorkersOK
  BY IdleWorker DEF Init, WorkersOK
<1>3. RestOK
  <2>1. runner \in RunnerRec
    <3>1. PICK W \in SUBSET BatchRun : runner = [pc |-> "sync", at |-> "nfo",
            wants |-> W, queued |-> {}, seen |-> <<0, FALSE>>]
      BY DEF Init
    <3>2. <<0, FALSE>> \in Nat \X BOOLEAN /\ "nfo" \in BatchRun
      BY DEF BatchRun
    <3> QED
      BY <3>1, <3>2 DEF RunnerRec
  <2>2. run \in RunRec /\ refreshed \in [BatchRun -> Nat]
    BY DEF Init, RunRec
  <2> QED
    BY <2>1, <2>2, RunAssumption DEF Init, RestOK
<1> QED
  BY <1>1, <1>2, <1>3 DEF Typed

LEMMA RunnerTyped == ASSUME Typed, Runner PROVE Typed'
<1> USE DEF Typed
<1>0. \A b \in BatchRun : Passed(b) \in RunnerRec
  BY DEF Passed, RestOK, RunnerRec, BatchRun
<1>1. WorkersOK'
  BY DEF Runner, SyncEnds, SyncFails, Unwanted, EnqueueFails, EnqueueBatches,
         BeginPhase, BeginFails, ReadSummary, SaveSummary, NoFollowUps,
         FinalizeEnqueue, WorkersOK
<1>2. JobsOK'
  <2>1. CASE EnqueueBatches
    BY <2>1, SetRowsType DEF EnqueueBatches
  <2>2. CASE ~EnqueueBatches
    BY <2>2 DEF Runner, SyncEnds, SyncFails, Unwanted, EnqueueFails,
         BeginPhase, BeginFails, ReadSummary, SaveSummary, NoFollowUps,
         FinalizeEnqueue, JobsOK
  <2> QED
    BY <2>1, <2>2
<1>3. runner.at \in BatchRun /\ run.done \in Nat /\ run.closed \in BOOLEAN
  BY DEF RestOK, RunnerRec, RunRec
<1>4. UNCHANGED <<kind, key, refreshed>>
  BY DEF Runner, SyncEnds, SyncFails, Unwanted, EnqueueFails, EnqueueBatches,
         BeginPhase, BeginFails, ReadSummary, SaveSummary, NoFollowUps,
         FinalizeEnqueue
<1>5. faults' \in Nat
  BY FaultType
  DEF Runner, SyncEnds, SyncFails, Unwanted, EnqueueFails, EnqueueBatches,
      BeginPhase, BeginFails, ReadSummary, SaveSummary, NoFollowUps,
      FinalizeEnqueue, RestOK
<1>6. run' \in RunRec
  <2>1. CASE BeginPhase
    BY <2>1 DEF BeginPhase, RestOK, RunRec
  <2>2. CASE SaveSummary
    <3>1. runner.seen[1] \in Nat /\ runner.seen[2] \in BOOLEAN
      BY DEF RestOK, RunnerRec
    <3> QED
      BY <2>2, <3>1 DEF SaveSummary, RestOK, RunRec
  <2>3. CASE ~BeginPhase /\ ~SaveSummary
    <3>1. run' = run \/ \E s \in {"failed", "done"} : run' = [run EXCEPT !.status = s]
      BY <2>3 DEF Runner, SyncEnds, SyncFails, Unwanted, EnqueueFails,
         EnqueueBatches, BeginFails, ReadSummary, NoFollowUps, FinalizeEnqueue
    <3> QED
      BY <3>1 DEF RestOK, RunRec
  <2> QED
    BY <2>1, <2>2, <2>3
<1>7. runner' \in RunnerRec
  <2>1. CASE Unwanted \/ EnqueueFails \/ BeginPhase \/ BeginFails
    BY <1>0, <1>3, <2>1
    DEF Unwanted, EnqueueFails, BeginPhase, BeginFails, RestOK, RunnerRec
  <2>2. CASE SyncEnds \/ SyncFails \/ EnqueueBatches \/ NoFollowUps \/ FinalizeEnqueue
    BY <2>2
    DEF SyncEnds, SyncFails, EnqueueBatches, NoFollowUps, FinalizeEnqueue,
        RestOK, RunnerRec
  <2>3. CASE ReadSummary \/ SaveSummary
    <3>1. \E p \in {"save", "over"}, z \in {<<run.done, run.closed>>, <<0, FALSE>>} :
            runner' = [runner EXCEPT !.pc = p, !.seen = z]
      BY <2>3 DEF ReadSummary, SaveSummary
    <3>2. <<run.done, run.closed>> \in Nat \X BOOLEAN
      BY <1>3
    <3>3. <<0, FALSE>> \in Nat \X BOOLEAN
      OBVIOUS
    <3> QED
      BY <3>1, <3>2, <3>3 DEF RestOK, RunnerRec
  <2> QED
    BY <2>1, <2>2, <2>3 DEF Runner
<1> QED
  BY <1>1, <1>2, <1>4, <1>5, <1>6, <1>7 DEF RestOK

\* A thread with a row goes on to p, with n left to do after it.
LEMMA GoesOn ==
  ASSUME WorkersOK, NEW t \in Thread, worker[t].job \in Linked,
         NEW p \in Pc, NEW n \in {"idle", "scan"}, NEW k \in Nat,
         NEW b \in BOOLEAN, n # "idle" => p \in {"check", "complete"},
         worker' = [worker EXCEPT ![t] = [pc |-> p, job |-> worker[t].job, then |-> n,
                                          seen |-> k, bad |-> b]]
  PROVE  WorkersOK'
<1> DEFINE w == [pc |-> p, job |-> worker[t].job, then |-> n, seen |-> k, bad |-> b]
<1>1. w \in WorkerRec
  BY DEF WorkerRec
<1>2. Shape(t, w)
  BY DEF Shape
<1>3. t \in Actor
  BY DEF Actor
<1> QED
  BY <1>1, <1>2, <1>3, OneWorker

\* The record of an actor, written out.
LEMMA Fields ==
  ASSUME WorkersOK, NEW a \in Actor
  PROVE  /\ worker[a] = [pc |-> worker[a].pc, job |-> worker[a].job, then |-> worker[a].then,
                         seen |-> worker[a].seen, bad |-> worker[a].bad]
         /\ worker[a].pc \in Pc /\ worker[a].then \in {"idle", "scan"}
         /\ worker[a].seen \in Nat /\ worker[a].bad \in BOOLEAN
         /\ worker[a].job \in Linked \union {Nobody}
BY DEF WorkersOK, WorkerRec

LEMMA TwoFields ==
  ASSUME NEW r \in WorkerRec, NEW p \in Pc, NEW k \in Nat
  PROVE  [r EXCEPT !.pc = p, !.seen = k] =
           [pc |-> p, job |-> r.job, then |-> r.then, seen |-> k, bad |-> r.bad]
<1> DEFINE x == [r EXCEPT !.pc = p, !.seen = k]
<1>1. x \in WorkerRec
  BY DEF WorkerRec
<1>2. x.pc = p /\ x.job = r.job /\ x.then = r.then /\ x.seen = k /\ x.bad = r.bad
  BY DEF WorkerRec
<1> HIDE DEF x
<1>3. x = [pc |-> x.pc, job |-> x.job, then |-> x.then, seen |-> x.seen, bad |-> x.bad]
  BY <1>1 DEF WorkerRec
<1> QED
  BY <1>2, <1>3 DEF x

LEMMA CompletionTyped ==
  ASSUME Typed, NEW a \in Actor, Check(a) \/ Complete(a) PROVE Typed'
<1> USE DEF Typed
<1> DEFINE w == worker[a]
<1>0. w \in WorkerRec /\ Shape(a, w)
  BY DEF WorkersOK
<1>1. WorkersOK'
  <2>1. CASE Check(a)
    <3> DEFINE go == Drained(a)
               v == [w EXCEPT !.pc = IF go THEN "complete" ELSE w.then,
                     !.then = IF go THEN @ ELSE "idle",
                     !.job = IF ~go /\ w.then = "idle" THEN Nobody ELSE @,
                     !.bad = go /\ (@ \/ Failed(a))]
    <3>1. (go /\ (w.bad \/ Failed(a))) \in BOOLEAN
      BY DEF Drained
    <3>2. w.then \in Pc
      BY <1>0 DEF WorkerRec, Pc
    <3> HIDE DEF go
    <3>3. v \in WorkerRec
      BY <1>0, <3>1, <3>2 DEF WorkerRec, Pc
    <3>4. Shape(a, v)
      BY <1>0 DEF Shape, WorkerRec
    <3>5. worker' = [worker EXCEPT ![a] = v]
      BY <2>1 DEF Check, go
    <3> QED
      BY <3>3, <3>4, <3>5, OneWorker
  <2>2. CASE Complete(a)
    <3> DEFINE v == IF w.then = "idle" THEN Idle
                    ELSE [w EXCEPT !.pc = w.then, !.then = "idle", !.bad = FALSE]
    <3>1. v \in WorkerRec
      BY <1>0, IdleWorker DEF WorkerRec, Pc
    <3>2. Shape(a, v)
      BY <1>0, IdleWorker DEF Shape, WorkerRec
    <3>3. worker' = [worker EXCEPT ![a] = v]
      BY <2>2 DEF Complete
    <3> QED
      BY <3>1, <3>2, <3>3, OneWorker
  <2> QED
    BY <2>1, <2>2
<1>2. run' \in RunRec
  BY DEF Check, Complete, RestOK, RunRec
<1>3. JobsOK'
  BY DEF Check, Complete, JobsOK
<1> QED
  BY <1>1, <1>2, <1>3 DEF Check, Complete, RestOK

LEMMA ThreadTyped ==
  ASSUME Typed, NEW t \in Thread, Step(t) PROVE Typed'
<1> USE DEF Typed
<1> DEFINE w == worker[t]
           Goes(p, n, k) ==
             worker' = [worker EXCEPT ![t] = [pc |-> p, job |-> w.job, then |-> n,
                                              seen |-> k, bad |-> w.bad]]
<1>0. t \in Actor
  BY DEF Actor
<1>f. /\ w = [pc |-> w.pc, job |-> w.job, then |-> w.then, seen |-> w.seen, bad |-> w.bad]
      /\ w.pc \in Pc /\ w.then \in {"idle", "scan"}
      /\ w.seen \in Nat /\ w.bad \in BOOLEAN
  BY <1>0, Fields
<1>j. \/ w.pc \in {"claimed", "count", "counted", "scan", "refresh", "ok", "err"}
      \/ w.then # "idle"
      => w.job \in Linked
  BY <1>0 DEF WorkersOK, Shape
<1>i. w.pc \notin {"check", "complete"} => w.then = "idle"
  BY <1>0 DEF WorkersOK, Shape
<1>1. ASSUME NEW j \in Linked, Claim(t, j) PROVE Typed'
  <2>1. JobsOK'
    BY <1>1, RunAssumption DEF Claim, JobsOK, JobRec
  <2>2. WorkersOK'
    <3> DEFINE v == [w EXCEPT !.pc = "claimed", !.job = j]
    <3>1. v \in WorkerRec
      BY <1>0 DEF WorkersOK, WorkerRec, Pc
    <3>2. Shape(t, v)
      BY <1>1, <1>i, <1>f DEF Claim, Shape
    <3>3. worker' = [worker EXCEPT ![t] = v]
      BY <1>1 DEF Claim
    <3> QED
      BY <1>0, <3>1, <3>2, <3>3, OneWorker
  <2>3. RestOK'
    BY <1>1 DEF Claim, RestOK
  <2> QED
    BY <2>1, <2>2, <2>3
<1>2. CASE Skip(t) \/ Work(t) \/ ScanNotLast(t) \/ Raise(t)
  <2>1. \E p \in {"ok", "count", "scan", "err"} : Goes(p, "idle", w.seen)
    <3>0. Skip(t) \/ ScanNotLast(t) \/ Raise(t) =>
            \E p \in {"ok", "count", "scan", "err"} : worker' = [worker EXCEPT ![t].pc = p]
      BY DEF Skip, ScanNotLast, Raise
    <3>w. Work(t) =>
            \E p \in {"ok", "count", "scan", "err"} : worker' = [worker EXCEPT ![t].pc = p]
      BY DEF Work
    <3>1. PICK p \in {"ok", "count", "scan", "err"} : worker' = [worker EXCEPT ![t].pc = p]
      BY <1>2, <3>0, <3>w
    <3>2. w.then = "idle"
      BY <1>2, <1>i DEF Skip, Work, ScanNotLast, Raise
    <3>3. [w EXCEPT !.pc = p] =
            [pc |-> p, job |-> w.job, then |-> "idle", seen |-> w.seen, bad |-> w.bad]
      <4>1. [w EXCEPT !.pc = p] = [pc |-> p, job |-> w.job, then |-> w.then,
                                   seen |-> w.seen, bad |-> w.bad]
        BY <1>f
      <4> QED
        BY <4>1, <3>2
    <3>4. Goes(p, "idle", w.seen)
      BY <3>1, <3>3
    <3> QED
      BY <3>4
  <2>2. w.job \in Linked
    BY <1>2, <1>j DEF Skip, Work, ScanNotLast, Raise
  <2>3. WorkersOK'
    <3>1. PICK p \in {"ok", "count", "scan", "err"} : Goes(p, "idle", w.seen)
      BY <2>1
    <3>2. p \in Pc
      BY DEF Pc
    <3> QED
      BY <2>2, <3>1, <3>2, <1>f, GoesOn
  <2>4. JobsOK'
    BY <1>2 DEF Skip, Work, ScanNotLast, Raise, JobsOK
  <2>5. RestOK'
    BY <1>2, FaultType DEF Skip, Work, ScanNotLast, Raise, RestOK
  <2> QED
    BY <2>3, <2>4, <2>5
<1>3. CASE ReadCount(t)
  <2>1. run.done \in Nat
    BY DEF RestOK, RunRec
  <2>2. \E p \in {"counted", "scan"}, k \in {run.done, 0} : Goes(p, "idle", k)
    <3>0. \A p \in {"counted", "scan"} : p \in Pc
      BY DEF Pc
    <3>1. PICK p \in {"counted", "scan"}, k \in {run.done, 0} :
             worker' = [worker EXCEPT ![t].pc = p, ![t].seen = k]
      BY <1>3 DEF ReadCount
    <3>2. w.then = "idle"
      BY <1>3, <1>i DEF ReadCount
    <3>3. [w EXCEPT !.pc = p, !.seen = k] =
            [pc |-> p, job |-> w.job, then |-> "idle", seen |-> k, bad |-> w.bad]
      <4>1. [w EXCEPT !.pc = p, !.seen = k] =
              [pc |-> p, job |-> w.job, then |-> w.then, seen |-> k, bad |-> w.bad]
        BY <1>0, <2>1, <3>0, TwoFields DEF WorkersOK
      <4> QED
        BY <4>1, <3>2
    <3>4. worker' = [worker EXCEPT ![t] = [w EXCEPT !.pc = p, !.seen = k]]
      BY <3>1, <1>0 DEF WorkersOK
    <3>5. Goes(p, "idle", k)
      BY <3>3, <3>4
    <3> QED
      BY <3>5
  <2>3. w.job \in Linked
    BY <1>3, <1>j DEF ReadCount
  <2>4. WorkersOK'
    <3>1. PICK p \in {"counted", "scan"}, k \in {run.done, 0} : Goes(p, "idle", k)
      BY <2>2
    <3>2. p \in Pc /\ k \in Nat
      BY <2>1 DEF Pc
    <3> QED
      BY <2>3, <3>1, <3>2, <1>f, GoesOn
  <2> QED
    BY <1>3, <2>4 DEF ReadCount, RestOK, JobsOK
<1>4. CASE SaveCount(t)
  <2>1. \/ Goes("check", "scan", 0)
        \/ Goes("scan", "idle", 0)
    <3>1. \/ worker' = [worker EXCEPT ![t].pc = "check", ![t].then = "scan", ![t].seen = 0]
          \/ worker' = [worker EXCEPT ![t].pc = "scan", ![t].then = "idle", ![t].seen = 0]
      BY <1>4 DEF SaveCount
    <3> QED
      BY <3>1, <1>f, <1>0 DEF WorkersOK
  <2>2. w.job \in Linked
    BY <1>4, <1>j DEF SaveCount
  <2>3. WorkersOK'
    <3>1. "check" \in Pc /\ "scan" \in Pc /\ "ok" \in Pc /\ 0 \in Nat
      BY DEF Pc
    <3>2. CASE Goes("check", "scan", 0)
      BY <2>2, <3>1, <3>2, <1>f, GoesOn
    <3>3. CASE Goes("scan", "idle", 0)
      BY <2>2, <3>1, <3>3, <1>f, GoesOn
    <3> QED
      BY <2>1, <3>2, <3>3
  <2>4. w.seen + 1 \in Nat
    BY <1>f
  <2>5. run' \in RunRec
    <3>1. \E c \in BOOLEAN : run' = [run EXCEPT !.done = w.seen + 1, !.closed = c]
      BY <1>4 DEF SaveCount, AllCounted, Open
    <3> QED
      BY <2>4, <3>1 DEF RestOK, RunRec
  <2>6. JobsOK'
    BY <1>4 DEF SaveCount, JobsOK
  <2> QED
    BY <1>4, <2>3, <2>5, <2>6 DEF SaveCount, RestOK
<1>5. CASE ScanLast(t) \/ Refresh(t)
  <2>1. w.job \in Linked /\ w.then = "idle"
    BY <1>5, <1>i, <1>j DEF ScanLast, Refresh
  <2>2. Goes("refresh", "idle", w.seen) \/ Goes("err", "idle", w.seen)
    <3>1. \/ worker' = [worker EXCEPT ![t].pc = "refresh"]
          \/ worker' = [worker EXCEPT ![t].pc = "err"]
      BY <1>5 DEF ScanLast, Refresh
    <3> QED
      BY <2>1, <3>1, <1>f, <1>0 DEF WorkersOK
  <2>3. WorkersOK'
    <3>1. "refresh" \in Pc /\ "err" \in Pc
      BY DEF Pc
    <3>2. CASE Goes("refresh", "idle", w.seen)
      BY <2>1, <3>1, <3>2, <1>f, GoesOn
    <3>3. CASE Goes("err", "idle", w.seen)
      BY <2>1, <3>1, <3>3, <1>f, GoesOn
    <3> QED
      BY <2>2, <3>2, <3>3
  <2>4. refreshed' \in [BatchRun -> Nat]
    <3>1. BatchOf(w.job) \in BatchRun
      BY DEF BatchOf, BatchRun
    <3>2. \/ refreshed' = refreshed
          \/ refreshed' = [refreshed EXCEPT ![BatchOf(w.job)] = refreshed[BatchOf(w.job)] + 1]
      BY <1>5 DEF ScanLast, Refresh
    <3> QED
      BY <3>1, <3>2 DEF RestOK
  <2>5. JobsOK'
    BY <1>5 DEF ScanLast, Refresh, JobsOK
  <2>6. faults' \in Nat
    BY <1>5, FaultType DEF ScanLast, Refresh, RestOK
  <2> QED
    BY <1>5, <2>1, <2>3, <2>4, <2>5, <2>6 DEF ScanLast, Refresh, RestOK
<1>7. CASE Finish(t)
  <2>1. WorkersOK'
    <3> DEFINE v == [Idle EXCEPT !.pc = "check", !.bad = w.pc = "err"]
    <3>1. v \in WorkerRec /\ Shape(t, v)
      BY DEF Idle, WorkerRec, Pc, Shape
    <3>2. \E u \in {Idle, v} : worker' = [worker EXCEPT ![t] = u]
      BY <1>7 DEF Finish
    <3> QED
      BY <1>0, <3>1, <3>2, IdleWorker, OneWorker
  <2>2. JobsOK'
    <3>1. UNCHANGED job \/ \E s \in {"pending", "failed", "done"} : job' = SetRows({w.job}, s)
      BY <1>7 DEF Finish
    <3>2. CASE UNCHANGED job
      BY <3>2 DEF JobsOK
    <3>3. ASSUME NEW s \in {"pending", "failed", "done"}, job' = SetRows({w.job}, s)
          PROVE  JobsOK'
      BY <3>3, SetRowsType
    <3> QED
      BY <3>1, <3>2, <3>3
  <2>3. w.job \in Linked
    BY <1>7, <1>j DEF Finish
  <2>4. RestOK'
    BY <1>7, <2>3 DEF Finish, RestOK
  <2> QED
    BY <2>1, <2>2, <2>4
<1>8. CASE Check(t) \/ Complete(t)
  BY <1>0, <1>8, CompletionTyped
<1> QED
  BY <1>1, <1>2, <1>3, <1>4, <1>5, <1>7, <1>8 DEF Step

LEMMA WorldTyped ==
  ASSUME Typed,
         \/ Poll \/ Check(Poller) \/ Complete(Poller)
         \/ \E j \in Linked : Reap(j)
         \/ Supersede \/ Abandon \/ Restart
  PROVE  Typed'
<1> USE DEF Typed
<1>0. Poller \in Actor
  BY DEF Actor
<1>1. CASE Poll
  <2> DEFINE v == [worker[Poller] EXCEPT !.pc = "check"]
  <2>1. v \in WorkerRec
    BY <1>0 DEF WorkersOK, WorkerRec, Pc
  <2>2. Shape(Poller, v)
    BY <1>0, <1>1 DEF WorkersOK, WorkerRec, Shape, Poll
  <2>3. worker' = [worker EXCEPT ![Poller] = v]
    BY <1>1 DEF Poll
  <2>4. WorkersOK'
    BY <1>0, <2>1, <2>2, <2>3, OneWorker
  <2>5. run' \in RunRec
    BY <1>1 DEF Poll, RestOK, RunRec
  <2> QED
    BY <1>1, <2>4, <2>5 DEF Poll, RestOK, JobsOK
<1>2. CASE Check(Poller) \/ Complete(Poller)
  BY <1>0, <1>2, CompletionTyped
<1>3. CASE Supersede \/ \E j \in Linked : Reap(j)
  <2>1. JobsOK'
    BY <1>3, SetRowsType DEF Supersede, Reap
  <2> QED
    BY <1>3, <2>1, FaultType DEF Supersede, Reap, WorkersOK, RestOK
<1>4. CASE Abandon \/ Restart
  <2>1. JobsOK'
    BY <1>4, SetRowsType DEF Abandon, Restart
  <2>2. WorkersOK'
    BY <1>4, IdleWorker DEF Abandon, Restart, WorkersOK
  <2>3. run' \in RunRec /\ runner' \in RunnerRec
    BY <1>4 DEF Abandon, Restart, RestOK, RunRec, RunnerRec
  <2> QED
    BY <1>4, <2>1, <2>2, <2>3, FaultType DEF Abandon, Restart, RestOK
<1> QED
  BY <1>1, <1>2, <1>3, <1>4

LEMMA NextTyped == Typed /\ [Next]_vars => Typed'
<1> SUFFICES ASSUME Typed, [Next]_vars PROVE Typed'
  OBVIOUS
<1>1. CASE UNCHANGED vars
  BY <1>1 DEF vars, Typed, JobsOK, WorkersOK, RestOK
<1> QED
  BY <1>1, RunnerTyped, ThreadTyped, WorldTyped DEF Next

\* Every variable keeps its type, and only claimed rows carry a claim.
THEOREM TaskTyped == Spec => []TypeOK
<1>1. Spec => []Typed
  BY InitTyped, NextTyped, PTL DEF Spec
<1> QED
  BY <1>1, TypedGivesTypeOK, PTL

-----------------------------------------------------------------------------
(***************************************************************************)
(* The sections are refreshed once.  The key of a batch stands for its     *)
(* place in the count: whoever finds itself last commits its own key, and  *)
(* all others have been committed by then, so that no batch of the run can *)
(* get as far as looking for the last one again.  A thread that could not  *)
(* commit its key, or a batch that failed, lifts the promise for the run.  *)
(***************************************************************************)

\* The thread holds a key that is not committed.
Uncommitted(t) == worker[t].pc \in {"count", "counted", "scan"} \/ worker[t].then = "scan"

\* It is about to refresh the sections.
Due(t) == worker[t].pc = "refresh"

KeyOK ==
  \A t \in Thread :
    /\ Uncommitted(t) => worker[t].job \notin key
    /\ \A u \in Thread \ {t} :
         HasKey(t) /\ HasKey(u) /\ worker[t].job = worker[u].job => worker[t].job \in key

Absent(j) == job[j].status = "absent"

\* A batch run has all of its rows or none.
RowsOK ==
  /\ \A t \in Thread : worker[t].job \in Linked => ~Absent(worker[t].job)
  /\ \A b \in BatchRun : (\A j \in Rows(b) : Absent(j)) \/ (\A j \in Rows(b) : ~Absent(j))
  /\ runner.pc \in {"sync", "enqueue"} => \A j \in Rows(runner.at) : Absent(j)
  /\ runner.at = "nfo" /\ runner.pc \in {"sync", "enqueue", "begin"} => \A j \in Art : Absent(j)

DoneOK == \A j \in Linked : job[j].status = "done" => j \in key \/ Superseded(j)

AnyFailed(b) == \E j \in Rows(b) : job[j].status = "failed"

DueFor(t, b) == Due(t) /\ worker[t].job \in Rows(b)

Once(b) ==
  /\ refreshed[b] <= 1
  /\ \A t \in Thread : DueFor(t, b) => refreshed[b] = 0
  /\ refreshed[b] = 1 \/ (\E t \in Thread : DueFor(t, b)) => Rows(b) \subseteq key
  /\ \A t, u \in Thread : DueFor(t, b) /\ DueFor(u, b) => t = u

Forgiven(b) == AnyFailed(b) \/ <<"unkeyed", b>> \in past

OnceOK == \A b \in BatchRun : Forgiven(b) \/ Once(b)

IInv == Typed /\ KeyOK /\ RowsOK /\ DoneOK /\ OnceOK

LEMMA RowsAreLinked == \A b \in BatchRun : Rows(b) \subseteq Linked
BY DEF Rows, Linked, BatchRun

LEMMA BatchOfRows == \A j \in Linked : BatchOf(j) \in BatchRun /\ j \in Rows(BatchOf(j))
BY DEF BatchOf, Rows, Linked, BatchRun

LEMMA OneBatch ==
  \A j \in Linked, b \in BatchRun : j \in Rows(b) => b = BatchOf(j)
BY RunAssumption DEF BatchOf, Rows, Linked, BatchRun

\* Nothing is lost as long as keys and failures stay and no refresh becomes due.
LEMMA KeepOnce ==
  ASSUME OnceOK, key \subseteq key', refreshed' = refreshed,
         past \subseteq past' \union {<<"late", "run">>},
         \A j \in Linked : job[j].status = "failed" => job'[j].status = "failed",
         \A t \in Thread : Due(t)' => Due(t) /\ worker'[t].job = worker[t].job
  PROVE  OnceOK'
<1> SUFFICES ASSUME NEW b \in BatchRun PROVE Forgiven(b)' \/ Once(b)'
  BY DEF OnceOK
<1>1. CASE Forgiven(b)
  BY <1>1, RowsAreLinked DEF Forgiven, AnyFailed, Rows
<1>2. CASE Once(b)
  <2>1. \A t \in Thread : DueFor(t, b)' => DueFor(t, b)
    BY DEF DueFor, Rows
  <2> QED
    BY <1>2, <2>1 DEF Once, Rows
<1> QED
  BY <1>1, <1>2 DEF OnceOK

LEMMA KeepKey ==
  ASSUME KeyOK, key' = key,
         \A t \in Thread : Uncommitted(t)' => Uncommitted(t) /\ worker'[t].job = worker[t].job,
         \A t \in Thread : HasKey(t)' => \/ worker'[t].job \in key
                                         \/ HasKey(t) /\ worker'[t].job = worker[t].job
  PROVE  KeyOK'
<1> SUFFICES ASSUME NEW t \in Thread
             PROVE  /\ Uncommitted(t)' => worker'[t].job \notin key
                    /\ \A u \in Thread \ {t} :
                         HasKey(t)' /\ HasKey(u)' /\ worker'[t].job = worker'[u].job
                           => worker'[t].job \in key
  BY DEF KeyOK
<1>1. Uncommitted(t)' => worker'[t].job \notin key
  BY DEF KeyOK
<1>2. ASSUME NEW u \in Thread \ {t}, HasKey(t)', HasKey(u)', worker'[t].job = worker'[u].job
      PROVE  worker'[t].job \in key
  BY <1>2 DEF KeyOK
<1> QED
  BY <1>1, <1>2

LEMMA KeepDone ==
  ASSUME DoneOK, key \subseteq key', past \subseteq past' \union {<<"late", "run">>},
         \A j \in Linked : job'[j].status = "done" =>
           job[j].status = "done" \/ j \in key' \/ Superseded(j)'
  PROVE  DoneOK'
<1>1. \A j \in Linked : Superseded(j) => Superseded(j)'
  BY DEF Superseded
<1> QED
  BY <1>1 DEF DoneOK

\* Rows neither come nor go.
LEMMA KeepRows ==
  ASSUME RowsOK, runner' = runner,
         \A j \in Linked : Absent(j)' <=> Absent(j),
         \A t \in Thread : worker'[t].job \in Linked =>
           worker'[t].job = worker[t].job \/ ~Absent(worker'[t].job)
  PROVE  RowsOK'
<1>1. \A t \in Thread : worker'[t].job \in Linked => job'[worker'[t].job].status # "absent"
  BY DEF RowsOK, Absent
<1>2. \A b \in BatchRun : (\A j \in Rows(b) : Absent(j)') \/ (\A j \in Rows(b) : ~Absent(j)')
  BY RowsAreLinked DEF RowsOK
<1>3. Art \subseteq Linked /\ \A b : Rows(b) \subseteq Linked
  BY DEF Linked, Rows
<1>4. runner.pc \in {"sync", "enqueue"} => \A j \in Rows(runner.at) : Absent(j)'
  BY <1>3 DEF RowsOK
<1>5. runner.at = "nfo" /\ runner.pc \in {"sync", "enqueue", "begin"} => \A j \in Art : Absent(j)'
  BY <1>3 DEF RowsOK
<1>6. \A b : Rows(b)' = Rows(b)
  BY DEF Rows
<1>7. Rows(runner'.at) = Rows(runner.at)
  OBVIOUS
<1> QED
  BY <1>1, <1>2, <1>4, <1>5, <1>6, <1>7 DEF RowsOK, Absent

\* What SetRows does to rows that exist.
LEMMA SetRowsKeeps ==
  ASSUME NEW S, NEW s \in {"pending", "failed", "done"}, job' = SetRows(S, s),
         \A j \in S : j \in Linked => job[j].status \in {"pending", "claimed"}
  PROVE  \A j \in Linked : /\ Absent(j)' <=> Absent(j)
                           /\ job[j].status = "failed" => job'[j].status = "failed"
                           /\ job'[j].status = "done" => job[j].status = "done" \/ (s = "done" /\ j \in S)
<1> SUFFICES ASSUME NEW j \in Linked
             PROVE  /\ Absent(j)' <=> Absent(j)
                    /\ job[j].status = "failed" => job'[j].status = "failed"
                    /\ job'[j].status = "done" => job[j].status = "done" \/ (s = "done" /\ j \in S)
  OBVIOUS
<1>1. job'[j] = IF j \in S THEN [status |-> s, claim |-> Nobody] ELSE job[j]
  BY DEF SetRows
<1>2. CASE j \in S
  BY <1>1, <1>2 DEF Absent
<1>3. CASE j \notin S
  BY <1>1, <1>3 DEF Absent
<1> QED
  BY <1>2, <1>3

LEMMA InitHolds == Init => IInv
<1> SUFFICES ASSUME Init PROVE IInv
  OBVIOUS
<1>1. \A t \in Thread : worker[t] = Idle
  BY DEF Init, Actor
<1>2. KeyOK
  BY <1>1 DEF KeyOK, Uncommitted, HasKey, Idle
<1>3. \A j \in Linked : job[j].status = "absent"
  BY DEF Init
<1>4. RowsOK
  <2>1. \A t \in Thread : worker[t].job \notin Linked
    BY <1>1, RunAssumption DEF Idle
  <2>2. runner.at \in BatchRun
    BY InitTyped DEF Typed, RestOK, RunnerRec
  <2>3. Art \subseteq Linked
    BY DEF Linked
  <2> QED
    BY <1>3, <2>1, <2>2, <2>3, RowsAreLinked DEF RowsOK, Absent
<1>5. DoneOK
  BY <1>3 DEF DoneOK
<1>6. \A t \in Thread : ~Due(t)
  BY <1>1 DEF Due, Idle
<1>7. \A b \in BatchRun : refreshed[b] = 0
  BY DEF Init
<1>8. OnceOK
  BY <1>6, <1>7 DEF OnceOK, Once, DueFor
<1> QED
  BY <1>2, <1>4, <1>5, <1>8, InitTyped DEF IInv

\* The runner adds rows to a batch run that has none.
LEMMA RunnerHolds ==
  ASSUME IInv, Runner PROVE KeyOK' /\ RowsOK' /\ DoneOK' /\ OnceOK'
<1> USE DEF IInv
<1>1. UNCHANGED <<key, worker, refreshed>>
  BY DEF Runner, SyncEnds, SyncFails, Unwanted, EnqueueFails, EnqueueBatches,
         BeginPhase, BeginFails, ReadSummary, SaveSummary, NoFollowUps, FinalizeEnqueue
<1>2. past \subseteq past' \union {<<"late", "run">>}
  BY DEF Runner, SyncEnds, SyncFails, Unwanted, EnqueueFails, EnqueueBatches,
         BeginPhase, BeginFails, ReadSummary, SaveSummary, NoFollowUps, FinalizeEnqueue
<1>3. KeyOK'
  BY <1>1, KeepKey DEF Uncommitted, HasKey
<1>4. runner.at \in BatchRun
  BY DEF Typed, RestOK, RunnerRec
<1>5. CASE EnqueueBatches
  <2>1. \A j \in Rows(runner.at) : Absent(j)
    BY <1>5 DEF EnqueueBatches, RowsOK
  <2>2. \A j \in Linked : job'[j] = IF j \in Rows(runner.at)
                                      THEN [status |-> "pending", claim |-> Nobody] ELSE job[j]
    BY <1>5 DEF EnqueueBatches, SetRows
  <2>3. \A j \in Linked : /\ job[j].status = "failed" => job'[j].status = "failed"
                          /\ job'[j].status = "done" => job[j].status = "done"
                          /\ job[j].status # "absent" => job'[j].status # "absent"
    BY <2>1, <2>2 DEF Absent
  <2>4. OnceOK'
    BY <1>1, <1>2, <2>3, KeepOnce DEF Due
  <2>5. DoneOK'
    BY <1>1, <1>2, <2>3, KeepDone
  <2>6. RowsOK'
    <3>1. \A t \in Thread : worker'[t].job \in Linked => job'[worker'[t].job].status # "absent"
      BY <1>1, <2>3 DEF RowsOK, Absent
    <3>2. ASSUME NEW b \in BatchRun
          PROVE  \/ \A j \in Rows(b) : job'[j].status = "absent"
                 \/ \A j \in Rows(b) : job'[j].status # "absent"
      <4>1. CASE b = runner.at
        BY <2>2, <4>1, RowsAreLinked
      <4>2. CASE b # runner.at
        <5>1. \A j \in Rows(b) : job'[j] = job[j]
          BY <1>4, <2>2, <4>2, RowsAreLinked, OneBatch
        <5> QED
          BY <5>1 DEF RowsOK, Absent
      <4> QED
        BY <4>1, <4>2
    <3>3. runner'.pc = "begin" /\ runner'.at = runner.at
      BY <1>5 DEF EnqueueBatches, Typed, RestOK, RunnerRec
    <3>4. runner'.at = "nfo" => \A j \in Art : job'[j].status = "absent"
      <4>1. runner.at = "nfo" => \A j \in Art : j \notin Rows(runner.at) /\ j \in Linked
        BY RunAssumption DEF Rows, Linked
      <4> QED
        BY <1>5, <2>2, <3>3, <4>1 DEF EnqueueBatches, RowsOK, Absent
    <3>5. \A b : Rows(b)' = Rows(b)
      BY DEF Rows
    <3> QED
      BY <3>1, <3>2, <3>3, <3>4, <3>5 DEF RowsOK, Absent
  <2> QED
    BY <1>3, <2>4, <2>5, <2>6
<1>6. CASE ~EnqueueBatches
  <2>1. job' = job
    BY <1>6 DEF Runner, SyncEnds, SyncFails, Unwanted, EnqueueFails, BeginPhase, BeginFails,
                ReadSummary, SaveSummary, NoFollowUps, FinalizeEnqueue
  <2>2. OnceOK'
    BY <1>1, <1>2, <2>1, KeepOnce DEF Due
  <2>3. DoneOK'
    BY <1>1, <1>2, <2>1, KeepDone
  <2>4. \/ runner'.pc \in {"end", "save", "over"}
        \/ runner'.at = "art" /\ runner'.pc = "enqueue" /\ runner.at = "nfo"
             /\ runner.pc \in {"enqueue", "begin"}
        \/ runner'.at = runner.at /\ runner'.pc = "enqueue" /\ runner.pc = "sync"
    <3>1. runner \in RunnerRec
      BY DEF Typed, RestOK
    <3>2. CASE SyncEnds
      BY <3>1, <3>2 DEF SyncEnds, RunnerRec
    <3>3. CASE SyncFails \/ ReadSummary \/ SaveSummary \/ NoFollowUps \/ FinalizeEnqueue
      BY <3>1, <3>3 DEF SyncFails, ReadSummary, SaveSummary, NoFollowUps, FinalizeEnqueue, RunnerRec
    <3>4. CASE Unwanted \/ EnqueueFails
      BY <1>4, <3>1, <3>4 DEF Unwanted, EnqueueFails, Passed, RunnerRec, BatchRun
    <3>5. CASE BeginPhase
      BY <1>4, <3>1, <3>5 DEF BeginPhase, Passed, RunnerRec, BatchRun
    <3>6. CASE BeginFails
      BY <1>4, <3>1, <3>6 DEF BeginFails, Passed, RunnerRec, BatchRun
    <3> QED
      BY <1>6, <3>2, <3>3, <3>4, <3>5, <3>6 DEF Runner
  <2>5. RowsOK'
    <3>1. \A t \in Thread : worker'[t].job \in Linked => job'[worker'[t].job].status # "absent"
      BY <1>1, <2>1 DEF RowsOK, Absent
    <3>2. \A b \in BatchRun : \/ \A j \in Rows(b) : job'[j].status = "absent"
                              \/ \A j \in Rows(b) : job'[j].status # "absent"
      BY <2>1 DEF RowsOK, Absent
    <3>3. runner'.pc \in {"sync", "enqueue"} => \A j \in Rows(runner'.at) : job'[j].status = "absent"
      BY <2>1, <2>4 DEF RowsOK, Absent, Rows
    <3>4. runner'.at = "nfo" /\ runner'.pc \in {"sync", "enqueue", "begin"}
            => \A j \in Art : job'[j].status = "absent"
      BY <2>1, <2>4 DEF RowsOK, Absent
    <3>5. \A b : Rows(b)' = Rows(b)
      BY DEF Rows
    <3> QED
      BY <3>1, <3>2, <3>3, <3>4, <3>5 DEF RowsOK, Absent
  <2> QED
    BY <1>3, <2>2, <2>3, <2>5
<1> QED
  BY <1>5, <1>6

\* Check and Complete only move on to what was left to do.
LEMMA CompletionMoves ==
  ASSUME Typed, NEW a \in Actor, Check(a) \/ Complete(a)
  PROVE  /\ UNCHANGED <<runner, job, key, refreshed>>
         /\ past \subseteq past'
         /\ \A u \in Actor \ {a} : worker'[u] = worker[u]
         /\ \/ /\ worker'[a].pc = "complete" /\ worker'[a].then = worker[a].then
               /\ worker'[a].job = worker[a].job
            \/ /\ worker'[a].pc = worker[a].then /\ worker'[a].then = "idle"
               /\ worker[a].then # "idle" => worker'[a].job = worker[a].job
<1> DEFINE w == worker[a]
<1>0. worker \in [Actor -> WorkerRec]
  BY DEF Typed, WorkersOK
<1>1. CASE Check(a)
  <2> DEFINE go == Drained(a)
             v == [w EXCEPT !.pc = IF go THEN "complete" ELSE w.then,
                            !.then = IF go THEN @ ELSE "idle",
                            !.job = IF ~go /\ w.then = "idle" THEN Nobody ELSE @,
                            !.bad = go /\ (@ \/ Failed(a))]
  <2>1. worker' = [worker EXCEPT ![a] = v]
    BY <1>1 DEF Check
  <2>2. worker'[a] = v
    BY <1>0, <2>1
  <2> HIDE DEF go
  <2>3. /\ v.pc = IF go THEN "complete" ELSE w.then
        /\ v.then = IF go THEN w.then ELSE "idle"
        /\ v.job = IF ~go /\ w.then = "idle" THEN Nobody ELSE w.job
    BY <1>0 DEF WorkerRec
  <2>4. /\ UNCHANGED <<runner, job, key, refreshed, past>>
        /\ \A u \in Actor \ {a} : worker'[u] = worker[u]
    BY <1>0, <1>1 DEF Check
  <2> HIDE DEF v
  <2> QED
    BY <2>2, <2>3, <2>4
<1>2. CASE Complete(a)
  <2> DEFINE v == IF w.then = "idle" THEN Idle
                  ELSE [w EXCEPT !.pc = w.then, !.then = "idle", !.bad = FALSE]
  <2>1. worker'[a] = v
    BY <1>0, <1>2 DEF Complete
  <2>2. /\ v.pc = w.then /\ v.then = "idle"
        /\ w.then # "idle" => v.job = w.job
    BY <1>0 DEF WorkerRec, Idle
  <2>3. /\ UNCHANGED <<runner, job, key, refreshed>> /\ past \subseteq past'
        /\ \A u \in Actor \ {a} : worker'[u] = worker[u]
    BY <1>0, <1>2 DEF Complete
  <2> HIDE DEF v
  <2> QED
    BY <2>1, <2>2, <2>3
<1> QED
  BY <1>1, <1>2

\* A step of one actor that leaves rows, keys and refreshes alone, and after
\* which it holds, has committed and owes nothing that it did not before.
LEMMA QuietMove ==
  ASSUME IInv, NEW a \in Actor,
         UNCHANGED <<runner, job, key, refreshed>>, past \subseteq past',
         \A u \in Actor \ {a} : worker'[u] = worker[u],
         worker'[a].job = worker[a].job \/ worker'[a].job \notin Linked,
         a \in Thread => /\ Uncommitted(a)' => Uncommitted(a)
                         /\ HasKey(a)' => HasKey(a) \/ worker[a].job \in key
                         /\ Due(a)' => Due(a)
                         /\ Uncommitted(a)' \/ HasKey(a)' \/ Due(a)' =>
                              worker'[a].job = worker[a].job
  PROVE  KeyOK' /\ RowsOK' /\ DoneOK' /\ OnceOK'
<1> USE DEF IInv
<1>0. Thread \subseteq Actor
  BY DEF Actor
<1>1. KeyOK'
  <2>1. \A t \in Thread : Uncommitted(t)' => Uncommitted(t) /\ worker'[t].job = worker[t].job
    BY <1>0 DEF Uncommitted
  <2>2. \A t \in Thread : HasKey(t)' => \/ worker'[t].job \in key
                                        \/ HasKey(t) /\ worker'[t].job = worker[t].job
    BY <1>0 DEF HasKey
  <2> QED
    BY <2>1, <2>2, KeepKey
<1>2. RowsOK'
  <2>1. \A j \in Linked : Absent(j)' <=> Absent(j)
    BY DEF Absent
  <2>2. \A t \in Thread : worker'[t].job \in Linked => worker'[t].job = worker[t].job
    BY <1>0
  <2> QED
    BY <2>1, <2>2, KeepRows
<1>3. DoneOK'
  BY KeepDone
<1>4. OnceOK'
  <2>1. \A t \in Thread : Due(t)' => Due(t) /\ worker'[t].job = worker[t].job
    BY <1>0 DEF Due
  <2> QED
    BY <2>1, KeepOnce
<1> QED
  BY <1>1, <1>2, <1>3, <1>4

LEMMA CompletionHolds ==
  ASSUME IInv, NEW a \in Actor, Check(a) \/ Complete(a)
  PROVE  KeyOK' /\ RowsOK' /\ DoneOK' /\ OnceOK'
<1>1. Typed
  BY DEF IInv
<1>2. /\ UNCHANGED <<runner, job, key, refreshed>>
      /\ past \subseteq past'
      /\ \A u \in Actor \ {a} : worker'[u] = worker[u]
      /\ \/ /\ worker'[a].pc = "complete" /\ worker'[a].then = worker[a].then
            /\ worker'[a].job = worker[a].job
         \/ /\ worker'[a].pc = worker[a].then /\ worker'[a].then = "idle"
            /\ worker[a].then # "idle" => worker'[a].job = worker[a].job
  BY <1>1, CompletionMoves
<1>3. worker[a].then \in {"idle", "scan"}
  BY <1>1 DEF Typed, WorkersOK, WorkerRec
<1>4. worker'[a].job = worker[a].job \/ worker'[a].job \notin Linked
  <2>1. CASE Check(a)
    <3>1. worker'[a].job \in {Nobody, worker[a].job}
      BY <1>1, <2>1 DEF Check, Typed, WorkersOK, WorkerRec
    <3> QED
      BY <3>1, RunAssumption
  <2>2. CASE Complete(a)
    <3>1. worker'[a].job \in {Nobody, worker[a].job}
      BY <1>1, <2>2 DEF Complete, Typed, WorkersOK, WorkerRec, Idle
    <3> QED
      BY <3>1, RunAssumption
  <2> QED
    BY <2>1, <2>2
<1>5. ASSUME a \in Thread
      PROVE  /\ Uncommitted(a)' => Uncommitted(a)
             /\ HasKey(a)' => HasKey(a) \/ worker[a].job \in key
             /\ Due(a)' => Due(a)
             /\ Uncommitted(a)' \/ HasKey(a)' \/ Due(a)' =>
                  worker'[a].job = worker[a].job
  BY <1>2, <1>3 DEF Uncommitted, HasKey, Due
<1> QED
  BY <1>2, <1>4, <1>5, QuietMove

\* A worker handles its row.
LEMMA HandlerHolds ==
  ASSUME IInv, NEW t \in Thread,
         \/ Skip(t) \/ ReadCount(t) \/ SaveCount(t) \/ ScanNotLast(t) \/ Raise(t)
  PROVE  KeyOK' /\ RowsOK' /\ DoneOK' /\ OnceOK'
<1> USE DEF IInv
<1>0. t \in Actor /\ worker \in [Actor -> WorkerRec] /\ Shape(t, worker[t])
  BY DEF Actor, Typed, WorkersOK
<1>1. /\ UNCHANGED <<runner, job, key, refreshed>> /\ past \subseteq past'
      /\ \A u \in Actor \ {t} : worker'[u] = worker[u]
  BY <1>0 DEF Skip, ReadCount, SaveCount, ScanNotLast, Raise
<1>2. worker'[t].job = worker[t].job
  <2>1. CASE Skip(t) \/ ScanNotLast(t) \/ Raise(t)
    BY <1>0, <2>1 DEF Skip, ScanNotLast, Raise, WorkerRec
  <2>2. CASE ReadCount(t)
    BY <1>0, <2>2 DEF ReadCount, WorkerRec
  <2>3. CASE SaveCount(t)
    BY <1>0, <2>3 DEF SaveCount, WorkerRec
  <2> QED
    BY <2>1, <2>2, <2>3
<1>3. \/ worker'[t].pc = "ok" /\ worker'[t].then = "idle" /\ worker[t].job \in key
      \/ worker'[t].pc = "ok" /\ worker'[t].then = "idle" /\ worker[t].pc = "scan"
      \/ worker'[t].pc = "err" /\ worker'[t].then = "idle"
      \/ /\ worker[t].pc \in {"count", "counted"}
         /\ \/ worker'[t].pc \in {"counted", "scan"} /\ worker'[t].then = "idle"
            \/ worker'[t].pc = "check" /\ worker'[t].then = "scan"
  <2>1. CASE Skip(t)
    BY <1>0, <2>1 DEF Skip, WorkerRec, Shape
  <2>2. CASE ScanNotLast(t)
    BY <1>0, <2>2 DEF ScanNotLast, WorkerRec, Shape
  <2>3. CASE Raise(t)
    BY <1>0, <2>3 DEF Raise, WorkerRec, Shape
  <2>4. CASE ReadCount(t)
    BY <1>0, <2>4 DEF ReadCount, WorkerRec, Shape
  <2>5. CASE SaveCount(t)
    BY <1>0, <2>5 DEF SaveCount, WorkerRec
  <2> QED
    BY <2>1, <2>2, <2>3, <2>4, <2>5
<1>4. /\ Uncommitted(t)' => Uncommitted(t)
      /\ HasKey(t)' => HasKey(t) \/ worker[t].job \in key
      /\ Due(t)' => Due(t)
  BY <1>3 DEF Uncommitted, HasKey, Due
<1> QED
  BY <1>0, <1>1, <1>2, <1>4, QuietMove

LEMMA ClaimHolds ==
  ASSUME IInv, NEW t \in Thread, NEW j \in Linked, Claim(t, j)
  PROVE  KeyOK' /\ RowsOK' /\ DoneOK' /\ OnceOK'
<1> USE DEF IInv
<1>0. t \in Actor /\ worker \in [Actor -> WorkerRec] /\ Shape(t, worker[t]) /\ Thread \subseteq Actor
  BY DEF Actor, Typed, WorkersOK
<1>1. UNCHANGED <<runner, key, refreshed, past>>
  BY DEF Claim
<1>2. /\ \A u \in Thread \ {t} : worker'[u] = worker[u]
      /\ worker'[t].pc = "claimed" /\ worker'[t].then = "idle" /\ worker'[t].job = j
  BY <1>0 DEF Claim, WorkerRec, Shape
<1>3. \A i \in Linked : /\ Absent(i)' <=> Absent(i)
                        /\ job[i].status = "failed" => job'[i].status = "failed"
                        /\ job'[i].status = "done" => job[i].status = "done"
  BY DEF Claim, Absent, Typed, JobsOK
<1>4. ~Uncommitted(t)' /\ ~HasKey(t)' /\ ~Due(t)'
  BY <1>2 DEF Uncommitted, HasKey, Due
<1>5. KeyOK'
  <2>1. \A u \in Thread \ {t} : /\ Uncommitted(u)' => Uncommitted(u)
                                /\ HasKey(u)' => HasKey(u)
    BY <1>2 DEF Uncommitted, HasKey
  <2> QED
    BY <1>1, <1>2, <1>4, <2>1, KeepKey
<1>6. RowsOK'
  <2>1. ~Absent(j)
    BY DEF Claim, Absent
  <2> QED
    BY <1>1, <1>2, <1>3, <2>1, KeepRows
<1>7. DoneOK'
  BY <1>1, <1>3, KeepDone
<1>8. OnceOK'
  <2>1. \A u \in Thread \ {t} : Due(u)' => Due(u)
    BY <1>2 DEF Due
  <2> QED
    BY <1>1, <1>2, <1>3, <1>4, <2>1, KeepOnce
<1> QED
  BY <1>5, <1>6, <1>7, <1>8

\* The key is inserted where no other thread holds it.
LEMMA WorkHolds ==
  ASSUME IInv, NEW t \in Thread, Work(t)
  PROVE  KeyOK' /\ RowsOK' /\ DoneOK' /\ OnceOK'
<1> USE DEF IInv
<1>0. t \in Actor /\ worker \in [Actor -> WorkerRec] /\ Shape(t, worker[t]) /\ Thread \subseteq Actor
  BY DEF Actor, Typed, WorkersOK
<1>1. UNCHANGED <<runner, job, key, refreshed, past>>
  BY DEF Work
<1>2. /\ \A u \in Thread \ {t} : worker'[u] = worker[u]
      /\ worker'[t].then = "idle" /\ worker'[t].job = worker[t].job
  BY <1>0 DEF Work, WorkerRec, Shape
<1>3. worker'[t].pc \in {"count", "scan", "ok"}
  BY <1>0 DEF Work, WorkerRec
<1>4. ~Due(t)'
  BY <1>2, <1>3 DEF Due
<1>5. \A u \in Thread \ {t} : /\ Uncommitted(u)' => Uncommitted(u)
                              /\ HasKey(u)' <=> HasKey(u)
                              /\ Due(u)' => Due(u)
  BY <1>2 DEF Uncommitted, HasKey, Due
<1>6. worker[t].job \notin key /\ \A u \in Thread \ {t} : HasKey(u) => worker[u].job # worker[t].job
  BY DEF Work
<1>7. KeyOK'
  <2> SUFFICES ASSUME NEW u \in Thread
               PROVE  /\ Uncommitted(u)' => worker'[u].job \notin key
                      /\ \A v \in Thread \ {u} :
                           HasKey(u)' /\ HasKey(v)' /\ worker'[u].job = worker'[v].job
                             => worker'[u].job \in key
    BY <1>1 DEF KeyOK
  <2>1. Uncommitted(u)' => worker'[u].job \notin key
    BY <1>2, <1>4, <1>5, <1>6 DEF KeyOK
  <2>2. ASSUME NEW v \in Thread \ {u}, HasKey(u)', HasKey(v)', worker'[u].job = worker'[v].job
        PROVE  worker'[u].job \in key
    BY <1>2, <1>5, <1>6, <2>2 DEF KeyOK
  <2> QED
    BY <2>1, <2>2
<1>8. RowsOK'
  <2>1. \A j \in Linked : Absent(j)' <=> Absent(j)
    BY <1>1 DEF Absent
  <2> QED
    BY <1>1, <1>2, <2>1, KeepRows
<1>9. DoneOK'
  BY <1>1, KeepDone
<1>10. OnceOK'
  BY <1>1, <1>2, <1>4, <1>5, KeepOnce
<1> QED
  BY <1>7, <1>8, <1>9, <1>10

\* Whoever is last commits the only key that was missing, or lifts the promise.
LEMMA ScanLastHolds ==
  ASSUME IInv, NEW t \in Thread, ScanLast(t)
  PROVE  KeyOK' /\ RowsOK' /\ DoneOK' /\ OnceOK'
<1> USE DEF IInv
<1> DEFINE j == worker[t].job
           b == BatchOf(j)
<1>0. t \in Actor /\ worker \in [Actor -> WorkerRec] /\ Shape(t, worker[t]) /\ Thread \subseteq Actor
  BY DEF Actor, Typed, WorkersOK
<1>1. /\ UNCHANGED <<runner, job, refreshed>> /\ past \subseteq past'
      /\ key' = key \union {j} \/ (key' = key /\ <<"unkeyed", b>> \in past')
  BY DEF ScanLast
<1>2. /\ \A u \in Thread \ {t} : worker'[u] = worker[u]
      /\ worker'[t].job = worker[t].job
      /\ worker'[t].pc \in {"refresh", "err"} /\ worker'[t].then = "idle"
  BY <1>0 DEF ScanLast, WorkerRec, Shape
<1>3. j \in Linked /\ b \in BatchRun /\ j \in Rows(b)
  BY <1>0, BatchOfRows DEF ScanLast, Shape
<1>4. Uncommitted(t) /\ HasKey(t) /\ j \notin key
  BY DEF ScanLast, Uncommitted, HasKey, KeyOK
<1>5. ~Uncommitted(t)' /\ ~HasKey(t)'
  BY <1>2 DEF Uncommitted, HasKey
<1>6. \A u \in Thread \ {t} : /\ Uncommitted(u)' <=> Uncommitted(u)
                              /\ HasKey(u)' <=> HasKey(u)
                              /\ Due(u)' <=> Due(u)
  BY <1>2 DEF Uncommitted, HasKey, Due
<1>7. \A u \in Thread \ {t} : HasKey(u) => worker[u].job # j
  BY <1>4 DEF KeyOK
<1>8. KeyOK'
  <2> SUFFICES ASSUME NEW u \in Thread
               PROVE  /\ Uncommitted(u)' => worker'[u].job \notin key'
                      /\ \A v \in Thread \ {u} :
                           HasKey(u)' /\ HasKey(v)' /\ worker'[u].job = worker'[v].job
                             => worker'[u].job \in key'
    BY DEF KeyOK
  <2>1. Uncommitted(u) => HasKey(u)
    BY DEF Uncommitted, HasKey
  <2>2. Uncommitted(u)' => worker'[u].job \notin key'
    BY <1>1, <1>2, <1>5, <1>6, <1>7, <2>1 DEF KeyOK
  <2>3. ASSUME NEW v \in Thread \ {u}, HasKey(u)', HasKey(v)', worker'[u].job = worker'[v].job
        PROVE  worker'[u].job \in key'
    BY <1>1, <1>2, <1>5, <1>6, <2>3 DEF KeyOK
  <2> QED
    BY <2>2, <2>3
<1>9. RowsOK'
  <2>1. \A i \in Linked : Absent(i)' <=> Absent(i)
    BY <1>1 DEF Absent
  <2> QED
    BY <1>1, <1>2, <2>1, KeepRows
<1>10. DoneOK'
  BY <1>1, KeepDone
<1>11. ASSUME NEW c \in BatchRun, c = b, ~Forgiven(c)' PROVE Rows(c) \subseteq key'
  <2>f. ~AnyFailed(b) /\ key' = key \union {j}
    BY <1>1, <1>11 DEF Forgiven, AnyFailed, Rows
  <2> SUFFICES ASSUME NEW i \in Rows(b) \ {j} PROVE i \in key
    BY <1>11, <2>f
  <2>1. i \in Linked
    BY <1>3, RowsAreLinked
  <2>2. job[i].status \notin {"pending", "claimed"}
    BY <2>1 DEF ScanLast, Open, Siblings
  <2>3. job[i].status # "absent"
    <3>1. ~Absent(j)
      BY <1>3 DEF RowsOK
    <3> QED
      BY <1>3, <3>1 DEF RowsOK, Absent
  <2>4. job[i].status # "failed"
    BY <2>f DEF AnyFailed
  <2>5. job[i].status = "done"
    BY <2>1, <2>2, <2>3, <2>4 DEF Typed, JobsOK, JobRec
  <2>6. ~Superseded(i)
    <3>1. b = BatchOf(i)
      BY <1>3, <2>1, OneBatch
    <3>2. i \in Nfo <=> j \in Nfo
      BY <3>1 DEF BatchOf
    <3> QED
      BY <3>2 DEF ScanLast, Superseded
  <2> QED
    BY <2>1, <2>5, <2>6 DEF DoneOK
<1>12. OnceOK'
  <2> SUFFICES ASSUME NEW c \in BatchRun, ~Forgiven(c)' PROVE Once(c)'
    BY DEF OnceOK
  <2>0. ~Forgiven(c)
    BY <1>1 DEF Forgiven, AnyFailed, Rows
  <2>r. Rows(c)' = Rows(c)
    BY DEF Rows
  <2>2. CASE c # b
    <3>1. j \notin Rows(c)
      BY <1>3, <2>2, OneBatch
    <3>2. ~DueFor(t, c)'
      BY <1>2, <2>r, <3>1 DEF DueFor
    <3>3. \A u \in Thread : DueFor(u, c)' => DueFor(u, c)
      BY <1>2, <1>6, <2>r, <3>2 DEF DueFor
    <3>4. Once(c)
      BY <2>0 DEF OnceOK
    <3> QED
      BY <1>1, <2>r, <3>3, <3>4 DEF Once
  <2>3. CASE c = b
    <3>1. Once(b)
      BY <2>0, <2>3 DEF OnceOK
    <3>2. refreshed[b] # 1 /\ \A u \in Thread : ~DueFor(u, b)
      BY <1>3, <1>4, <3>1 DEF Once
    <3>3. refreshed[b] = 0
      BY <1>3, <3>1, <3>2 DEF Once, Typed, RestOK
    <3>4. \A u \in Thread : DueFor(u, c)' => u = t
      BY <1>2, <1>6, <2>3, <2>r, <3>2 DEF DueFor
    <3>5. refreshed'[c] = 0
      BY <1>1, <2>3, <3>3
    <3>6. Rows(c) \subseteq key'
      BY <1>11, <2>3
    <3>7. \A u, v \in Thread : DueFor(u, c)' /\ DueFor(v, c)' => u = v
      BY <3>4
    <3> QED
      BY <2>r, <3>5, <3>6, <3>7 DEF Once
  <2> QED
    BY <2>2, <2>3
<1> QED
  BY <1>8, <1>9, <1>10, <1>12

\* The one thread that owes the refresh makes it.
LEMMA RefreshHolds ==
  ASSUME IInv, NEW t \in Thread, Refresh(t)
  PROVE  KeyOK' /\ RowsOK' /\ DoneOK' /\ OnceOK'
<1> USE DEF IInv
<1> DEFINE j == worker[t].job
           b == BatchOf(j)
<1>0. t \in Actor /\ worker \in [Actor -> WorkerRec] /\ Shape(t, worker[t]) /\ Thread \subseteq Actor
  BY DEF Actor, Typed, WorkersOK
<1>1. UNCHANGED <<runner, job, key>> /\ past \subseteq past'
  BY DEF Refresh
<1>2. /\ \A u \in Thread \ {t} : worker'[u] = worker[u]
      /\ worker'[t].job = worker[t].job
      /\ worker'[t].pc = "err" /\ worker'[t].then = "idle"
  BY <1>0 DEF Refresh, WorkerRec, Shape
<1>3. j \in Linked /\ b \in BatchRun /\ j \in Rows(b)
  BY <1>0, BatchOfRows DEF Refresh, Shape
<1>4. Due(t)
  BY DEF Refresh, Due
<1>5. ~Uncommitted(t)' /\ ~HasKey(t)' /\ ~Due(t)'
  BY <1>2 DEF Uncommitted, HasKey, Due
<1>6. \A u \in Thread \ {t} : /\ Uncommitted(u)' => Uncommitted(u)
                              /\ HasKey(u)' => HasKey(u)
                              /\ Due(u)' => Due(u)
  BY <1>2 DEF Uncommitted, HasKey, Due
<1>7. KeyOK'
  <2>1. \A u \in Thread : Uncommitted(u)' => Uncommitted(u) /\ worker'[u].job = worker[u].job
    BY <1>2, <1>5, <1>6
  <2>2. \A u \in Thread : HasKey(u)' => \/ worker'[u].job \in key
                                        \/ HasKey(u) /\ worker'[u].job = worker[u].job
    BY <1>2, <1>5, <1>6
  <2> QED
    BY <1>1, <2>1, <2>2, KeepKey
<1>8. RowsOK'
  <2>1. \A i \in Linked : Absent(i)' <=> Absent(i)
    BY <1>1 DEF Absent
  <2> QED
    BY <1>1, <1>2, <2>1, KeepRows
<1>9. DoneOK'
  BY <1>1, KeepDone
<1>10. OnceOK'
  <2> SUFFICES ASSUME NEW c \in BatchRun, ~Forgiven(c), ~Forgiven(c)' PROVE Once(c)'
    <3>1. \A c \in BatchRun : Forgiven(c) => Forgiven(c)'
      BY <1>1 DEF Forgiven, AnyFailed, Rows
    <3> QED
      BY <3>1 DEF OnceOK
  <2>r. Rows(c)' = Rows(c)
    BY DEF Rows
  <2>1. Once(c)
    BY DEF OnceOK
  <2>2. \A u \in Thread : DueFor(u, c)' => DueFor(u, c) /\ u # t
    BY <1>2, <1>5, <1>6, <2>r DEF DueFor
  <2>3. CASE c # b
    <3>1. refreshed'[c] = refreshed[c]
      BY <2>3 DEF Refresh
    <3> QED
      BY <1>1, <2>r, <2>1, <2>2, <3>1 DEF Once
  <2>4. CASE c = b
    <3>1. DueFor(t, c)
      BY <1>3, <1>4, <2>4 DEF DueFor
    <3>2. refreshed[c] = 0 /\ Rows(c) \subseteq key
      BY <2>1, <3>1 DEF Once
    <3>3. refreshed'[c] = 1
      BY <1>3, <2>4, <3>2 DEF Refresh, Typed, RestOK
    <3>4. \A u \in Thread : ~DueFor(u, c)'
      BY <2>1, <2>2, <3>1 DEF Once
    <3> QED
      BY <1>1, <2>r, <3>2, <3>3, <3>4 DEF Once
  <2> QED
    BY <2>3, <2>4
<1> QED
  BY <1>7, <1>8, <1>9, <1>10

\* The end of a row: a handler that succeeded commits its key.
LEMMA FinishHolds ==
  ASSUME IInv, NEW t \in Thread, Finish(t)
  PROVE  KeyOK' /\ RowsOK' /\ DoneOK' /\ OnceOK'
<1> USE DEF IInv
<1> DEFINE j == worker[t].job
<1>0. t \in Actor /\ worker \in [Actor -> WorkerRec] /\ Shape(t, worker[t]) /\ Thread \subseteq Actor
  BY DEF Actor, Typed, WorkersOK
<1>1. /\ UNCHANGED <<runner, refreshed, past>>
      /\ key' = IF worker[t].pc = "ok" THEN key \union {j} ELSE key
  BY DEF Finish
<1>2. /\ \A u \in Thread \ {t} : worker'[u] = worker[u]
      /\ worker'[t].pc \in {"idle", "check"} /\ worker'[t].then = "idle" /\ worker'[t].job = Nobody
  <2> DEFINE v == [Idle EXCEPT !.pc = "check", !.bad = worker[t].pc = "err"]
  <2>1. worker' = [worker EXCEPT ![t] = v] \/ worker' = [worker EXCEPT ![t] = Idle]
    BY DEF Finish
  <2>2. v.pc = "check" /\ v.then = "idle" /\ v.job = Nobody
    BY DEF Idle
  <2> HIDE DEF v
  <2> QED
    BY <1>0, <2>1, <2>2 DEF Idle
<1>3. j \in Linked
  BY <1>0 DEF Finish, Shape
<1>4. ~Uncommitted(t)' /\ ~HasKey(t)' /\ ~Due(t)'
  BY <1>2 DEF Uncommitted, HasKey, Due
<1>5. \A u \in Thread \ {t} : /\ Uncommitted(u)' <=> Uncommitted(u)
                              /\ HasKey(u)' <=> HasKey(u)
                              /\ Due(u)' <=> Due(u)
  BY <1>2 DEF Uncommitted, HasKey, Due
<1>6. \A i \in Linked : /\ Absent(i)' <=> Absent(i)
                        /\ job[i].status = "failed" => job'[i].status = "failed"
                        /\ job'[i].status = "done" => job[i].status = "done" \/ i \in key'
  <2>1. CASE job' = job
    BY <2>1 DEF Absent
  <2>2. CASE job' # job
    <3>1. /\ job[j].claim = t
          /\ \E s \in IF worker[t].pc = "ok" THEN {"done"} ELSE {"pending", "failed"} :
               job' = SetRows({j}, s)
      BY <2>2 DEF Finish, Holds
    <3>2. job[j].status = "claimed"
      BY <1>3, <3>1, RunAssumption DEF Typed, JobsOK
    <3>3. PICK s \in {"pending", "failed", "done"} :
            /\ job' = SetRows({j}, s)
            /\ s = "done" => worker[t].pc = "ok"
      BY <3>1
    <3>4. \A i \in Linked : /\ Absent(i)' <=> Absent(i)
                            /\ job[i].status = "failed" => job'[i].status = "failed"
                            /\ job'[i].status = "done" =>
                                 job[i].status = "done" \/ (s = "done" /\ i \in {j})
      BY <3>2, <3>3, SetRowsKeeps
    <3> QED
      BY <1>1, <3>3, <3>4
  <2> QED
    BY <2>1, <2>2
<1>7. KeyOK'
  <2> SUFFICES ASSUME NEW u \in Thread
               PROVE  /\ Uncommitted(u)' => worker'[u].job \notin key'
                      /\ \A v \in Thread \ {u} :
                           HasKey(u)' /\ HasKey(v)' /\ worker'[u].job = worker'[v].job
                             => worker'[u].job \in key'
    BY DEF KeyOK
  <2>1. Uncommitted(u)' => worker'[u].job \notin key'
    <3> SUFFICES ASSUME Uncommitted(u)' PROVE worker'[u].job \notin key'
      OBVIOUS
    <3>1. u # t /\ Uncommitted(u) /\ worker'[u] = worker[u]
      BY <1>2, <1>4, <1>5
    <3>2. worker[u].job \notin key /\ HasKey(u)
      BY <3>1 DEF KeyOK, Uncommitted, HasKey
    <3>3. worker[t].pc = "ok" => worker[u].job # j
      BY <3>1, <3>2 DEF KeyOK, HasKey
    <3> QED
      BY <1>1, <3>1, <3>2, <3>3
  <2>2. ASSUME NEW v \in Thread \ {u}, HasKey(u)', HasKey(v)', worker'[u].job = worker'[v].job
        PROVE  worker'[u].job \in key'
    BY <1>1, <1>2, <1>4, <1>5, <2>2 DEF KeyOK
  <2> QED
    BY <2>1, <2>2
<1>8. RowsOK'
  BY <1>1, <1>2, <1>6, KeepRows, RunAssumption
<1>9. DoneOK'
  BY <1>1, <1>6, KeepDone
<1>10. OnceOK'
  BY <1>1, <1>2, <1>4, <1>5, <1>6, KeepOnce
<1> QED
  BY <1>7, <1>8, <1>9, <1>10

\* Whoever requests, reaps, cancels or restarts gives no thread more to do.
LEMMA WorldHolds ==
  ASSUME IInv,
         \/ Poll
         \/ \E j \in Linked : Reap(j)
         \/ Supersede \/ Abandon \/ Restart
  PROVE  KeyOK' /\ RowsOK' /\ DoneOK' /\ OnceOK'
<1> USE DEF IInv
<1>0. worker \in [Actor -> WorkerRec] /\ Thread \subseteq Actor /\ Poller \notin Thread
  BY RunAssumption DEF Actor, Typed, WorkersOK
<1>1. UNCHANGED <<key, refreshed>> /\ past \subseteq past'
  BY DEF Poll, Reap, Supersede, Abandon, Restart
<1>2. \A t \in Thread : worker'[t] = worker[t] \/ worker'[t] = Idle
  BY <1>0 DEF Poll, Reap, Supersede, Abandon, Restart
<1>3. \A t \in Thread : /\ Uncommitted(t)' => Uncommitted(t) /\ worker'[t] = worker[t]
                        /\ HasKey(t)' => HasKey(t) /\ worker'[t] = worker[t]
                        /\ Due(t)' => Due(t) /\ worker'[t] = worker[t]
                        /\ worker'[t].job \in Linked => worker'[t] = worker[t]
  BY <1>2, RunAssumption DEF Uncommitted, HasKey, Due, Idle
<1>4. \A j \in Linked : /\ Absent(j)' <=> Absent(j)
                        /\ job[j].status = "failed" => job'[j].status = "failed"
                        /\ job'[j].status = "done" => job[j].status = "done" \/ Superseded(j)'
  <2>1. CASE job' = job
    BY <2>1 DEF Absent
  <2>2. ASSUME NEW i \in Linked, Reap(i)
        PROVE  \A j \in Linked : /\ Absent(j)' <=> Absent(j)
                                 /\ job[j].status = "failed" => job'[j].status = "failed"
                                 /\ job'[j].status = "done" => job[j].status = "done"
    <3>1. job' = SetRows({i}, "pending") /\ job[i].status = "claimed"
      BY <2>2 DEF Reap
    <3> QED
      BY <3>1, SetRowsKeeps
  <2>3. CASE Supersede
    <3>1. /\ job' = SetRows({i \in Nfo : job[i].status = "pending"}, "done")
          /\ past' = past \union {<<"superseded", "nfo">>}
      BY <2>3 DEF Supersede
    <3>2. \A j \in Nfo : Superseded(j)'
      BY <3>1 DEF Superseded
    <3> QED
      BY <3>1, <3>2, SetRowsKeeps
  <2>4. CASE (Abandon \/ Restart) /\ job' # job
    <3>1. PICK s \in {"pending", "failed"} : job' = SetRows(Open(Linked), s)
      BY <2>4 DEF Abandon, Restart
    <3>2. \A j \in Open(Linked) : job[j].status \in {"pending", "claimed"}
      BY DEF Open
    <3> QED
      BY <3>1, <3>2, SetRowsKeeps
  <2> QED
    BY <2>1, <2>2, <2>3, <2>4 DEF Poll
<1>5. KeyOK'
  BY <1>1, <1>3, KeepKey
<1>6. RowsOK'
  <2>1. CASE runner' = runner
    BY <1>3, <1>4, <2>1, KeepRows
  <2>2. CASE runner' # runner
    <3>1. runner'.pc = "over"
      BY <2>2 DEF Poll, Reap, Supersede, Abandon, Restart, Typed, RestOK, RunnerRec
    <3>2. \A t \in Thread : worker'[t].job \in Linked => job'[worker'[t].job].status # "absent"
      BY <1>3, <1>4 DEF RowsOK, Absent
    <3>3. \A b \in BatchRun : \/ \A j \in Rows(b) : job'[j].status = "absent"
                              \/ \A j \in Rows(b) : job'[j].status # "absent"
      BY <1>4, RowsAreLinked DEF RowsOK, Absent
    <3>4. \A b : Rows(b)' = Rows(b)
      BY DEF Rows
    <3> QED
      BY <3>1, <3>2, <3>3, <3>4 DEF RowsOK, Absent
  <2> QED
    BY <2>1, <2>2
<1>7. DoneOK'
  BY <1>1, <1>4, KeepDone
<1>8. OnceOK'
  BY <1>1, <1>3, <1>4, KeepOnce
<1> QED
  BY <1>5, <1>6, <1>7, <1>8

LEMMA NextHolds == IInv /\ [Next]_vars => IInv'
<1> SUFFICES ASSUME IInv, [Next]_vars PROVE KeyOK' /\ RowsOK' /\ DoneOK' /\ OnceOK'
  BY NextTyped DEF IInv
<1>1. CASE UNCHANGED vars
  <2>1. /\ KeyOK' <=> KeyOK
        /\ RowsOK' <=> RowsOK
    BY <1>1 DEF vars, KeyOK, Uncommitted, HasKey, RowsOK, Absent, Rows
  <2>2. /\ DoneOK' <=> DoneOK
        /\ OnceOK' <=> OnceOK
    BY <1>1 DEF vars, DoneOK, Superseded, OnceOK, Once, Forgiven, AnyFailed, DueFor, Due, Rows
  <2> QED
    BY <2>1, <2>2 DEF IInv
<1>2. ASSUME NEW t \in Thread, Step(t) PROVE KeyOK' /\ RowsOK' /\ DoneOK' /\ OnceOK'
  <2>1. t \in Actor
    BY DEF Actor
  <2> QED
    BY <1>2, <2>1, ClaimHolds, HandlerHolds, WorkHolds, ScanLastHolds, RefreshHolds,
       CompletionHolds, FinishHolds DEF Step
<1>3. CASE Check(Poller) \/ Complete(Poller)
  BY <1>3, CompletionHolds DEF Actor
<1> QED
  BY <1>1, <1>2, <1>3, RunnerHolds, WorldHolds DEF Next

LEMMA InvGivesRefreshedOnce == IInv => RefreshedOnce
BY DEF IInv, OnceOK, Once, Forgiven, AnyFailed, RefreshedOnce

\* The refresh of the sections is asked for at most once for a batch run none of
\* whose batches failed for good or could not commit its key, for any number of
\* batches, of threads and of faults.
THEOREM TaskRefreshedOnce == Spec => []RefreshedOnce
<1>1. Spec => []IInv
  BY InitHolds, NextHolds, PTL DEF Spec
<1> QED
  BY <1>1, InvGivesRefreshedOnce, PTL
-----------------------------------------------------------------------------
(* A batch run is not left unrefreshed *)

\* Nothing has been refreshed for the batch run, and none of the exceptions has
\* been met.
Unmet(b) ==
  /\ refreshed[b] = 0
  /\ <<"crossed", b>> \notin past /\ <<"skipped", b>> \notin past
  /\ b = "nfo" => <<"superseded", "nfo">> \notin past
  /\ \A j \in Rows(b) : Scans(j)

\* The row is neither done nor about to be.
Unfinished(j) ==
  /\ job[j].status # "done"
  /\ \A t \in Thread : worker[t].pc = "ok" => worker[t].job # j

LeftOK == \A b \in BatchRun : Unmet(b) => \E j \in Rows(b) : Unfinished(j)

\* The marker of a template run is cleared by its refresh.
ClearedOK == \A b \in BatchRun : <<"cleared", b>> \in past => refreshed[b] > 0

LEMMA NextCleared == Typed /\ ClearedOK /\ [Next]_vars => ClearedOK'
<1> SUFFICES ASSUME Typed, ClearedOK, [Next]_vars PROVE ClearedOK'
  OBVIOUS
<1>0. refreshed \in [BatchRun -> Nat]
  BY DEF Typed, RestOK
<1>1. ASSUME NEW t \in Thread, Refresh(t) PROVE ClearedOK'
  <2> DEFINE b == BatchOf(worker[t].job)
  <2>1. b \in BatchRun
    BY DEF BatchOf, BatchRun
  <2>2. /\ refreshed' = [refreshed EXCEPT ![b] = @ + 1]
        /\ past' \in {past, past \union {<<"cleared", b>>}}
    BY <1>1 DEF Refresh
  <2> HIDE DEF b
  <2> QED
    BY <1>0, <2>1, <2>2 DEF ClearedOK
<1>2. CASE ~\E t \in Thread : Refresh(t)
  <2>1. refreshed' = refreshed
    BY <1>2 DEF Next, vars, Step, Claim, Skip, Work, ReadCount, SaveCount, ScanNotLast, ScanLast,
         Check, Complete, Raise, Finish, Poll, Reap, Supersede, Abandon, Restart, Runner,
         SyncEnds, SyncFails, Unwanted, EnqueueFails, EnqueueBatches, BeginPhase, BeginFails,
         ReadSummary, SaveSummary, NoFollowUps, FinalizeEnqueue
  <2>2. \E x \in {"late", "unopened", "outdated", "skipped", "crossed", "unkeyed", "superseded"} :
          \E b : past' \subseteq past \union {<<x, b>>}
    <3>1. CASE UNCHANGED vars
      BY <3>1 DEF vars
    <3>2. CASE Runner
      <4>1. CASE BeginFails
        BY <4>1 DEF BeginFails
      <4>2. CASE ~BeginFails
        BY <3>2, <4>2 DEF Runner, SyncEnds, SyncFails, Unwanted, EnqueueFails, EnqueueBatches,
         BeginPhase, ReadSummary, SaveSummary, NoFollowUps, FinalizeEnqueue
      <4> QED
        BY <4>1, <4>2
    <3>3. ASSUME NEW t \in Thread, Step(t) PROVE <2>2
      <4>1. CASE Skip(t)
        BY <4>1 DEF Skip
      <4>2. CASE ScanNotLast(t)
        BY <4>2 DEF ScanNotLast
      <4>3. CASE ScanLast(t)
        BY <4>3 DEF ScanLast
      <4>4. CASE Complete(t)
        BY <4>4 DEF Complete
      <4> QED
        BY <1>2, <3>3, <4>1, <4>2, <4>3, <4>4
        DEF Step, Claim, Work, ReadCount, SaveCount, Check, Raise, Finish
    <3>4. CASE Complete(Poller)
      BY <3>4 DEF Complete
    <3>5. CASE Supersede
      BY <3>5 DEF Supersede
    <3>6. CASE Restart
      BY <3>6 DEF Restart
    <3>7. CASE Poll \/ Check(Poller) \/ (\E j \in Linked : Reap(j)) \/ Abandon
      BY <3>7 DEF Poll, Check, Reap, Abandon
    <3> QED
      BY <3>1, <3>2, <3>3, <3>4, <3>5, <3>6, <3>7 DEF Next
  <2> QED
    BY <2>1, <2>2 DEF ClearedOK
<1> QED
  BY <1>1, <1>2

\* A step that finishes no row of an unmet batch run keeps what is unfinished.
LEMMA KeepLeft ==
  ASSUME LeftOK, kind' = kind, runner'.wants = runner.wants,
         past \subseteq past' \union {<<"late", "run">>},
         refreshed \in [BatchRun -> Nat],
         \A b \in BatchRun : refreshed'[b] \in Nat /\ refreshed'[b] >= refreshed[b],
         \A b \in BatchRun : \A j \in Rows(b) : Unmet(b)' /\ Unfinished(j) => Unfinished(j)'
  PROVE  LeftOK'
<1> SUFFICES ASSUME NEW b \in BatchRun, Unmet(b)'
             PROVE  \E j \in Rows(b) : Unfinished(j)'
  BY DEF LeftOK, Rows
<1>1. Rows(b)' = Rows(b) /\ \A j : Scans(j)' <=> Scans(j)
  BY DEF Rows, Scans
<1>2. refreshed[b] = 0
  BY DEF Unmet
<1>3. /\ <<"crossed", b>> \notin past /\ <<"skipped", b>> \notin past
      /\ b = "nfo" => <<"superseded", "nfo">> \notin past
  BY DEF Unmet
<1>4. Unmet(b)
  BY <1>1, <1>2, <1>3 DEF Unmet
<1> QED
  BY <1>4 DEF LeftOK

\* What is needed of one actor's step.
LEMMA OneActorLeft ==
  ASSUME Typed, LeftOK, NEW a \in Actor,
         UNCHANGED <<kind, runner>>, past \subseteq past',
         \A b \in BatchRun : refreshed'[b] \in Nat /\ refreshed'[b] >= refreshed[b],
         \A u \in Actor \ {a} : worker'[u] = worker[u],
         \A b \in BatchRun : \A j \in Rows(b) : Unmet(b)' /\ Unfinished(j) =>
           /\ job'[j].status # "done"
           /\ a \in Thread /\ worker'[a].pc = "ok" => worker'[a].job # j
  PROVE  LeftOK'
<1>1. \A b \in BatchRun : \A j \in Rows(b) : Unmet(b)' /\ Unfinished(j) => Unfinished(j)'
  <2> SUFFICES ASSUME NEW b \in BatchRun, NEW j \in Rows(b), Unmet(b)', Unfinished(j),
                      NEW t \in Thread, worker'[t].pc = "ok"
               PROVE  worker'[t].job # j /\ job'[j].status # "done"
    BY DEF Unfinished
  <2>1. t \in Actor
    BY DEF Actor
  <2> QED
    BY <2>1 DEF Unfinished
<1>2. refreshed \in [BatchRun -> Nat]
  BY DEF Typed, RestOK
<1> QED
  BY <1>1, <1>2, KeepLeft

LEMMA InitLeft == Init => LeftOK
<1> SUFFICES ASSUME Init PROVE LeftOK
  OBVIOUS
<1>1. \A t \in Thread : worker[t] = Idle
  BY DEF Init, Actor
<1>3. \A j \in Linked : Unfinished(j)
  <2>1. \A j \in Linked : job[j].status = "absent"
    BY DEF Init
  <2>2. \A t \in Thread : worker[t].pc = "idle"
    BY <1>1 DEF Idle
  <2> QED
    BY <2>1, <2>2 DEF Unfinished
<1>4. \A b \in BatchRun : \E j \in Rows(b) : Unfinished(j)
  BY <1>3, RowsAreLinked, RunAssumption DEF Rows
<1> QED
  BY <1>4 DEF LeftOK

LEMMA RunnerLeft == ASSUME Typed, LeftOK, Runner PROVE LeftOK'
<1>1. UNCHANGED <<kind, worker, refreshed>>
  BY DEF Runner, SyncEnds, SyncFails, Unwanted, EnqueueFails, EnqueueBatches,
         BeginPhase, BeginFails, ReadSummary, SaveSummary, NoFollowUps, FinalizeEnqueue
<1>2. past \subseteq past' \union {<<"late", "run">>}
  BY DEF Runner, SyncEnds, SyncFails, Unwanted, EnqueueFails, EnqueueBatches,
         BeginPhase, BeginFails, ReadSummary, SaveSummary, NoFollowUps, FinalizeEnqueue
<1>3. runner'.wants = runner.wants
  <2>1. runner \in RunnerRec
    BY DEF Typed, RestOK
  <2>2. \A b : Passed(b) \in RunnerRec /\ Passed(b).wants = runner.wants
    BY <2>1 DEF Passed, RunnerRec, BatchRun
  <2>3. CASE BeginPhase
    BY <2>2, <2>3 DEF BeginPhase, RunnerRec
  <2>4. CASE Unwanted \/ EnqueueFails \/ BeginFails
    BY <2>1, <2>2, <2>4 DEF Unwanted, EnqueueFails, BeginFails, RunnerRec
  <2>5. CASE SyncEnds \/ SyncFails \/ EnqueueBatches \/ NoFollowUps \/ FinalizeEnqueue
    BY <2>1, <2>5
    DEF SyncEnds, SyncFails, EnqueueBatches, NoFollowUps, FinalizeEnqueue, RunnerRec
  <2>6. CASE ReadSummary \/ SaveSummary
    BY <2>1, <2>6 DEF ReadSummary, SaveSummary, RunnerRec
  <2> QED
    BY <2>3, <2>4, <2>5, <2>6 DEF Runner
<1>4. \A j \in Linked : job'[j].status = "done" => job[j].status = "done"
  BY DEF Runner, SyncEnds, SyncFails, Unwanted, EnqueueFails, EnqueueBatches, SetRows,
         BeginPhase, BeginFails, ReadSummary, SaveSummary, NoFollowUps, FinalizeEnqueue
<1>5. LeftOK'
  <2>1. \A j \in Linked : Unfinished(j) => Unfinished(j)'
    BY <1>1, <1>4 DEF Unfinished
  <2>2. \A b \in BatchRun : \A j \in Rows(b) : Unmet(b)' /\ Unfinished(j) => Unfinished(j)'
    BY <2>1, RowsAreLinked
  <2>3. /\ refreshed \in [BatchRun -> Nat]
        /\ \A b \in BatchRun : refreshed'[b] \in Nat /\ refreshed'[b] >= refreshed[b]
    BY <1>1 DEF Typed, RestOK
  <2> QED
    BY <1>1, <1>2, <1>3, <2>2, <2>3, KeepLeft
<1> QED
  BY <1>5

\* The steps after which a thread neither ends its row nor has refreshed.
LEMMA EarlyLeft ==
  ASSUME Typed, LeftOK, NEW t \in Thread,
         \/ \E j \in Linked : Claim(t, j)
         \/ ReadCount(t) \/ SaveCount(t) \/ ScanLast(t) \/ Raise(t)
  PROVE  LeftOK'
<1>0. /\ t \in Actor /\ Thread \subseteq Actor /\ worker \in [Actor -> WorkerRec]
      /\ worker[t].pc \notin {"check", "complete"} => worker[t].then = "idle"
  BY DEF Actor, Typed, WorkersOK, Shape
<1>1. /\ UNCHANGED <<kind, runner, refreshed>> /\ past \subseteq past'
      /\ \A u \in Actor \ {t} : worker'[u] = worker[u]
  BY <1>0 DEF Claim, ReadCount, SaveCount, ScanLast, Raise
<1>2. worker'[t].pc # "ok"
  <2>1. ASSUME NEW j \in Linked, Claim(t, j) PROVE worker'[t].pc # "ok"
    <3>1. worker'[t] = [worker[t] EXCEPT !.pc = "claimed", !.job = j]
      BY <1>0, <2>1 DEF Claim
    <3>2. worker[t].then = "idle"
      BY <1>0, <2>1 DEF Claim
    <3> QED
      BY <1>0, <3>1, <3>2 DEF WorkerRec
  <2>2. CASE ReadCount(t)
    BY <1>0, <2>2 DEF ReadCount, WorkerRec
  <2>3. CASE SaveCount(t)
    BY <1>0, <2>3 DEF SaveCount, WorkerRec
  <2>4. CASE ScanLast(t)
    BY <1>0, <2>4 DEF ScanLast, WorkerRec
  <2>5. CASE Raise(t)
    BY <1>0, <2>5 DEF Raise, WorkerRec
  <2> QED
    BY <2>1, <2>2, <2>3, <2>4, <2>5
<1>3. \A j \in Linked : job'[j].status = "done" => job[j].status = "done"
  <2>1. ASSUME NEW i \in Linked, Claim(t, i)
        PROVE  \A j \in Linked : job'[j].status = "done" => job[j].status = "done"
    BY <2>1 DEF Claim, Typed, JobsOK
  <2> QED
    BY <2>1 DEF ReadCount, SaveCount, ScanLast, Raise
<1>4. \A b \in BatchRun : refreshed'[b] \in Nat /\ refreshed'[b] >= refreshed[b]
  BY <1>1 DEF Typed, RestOK
<1>5. LeftOK'
  <2>1. \A b \in BatchRun : \A j \in Rows(b) : Unfinished(j) => job'[j].status # "done"
    BY <1>3, RowsAreLinked DEF Unfinished
  <2> QED
    BY <1>0, <1>1, <1>2, <1>4, <2>1, OneActorLeft
<1> QED
  BY <1>5

\* A thread goes on to the end of its row without having refreshed.
LEMMA ToTheEndLeft ==
  ASSUME Typed, LeftOK, ClearedOK, NEW t \in Thread, Skip(t) \/ Work(t) \/ ScanNotLast(t)
  PROVE  LeftOK'
<1>0. /\ t \in Actor /\ Thread \subseteq Actor /\ worker \in [Actor -> WorkerRec] /\ worker[t].job \in Linked
      /\ worker[t].pc \notin {"check", "complete"} => worker[t].then = "idle"
  BY DEF Actor, Typed, WorkersOK, Shape, Skip, Work, ScanNotLast
<1>i. PICK i \in Linked : worker[t].job = i
  BY <1>0
<1>1. /\ UNCHANGED <<kind, runner, refreshed, job>> /\ past \subseteq past'
      /\ \A u \in Actor \ {t} : worker'[u] = worker[u]
  BY <1>0 DEF Skip, Work, ScanNotLast
<1>2. /\ worker'[t].job = i /\ worker'[t].then = "idle"
  <2>1. CASE Skip(t) \/ ScanNotLast(t)
    BY <1>0, <1>i, <2>1 DEF Skip, ScanNotLast, WorkerRec
  <2>2. CASE Work(t)
    BY <1>0, <1>i, <2>2 DEF Work, WorkerRec
  <2> QED
    BY <2>1, <2>2
<1>3. \A b \in BatchRun : refreshed'[b] \in Nat /\ refreshed'[b] >= refreshed[b]
  BY <1>1 DEF Typed, RestOK
<1>b. BatchOf(i) \in BatchRun
  BY BatchOfRows
<1>4. \A b \in BatchRun : i \notin Rows(b) \/ b = BatchOf(i)
  BY <1>0, OneBatch
<1>5. LeftOK'
  <2>1. CASE Skip(t)
    <3>1. ~Unmet(BatchOf(i))'
      BY <1>i, <2>1 DEF Skip, Unmet
    <3> QED
      BY <1>0, <1>1, <1>2, <1>3, <1>4, <3>1, OneActorLeft, RowsAreLinked DEF Unfinished
  <2>2. CASE Work(t)
    <3>1. worker'[t].pc = "ok" => ~Scans(i) /\ i \in Rows("nfo") /\ BatchOf(i) = "nfo"
      BY <1>0, <1>i, <2>2, RunAssumption DEF Work, WorkerRec, Scans, Rows, BatchOf, Linked
    <3>2. \A j : Scans(j)' <=> Scans(j)
      BY <1>1 DEF Scans
    <3>3. worker'[t].pc = "ok" => ~Unmet(BatchOf(i))'
      BY <3>1, <3>2 DEF Unmet, Rows
    <3> QED
      BY <1>0, <1>1, <1>2, <1>3, <1>4, <3>3, OneActorLeft, RowsAreLinked DEF Unfinished
  <2>3. CASE ScanNotLast(t)
    <3>1. \A b \in BatchRun \ {BatchOf(i)} : Unmet(b)' => \E j \in Rows(b) : Unfinished(j)'
      <4> SUFFICES ASSUME NEW b \in BatchRun \ {BatchOf(i)}, Unmet(b)'
                   PROVE  \E j \in Rows(b) : Unfinished(j)'
        OBVIOUS
      <4>1. Unmet(b)
        BY <1>1 DEF Unmet, Rows, Scans
      <4>2. PICK j \in Rows(b) : Unfinished(j)
        BY <4>1 DEF LeftOK
      <4>3. i # j
        BY <1>4, <4>2
      <4>4. \A u \in Thread : worker'[u].pc = "ok" => worker'[u].job # j
        BY <1>0, <1>1, <1>2, <4>2, <4>3 DEF Unfinished
      <4> QED
        BY <1>1, <4>2, <4>4 DEF Unfinished
    <3>2. Unmet(BatchOf(i))' => \E j \in Rows(BatchOf(i)) : Unfinished(j)'
      <4> SUFFICES ASSUME Unmet(BatchOf(i))' PROVE \E j \in Rows(BatchOf(i)) : Unfinished(j)'
        OBVIOUS
      <4>1. ~Superseded(i)
        <5>1. refreshed[BatchOf(i)] = 0
          BY <1>1 DEF Unmet
        <5>2. <<"cleared", BatchOf(i)>> \notin past
          BY <1>b, <5>1 DEF ClearedOK
        <5>3. BatchOf(i) = "nfo" => <<"superseded", "nfo">> \notin past
          BY <1>1 DEF Unmet
        <5> QED
          BY <5>2, <5>3 DEF Superseded, BatchOf
      <4>2. PICK j \in Siblings(i) : j \in Open(Siblings(i))
        BY <1>i, <2>3, <4>1 DEF ScanNotLast, Open
      <4>3. j \in Rows(BatchOf(i)) /\ i # j
        BY <4>2 DEF Siblings
      <4>4. \A u \in Thread \ {t} : worker[u].pc = "ok" => worker[u].job # j
        BY <1>i, <2>3, <4>2 DEF ScanNotLast, Unmet
      <4>5. \A u \in Thread : worker'[u].pc = "ok" => worker'[u].job # j
        BY <1>0, <1>1, <1>2, <4>3, <4>4
      <4>6. job'[j].status # "done"
        BY <1>1, <4>2 DEF Open
      <4> QED
        BY <4>3, <4>5, <4>6 DEF Unfinished
    <3> QED
      BY <3>1, <3>2 DEF LeftOK, Rows
  <2> QED
    BY <2>1, <2>2, <2>3
<1> QED
  BY <1>5

LEMMA RefreshLeft ==
  ASSUME Typed, LeftOK, NEW t \in Thread, Refresh(t) PROVE LeftOK'
<1>0. /\ t \in Actor /\ Thread \subseteq Actor /\ worker \in [Actor -> WorkerRec] /\ worker[t].job \in Linked
  BY DEF Actor, Typed, WorkersOK, Shape, Refresh
<1>i. PICK i \in Linked : worker[t].job = i
  BY <1>0
<1>1. /\ UNCHANGED <<kind, runner, job>> /\ past \subseteq past'
      /\ \A u \in Actor \ {t} : worker'[u] = worker[u]
  BY <1>0 DEF Refresh
<1>2. worker'[t].job = i
  BY <1>0, <1>i DEF Refresh, WorkerRec
<1>3. /\ \A b \in BatchRun : refreshed'[b] \in Nat /\ refreshed'[b] >= refreshed[b]
      /\ refreshed'[BatchOf(i)] > 0
  BY <1>0, <1>i, BatchOfRows DEF Refresh, Typed, RestOK
<1>b. BatchOf(i) \in BatchRun
  BY BatchOfRows
<1>4. \A b \in BatchRun : i \notin Rows(b) \/ b = BatchOf(i)
  BY <1>0, OneBatch
<1>5. ~Unmet(BatchOf(i))'
  BY <1>3 DEF Unmet
<1>6. LeftOK'
  BY <1>0, <1>1, <1>2, <1>3, <1>4, <1>5, OneActorLeft, RowsAreLinked DEF Unfinished
<1> QED
  BY <1>6

LEMMA CompletionLeft ==
  ASSUME Typed, LeftOK, NEW a \in Actor, Check(a) \/ Complete(a) PROVE LeftOK'
<1> DEFINE i == worker[a].job
<1>1. /\ UNCHANGED <<runner, job, refreshed>> /\ past \subseteq past'
      /\ \A u \in Actor \ {a} : worker'[u] = worker[u]
      /\ \/ /\ worker'[a].pc = "complete" /\ worker'[a].then = worker[a].then
            /\ worker'[a].job = i
         \/ /\ worker'[a].pc = worker[a].then /\ worker'[a].then = "idle"
            /\ worker[a].then # "idle" => worker'[a].job = i
  BY CompletionMoves
<1>2. kind' = kind
  BY DEF Check, Complete
<1>3. \A b \in BatchRun : refreshed'[b] \in Nat /\ refreshed'[b] >= refreshed[b]
  BY <1>1 DEF Typed, RestOK
<1>4. worker'[a].pc # "ok"
  <2>1. worker[a].then \in {"idle", "scan"}
    BY DEF Typed, WorkersOK, WorkerRec
  <2> QED
    BY <1>1, <2>1
<1>5. LeftOK'
  <2>2. \A b \in BatchRun : \A j \in Rows(b) : Unmet(b)' /\ Unfinished(j) =>
           /\ job'[j].status # "done"
           /\ a \in Thread /\ worker'[a].pc = "ok" => worker'[a].job # j
    BY <1>1, <1>4 DEF Unfinished
  <2> QED
    BY <1>1, <1>2, <1>3, <2>2, OneActorLeft
<1> QED
  BY <1>5

LEMMA FinishLeft ==
  ASSUME Typed, LeftOK, NEW t \in Thread, Finish(t) PROVE LeftOK'
<1> DEFINE i == worker[t].job
<1>0. /\ t \in Actor /\ Thread \subseteq Actor /\ worker \in [Actor -> WorkerRec] /\ i \in Linked
  BY DEF Actor, Typed, WorkersOK, Shape, Finish
<1>1. /\ UNCHANGED <<kind, runner, past, refreshed>>
      /\ \A u \in Actor \ {t} : worker'[u] = worker[u]
  BY <1>0 DEF Finish
<1>j. worker'[t] = Idle \/ worker'[t] = [Idle EXCEPT !.pc = "check", !.bad = worker[t].pc = "err"]
  BY <1>0 DEF Finish
<1>2. worker'[t].pc # "ok"
  <2>1. CASE worker'[t] = Idle
    BY <2>1 DEF Idle
  <2>2. CASE worker'[t] = [Idle EXCEPT !.pc = "check", !.bad = worker[t].pc = "err"]
    <3>1. worker'[t].pc = "check"
      BY <2>2 DEF Idle
    <3>2. worker'[t].then = "idle"
      BY <2>2 DEF Idle
    <3> QED
      BY <3>1, <3>2
  <2> QED
    BY <1>j, <2>1, <2>2
<1>3. \A b \in BatchRun : refreshed'[b] \in Nat /\ refreshed'[b] >= refreshed[b]
  BY <1>1 DEF Typed, RestOK
<1>4. \A j \in Linked : job[j].status # "done" /\ (worker[t].pc = "ok" => i # j)
                          => job'[j].status # "done"
  <2>1. CASE Holds(t)
    <3>1. PICK s \in IF worker[t].pc = "ok" THEN {"done"} ELSE {"pending", "failed"} :
            job' = SetRows({i}, s)
      BY <2>1 DEF Finish
    <3> QED
      BY <3>1 DEF SetRows
  <2>2. CASE ~Holds(t)
    BY <2>2 DEF Finish
  <2> QED
    BY <2>1, <2>2
<1>5. LeftOK'
  <2>1. \A b \in BatchRun : \A j \in Rows(b) : Unfinished(j) => job'[j].status # "done"
    BY <1>4, RowsAreLinked DEF Unfinished
  <2> QED
    BY <1>0, <1>1, <1>2, <1>3, <2>1, OneActorLeft
<1> QED
  BY <1>5

LEMMA WorldLeft ==
  ASSUME Typed, LeftOK, Poll \/ (\E j \in Linked : Reap(j)) \/ Supersede \/ Abandon \/ Restart
  PROVE  LeftOK'
<1>0. worker \in [Actor -> WorkerRec] /\ Thread \subseteq Actor /\ Poller \notin Thread
  BY RunAssumption DEF Actor, Typed, WorkersOK
<1>1. /\ UNCHANGED <<kind, refreshed>> /\ runner'.wants = runner.wants /\ past \subseteq past'
  BY DEF Poll, Reap, Supersede, Abandon, Restart, Typed, RestOK, RunnerRec
<1>2. \A t \in Thread : worker'[t] = worker[t] \/ worker'[t] = Idle
  BY <1>0 DEF Poll, Reap, Supersede, Abandon, Restart
<1>3. \A t \in Thread : worker'[t].pc = "ok" => worker'[t] = worker[t]
  BY <1>2 DEF Idle
<1>4. \A b \in BatchRun : \A j \in Rows(b) :
        Unmet(b)' /\ job[j].status # "done" => job'[j].status # "done"
  <2>1. CASE Supersede
    <3>1. ~Unmet("nfo")' /\ Rows("art") = Art
      BY <2>1 DEF Supersede, Unmet, Rows
    <3>2. \A j \in Art : job'[j] = job[j]
      BY <2>1, RunAssumption DEF Supersede, SetRows, Linked
    <3> QED
      BY <3>1, <3>2 DEF BatchRun
  <2>2. CASE ~Supersede
    <3>1. \A j \in Linked : job[j].status # "done" => job'[j].status # "done"
      BY <2>2 DEF Poll, Reap, Abandon, Restart, SetRows
    <3> QED
      BY <3>1, RowsAreLinked
  <2> QED
    BY <2>1, <2>2
<1>5. LeftOK'
  <2>1. \A b \in BatchRun : \A j \in Rows(b) : Unmet(b)' /\ Unfinished(j) => Unfinished(j)'
    BY <1>3, <1>4 DEF Unfinished
  <2>2. /\ refreshed \in [BatchRun -> Nat]
        /\ \A b \in BatchRun : refreshed'[b] \in Nat /\ refreshed'[b] >= refreshed[b]
    BY <1>1 DEF Typed, RestOK
  <2> QED
    BY <1>1, <2>1, <2>2, KeepLeft
<1> QED
  BY <1>5

LEMMA NextLeft == Typed /\ LeftOK /\ ClearedOK /\ [Next]_vars => LeftOK'
<1> SUFFICES ASSUME Typed, LeftOK, ClearedOK, [Next]_vars PROVE LeftOK'
  OBVIOUS
<1>1. CASE UNCHANGED vars
  BY <1>1 DEF vars, LeftOK, Unmet, Unfinished, Rows, Scans
<1>2. ASSUME NEW t \in Thread, Step(t) PROVE LeftOK'
  <2>1. t \in Actor
    BY DEF Actor
  <2> QED
    BY <1>2, <2>1, EarlyLeft, ToTheEndLeft, RefreshLeft,
       CompletionLeft, FinishLeft DEF Step
<1>3. CASE Check(Poller) \/ Complete(Poller)
  BY <1>3, CompletionLeft DEF Actor
<1> QED
  BY <1>1, <1>2, <1>3, RunnerLeft, WorldLeft DEF Next

LEMMA LeftMeansRefreshed == Typed /\ LeftOK => RefreshNotMissed
<1> SUFFICES ASSUME Typed, LeftOK,
                    \A j \in Nfo : job[j].status = "done" /\ Scans(j),
                    <<"superseded", "nfo">> \notin past,
                    {<<x, "nfo">> : x \in {"crossed", "skipped"}} \intersect past = {}
             PROVE  refreshed["nfo"] > 0
  BY DEF RefreshNotMissed
<1>1. "nfo" \in BatchRun /\ Rows("nfo") = Nfo
  BY DEF BatchRun, Rows
<1>2. ~\E j \in Rows("nfo") : Unfinished(j)
  BY <1>1 DEF Unfinished
<1>3. ~Unmet("nfo")
  BY <1>1, <1>2 DEF LeftOK
<1>4. <<"crossed", "nfo">> \notin past /\ <<"skipped", "nfo">> \notin past
  OBVIOUS
<1>5. refreshed["nfo"] # 0
  BY <1>1, <1>3, <1>4 DEF Unmet
<1> QED
  BY <1>1, <1>5 DEF Typed, RestOK

\* When all NFO batches that look for the last one are done, the media servers
\* have been asked to refresh the sections, but for the three exceptions, for any
\* number of batches, threads and faults.
THEOREM TaskRefreshNotMissed == Spec => []RefreshNotMissed
<1>1. Init => ClearedOK
  BY DEF Init, ClearedOK
<1>2. Spec => [](Typed /\ LeftOK /\ ClearedOK)
  BY <1>1, InitTyped, NextTyped, InitLeft, NextLeft, NextCleared, PTL DEF Spec
<1> QED
  BY <1>2, LeftMeansRefreshed, PTL

-----------------------------------------------------------------------------
(***************************************************************************)
(* A run is not left working.  Once a batch run has been opened with rows  *)
(* still open, the thread that ends the last of them goes on to complete   *)
(* the run, and sees nothing open any more.                                *)
(***************************************************************************)

Completing(t) == worker[t].pc \in {"check", "complete"}

\* The run waits for something that will close it.
Awaited == Open(Linked) # {} \/ \E t \in Thread : Completing(t)

WorkingOK ==
  /\ run.status = "working" /\ (runner.pc = "over" \/ runner.queued # {}) =>
       {<<"late", "run">>, <<"superseded", "nfo">>} \intersect past # {} \/ Awaited
  /\ runner.pc = "save" => runner.queued # {}

Excused == <<"late", "run">> \in past \/ <<"superseded", "nfo">> \in past

LEMMA WorkingForm ==
  WorkingOK <=>
    /\ run.status = "working" /\ (runner.pc = "over" \/ runner.queued # {}) => Excused \/ Awaited
    /\ runner.pc = "save" => runner.queued # {}
BY DEF WorkingOK, Excused

\* What keeps the run awaited through a step of a handler.
LEMMA KeepWorking ==
  ASSUME WorkingOK, runner' = runner, run'.status = "working" => run.status = "working",
         past \subseteq past', Awaited /\ run'.status = "working" => Awaited'
  PROVE  WorkingOK'
<1>1. Excused => Excused'
  BY DEF Excused
<1>2. WorkingOK' <=>
        /\ run'.status = "working" /\ (runner'.pc = "over" \/ runner'.queued # {}) => Excused' \/ Awaited'
        /\ runner'.pc = "save" => runner'.queued # {}
  BY DEF WorkingOK, Excused
<1> QED
  BY <1>1, <1>2, WorkingForm

LEMMA InitWorking == Init => WorkingOK
BY DEF Init, WorkingOK

\* The rows that are open stay so if no step ends them.
LEMMA StillOpen ==
  ASSUME \A j \in Linked : job[j].status \in {"pending", "claimed"} =>
                             job'[j].status \in {"pending", "claimed"}
  PROVE  Open(Linked) # {} => Open(Linked)' # {}
BY DEF Open

LEMMA RunnerWorking == ASSUME Typed, WorkingOK, Runner PROVE WorkingOK'
<1>0. runner \in RunnerRec /\ run \in RunRec /\ worker' = worker
  BY DEF Typed, RestOK, Runner, SyncEnds, SyncFails, Unwanted, EnqueueFails, EnqueueBatches,
         BeginPhase, BeginFails, ReadSummary, SaveSummary, NoFollowUps, FinalizeEnqueue
<1>f. WorkingOK' <=>
        /\ run'.status = "working" /\ (runner'.pc = "over" \/ runner'.queued # {}) => Excused' \/ Awaited'
        /\ runner'.pc = "save" => runner'.queued # {}
  BY DEF WorkingOK, Excused
<1>p. \A b : /\ Passed(b).pc \in {"enqueue", "end"} /\ Passed(b).queued = runner.queued
             /\ Passed(b) \in RunnerRec
  BY <1>0 DEF Passed, RunnerRec, BatchRun
<1>1. CASE EnqueueBatches
  <2>1. runner'.pc = "begin"
    BY <1>0, <1>1 DEF EnqueueBatches, RunnerRec
  <2>2. PICK j \in Linked : j \in Rows(runner.at)
    BY <1>0, RunAssumption DEF Rows, Linked, RunnerRec, BatchRun
  <2>3. job'[j].status = "pending"
    BY <1>1, <2>2 DEF EnqueueBatches, SetRows
  <2>4. Awaited'
    BY <2>3 DEF Awaited, Open
  <2> QED
    BY <1>f, <2>1, <2>4
<1>2. CASE BeginPhase
  <2>1. runner'.pc \in {"enqueue", "end"}
    BY <1>2, <1>p DEF BeginPhase, RunnerRec
  <2>2. Excused' \/ Awaited'
    BY <1>2 DEF BeginPhase, Excused, Awaited, Open
  <2> QED
    BY <1>f, <2>1, <2>2
<1>3. CASE ~EnqueueBatches /\ ~BeginPhase
  <2>1. /\ run'.status = "working" => run.status = "working"
        /\ past \subseteq past' /\ job' = job
    BY <1>0, <1>3 DEF Runner, SyncEnds, SyncFails, Unwanted, EnqueueFails,
         BeginFails, ReadSummary, SaveSummary, NoFollowUps, FinalizeEnqueue, RunRec
  <2>2. (Excused => Excused') /\ (Awaited <=> Awaited')
    BY <1>0, <2>1 DEF Excused, Awaited, Open, Completing
  <2>3. CASE SyncEnds
    BY <1>0, <1>f, <2>1, <2>2, <2>3, WorkingForm DEF SyncEnds, RunnerRec
  <2>4. CASE Unwanted \/ EnqueueFails
    BY <1>0, <1>f, <1>p, <2>1, <2>2, <2>4, WorkingForm DEF Unwanted, EnqueueFails
  <2>5. CASE SyncFails
    BY <1>0, <1>f, <2>5 DEF SyncFails, RunnerRec, RunRec
  <2>6. CASE BeginFails
    <3>1. CASE kind = "full"
      BY <1>0, <1>f, <1>p, <2>1, <2>2, <2>6, <3>1, WorkingForm DEF BeginFails
    <3>2. CASE kind # "full"
      BY <1>0, <1>f, <2>6, <3>2 DEF BeginFails, RunnerRec, RunRec
    <3> QED
      BY <3>1, <3>2
  <2>7. CASE ReadSummary
    BY <1>0, <1>f, <2>1, <2>2, <2>7, WorkingForm DEF ReadSummary, RunnerRec
  <2>8. CASE SaveSummary
    BY <1>0, <1>f, <2>1, <2>2, <2>8, WorkingForm DEF SaveSummary, RunnerRec
  <2>9. CASE NoFollowUps
    <3>1. runner'.pc = "over" /\ runner'.queued = {}
      BY <1>0, <2>9 DEF NoFollowUps, RunnerRec
    <3>2. run'.status = "working" => Open(Linked) # {}
      BY <1>0, <2>9 DEF NoFollowUps, RunRec
    <3> QED
      BY <1>f, <2>2, <3>1, <3>2 DEF Awaited
  <2>10. CASE FinalizeEnqueue
    <3>1. runner'.pc = "over" /\ runner'.queued = runner.queued
      BY <1>0, <2>10 DEF FinalizeEnqueue, RunnerRec
    <3>2. run'.status = "working" => runner.queued # {}
      BY <1>0, <2>10 DEF FinalizeEnqueue, RunRec
    <3> QED
      BY <1>f, <2>1, <2>2, <3>1, <3>2, WorkingForm
  <2> QED
    BY <1>3, <2>3, <2>4, <2>5, <2>6, <2>7, <2>8, <2>9, <2>10 DEF Runner
<1> QED
  BY <1>1, <1>2, <1>3

LEMMA ThreadWorking ==
  ASSUME Typed, WorkingOK, NEW t \in Thread, Step(t) PROVE WorkingOK'
<1>0. /\ t \in Actor /\ Thread \subseteq Actor /\ worker \in [Actor -> WorkerRec]
      /\ run \in RunRec /\ runner' = runner
  BY DEF Actor, Typed, WorkersOK, RestOK, Step, Claim, Skip, Work, ReadCount, SaveCount,
         ScanNotLast, ScanLast, Refresh, Check, Complete, Raise, Finish
<1>1. /\ run'.status = "working" => run.status = "working"
      /\ past \subseteq past'
      /\ \A u \in Actor \ {t} : worker'[u] = worker[u]
  BY <1>0 DEF Step, Claim, Skip, Work, ReadCount, SaveCount, ScanNotLast, ScanLast, Refresh,
         Check, Complete, Raise, Finish, RunRec
<1>2. CASE Complete(t)
  <2>1. run'.status # "working"
    BY <1>0, <1>2 DEF Complete, RunRec
  <2> QED
    BY <1>0, <1>1, <2>1, KeepWorking
<1>3. CASE Finish(t)
  <2>1. ~Completing(t)
    BY <1>3 DEF Finish, Completing
  <2>2. CASE Holds(t)
    <3>1. worker'[t].pc = "check"
      <4>1. worker'[t] = [Idle EXCEPT !.pc = "check", !.bad = worker[t].pc = "err"]
        BY <1>0, <1>3, <2>2 DEF Finish
      <4> QED
        BY <4>1 DEF Idle
    <3>2. Awaited'
      BY <3>1 DEF Awaited, Completing
    <3> QED
      BY <1>0, <1>1, <3>2, KeepWorking
  <2>3. CASE ~Holds(t)
    <3>1. job' = job
      BY <1>3, <2>3 DEF Finish
    <3>2. Awaited => Awaited'
      BY <1>0, <1>1, <2>1, <3>1 DEF Awaited, Open, Completing
    <3> QED
      BY <1>0, <1>1, <3>2, KeepWorking
  <2> QED
    BY <2>2, <2>3
<1>4. CASE Check(t)
  <2>1. job' = job /\ (kind = "full" \/ run.status = "working" => \/ Open(Looked(t)) # {}
                                                                 \/ Completing(t)')
    BY <1>0, <1>4 DEF Check, Drained, WorkerRec, Completing
  <2>2. Open(Looked(t)) \subseteq Open(Linked)
    BY DEF Looked, Open, Others
  <2>3. run'.status = "working" => Awaited'
    BY <1>1, <2>1, <2>2 DEF Awaited, Open
  <2> QED
    BY <1>0, <1>1, <2>3, KeepWorking
<1>5. CASE ~Complete(t) /\ ~Finish(t) /\ ~Check(t)
  <2>1. ~Completing(t)
    BY <1>5 DEF Step, Claim, Skip, Work, ReadCount, SaveCount, ScanNotLast, ScanLast, Refresh,
                Raise, Completing
  <2>2. \A j \in Linked : job[j].status \in {"pending", "claimed"} =>
                             job'[j].status \in {"pending", "claimed"}
    <3>1. ASSUME NEW i \in Linked, Claim(t, i)
          PROVE  \A j \in Linked : job[j].status \in {"pending", "claimed"} =>
                                     job'[j].status \in {"pending", "claimed"}
      BY <3>1 DEF Claim, Typed, JobsOK
    <3> QED
      BY <1>5, <3>1 DEF Step, Skip, Work, ReadCount, SaveCount, ScanNotLast, ScanLast, Refresh, Raise
  <2>3. Awaited => Awaited'
    BY <1>0, <1>1, <2>1, <2>2, StillOpen DEF Awaited, Completing
  <2> QED
    BY <1>0, <1>1, <2>3, KeepWorking
<1> QED
  BY <1>2, <1>3, <1>4, <1>5

LEMMA WorldWorking ==
  ASSUME Typed, WorkingOK,
         \/ Poll \/ Check(Poller) \/ Complete(Poller) \/ (\E j \in Linked : Reap(j))
         \/ Supersede \/ Abandon \/ Restart
  PROVE  WorkingOK'
<1>0. /\ worker \in [Actor -> WorkerRec] /\ Thread \subseteq Actor \ {Poller} /\ Poller \in Actor
      /\ run \in RunRec /\ runner \in RunnerRec
  BY RunAssumption DEF Actor, Typed, WorkersOK, RestOK
<1>1. /\ run'.status = "working" => run.status = "working"
      /\ past \subseteq past'
  BY <1>0 DEF Poll, Check, Complete, Reap, Supersede, Abandon, Restart, RunRec
<1>2. CASE Poll \/ Check(Poller) \/ Complete(Poller) \/ \E j \in Linked : Reap(j)
  <2>1. runner' = runner /\ \A t \in Thread : worker'[t] = worker[t]
    BY <1>0, <1>2 DEF Poll, Check, Complete, Reap
  <2>2. \A j \in Linked : job[j].status \in {"pending", "claimed"} =>
                             job'[j].status \in {"pending", "claimed"}
    BY <1>2 DEF Poll, Check, Complete, Reap, SetRows
  <2>3. Awaited => Awaited'
    BY <2>1, <2>2, StillOpen DEF Awaited, Completing
  <2> QED
    BY <1>1, <2>1, <2>3, KeepWorking
<1>3. CASE Supersede
  <2>1. runner' = runner /\ Excused'
    BY <1>3 DEF Supersede, Excused
  <2>2. WorkingOK' <=>
          /\ run'.status = "working" /\ (runner'.pc = "over" \/ runner'.queued # {}) => Excused' \/ Awaited'
          /\ runner'.pc = "save" => runner'.queued # {}
    BY DEF WorkingOK, Excused
  <2> QED
    BY <2>1, <2>2, WorkingForm
<1>4. CASE Abandon \/ Restart
  <2>1. run'.status # "working"
    BY <1>0, <1>4 DEF Abandon, Restart, RunRec
  <2>2. runner'.pc = "save" => runner'.queued # {}
    BY <1>0, <1>4 DEF Abandon, Restart, WorkingOK, RunnerRec
  <2> QED
    BY <2>1, <2>2 DEF WorkingOK
<1> QED
  BY <1>2, <1>3, <1>4

LEMMA NextWorking == Typed /\ WorkingOK /\ [Next]_vars => WorkingOK'
<1> SUFFICES ASSUME Typed, WorkingOK, [Next]_vars PROVE WorkingOK'
  OBVIOUS
<1>1. CASE UNCHANGED vars
  BY <1>1 DEF vars, WorkingOK, Awaited, Open, Completing
<1> QED
  BY <1>1, RunnerWorking, ThreadWorking, WorldWorking DEF Next

LEMMA WorkingMeansSettled == WorkingOK => SettledWhenDrained
BY DEF WorkingOK, Awaited, Completing, SettledWhenDrained, Quiet

\* When the runner, the batches and the threads are at rest, the run is not left
\* working, unless its batches ended before its phase was opened or a sweep
\* superseded them, for any number of batches, threads and faults.
THEOREM TaskSettles == Spec => []SettledWhenDrained
<1>1. Spec => [](Typed /\ WorkingOK)
  BY InitTyped, NextTyped, InitWorking, NextWorking, PTL DEF Spec
<1> QED
  BY <1>1, WorkingMeansSettled, PTL
=============================================================================
