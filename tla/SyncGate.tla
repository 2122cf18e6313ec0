------------------------------ MODULE SyncGate ------------------------------
(***************************************************************************)
(* The row-based gate that keeps heavy work to one run at a time: a row of *)
(* app_config with an owner and a timestamp, which heartbeats keep fresh   *)
(* and which may be stolen once it is stale.  services/source_of_truth/    *)
(* startup_sync_job.py and class_singleton.py hold the same code twice;    *)
(* they differ in the owner's name, "job:<id>" for a startup sync and      *)
(* "pid:<pid>:tid:<thread>" for the calendar phase.                        *)
(*                                                                         *)
(* A unit of time is one heartbeat interval.                               *)
(***************************************************************************)
EXTENDS Naturals, FiniteSets

CONSTANTS Request,       \* requests to run, rows of the job table
          Thread,        \* worker threads
          NoOwner,
          OwnerIsJob,    \* TRUE: startup_sync_job.py, FALSE: class_singleton.py
          Stale,         \* stale_seconds, in heartbeat intervals
          MaxGateFaults  \* bound: crashes, reaps of a running job, failed runs,
                         \* failed statements and stalled heartbeats

ASSUME GateAssumption == /\ OwnerIsJob \in BOOLEAN /\ Stale \in Nat \ {0, 1}
                         /\ MaxGateFaults \in Nat
                         /\ NoOwner \notin Thread \union Request

VARIABLES gate,     \* [held, owner, age], the app_config row
          job,      \* [Request -> JobState]
          claim,    \* [Request -> the thread whose claim the row carries]
          run,      \* [Thread -> [pc, job, ok]]
          beating,  \* threads with a heartbeat between its SELECT and its UPDATE
          stalled,  \* runs whose heartbeat does not get through
          overrun,  \* runs that lost the gate while at work
          cut,      \* jobs whose run a crash ended, until a run takes over
          gateFaults

gateVars == <<gate, job, claim, run, beating, stalled, overrun, cut, gateFaults>>
history == <<stalled, overrun, cut>>

JobState == {"absent", "pending", "claimed", "done", "failed"}
Idle == [pc |-> "idle", job |-> NoOwner, ok |-> FALSE]

GateInit == /\ gate = [held |-> FALSE, owner |-> NoOwner, age |-> 0]
            /\ job = [j \in Request |-> "absent"]
            /\ claim = [j \in Request |-> NoOwner]
            /\ run = [t \in Thread |-> Idle]
            /\ beating = {} /\ stalled = {} /\ overrun = {} /\ cut = {}
            /\ gateFaults = MaxGateFaults

GateFault == gateFaults > 0 /\ gateFaults' = gateFaults - 1

Owner(t) == IF OwnerIsJob THEN run[t].job ELSE t
AtWork(t) == run[t].pc \in {"working", "ending"}   \* between acquire and release
Owns(t) == gate.held /\ gate.owner = Owner(t)
Expired == gate.age >= Stale

-----------------------------------------------------------------------------
(* The job's row, as far as it matters here *)

EnqueueSync(j) == /\ job[j] = "absent"
                  /\ job' = [job EXCEPT ![j] = "pending"]
                  /\ UNCHANGED <<gate, claim, run, beating, history, gateFaults>>

ClaimSync(t, j) == /\ run[t].pc = "idle" /\ job[j] = "pending"
                   /\ job' = [job EXCEPT ![j] = "claimed"]
                   /\ claim' = [claim EXCEPT ![j] = t]
                   /\ run' = [run EXCEPT ![t] = [pc |-> "claimed", job |-> j, ok |-> FALSE]]
                   /\ UNCHANGED <<gate, beating, history, gateFaults>>

\* The reaper takes a long run for dead.
ReapSync(j) == /\ job[j] = "claimed"
               /\ job' = [job EXCEPT ![j] = "pending"]
               /\ claim' = [claim EXCEPT ![j] = NoOwner]
               /\ GateFault
               /\ UNCHANGED <<gate, run, beating, history>>

\* The row gets the status s if the claim is still t's.
Settle(t, s) == LET j == run[t].job IN
                /\ run' = [run EXCEPT ![t] = Idle]
                /\ IF claim[j] = t
                     THEN /\ job' = [job EXCEPT ![j] = s]
                          /\ claim' = [claim EXCEPT ![j] = NoOwner]
                     ELSE UNCHANGED <<job, claim>>

-----------------------------------------------------------------------------
(* The gate *)

Take(t) == /\ gate' = [held |-> TRUE, owner |-> Owner(t), age |-> 0]
           /\ run' = [run EXCEPT ![t].pc = "working"]
           /\ overrun' = overrun \union {s \in Thread : AtWork(s)}
           /\ stalled' = stalled \ {t}
           /\ cut' = {}
           /\ UNCHANGED <<job, claim, beating, gateFaults>>

AcquireEarly(t) ==   \* a gate counts as stale one interval too soon
  /\ run[t].pc = "claimed"
  /\ ~gate.held \/ gate.age + 1 >= Stale
  /\ Take(t)

\* _try_acquire_sync_gate, try_acquire_class_singleton: the row is missing, not
\* active or stale.
Acquire(t) == /\ run[t].pc = "claimed"
              /\ ~gate.held \/ Expired
              /\ Take(t)

\* A fresh owner, or a failed query, "treated as lock denied": the handler
\* returns ok, and the job is done without a run.
Deny(t) == /\ run[t].pc = "claimed"
           /\ \/ gate.held /\ ~Expired /\ UNCHANGED gateFaults
              \/ GateFault
           /\ Settle(t, "done")
           /\ UNCHANGED <<gate, beating, history>>

\* The work is over, well or not, and stop_hb is set.
WorkEnds(t, ok) == /\ run[t].pc = "working"
                   /\ run' = [run EXCEPT ![t].pc = "ending", ![t].ok = ok]
                   /\ IF ok THEN UNCHANGED gateFaults ELSE GateFault
                   /\ UNCHANGED <<gate, job, claim, beating, history>>

Leave(t) == /\ run' = [run EXCEPT ![t].pc = "over"]
            /\ overrun' = overrun \ {t}
            /\ stalled' = stalled \ {t}
            /\ UNCHANGED <<job, claim, beating, cut>>

ReleaseUnchecked(t) ==   \* whoever the owner is
  /\ run[t].pc = "ending"
  /\ gate' = [held |-> FALSE, owner |-> Owner(t), age |-> 0]
  /\ UNCHANGED gateFaults
  /\ Leave(t)

\* _release_sync_gate, release_class_singleton: another owner is left alone,
\* and errors are swallowed.
Release(t) == /\ run[t].pc = "ending"
              /\ \/ /\ gate.owner = Owner(t)
                    /\ gate' = [gate EXCEPT !.held = FALSE, !.age = 0]
                    /\ UNCHANGED gateFaults
                 \/ gate.owner # Owner(t) /\ UNCHANGED <<gate, gateFaults>>
                 \/ GateFault /\ UNCHANGED gate
              /\ Leave(t)

FinishSync(t) == /\ run[t].pc = "over"
                 /\ \/ run[t].ok /\ Settle(t, "done")
                    \/ ~run[t].ok /\ \E s \in {"pending", "failed"} : Settle(t, s)
                 /\ UNCHANGED <<gate, beating, history, gateFaults>>

-----------------------------------------------------------------------------
(* Heartbeats, time and crashes *)

BeatOutlivesRun(t) ==   \* stop_hb is not set, and active not looked at
  /\ beating' = beating \union {t}
  /\ UNCHANGED <<gate, job, claim, run, history, gateFaults>>

\* _heartbeat_sync_gate reads the row without a lock...
BeatLooks(t) == /\ run[t].pc = "working" /\ t \notin stalled
                /\ Owns(t)
                /\ beating' = beating \union {t}
                /\ UNCHANGED <<gate, job, claim, run, history, gateFaults>>

\* ... and writes updated_at alone, whatever became of the row or the run.
BeatWrites(t) == /\ t \in beating
                 /\ gate' = [gate EXCEPT !.age = 0]
                 /\ beating' = beating \ {t}
                 /\ UNCHANGED <<job, claim, run, history, gateFaults>>

Stall(t) == /\ AtWork(t) /\ t \notin stalled
            /\ stalled' = stalled \union {t}
            /\ GateFault
            /\ UNCHANGED <<gate, job, claim, run, beating, overrun, cut>>

\* A heartbeat that gets through does so once per interval.
Tick == /\ gate.held /\ ~Expired
        /\ \A t \in Thread \ stalled : run[t].pc = "working" /\ Owns(t) => gate.age + 1 < Stale
        /\ gate' = [gate EXCEPT !.age = @ + 1]
        /\ UNCHANGED <<job, claim, run, beating, history, gateFaults>>

\* The process dies; the next one requeues what it had claimed.
Crash == /\ GateFault
         /\ run' = [t \in Thread |-> Idle]
         /\ job' = [j \in Request |-> IF job[j] = "claimed" THEN "pending" ELSE job[j]]
         /\ claim' = [j \in Request |-> NoOwner]
         /\ cut' = cut \union {run[t].job : t \in {s \in Thread : AtWork(s)}}
         /\ beating' = {} /\ stalled' = {} /\ overrun' = {}
         /\ UNCHANGED gate

-----------------------------------------------------------------------------
RunStep(t) == \/ \E j \in Request : ClaimSync(t, j)
              \/ Acquire(t) \/ Deny(t)
              \/ \E ok \in BOOLEAN : WorkEnds(t, ok)
              \/ Release(t) \/ FinishSync(t)

Beat(t) == BeatLooks(t) \/ BeatWrites(t)

GateNext == \/ \E j \in Request : EnqueueSync(j) \/ ReapSync(j)
            \/ \E t \in Thread : RunStep(t) \/ Beat(t) \/ Stall(t)
            \/ Tick \/ Crash

\* Threads run, syncs end, a heartbeat that read the row writes it, time passes.
GateFairness == /\ \A t \in Thread : WF_gateVars(RunStep(t)) /\ WF_gateVars(BeatWrites(t))
                /\ WF_gateVars(Tick)

GateSpec == GateInit /\ [][GateNext]_gateVars
FairGateSpec == GateSpec /\ GateFairness

-----------------------------------------------------------------------------
(* Properties *)

Runs == [pc : {"idle", "claimed", "working", "ending", "over"},
         job : Request \union {NoOwner}, ok : BOOLEAN]

\* Every variable stays in its range, a busy thread has a job, and only the row
\* of a claimed job carries a claim, so no late finish settles another one.
GateTypeOK == /\ gate \in [held : BOOLEAN, owner : Request \union Thread \union {NoOwner}, age : 0..Stale]
              /\ job \in [Request -> JobState]
              /\ claim \in [Request -> Thread \union {NoOwner}]
              /\ \A j \in Request : job[j] = "claimed" <=> claim[j] # NoOwner
              /\ run \in [Thread -> Runs]
              /\ \A t \in Thread : run[t].pc # "idle" => run[t].job \in Request
              /\ beating \subseteq Thread /\ stalled \subseteq Thread /\ overrun \subseteq Thread
              /\ cut \subseteq Request
              /\ gateFaults \in Nat

\* A run at work owns the gate unless it was overrun, so that no two others are
\* at work: although a late release or heartbeat of an overrun run may come at
\* any time, it does not free the gate of the run that took over.
WorkersOwnGate == \A t \in Thread : AtWork(t) => Owns(t) \/ t \in overrun
OneAtATime == \A s, t \in Thread \ overrun : AtWork(s) /\ AtWork(t) => s = t
Exclusive == WorkersOwnGate /\ OneAtATime

\* The gate of a run whose heartbeats get through is fresh.
FreshWhileBeating ==
  \A t \in Thread \ stalled : run[t].pc = "working" /\ t \notin overrun => ~Expired

\* A run that is at work and whose heartbeats get through is never overrun.
HeartbeatKeepsGate ==
  [][\A t \in Thread \ stalled :
        run[t].pc = "working" /\ t \notin overrun => t \notin overrun']_gateVars

\* The gate keeps the promise of Singleton: a class is taken only when it is
\* free, from a run that is on its way out, or from one whose heartbeats do not
\* get through (class_singleton.py: "One-at-a-time gate for heavy job classes").
\* A run that lost the gate while at work no longer has the class.
Has(t) == AtWork(t) /\ t \notin overrun
Class == INSTANCE Singleton WITH
           at <- [t \in Thread |-> IF Has(t) THEN run[t].pc ELSE "out"],
           mute <- {t \in stalled : Has(t)}
ImplementsSingleton == Class!Spec

\* A gate that a dead or finished run left behind does not stay closed: it is
\* released, expires or is somebody's again.
AbandonedGateOpens ==
  (gate.held /\ \A t \in Thread : ~AtWork(t))
     ~> (~gate.held \/ Expired \/ \E t \in Thread : AtWork(t))

-----------------------------------------------------------------------------
(* What comments of the code say and the code does not do *)

\* startup_sync_job.py:16-18: "If the worker crashes mid-sync the heartbeat stops
\* being updated and a follow-up attempt sees the row as expired and takes over".
CrashedSyncTakenOver == \A j \in cut : job[j] # "done"
=============================================================================
