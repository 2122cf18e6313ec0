-------------------------- MODULE WakeAndGateProofs --------------------------
(***************************************************************************)
(* Proofs about two protocols of the worker: how its executors are woken   *)
(* (DrainWake), for every number of rows and executors, every cap of a     *)
(* drain pass and every number of faults; and the gate of a class          *)
(* singleton (SyncGate).  The gate keeps its types for either kind of      *)
(* owner; that it is exclusive, and that heartbeats keep it, is proved for *)
(* the owner that names a thread: with the owner "job:<id>" both are false.*)
(***************************************************************************)
EXTENDS DrainWake, SyncGate, TLAPS

LEMMA TypedStep == ASSUME TypeOK, [Next]_vars PROVE TypeOK'
<1> USE DrainAssumption DEF TypeOK, RowState, Link, Pc
<1>1. CASE UNCHANGED vars
  BY <1>1 DEF vars
<1>2. ASSUME NEW j \in Job, NEW s \in {"later", "ready"}, Enqueue(j, s) PROVE TypeOK'
  BY <1>2 DEF Enqueue, Notify, threads
<1>3. ASSUME NEW j \in Job, Due(j) PROVE TypeOK'
  BY <1>3 DEF Due, wakes, threads
<1>4. ASSUME NEW j \in Job, Lock(j) PROVE TypeOK'
  BY <1>4 DEF Lock, Fault, wakes, threads
<1>5. ASSUME NEW j \in Job, Unlock(j) PROVE TypeOK'
  BY <1>5 DEF Unlock, wakes, threads
<1>6. ASSUME NEW j \in Job, Reap(j) PROVE TypeOK'
  <2>1. faults' \in Nat
    BY <1>6 DEF Reap, Fault
  <2>2. pc' \in [Executor -> Pc] /\ \A e \in Executor : pc'[e] \in {"drain", "run"} => pc'[e] = pc[e]
    BY <1>6 DEF Reap, SetEvent, Awakened
  <2>3. /\ row' \in [Job -> RowState] /\ owner' \in [Job -> Executor \union {Nobody}]
        /\ flag' \in BOOLEAN /\ wire' \in BOOLEAN
        /\ UNCHANGED <<notifyOn, locked, silent, link, drained, alarm>>
    BY <1>6 DEF Reap, SetEvent
  <2> QED
    BY <2>1, <2>2, <2>3
<1>7. ASSUME NEW e \in Executor, Step(e) PROVE TypeOK'
  <2>1. CASE Start(e) \/ NothingToClaim(e) \/ Timeout(e)
    BY <2>1 DEF Start, NothingToClaim, Timeout, rows, wakes
  <2>9. CASE ClearEvent(e)
    <3>1. alarm' \in [Executor -> SUBSET Job]
      BY <2>9, Zenon DEF ClearEvent
    <3>2. /\ drained' \in [Executor -> 0..MaxPerDrain] /\ pc' \in [Executor -> Pc]
          /\ \A f \in Executor : pc'[f] \in {"drain", "run"} => drained'[f] < MaxPerDrain
      BY <2>9 DEF ClearEvent
    <3> QED
      BY <2>9, <3>1, <3>2 DEF ClearEvent, rows
  <2>2. ASSUME NEW j \in Job, Claim(e, j) PROVE TypeOK'
    BY <2>2 DEF Claim, Notify
  <2>3. CASE ClaimFails(e)
    BY <2>3 DEF ClaimFails, Claimable, Fault, wakes
  <2>4. ASSUME NEW j \in Job, NEW s \in {"done", "ready"}, Finish(e, j, s) PROVE TypeOK'
    <3>1. faults' \in Nat
      BY <2>4 DEF Finish, Fault
    <3>2. /\ drained' \in [Executor -> 0..MaxPerDrain] /\ pc' \in [Executor -> Pc]
          /\ \A f \in Executor : pc'[f] \in {"drain", "run"} => drained'[f] < MaxPerDrain
      BY <2>4 DEF Finish, NextInPass
    <3> QED
      BY <2>4, <3>1, <3>2 DEF Finish, Notify, NextInPass
  <2>5. CASE FinishNothing(e)
    <3>1. faults' \in Nat /\ owner' \in [Job -> Executor \union {Nobody}]
      BY <2>5 DEF FinishNothing, Fault
    <3>2. /\ drained' \in [Executor -> 0..MaxPerDrain] /\ pc' \in [Executor -> Pc]
          /\ \A f \in Executor : pc'[f] \in {"drain", "run"} => drained'[f] < MaxPerDrain
      BY <2>5 DEF FinishNothing, NextInPass
    <3> QED
      BY <2>5, <3>1, <3>2 DEF FinishNothing, NextInPass, wakes
  <2>6. CASE Escape(e)
    BY <2>6 DEF Escape, Fault, wakes
  <2>7. CASE Look(e)
    BY <2>7 DEF Look, AfterWait, rows, wakes
  <2>8. CASE LookFails(e)
    BY <2>8 DEF LookFails, AfterWait, Fault, wakes
  <2> QED
    BY <1>7, <2>1, <2>2, <2>3, <2>4, <2>5, <2>6, <2>7, <2>8, <2>9, Zenon DEF Step
<1>8. ASSUME NEW l \in {"listening", "deaf"}, Listen(l) PROVE TypeOK'
  BY <1>8 DEF Listen, Fault, rows, threads
<1>9. CASE ForceDrain \/ Deliver
  <2>1. pc' \in [Executor -> Pc] /\ \A e \in Executor : pc'[e] \in {"drain", "run"} => pc'[e] = pc[e]
    BY <1>9 DEF ForceDrain, Deliver, SetEvent, Awakened
  <2>2. /\ flag' \in BOOLEAN /\ wire' \in BOOLEAN /\ link' \in Link
        /\ UNCHANGED <<notifyOn, rows, drained, alarm, faults>>
    BY <1>9 DEF ForceDrain, Deliver, SetEvent
  <2> QED
    BY <2>1, <2>2 DEF rows
<1>10. CASE Disconnect
  <2>1. faults' \in Nat
    BY <1>10 DEF Disconnect, Fault
  <2>2. link' \in Link /\ wire' \in BOOLEAN /\ UNCHANGED <<notifyOn, rows, flag, threads>>
    BY <1>10 DEF Disconnect
  <2> QED
    BY <2>1, <2>2 DEF rows, threads
<1>11. ASSUME NEW j \in Job, Retire(j) PROVE TypeOK'
  BY <1>11 DEF Retire, Notify, threads
<1> HIDE DEF TypeOK, RowState, Link, Pc
<1> QED
  BY <1>1, <1>2, <1>3, <1>4, <1>5, <1>6, <1>7, <1>8, <1>9, <1>10, <1>11 DEF Next, Notifier

LEMMA InitTyped == Init => TypeOK
<1> SUFFICES ASSUME Init PROVE TypeOK
  OBVIOUS
<1>1. alarm \in [Executor -> SUBSET Job]
  BY Zenon DEF Init
<1>2. /\ pc \in [Executor -> Pc] /\ drained \in [Executor -> 0..MaxPerDrain]
      /\ \A e \in Executor : drained[e] < MaxPerDrain
  BY DrainAssumption DEF Init, Pc
<1> QED
  BY <1>1, <1>2, DrainAssumption DEF Init, TypeOK, RowState, Link

\* The type invariant: in particular no pass exceeds its cap.
THEOREM DrainTyped == Spec => []TypeOK
BY InitTyped, TypedStep, PTL DEF Spec

-----------------------------------------------------------------------------
\* A NOTIFY that is sent while somebody listens is on its way afterwards.
LEMMA NotifyComes ==
  ASSUME Notify, UNCHANGED notifyOn, Connected'
  PROVE  Coming'
BY DEF Notify, Connected, Coming

LEMMA WakeupStep ==
  ASSUME TypeOK, NoLostWakeup, [Next]_vars
  PROVE  NoLostWakeup'
<1> SUFFICES ASSUME NEW k \in Job, row'[k] = "ready", k \notin locked', k \notin silent',
                    Connected', ~Coming'
             PROVE  \E f \in Executor : WillClaim(f)'
  BY DEF NoLostWakeup, Claimable
<1>a. ASSUME row[k] = "ready", k \notin locked, k \notin silent, Connected, ~Coming
      PROVE  \E f \in Executor : WillClaim(f)
  BY <1>a DEF NoLostWakeup, Claimable
<1> USE DEF TypeOK
<1>1. CASE UNCHANGED vars
  BY <1>1, <1>a DEF vars, WillClaim, Connected, Coming
<1>2. ASSUME NEW j \in Job, NEW s \in {"later", "ready"}, Enqueue(j, s) PROVE FALSE
  BY <1>2, NotifyComes DEF Enqueue
<1>3. ASSUME NEW j \in Job, Due(j) PROVE \E f \in Executor : WillClaim(f)'
  BY <1>3, <1>a DEF Due, wakes, threads, WillClaim, Connected, Coming
<1>4. ASSUME NEW j \in Job, Lock(j) PROVE \E f \in Executor : WillClaim(f)'
  BY <1>4, <1>a DEF Lock, wakes, threads, WillClaim, Connected, Coming
<1>5. ASSUME NEW j \in Job, Unlock(j) PROVE \E f \in Executor : WillClaim(f)'
  BY <1>5, <1>a DEF Unlock, wakes, threads, WillClaim, Connected, Coming
<1>6. ASSUME NEW j \in Job, Reap(j) PROVE FALSE
  BY <1>6 DEF Reap, SetEvent, Coming
<1>7. ASSUME NEW e \in Executor, Step(e) PROVE \E f \in Executor : WillClaim(f)'
  <2>1. CASE Start(e)
    BY <2>1, <1>a DEF Start, rows, wakes, WillClaim, Connected, Coming
  <2>2. CASE ClearEvent(e)
    BY <2>2 DEF ClearEvent, WillClaim
  <2>3. ASSUME NEW j \in Job, Claim(e, j) PROVE FALSE
    BY <2>3, NotifyComes DEF Claim
  <2>4. CASE NothingToClaim(e)
    BY <2>4 DEF NothingToClaim, Claimable, rows
  <2>5. CASE ClaimFails(e)
    BY <2>5 DEF ClaimFails, Claimable
  <2>6. ASSUME NEW j \in Job, NEW s \in {"done", "ready"}, Finish(e, j, s) PROVE FALSE
    BY <2>6, NotifyComes DEF Finish
  <2>7. CASE FinishNothing(e)
    BY <2>7, <1>a DEF FinishNothing, NextInPass, wakes, WillClaim, Connected, Coming
  <2>8. CASE Escape(e)
    BY <2>8, <1>a DEF Escape, wakes, WillClaim, Connected, Coming
  <2>9. CASE Look(e)
    BY <2>9, <1>a DEF Look, AfterWait, rows, wakes, WillClaim, Connected, Coming
  <2>10. CASE LookFails(e)
    BY <2>10, <1>a DEF LookFails, AfterWait, wakes, WillClaim, Connected, Coming
  <2>11. CASE Timeout(e)
    BY <2>11 DEF Timeout, WillClaim
  <2> QED
    BY <1>7, <2>1, <2>2, <2>3, <2>4, <2>5, <2>6, <2>7, <2>8, <2>9, <2>10, <2>11 DEF Step
<1>8. ASSUME NEW l \in {"listening", "deaf"}, Listen(l) PROVE FALSE
  BY <1>8 DEF Listen, Connected, Coming
<1>9. CASE ForceDrain \/ Deliver
  BY <1>9 DEF ForceDrain, Deliver, SetEvent, Coming
<1>10. CASE Disconnect
  BY <1>10 DEF Disconnect, Connected
<1>11. ASSUME NEW j \in Job, Retire(j) PROVE FALSE
  BY <1>11, NotifyComes DEF Retire
<1> QED
  BY <1>1, <1>2, <1>3, <1>4, <1>5, <1>6, <1>7, <1>8, <1>9, <1>10, <1>11 DEF Next, Notifier

\* A row announced by NOTIFY is never left to the safety poll while the
\* notifier listens.
THEOREM WakeupNotLost == Spec => []NoLostWakeup
<1>1. Init => NoLostWakeup
  BY DEF Init, NoLostWakeup, Claimable
<1>2. TypeOK /\ NoLostWakeup /\ [Next]_vars => NoLostWakeup'
  BY WakeupStep
<1> QED
  BY <1>1, <1>2, DrainTyped, PTL DEF Spec

-----------------------------------------------------------------------------
Awake(k, f) == pc[f] # "asleep" \/ k \in alarm[f]

LEMMA AlarmStep ==
  ASSUME TypeOK, DelayedRowHasAlarm, [Next]_vars
  PROVE  DelayedRowHasAlarm'
<1> SUFFICES ASSUME NEW k \in Job, row'[k] = "later", k \notin silent', Connected', ~Coming'
             PROVE  \E f \in Executor : Awake(k, f)'
  BY DEF DelayedRowHasAlarm, Awake
<1>a. ASSUME row[k] = "later", k \notin silent, Connected, ~Coming
      PROVE  \E f \in Executor : Awake(k, f)
  BY <1>a DEF DelayedRowHasAlarm, Awake
<1> USE DEF TypeOK
<1>1. CASE UNCHANGED vars
  BY <1>1, <1>a DEF vars, Awake, Connected, Coming
<1>2. ASSUME NEW j \in Job, NEW s \in {"later", "ready"}, Enqueue(j, s) PROVE FALSE
  BY <1>2, NotifyComes DEF Enqueue
<1>3. ASSUME NEW j \in Job, Due(j) \/ Lock(j) \/ Unlock(j)
      PROVE  \E f \in Executor : Awake(k, f)'
  BY <1>3, <1>a DEF Due, Lock, Unlock, wakes, threads, Awake, Connected, Coming
<1>4. ASSUME NEW j \in Job, Reap(j) PROVE FALSE
  BY <1>4 DEF Reap, SetEvent, Coming
<1>5. ASSUME NEW e \in Executor, Step(e) PROVE \E f \in Executor : Awake(k, f)'
  <2>1. CASE Start(e) \/ ClearEvent(e) \/ NothingToClaim(e) \/ ClaimFails(e) \/ Escape(e) \/ Timeout(e)
    BY <2>1 DEF Start, ClearEvent, NothingToClaim, ClaimFails, Escape, Timeout, Awake
  <2>2. ASSUME NEW j \in Job, Claim(e, j) PROVE FALSE
    BY <2>2, NotifyComes DEF Claim
  <2>3. ASSUME NEW j \in Job, NEW s \in {"done", "ready"}, Finish(e, j, s) PROVE FALSE
    BY <2>3, NotifyComes DEF Finish
  <2>4. CASE FinishNothing(e)
    BY <2>4 DEF FinishNothing, NextInPass, Awake
  <2>5. CASE Look(e)
    BY <2>5 DEF Look, Awake, rows
  <2>6. CASE LookFails(e)
    BY <2>6 DEF LookFails
  <2> QED
    BY <1>5, <2>1, <2>2, <2>3, <2>4, <2>5, <2>6 DEF Step
<1>6. ASSUME NEW l \in {"listening", "deaf"}, Listen(l) PROVE FALSE
  BY <1>6 DEF Listen, Connected, Coming
<1>7. CASE ForceDrain \/ Deliver
  BY <1>7 DEF ForceDrain, Deliver, SetEvent, Coming
<1>8. CASE Disconnect
  BY <1>8 DEF Disconnect, Connected
<1>9. ASSUME NEW j \in Job, Retire(j) PROVE FALSE
  BY <1>9, NotifyComes DEF Retire
<1> QED
  BY <1>1, <1>2, <1>3, <1>4, <1>5, <1>6, <1>7, <1>8, <1>9 DEF Next, Notifier

\* While the notifier listens, a delayed row always has an executor that is
\* awake or will wake up for it.
THEOREM DelayedRowsCovered == Spec => []DelayedRowHasAlarm
<1>1. Init => DelayedRowHasAlarm
  BY DEF Init, DelayedRowHasAlarm
<1>2. TypeOK /\ DelayedRowHasAlarm /\ [Next]_vars => DelayedRowHasAlarm'
  BY AlarmStep
<1> QED
  BY <1>1, <1>2, DrainTyped, PTL DEF Spec

-----------------------------------------------------------------------------
(* The gate of the class singletons *)

\* A run is idle, or a record with the three fields.
LEMMA GateRunUpdate ==
  ASSUME GateTypeOK, NEW t \in Thread, run[t].pc # "idle",
         NEW p \in {"claimed", "working", "ending", "over"}
  PROVE  /\ [run EXCEPT ![t].pc = p] \in [Thread -> Runs]
         /\ \A s \in Thread : /\ [run EXCEPT ![t].pc = p][s].job = run[s].job
                              /\ [run EXCEPT ![t].pc = p][s].pc = IF s = t THEN p ELSE run[s].pc
BY DEF GateTypeOK, Runs

\* What a thread's finish does keeps the types of the rows and the runs.
LEMMA GateSettleTyped ==
  ASSUME GateTypeOK, NEW t \in Thread, run[t].pc # "idle",
         NEW s \in {"pending", "done", "failed"}, Settle(t, s)
  PROVE  /\ run' \in [Thread -> Runs] /\ run' = [run EXCEPT ![t] = Idle]
         /\ job' \in [Request -> JobState] /\ claim' \in [Request -> Thread \union {NoOwner}]
         /\ \A j \in Request : job'[j] = "claimed" <=> claim'[j] # NoOwner
         /\ \A u \in Thread : run'[u].pc # "idle" => run'[u].job \in Request
<1>1. run[t].job \in Request /\ Idle \in Runs /\ run' = [run EXCEPT ![t] = Idle]
  BY DEF GateTypeOK, Settle, Idle, Runs
<1>2. run' \in [Thread -> Runs] /\ \A u \in Thread : run'[u].pc # "idle" => run'[u].job \in Request
  BY <1>1 DEF GateTypeOK, Idle
<1>3. CASE claim[run[t].job] = t
  BY <1>1, <1>2, <1>3 DEF GateTypeOK, Settle, JobState
<1>4. CASE claim[run[t].job] # t
  BY <1>1, <1>2, <1>4 DEF GateTypeOK, Settle
<1> QED BY <1>3, <1>4

LEMMA GateInitTyped == ASSUME GateAssumption PROVE GateInit => GateTypeOK
BY DEF GateAssumption, GateInit, GateTypeOK, Runs, Idle, JobState

LEMMA GateTypedStep ==
  ASSUME GateAssumption
  PROVE  GateTypeOK /\ [GateNext]_gateVars => GateTypeOK'
<1> SUFFICES ASSUME GateTypeOK, [GateNext]_gateVars PROVE GateTypeOK'
  OBVIOUS
<1> USE DEF GateAssumption
<1>1. ASSUME NEW j \in Request, EnqueueSync(j) PROVE GateTypeOK'
  BY <1>1 DEF GateTypeOK, EnqueueSync, history, JobState
<1>2. ASSUME NEW j \in Request, ReapSync(j) PROVE GateTypeOK'
  BY <1>2 DEF GateTypeOK, ReapSync, GateFault, history, JobState
<1>3. ASSUME NEW t \in Thread, NEW j \in Request, ClaimSync(t, j) PROVE GateTypeOK'
  <2>1. [pc |-> "claimed", job |-> j, ok |-> FALSE] \in Runs
    BY DEF Runs
  <2> QED BY <1>3, <2>1 DEF GateTypeOK, ClaimSync, history, JobState
<1>4. ASSUME NEW t \in Thread, Acquire(t) PROVE GateTypeOK'
  <2>1. run[t].pc # "idle" /\ run[t].job \in Request
    BY <1>4 DEF Acquire, GateTypeOK
  <2>2. run' = [run EXCEPT ![t].pc = "working"]
    BY <1>4 DEF Acquire, Take
  <2>3. gate' \in [held : BOOLEAN, owner : Request \union Thread \union {NoOwner}, age : 0..Stale]
    BY <1>4, <2>1 DEF Acquire, Take, Owner
  <2>4. /\ run' \in [Thread -> Runs]
        /\ \A s \in Thread : run'[s].job = run[s].job
        /\ \A s \in Thread : run'[s].pc # "idle" => s = t \/ run[s].pc # "idle"
    BY <2>1, <2>2, GateRunUpdate
  <2>5. \A s \in Thread : run'[s].pc # "idle" => run'[s].job \in Request
    BY <2>1, <2>4 DEF GateTypeOK
  <2>6. UNCHANGED <<job, claim, beating, gateFaults>> /\ overrun' \subseteq Thread
         /\ stalled' \subseteq Thread /\ cut' = {}
    BY <1>4 DEF Acquire, Take, GateTypeOK
  <2> QED BY <2>3, <2>4, <2>5, <2>6 DEF GateTypeOK
<1>5. ASSUME NEW t \in Thread, Deny(t) PROVE GateTypeOK'
  <2>1. run[t].pc # "idle" /\ Settle(t, "done")
    BY <1>5 DEF Deny
  <2>2. gateFaults' \in Nat
    BY <1>5 DEF Deny, GateFault, GateTypeOK
  <2> QED BY <1>5, <2>1, <2>2, GateSettleTyped DEF GateTypeOK, Deny, history
<1>6. ASSUME NEW t \in Thread, NEW ok \in BOOLEAN, WorkEnds(t, ok) PROVE GateTypeOK'
  <2>1. run' = [run EXCEPT ![t].pc = "ending", ![t].ok = ok] /\ run[t].pc = "working"
    BY <1>6 DEF WorkEnds
  <2>2. run' \in [Thread -> Runs] /\ \A s \in Thread : run'[s].pc # "idle" => run'[s].job \in Request
    BY <2>1 DEF GateTypeOK, Runs
  <2>3. gateFaults' \in Nat
    BY <1>6 DEF WorkEnds, GateFault, GateTypeOK
  <2> QED BY <1>6, <2>2, <2>3 DEF GateTypeOK, WorkEnds, history
<1>7. ASSUME NEW t \in Thread, Release(t) PROVE GateTypeOK'
  <2>1. run[t].pc # "idle" /\ run' = [run EXCEPT ![t].pc = "over"]
    BY <1>7 DEF Release, Leave
  <2>2. gate' \in [held : BOOLEAN, owner : Request \union Thread \union {NoOwner}, age : 0..Stale]
    <3>1. gate' = gate \/ gate' = [gate EXCEPT !.held = FALSE, !.age = 0]
      BY <1>7 DEF Release
    <3>2. CASE gate' = gate
      BY <3>2 DEF GateTypeOK
    <3>3. CASE gate' = [gate EXCEPT !.held = FALSE, !.age = 0]
      <4>1. 0 \in 0..Stale
        OBVIOUS
      <4> QED BY <3>3, <4>1 DEF GateTypeOK
    <3> QED BY <3>1, <3>2, <3>3
  <2>3. gateFaults' \in Nat
    BY <1>7 DEF Release, GateFault, GateTypeOK
  <2>4. /\ run' \in [Thread -> Runs]
        /\ \A s \in Thread : run'[s].job = run[s].job
        /\ \A s \in Thread : run'[s].pc # "idle" => run[s].pc # "idle"
    BY <2>1, GateRunUpdate
  <2>5. \A s \in Thread : run'[s].pc # "idle" => run'[s].job \in Request
    BY <2>4 DEF GateTypeOK
  <2>6. UNCHANGED <<job, claim, beating, cut>> /\ overrun' \subseteq Thread
         /\ stalled' \subseteq Thread
    BY <1>7 DEF Release, Leave, GateTypeOK
  <2> QED BY <2>2, <2>3, <2>4, <2>5, <2>6 DEF GateTypeOK
<1>8. ASSUME NEW t \in Thread, FinishSync(t) PROVE GateTypeOK'
  <2>1. run[t].pc # "idle" /\ \E s \in {"pending", "done", "failed"} : Settle(t, s)
    BY <1>8 DEF FinishSync
  <2> QED BY <1>8, <2>1, GateSettleTyped DEF GateTypeOK, FinishSync, history
<1>9. ASSUME NEW t \in Thread, BeatLooks(t) PROVE GateTypeOK'
  BY <1>9 DEF GateTypeOK, BeatLooks, history
<1>10. ASSUME NEW t \in Thread, BeatWrites(t) PROVE GateTypeOK'
  BY <1>10 DEF GateTypeOK, BeatWrites, history
<1>11. ASSUME NEW t \in Thread, Stall(t) PROVE GateTypeOK'
  BY <1>11 DEF GateTypeOK, Stall, GateFault
<1>12. ASSUME Tick PROVE GateTypeOK'
  BY <1>12 DEF GateTypeOK, Tick, Expired, history
<1>13. ASSUME Crash PROVE GateTypeOK'
  <2>1. Idle \in Runs /\ run' \in [Thread -> Runs]
    BY <1>13 DEF Crash, Idle, Runs
  <2>2. \A t \in Thread : run'[t].pc = "idle"
    BY <1>13 DEF Crash, Idle
  <2>3. job' \in [Request -> JobState] /\ \A j \in Request : job'[j] # "claimed"
    BY <1>13 DEF Crash, GateTypeOK, JobState
  <2>4. cut' \subseteq Request
    BY <1>13 DEF Crash, GateTypeOK, AtWork
  <2> QED BY <1>13, <2>1, <2>2, <2>3, <2>4 DEF GateTypeOK, Crash, GateFault
<1>14. CASE UNCHANGED gateVars
  BY <1>14 DEF GateTypeOK, gateVars, history
<1> QED
  BY <1>1, <1>2, <1>3, <1>4, <1>5, <1>6, <1>7, <1>8, <1>9, <1>10, <1>11, <1>12, <1>13, <1>14
     DEF GateNext, RunStep, Beat

\* Every reachable state is typed, and only the row of a claimed job carries a
\* claim (_claim_next_job, the reaper and the restart).
THEOREM GateTyped == ASSUME GateAssumption PROVE GateSpec => []GateTypeOK
BY GateInitTyped, GateTypedStep, PTL DEF GateSpec

-----------------------------------------------------------------------------
\* The runs at work own the gate, and it stays fresh as long as they beat.
GateInv == GateTypeOK /\ WorkersOwnGate /\ FreshWhileBeating

LEMMA InitGate == ASSUME GateAssumption PROVE GateInit => GateInv
<1> SUFFICES ASSUME GateInit PROVE GateInv
  OBVIOUS
<1>1. \A t \in Thread : run[t].pc = "idle"
  BY DEF GateInit, Idle
<1> QED BY <1>1, GateInitTyped DEF GateInv, WorkersOwnGate, FreshWhileBeating, AtWork

\* A step that leaves the gate, and who is at work, alone.
LEMMA GateUntouched ==
  ASSUME GateInv, OwnerIsJob = FALSE, gate' = gate, stalled \subseteq stalled', overrun' = overrun,
         \A s \in Thread : AtWork(s)' => AtWork(s),
         \A s \in Thread : run'[s].pc = "working" => run[s].pc = "working"
  PROVE  WorkersOwnGate' /\ FreshWhileBeating'
BY DEF GateInv, WorkersOwnGate, FreshWhileBeating, Owns, Owner, Expired

\* Every step keeps what GateInv says of the gate and its runs.
LEMMA GateStep ==
  ASSUME GateAssumption, OwnerIsJob = FALSE, GateInv, [GateNext]_gateVars
  PROVE  WorkersOwnGate' /\ FreshWhileBeating'
<1> USE DEF GateAssumption, GateInv
<1>1. ASSUME NEW j \in Request, EnqueueSync(j) \/ ReapSync(j)
      PROVE  WorkersOwnGate' /\ FreshWhileBeating'
  BY <1>1, GateUntouched DEF EnqueueSync, ReapSync, history, AtWork
<1>2. ASSUME NEW t \in Thread, NEW j \in Request, ClaimSync(t, j)
      PROVE  WorkersOwnGate' /\ FreshWhileBeating'
  <2>1. \A s \in Thread : run'[s].pc \in {"working", "ending"} => run'[s].pc = run[s].pc
    BY <1>2 DEF ClaimSync, GateTypeOK
  <2> QED BY <1>2, <2>1, GateUntouched DEF ClaimSync, history, AtWork
<1>3. ASSUME NEW t \in Thread, Acquire(t)
      PROVE  WorkersOwnGate' /\ FreshWhileBeating'
  <2>1. /\ gate' = [held |-> TRUE, owner |-> t, age |-> 0]
        /\ run' = [run EXCEPT ![t].pc = "working"]
        /\ overrun' = overrun \union {s \in Thread : AtWork(s)}
    BY <1>3 DEF Acquire, Take, Owner
  <2>2. \A s \in Thread : run'[s].pc = IF s = t THEN "working" ELSE run[s].pc
    BY <2>1 DEF GateTypeOK
  <2>3. WorkersOwnGate'
    BY <2>1, <2>2 DEF WorkersOwnGate, AtWork, Owns, Owner
  <2>4. FreshWhileBeating'
    BY <2>1 DEF FreshWhileBeating, Expired
  <2> QED BY <2>3, <2>4
<1>4. ASSUME NEW t \in Thread, NEW s \in {"pending", "done", "failed"},
             Settle(t, s), run[t].pc # "idle", UNCHANGED <<gate, beating, history>>
      PROVE  WorkersOwnGate' /\ FreshWhileBeating'
  <2>1. run' = [run EXCEPT ![t] = Idle]
    BY <1>4 DEF Settle
  <2>2. \A u \in Thread : run'[u].pc \in {"working", "ending"} => run'[u].pc = run[u].pc
    BY <2>1 DEF GateTypeOK, Idle
  <2> QED BY <1>4, <2>2, GateUntouched DEF history, AtWork
<1>5. ASSUME NEW t \in Thread, NEW ok \in BOOLEAN, WorkEnds(t, ok)
      PROVE  WorkersOwnGate' /\ FreshWhileBeating'
  <2>1. run' = [run EXCEPT ![t].pc = "ending", ![t].ok = ok]
    BY <1>5 DEF WorkEnds
  <2>2. \A s \in Thread : run'[s].pc = IF s = t THEN "ending" ELSE run[s].pc
    BY <2>1 DEF GateTypeOK, Runs
  <2> QED BY <1>5, <2>2, GateUntouched DEF WorkEnds, history, AtWork
<1>6. ASSUME NEW t \in Thread, Release(t)
      PROVE  WorkersOwnGate' /\ FreshWhileBeating'
  <2>1. /\ run' = [run EXCEPT ![t].pc = "over"]
        /\ overrun' = overrun \ {t} /\ stalled' = stalled \ {t}
    BY <1>6 DEF Release, Leave
  <2>2. \A s \in Thread : run'[s].pc = IF s = t THEN "over" ELSE run[s].pc
    BY <2>1 DEF GateTypeOK
  <2>3. gate' = gate \/ gate.owner = t
    BY <1>6 DEF Release, Owner
  <2>4. ASSUME NEW s \in Thread, s # t PROVE gate' = gate \/ ~Owns(s)
    BY <2>3, <2>4 DEF Owns, Owner
  <2>5. gate'.age = gate.age \/ gate'.age = 0
    <3>1. gate' = gate \/ gate' = [gate EXCEPT !.held = FALSE, !.age = 0]
      BY <1>6 DEF Release
    <3> QED BY <3>1 DEF GateTypeOK
  <2>6. WorkersOwnGate'
    BY <2>1, <2>2, <2>4 DEF WorkersOwnGate, AtWork, Owns, Owner
  <2>7. FreshWhileBeating'
    <3>1. run[t].pc # "working"
      BY <1>6 DEF Release
    <3>2. ASSUME NEW s \in Thread \ stalled', run'[s].pc = "working", s \notin overrun'
          PROVE  ~(gate.age >= Stale)
      BY <2>1, <2>2, <3>2 DEF FreshWhileBeating, Expired
    <3> QED BY <2>5, <3>2 DEF FreshWhileBeating, Expired
  <2> QED BY <2>6, <2>7
<1>7. ASSUME NEW t \in Thread, BeatLooks(t)
      PROVE  WorkersOwnGate' /\ FreshWhileBeating'
  BY <1>7, GateUntouched DEF BeatLooks, history, AtWork
<1>8. ASSUME NEW t \in Thread, BeatWrites(t)
      PROVE  WorkersOwnGate' /\ FreshWhileBeating'
  <2>1. gate'.age = 0 /\ gate'.held = gate.held /\ gate'.owner = gate.owner
    BY <1>8 DEF BeatWrites, GateTypeOK
  <2> QED BY <1>8, <2>1
    DEF BeatWrites, history, WorkersOwnGate, FreshWhileBeating, AtWork, Owns, Owner, Expired
<1>9. ASSUME NEW t \in Thread, Stall(t)
      PROVE  WorkersOwnGate' /\ FreshWhileBeating'
  BY <1>9, GateUntouched DEF Stall, AtWork
<1>10. ASSUME Tick
      PROVE  WorkersOwnGate' /\ FreshWhileBeating'
  <2>1. gate'.age = gate.age + 1 /\ gate'.held = gate.held /\ gate'.owner = gate.owner
    BY <1>10 DEF Tick, GateTypeOK
  <2>2. WorkersOwnGate'
    BY <1>10, <2>1 DEF Tick, history, WorkersOwnGate, AtWork, Owns, Owner
  <2>3. ASSUME NEW t \in Thread \ stalled, run[t].pc = "working", t \notin overrun
        PROVE  gate.age + 1 < Stale
    BY <1>10, <2>3 DEF Tick, WorkersOwnGate, AtWork
  <2>4. FreshWhileBeating'
    BY <1>10, <2>1, <2>3 DEF Tick, history, FreshWhileBeating, Expired, GateTypeOK
  <2> QED BY <2>2, <2>4
<1>11. ASSUME Crash
      PROVE  WorkersOwnGate' /\ FreshWhileBeating'
  <2>1. \A t \in Thread : run'[t].pc = "idle"
    BY <1>11 DEF Crash, Idle
  <2> QED BY <2>1 DEF WorkersOwnGate, FreshWhileBeating, AtWork
<1>12. ASSUME NEW t \in Thread, Deny(t) \/ FinishSync(t)
      PROVE  WorkersOwnGate' /\ FreshWhileBeating'
  BY <1>4, <1>12 DEF Deny, FinishSync
<1>13. CASE UNCHANGED gateVars
  BY <1>13, GateUntouched DEF gateVars, history, AtWork
<1> QED
  BY <1>1, <1>2, <1>3, <1>5, <1>6, <1>7, <1>8, <1>9, <1>10, <1>11, <1>12, <1>13
     DEF GateNext, RunStep, Beat

\* Two runs that were not overrun never work at the same time: the calendar
\* phase, whose owner names the thread, is a singleton (class_singleton.py).
THEOREM ThreadOwnerExcludes ==
  ASSUME GateAssumption, OwnerIsJob = FALSE
  PROVE  GateSpec => []Exclusive
<1>1. GateInv /\ [GateNext]_gateVars => GateInv'
  BY GateTypedStep, GateStep DEF GateInv
<1>2. GateInv => Exclusive
  BY DEF GateInv, Exclusive, WorkersOwnGate, OneAtATime, Owns, Owner
<1> QED BY <1>1, <1>2, InitGate, PTL DEF GateSpec

\* No run whose heartbeats get through loses the gate while it works, for every
\* number of intervals after which the gate may be stolen.
THEOREM HeartbeatsKeepGate ==
  ASSUME GateAssumption, OwnerIsJob = FALSE
  PROVE  GateSpec => HeartbeatKeepsGate
<1>1. GateInv /\ [GateNext]_gateVars => GateInv'
  BY GateTypedStep, GateStep DEF GateInv
<1>2. ASSUME GateInv, [GateNext]_gateVars, NEW t \in Thread \ stalled,
             run[t].pc = "working", t \notin overrun
      PROVE  t \notin overrun'
  <2>1. gate.held /\ ~Expired
    BY <1>2 DEF GateInv, WorkersOwnGate, FreshWhileBeating, AtWork, Owns
  <2>2. \A s \in Thread : ~Acquire(s)
    BY <2>1 DEF Acquire
  <2>3. overrun' \subseteq overrun
    BY <1>2, <2>2
       DEF GateNext, RunStep, Beat, gateVars, history, EnqueueSync, ReapSync,
           ClaimSync, Deny,
           WorkEnds, Release, Leave, FinishSync, BeatLooks, BeatWrites, Stall, Tick, Crash
  <2> QED BY <1>2, <2>3
<1>3. GateInv /\ [GateNext]_gateVars => [\A t \in Thread \ stalled :
        run[t].pc = "working" /\ t \notin overrun => t \notin overrun']_gateVars
  BY <1>2
<1> QED BY <1>1, <1>3, InitGate, PTL DEF GateSpec, HeartbeatKeepsGate

-----------------------------------------------------------------------------
(* The gate implements Singleton. *)

\* The mapped state: the part each thread has in the class, and who is mute.
Part == [t \in Thread |-> IF Has(t) THEN run[t].pc ELSE "out"]
MuteOnes == {t \in stalled : Has(t)}

\* Only runs at work are overrun.
OverrunAtWork == \A t \in overrun : AtWork(t)

LEMMA OverrunStep ==
  ASSUME GateTypeOK, OverrunAtWork, [GateNext]_gateVars
  PROVE  OverrunAtWork'
<1>1. ASSUME overrun' = overrun, \A t \in Thread : AtWork(t) => run'[t].pc = run[t].pc
      PROVE  OverrunAtWork'
  BY <1>1 DEF OverrunAtWork, AtWork, GateTypeOK
<1>2. ASSUME NEW j \in Request, EnqueueSync(j) \/ ReapSync(j) PROVE OverrunAtWork'
  BY <1>1, <1>2 DEF EnqueueSync, ReapSync, history
<1>3. ASSUME NEW t \in Thread, NEW j \in Request, ClaimSync(t, j) PROVE OverrunAtWork'
  <2>1. \A s \in Thread : AtWork(s) => run'[s].pc = run[s].pc
    BY <1>3 DEF ClaimSync, AtWork, GateTypeOK
  <2> QED BY <1>1, <1>3, <2>1 DEF ClaimSync, history
<1>4. ASSUME NEW t \in Thread, Acquire(t) PROVE OverrunAtWork'
  <2>1. \A s \in Thread : run'[s].pc = IF s = t THEN "working" ELSE run[s].pc
    BY <1>4 DEF Acquire, Take, GateTypeOK
  <2> QED BY <1>4, <2>1 DEF Acquire, Take, OverrunAtWork, AtWork, GateTypeOK
<1>5. ASSUME NEW t \in Thread, Deny(t) \/ FinishSync(t) PROVE OverrunAtWork'
  <2>1. /\ run' = [run EXCEPT ![t] = Idle] /\ run[t].pc \in {"claimed", "over"}
        /\ UNCHANGED history
    BY <1>5 DEF Deny, FinishSync, Settle
  <2>2. \A s \in Thread : AtWork(s) => run'[s].pc = run[s].pc
    BY <2>1 DEF AtWork, GateTypeOK
  <2> QED BY <1>1, <2>1, <2>2 DEF history
<1>6. ASSUME NEW t \in Thread, NEW ok \in BOOLEAN, WorkEnds(t, ok) PROVE OverrunAtWork'
  <2>1. \A s \in Thread : run'[s].pc = IF s = t THEN "ending" ELSE run[s].pc
    BY <1>6 DEF WorkEnds, GateTypeOK, Runs
  <2> QED BY <1>6, <2>1 DEF WorkEnds, history, OverrunAtWork, AtWork, GateTypeOK
<1>7. ASSUME NEW t \in Thread, Release(t) PROVE OverrunAtWork'
  <2>1. \A s \in Thread : run'[s].pc = IF s = t THEN "over" ELSE run[s].pc
    BY <1>7 DEF Release, Leave, GateTypeOK
  <2> QED BY <1>7, <2>1 DEF Release, Leave, OverrunAtWork, AtWork, GateTypeOK
<1>8. ASSUME NEW t \in Thread, BeatLooks(t) \/ BeatWrites(t) \/ Stall(t)
      PROVE  OverrunAtWork'
  BY <1>1, <1>8 DEF BeatLooks, BeatWrites, Stall, history
<1>9. ASSUME Crash PROVE OverrunAtWork'
  BY <1>9 DEF Crash, OverrunAtWork
<1>10. ASSUME Tick PROVE OverrunAtWork'
  BY <1>1, <1>10 DEF Tick, history
<1>11. CASE UNCHANGED gateVars
  BY <1>1, <1>11 DEF gateVars, history
<1> QED
  BY <1>2, <1>3, <1>4, <1>5, <1>6, <1>7, <1>8, <1>9, <1>10, <1>11
     DEF GateNext, RunStep, Beat

\* A step after which the same threads have the class, at the same points.
LEMMA PartsStay ==
  ASSUME GateTypeOK, stalled' = stalled, overrun' = overrun,
         \A s \in Thread : AtWork(s) \/ AtWork(s)' => run'[s].pc = run[s].pc
  PROVE  Part' = Part /\ MuteOnes' = MuteOnes
<1>1. \A s \in Thread : Has(s)' <=> Has(s)
  BY DEF Has, AtWork
<1>2. \A s \in Thread : Has(s) => run'[s].pc = run[s].pc
  BY DEF Has
<1>3. Part' = Part
  BY <1>1, <1>2 DEF Part
<1>4. MuteOnes' = MuteOnes
  BY <1>1 DEF MuteOnes, GateTypeOK
<1> QED BY <1>3, <1>4

\* A run takes the gate only when nobody is at work with beating heartbeats, and
\* then it alone has the class.
LEMMA AcquireEnters ==
  ASSUME GateAssumption, OwnerIsJob = FALSE, GateInv, OverrunAtWork,
         NEW t \in Thread, Acquire(t)
  PROVE  Class!Enter(t)
<1>1. /\ run[t].pc = "claimed" /\ (~gate.held \/ Expired)
      /\ run' = [run EXCEPT ![t].pc = "working"]
      /\ overrun' = overrun \union {s \in Thread : AtWork(s)}
      /\ stalled' = stalled \ {t}
  BY DEF Acquire, Take
<1>2. \A s \in Thread : run'[s].pc = IF s = t THEN "working" ELSE run[s].pc
  BY <1>1 DEF GateInv, GateTypeOK
<1>3. ASSUME NEW s \in Thread, Part[s] = "working" PROVE s \in MuteOnes
  <2>1. Has(s) /\ run[s].pc = "working"
    BY <1>3 DEF Part
  <2>2. gate.held
    BY <2>1 DEF GateInv, WorkersOwnGate, Has, Owns
  <2>3. s \in stalled
    BY <1>1, <2>1, <2>2 DEF GateInv, FreshWhileBeating, Has
  <2> QED BY <2>1, <2>3 DEF MuteOnes
<1>4. ~AtWork(t) /\ t \notin overrun
  BY <1>1 DEF AtWork, OverrunAtWork
<1>5. \A s \in Thread : Has(s)' <=> s = t
  BY <1>1, <1>2, <1>4 DEF Has, AtWork
<1>6. Part[t] = "out"
  BY <1>4 DEF Part, Has
<1>7. Part' = [[s \in Thread |-> "out"] EXCEPT ![t] = "working"]
  BY <1>2, <1>5 DEF Part
<1>8. MuteOnes' = {}
  BY <1>1, <1>5 DEF MuteOnes, GateInv, GateTypeOK
<1> QED BY <1>3, <1>6, <1>7, <1>8 DEF Class!Enter, Class!Out, Part, MuteOnes

\* The work of a run that has the class ends; that of another is not seen.
LEMMA WorkEndsEnds ==
  ASSUME GateTypeOK, NEW t \in Thread, NEW ok \in BOOLEAN, WorkEnds(t, ok)
  PROVE  Class!End(t) \/ (Part' = Part /\ MuteOnes' = MuteOnes)
<1>1. /\ run[t].pc = "working" /\ stalled' = stalled /\ overrun' = overrun
      /\ \A s \in Thread : run'[s].pc = IF s = t THEN "ending" ELSE run[s].pc
  BY DEF WorkEnds, history, GateTypeOK, Runs
<1>2. \A s \in Thread : Has(s)' <=> Has(s)
  BY <1>1 DEF Has, AtWork
<1>3. MuteOnes' = MuteOnes
  BY <1>1, <1>2 DEF MuteOnes, GateTypeOK
<1>4. CASE Has(t)
  <2>1. Part[t] = "working" /\ Part' = [Part EXCEPT ![t] = "ending"]
    BY <1>1, <1>2, <1>4 DEF Part
  <2> QED BY <1>3, <2>1 DEF Class!End, Part, MuteOnes
<1>5. CASE ~Has(t)
  <2>1. Part' = Part
    BY <1>1, <1>2, <1>5 DEF Part
  <2> QED BY <1>3, <2>1
<1> QED BY <1>4, <1>5

\* A run that has the class leaves it; the late release of another is not seen.
LEMMA ReleaseLeaves ==
  ASSUME GateTypeOK, NEW t \in Thread, Release(t)
  PROVE  Class!Leave(t) \/ (Part' = Part /\ MuteOnes' = MuteOnes)
<1>1. /\ run[t].pc = "ending" /\ stalled' = stalled \ {t} /\ overrun' = overrun \ {t}
      /\ \A s \in Thread : run'[s].pc = IF s = t THEN "over" ELSE run[s].pc
  BY DEF Release, Leave, GateTypeOK
<1>2. \A s \in Thread : Has(s)' <=> Has(s) /\ s # t
  BY <1>1 DEF Has, AtWork
<1>3. MuteOnes' = MuteOnes \ {t}
  BY <1>1, <1>2 DEF MuteOnes, GateTypeOK
<1>4. CASE Has(t)
  <2>1. Part[t] = "ending" /\ Part' = [Part EXCEPT ![t] = "out"]
    BY <1>1, <1>2, <1>4 DEF Part
  <2> QED BY <1>3, <2>1 DEF Class!Leave, Part, MuteOnes
<1>5. CASE ~Has(t)
  <2>1. Part' = Part
    BY <1>1, <1>2, <1>5 DEF Part
  <2>2. MuteOnes' = MuteOnes
    BY <1>3, <1>5 DEF MuteOnes
  <2> QED BY <2>1, <2>2
<1> QED BY <1>4, <1>5

\* The heartbeats of a run stall.
LEMMA StallMutes ==
  ASSUME GateTypeOK, NEW t \in Thread, Stall(t)
  PROVE  Class!Mute(t) \/ (Part' = Part /\ MuteOnes' = MuteOnes)
<1>1. stalled' = stalled \union {t} /\ overrun' = overrun /\ run' = run
  BY DEF Stall
<1>2. Part' = Part
  BY <1>1 DEF Part, Has, AtWork
<1>3. \A s \in Thread : Has(s)' <=> Has(s)
  BY <1>1 DEF Has, AtWork
<1>4. CASE Has(t)
  <2>1. MuteOnes' = MuteOnes \union {t}
    BY <1>1, <1>3, <1>4 DEF MuteOnes, GateTypeOK
  <2>2. Part[t] # "out"
    BY <1>4 DEF Part, Has, AtWork
  <2> QED BY <1>2, <2>1, <2>2 DEF Class!Mute, Part, MuteOnes
<1>5. CASE ~Has(t)
  <2>1. MuteOnes' = MuteOnes
    BY <1>1, <1>3, <1>5 DEF MuteOnes, GateTypeOK
  <2> QED BY <1>2, <2>1
<1> QED BY <1>4, <1>5

\* Every step of the gate is a step of Singleton, or changes nothing of it.
LEMMA SingletonStep ==
  ASSUME GateAssumption, OwnerIsJob = FALSE, GateInv, OverrunAtWork,
         [GateNext]_gateVars
  PROVE  Class!Next \/ (Part' = Part /\ MuteOnes' = MuteOnes)
<1> DEFINE Done == Class!Next \/ (Part' = Part /\ MuteOnes' = MuteOnes)
<1> USE DEF GateInv
<1>1. ASSUME NEW j \in Request, EnqueueSync(j) \/ ReapSync(j) PROVE Done
  BY <1>1, PartsStay DEF EnqueueSync, ReapSync, history
<1>2. ASSUME NEW t \in Thread, NEW j \in Request, ClaimSync(t, j) PROVE Done
  <2>1. \A s \in Thread : AtWork(s) \/ AtWork(s)' => run'[s].pc = run[s].pc
    BY <1>2 DEF ClaimSync, AtWork, GateTypeOK
  <2> QED BY <1>2, <2>1, PartsStay DEF ClaimSync, history
<1>3. ASSUME NEW t \in Thread, Acquire(t) PROVE Done
  BY <1>3, AcquireEnters DEF Class!Next
<1>4. ASSUME NEW t \in Thread, Deny(t) \/ FinishSync(t) PROVE Done
  <2>1. /\ run' = [run EXCEPT ![t] = Idle] /\ run[t].pc \in {"claimed", "over"}
        /\ UNCHANGED history
    BY <1>4 DEF Deny, FinishSync, Settle
  <2>2. \A s \in Thread : AtWork(s) \/ AtWork(s)' => run'[s].pc = run[s].pc
    BY <2>1 DEF AtWork, GateTypeOK, Idle
  <2> QED BY <2>1, <2>2, PartsStay DEF history
<1>5. ASSUME NEW t \in Thread, NEW ok \in BOOLEAN, WorkEnds(t, ok) PROVE Done
  BY <1>5, WorkEndsEnds DEF Class!Next
<1>6. ASSUME NEW t \in Thread, Release(t) PROVE Done
  BY <1>6, ReleaseLeaves DEF Class!Next
<1>7. ASSUME NEW t \in Thread, BeatLooks(t) \/ BeatWrites(t) PROVE Done
  BY <1>7, PartsStay DEF BeatLooks, BeatWrites, history
<1>8. ASSUME NEW t \in Thread, Stall(t) PROVE Done
  BY <1>8, StallMutes DEF Class!Next
<1>9. ASSUME Tick PROVE Done
  BY <1>9, PartsStay DEF Tick, history
<1>10. ASSUME Crash PROVE Done
  <2>1. \A t \in Thread : ~Has(t)'
    BY <1>10 DEF Crash, Idle, Has, AtWork
  <2>2. Part' = [t \in Thread |-> "out"] /\ MuteOnes' = {}
    BY <1>10, <2>1 DEF Part, MuteOnes, Crash
  <2> QED BY <2>2 DEF Class!Next, Class!Crash, Class!Out, Part, MuteOnes
<1>11. CASE UNCHANGED gateVars
  BY <1>11, PartsStay DEF gateVars, history
<1> QED
  BY <1>1, <1>2, <1>3, <1>4, <1>5, <1>6, <1>7, <1>8, <1>9, <1>10, <1>11
     DEF GateNext, RunStep, Beat

\* With owners named by thread the gate implements Singleton: no release or
\* heartbeat of a run that lost the gate, no reap, stall or crash lets a second
\* run in beside one whose heartbeats get through (class_singleton.py).
THEOREM GateIsSingleton ==
  ASSUME GateAssumption, OwnerIsJob = FALSE
  PROVE  GateSpec => ImplementsSingleton
<1>1. GateInit => Class!Init
  <2> SUFFICES ASSUME GateInit PROVE Class!Init
    OBVIOUS
  <2>1. \A t \in Thread : ~Has(t)
    BY DEF GateInit, Idle, Has, AtWork
  <2>2. stalled = {}
    BY DEF GateInit
  <2> QED BY <2>1, <2>2 DEF Class!Init, Class!Out
<1>2. GateInit => OverrunAtWork
  BY DEF GateInit, OverrunAtWork
<1>3. GateInv /\ [GateNext]_gateVars => GateInv'
  BY GateTypedStep, GateStep DEF GateInv
<1>4. GateInv /\ OverrunAtWork /\ [GateNext]_gateVars => OverrunAtWork'
  BY OverrunStep DEF GateInv
<1>5. GateInv /\ OverrunAtWork /\ [GateNext]_gateVars
        => [Class!Next]_<<[t \in Thread |-> IF Has(t) THEN run[t].pc ELSE "out"],
                          {t \in stalled : Has(t)}>>
  BY SingletonStep DEF Part, MuteOnes
<1> QED BY <1>1, <1>2, <1>3, <1>4, <1>5, InitGate, PTL
        DEF GateSpec, ImplementsSingleton, Class!Spec
=============================================================================
