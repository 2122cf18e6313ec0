--------------------------- MODULE JobQueueProofs ---------------------------
(***************************************************************************)
(* Proofs about JobQueue, for every number of rows, threads, attempts and  *)
(* faults.  The inductive invariant IInv ties the row, the descriptors     *)
(* that threads carry and the webhook event together.                      *)
(***************************************************************************)
EXTENDS JobQueue, TLAPS

\* A thread that is not idle carries a well-formed descriptor.
LEMMA BusyHasDescriptor ==
  ASSUME TypeOK, NEW e \in Executor, Busy(e)
  PROVE  exec[e] \in Descriptors
BY DEF TypeOK, Busy, Idle

\* What a pass of the reaper changes, without its case split on the bound.
ReapPass(cutoff) ==
  /\ row' = [j \in Job |-> IF j \in Older(cutoff)
                              THEN [row[j] EXCEPT !.status = "PENDING", !.token = NoToken]
                              ELSE row[j]]
  /\ marking' = Older(cutoff)
  /\ faults' = faults \/ (faults > 0 /\ faults' = faults - 1)
  /\ UNCHANGED <<event, exec, issued, performed, swallowed, revoked, cancelling>>

LEMMA ReapEffect ==
  ASSUME NEW cutoff, Reap(cutoff)
  PROVE  ReapPass(cutoff)
BY Zenon DEF Reap, ReapPass

LEMMA InitTyped == Init => TypeOK
BY BoundAssumption DEF Init, TypeOK, Rows, EventStatus, NoToken

\* The type invariant is inductive on its own.
THEOREM TypeCorrect == Spec => []TypeOK
<1>1. Init => TypeOK
  BY InitTyped
<1>2. ASSUME TypeOK, [Next]_vars PROVE TypeOK'
  <2> USE <1>2 DEF TypeOK
  <2>1. CASE UNCHANGED vars
    BY <2>1 DEF vars
  <2>2. ASSUME NEW j \in Job, Enqueue(j) PROVE TypeOK'
    BY <2>2 DEF Enqueue, Rows
  <2>3. ASSUME NEW S \in SUBSET Sweep, Supersede(S) PROVE TypeOK'
    BY <2>3 DEF Supersede, Rows
  <2>4. ASSUME NEW e \in Executor, NEW j \in Job, Claim(e, j) PROVE TypeOK'
    BY <2>4 DEF Claim, Rows, Descriptors, Descriptor, Pc, EventStatus
  <2>5. ASSUME NEW e \in Executor, Reload(e) PROVE TypeOK'
    BY <2>5, BusyHasDescriptor DEF Reload, At, Busy, Descriptor, Descriptors, Pc, EventStatus
  <2>6. ASSUME NEW e \in Executor, Abandon(e) PROVE TypeOK'
    BY <2>6 DEF Abandon
  <2>7. ASSUME NEW e \in Executor, HandlerCommits(e) PROVE TypeOK'
    BY <2>7, BusyHasDescriptor DEF HandlerCommits, At, Goto, Busy, Descriptors, Pc, EventStatus
  <2>8. ASSUME NEW e \in Executor, NEW pc \in {"err", "fatal"}, HandlerRaises(e, pc) PROVE TypeOK'
    BY <2>8, BusyHasDescriptor DEF HandlerRaises, At, Goto, Busy, Descriptors, Pc, EventStatus
  <2>9. ASSUME NEW e \in Executor, FinishDone(e) PROVE TypeOK'
    BY <2>9, BusyHasDescriptor DEF FinishDone, At, Goto, Busy, Descriptors, Pc, Rows, NoToken
  <2>10. ASSUME NEW e \in Executor, FinishFailed(e) PROVE TypeOK'
    <3>1. exec' \in [Executor -> {Idle} \union Descriptors]
      BY <2>10, BusyHasDescriptor DEF FinishFailed, At, Goto, Busy, Descriptors, Pc
    <3>2. row' \in [Job -> Rows]
      <4>1. exec[e].job \in Job
        BY <2>10, BusyHasDescriptor DEF FinishFailed, At, Busy, Descriptors
      <4> QED
        BY <2>10, <4>1 DEF FinishFailed, Rows, NoToken
    <3>3. event' \in [Webhook -> [status : EventStatus, attempts : Nat]]
      BY <2>10 DEF FinishFailed, EventStatus
    <3> QED
      BY <2>10, <3>1, <3>2, <3>3 DEF FinishFailed
  <2>11. ASSUME NEW e \in Executor, FinishStale(e) PROVE TypeOK'
    BY <2>11, BusyHasDescriptor DEF FinishStale, At, Goto, Busy, Descriptors, Pc
  <2>12. ASSUME NEW e \in Executor, FinishError(e) PROVE TypeOK'
    BY <2>12, BusyHasDescriptor DEF FinishError, At, Goto, Busy, Descriptors, Pc
  <2>13. ASSUME NEW e \in Executor, Clear(e) PROVE TypeOK'
    BY <2>13 DEF Clear
  <2>14. ASSUME NEW cutoff \in 1..issued, Reap(cutoff) PROVE TypeOK'
    <3>1. ReapPass(cutoff)
      BY <2>14, ReapEffect, Zenon
    <3>2. row' \in [Job -> Rows]
      BY <3>1 DEF ReapPass, Rows, NoToken
    <3>3. faults' \in Nat
      <4>1. faults' = faults \/ (faults > 0 /\ faults' = faults - 1)
        BY <3>1 DEF ReapPass
      <4> QED
        BY <4>1
    <3>4. marking' \subseteq Job
      <4>1. marking' = Older(cutoff)
        BY <3>1 DEF ReapPass
      <4> QED
        BY <4>1 DEF Older, Claimed
    <3> QED
      BY <3>1, <3>2, <3>3, <3>4 DEF ReapPass
  <2>15. ASSUME NEW j \in Job, Mark(j) PROVE TypeOK'
    BY <2>15 DEF Mark
  <2>16. ASSUME NEW S \in {Claimed, {}}, Restart(S) PROVE TypeOK'
    BY <2>16 DEF Restart, Rows
  <2>17. ASSUME NEW e \in Executor, ReloadError(e) PROVE TypeOK'
    BY <2>17 DEF ReloadError
  <2>18. ASSUME NEW e \in Executor, CommitSwallowed(e) PROVE TypeOK'
    BY <2>18, BusyHasDescriptor DEF CommitSwallowed, At, Goto, Busy, Descriptors, Pc
  <2>19. ASSUME NEW S \in SUBSET FollowUp, CancelReads(S) PROVE TypeOK'
    BY <2>19 DEF CancelReads
  <2>20. ASSUME NEW S \in SUBSET FollowUp, CancelWrites(S) PROVE TypeOK'
    BY <2>20 DEF CancelWrites, Rows
  <2> QED
    BY <2>1, <2>2, <2>3, <2>4, <2>5, <2>6, <2>7, <2>8, <2>9, <2>10, <2>11, <2>12,
       <2>13, <2>14, <2>15, <2>16, <2>17, <2>18, <2>19, <2>20 DEF Next, Thread, Handler, Finish, Reaper
<1> QED
  BY <1>1, <1>2, PTL DEF Spec

\* Every step keeps the inductive invariant.
LEMMA IInvStep ==
  ASSUME IInv, TypeOK', [Next]_vars
  PROVE  IInv'
<1> USE DEF IInv
<1>1. ASSUME NEW j \in Job, Enqueue(j) PROVE IInv'
  <2>1. TokensNameClaims'
    BY <1>1 DEF Enqueue, TokensNameClaims, Busy
  <2>2. SnapshotIsCurrent'
    BY <1>1 DEF Enqueue, SnapshotIsCurrent, Busy
  <2>3. HolderSeesEvent'
    BY <1>1 DEF Enqueue, HolderSeesEvent, Busy, Holds
  <2>4. DoneMeansPerformed'
    BY <1>1 DEF Enqueue, DoneMeansPerformed
  <2>5. EventChargedPerClaim'
    BY <1>1 DEF Enqueue, EventChargedPerClaim
  <2>6. OkMeansPerformed'
    BY <1>1 DEF Enqueue, OkMeansPerformed
  <2>7. CancelledRowsExist'
    BY <1>1, KindAssumption DEF Enqueue, CancelledRowsExist, TypeOK
  <2> QED
    BY <2>1, <2>2, <2>3, <2>4, <2>5, <2>6, <2>7
<1>2. ASSUME NEW S \in SUBSET Sweep, Supersede(S) PROVE IInv'
  <2>1. TokensNameClaims'
    BY <1>2 DEF Supersede, TokensNameClaims, Busy
  <2>2. SnapshotIsCurrent'
    BY <1>2 DEF Supersede, SnapshotIsCurrent, Busy, Idle, Descriptors, TypeOK
  <2>3. HolderSeesEvent'
    BY <1>2 DEF Supersede, HolderSeesEvent, Busy, Holds, Idle, Descriptors, TypeOK
  <2>4. DoneMeansPerformed'
    BY <1>2, KindAssumption DEF Supersede, DoneMeansPerformed
  <2>5. EventChargedPerClaim'
    BY <1>2, KindAssumption DEF Supersede, EventChargedPerClaim
  <2>6. OkMeansPerformed'
    BY <1>2 DEF Supersede, OkMeansPerformed
  <2>7. CancelledRowsExist'
    BY <1>2, KindAssumption DEF Supersede, CancelledRowsExist, TypeOK
  <2> QED
    BY <2>1, <2>2, <2>3, <2>4, <2>5, <2>6, <2>7
<1>3. ASSUME NEW e \in Executor, NEW j \in Job, Claim(e, j) PROVE IInv'
  <2>1. TokensNameClaims'
    BY <1>3 DEF Claim, TokensNameClaims, Busy, Rows, Descriptor, TypeOK
  <2>2. SnapshotIsCurrent'
    BY <1>3 DEF Claim, SnapshotIsCurrent, Busy, Descriptor, TypeOK, TokensNameClaims
  <2>3. HolderSeesEvent'
    BY <1>3 DEF Claim, HolderSeesEvent, Busy, Holds, Descriptor, TypeOK, TokensNameClaims
  <2>4. DoneMeansPerformed'
    BY <1>3 DEF Claim, DoneMeansPerformed
  <2>5. EventChargedPerClaim'
    BY <1>3 DEF Claim, EventChargedPerClaim, Rows, TypeOK
  <2>6. OkMeansPerformed'
    BY <1>3 DEF Claim, OkMeansPerformed, Descriptor
  <2>7. CancelledRowsExist'
    BY <1>3, KindAssumption DEF Claim, CancelledRowsExist, TypeOK
  <2> QED
    BY <2>1, <2>2, <2>3, <2>4, <2>5, <2>6, <2>7
<1>4. ASSUME NEW e \in Executor, Reload(e) PROVE IInv'
  <2>1. TokensNameClaims'
    BY <1>4 DEF Reload, TokensNameClaims, Busy, Holds, Descriptor
  <2>2. SnapshotIsCurrent'
    BY <1>4 DEF Reload, SnapshotIsCurrent, Busy, Holds, Descriptor
  <2>3. HolderSeesEvent'
    BY <1>4 DEF Reload, HolderSeesEvent, Busy, Holds, Descriptor
  <2>4. DoneMeansPerformed'
    BY <1>4 DEF Reload, DoneMeansPerformed
  <2>5. EventChargedPerClaim'
    BY <1>4 DEF Reload, EventChargedPerClaim
  <2>6. OkMeansPerformed'
    BY <1>4 DEF Reload, OkMeansPerformed, Descriptor
  <2>7. CancelledRowsExist'
    BY <1>4, KindAssumption DEF Reload, CancelledRowsExist, TypeOK
  <2> QED
    BY <2>1, <2>2, <2>3, <2>4, <2>5, <2>6, <2>7
<1>5. ASSUME NEW e \in Executor, Abandon(e) PROVE IInv'
  <2>1. TokensNameClaims'
    BY <1>5 DEF Abandon, TokensNameClaims, Busy, Idle
  <2>2. SnapshotIsCurrent'
    BY <1>5 DEF Abandon, SnapshotIsCurrent, Busy, Idle
  <2>3. HolderSeesEvent'
    BY <1>5 DEF Abandon, HolderSeesEvent, Busy, Holds, Idle
  <2>4. DoneMeansPerformed'
    BY <1>5 DEF Abandon, DoneMeansPerformed
  <2>5. EventChargedPerClaim'
    BY <1>5 DEF Abandon, EventChargedPerClaim
  <2>6. OkMeansPerformed'
    BY <1>5 DEF Abandon, OkMeansPerformed, Idle
  <2>7. CancelledRowsExist'
    BY <1>5, KindAssumption DEF Abandon, CancelledRowsExist, TypeOK
  <2> QED
    BY <2>1, <2>2, <2>3, <2>4, <2>5, <2>6, <2>7
<1>6. ASSUME NEW e \in Executor, HandlerCommits(e) PROVE IInv'
  <2>1. TokensNameClaims'
    BY <1>6 DEF HandlerCommits, TokensNameClaims, Goto, Busy, Idle, Descriptors, Pc, TypeOK
  <2>2. SnapshotIsCurrent'
    BY <1>6 DEF HandlerCommits, SnapshotIsCurrent, Goto, Busy, Idle, Descriptors, Pc, TypeOK
  <2>3. HolderSeesEvent'
    BY <1>6 DEF HandlerCommits, HolderSeesEvent, At, Goto, Busy, Holds, TypeOK
  <2>4. DoneMeansPerformed'
    BY <1>6 DEF HandlerCommits, DoneMeansPerformed
  <2>5. EventChargedPerClaim'
    BY <1>6 DEF HandlerCommits, EventChargedPerClaim
  <2>6. OkMeansPerformed'
    BY <1>6 DEF HandlerCommits, OkMeansPerformed, Goto
  <2>7. CancelledRowsExist'
    BY <1>6, KindAssumption DEF HandlerCommits, CancelledRowsExist, TypeOK
  <2> QED
    BY <2>1, <2>2, <2>3, <2>4, <2>5, <2>6, <2>7
<1>7. ASSUME NEW e \in Executor, NEW pc \in {"err", "fatal"}, HandlerRaises(e, pc) PROVE IInv'
  <2>1. TokensNameClaims'
    BY <1>7 DEF HandlerRaises, TokensNameClaims, Goto, Busy, Idle, Descriptors, Pc, TypeOK
  <2>2. SnapshotIsCurrent'
    BY <1>7 DEF HandlerRaises, SnapshotIsCurrent, Goto, Busy, Idle, Descriptors, Pc, TypeOK
  <2>3. HolderSeesEvent'
    BY <1>7 DEF HandlerRaises, HolderSeesEvent, Goto, Busy, Holds
  <2>4. DoneMeansPerformed'
    BY <1>7 DEF HandlerRaises, DoneMeansPerformed
  <2>5. EventChargedPerClaim'
    BY <1>7 DEF HandlerRaises, EventChargedPerClaim
  <2>6. OkMeansPerformed'
    BY <1>7 DEF HandlerRaises, OkMeansPerformed, Goto
  <2>7. CancelledRowsExist'
    BY <1>7, KindAssumption DEF HandlerRaises, CancelledRowsExist, TypeOK
  <2> QED
    BY <2>1, <2>2, <2>3, <2>4, <2>5, <2>6, <2>7
<1>8. ASSUME NEW e \in Executor, FinishDone(e) PROVE IInv'
  <2>1. TokensNameClaims'
    BY <1>8 DEF FinishDone, TokensNameClaims, Holds, Rows, TypeOK, NoToken
  <2>2. SnapshotIsCurrent'
    BY <1>8 DEF FinishDone, SnapshotIsCurrent, Goto, Busy, Idle, Rows, Descriptors, Pc, TypeOK
  <2>3. HolderSeesEvent'
    BY <1>8 DEF FinishDone, HolderSeesEvent, Goto, Busy, Holds, Idle, Descriptors, TypeOK
  <2>4. DoneMeansPerformed'
    BY <1>8, KindAssumption
       DEF FinishDone, DoneMeansPerformed, At, TypeOK, OkMeansPerformed, HolderSeesEvent
  <2>5. EventChargedPerClaim'
    BY <1>8, KindAssumption DEF FinishDone, EventChargedPerClaim, Rows, TypeOK
  <2>6. OkMeansPerformed'
    BY <1>8 DEF FinishDone, OkMeansPerformed, Goto
  <2>7. CancelledRowsExist'
    BY <1>8, KindAssumption DEF FinishDone, CancelledRowsExist, TypeOK
  <2> QED
    BY <2>1, <2>2, <2>3, <2>4, <2>5, <2>6, <2>7
<1>9. ASSUME NEW e \in Executor, FinishFailed(e) PROVE IInv'
  <2>a. /\ exec[e].job \in Job
        /\ \A k \in Job : \/ row'[k] = row[k]
                         \/ /\ k = exec[e].job
                            /\ row'[k].status \in {"FAILED", "PENDING"}
                            /\ row'[k].attempts = row[k].attempts
                            /\ row'[k].token = 0
    <3>1. exec[e].job \in Job
      BY <1>9, BusyHasDescriptor DEF FinishFailed, At, Busy, Descriptors
    <3> QED
      BY <1>9, <3>1 DEF FinishFailed, NoToken, TypeOK
  <2>b. UNCHANGED issued
    BY <1>9 DEF FinishFailed
  <2>c. exec' = [exec EXCEPT ![e].pc = "clearing"]
    BY <1>9 DEF FinishFailed, Goto
  <2>d. Busy(e)
    BY <1>9 DEF FinishFailed, At, Busy
  <2>1. TokensNameClaims'
    <3>1. \A d \in Executor :
            /\ exec'[d].token = exec[d].token
            /\ exec'[d].pc # "idle" <=> exec[d].pc # "idle"
      BY <2>c, <2>d DEF Busy, Idle, TypeOK, Descriptors
    <3>2. \A j \in Job :
            /\ row'[j].token <= issued
            /\ row'[j].status = "CLAIMED" => row'[j].token > 0
      BY <2>a DEF TokensNameClaims, TypeOK
    <3>3. \A d \in Executor :
            exec'[d].pc # "idle" => exec'[d].token \in 1..issued
      BY <3>1 DEF TokensNameClaims, Busy
    <3>4. \A c, d \in Executor :
            c # d /\ exec'[c].pc # "idle" /\ exec'[d].pc # "idle"
              => exec'[c].token # exec'[d].token
      BY <3>1 DEF TokensNameClaims, Busy
    <3> QED
      BY <2>b, <3>2, <3>3, <3>4 DEF TokensNameClaims, Busy
  <2>2. SnapshotIsCurrent'
    BY <2>a, <2>c, <2>d DEF SnapshotIsCurrent, TokensNameClaims, Busy, Idle, TypeOK, Descriptors, Pc
  <2>3. HolderSeesEvent'
    BY <1>9 DEF FinishFailed, HolderSeesEvent, Goto, Busy, Holds, Idle, Descriptors, TypeOK
  <2>4. DoneMeansPerformed'
    BY <1>9 DEF FinishFailed, DoneMeansPerformed, TypeOK
  <2>5. EventChargedPerClaim'
    BY <1>9, KindAssumption DEF FinishFailed, EventChargedPerClaim, Holds, TypeOK
  <2>6. OkMeansPerformed'
    BY <1>9 DEF FinishFailed, OkMeansPerformed, Goto
  <2>7. CancelledRowsExist'
    BY <1>9, <2>a, KindAssumption DEF FinishFailed, CancelledRowsExist, TypeOK
  <2> QED
    BY <2>1, <2>2, <2>3, <2>4, <2>5, <2>6, <2>7
<1>10. ASSUME NEW e \in Executor, FinishStale(e) PROVE IInv'
  <2>1. TokensNameClaims'
    BY <1>10 DEF FinishStale, TokensNameClaims, Goto, Busy, Idle, Descriptors, Pc, TypeOK
  <2>2. SnapshotIsCurrent'
    BY <1>10 DEF FinishStale, SnapshotIsCurrent, Goto, Busy, Idle, Descriptors, Pc, TypeOK
  <2>3. HolderSeesEvent'
    BY <1>10 DEF FinishStale, HolderSeesEvent, Goto, Busy, Holds
  <2>4. DoneMeansPerformed'
    BY <1>10 DEF FinishStale, DoneMeansPerformed
  <2>5. EventChargedPerClaim'
    BY <1>10 DEF FinishStale, EventChargedPerClaim
  <2>6. OkMeansPerformed'
    BY <1>10 DEF FinishStale, OkMeansPerformed, Goto
  <2>7. CancelledRowsExist'
    BY <1>10, KindAssumption DEF FinishStale, CancelledRowsExist, TypeOK
  <2> QED
    BY <2>1, <2>2, <2>3, <2>4, <2>5, <2>6, <2>7
<1>11. ASSUME NEW e \in Executor, FinishError(e) PROVE IInv'
  <2>1. TokensNameClaims'
    BY <1>11 DEF FinishError, TokensNameClaims, Goto, Busy, Idle, Descriptors, Pc, TypeOK
  <2>2. SnapshotIsCurrent'
    BY <1>11 DEF FinishError, SnapshotIsCurrent, Goto, Busy, Idle, Descriptors, Pc, TypeOK
  <2>3. HolderSeesEvent'
    BY <1>11 DEF FinishError, HolderSeesEvent, Goto, Busy, Holds
  <2>4. DoneMeansPerformed'
    BY <1>11 DEF FinishError, DoneMeansPerformed
  <2>5. EventChargedPerClaim'
    BY <1>11 DEF FinishError, EventChargedPerClaim
  <2>6. OkMeansPerformed'
    BY <1>11 DEF FinishError, OkMeansPerformed, Goto
  <2>7. CancelledRowsExist'
    BY <1>11, KindAssumption DEF FinishError, CancelledRowsExist, TypeOK
  <2> QED
    BY <2>1, <2>2, <2>3, <2>4, <2>5, <2>6, <2>7
<1>12. ASSUME NEW e \in Executor, Clear(e) PROVE IInv'
  <2>1. TokensNameClaims'
    BY <1>12 DEF Clear, TokensNameClaims, Busy, Idle
  <2>2. SnapshotIsCurrent'
    BY <1>12 DEF Clear, SnapshotIsCurrent, Busy, Idle
  <2>3. HolderSeesEvent'
    BY <1>12 DEF Clear, HolderSeesEvent, Busy, Holds, Idle
  <2>4. DoneMeansPerformed'
    BY <1>12 DEF Clear, DoneMeansPerformed
  <2>5. EventChargedPerClaim'
    BY <1>12 DEF Clear, EventChargedPerClaim
  <2>6. OkMeansPerformed'
    BY <1>12 DEF Clear, OkMeansPerformed, Idle
  <2>7. CancelledRowsExist'
    BY <1>12, KindAssumption DEF Clear, CancelledRowsExist, TypeOK
  <2> QED
    BY <2>1, <2>2, <2>3, <2>4, <2>5, <2>6, <2>7
<1>13. ASSUME NEW cutoff \in 1..issued, Reap(cutoff) PROVE IInv'
  <2>0. ReapPass(cutoff)
    BY <1>13, ReapEffect, Zenon
  <2>a. /\ row' \in [Job -> Rows]
        /\ \A j \in Job : /\ row'[j].attempts = row[j].attempts
                          /\ \/ row'[j] = row[j]
                             \/ /\ row[j].status = "CLAIMED"
                                /\ row'[j].status = "PENDING"
                                /\ row'[j].token = 0
    BY <2>0 DEF ReapPass, Older, Claimed, NoToken, TypeOK, Rows
  <2>b. UNCHANGED <<event, exec, issued, performed, swallowed, revoked, cancelling>>
    BY <2>0 DEF ReapPass
  <2>1. TokensNameClaims'
    BY <2>a, <2>b, KindAssumption DEF TokensNameClaims, Busy, TypeOK
  <2>2. SnapshotIsCurrent'
    BY <2>a, <2>b, KindAssumption
       DEF SnapshotIsCurrent, TokensNameClaims, Busy, Idle, Descriptors, TypeOK
  <2>3. HolderSeesEvent'
    BY <2>a, <2>b, KindAssumption DEF HolderSeesEvent, Busy, Holds
  <2>4. DoneMeansPerformed'
    BY <2>a, <2>b, KindAssumption DEF DoneMeansPerformed
  <2>5. EventChargedPerClaim'
    BY <2>a, <2>b, KindAssumption DEF EventChargedPerClaim, Rows, TypeOK
  <2>6. OkMeansPerformed'
    BY <2>a, <2>b, KindAssumption DEF OkMeansPerformed
  <2>7. CancelledRowsExist'
    BY <2>a, <2>b, KindAssumption DEF CancelledRowsExist, TypeOK
  <2> QED
    BY <2>1, <2>2, <2>3, <2>4, <2>5, <2>6, <2>7
<1>14. ASSUME NEW j \in Job, Mark(j) PROVE IInv'
  <2>1. TokensNameClaims'
    BY <1>14 DEF Mark, TokensNameClaims, Busy
  <2>2. SnapshotIsCurrent'
    BY <1>14 DEF Mark, SnapshotIsCurrent, Busy
  <2>3. HolderSeesEvent'
    BY <1>14 DEF Mark, HolderSeesEvent, Busy, Holds
  <2>4. DoneMeansPerformed'
    BY <1>14 DEF Mark, DoneMeansPerformed
  <2>5. EventChargedPerClaim'
    BY <1>14 DEF Mark, EventChargedPerClaim
  <2>6. OkMeansPerformed'
    BY <1>14 DEF Mark, OkMeansPerformed
  <2>7. CancelledRowsExist'
    BY <1>14, KindAssumption DEF Mark, CancelledRowsExist, TypeOK
  <2> QED
    BY <2>1, <2>2, <2>3, <2>4, <2>5, <2>6, <2>7
<1>15. ASSUME NEW S \in {Claimed, {}}, Restart(S) PROVE IInv'
  <2>1. TokensNameClaims'
    BY <1>15 DEF Restart, TokensNameClaims, Busy, Idle, Claimed
  <2>2. SnapshotIsCurrent'
    BY <1>15 DEF Restart, SnapshotIsCurrent, Busy, Idle, Claimed
  <2>3. HolderSeesEvent'
    BY <1>15 DEF Restart, HolderSeesEvent, Idle, Claimed
  <2>4. DoneMeansPerformed'
    BY <1>15 DEF Restart, DoneMeansPerformed, Claimed
  <2>5. EventChargedPerClaim'
    BY <1>15, KindAssumption DEF Restart, EventChargedPerClaim, Rows, TypeOK, Claimed
  <2>6. OkMeansPerformed'
    BY <1>15 DEF Restart, OkMeansPerformed, Idle, Claimed
  <2>7. CancelledRowsExist'
    BY <1>15, KindAssumption DEF Restart, CancelledRowsExist, TypeOK, Claimed
  <2> QED
    BY <2>1, <2>2, <2>3, <2>4, <2>5, <2>6, <2>7
<1>16. CASE UNCHANGED vars
  BY <1>16
     DEF vars, Busy, Holds, TokensNameClaims, SnapshotIsCurrent, HolderSeesEvent,
         DoneMeansPerformed, EventChargedPerClaim, OkMeansPerformed, CancelledRowsExist
<1>17. ASSUME NEW e \in Executor, ReloadError(e) PROVE IInv'
  <2>1. TokensNameClaims'
    BY <1>17 DEF ReloadError, TokensNameClaims, Busy, Idle
  <2>2. SnapshotIsCurrent'
    BY <1>17 DEF ReloadError, SnapshotIsCurrent, Busy, Idle
  <2>3. HolderSeesEvent'
    BY <1>17 DEF ReloadError, HolderSeesEvent, Busy, Holds, Idle
  <2>4. DoneMeansPerformed'
    BY <1>17 DEF ReloadError, DoneMeansPerformed
  <2>5. EventChargedPerClaim'
    BY <1>17 DEF ReloadError, EventChargedPerClaim
  <2>6. OkMeansPerformed'
    BY <1>17 DEF ReloadError, OkMeansPerformed, Idle
  <2>7. CancelledRowsExist'
    BY <1>17, KindAssumption DEF ReloadError, CancelledRowsExist, TypeOK
  <2> QED
    BY <2>1, <2>2, <2>3, <2>4, <2>5, <2>6, <2>7
<1>18. ASSUME NEW e \in Executor, CommitSwallowed(e) PROVE IInv'
  <2>1. TokensNameClaims'
    BY <1>18 DEF CommitSwallowed, TokensNameClaims, Goto, Busy, Idle, Descriptors, Pc, TypeOK
  <2>2. SnapshotIsCurrent'
    BY <1>18 DEF CommitSwallowed, SnapshotIsCurrent, Goto, Busy, Idle, Descriptors, Pc, TypeOK
  <2>3. HolderSeesEvent'
    BY <1>18 DEF CommitSwallowed, HolderSeesEvent, At, Goto, Busy, Holds, TypeOK
  <2>4. DoneMeansPerformed'
    BY <1>18 DEF CommitSwallowed, DoneMeansPerformed
  <2>5. EventChargedPerClaim'
    BY <1>18 DEF CommitSwallowed, EventChargedPerClaim
  <2>6. OkMeansPerformed'
    BY <1>18 DEF CommitSwallowed, OkMeansPerformed, Goto
  <2>7. CancelledRowsExist'
    BY <1>18, KindAssumption DEF CommitSwallowed, CancelledRowsExist, TypeOK
  <2> QED
    BY <2>1, <2>2, <2>3, <2>4, <2>5, <2>6, <2>7
<1>19. ASSUME NEW S \in SUBSET FollowUp, CancelReads(S) PROVE IInv'
  <2>1. TokensNameClaims' /\ SnapshotIsCurrent' /\ HolderSeesEvent'
    BY <1>19 DEF CancelReads, TokensNameClaims, SnapshotIsCurrent, HolderSeesEvent, Busy, Holds
  <2>2. DoneMeansPerformed' /\ EventChargedPerClaim' /\ OkMeansPerformed'
    BY <1>19 DEF CancelReads, DoneMeansPerformed, EventChargedPerClaim, OkMeansPerformed
  <2>3. CancelledRowsExist'
    BY <1>19 DEF CancelReads, CancelledRowsExist
  <2> QED
    BY <2>1, <2>2, <2>3
<1>20. ASSUME NEW S \in SUBSET FollowUp, CancelWrites(S) PROVE IInv'
  <2>a. /\ UNCHANGED <<event, exec, issued, performed, swallowed>>
        /\ \A j \in Job : /\ row'[j].attempts = row[j].attempts
                          /\ row'[j].token = row[j].token
                          /\ row'[j] = row[j] \/ (row'[j].status = "FAILED" /\ j \notin Webhook)
    BY <1>20, KindAssumption DEF CancelWrites, TypeOK, Rows
  <2>1. TokensNameClaims'
    BY <2>a DEF TokensNameClaims, Busy
  <2>2. SnapshotIsCurrent'
    BY <2>a DEF SnapshotIsCurrent, Busy, Idle, Descriptors, TypeOK
  <2>3. HolderSeesEvent'
    BY <2>a, KindAssumption DEF HolderSeesEvent, Busy, Holds
  <2>4. DoneMeansPerformed'
    BY <2>a DEF DoneMeansPerformed
  <2>5. EventChargedPerClaim'
    BY <2>a, KindAssumption DEF EventChargedPerClaim
  <2>6. OkMeansPerformed'
    BY <2>a DEF OkMeansPerformed
  <2>7. CancelledRowsExist'
    BY <1>20, <2>a, KindAssumption DEF CancelWrites, CancelledRowsExist, TypeOK
  <2> QED
    BY <2>1, <2>2, <2>3, <2>4, <2>5, <2>6, <2>7
<1> QED
  BY <1>1, <1>2, <1>3, <1>4, <1>5, <1>6, <1>7, <1>8, <1>9, <1>10,
     <1>11, <1>12, <1>13, <1>14, <1>15, <1>16, <1>17, <1>18, <1>19, <1>20
     DEF Next, Thread, Handler, Finish, Reaper

\* The inductive invariant holds in every reachable state.
THEOREM InvariantHolds == Spec => []IInv
<1>1. Init => IInv
  <2> SUFFICES ASSUME Init PROVE IInv
    OBVIOUS
  <2>1. TypeOK
    BY InitTyped
  <2>2. TokensNameClaims /\ SnapshotIsCurrent /\ HolderSeesEvent /\ OkMeansPerformed
    BY DEF Init, TokensNameClaims, SnapshotIsCurrent, HolderSeesEvent, OkMeansPerformed,
           Busy, Holds, Idle, NoToken
  <2>3. DoneMeansPerformed /\ EventChargedPerClaim /\ CancelledRowsExist
    BY KindAssumption DEF Init, DoneMeansPerformed, EventChargedPerClaim, CancelledRowsExist, NoToken
  <2> QED
    BY <2>1, <2>2, <2>3 DEF IInv
<1>2. IInv /\ TypeOK' /\ [Next]_vars => IInv'
  BY IInvStep
<1>3. Spec => []TypeOK
  BY TypeCorrect
<1> QED
  BY <1>1, <1>2, <1>3, PTL DEF Spec

\* A job recorded DONE has had its effect committed.
THEOREM DoneIsPerformed == Spec => []DoneMeansPerformed
<1>1. IInv => DoneMeansPerformed
  BY DEF IInv
<1> QED
  BY <1>1, InvariantHolds, PTL

\* A webhook event is charged at most once per claim of its job.
THEOREM ChargedOncePerClaim == Spec => []EventChargedPerClaim
<1>1. IInv => EventChargedPerClaim
  BY DEF IInv
<1> QED
  BY <1>1, InvariantHolds, PTL

\* No step of any thread, of the reaper or of a restart writes a finished row;
\* only a cancellation that read it before does.
THEOREM FinishedRowsStay == Spec => TerminalIsFinal
<1> DEFINE A == \A j \in Job : row[j].status \in Terminal => row'[j] = row[j] \/ CancelFails(j)
<1>1. ASSUME TypeOK, [Next]_vars PROVE [A]_vars
  <2> SUFFICES ASSUME Next, NEW k \in Job, row[k].status \in Terminal
               PROVE  row'[k] = row[k] \/ CancelFails(k)
    BY <1>1
  <2> USE <1>1 DEF TypeOK, Terminal
  <2>1. ASSUME NEW j \in Job, Enqueue(j) PROVE row'[k] = row[k]
    BY <2>1 DEF Enqueue
  <2>2. ASSUME NEW S \in SUBSET Sweep, Supersede(S) PROVE row'[k] = row[k]
    BY <2>2 DEF Supersede
  <2>3. ASSUME NEW e \in Executor, NEW j \in Job, Claim(e, j) PROVE row'[k] = row[k]
    BY <2>3 DEF Claim
  <2>4. ASSUME NEW e \in Executor, FinishDone(e) PROVE row'[k] = row[k]
    BY <2>4 DEF FinishDone, Holds
  <2>5. ASSUME NEW e \in Executor, FinishFailed(e) PROVE row'[k] = row[k]
    BY <2>5 DEF FinishFailed, Holds
  <2>6. ASSUME NEW cutoff \in 1..issued, Reap(cutoff) PROVE row'[k] = row[k]
    <3>1. ReapPass(cutoff)
      BY <2>6, ReapEffect, Zenon
    <3> QED
      BY <3>1 DEF ReapPass, Older, Claimed
  <2>7. ASSUME NEW S \in {Claimed, {}}, Restart(S) PROVE row'[k] = row[k]
    BY <2>7 DEF Restart, Claimed
  <2>8. ASSUME NEW e \in Executor, \/ Reload(e) \/ ReloadError(e) \/ Abandon(e) \/ Handler(e)
                                   \/ FinishStale(e) \/ FinishError(e) \/ Clear(e)
        PROVE  row'[k] = row[k]
    BY <2>8
       DEF Reload, ReloadError, Abandon, Handler, HandlerCommits, CommitSwallowed, HandlerRaises,
           FinishStale, FinishError, Clear
  <2>9. ASSUME NEW j \in Job, Mark(j) PROVE row'[k] = row[k]
    BY <2>9 DEF Mark
  <2>10. ASSUME NEW S \in SUBSET FollowUp, CancelReads(S) PROVE row'[k] = row[k]
    BY <2>10 DEF CancelReads
  <2>11. ASSUME NEW S \in SUBSET FollowUp, CancelWrites(S) PROVE row'[k] = row[k] \/ CancelFails(k)
    BY <2>11 DEF CancelWrites, CancelFails
  <2> QED
    BY <2>1, <2>2, <2>3, <2>4, <2>5, <2>6, <2>7, <2>8, <2>9, <2>10, <2>11
       DEF Next, Thread, Finish, Reaper
<1> QED
  BY <1>1, TypeCorrect, PTL DEF Spec, TerminalIsFinal

\* A job is finished by the thread of its latest claim, according to the
\* outcome of that thread's own handler, unless a cancellation fails it.
THEOREM LatestDecides == Spec => LatestClaimDecides
<1> DEFINE Finisher(j, e) ==
             /\ Busy(e) /\ exec[e].job = j /\ exec[e].token = row[j].token
             /\ IF row'[j].status = "DONE"
                  THEN exec[e].pc = "ok"
                  ELSE \/ exec[e].pc = "fatal"
                       \/ exec[e].pc = "err" /\ row[j].attempts >= MaxAttempts
<1>1. ASSUME IInv, [Next]_vars
      PROVE  [\A j \in Job : row[j].status = "CLAIMED" /\ row'[j].status \in Terminal =>
                \/ CancelFails(j)
                \/ \E e \in Executor : Finisher(j, e)]_vars
  <2> SUFFICES ASSUME Next, NEW k \in Job, row[k].status = "CLAIMED", row'[k].status \in Terminal
               PROVE  CancelFails(k) \/ \E e \in Executor : Finisher(k, e)
    BY <1>1
  <2> USE DEF Terminal
  <2>1. TypeOK /\ SnapshotIsCurrent
    BY <1>1 DEF IInv
  <2>2. ASSUME NEW e \in Executor, FinishDone(e) PROVE Finisher(k, e)
    BY <2>1, <2>2 DEF FinishDone, Holds, At, Busy, TypeOK, Rows
  <2>3. ASSUME NEW e \in Executor, FinishFailed(e) PROVE Finisher(k, e)
    BY <2>1, <2>3 DEF FinishFailed, Holds, At, Busy, TypeOK, Rows, GivesUp, SnapshotIsCurrent
  <2>4. ASSUME NEW j \in Job, Enqueue(j) PROVE FALSE
    BY <2>1, <2>4 DEF Enqueue, TypeOK, Rows
  <2>5. ASSUME NEW S \in SUBSET Sweep, Supersede(S) PROVE FALSE
    BY <2>1, <2>5 DEF Supersede, TypeOK, Rows
  <2>6. ASSUME NEW e \in Executor, NEW j \in Job, Claim(e, j) PROVE FALSE
    BY <2>1, <2>6 DEF Claim, TypeOK, Rows
  <2>7. ASSUME NEW cutoff \in 1..issued, Reap(cutoff) PROVE FALSE
    <3>1. ReapPass(cutoff)
      BY <2>7, ReapEffect, Zenon
    <3> QED
      BY <2>1, <3>1 DEF ReapPass, Older, Claimed, TypeOK, Rows
  <2>8. ASSUME NEW S \in {Claimed, {}}, Restart(S) PROVE FALSE
    BY <2>1, <2>8 DEF Restart, Claimed, TypeOK, Rows
  <2>9. ASSUME NEW e \in Executor, \/ Reload(e) \/ ReloadError(e) \/ Abandon(e) \/ Handler(e)
                                   \/ FinishStale(e) \/ FinishError(e) \/ Clear(e)
        PROVE  FALSE
    BY <2>9
       DEF Reload, ReloadError, Abandon, Handler, HandlerCommits, CommitSwallowed, HandlerRaises,
           FinishStale, FinishError, Clear
  <2>10. ASSUME NEW j \in Job, Mark(j) PROVE FALSE
    BY <2>10 DEF Mark
  <2>11. ASSUME NEW S \in SUBSET FollowUp, CancelReads(S) PROVE FALSE
    BY <2>11 DEF CancelReads
  <2>12. ASSUME NEW S \in SUBSET FollowUp, CancelWrites(S) PROVE CancelFails(k)
    BY <2>1, <2>12 DEF CancelWrites, CancelFails, TypeOK, Rows
  <2> QED
    BY <2>2, <2>3, <2>4, <2>5, <2>6, <2>7, <2>8, <2>9, <2>10, <2>11, <2>12
       DEF Next, Thread, Finish, Reaper
<1> QED
  BY <1>1, InvariantHolds, PTL DEF Spec, LatestClaimDecides

\* The queue implements the abstract job lifecycle.
THEOREM QueueImplementsLifecycle == Spec => ImplementsLifecycle
<1> USE DEF Lifecycle!Move
<1> DEFINE st == [j \in Job |-> row[j].status]
<1>1. Init => Lifecycle!Init
  BY DEF Init, Lifecycle!Init
<1>2. ASSUME IInv, [Next]_vars
      PROVE  [Lifecycle!Next]_(Lifecycle!vars)
  <2>1. TypeOK /\ SnapshotIsCurrent /\ OkMeansPerformed /\ CancelledRowsExist
    BY <1>2 DEF IInv
  <2> USE <2>1 DEF TypeOK, Rows
  <2>2. CASE UNCHANGED vars
    BY <2>2 DEF vars, Lifecycle!vars
  <2>3. ASSUME NEW j \in Job, Enqueue(j) PROVE Lifecycle!Submit(j)
    BY <2>3 DEF Enqueue, Lifecycle!Submit
  <2>4. ASSUME NEW e \in Executor, NEW j \in Job, Claim(e, j) PROVE Lifecycle!Start(j)
    BY <2>4 DEF Claim, Lifecycle!Start
  <2>5. ASSUME NEW e \in Executor, NEW j \in Job, j = exec[e].job, FinishDone(e)
        PROVE  Lifecycle!Complete(j)
    <3>1. exec[e] \in Descriptors
      BY <2>5, BusyHasDescriptor DEF FinishDone, At, Busy
    <3> QED
      BY <2>5, <3>1 DEF FinishDone, Holds, At, Descriptors, OkMeansPerformed, Lifecycle!Complete
  <2>6. ASSUME NEW e \in Executor, NEW j \in Job, j = exec[e].job, FinishFailed(e)
        PROVE  Lifecycle!GiveUp(j) \/ Lifecycle!Requeue({j})
    <3>1. exec[e] \in Descriptors
      BY <2>6, BusyHasDescriptor DEF FinishFailed, At, Busy
    <3>2. CASE GivesUp(e)
      BY <2>6, <3>1, <3>2 DEF FinishFailed, Holds, Descriptors, Lifecycle!GiveUp
    <3>3. CASE ~GivesUp(e)
      BY <2>6, <3>1, <3>3 DEF FinishFailed, Holds, Descriptors, Lifecycle!Requeue, Lifecycle!MoveAll
    <3> QED
      BY <3>2, <3>3
  <2>7. ASSUME NEW e \in Executor, NEW j \in Job, j = exec[e].job, HandlerCommits(e) \/ CommitSwallowed(e)
        PROVE  Lifecycle!Perform(j)
    <3>1. exec[e] \in Descriptors /\ row[exec[e].job].status # "ABSENT"
      BY <2>7, BusyHasDescriptor DEF HandlerCommits, CommitSwallowed, At, Busy, SnapshotIsCurrent
    <3>2. /\ performed' \union swallowed' = (performed \union swallowed) \union {exec[e].job}
          /\ UNCHANGED row
      BY <2>7 DEF HandlerCommits, CommitSwallowed
    <3> QED
      BY <2>7, <3>1, <3>2 DEF Descriptors, Lifecycle!Perform
  <2>8. ASSUME NEW S \in SUBSET Sweep, Supersede(S) PROVE Lifecycle!Supersede(S)
    BY <2>8, KindAssumption DEF Supersede, Lifecycle!Supersede, Lifecycle!MoveAll
  <2>9. ASSUME NEW cutoff \in 1..issued, NEW S \in SUBSET Job, S = Older(cutoff), Reap(cutoff)
        PROVE  Lifecycle!Requeue(S)
    <3>1. ReapPass(cutoff) /\ S # {}
      <4>1. ReapPass(cutoff)
        BY <2>9, ReapEffect, Zenon
      <4>2. S # {}
        BY <2>9, Zenon DEF Reap
      <4> QED
        BY <4>1, <4>2
    <3>2. S \subseteq Claimed /\ row' = [j \in Job |-> IF j \in S
                              THEN [row[j] EXCEPT !.status = "PENDING", !.token = NoToken]
                              ELSE row[j]]
      BY <2>9, <3>1 DEF ReapPass, Older
    <3>3. UNCHANGED <<performed, swallowed>>
      BY <3>1 DEF ReapPass
    <3> QED
      BY <3>1, <3>2, <3>3 DEF Claimed, Lifecycle!Requeue, Lifecycle!MoveAll
  <2>10. ASSUME NEW S \in {Claimed, {}}, Restart(S)
         PROVE  Lifecycle!Requeue(S) \/ UNCHANGED Lifecycle!vars
    <3>1. CASE S = {}
      BY <2>10, <3>1 DEF Restart, Lifecycle!vars
    <3>2. CASE S = Claimed /\ S # {}
      BY <2>10, <3>2 DEF Restart, Claimed, Lifecycle!Requeue, Lifecycle!MoveAll
    <3> QED
      BY <3>1, <3>2
  <2>11. ASSUME NEW e \in Executor, \/ Reload(e) \/ ReloadError(e) \/ Abandon(e) \/ FinishStale(e)
                                    \/ FinishError(e) \/ Clear(e)
                                    \/ \E pc \in {"err", "fatal"} : HandlerRaises(e, pc)
         PROVE  UNCHANGED Lifecycle!vars
    BY <2>11
       DEF Reload, ReloadError, Abandon, HandlerRaises, FinishStale, FinishError, Clear, Lifecycle!vars
  <2>12. ASSUME NEW j \in Job, Mark(j) PROVE UNCHANGED Lifecycle!vars
    BY <2>12 DEF Mark, Lifecycle!vars
  <2>13. ASSUME NEW e \in Executor, Busy(e) PROVE exec[e].job \in Job
    BY <2>13, BusyHasDescriptor DEF Descriptors
  <2>14. ASSUME NEW e \in Executor PROVE Thread(e) => [Lifecycle!Next]_(Lifecycle!vars)
    <3>1. CASE \E j \in Job : Claim(e, j)
      BY <2>4, <3>1 DEF Lifecycle!Next
    <3>2. CASE FinishDone(e)
      <4>1. exec[e].job \in Job
        BY <2>13, <3>2 DEF FinishDone, At, Busy
      <4> QED
        BY <2>5, <3>2, <4>1 DEF Lifecycle!Next
    <3>3. CASE FinishFailed(e)
      <4>1. exec[e].job \in Job
        BY <2>13, <3>3 DEF FinishFailed, At, Busy
      <4>2. PICK j \in Job : j = exec[e].job
        BY <4>1
      <4>3. Lifecycle!GiveUp(j) \/ Lifecycle!Requeue({j})
        BY <2>6, <3>3, <4>2
      <4>4. {j} \in SUBSET Job
        OBVIOUS
      <4> QED
        BY <4>3, <4>4 DEF Lifecycle!Next
    <3>4. CASE HandlerCommits(e) \/ CommitSwallowed(e)
      <4>1. exec[e].job \in Job
        BY <2>13, <3>4 DEF HandlerCommits, CommitSwallowed, At, Busy
      <4> QED
        BY <2>7, <3>4, <4>1 DEF Lifecycle!Next
    <3> QED
      BY <2>11, <3>1, <3>2, <3>3, <3>4 DEF Thread, Handler, Finish
  <2>15. Reaper => [Lifecycle!Next]_(Lifecycle!vars)
    <3>1. \A cutoff : Older(cutoff) \in SUBSET Job
      BY DEF Older, Claimed
    <3>2. CASE \E cutoff \in 1..issued : Reap(cutoff)
      <4>1. \E S \in SUBSET Job : Lifecycle!Requeue(S)
        BY <2>9, <3>1, <3>2
      <4> QED
        BY <4>1 DEF Lifecycle!Next
    <3>3. CASE \E j \in Job : Mark(j)
      BY <2>12, <3>3
    <3> QED
      BY <3>2, <3>3 DEF Reaper
  <2>16. ASSUME NEW S \in SUBSET FollowUp, CancelWrites(S)
         PROVE  Lifecycle!Withdraw(S) \/ UNCHANGED Lifecycle!vars
    <3>1. CASE S = {}
      BY <2>16, <3>1 DEF CancelWrites, Lifecycle!vars
    <3>2. CASE S # {}
      BY <2>16, <3>2, KindAssumption DEF CancelWrites, CancelledRowsExist, Lifecycle!Withdraw
    <3> QED
      BY <3>1, <3>2
  <2> QED
    <3>1. CASE \E S \in {Claimed, {}} : Restart(S)
      <4>1. {Claimed, {}} \subseteq SUBSET Job
        BY DEF Claimed
      <4> QED
        BY <2>10, <3>1, <4>1 DEF Lifecycle!Next
    <3>2. CASE \E S \in SUBSET Sweep : Supersede(S)
      <4>1. SUBSET Sweep \subseteq SUBSET Job
        BY KindAssumption
      <4> QED
        BY <2>8, <3>2, <4>1 DEF Lifecycle!Next
    <3>3. CASE \E j \in Job : Enqueue(j)
      BY <2>3, <3>3 DEF Lifecycle!Next
    <3>4. CASE \E S \in SUBSET FollowUp : CancelReads(S)
      BY <3>4 DEF CancelReads, Lifecycle!vars
    <3>5. CASE \E S \in SUBSET FollowUp : CancelWrites(S)
      <4>1. SUBSET FollowUp \subseteq SUBSET Job
        BY KindAssumption
      <4> QED
        BY <2>16, <3>5, <4>1 DEF Lifecycle!Next
    <3> QED
      BY <1>2, <2>2, <2>14, <2>15, <3>1, <3>2, <3>3, <3>4, <3>5 DEF Next
<1> QED
  BY <1>1, <1>2, InvariantHolds, PTL DEF Spec, ImplementsLifecycle, Lifecycle!Spec
-----------------------------------------------------------------------------
(* How often a row is claimed *)

\* A step that spends one of the bound makes room for one claim more.
LEMMA FaultCovers ==
  ASSUME TypeOK, AttemptsCovered, faults > 0, faults' = faults - 1,
         \A j \in Job : row'[j].attempts = row[j].attempts
  PROVE  AttemptsCovered'
BY AttemptAssumption, BoundAssumption DEF TypeOK, Rows, AttemptsCovered, Used

\* A step is harmless for a row it claims no further, unless it leaves the row
\* open and without its thread.
LEMMA StepCovers ==
  ASSUME TypeOK, AttemptsCovered, faults' = faults,
         \A j \in Job : /\ row'[j].attempts = row[j].attempts
                        /\ row'[j].status \notin Terminal /\ ~Live(j)' =>
                              row[j].status \notin Terminal /\ ~Live(j)
  PROVE  AttemptsCovered'
BY DEF AttemptsCovered, Used

\* A row is not claimed more often than max_attempts and the requeues that were
\* no failures allow.
THEOREM AttemptsStayBounded == Spec => []AttemptsBounded
<1>1. Init => AttemptsCovered
  BY AttemptAssumption, BoundAssumption DEF Init, AttemptsCovered, Used
<1>2. ASSUME IInv, AttemptsCovered, [Next]_vars PROVE AttemptsCovered'
  <2> USE <1>2
  <2>0. TypeOK /\ SnapshotIsCurrent
    BY DEF IInv
  <2>1. CASE UNCHANGED vars
    BY <2>1, <2>0, StepCovers DEF vars, Live, At, Holds, Busy
  <2>2. ASSUME NEW j \in Job, Enqueue(j) PROVE AttemptsCovered'
    BY <2>2, <2>0, StepCovers DEF Enqueue, TypeOK, Rows, Live, At, Holds, Busy, Terminal
  <2>3. ASSUME NEW S \in SUBSET Sweep, Supersede(S) PROVE AttemptsCovered'
    BY <2>3, <2>0, StepCovers DEF Supersede, TypeOK, Rows, Live, At, Holds, Busy, Terminal
  <2>4. ASSUME NEW S \in SUBSET FollowUp, CancelReads(S) PROVE AttemptsCovered'
    BY <2>4, <2>0, FaultCovers DEF CancelReads
  <2>5. ASSUME NEW S \in SUBSET FollowUp, CancelWrites(S) PROVE AttemptsCovered'
    BY <2>5, <2>0, StepCovers DEF CancelWrites, TypeOK, Rows, Live, At, Holds, Busy, Terminal
  <2>6. ASSUME NEW e \in Executor, NEW j \in Job, Claim(e, j) PROVE AttemptsCovered'
    <3>1. ~Live(j) /\ row[j].status \notin Terminal
      BY <2>6 DEF Claim, Live, Holds, Terminal
    <3>2. Live(j)' /\ row'[j].attempts = row[j].attempts + 1
      BY <2>6, <2>0 DEF Claim, Descriptor, Live, At, Holds, Busy, TypeOK, Rows
    <3>3. ASSUME NEW k \in Job \ {j} PROVE row'[k] = row[k] /\ (Live(k)' <=> Live(k))
      BY <2>6, <2>0 DEF Claim, Descriptor, Live, At, Holds, Busy, TypeOK, Rows, Idle
    <3> QED
      BY <2>6, <2>0, <3>1, <3>2, <3>3, AttemptAssumption, BoundAssumption
         DEF Claim, AttemptsCovered, Used, TypeOK, Rows
  <2>7. ASSUME NEW e \in Executor,
               \/ Reload(e) \/ Abandon(e) \/ HandlerCommits(e)
               \/ (\E pc \in {"err", "fatal"} : HandlerRaises(e, pc))
               \/ FinishStale(e) \/ Clear(e)
        PROVE  AttemptsCovered'
    <3>1. faults' = faults /\ row' = row
      BY <2>7 DEF Reload, Abandon, HandlerCommits, HandlerRaises, FinishStale, Clear
    <3>2. ASSUME NEW k \in Job, Live(k) PROVE Live(k)'
      <4>1. PICK d \in Executor : /\ At(d, {"claimed", "running", "ok", "err", "fatal"})
                                  /\ exec[d].job = k /\ Holds(d)
        BY <3>2 DEF Live
      <4>2. /\ At(d, {"claimed", "running", "ok", "err", "fatal"})'
            /\ exec'[d].job = k /\ exec'[d].token = exec[d].token
        <5>1. CASE d # e
          <6>1. exec'[d] = exec[d]
            BY <2>7, <2>0, <5>1
               DEF Reload, Abandon, HandlerCommits, HandlerRaises, FinishStale, Clear, Goto, TypeOK
          <6> QED
            BY <4>1, <6>1 DEF At
        <5>2. CASE d = e
          <6>1. exec[e] \in Descriptors
            BY <2>0, <4>1, <5>2, BusyHasDescriptor DEF Holds
          <6>2. ~Abandon(e) /\ ~FinishStale(e) /\ ~Clear(e)
            BY <4>1, <5>2 DEF Abandon, FinishStale, Clear, At
          <6>3. CASE Reload(e)
            BY <2>0, <4>1, <5>2, <6>3 DEF Reload, Descriptor, At, TypeOK
          <6>4. CASE HandlerCommits(e)
            BY <2>0, <4>1, <5>2, <6>1, <6>4 DEF HandlerCommits, Goto, Descriptors, At, TypeOK
          <6>5. ASSUME NEW pc \in {"err", "fatal"}, HandlerRaises(e, pc)
                PROVE  /\ At(e, {"claimed", "running", "ok", "err", "fatal"})'
                       /\ exec'[e].job = exec[e].job /\ exec'[e].token = exec[e].token
            BY <2>0, <6>1, <6>5 DEF HandlerRaises, Goto, Descriptors, At, TypeOK
          <6> QED
            BY <2>7, <4>1, <5>2, <6>2, <6>3, <6>4, <6>5
        <5> QED
          BY <5>1, <5>2
      <4> QED
        BY <3>1, <4>1, <4>2 DEF Live, Holds, Busy, At
    <3> QED
      BY <2>0, <3>1, <3>2, StepCovers
  <2>8. ASSUME NEW e \in Executor, ReloadError(e) \/ CommitSwallowed(e) \/ FinishError(e)
        PROVE  AttemptsCovered'
    BY <2>8, <2>0, FaultCovers DEF ReloadError, CommitSwallowed, FinishError
  <2>9. ASSUME NEW e \in Executor, FinishDone(e) \/ FinishFailed(e) PROVE AttemptsCovered'
    <3> DEFINE j == exec[e].job
    <3>1. exec[e] \in Descriptors /\ Holds(e)
      BY <2>9, <2>0, BusyHasDescriptor DEF FinishDone, FinishFailed, Holds
    <3>2. j \in Job /\ row[j].attempts = exec[e].attempts
      BY <3>1, <2>0 DEF Descriptors, SnapshotIsCurrent, Holds
    <3>3. faults' = faults /\ row'[j].attempts = row[j].attempts
      BY <2>9, <2>0, <3>2 DEF FinishDone, FinishFailed, TypeOK, Rows
    <3>4. row'[j].status \notin Terminal => row[j].attempts < MaxAttempts
      BY <2>9, <2>0, <3>1, <3>2, AttemptAssumption
         DEF FinishDone, FinishFailed, GivesUp, TypeOK, Rows, Terminal, Descriptors
    <3>5. ASSUME NEW k \in Job \ {j} PROVE row'[k] = row[k] /\ (Live(k) => Live(k)')
      <4>1. row'[k] = row[k]
        BY <2>9, <2>0, <3>2 DEF FinishDone, FinishFailed, TypeOK
      <4>2. \A d \in Executor \ {e} : exec'[d] = exec[d]
        BY <2>9, <2>0 DEF FinishDone, FinishFailed, Goto, TypeOK
      <4> QED
        BY <4>1, <4>2 DEF Live, At, Holds, Busy
    <3> QED
      BY <2>0, <3>2, <3>3, <3>4, <3>5, AttemptAssumption, BoundAssumption
         DEF AttemptsCovered, Used, TypeOK, Rows
  <2>10. ASSUME NEW cutoff \in 1..issued, Reap(cutoff) PROVE AttemptsCovered'
    <3>1. /\ \A k \in Job : row'[k].attempts = row[k].attempts
          /\ \A k \in Job \ Older(cutoff) : row'[k] = row[k]
          /\ exec' = exec
      BY <2>10, <2>0 DEF Reap, TypeOK, Rows
    <3>2. CASE faults' = faults - 1 /\ faults > 0
      BY <2>0, <3>1, <3>2, FaultCovers
    <3>3. CASE faults' = faults /\ \A k \in Older(cutoff) : ~Live(k)
      <4>1. ASSUME NEW k \in Job, Live(k) PROVE Live(k)'
        BY <3>1, <3>3, <4>1 DEF Live, At, Holds, Busy
      <4>2. \A k \in Older(cutoff) : row[k].status \notin Terminal
        BY DEF Older, Claimed, Terminal
      <4> QED
        BY <2>0, <3>1, <3>3, <4>1, <4>2, StepCovers
    <3> QED
      BY <2>10, <3>2, <3>3, Zenon DEF Reap
  <2>11. ASSUME NEW j \in Job, Mark(j) PROVE AttemptsCovered'
    BY <2>11, <2>0, StepCovers DEF Mark, Live, At, Holds, Busy
  <2>12. ASSUME NEW S \in {Claimed, {}}, Restart(S) PROVE AttemptsCovered'
    <3>1. \A k \in Job : row'[k].attempts = row[k].attempts
      BY <2>12, <2>0 DEF Restart, TypeOK, Rows
    <3> QED
      BY <2>12, <2>0, <3>1, FaultCovers DEF Restart
  <2> QED
    BY <2>1, <2>2, <2>3, <2>4, <2>5, <2>6, <2>7, <2>8, <2>9, <2>10, <2>11, <2>12
       DEF Next, Thread, Handler, Finish, Reaper
<1>3. AttemptsCovered => AttemptsBounded
  BY DEF AttemptsCovered, AttemptsBounded, Used
<1> QED
  BY <1>1, <1>2, <1>3, InvariantHolds, PTL DEF Spec
=============================================================================
