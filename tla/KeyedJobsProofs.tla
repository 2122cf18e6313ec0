--------------------------- MODULE KeyedJobsProofs ---------------------------
(***************************************************************************)
(* The jobs that take a key, for any number of rows, paths, threads and    *)
(* faults.  First media_refresh: the requests of a row are sent once, and  *)
(* every path of a DONE row was accepted by the media servers or refused   *)
(* to that row, unless one of two races hit it.  Then nfo_refresh: two     *)
(* runs of a row never write at the same time, and no request for a        *)
(* sidecar is lost.                                                        *)
(***************************************************************************)
EXTENDS MCKeyedJobs, TLAPS

USE RefreshAssumption DEF server, Lost

LEMMA InitIInv == Init => IInv
<1> SUFFICES ASSUME Init PROVE IInv
  OBVIOUS
<1>1. \A j \in Job : row[j].status = "absent" /\ row[j].claim = Nobody /\ fired[j] = 0
  BY DEF Init
<1>2. \A t \in Thread : run[t].pc = "idle"
  BY DEF Init, Idle
<1>3. NoCall \in Calls /\ Idle \in Runs
  BY DEF NoCall, Idle, Calls, Runs
<1>4. [status |-> "absent", paths |-> {}, claim |-> Nobody] \in Rows
  BY DEF Rows
<1>5. TypeOK
  BY <1>1, <1>2, <1>3, <1>4 DEF Init, TypeOK
<1> QED
  BY <1>1, <1>2, <1>5
     DEF Init, IInv, DoneIsRefreshed, With, KeyIsClaimants, ClaimantHasPaths, KeyIsSpentOnce

\* A change of a thread's place keeps the type of run and touches no other.
LEMMA RunGoto ==
  ASSUME TypeOK, NEW t \in Thread, run[t].pc # "idle",
         NEW q \in {"loaded", "firing", "ok", "err"}, run' = [run EXCEPT ![t].pc = q]
  PROVE  /\ run' \in [Thread -> Runs]
         /\ \A u \in Thread : /\ run'[u].job = run[u].job /\ run'[u].paths = run[u].paths
                              /\ run'[u].pc = IF u = t THEN q ELSE run[u].pc
         /\ \A u \in Thread : run'[u].pc # "idle" => run'[u].job \in Job
BY DEF TypeOK, Runs

\* A thread that is set to a new record.
LEMMA RunSet ==
  ASSUME TypeOK, NEW t \in Thread, NEW r \in Runs, r.pc # "idle" => r.job \in Job,
         run' = [run EXCEPT ![t] = r]
  PROVE  /\ run' \in [Thread -> Runs]
         /\ \A u \in Thread : run'[u] = IF u = t THEN r ELSE run[u]
         /\ \A u \in Thread : run'[u].pc # "idle" => run'[u].job \in Job
BY DEF TypeOK

\* A row that gets a new status and claim.
LEMMA RowMove ==
  ASSUME TypeOK, NEW j \in Job, NEW s \in {"pending", "claimed", "done", "failed"},
         NEW c \in Thread \union {Nobody}, s = "claimed" <=> c # Nobody,
         row' = [row EXCEPT ![j].status = s, ![j].claim = c]
  PROVE  /\ row' \in [Job -> Rows]
         /\ \A k \in Job : row'[k].paths = row[k].paths
         /\ row'[j].status = s /\ row'[j].claim = c
         /\ \A k \in Job \ {j} : row'[k] = row[k]
         /\ \A k \in Job : row'[k].status = "claimed" <=> row'[k].claim # Nobody
BY DEF TypeOK, Rows

\* Enqueues.
LEMMA EnqueueStep ==
  ASSUME IInv, NEW p \in Path, Read(p) \/ Commit(p) PROVE IInv'
<1> USE DEF IInv
<1>1. CASE Read(p)
  <2>1. call' \in [Path -> Calls]
    <3>1. [pc |-> "merging", job |-> Nobody, paths |-> {}] \in Calls
      BY DEF Calls
    <3>2. ASSUME NEW j \in Job PROVE [pc |-> "merging", job |-> j, paths |-> row[j].paths] \in Calls
      BY DEF TypeOK, Rows, Calls
    <3> QED BY <1>1, <3>1, <3>2 DEF Read, TypeOK, With
  <2> QED BY <1>1, <2>1
    DEF Read, history, TypeOK, DoneIsRefreshed, With, KeyIsClaimants, ClaimantHasPaths, KeyIsSpentOnce
<1>2. CASE Commit(p)
  <2>1. call' \in [Path -> Calls] /\ UNCHANGED <<key, run, fired, refreshed, refused, spent, unkeyed, faults>>
    <3>1. [pc |-> "asked", job |-> Nobody, paths |-> {}] \in Calls
      BY DEF Calls
    <3> QED BY <1>2, <3>1 DEF Commit, TypeOK
  <2>2. ASSUME NEW j \in Job, Insert(p, j) PROVE IInv'
    <3>1. /\ row[j].status = "absent" /\ UNCHANGED overlapped
          /\ row' = [row EXCEPT ![j] = [status |-> "pending", paths |-> {p}, claim |-> Nobody]]
      BY <2>2 DEF Insert
    <3>2. [status |-> "pending", paths |-> {p}, claim |-> Nobody] \in Rows
      BY DEF Rows
    <3>3. /\ row' \in [Job -> Rows] /\ \A k \in Job \ {j} : row'[k] = row[k]
          /\ row'[j].status = "pending" /\ row'[j].claim = Nobody
      BY <3>1, <3>2 DEF TypeOK
    <3>4. j \notin key \ spent
      BY <3>1 DEF TypeOK, KeyIsClaimants
    <3>5. TypeOK'
      BY <2>1, <3>1, <3>3 DEF TypeOK
    <3>6. DoneIsRefreshed' /\ KeyIsSpentOnce'
      BY <2>1, <3>1, <3>3 DEF DoneIsRefreshed, With, KeyIsSpentOnce
    <3>7. KeyIsClaimants'
      BY <2>1, <3>3, <3>4 DEF KeyIsClaimants, TypeOK
    <3>8. ClaimantHasPaths'
      BY <2>1, <3>1, <3>3 DEF ClaimantHasPaths
    <3> QED BY <3>5, <3>6, <3>7, <3>8
  <2>3. ASSUME call[p].job # Nobody, Overwrite(p, call[p].job) PROVE IInv'
    <3> DEFINE j == call[p].job
    <3>1. j \in Job /\ call[p].paths \union {p} \in SUBSET Path
      BY <2>3 DEF TypeOK, Calls
    <3>2. row' = [row EXCEPT ![j].paths = call[p].paths \union {p}]
      BY <2>3 DEF Overwrite
    <3>3. /\ row' \in [Job -> Rows] /\ \A k \in Job \ {j} : row'[k] = row[k]
          /\ \A k \in Job : row'[k].status = row[k].status /\ row'[k].claim = row[k].claim
      BY <3>1, <3>2 DEF TypeOK, Rows
    <3>4. /\ overlapped \subseteq overlapped' /\ overlapped' \subseteq overlapped \union {j}
          /\ row[j].status = "pending" \/ j \in overlapped'
      BY <2>3 DEF Overwrite
    <3>5. TypeOK'
      BY <2>1, <3>1, <3>3, <3>4 DEF TypeOK
    <3>6. DoneIsRefreshed' /\ KeyIsSpentOnce'
      BY <2>1, <3>3, <3>4 DEF DoneIsRefreshed, With, KeyIsSpentOnce
    <3>7. KeyIsClaimants'
      <4>1. \A k \in key : row'[k].status = row[k].status /\ row'[k].claim = row[k].claim
        BY <3>3 DEF TypeOK
      <4> QED BY <2>1, <4>1 DEF KeyIsClaimants
    <3>8. ClaimantHasPaths'
      BY <2>1, <3>3, <3>4 DEF ClaimantHasPaths, TypeOK
    <3> QED BY <3>5, <3>6, <3>7, <3>8
  <2> QED BY <1>2, <2>2, <2>3 DEF Commit
<1> QED BY <1>1, <1>2

\* The worker claims a row and reads its payload.
LEMMA ClaimStep ==
  ASSUME IInv, NEW t \in Thread, (\E j \in Job : Claim(t, j)) \/ Reload(t) PROVE IInv'
<1> USE DEF IInv
<1>1. ASSUME NEW j \in Job, Claim(t, j) PROVE IInv'
  <2> DEFINE r == [pc |-> "claimed", job |-> j, paths |-> {}]
  <2>1. /\ run[t].pc = "idle" /\ row[j].status = "pending"
        /\ row' = [row EXCEPT ![j].status = "claimed", ![j].claim = t]
        /\ run' = [run EXCEPT ![t] = r]
        /\ UNCHANGED <<key, call, fired, refreshed, refused, overlapped, spent, unkeyed, faults>>
    BY <1>1 DEF Claim, history
  <2>2. r \in Runs /\ r.pc = "claimed" /\ r.job = j
    BY DEF Runs
  <2>3. /\ run' \in [Thread -> Runs]
        /\ \A u \in Thread : run'[u] = IF u = t THEN r ELSE run[u]
        /\ \A u \in Thread : run'[u].pc # "idle" => run'[u].job \in Job
    BY <2>1, <2>2, RunSet
  <2>4. /\ row' \in [Job -> Rows]
        /\ \A k \in Job : row'[k].paths = row[k].paths
        /\ row'[j].status = "claimed" /\ row'[j].claim = t
        /\ \A k \in Job \ {j} : row'[k] = row[k]
        /\ \A k \in Job : row'[k].status = "claimed" <=> row'[k].claim # Nobody
    BY <2>1, RowMove
  <2>5. j \notin key \ spent
    BY <2>1 DEF TypeOK, KeyIsClaimants
  <2>6. TypeOK'
    BY <2>1, <2>3, <2>4 DEF TypeOK
  <2>7. DoneIsRefreshed'
    BY <2>1, <2>4 DEF DoneIsRefreshed, With
  <2>8. KeyIsSpentOnce'
    BY <2>1, <2>2, <2>3 DEF KeyIsSpentOnce
  <2>9. KeyIsClaimants'
    <3>1. ASSUME NEW k \in key \ spent PROVE k \in Job /\ k # j /\ row'[k] = row[k]
      BY <2>4, <2>5, <3>1 DEF TypeOK
    <3>2. \A u \in Thread : run[u].pc \in {"firing", "ok", "err"} => run'[u] = run[u]
      BY <2>1, <2>3
    <3>3. ASSUME NEW k \in key \ spent
          PROVE  \/ row'[k].status \in {"done", "failed"}
                 \/ \E u \in Thread : /\ row'[k].claim = u /\ run'[u].job = k
                                      /\ run'[u].pc \in {"firing", "ok", "err"}
      <4>1. row'[k] = row[k]
        BY <3>1
      <4>2. CASE row[k].status \in {"done", "failed"}
        BY <4>1, <4>2
      <4>3. ASSUME NEW u \in Thread, row[k].claim = u, run[u].job = k,
                   run[u].pc \in {"firing", "ok", "err"}
            PROVE  row'[k].claim = u /\ run'[u] = run[u]
        BY <3>2, <4>1, <4>3
      <4> QED BY <4>1, <4>2, <4>3 DEF KeyIsClaimants
    <3> QED BY <2>1, <3>3 DEF KeyIsClaimants
  <2>10. ClaimantHasPaths'
    BY <2>1, <2>2, <2>3, <2>4 DEF ClaimantHasPaths
  <2> QED BY <2>6, <2>7, <2>8, <2>9, <2>10
<1>2. CASE Reload(t)
  <2> DEFINE j == run[t].job
             r == IF Holds(t) THEN [pc |-> "loaded", job |-> j, paths |-> row[j].paths] ELSE Idle
  <2>1. /\ run[t].pc = "claimed" /\ j \in Job
        /\ run' = [run EXCEPT ![t] = r]
        /\ UNCHANGED <<row, key, call, fired, refreshed, refused, overlapped, spent, unkeyed, faults>>
    BY <1>2 DEF Reload, history, TypeOK
  <2>2. /\ r \in Runs /\ r.pc \in {"loaded", "idle"}
        /\ r.pc = "loaded" => r.job = j /\ r.paths = row[j].paths
        /\ ~Holds(t) => r.job = Nobody
    BY <2>1 DEF Runs, Idle, TypeOK, Rows
  <2>3. /\ run' \in [Thread -> Runs]
        /\ \A u \in Thread : run'[u] = IF u = t THEN r ELSE run[u]
        /\ \A u \in Thread : run'[u].pc # "idle" => run'[u].job \in Job
    BY <2>1, <2>2, RunSet
  <2>4. TypeOK'
    BY <2>1, <2>3 DEF TypeOK
  <2>5. DoneIsRefreshed'
    BY <2>1 DEF DoneIsRefreshed, With
  <2>6. KeyIsSpentOnce'
    BY <2>1, <2>2, <2>3 DEF KeyIsSpentOnce
  <2>7. KeyIsClaimants'
    BY <2>1, <2>2, <2>3 DEF KeyIsClaimants
  <2>8. ClaimantHasPaths'
    BY <2>1, <2>2, <2>3 DEF ClaimantHasPaths
  <2> QED BY <2>4, <2>5, <2>6, <2>7, <2>8
<1> QED BY <1>1, <1>2

\* The key is taken, or found taken, or cannot be taken.
LEMMA KeyStep ==
  ASSUME IInv, NEW t \in Thread, TakeKey(t) \/ Skip(t) \/ KeyError(t) PROVE IInv'
<1> DEFINE j == run[t].job
<1> USE DEF IInv
<1>1. /\ run[t].pc = "loaded" /\ j \in Job
      /\ UNCHANGED <<row, call, fired, refreshed, refused, overlapped>>
  BY DEF TakeKey, Skip, KeyError, history, TypeOK
<1>2. CASE TakeKey(t)
  <2>1. /\ j \notin key /\ key' = key \union {j} /\ run' = [run EXCEPT ![t].pc = "firing"]
        /\ spent \subseteq spent' /\ spent' \subseteq spent \union {j}
        /\ Holds(t) \/ j \in spent'
        /\ UNCHANGED <<unkeyed, faults>>
    BY <1>2 DEF TakeKey
  <2>2. /\ run' \in [Thread -> Runs]
        /\ \A u \in Thread : /\ run'[u].job = run[u].job /\ run'[u].paths = run[u].paths
                             /\ run'[u].pc = IF u = t THEN "firing" ELSE run[u].pc
        /\ \A u \in Thread : run'[u].pc # "idle" => run'[u].job \in Job
    BY <1>1, <2>1, RunGoto
  <2>3. TypeOK'
    BY <1>1, <2>1, <2>2 DEF TypeOK
  <2>4. DoneIsRefreshed'
    BY <1>1, <2>1 DEF DoneIsRefreshed, With
  <2>5. KeyIsSpentOnce'
    BY <1>1, <2>1, <2>2 DEF KeyIsSpentOnce
  <2>6. KeyIsClaimants'
    BY <1>1, <2>1, <2>2 DEF KeyIsClaimants, Holds
  <2>7. ClaimantHasPaths'
    BY <1>1, <2>1, <2>2 DEF ClaimantHasPaths
  <2> QED BY <2>3, <2>4, <2>5, <2>6, <2>7
<1>3. CASE Skip(t)
  <2>1. /\ j \in key /\ run' = [run EXCEPT ![t].pc = "ok"]
        /\ UNCHANGED <<key, spent, unkeyed, faults>>
    BY <1>3 DEF Skip, history
  <2>2. /\ run' \in [Thread -> Runs]
        /\ \A u \in Thread : /\ run'[u].job = run[u].job /\ run'[u].paths = run[u].paths
                             /\ run'[u].pc = IF u = t THEN "ok" ELSE run[u].pc
        /\ \A u \in Thread : run'[u].pc # "idle" => run'[u].job \in Job
    BY <1>1, <2>1, RunGoto
  <2>3. row[j].claim = t => j \in spent
    BY <1>1, <2>1 DEF KeyIsClaimants, TypeOK
  <2>4. TypeOK'
    BY <1>1, <2>1, <2>2 DEF TypeOK
  <2>5. DoneIsRefreshed'
    BY <1>1, <2>1 DEF DoneIsRefreshed, With
  <2>6. KeyIsSpentOnce'
    BY <1>1, <2>1, <2>2 DEF KeyIsSpentOnce
  <2>7. KeyIsClaimants'
    BY <1>1, <2>1, <2>2 DEF KeyIsClaimants
  <2>8. ClaimantHasPaths'
    BY <1>1, <2>1, <2>2, <2>3 DEF ClaimantHasPaths
  <2> QED BY <2>4, <2>5, <2>6, <2>7, <2>8
<1>4. CASE KeyError(t)
  <2>1. /\ run' = [run EXCEPT ![t].pc = "firing"] /\ unkeyed' = unkeyed \union {j}
        /\ UNCHANGED <<key, spent>>
    BY <1>4 DEF KeyError
  <2>2. /\ run' \in [Thread -> Runs]
        /\ \A u \in Thread : /\ run'[u].job = run[u].job /\ run'[u].paths = run[u].paths
                             /\ run'[u].pc = IF u = t THEN "firing" ELSE run[u].pc
        /\ \A u \in Thread : run'[u].pc # "idle" => run'[u].job \in Job
    BY <1>1, <2>1, RunGoto
  <2>3. faults' \in Nat
    BY <1>4 DEF KeyError, Fault, TypeOK
  <2>4. TypeOK'
    BY <1>1, <2>1, <2>2, <2>3 DEF TypeOK
  <2>5. DoneIsRefreshed'
    BY <1>1, <2>1 DEF DoneIsRefreshed, With
  <2>6. KeyIsSpentOnce'
    BY <1>1, <2>1, <2>2 DEF KeyIsSpentOnce
  <2>7. KeyIsClaimants'
    BY <1>1, <2>1, <2>2 DEF KeyIsClaimants
  <2>8. ClaimantHasPaths'
    BY <1>1, <2>1, <2>2 DEF ClaimantHasPaths
  <2> QED BY <2>4, <2>5, <2>6, <2>7, <2>8
<1> QED BY <1>2, <1>3, <1>4

\* The refresh is sent, or fails.
LEMMA FireStep ==
  ASSUME IInv, NEW t \in Thread, Fire(t) \/ FireFails(t) PROVE IInv'
<1> DEFINE j == run[t].job
<1> USE DEF IInv
<1>1. /\ run[t].pc = "firing" /\ j \in Job
      /\ UNCHANGED <<row, key, call, overlapped, spent, unkeyed>>
  BY DEF Fire, FireFails, history, TypeOK
<1>2. CASE Fire(t)
  <2>0. PICK denied \in SUBSET run[t].paths :
          /\ refreshed' = refreshed \union (run[t].paths \ denied)
          /\ refused' = refused \union ({j} \X denied)
          /\ IF denied = {} THEN UNCHANGED faults ELSE Fault
    BY <1>2 DEF Fire
  <2>1. /\ run' = [run EXCEPT ![t].pc = "ok"]
        /\ fired' = [fired EXCEPT ![j] = @ + 1]
        /\ faults' \in Nat
        /\ refreshed \subseteq refreshed' /\ refused \subseteq refused'
        /\ \A p \in run[t].paths : p \in refreshed' \/ <<j, p>> \in refused'
    BY <1>2, <2>0 DEF Fire, Fault, TypeOK
  <2>2. /\ run' \in [Thread -> Runs]
        /\ \A u \in Thread : /\ run'[u].job = run[u].job /\ run'[u].paths = run[u].paths
                             /\ run'[u].pc = IF u = t THEN "ok" ELSE run[u].pc
        /\ \A u \in Thread : run'[u].pc # "idle" => run'[u].job \in Job
    BY <1>1, <2>1, RunGoto
  <2>3. /\ fired' \in [Job -> Nat] /\ refreshed' \subseteq Path /\ refused' \subseteq Job \X Path
        /\ \A k \in Job : fired'[k] = IF k = j THEN fired[k] + 1 ELSE fired[k]
    BY <1>1, <2>0, <2>1 DEF TypeOK, Runs
  <2>4. TypeOK'
    BY <1>1, <2>1, <2>2, <2>3 DEF TypeOK
  <2>5. DoneIsRefreshed'
    BY <1>1, <2>1 DEF DoneIsRefreshed, With
  <2>6. KeyIsSpentOnce'
    <3>1. ASSUME j \notin unkeyed PROVE j \in key /\ fired[j] = 0
      BY <1>1, <3>1 DEF KeyIsSpentOnce
    <3>2. ASSUME j \notin unkeyed, NEW u \in Thread, run'[u].pc = "firing" PROVE run'[u].job # j
      BY <1>1, <2>2, <3>2 DEF KeyIsSpentOnce
    <3> QED BY <1>1, <2>2, <2>3, <3>1, <3>2 DEF KeyIsSpentOnce, TypeOK
  <2>7. KeyIsClaimants'
    BY <1>1, <2>1, <2>2 DEF KeyIsClaimants
  <2>8. ClaimantHasPaths'
    BY <1>1, <2>1, <2>2 DEF ClaimantHasPaths
  <2> QED BY <2>4, <2>5, <2>6, <2>7, <2>8
<1>3. CASE FireFails(t)
  <2>1. run' = [run EXCEPT ![t].pc = "err"] /\ UNCHANGED <<fired, refreshed, refused>>
    BY <1>3 DEF FireFails
  <2>2. /\ run' \in [Thread -> Runs]
        /\ \A u \in Thread : /\ run'[u].job = run[u].job /\ run'[u].paths = run[u].paths
                             /\ run'[u].pc = IF u = t THEN "err" ELSE run[u].pc
        /\ \A u \in Thread : run'[u].pc # "idle" => run'[u].job \in Job
    BY <1>1, <2>1, RunGoto
  <2>3. faults' \in Nat
    BY <1>3 DEF FireFails, Fault, TypeOK
  <2>4. TypeOK'
    BY <1>1, <2>1, <2>2, <2>3 DEF TypeOK
  <2>5. DoneIsRefreshed'
    BY <1>1, <2>1 DEF DoneIsRefreshed, With
  <2>6. KeyIsSpentOnce'
    BY <1>1, <2>1, <2>2 DEF KeyIsSpentOnce
  <2>7. KeyIsClaimants'
    BY <1>1, <2>1, <2>2 DEF KeyIsClaimants
  <2>8. ClaimantHasPaths'
    BY <1>1, <2>1, <2>2 DEF ClaimantHasPaths
  <2> QED BY <2>4, <2>5, <2>6, <2>7, <2>8
<1> QED BY <1>2, <1>3

\* The finish, by the run with the claim or by a stale one.
LEMMA FinishStep == ASSUME IInv, NEW t \in Thread, Finish(t) PROVE IInv'
<1> DEFINE j == run[t].job
<1> USE DEF IInv
<1>1. /\ run[t].pc \in {"ok", "err"} /\ j \in Job /\ run' = [run EXCEPT ![t] = Idle]
      /\ UNCHANGED <<key, call, fired, refreshed, refused, overlapped, unkeyed, faults>>
  BY DEF Finish, TypeOK
<1>2. Idle \in Runs /\ Idle.pc = "idle" /\ Idle.job = Nobody
  BY DEF Idle, Runs
<1>3. /\ run' \in [Thread -> Runs]
      /\ \A u \in Thread : run'[u] = IF u = t THEN Idle ELSE run[u]
      /\ \A u \in Thread : run'[u].pc # "idle" => run'[u].job \in Job
  BY <1>1, <1>2, RunSet
<1>4. KeyIsSpentOnce'
  BY <1>1, <1>2, <1>3 DEF KeyIsSpentOnce
<1>5. CASE ~Holds(t)
  <2>1. UNCHANGED <<row, spent>>
    BY <1>5 DEF Finish
  <2>2. TypeOK'
    BY <1>1, <1>3, <2>1 DEF TypeOK
  <2>3. DoneIsRefreshed'
    BY <1>1, <2>1 DEF DoneIsRefreshed, With
  <2>4. KeyIsClaimants'
    BY <1>1, <1>3, <1>5, <2>1 DEF KeyIsClaimants, Holds
  <2>5. ClaimantHasPaths'
    BY <1>1, <1>2, <1>3, <2>1 DEF ClaimantHasPaths
  <2> QED BY <1>4, <2>2, <2>3, <2>4, <2>5
<1>6. ASSUME Holds(t), NEW s \in {"pending", "done", "failed"},
             s = "done" => run[t].pc = "ok",
             row' = [row EXCEPT ![j].status = s, ![j].claim = Nobody],
             spent' = IF s = "pending" THEN spent \union ({j} \intersect key) ELSE spent
      PROVE  IInv'
  <2>1. /\ row' \in [Job -> Rows]
        /\ \A k \in Job : row'[k].paths = row[k].paths
        /\ row'[j].status = s /\ row'[j].claim = Nobody
        /\ \A k \in Job \ {j} : row'[k] = row[k]
        /\ \A k \in Job : row'[k].status = "claimed" <=> row'[k].claim # Nobody
    BY <1>1, <1>6, RowMove
  <2>2. spent \subseteq spent' /\ spent' \subseteq Job
    BY <1>6 DEF TypeOK
  <2>3. TypeOK'
    BY <1>1, <1>3, <2>1, <2>2 DEF TypeOK
  <2>4. s = "done" /\ j \notin overlapped \union spent => row[j].paths \subseteq refreshed \union Lost(j)
    BY <1>1, <1>6 DEF ClaimantHasPaths, Holds
  <2>5. DoneIsRefreshed'
    BY <1>1, <2>1, <2>2, <2>4 DEF DoneIsRefreshed, With
  <2>6. KeyIsClaimants'
    <3>1. ASSUME NEW k \in key' \ spent', k = j PROVE row'[k].status \in {"done", "failed"}
      BY <1>1, <1>6, <2>1, <3>1
    <3>2. ASSUME NEW k \in key' \ spent', k # j
          PROVE  \/ row'[k].status \in {"done", "failed"}
                 \/ \E u \in Thread : /\ row'[k].claim = u /\ run'[u].job = k
                                      /\ run'[u].pc \in {"firing", "ok", "err"}
      <4>1. k \in key \ spent /\ k \in Job /\ row'[k] = row[k]
        BY <1>1, <2>1, <2>2, <3>2 DEF TypeOK
      <4> QED BY <1>3, <3>2, <4>1 DEF KeyIsClaimants
    <3> QED BY <3>1, <3>2 DEF KeyIsClaimants
  <2>7. ClaimantHasPaths'
    BY <1>1, <1>2, <1>3, <2>1, <2>2 DEF ClaimantHasPaths
  <2> QED BY <1>4, <2>3, <2>5, <2>6, <2>7
<1> QED
  BY <1>5, <1>6 DEF Finish

\* Claims are put back by the reaper or a restart.
LEMMA RequeueStep ==
  ASSUME IInv, (\E j \in Job : Reap(j)) \/ Restart PROVE IInv'
<1> USE DEF IInv
<1>1. PICK S \in SUBSET Job : /\ \A j \in S : row[j].status = "claimed"
                              /\ Requeue(S)
                              /\ \A t \in Thread : run'[t] = run[t] \/ S = With("claimed")
                              /\ run' = run \/ run' = [t \in Thread |-> Idle]
                              /\ call' = call \/ call' = [p \in Path |->
                                   IF call[p].pc = "merging" THEN NoCall ELSE call[p]]
                              /\ Fault
                              /\ UNCHANGED <<key, fired, refreshed, refused, overlapped, unkeyed>>
  <2>1. ASSUME NEW j \in Job, Reap(j) PROVE {j} \in SUBSET Job /\ row[j].status = "claimed"
    BY <2>1 DEF Reap
  <2>2. With("claimed") \in SUBSET Job /\ \A j \in With("claimed") : row[j].status = "claimed"
    BY DEF With
  <2> QED BY <2>1, <2>2 DEF Reap, Restart
<1>2. /\ row' \in [Job -> Rows]
      /\ \A j \in Job \ S : row'[j] = row[j]
      /\ \A j \in S : row'[j].status = "pending" /\ row'[j].claim = Nobody
      /\ \A j \in Job : row'[j].paths = row[j].paths
  <2>1. row' = [j \in Job |-> IF j \in S THEN [row[j] EXCEPT !.status = "pending",
                                                             !.claim = Nobody]
                              ELSE row[j]]
    BY <1>1 DEF Requeue
  <2>2. ASSUME NEW j \in Job PROVE [row[j] EXCEPT !.status = "pending", !.claim = Nobody] \in Rows
    BY DEF TypeOK, Rows
  <2>3. row' \in [Job -> Rows]
    BY <2>1, <2>2 DEF TypeOK
  <2>4. ASSUME NEW j \in Job
        PROVE  /\ j \notin S => row'[j] = row[j]
               /\ j \in S => row'[j].status = "pending" /\ row'[j].claim = Nobody
               /\ row'[j].paths = row[j].paths
    BY <2>1 DEF TypeOK, Rows
  <2> QED BY <1>1, <2>3, <2>4
<1>3. spent' = spent \union (S \intersect key)
  BY <1>1 DEF Requeue
<1>4. /\ run' \in [Thread -> Runs] /\ \A t \in Thread : run'[t] = run[t] \/ run'[t] = Idle
      /\ \A t \in Thread : run'[t].pc # "idle" => run'[t].job \in Job
  <2>1. Idle \in Runs /\ Idle.pc = "idle"
    BY DEF Idle, Runs
  <2> QED BY <1>1, <2>1 DEF TypeOK
<1>5. call' \in [Path -> Calls]
  <2>1. NoCall \in Calls
    BY DEF NoCall, Calls
  <2> QED BY <1>1, <2>1 DEF TypeOK
<1>6. Idle.pc = "idle" /\ Idle.job = Nobody
  BY DEF Idle
<1>7. TypeOK'
  <2>1. faults' \in Nat
    BY <1>1 DEF Fault, TypeOK
  <2>2. \A j \in Job : row'[j].status = "claimed" <=> row'[j].claim # Nobody
    BY <1>2 DEF TypeOK
  <2> QED BY <1>1, <1>2, <1>3, <1>4, <1>5, <2>1, <2>2 DEF TypeOK
<1>8. DoneIsRefreshed'
  BY <1>1, <1>2, <1>3 DEF DoneIsRefreshed, With
<1>9. KeyIsSpentOnce'
  BY <1>1, <1>4, <1>6 DEF KeyIsSpentOnce
<1>10. KeyIsClaimants'
  <2> SUFFICES ASSUME NEW j \in key' \ spent'
               PROVE  \/ row'[j].status \in {"done", "failed"}
                      \/ \E t \in Thread : /\ row'[j].claim = t /\ run'[t].job = j
                                           /\ run'[t].pc \in {"firing", "ok", "err"}
    BY DEF KeyIsClaimants
  <2>1. j \in key \ spent /\ j \in Job /\ j \notin S /\ row'[j] = row[j]
    BY <1>1, <1>2, <1>3 DEF TypeOK
  <2>2. CASE row[j].status \in {"done", "failed"}
    BY <2>1, <2>2
  <2>3. ASSUME NEW t \in Thread, row[j].claim = t, run[t].job = j,
               run[t].pc \in {"firing", "ok", "err"}
        PROVE  row'[j].claim = t /\ run'[t] = run[t]
    <3>1. row[j].status = "claimed"
      BY <2>1, <2>3 DEF TypeOK
    <3> QED BY <1>1, <2>1, <2>3, <3>1 DEF With
  <2> QED BY <2>1, <2>2, <2>3 DEF KeyIsClaimants
<1>11. ClaimantHasPaths'
  BY <1>1, <1>2, <1>3, <1>4, <1>6 DEF ClaimantHasPaths
<1> QED BY <1>7, <1>8, <1>9, <1>10, <1>11

LEMMA IInvStep == IInv /\ [Next]_vars => IInv'
<1> SUFFICES ASSUME IInv, [Next]_vars PROVE IInv'
  OBVIOUS
<1>1. CASE UNCHANGED vars
  BY <1>1 DEF IInv, vars, TypeOK, DoneIsRefreshed, With, KeyIsClaimants, ClaimantHasPaths, KeyIsSpentOnce
<1> HIDE DEF IInv
<1> QED
  BY <1>1, EnqueueStep, ClaimStep, KeyStep, FireStep, FinishStep, RequeueStep DEF Next, Step

-----------------------------------------------------------------------------
\* The invariant the others follow from holds in every reachable state: keys are
\* held and spent by claimants, who have the paths of their rows, and have seen
\* each accepted or refused when they end (process_media_refresh_job,
\* try_claim_processed_key).
THEOREM RefreshInvariant == Spec => []IInv
BY InitIInv, IInvStep, PTL DEF Spec

\* Every reachable state is typed, and only claimed rows carry a claim.
THEOREM RefreshTyped == Spec => []TypeOK
<1>1. IInv => TypeOK
  BY DEF IInv
<1> QED BY <1>1, InitIInv, IInvStep, PTL DEF Spec

\* Reaps, retries and restarts never send the refresh of a row twice, if its key
\* could be written (process_media_refresh_job, try_claim_processed_key).
THEOREM RefreshFiresOnce == Spec => []FiredOnce
<1>1. IInv => FiredOnce
  BY DEF IInv, KeyIsSpentOnce, FiredOnce
<1> QED BY <1>1, InitIInv, IInvStep, PTL DEF Spec

\* Every path of a row that is DONE was accepted, or asked for by the row and
\* refused, but for the two races (process_media_refresh_job, refresh_all_paths).
THEOREM DoneRowsRefreshed == Spec => []DoneIsRefreshed
<1>1. IInv => DoneIsRefreshed
  BY DEF IInv
<1> QED BY <1>1, InitIInv, IInvStep, PTL DEF Spec

-----------------------------------------------------------------------------
(***************************************************************************)
(* nfo_refresh.  The ids of a row only grow, and only while it waits, so   *)
(* that a run whose claim is still good has all of them; and what a row is *)
(* still to write has been put there after its last committed write.       *)
(***************************************************************************)

BatchRowRec == [status : {"absent", "pending", "claimed", "done", "failed"},
                ids : SUBSET Path, claim : Thread \union {Nobody}]
BatchRunRec == [pc : N!Pc, job : N!Job \union {Nobody}, ids : SUBSET Path, old : SUBSET Path]

BatchTyped ==
  /\ batchRow \in [N!Job -> BatchRowRec]
  /\ batchKey \subseteq N!Job
  /\ batchRun \in [Thread -> BatchRunRec]
  /\ wrote \in [N!Job -> SUBSET Path]
  /\ current \subseteq Path /\ crossed \subseteq Path /\ lost \subseteq Path

RowShape(j) ==
  /\ batchRow[j].status = "claimed" <=> batchRow[j].claim # Nobody
  /\ batchRow[j].status = "absent" => batchRow[j].ids = {}
  /\ wrote[j] \subseteq batchRow[j].ids

RunShape(t) ==
  /\ batchRun[t].pc # "idle" => /\ batchRun[t].job \in N!Job
                                /\ batchRun[t].ids \subseteq batchRow[batchRun[t].job].ids
  /\ batchRun[t].pc \in {"loaded", "writing", "written"} /\ N!Holds(t) =>
       batchRun[t].ids = batchRow[batchRun[t].job].ids
  /\ batchRun[t].pc \in {"claimed", "loaded"} => batchRun[t].old = {}
  /\ batchRun[t].pc = "idle" => batchRun[t] = N!Idle

BatchShape == (\A j \in N!Job : RowShape(j)) /\ (\A t \in Thread : RunShape(t))

\* Row j will be written with a fresh read of i, which no run of the row has
\* written since it was asked for.
Fresh(i, j) ==
  /\ N!Due(i, j) /\ i \notin wrote[j]
  /\ \A t \in Thread : batchRun[t].pc = "written" /\ batchRun[t].job = j => i \notin batchRun[t].ids

Settled(i) == i \in current \union crossed \union lost

FreshOrSettled == \A i \in Path : Settled(i) \/ \E j \in N!Job : Fresh(i, j)

BatchInv == BatchTyped /\ BatchShape /\ N!OneWriter /\ FreshOrSettled

LEMMA BatchInit == N!Init => BatchInv
<1> SUFFICES ASSUME N!Init PROVE BatchInv
  OBVIOUS
<1>1. /\ \A j \in N!Job : batchRow[j] = [status |-> "absent", ids |-> {}, claim |-> Nobody]
      /\ \A t \in Thread : batchRun[t] = N!Idle
      /\ \A j \in N!Job : wrote[j] = {}
  BY DEF N!Init
<1>2. BatchTyped
  <2>1. [status |-> "absent", ids |-> {}, claim |-> Nobody] \in BatchRowRec
    BY DEF BatchRowRec
  <2>2. N!Idle \in BatchRunRec
    BY DEF N!Idle, N!Pc, BatchRunRec
  <2> QED
    BY <2>1, <2>2 DEF N!Init, BatchTyped
<1>3. \A t \in Thread : batchRun[t].pc = "idle"
  BY <1>1 DEF N!Idle
<1>4. BatchShape
  BY <1>1, <1>3 DEF BatchShape, RowShape, RunShape
<1>5. N!OneWriter
  BY <1>3 DEF N!OneWriter, N!HasKey
<1>6. FreshOrSettled
  BY DEF N!Init, FreshOrSettled, Settled
<1> QED
  BY <1>2, <1>4, <1>5, <1>6 DEF BatchInv

\* What a merge or a sweep does to the rows: those outside L keep what they are
\* but for ids that waiting rows gain, and absent rows may come to wait.
Grown(L) ==
  \A j \in N!Job \ L :
    /\ batchRow'[j] \in BatchRowRec
    /\ batchRow[j].ids \subseteq batchRow'[j].ids
    /\ batchRow'[j].claim = batchRow[j].claim
    /\ \/ batchRow'[j] = batchRow[j]
       \/ batchRow[j].status \in {"absent", "pending"} /\ batchRow'[j].status = "pending"

\* i has been put into a waiting row that did not have it.
Placed(i) == \E j \in N!Job : /\ batchRow'[j].status = "pending"
                              /\ i \in batchRow'[j].ids /\ i \notin batchRow[j].ids

LEMMA MergePlaces ==
  ASSUME BatchTyped, BatchShape, NEW S \in SUBSET Path,
         NEW L \in SUBSET N!Open("pending"), N!Merge(S, L)
  PROVE  batchRow' \in [N!Job -> BatchRowRec] /\ Grown({}) /\ \A i \in S : Placed(i)
<1>1. PICK f \in [L -> SUBSET S] :
        LET R == S \ UNION {f[j] : j \in L} IN
        /\ N!Fills(f, S, L)
        /\ \E A \in N!NewRows(R) : \E g \in [A -> SUBSET R] :
             N!Chunks(g, R, A) /\ batchRow' = N!Filled(f, g)
  BY DEF N!Merge
<1> DEFINE R == S \ UNION {f[j] : j \in L}
<1>2. PICK A \in N!NewRows(R) : \E g \in [A -> SUBSET R] :
        N!Chunks(g, R, A) /\ batchRow' = N!Filled(f, g)
  BY <1>1
<1>2a. PICK g \in [A -> SUBSET R] : N!Chunks(g, R, A) /\ batchRow' = N!Filled(f, g)
  BY <1>2
<1>3. L \subseteq N!Job /\ \A j \in L : batchRow[j].status = "pending"
  BY DEF N!Open, N!With
<1>4. A \subseteq N!Job /\ \A j \in A : batchRow[j].status = "absent"
  BY <1>2 DEF N!NewRows, N!With
<1>5. /\ \A j \in L : f[j] \subseteq S /\ f[j] \intersect batchRow[j].ids = {}
      /\ \A j \in A : g[j] \subseteq S
      /\ \A i \in S : (\E j \in L : i \in f[j]) \/ (\E j \in A : i \in g[j])
  <2>1. ASSUME NEW j \in L PROVE f[j] \subseteq S /\ f[j] \intersect batchRow[j].ids = {}
    <3>1. f[j] \subseteq (S \ UNION {f[k] : k \in {l \in L : l < j}}) \ batchRow[j].ids
      BY <1>1 DEF N!Fills
    <3> QED
      BY <3>1
  <2>2. R \subseteq S /\ UNION {g[j] : j \in A} = R
    BY <1>2a DEF N!Chunks
  <2>3. \A j \in A : g[j] \subseteq S
    BY <2>2
  <2>4. ASSUME NEW i \in S, ~ \E j \in L : i \in f[j] PROVE \E j \in A : i \in g[j]
    <3>1. i \notin UNION {f[j] : j \in L}
      BY <2>4
    <3>2. i \in UNION {g[j] : j \in A}
      BY <2>2, <3>1
    <3> QED
      BY <3>2
  <2> QED
    BY <2>1, <2>3, <2>4
<1>5a. DOMAIN f = L /\ DOMAIN g = A
  BY <1>1, <1>2a
<1>6. /\ \A j \in L : batchRow'[j] = [batchRow[j] EXCEPT !.ids = @ \union f[j]]
      /\ \A j \in A : batchRow'[j] = [status |-> "pending", ids |-> g[j], claim |-> Nobody]
      /\ \A j \in (N!Job \ L) \ A : batchRow'[j] = batchRow[j]
  <2>1. ASSUME NEW j \in N!Job
        PROVE  batchRow'[j] = CASE j \in L -> [batchRow[j] EXCEPT !.ids = @ \union f[j]]
                                [] j \in A -> [status |-> "pending", ids |-> g[j], claim |-> Nobody]
                                [] OTHER -> batchRow[j]
    BY <1>2a, <1>5a, Zenon DEF N!Filled
  <2>2. L \intersect A = {}
    BY <1>3, <1>4
  <2> QED
    BY <1>3, <1>4, <2>1, <2>2
<1>7. batchRow' \in [N!Job -> BatchRowRec]
  <2>1. ASSUME NEW j \in N!Job PROVE batchRow'[j] \in BatchRowRec
    <3>1. batchRow[j] \in BatchRowRec
      BY DEF BatchTyped
    <3>2. CASE j \in L
      <4>1. f[j] \in SUBSET Path
        BY <1>5, <3>2
      <4>2. batchRow'[j] = [batchRow[j] EXCEPT !.ids = @ \union f[j]]
        BY <1>6, <3>2
      <4> QED
        BY <3>1, <4>1, <4>2 DEF BatchRowRec
    <3>3. CASE j \in A
      <4>1. g[j] \in SUBSET Path
        BY <1>5, <3>3
      <4>2. batchRow'[j] = [status |-> "pending", ids |-> g[j], claim |-> Nobody]
        BY <1>6, <3>3
      <4> QED
        BY <4>1, <4>2 DEF BatchRowRec
    <3>4. CASE j \notin L /\ j \notin A
      BY <1>6, <3>1, <3>4
    <3> QED
      BY <3>2, <3>3, <3>4
  <2>2. batchRow' = [j \in N!Job |-> batchRow'[j]]
    <3>1. batchRow' = N!Filled(f, g)
      BY <1>2a
    <3> QED
      BY <3>1 DEF N!Filled
  <2> QED
    BY <2>1, <2>2
<1>8. Grown({})
  <2> SUFFICES ASSUME NEW j \in N!Job
               PROVE  /\ batchRow[j].ids \subseteq batchRow'[j].ids
                      /\ batchRow'[j].claim = batchRow[j].claim
                      /\ \/ batchRow'[j] = batchRow[j]
                         \/ batchRow[j].status \in {"absent", "pending"} /\ batchRow'[j].status = "pending"
    BY <1>7 DEF Grown
  <2>0. batchRow[j] \in BatchRowRec
    BY DEF BatchTyped
  <2>1. CASE j \in L
    <3>1. batchRow'[j] = [batchRow[j] EXCEPT !.ids = @ \union f[j]] /\ batchRow[j].status = "pending"
      BY <1>3, <1>6, <2>1
    <3> QED
      BY <2>0, <3>1 DEF BatchRowRec
  <2>2. CASE j \in A /\ j \notin L
    <3>1. /\ batchRow'[j] = [status |-> "pending", ids |-> g[j], claim |-> Nobody]
          /\ batchRow[j].status = "absent"
      BY <1>4, <1>6, <2>2
    <3>2. RowShape(j)
      BY DEF BatchShape
    <3> QED
      BY <2>0, <3>1, <3>2 DEF RowShape, BatchRowRec
  <2>3. CASE j \notin A /\ j \notin L
    BY <1>6, <2>3
  <2> QED
    BY <2>1, <2>2, <2>3
<1>9. ASSUME NEW i \in S PROVE Placed(i)
  <2>1. CASE \E j \in L : i \in f[j]
    <3>1. PICK j \in L : i \in f[j]
      BY <2>1
    <3>2. /\ batchRow'[j] = [batchRow[j] EXCEPT !.ids = @ \union f[j]]
          /\ batchRow[j].status = "pending" /\ i \notin batchRow[j].ids
      BY <1>3, <1>5, <1>6, <3>1
    <3>3. batchRow[j] \in BatchRowRec
      BY <1>3 DEF BatchTyped
    <3>4. batchRow'[j].status = "pending" /\ i \in batchRow'[j].ids
      BY <3>1, <3>2, <3>3 DEF BatchRowRec
    <3> QED
      BY <1>3, <3>2, <3>4 DEF Placed
  <2>2. CASE \E j \in A : i \in g[j]
    <3>1. PICK j \in A : i \in g[j]
      BY <2>2
    <3>2. j \notin L /\ batchRow[j].ids = {}
      BY <1>3, <1>4 DEF BatchShape, RowShape
    <3>3. batchRow'[j] = [status |-> "pending", ids |-> g[j], claim |-> Nobody]
      BY <1>4, <1>6, <3>2
    <3> QED
      BY <1>4, <3>1, <3>2, <3>3 DEF Placed
  <2> QED
    BY <1>5, <2>1, <2>2
<1> QED
  BY <1>7, <1>8, <1>9

\* A request of S whose rows take all of S keeps the invariant; rows L are
\* superseded only if everything is requested.
LEMMA RequestKeeps ==
  ASSUME BatchInv, NEW S \in SUBSET Path, NEW L \in SUBSET N!With("pending"),
         batchRow' \in [N!Job -> BatchRowRec], Grown(L),
         \A j \in L : batchRow'[j] = [batchRow[j] EXCEPT !.status = "done"],
         \A i \in S : Placed(i),
         L = {} \/ S = Path,
         N!Requested(S)
  PROVE  BatchInv'
<1> USE DEF BatchInv
<1>1. L \subseteq N!Job /\ \A j \in L : batchRow[j].status = "pending"
  BY DEF N!With
<1>2. /\ current' = current \ S /\ lost' = lost \ S
      /\ UNCHANGED <<batchKey, wrote, crossed>>
  BY DEF N!Requested
<1>3. ASSUME NEW t \in Thread
      PROVE  /\ batchRun'[t] \in BatchRunRec
             /\ batchRun'[t].pc = batchRun[t].pc /\ batchRun'[t].job = batchRun[t].job
             /\ batchRun'[t].ids = batchRun[t].ids
             /\ batchRun[t].pc # "writing" => batchRun'[t].old = batchRun[t].old
             /\ batchRun'[t].old \subseteq batchRun[t].old \union S
  <2>1. batchRun[t] \in BatchRunRec
    BY DEF BatchTyped
  <2>2. batchRun'[t] = IF batchRun[t].pc = "writing"
                         THEN [batchRun[t] EXCEPT !.old = @ \union (S \intersect batchRun[t].ids)]
                         ELSE batchRun[t]
    BY DEF N!Requested
  <2> QED
    BY <2>1, <2>2 DEF BatchRunRec
<1>4. batchRun' \in [Thread -> BatchRunRec]
  <2>1. batchRun' = [t \in Thread |-> batchRun'[t]]
    BY DEF N!Requested
  <2> QED
    BY <1>3, <2>1
<1>5. BatchTyped'
  BY <1>2, <1>4 DEF BatchTyped
\* A claimed row stays as it is.
<1>6. ASSUME NEW j \in N!Job, batchRow[j].status \in {"claimed", "failed"} PROVE batchRow'[j] = batchRow[j]
  BY <1>1, <1>6 DEF Grown
<1>7. ASSUME NEW j \in N!Job PROVE RowShape(j)' /\ batchRow[j].ids \subseteq batchRow'[j].ids
  <2>1. RowShape(j) /\ wrote'[j] = wrote[j]
    BY <1>2 DEF BatchShape
  <2>2. CASE j \in L
    <3>1. batchRow'[j] = [batchRow[j] EXCEPT !.status = "done"] /\ batchRow[j] \in BatchRowRec
      BY <2>2 DEF BatchTyped
    <3>2. /\ batchRow'[j].status = "done" /\ batchRow'[j].ids = batchRow[j].ids
          /\ batchRow'[j].claim = batchRow[j].claim
      BY <3>1 DEF BatchRowRec
    <3> QED
      BY <1>1, <2>1, <2>2, <3>2 DEF RowShape
  <2>3. CASE j \notin L
    BY <2>1, <2>3 DEF Grown, RowShape
  <2> QED
    BY <2>2, <2>3
<1>8. ASSUME NEW t \in Thread PROVE RunShape(t)'
  <2>1. RunShape(t)
    BY DEF BatchShape
  <2>2. ASSUME batchRun[t].job \in N!Job, N!Holds(t)'
        PROVE  N!Holds(t) /\ batchRow'[batchRun[t].job] = batchRow[batchRun[t].job]
    <3>1. PICK j \in N!Job : j = batchRun[t].job
      BY <2>2
    <3>2. batchRow'[j].claim = t
      BY <1>3, <2>2, <3>1 DEF N!Holds
    <3>3. batchRow'[j].status = "claimed"
      BY <1>7, <3>2, RefreshAssumption DEF RowShape
    <3>4. j \notin L
      <4>1. ASSUME j \in L PROVE batchRow'[j].status = "done"
        BY <4>1 DEF BatchTyped, BatchRowRec
      <4> QED
        BY <3>3, <4>1
    <3>5. batchRow'[j] = batchRow[j]
      BY <3>3, <3>4 DEF Grown
    <3> QED
      BY <3>1, <3>2, <3>5 DEF N!Holds
  <2> QED
    <3>1. batchRun'[t].pc = "idle" => batchRun'[t] = batchRun[t]
      BY DEF N!Requested
    <3>2. (batchRun[t].pc = "idle" => batchRun[t] = N!Idle)'
      BY <1>3, <2>1, <3>1 DEF RunShape, N!Idle
    <3> QED
      BY <1>3, <1>7, <2>1, <2>2, <3>2 DEF RunShape
<1>9. N!OneWriter'
  BY <1>3 DEF N!OneWriter, N!HasKey
<1>10. ASSUME NEW i \in S PROVE \E j \in N!Job : Fresh(i, j)'
  <2>1. PICK j \in N!Job : /\ batchRow'[j].status = "pending"
                           /\ i \in batchRow'[j].ids /\ i \notin batchRow[j].ids
    BY DEF Placed
  <2>2. N!Due(i, j)'
    BY <2>1 DEF N!Due
  <2>3. i \notin wrote'[j]
    BY <1>2, <2>1 DEF BatchShape, RowShape
  <2>4. \A t \in Thread : batchRun'[t].pc = "written" /\ batchRun'[t].job = j => i \notin batchRun'[t].ids
    BY <1>3, <2>1 DEF BatchShape, RunShape
  <2> QED
    BY <2>2, <2>3, <2>4 DEF Fresh
<1>11. ASSUME NEW i \in Path \ S, NEW j \in N!Job, Fresh(i, j) PROVE Fresh(i, j)'
  <2>1. j \notin L
    BY <1>11
  <2>2. i \in batchRow'[j].ids
    BY <1>7, <1>11 DEF Fresh, N!Due
  <2>3. N!Due(i, j)'
    <3>1. CASE batchRow[j].status \in {"pending", "failed"}
      BY <2>1, <2>2, <3>1 DEF N!Due, Grown
    <3>2. CASE \E t \in Thread : /\ batchRow[j].claim = t /\ batchRun[t].job = j
                                 /\ \/ batchRun[t].pc \in {"claimed", "loaded", "err"}
                                    \/ batchRun[t].pc = "writing" /\ i \notin batchRun[t].old
      <4>1. batchRow'[j].claim = batchRow[j].claim
        BY <2>1 DEF Grown
      <4> QED
        BY <1>3, <2>2, <3>2, <4>1 DEF N!Due
    <3> QED
      BY <1>11, <3>1, <3>2 DEF Fresh, N!Due
  <2> QED
    BY <1>2, <1>3, <1>11, <2>3 DEF Fresh
<1>12. FreshOrSettled'
  <2> SUFFICES ASSUME NEW i \in Path PROVE Settled(i)' \/ \E j \in N!Job : Fresh(i, j)'
    BY DEF FreshOrSettled
  <2>1. CASE i \in S
    BY <1>10, <2>1
  <2>2. CASE i \notin S /\ Settled(i)
    BY <1>2, <2>2 DEF Settled
  <2>3. CASE i \notin S /\ \E j \in N!Job : Fresh(i, j)
    BY <1>11, <2>3
  <2> QED
    BY <2>1, <2>2, <2>3 DEF FreshOrSettled
<1> QED
  BY <1>5, <1>7, <1>8, <1>9, <1>12 DEF BatchShape

LEMMA BatchRequestStep == ASSUME BatchInv, NEW S \in SUBSET Path, N!Request(S) PROVE BatchInv'
<1>1. PICK L \in SUBSET N!Open("pending") : N!Merge(S, L)
  BY DEF N!Request
<1>2. batchRow' \in [N!Job -> BatchRowRec] /\ Grown({}) /\ \A i \in S : Placed(i)
  BY <1>1, MergePlaces DEF BatchInv
<1>3. N!Requested(S)
  BY DEF N!Request
<1> QED
  BY <1>2, <1>3, RequestKeeps

LEMMA BatchSweepStep == ASSUME BatchInv, N!Sweep PROVE BatchInv'
<1>1. PICK L \in SUBSET N!With("pending"), A \in N!NewRows(Path) :
        \E g \in [A -> SUBSET Path] :
          /\ N!Chunks(g, Path, A)
          /\ batchRow' = [j \in N!Job |-> IF j \in L THEN [batchRow[j] EXCEPT !.status = "done"]
                                                    ELSE N!Filled(<<>>, g)[j]]
  BY DEF N!Sweep
<1>2. PICK g \in [A -> SUBSET Path] :
          /\ N!Chunks(g, Path, A)
          /\ batchRow' = [j \in N!Job |-> IF j \in L THEN [batchRow[j] EXCEPT !.status = "done"]
                                                    ELSE N!Filled(<<>>, g)[j]]
  BY <1>1
<1>3. L \subseteq N!Job /\ \A j \in L : batchRow[j].status = "pending"
  BY DEF N!With
<1>4. A \subseteq N!Job /\ \A j \in A : batchRow[j].status = "absent"
  BY <1>1 DEF N!NewRows, N!With
<1>5. /\ \A j \in L : batchRow'[j] = [batchRow[j] EXCEPT !.status = "done"]
      /\ \A j \in A : batchRow'[j] = [status |-> "pending", ids |-> g[j], claim |-> Nobody]
      /\ \A j \in (N!Job \ L) \ A : batchRow'[j] = batchRow[j]
  <2>1. DOMAIN <<>> = {} /\ DOMAIN g = A
    OBVIOUS
  <2>2. ASSUME NEW j \in N!Job
        PROVE  N!Filled(<<>>, g)[j] = CASE j \in DOMAIN <<>> -> [batchRow[j] EXCEPT !.ids = @ \union <<>>[j]]
                                        [] j \in DOMAIN g -> [status |-> "pending", ids |-> g[j], claim |-> Nobody]
                                        [] OTHER -> batchRow[j]
    BY Zenon DEF N!Filled
  <2>3. L \intersect A = {}
    BY <1>3, <1>4
  <2> QED
    BY <1>2, <1>3, <1>4, <2>1, <2>2, <2>3
<1>6. ASSUME NEW j \in N!Job PROVE batchRow'[j] \in BatchRowRec
  <2>1. batchRow[j] \in BatchRowRec
    BY DEF BatchInv, BatchTyped
  <2>2. CASE j \in L
    <3>1. batchRow'[j] = [batchRow[j] EXCEPT !.status = "done"]
      BY <1>5, <2>2
    <3> QED
      BY <2>1, <3>1 DEF BatchRowRec
  <2>3. CASE j \in A
    <3>1. batchRow'[j] = [status |-> "pending", ids |-> g[j], claim |-> Nobody] /\ g[j] \in SUBSET Path
      BY <1>5, <2>3
    <3> QED
      BY <3>1 DEF BatchRowRec
  <2>4. CASE j \notin L /\ j \notin A
    BY <1>5, <2>1, <2>4
  <2> QED
    BY <2>2, <2>3, <2>4
<1>7. batchRow' \in [N!Job -> BatchRowRec]
  <2>1. batchRow' = [j \in N!Job |-> batchRow'[j]]
    BY <1>2
  <2> QED
    BY <1>6, <2>1
<1>8. Grown(L)
  <2> SUFFICES ASSUME NEW j \in N!Job, j \notin L
               PROVE  /\ batchRow[j].ids \subseteq batchRow'[j].ids
                      /\ batchRow'[j].claim = batchRow[j].claim
                      /\ \/ batchRow'[j] = batchRow[j]
                         \/ batchRow[j].status \in {"absent", "pending"} /\ batchRow'[j].status = "pending"
    BY <1>6 DEF Grown
  <2>1. CASE j \in A
    <3>1. /\ batchRow'[j] = [status |-> "pending", ids |-> g[j], claim |-> Nobody]
          /\ batchRow[j].status = "absent"
      BY <1>4, <1>5, <2>1
    <3>2. RowShape(j) /\ batchRow[j] \in BatchRowRec
      BY DEF BatchInv, BatchShape, BatchTyped
    <3> QED
      BY <3>1, <3>2 DEF RowShape, BatchRowRec
  <2>2. CASE j \notin A
    BY <1>5, <2>2
  <2> QED
    BY <2>1, <2>2
<1>9. ASSUME NEW i \in Path PROVE Placed(i)
  <2>1. UNION {g[j] : j \in A} = Path
    BY <1>2 DEF N!Chunks
  <2>2. PICK j \in A : i \in g[j]
    BY <2>1
  <2>3. batchRow'[j] = [status |-> "pending", ids |-> g[j], claim |-> Nobody]
    BY <1>5
  <2>4. batchRow[j].ids = {}
    BY <1>4 DEF BatchInv, BatchShape, RowShape
  <2> QED
    BY <1>4, <2>2, <2>3, <2>4 DEF Placed
<1>10. N!Requested(Path)
  BY DEF N!Sweep
<1> QED
  BY <1>5, <1>7, <1>8, <1>9, <1>10, RequestKeeps

\* Giving rows L the status s, and leaving runs whose row, if it is still
\* claimed by them, is among L.
LEMMA ReleaseKeeps ==
  ASSUME BatchInv, NEW L \in SUBSET N!Job, NEW s \in {"pending", "done", "failed"},
         batchRow' = N!SetRows(L, s),
         batchRun' \in [Thread -> BatchRunRec],
         \A t \in Thread : batchRun'[t] = batchRun[t] \/ batchRun'[t] = N!Idle,
         \A t \in Thread : batchRun'[t] # batchRun[t] /\ N!Holds(t) => batchRun[t].job \in L,
         \A i \in Path, j \in L : Fresh(i, j) => s # "done",
         UNCHANGED <<batchKey, wrote, current, crossed, lost>>
  PROVE  BatchInv'
<1> USE DEF BatchInv
<1>1. ASSUME NEW j \in N!Job
      PROVE  /\ batchRow'[j] \in BatchRowRec /\ batchRow'[j].ids = batchRow[j].ids
             /\ j \in L => batchRow'[j].status = s /\ batchRow'[j].claim = Nobody
             /\ j \notin L => batchRow'[j] = batchRow[j]
  <2>1. batchRow[j] \in BatchRowRec
    BY DEF BatchTyped
  <2>2. batchRow'[j] = IF j \in L THEN [batchRow[j] EXCEPT !.status = s, !.claim = Nobody] ELSE batchRow[j]
    BY DEF N!SetRows
  <2> QED
    BY <2>1, <2>2 DEF BatchRowRec
<1>2. batchRow' \in [N!Job -> BatchRowRec]
  <2>1. batchRow' = [j \in N!Job |-> batchRow'[j]]
    BY DEF N!SetRows
  <2> QED
    BY <1>1, <2>1
<1>3. BatchTyped'
  BY <1>2 DEF BatchTyped
<1>4. ASSUME NEW j \in N!Job PROVE RowShape(j)'
  BY <1>1 DEF BatchShape, RowShape
<1>5. ASSUME NEW t \in Thread PROVE RunShape(t)'
  <2>1. CASE batchRun'[t] = N!Idle
    BY <2>1 DEF N!Idle, RunShape
  <2>2. CASE batchRun'[t] = batchRun[t]
    <3>1. RunShape(t)
      BY DEF BatchShape
    <3>2. ASSUME batchRun[t].job \in N!Job, N!Holds(t)' PROVE N!Holds(t)
      BY <1>1, <2>2, <3>2, RefreshAssumption DEF N!Holds
    <3> QED
      BY <1>1, <2>2, <3>1, <3>2 DEF RunShape
  <2> QED
    BY <2>1, <2>2
<1>6. N!OneWriter'
  BY DEF N!OneWriter, N!HasKey, N!Idle
<1>7. ASSUME NEW i \in Path, NEW j \in N!Job, Fresh(i, j) PROVE Fresh(i, j)'
  <2>1. N!Due(i, j)'
    <3>1. CASE j \in L
      BY <1>1, <1>7, <3>1 DEF Fresh, N!Due
    <3>2. CASE j \notin L /\ batchRow[j].status \in {"pending", "failed"}
      BY <1>1, <1>7, <3>2 DEF Fresh, N!Due
    <3>3. ASSUME j \notin L, NEW t \in Thread, batchRow[j].claim = t, batchRun[t].job = j,
                 \/ batchRun[t].pc \in {"claimed", "loaded", "err"}
                 \/ batchRun[t].pc = "writing" /\ i \notin batchRun[t].old
          PROVE  N!Due(i, j)'
      <4>1. batchRun'[t] = batchRun[t]
        BY <3>3 DEF N!Holds
      <4>2. batchRow'[j] = batchRow[j] /\ i \in batchRow[j].ids
        BY <1>1, <1>7, <3>3 DEF Fresh, N!Due
      <4> QED
        BY <3>3, <4>1, <4>2 DEF N!Due
    <3> QED
      BY <1>7, <3>1, <3>2, <3>3 DEF Fresh, N!Due
  <2> QED
    BY <1>7, <2>1 DEF Fresh, N!Idle
<1>8. FreshOrSettled'
  BY <1>7 DEF FreshOrSettled, Settled
<1> QED
  BY <1>3, <1>4, <1>5, <1>6, <1>8 DEF BatchShape

LEMMA IdleRuns == N!Idle \in BatchRunRec
BY DEF N!Idle, N!Pc, BatchRunRec

LEMMA BatchCancelStep == ASSUME BatchInv, NEW L \in SUBSET N!Job, N!Cancel(L) PROVE BatchInv'
<1>1. /\ batchRow' = N!SetRows(L, "failed")
      /\ UNCHANGED <<batchRun, batchKey, wrote, current, crossed, lost>>
  BY DEF N!Cancel, N!files
<1>2. batchRun' \in [Thread -> BatchRunRec]
  BY <1>1 DEF BatchInv, BatchTyped
<1> QED
  BY <1>1, <1>2, ReleaseKeeps

LEMMA BatchReapStep == ASSUME BatchInv, NEW j \in N!Job, N!Reap(j) PROVE BatchInv'
<1>1. /\ batchRow' = N!SetRows({j}, "pending")
      /\ UNCHANGED <<batchRun, batchKey, wrote, current, crossed, lost>>
  BY DEF N!Reap, N!files
<1>2. batchRun' \in [Thread -> BatchRunRec]
  BY <1>1 DEF BatchInv, BatchTyped
<1> QED
  BY <1>1, <1>2, ReleaseKeeps

LEMMA BatchRestartStep == ASSUME BatchInv, N!Restart PROVE BatchInv'
<1>1. /\ batchRow' = N!SetRows(N!With("claimed"), "pending")
      /\ batchRun' = [t \in Thread |-> N!Idle]
      /\ UNCHANGED <<batchKey, wrote, current, crossed, lost>>
  BY DEF N!Restart, N!files
<1>2. batchRun' \in [Thread -> BatchRunRec]
  BY <1>1, IdleRuns
<1>3. N!With("claimed") \in SUBSET N!Job
  BY DEF N!With
<1>4. ASSUME NEW t \in Thread, batchRun'[t] # batchRun[t], N!Holds(t)
      PROVE  batchRun[t].job \in N!With("claimed")
  <2>1. batchRun[t] # N!Idle /\ batchRun[t] \in BatchRunRec /\ RunShape(t)
    BY <1>1, <1>4 DEF BatchInv, BatchTyped, BatchShape
  <2>2. batchRun[t].job \in N!Job
    <3>1. CASE batchRun[t].pc # "idle"
      BY <2>1, <3>1 DEF RunShape
    <3>2. CASE batchRun[t].pc = "idle"
      BY <2>1, <3>2 DEF RunShape
    <3> QED
      BY <3>1, <3>2
  <2>3. batchRow[batchRun[t].job].status = "claimed"
    BY <1>4, <2>2, RefreshAssumption DEF N!Holds, BatchInv, BatchShape, RowShape
  <2> QED
    BY <2>2, <2>3 DEF N!With
<1>5. \A t \in Thread : batchRun'[t] = batchRun[t] \/ batchRun'[t] = N!Idle
  BY <1>1
<1> QED
  BY <1>1, <1>2, <1>3, <1>4, <1>5, ReleaseKeeps

LEMMA BatchFinishStep == ASSUME BatchInv, NEW t \in Thread, N!Finish(t) PROVE BatchInv'
<1>1. PICK j \in N!Job : j = batchRun[t].job
  BY DEF N!Finish, BatchInv, BatchShape, RunShape
<1>2. /\ batchRun[t].pc \in {"ok", "err"}
      /\ batchRun' = [batchRun EXCEPT ![t] = N!Idle]
      /\ UNCHANGED <<batchKey, wrote, current, crossed, lost>>
  BY DEF N!Finish, N!files
<1>3. batchRun' \in [Thread -> BatchRunRec]
  BY <1>2, IdleRuns DEF BatchInv, BatchTyped
<1>4. /\ \A u \in Thread : batchRun'[u] = batchRun[u] \/ batchRun'[u] = N!Idle
      /\ \A u \in Thread : batchRun'[u] # batchRun[u] => u = t
  BY <1>2 DEF BatchInv, BatchTyped
<1>5. CASE N!Holds(t)
  <2>1. PICK s \in {"pending", "done", "failed"} :
          batchRow' = N!SetRows({j}, s) /\ (s = "done" => batchRun[t].pc = "ok")
    BY <1>1, <1>2, <1>5 DEF N!Finish
  <2>3. ASSUME NEW i \in Path, Fresh(i, j) PROVE s # "done"
    <3>1. batchRow[j].status = "claimed" /\ batchRow[j].claim = t
      BY <1>1, <1>5, RefreshAssumption DEF N!Holds, BatchInv, BatchShape, RowShape
    <3>2. batchRun[t].pc # "ok"
      BY <2>3, <3>1 DEF Fresh, N!Due
    <3> QED
      BY <2>1, <3>2
  <2>4. \A u \in Thread : batchRun'[u] # batchRun[u] /\ N!Holds(u) => batchRun[u].job \in {j}
    BY <1>1, <1>4
  <2>5. \A i \in Path, k \in {j} : Fresh(i, k) => s # "done"
    BY <2>3
  <2>6. {j} \in SUBSET N!Job
    OBVIOUS
  <2> QED
    BY <1>2, <1>3, <1>4, <2>1, <2>4, <2>5, <2>6, ReleaseKeeps
<1>6. CASE ~ N!Holds(t)
  <2>1. batchRow' = batchRow
    BY <1>6 DEF N!Finish
  <2>2. N!SetRows({}, "done") = batchRow
    BY DEF N!SetRows, BatchInv, BatchTyped
  <2>3. \A u \in Thread : batchRun'[u] # batchRun[u] /\ N!Holds(u) => batchRun[u].job \in {}
    BY <1>4, <1>6
  <2> QED
    BY <1>2, <1>3, <1>4, <2>1, <2>2, <2>3, ReleaseKeeps
<1> QED
  BY <1>5, <1>6

\* A step of one run: what must be shown of it.
LEMMA RunKeeps ==
  ASSUME BatchInv, NEW t \in Thread, NEW r \in BatchRunRec,
         batchRow' = batchRow, batchRun' = [batchRun EXCEPT ![t] = r],
         batchKey' \subseteq N!Job, wrote' \in [N!Job -> SUBSET Path],
         current' \subseteq Path, crossed' \subseteq Path, lost' \subseteq Path,
         \A j \in N!Job : wrote'[j] \subseteq batchRow[j].ids,
         r.job = batchRun[t].job, RunShape(t)',
         r.pc \in {"writing", "written"} =>
           \A u \in Thread \ {t} : N!HasKey(u) => batchRun[u].job # r.job,
         \A i \in Path : Settled(i) => Settled(i)',
         \A i \in Path, j \in N!Job : Fresh(i, j) =>
           \/ Settled(i)'
           \/ /\ i \notin wrote'[j]
              /\ r.pc = "written" /\ r.job = j => i \notin r.ids
              /\ batchRow[j].claim = t /\ r.job = j =>
                   \/ r.pc \in {"claimed", "loaded", "err"}
                   \/ r.pc = "writing" /\ i \notin r.old
  PROVE  BatchInv'
<1> USE DEF BatchInv
<1>1. /\ batchRun' \in [Thread -> BatchRunRec]
      /\ batchRun'[t] = r
      /\ \A u \in Thread \ {t} : batchRun'[u] = batchRun[u]
  BY DEF BatchTyped
<1>2. BatchTyped'
  BY <1>1 DEF BatchTyped
<1>3. \A j \in N!Job : RowShape(j)'
  BY DEF BatchShape, RowShape
<1>4. ASSUME NEW u \in Thread PROVE RunShape(u)'
  <2>1. CASE u = t
    BY <2>1
  <2>2. CASE u # t
    BY <1>1, <2>2 DEF BatchShape, RunShape, N!Holds
  <2> QED
    BY <2>1, <2>2
<1>5. N!OneWriter'
  <2> SUFFICES ASSUME NEW u \in Thread, NEW v \in Thread, N!HasKey(u)', N!HasKey(v)',
                      batchRun'[u].job = batchRun'[v].job
               PROVE  u = v
    BY DEF N!OneWriter
  <2>1. CASE u # t /\ v # t
    BY <1>1, <2>1 DEF N!OneWriter, N!HasKey
  <2>2. CASE u = t /\ v # t
    BY <1>1, <2>2 DEF N!HasKey
  <2>3. CASE u # t /\ v = t
    BY <1>1, <2>3 DEF N!HasKey
  <2> QED
    BY <2>1, <2>2, <2>3
<1>6. ASSUME NEW i \in Path, NEW j \in N!Job, Fresh(i, j), ~ Settled(i)' PROVE Fresh(i, j)'
  <2>1. /\ i \notin wrote'[j]
        /\ r.pc = "written" /\ r.job = j => i \notin r.ids
        /\ batchRow[j].claim = t /\ r.job = j =>
             \/ r.pc \in {"claimed", "loaded", "err"}
             \/ r.pc = "writing" /\ i \notin r.old
    BY <1>6
  <2>2. N!Due(i, j)'
    <3>1. CASE batchRow[j].status \in {"pending", "failed"}
      BY <1>6, <3>1 DEF Fresh, N!Due
    <3>2. ASSUME NEW u \in Thread, batchRow[j].claim = u, batchRun[u].job = j,
                 \/ batchRun[u].pc \in {"claimed", "loaded", "err"}
                 \/ batchRun[u].pc = "writing" /\ i \notin batchRun[u].old
          PROVE  N!Due(i, j)'
      <4>1. i \in batchRow'[j].ids /\ batchRow'[j].claim = u
        BY <1>6, <3>2 DEF Fresh, N!Due
      <4>2. CASE u = t
        BY <1>1, <2>1, <3>2, <4>1, <4>2 DEF N!Due
      <4>3. CASE u # t
        BY <1>1, <3>2, <4>1, <4>3 DEF N!Due
      <4> QED
        BY <4>2, <4>3
    <3> QED
      BY <1>6, <3>1, <3>2 DEF Fresh, N!Due
  <2>3. ASSUME NEW u \in Thread, batchRun'[u].pc = "written", batchRun'[u].job = j
        PROVE  i \notin batchRun'[u].ids
    BY <1>1, <1>6, <2>1, <2>3 DEF Fresh
  <2> QED
    BY <2>1, <2>2, <2>3 DEF Fresh
<1>7. FreshOrSettled'
  BY <1>6 DEF FreshOrSettled
<1> QED
  BY <1>2, <1>3, <1>4, <1>5, <1>7 DEF BatchShape

\* A waiting row and an idle thread.
LEMMA BatchClaimStep ==
  ASSUME BatchInv, NEW t \in Thread, NEW j \in N!Job, N!Claim(t, j) PROVE BatchInv'
<1> USE DEF BatchInv
<1>1. /\ batchRun[t].pc = "idle" /\ batchRow[j].status = "pending"
      /\ batchRow' = [batchRow EXCEPT ![j].status = "claimed", ![j].claim = t]
      /\ batchRun' = [batchRun EXCEPT ![t] = [pc |-> "claimed", job |-> j, ids |-> {}, old |-> {}]]
      /\ UNCHANGED <<batchKey, wrote, current, crossed, lost>>
  BY DEF N!Claim, N!files
<1>2. /\ batchRow' \in [N!Job -> BatchRowRec]
      /\ batchRow'[j].status = "claimed" /\ batchRow'[j].claim = t
      /\ batchRow'[j].ids = batchRow[j].ids
      /\ \A k \in N!Job \ {j} : batchRow'[k] = batchRow[k]
  BY <1>1 DEF BatchTyped, BatchRowRec
<1>3. /\ batchRun' \in [Thread -> BatchRunRec]
      /\ batchRun'[t] = [pc |-> "claimed", job |-> j, ids |-> {}, old |-> {}]
      /\ \A u \in Thread \ {t} : batchRun'[u] = batchRun[u]
  <2>1. [pc |-> "claimed", job |-> j, ids |-> {}, old |-> {}] \in BatchRunRec
    BY DEF BatchRunRec, N!Pc
  <2> QED
    BY <1>1, <2>1 DEF BatchTyped
<1>4. BatchTyped'
  BY <1>1, <1>2, <1>3 DEF BatchTyped
<1>5. \A k \in N!Job : RowShape(k)'
  BY <1>1, <1>2, RefreshAssumption DEF BatchShape, RowShape
<1>6. ASSUME NEW u \in Thread PROVE RunShape(u)'
  <2>1. CASE u = t
    BY <1>2, <1>3, <2>1 DEF RunShape
  <2>2. CASE u # t
    <3>1. RunShape(u)
      BY DEF BatchShape
    <3>2. ASSUME batchRun[u].job \in N!Job, N!Holds(u)' PROVE N!Holds(u)
      BY <1>2, <1>3, <2>2, <3>2 DEF N!Holds
    <3> QED
      BY <1>2, <1>3, <2>2, <3>1, <3>2 DEF RunShape
  <2> QED
    BY <2>1, <2>2
<1>7. N!OneWriter'
  BY <1>3 DEF N!OneWriter, N!HasKey
<1>8. ASSUME NEW i \in Path, NEW k \in N!Job, Fresh(i, k) PROVE Fresh(i, k)'
  <2>1. N!Due(i, k)'
    <3>1. CASE k = j
      BY <1>2, <1>3, <1>8, <3>1 DEF Fresh, N!Due
    <3>2. CASE k # j
      BY <1>1, <1>2, <1>3, <1>8, <3>2 DEF Fresh, N!Due
    <3> QED
      BY <3>1, <3>2
  <2> QED
    BY <1>1, <1>3, <1>8, <2>1 DEF Fresh
<1>9. FreshOrSettled'
  BY <1>1, <1>8 DEF FreshOrSettled, Settled
<1> QED
  BY <1>4, <1>5, <1>6, <1>7, <1>9 DEF BatchShape

\* What a step that leaves the rows, the keys and the sidecars alone is to show.
LEMMA QuietRunKeeps ==
  ASSUME BatchInv, NEW t \in Thread, NEW r \in BatchRunRec,
         UNCHANGED <<batchRow, batchKey, wrote, current, crossed, lost>>,
         batchRun' = [batchRun EXCEPT ![t] = r],
         r.job = batchRun[t].job, RunShape(t)', r.pc # "written",
         r.pc = "writing" => \A u \in Thread \ {t} : N!HasKey(u) => batchRun[u].job # r.job,
         \A i \in Path : batchRow[batchRun[t].job].claim = t /\ Fresh(i, batchRun[t].job) =>
           \/ r.pc \in {"claimed", "loaded", "err"}
           \/ r.pc = "writing" /\ i \notin r.old
  PROVE  BatchInv'
<1>1. \A j \in N!Job : wrote'[j] \subseteq batchRow[j].ids
  BY DEF BatchInv, BatchShape, RowShape
<1>2. /\ batchRow' = batchRow
      /\ batchKey' \subseteq N!Job /\ wrote' \in [N!Job -> SUBSET Path]
      /\ current' \subseteq Path /\ crossed' \subseteq Path /\ lost' \subseteq Path
  BY DEF BatchInv, BatchTyped
<1>3. \A i \in Path : Settled(i) => Settled(i)'
  BY DEF Settled
<1>4. \A i \in Path, j \in N!Job : Fresh(i, j) =>
        /\ i \notin wrote'[j]
        /\ r.pc = "written" /\ r.job = j => i \notin r.ids
        /\ batchRow[j].claim = t /\ r.job = j =>
             \/ r.pc \in {"claimed", "loaded", "err"}
             \/ r.pc = "writing" /\ i \notin r.old
  BY DEF Fresh
<1> QED
  BY <1>1, <1>2, <1>3, <1>4, RunKeeps

LEMMA BatchReloadStep == ASSUME BatchInv, NEW t \in Thread, N!Reload(t) PROVE BatchInv'
<1> USE DEF BatchInv
<1>1. /\ batchRun[t].pc = "claimed"
      /\ UNCHANGED <<batchRow, batchKey, wrote, current, crossed, lost>>
  BY DEF N!Reload, N!files
<1>2. batchRun[t] \in BatchRunRec /\ RunShape(t)
  BY DEF BatchTyped, BatchShape
<1>3. PICK j \in N!Job : j = batchRun[t].job
  BY <1>1, <1>2 DEF RunShape
<1>4. CASE N!Holds(t)
  <2> DEFINE r == [batchRun[t] EXCEPT !.pc = "loaded", !.ids = batchRow[j].ids]
  <2>1. batchRun' = [batchRun EXCEPT ![t] = r]
    BY <1>3, <1>4 DEF N!Reload
  <2>2. batchRow[j].ids \in SUBSET Path
    BY DEF BatchTyped, BatchRowRec
  <2>3. /\ r \in BatchRunRec
        /\ r.pc = "loaded" /\ r.job = j /\ r.ids = batchRow[j].ids /\ r.old = {}
    BY <1>1, <1>2, <1>3, <2>2 DEF BatchRunRec, N!Pc, RunShape
  <2>4. batchRun'[t] = r
    BY <2>1 DEF BatchTyped
  <2> HIDE DEF r
  <2>5. RunShape(t)'
    BY <1>1, <2>3, <2>4 DEF RunShape
  <2> QED
    BY <1>1, <1>3, <2>1, <2>3, <2>5, QuietRunKeeps
<1>5. CASE ~ N!Holds(t)
  <2>1. batchRun' = [batchRun EXCEPT ![t] = N!Idle]
    BY <1>5 DEF N!Reload
  <2>2. batchRun' \in [Thread -> BatchRunRec]
    BY <2>1, IdleRuns DEF BatchTyped
  <2>3. \A u \in Thread : /\ batchRun'[u] = batchRun[u] \/ batchRun'[u] = N!Idle
                          /\ batchRun'[u] # batchRun[u] => u = t
    BY <2>1 DEF BatchTyped
  <2>4. batchRow' = N!SetRows({}, "done")
    BY <1>1 DEF N!SetRows, BatchTyped
  <2>5. \A u \in Thread : batchRun'[u] # batchRun[u] /\ N!Holds(u) => batchRun[u].job \in {}
    BY <1>5, <2>3
  <2> QED
    BY <1>1, <2>2, <2>3, <2>4, <2>5, ReleaseKeeps
<1> QED
  BY <1>4, <1>5

LEMMA BatchTakeKeyStep == ASSUME BatchInv, NEW t \in Thread, N!TakeKey(t) PROVE BatchInv'
<1> USE DEF BatchInv
<1> DEFINE r == [batchRun[t] EXCEPT !.pc = "writing"]
<1>1. /\ batchRun[t].pc = "loaded"
      /\ \A u \in Thread \ {t} : N!HasKey(u) => batchRun[u].job # batchRun[t].job
      /\ batchRun' = [batchRun EXCEPT ![t] = r]
      /\ UNCHANGED <<batchRow, batchKey, wrote, current, crossed, lost>>
  BY DEF N!TakeKey, N!files, BatchTyped
<1>2. batchRun[t] \in BatchRunRec /\ RunShape(t)
  BY DEF BatchTyped, BatchShape
<1>3. /\ r \in BatchRunRec /\ r.pc = "writing" /\ r.job = batchRun[t].job
      /\ r.ids = batchRun[t].ids /\ r.old = {}
  BY <1>1, <1>2 DEF BatchRunRec, N!Pc, RunShape
<1>4. batchRun'[t] = r
  BY <1>1 DEF BatchTyped
<1> HIDE DEF r
<1>5. RunShape(t)'
  BY <1>1, <1>2, <1>3, <1>4 DEF RunShape, N!Holds
<1> QED
  BY <1>1, <1>3, <1>5, QuietRunKeeps

LEMMA BatchRaiseStep == ASSUME BatchInv, NEW t \in Thread, N!Raise(t) PROVE BatchInv'
<1> USE DEF BatchInv
<1> DEFINE r == [pc |-> "err", job |-> batchRun[t].job, ids |-> {}, old |-> {}]
<1>1. /\ batchRun[t].pc \in {"loaded", "writing", "written"}
      /\ batchRun' = [batchRun EXCEPT ![t] = r]
      /\ UNCHANGED <<batchRow, batchKey, wrote, current, crossed, lost>>
  BY DEF N!Raise, N!Return, N!files
<1>2. batchRun[t] \in BatchRunRec /\ RunShape(t)
  BY DEF BatchTyped, BatchShape
<1>3. r \in BatchRunRec /\ batchRun'[t] = r
  BY <1>1, <1>2 DEF BatchTyped, BatchRunRec, N!Pc
<1>4. RunShape(t)'
  BY <1>1, <1>2, <1>3 DEF RunShape
<1> QED
  BY <1>1, <1>3, <1>4, QuietRunKeeps

\* What a skip does not write and an earlier run of the row has not written
\* is lost.
LEMMA BatchSkipStep == ASSUME BatchInv, NEW t \in Thread, N!Skip(t) PROVE BatchInv'
<1> USE DEF BatchInv
<1> DEFINE r == [pc |-> "ok", job |-> batchRun[t].job, ids |-> {}, old |-> {}]
<1>1. /\ batchRun[t].pc = "loaded"
      /\ batchRun' = [batchRun EXCEPT ![t] = r]
      /\ lost' = IF N!Holds(t) THEN lost \union (batchRun[t].ids \ wrote[batchRun[t].job]) ELSE lost
      /\ UNCHANGED <<batchRow, batchKey, wrote, current, crossed>>
  BY DEF N!Skip, N!Return
<1>2. batchRun[t] \in BatchRunRec /\ RunShape(t) /\ batchRun[t].job \in N!Job
  BY <1>1 DEF BatchTyped, BatchShape, RunShape
<1>3. r \in BatchRunRec /\ batchRun'[t] = r
  BY <1>1, <1>2 DEF BatchTyped, BatchRunRec, N!Pc
<1>4. RunShape(t)'
  BY <1>1, <1>2, <1>3 DEF RunShape
<1>5. lost' \subseteq Path /\ \A i \in Path : Settled(i) => Settled(i)'
  BY <1>1, <1>2 DEF BatchTyped, BatchRunRec, Settled
<1>6. /\ \A j \in N!Job : wrote'[j] \subseteq batchRow[j].ids
      /\ batchKey' \subseteq N!Job /\ wrote' \in [N!Job -> SUBSET Path]
      /\ current' \subseteq Path /\ crossed' \subseteq Path
  BY <1>1 DEF BatchShape, RowShape, BatchTyped
<1>7. ASSUME NEW i \in Path, NEW j \in N!Job, Fresh(i, j), batchRow[j].claim = t, r.job = j
      PROVE  Settled(i)'
  <2>1. N!Holds(t) /\ batchRun[t].ids = batchRow[j].ids
    BY <1>1, <1>2, <1>7 DEF RunShape, N!Holds
  <2>2. i \in batchRun[t].ids \ wrote[j]
    BY <1>7, <2>1 DEF Fresh, N!Due
  <2> QED
    BY <1>1, <1>7, <2>1, <2>2 DEF Settled
<1>8. \A i \in Path, j \in N!Job : Fresh(i, j) =>
        \/ Settled(i)'
        \/ /\ i \notin wrote'[j]
           /\ r.pc = "written" /\ r.job = j => i \notin r.ids
           /\ batchRow[j].claim = t /\ r.job = j =>
                \/ r.pc \in {"claimed", "loaded", "err"}
                \/ r.pc = "writing" /\ i \notin r.old
  BY <1>1, <1>7 DEF Fresh
<1>9. batchRow' = batchRow /\ r.job = batchRun[t].job /\ r.pc \notin {"writing", "written"}
  BY <1>1
<1> HIDE DEF r
<1> QED
  BY <1>1, <1>3, <1>4, <1>5, <1>6, <1>8, <1>9, RunKeeps

LEMMA BatchWriteStep == ASSUME BatchInv, NEW t \in Thread, N!Write(t) PROVE BatchInv'
<1> USE DEF BatchInv
<1> DEFINE r == [batchRun[t] EXCEPT !.pc = "written", !.old = {}]
<1>1. /\ batchRun[t].pc = "writing"
      /\ batchRun' = [batchRun EXCEPT ![t] = r]
      /\ current' = (current \union batchRun[t].ids) \ batchRun[t].old
      /\ crossed' = (crossed \ batchRun[t].ids) \union batchRun[t].old
      /\ lost' = lost \ batchRun[t].ids
      /\ UNCHANGED <<batchRow, batchKey, wrote>>
  BY DEF N!Write, BatchTyped
<1>2. batchRun[t] \in BatchRunRec /\ RunShape(t) /\ batchRun[t].job \in N!Job
  BY <1>1 DEF BatchTyped, BatchShape, RunShape
<1>3. /\ r \in BatchRunRec /\ batchRun'[t] = r
      /\ r.pc = "written" /\ r.job = batchRun[t].job /\ r.ids = batchRun[t].ids
  BY <1>1, <1>2 DEF BatchTyped, BatchRunRec, N!Pc
<1> HIDE DEF r
<1>4. RunShape(t)'
  BY <1>1, <1>2, <1>3 DEF RunShape, N!Holds
<1>5. /\ current' \subseteq Path /\ crossed' \subseteq Path /\ lost' \subseteq Path
      /\ \A i \in Path : i \in batchRun[t].ids \/ Settled(i) => Settled(i)'
  BY <1>1, <1>2 DEF BatchTyped, BatchRunRec, Settled
<1>6. /\ \A j \in N!Job : wrote'[j] \subseteq batchRow[j].ids
      /\ batchKey' \subseteq N!Job /\ wrote' \in [N!Job -> SUBSET Path]
  BY <1>1 DEF BatchShape, RowShape, BatchTyped
<1>7. ASSUME NEW i \in Path, NEW j \in N!Job, Fresh(i, j), batchRow[j].claim = t, r.job = j
      PROVE  Settled(i)'
  <2>1. N!Holds(t) /\ batchRun[t].ids = batchRow[j].ids
    BY <1>1, <1>2, <1>3, <1>7 DEF RunShape, N!Holds
  <2>2. i \in batchRun[t].ids
    BY <1>7, <2>1 DEF Fresh, N!Due
  <2> QED
    BY <1>5, <2>2
<1>8. ASSUME NEW i \in Path, NEW j \in N!Job, Fresh(i, j)
      PROVE \/ Settled(i)'
            \/ /\ i \notin wrote'[j]
               /\ r.pc = "written" /\ r.job = j => i \notin r.ids
               /\ batchRow[j].claim = t /\ r.job = j =>
                    \/ r.pc \in {"claimed", "loaded", "err"}
                    \/ r.pc = "writing" /\ i \notin r.old
  BY <1>1, <1>3, <1>5, <1>7, <1>8 DEF Fresh
<1>9. /\ batchRow' = batchRow
      /\ \A u \in Thread \ {t} : N!HasKey(u) => batchRun[u].job # r.job
  BY <1>1, <1>3 DEF N!OneWriter, N!HasKey
<1> QED
  BY <1>1, <1>3, <1>4, <1>5, <1>6, <1>8, <1>9, RunKeeps

LEMMA BatchCommitStep == ASSUME BatchInv, NEW t \in Thread, N!Commit(t) PROVE BatchInv'
<1> USE DEF BatchInv
<1> DEFINE r == [pc |-> "ok", job |-> batchRun[t].job, ids |-> {}, old |-> {}]
<1>0. PICK k \in N!Job : k = batchRun[t].job
  BY DEF N!Commit, BatchShape, RunShape
<1>1. /\ batchRun[t].pc = "written"
      /\ batchRun' = [batchRun EXCEPT ![t] = r]
      /\ batchKey' = batchKey \union {k}
      /\ wrote' = [wrote EXCEPT ![k] = @ \union batchRun[t].ids]
      /\ UNCHANGED <<batchRow, current, crossed, lost>>
  BY <1>0 DEF N!Commit, N!Return
<1>2. batchRun[t] \in BatchRunRec /\ RunShape(t)
  BY DEF BatchTyped, BatchShape
<1>3. r \in BatchRunRec /\ batchRun'[t] = r
  BY <1>1, <1>2 DEF BatchTyped, BatchRunRec, N!Pc
<1>4. RunShape(t)'
  BY <1>0, <1>1, <1>2, <1>3 DEF RunShape
<1>5. /\ wrote' \in [N!Job -> SUBSET Path]
      /\ wrote'[k] = wrote[k] \union batchRun[t].ids
      /\ \A j \in N!Job \ {k} : wrote'[j] = wrote[j]
  BY <1>1, <1>2 DEF BatchTyped, BatchRunRec
<1>6. /\ \A j \in N!Job : wrote'[j] \subseteq batchRow[j].ids
      /\ batchKey' \subseteq N!Job
      /\ current' \subseteq Path /\ crossed' \subseteq Path /\ lost' \subseteq Path
      /\ \A i \in Path : Settled(i) => Settled(i)'
  BY <1>0, <1>1, <1>2, <1>5 DEF BatchShape, RowShape, RunShape, BatchTyped, Settled
<1>7. ASSUME NEW i \in Path, NEW j \in N!Job, Fresh(i, j)
      PROVE  i \notin wrote'[j] /\ ~ (batchRow[j].claim = t /\ batchRun[t].job = j)
  <2>1. i \notin wrote'[j]
    BY <1>0, <1>1, <1>5, <1>7 DEF Fresh
  <2>2. ASSUME batchRow[j].claim = t, batchRun[t].job = j PROVE FALSE
    <3>1. N!Holds(t)
      BY <2>2 DEF N!Holds
    <3>2. batchRun[t].ids = batchRow[j].ids
      BY <1>1, <1>2, <2>2, <3>1 DEF RunShape
    <3> QED
      BY <1>1, <1>7, <2>2, <3>2 DEF Fresh, N!Due
  <2> QED
    BY <2>1, <2>2
<1>8. /\ \A i \in Path, j \in N!Job : Fresh(i, j) =>
           /\ i \notin wrote'[j]
           /\ r.pc = "written" /\ r.job = j => i \notin r.ids
           /\ batchRow[j].claim = t /\ r.job = j =>
                \/ r.pc \in {"claimed", "loaded", "err"}
                \/ r.pc = "writing" /\ i \notin r.old
      /\ r.job = batchRun[t].job /\ r.pc \notin {"writing", "written"}
      /\ batchRow' = batchRow
  BY <1>1, <1>7
<1> HIDE DEF r
<1> QED
  BY <1>1, <1>3, <1>4, <1>5, <1>6, <1>8, RunKeeps

LEMMA BatchStep == ASSUME BatchInv, N!Next PROVE BatchInv'
<1>1. ASSUME NEW S \in (SUBSET Path) \ {{}}, N!Request(S) PROVE BatchInv'
  BY <1>1, BatchRequestStep
<1>2. ASSUME NEW L \in SUBSET N!Job, N!Cancel(L) PROVE BatchInv'
  BY <1>2, BatchCancelStep
<1>3. ASSUME NEW t \in Thread, N!Step(t) PROVE BatchInv'
  BY <1>3, BatchClaimStep, BatchReloadStep, BatchTakeKeyStep, BatchSkipStep, BatchWriteStep,
     BatchCommitStep, BatchRaiseStep, BatchFinishStep DEF N!Step
<1>4. ASSUME NEW j \in N!Job, N!Reap(j) PROVE BatchInv'
  BY <1>4, BatchReapStep
<1> QED
  BY <1>1, <1>2, <1>3, <1>4, BatchSweepStep, BatchRestartStep DEF N!Next

LEMMA BatchStutter == ASSUME BatchInv, UNCHANGED batchVars PROVE BatchInv'
<1>1. UNCHANGED <<batchRow, batchKey, batchRun, wrote, current, crossed, lost>>
  BY DEF batchVars
<1>2. BatchTyped' /\ BatchShape'
  BY <1>1 DEF BatchInv, BatchTyped, BatchShape, RowShape, RunShape, N!Holds
<1>3. N!OneWriter' /\ FreshOrSettled'
  BY <1>1 DEF BatchInv, N!OneWriter, N!HasKey, FreshOrSettled, Settled, Fresh, N!Due
<1> QED
  BY <1>2, <1>3 DEF BatchInv

LEMMA KeyedInit == InitKeyed => BatchInv
BY BatchInit DEF InitKeyed

LEMMA KeyedStep == BatchInv /\ [NextKeyed]_<<kind, vars, batchVars>> => BatchInv'
BY BatchStep, BatchStutter DEF NextKeyed

-----------------------------------------------------------------------------
\* Rows, runs and sidecars of nfo_refresh stay as the parts above say, in every
\* reachable state (enqueue_batched_placeholder_job, process_nfo_refresh_job).
THEOREM BatchInvariant == SpecKeyed => []BatchInv
BY KeyedInit, KeyedStep, PTL DEF SpecKeyed

\* Two runs of the same nfo_refresh row never write at the same time, for any
\* number of threads, reaps and restarts: the second INSERT of the key waits
\* for the first to commit (try_claim_processed_key).
THEOREM BatchOneWriter == SpecKeyed => []OneWriter
<1>1. BatchInv => OneWriter
  BY DEF BatchInv, OneWriter
<1> QED
  BY <1>1, BatchInvariant, PTL

\* No request for a sidecar is lost, for any number of placeholders, rows,
\* threads and faults and any batch size: what is not current is due, but for the
\* two exceptions (enqueue_batched_placeholder_job, process_nfo_refresh_job).
THEOREM BatchCurrentOrDue == SpecKeyed => []CurrentOrDue
<1>1. BatchInv => CurrentOrDue
  BY DEF BatchInv, FreshOrSettled, Settled, Fresh, CurrentOrDue, N!CurrentOrDue
<1> QED
  BY <1>1, BatchInvariant, PTL

\* The media_refresh jobs of a behavior with both kinds are those of MediaRefresh,
\* so that the theorems above hold of them.
THEOREM KeyedIsRefresh == SpecKeyed => Spec
<1>1. InitKeyed => Init
  BY DEF InitKeyed
<1>2. [NextKeyed]_<<kind, vars, batchVars>> => [Next]_vars
  BY DEF NextKeyed
<1> QED
  BY <1>1, <1>2, PTL DEF SpecKeyed, Spec
=============================================================================
