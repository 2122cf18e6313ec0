----------------------------- MODULE SyncProofs -----------------------------
(***************************************************************************)
(* When the syncs run and what a sync does to the rows.  SyncRuns, for any *)
(* number of asking threads and faults: types, the pipeline lock, the full *)
(* sync's flag, what a lite run may enter, the order of the boot, and the  *)
(* owed syncs.  CatalogSync, for any titles, episodes and settings and any *)
(* number of changes, failed requests, crashes, jobs and toggles: types,   *)
(* what is marked deleted, and the result of an undisturbed sync.          *)
(***************************************************************************)
EXTENDS SyncRuns, CatalogSync, FiniteSetTheorems, TLAPS

Runs == [task : {"none", "full", "lite", "calendar", "arr"}, pc : Pc,
         row : {"none", "working"}, raced : BOOLEAN]

RunsOK ==
  /\ run \in [Actor -> Runs]
  /\ \A a \in Actor : run[a].row = "working" => run[a].pc # "over"

RestOK ==
  /\ followUp \in BOOLEAN /\ fullFlag \in BOOLEAN /\ pipeline \in BOOLEAN
  /\ syncRow \in BOOLEAN /\ workersGate \in BOOLEAN
  /\ scheduler \in BOOLEAN /\ firstRun \in BOOLEAN
  /\ saved \in [Timed -> {"due", "ahead"}]
  /\ owed \subseteq Timed /\ excused \subseteq owed
  /\ past \subseteq {"overlap", "leaked", "denied", "watchdog", "unscheduled"}
  /\ asks \in 0..MaxAsks /\ faults \in 0..MaxFaults

LEMMA TypeParts == TypeOK <=> RunsOK /\ RestOK
BY DEF TypeOK, RunsOK, RestOK, Active, Runs

LEMMA Names ==
  /\ "boot" \notin Runner /\ "arr" \notin Runner
  /\ Runner \subseteq Actor /\ "boot" \in Actor /\ "arr" \in Actor
BY RunsAssumption DEF Runner, Timed, Actor

LEMMA EndedRun ==
  /\ Ended \in Runs /\ Ended.row = "none" /\ Ended.pc = "over"
  /\ Ended.task = "none"
BY DEF Ended, Runs, Pc

LEMMA FreshRun ==
  ASSUME NEW task \in {"none", "full", "lite", "calendar", "arr"}, NEW p \in Pc
  PROVE  /\ Fresh(task, p) \in Runs /\ Fresh(task, p).row = "none"
         /\ Fresh(task, p).pc = p /\ Fresh(task, p).task = task
BY DEF Fresh, Ended, Runs

LEMMA BumpType ==
  ASSUME RestOK, NEW T \in SUBSET Timed, Bump(T)
  PROVE  /\ saved' \in [Timed -> {"due", "ahead"}]
         /\ owed' \subseteq Timed /\ excused' \subseteq owed'
BY DEF RestOK, Bump

LEMMA StartType ==
  ASSUME RestOK, StartScheduler
  PROVE  /\ saved' \in [Timed -> {"due", "ahead"}]
         /\ owed' \subseteq Timed /\ excused' \subseteq owed'
         /\ scheduler' \in BOOLEAN
BY DEF RestOK, StartScheduler, clocks

LEMMA FaultType ==
  ASSUME RestOK, Fault PROVE faults' \in 0..MaxFaults
BY RunsAssumption DEF RestOK, Fault

-----------------------------------------------------------------------------
LEMMA InitTyped == Init => RunsOK /\ RestOK
<1> SUFFICES ASSUME Init PROVE RunsOK /\ RestOK
  OBVIOUS
<1>1. RunsOK
  <2>1. Fresh("none", "gate") \in Runs /\ Fresh("none", "decide") \in Runs
    BY FreshRun DEF Pc
  <2>2. Fresh("none", "gate").row = "none" /\ Fresh("none", "decide").row = "none"
    BY FreshRun DEF Pc
  <2> QED
    BY <2>1, <2>2, EndedRun DEF Init, RunsOK
<1>2. RestOK
  <2>1. owed \subseteq Timed /\ excused \subseteq owed /\ past = {}
    BY DEF Init
  <2>2. asks \in 0..MaxAsks /\ faults \in 0..MaxFaults
    BY RunsAssumption DEF Init
  <2> QED
    BY <2>1, <2>2 DEF Init, RestOK
<1> QED
  BY <1>1, <1>2

LEMMA FullTyped ==
  ASSUME RunsOK, RestOK, NEW a \in Runner,
         Full(a) \/ FullBeginFails(a) \/ FullFails(a)
  PROVE  RunsOK' /\ RestOK'
<1>0. a \in Actor
  BY Names
<1>1. CASE FullBegins(a)
  <2>1. RunsOK'
    BY <1>0, <1>1
    DEF FullBegins, RunsOK, Runs, Pc
  <2>2. RestOK'
    BY <1>1
    DEF FullBegins, RestOK, sync, clocks
  <2> QED
    BY <2>1, <2>2
<1>2. CASE FullAcquires(a)
  <2>1. RunsOK'
    BY <1>0, <1>2
    DEF FullAcquires, RunsOK, Runs, Pc
  <2>2. RestOK'
    BY <1>2
    DEF FullAcquires, RestOK, sync, clocks
  <2> QED
    BY <2>1, <2>2
<1>3. CASE FullReleases(a)
  <2>1. RunsOK'
    BY <1>0, <1>3
    DEF FullReleases, RunsOK, Runs, Pc
  <2>2. RestOK'
    BY <1>3
    DEF FullReleases, RestOK, sync, clocks
  <2> QED
    BY <2>1, <2>2
<1>4. CASE FullEnds(a)
  <2>1. RunsOK'
    BY <1>0, <1>4, EndedRun
    DEF FullEnds, EndFullSync, RunsOK, Active, Pc
  <2>2. RestOK'
    BY <1>4, BumpType
    DEF FullEnds, EndFullSync, RestOK, sync, clocks, Timed
  <2> QED
    BY <2>1, <2>2
<1>5. CASE FullBeginFails(a)
  <2>1. RunsOK'
    BY <1>0, <1>5, EndedRun
    DEF FullBeginFails, RunsOK, Active, Pc
  <2>2. RestOK'
    BY <1>5, FaultType
    DEF FullBeginFails, RestOK, sync, clocks
  <2> QED
    BY <2>1, <2>2
<1>6. CASE FullFails(a)
  <2>1. RunsOK'
    BY <1>0, <1>6, EndedRun
    DEF FullFails, EndFullSync, RunsOK, Active, Pc
  <2>2. RestOK'
    BY <1>6, FaultType
    DEF FullFails, EndFullSync, RestOK, sync, clocks
  <2> QED
    BY <2>1, <2>2
<1> QED
  BY <1>1, <1>2, <1>3, <1>4, <1>5, <1>6 DEF Full

LEMMA MinorTyped ==
  ASSUME RunsOK, RestOK, NEW a \in Runner,
         Lite(a) \/ MinorBeginFails(a) \/ MinorFails(a)
  PROVE  RunsOK' /\ RestOK'
<1>0. a \in Actor
  BY Names
<1>1. CASE MinorLooks(a)
  <2>1. RunsOK'
    BY <1>0, <1>1, EndedRun
    DEF MinorLooks, RunsOK, Runs, Pc
  <2>2. RestOK'
    BY <1>1
    DEF MinorLooks, RestOK, sync, clocks
  <2> QED
    BY <2>1, <2>2
<1>2. CASE MinorTries(a)
  <2>1. RunsOK'
    BY <1>0, <1>2, EndedRun
    DEF MinorTries, RunsOK, Runs, Pc
  <2>2. RestOK'
    BY <1>2
    DEF MinorTries, RestOK, sync, clocks
  <2> QED
    BY <2>1, <2>2
<1>3. CASE MinorEnds(a)
  <2>1. RunsOK'
    BY <1>0, <1>3, EndedRun
    DEF MinorEnds, RunsOK, Active, Pc
  <2>2. RestOK'
    BY <1>3, BumpType
    DEF MinorEnds, RestOK, sync, clocks, Timed
  <2> QED
    BY <2>1, <2>2
<1>4. CASE MinorBeginFails(a)
  <2>1. RunsOK'
    BY <1>0, <1>4, EndedRun
    DEF MinorBeginFails, RunsOK, Active, Pc
  <2>2. RestOK'
    BY <1>4, FaultType
    DEF MinorBeginFails, RestOK, sync, clocks
  <2> QED
    BY <2>1, <2>2
<1>5. CASE MinorFails(a)
  <2>1. RunsOK'
    BY <1>0, <1>5, EndedRun
    DEF MinorFails, RunsOK, Active, Pc
  <2>2. RestOK'
    BY <1>5, FaultType
    DEF MinorFails, RestOK, sync, clocks
  <2> QED
    BY <2>1, <2>2
<1> QED
  BY <1>1, <1>2, <1>3, <1>4, <1>5 DEF Lite

LEMMA BootTyped ==
  ASSUME RunsOK, RestOK,
         Boot \/ BootFails \/ BootHangs \/ BootEndsUnscheduled \/ Watchdog
  PROVE  RunsOK' /\ RestOK'
<1>0. "boot" \in Actor
  BY Names
<1>1. CASE BootGate
  <2>1. RunsOK'
    BY <1>0, <1>1, EndedRun, FreshRun
    DEF BootGate, RunsOK, Active, Pc
  <2>2. RestOK'
    BY <1>1
    DEF BootGate, RestOK, sync, clocks
  <2> QED
    BY <2>1, <2>2
<1>2. CASE BootDecides
  <2>1. \A s \in {"off", "lite", "full"} : BootMode(s) \in {"off", "lite", "full"}
    BY DEF BootMode
  <2>2. PICK m \in {"off", "lite", "full"} :
          run' = [run EXCEPT !["boot"] =
                    IF m = "off" THEN Fresh("none", "ending")
                    ELSE [Fresh(m, "section") EXCEPT !.row = "working"]]
    BY <1>2, <2>1 DEF BootDecides
  <2>3. RunsOK'
    BY <1>0, <2>2 DEF RunsOK, Runs, Pc, Fresh, Ended
  <2>4. RestOK'
    BY <1>2 DEF BootDecides, RestOK, sync, clocks
  <2> QED
    BY <2>3, <2>4
<1>3. CASE BootDone
  <2>1. RunsOK'
    BY <1>0, <1>3
    DEF BootDone, RunsOK, Runs, Pc
  <2>2. RestOK'
    BY <1>3, BumpType
    DEF BootDone, RestOK, sync, clocks, Timed
  <2> QED
    BY <2>1, <2>2
<1>4. CASE BootEnds
  <2>1. RunsOK'
    BY <1>0, <1>4, EndedRun
    DEF BootEnds, RunsOK, Active, Pc
  <2>2. RestOK'
    BY <1>4, StartType
    DEF BootEnds, RestOK, sync, clocks
  <2> QED
    BY <2>1, <2>2
<1>5. CASE BootFails \/ BootHangs
  <2>1. RunsOK'
    BY <1>0, <1>5
    DEF BootFails, BootHangs, RunsOK, Runs, Pc
  <2>2. RestOK'
    BY <1>5, FaultType
    DEF BootFails, BootHangs, RestOK, sync, clocks
  <2> QED
    BY <2>1, <2>2
<1>6. CASE BootEndsUnscheduled
  <2>1. RunsOK'
    BY <1>0, <1>6, EndedRun
    DEF BootEndsUnscheduled, RunsOK, Active, Pc
  <2>2. RestOK'
    BY <1>6, FaultType
    DEF BootEndsUnscheduled, RestOK, sync, clocks
  <2> QED
    BY <2>1, <2>2
<1>7. CASE Watchdog
  <2>1. RunsOK'
    BY <1>0, <1>7
    DEF Watchdog, RunsOK, Runs, Pc
  <2>2. RestOK'
    BY <1>7
    DEF Watchdog, RestOK, sync, clocks
  <2> QED
    BY <2>1, <2>2
<1> QED
  BY <1>1, <1>2, <1>3, <1>4, <1>5, <1>6, <1>7 DEF Boot

LEMMA WorldTyped ==
  ASSUME RunsOK, RestOK,
         \/ FollowUpsEnd \/ ArrChanges \/ ArrEnds \/ Poll
         \/ \E t \in Timed : Elapse(t)
         \/ \E m \in Manual, task \in {"full", "lite", "calendar"} : Ask(m, task)
         \/ AbandonRows \/ Restart
  PROVE  RunsOK' /\ RestOK'
<1>0. "arr" \in Actor /\ Timed \subseteq Actor /\ Manual \subseteq Actor
  BY Names DEF Runner
<1>1. CASE FollowUpsEnd
  <2>1. RunsOK'
    BY <1>0, <1>1
    DEF FollowUpsEnd, RunsOK
  <2>2. RestOK'
    BY <1>1, BumpType
    DEF FollowUpsEnd, RestOK, sync, clocks, Timed
  <2> QED
    BY <2>1, <2>2
<1>2. CASE ArrChanges
  <2>0. Fresh("arr", "section") \in Runs /\ Fresh("arr", "section").row = "none"
    BY FreshRun DEF Pc
  <2>1. RunsOK'
    BY <1>0, <1>2, <2>0 DEF ArrChanges, RunsOK
  <2>2. RestOK'
    <3>1. asks' \in 0..MaxAsks
      BY <1>2, RunsAssumption DEF ArrChanges, RestOK
    <3>2. syncRow' \in BOOLEAN
      BY <1>2, Zenon DEF ArrChanges, RestOK
    <3> QED
      BY <1>2, <3>1, <3>2 DEF ArrChanges, RestOK, clocks
  <2> QED
    BY <2>1, <2>2
<1>3. CASE ArrEnds
  <2>1. RunsOK'
    BY <1>0, <1>3, EndedRun
    DEF ArrEnds, RunsOK, Active, Pc
  <2>2. RestOK'
    BY <1>3, StartType
    DEF ArrEnds, RestOK, sync, clocks
  <2> QED
    BY <2>1, <2>2
<1>4. CASE Poll
  <2>1. RunsOK'
    BY <1>0, <1>4
    DEF Poll, RunsOK
  <2>2. RestOK'
    BY <1>4
    DEF Poll, RestOK, sync, clocks
  <2> QED
    BY <2>1, <2>2
<1>5. ASSUME NEW t \in Timed, Elapse(t) PROVE RunsOK' /\ RestOK'
  <2>0. Fresh(t, "start") \in Runs /\ Fresh(t, "start").row = "none"
    BY FreshRun DEF Pc, Timed
  <2>1. RunsOK'
    BY <1>0, <1>5, <2>0 DEF Elapse, RunsOK
  <2>2. RestOK'
    BY <1>5
    DEF Elapse, RestOK, sync, clocks
  <2> QED
    BY <2>1, <2>2
<1>6. ASSUME NEW m \in Manual, NEW task \in {"full", "lite", "calendar"},
             Ask(m, task)
      PROVE  RunsOK' /\ RestOK'
  <2>1. RunsOK'
    BY <1>0, <1>6, FreshRun
    DEF Ask, RunsOK, Active, Pc
  <2>2. RestOK'
    BY <1>6, RunsAssumption
    DEF Ask, RestOK, sync, clocks
  <2> QED
    BY <2>1, <2>2
<1>7. CASE AbandonRows
  <2>1. RunsOK'
    BY <1>0, <1>7
    DEF AbandonRows, RunsOK, Runs
  <2>2. RestOK'
    BY <1>7, FaultType
    DEF AbandonRows, RestOK, sync, clocks
  <2> QED
    BY <2>1, <2>2
<1>8. CASE Restart
  <2>1. RunsOK'
    BY <1>0, <1>8, EndedRun, FreshRun
    DEF Restart, RunsOK, Active, Pc
  <2>2. RestOK'
    BY <1>8, FaultType
    DEF Restart, RestOK, sync, clocks
  <2> QED
    BY <2>1, <2>2
<1> QED
  BY <1>1, <1>2, <1>3, <1>4, <1>5, <1>6, <1>7, <1>8

LEMMA NextTyped == RunsOK /\ RestOK /\ [Next]_vars => RunsOK' /\ RestOK'
<1> SUFFICES ASSUME RunsOK, RestOK, [Next]_vars PROVE RunsOK' /\ RestOK'
  OBVIOUS
<1>1. CASE UNCHANGED vars
  BY <1>1 DEF vars, sync, clocks, RunsOK, RestOK
<1> QED
  BY <1>1, FullTyped, MinorTyped, BootTyped, WorldTyped DEF Next, Step

\* Every variable keeps its type, and only running threads have working rows.
THEOREM RunsTyped == Spec => []TypeOK
<1>1. Spec => [](RunsOK /\ RestOK)
  BY InitTyped, NextTyped, PTL DEF Spec
<1> QED
  BY <1>1, TypeParts, PTL

-----------------------------------------------------------------------------
(***************************************************************************)
(* The pipeline lock and the full-sync flag.                               *)
(***************************************************************************)
Typed == RunsOK /\ RestOK

LockOK ==
  /\ \A a, b \in InSection : a = b
  /\ InSection # {} => pipeline
  /\ pipeline => InSection # {} \/ "leaked" \in past

FlagOK ==
  /\ FullSyncs # {} => fullFlag \/ "overlap" \in past
  /\ "overlap" \in past \/ \A a, b \in FullSyncs : a = b

\* Who tries for the lock has seen no full sync, or one began meanwhile.
TriesOK ==
  \A a \in Runner :
    run[a].pc = "try" => FullSyncs = {} \/ run[a].raced \/ "overlap" \in past

Apart == LockOK /\ FlagOK /\ TriesOK

Under(r) == r.task = "full" /\ r.pc \in {"arr", "section", "after"}

\* Steps that concern no thread between its begin and its end.
LEMMA Away ==
  ASSUME Apart, UNCHANGED <<pipeline, fullFlag>>, past \subseteq past',
         \A a \in Runner :
           \/ /\ run'[a].task = run[a].task /\ run'[a].pc = run[a].pc
              /\ run'[a].raced = run[a].raced
           \/ run[a].pc \in {"over", "start"} /\ run'[a].pc \in {"over", "start"}
  PROVE  Apart'
<1>1. InSection' = InSection /\ FullSyncs' = FullSyncs
  BY DEF InSection, FullSyncs
<1>2. LockOK' /\ FlagOK'
  BY <1>1 DEF Apart, LockOK, FlagOK
<1>3. TriesOK'
  BY <1>1 DEF Apart, TriesOK
<1> QED
  BY <1>2, <1>3 DEF Apart

\* Steps of one thread.
Moves(a) == \A x \in Runner \ {a} : run'[x] = run[x]

LEMMA Moved ==
  ASSUME NEW a \in Runner, Moves(a)
  PROVE  /\ run'[a].pc = "section" => InSection' = InSection \cup {a}
         /\ run'[a].pc # "section" => InSection' = InSection \ {a}
         /\ Under(run'[a]) => FullSyncs' = FullSyncs \cup {a}
         /\ ~Under(run'[a]) => FullSyncs' = FullSyncs \ {a}
BY DEF Moves, InSection, FullSyncs, Under

\* What keeps those who try for the lock.
LEMMA TriesKept ==
  ASSUME TriesOK, NEW a \in Runner, Moves(a), run'[a].pc # "try",
         FullSyncs' = FullSyncs, past \subseteq past'
  PROVE  TriesOK'
BY DEF TriesOK, Moves

\* It ends.
LEMMA EndsMove ==
  ASSUME Typed, NEW a \in Runner, run' = [run EXCEPT ![a] = Ended]
  PROVE  /\ Moves(a) /\ run'[a].pc = "over"
         /\ InSection' = InSection \ {a} /\ FullSyncs' = FullSyncs \ {a}
<1>1. a \in Actor /\ Runner \subseteq Actor
  BY Names
<1>2. Moves(a) /\ run'[a] = Ended
  BY <1>1 DEF Moves, Typed, RunsOK
<1> QED
  BY <1>2, Moved, EndedRun DEF Under

LEMMA FullApart ==
  ASSUME Typed, Apart, NEW a \in Runner,
         Full(a) \/ FullBeginFails(a) \/ FullFails(a)
  PROVE  Apart'
<1>0. a \in Actor /\ Runner \subseteq Actor
  BY Names
<1>1. CASE FullBegins(a)
  <2>1. /\ \A x \in Runner : run'[x].task = run[x].task
        /\ \A x \in Runner \ {a} : run'[x].pc = run[x].pc
        /\ run'[a].pc = "arr"
        /\ \A x \in Runner : run[x].pc = "try" => run'[x].raced
    BY <1>0, <1>1 DEF FullBegins, Typed, RunsOK, Runs
  <2>2. run[a].task = "full" /\ run[a].pc = "start"
    BY <1>1 DEF FullBegins
  <2>3. InSection' = InSection /\ FullSyncs' = FullSyncs \cup {a}
    BY <2>1, <2>2 DEF InSection, FullSyncs
  <2>4. LockOK'
    BY <1>1, <2>3 DEF FullBegins, Apart, LockOK
  <2>5. FlagOK'
    BY <1>1, <2>3 DEF FullBegins, Apart, FlagOK
  <2>6. TriesOK'
    BY <2>1 DEF TriesOK
  <2> QED
    BY <2>4, <2>5, <2>6 DEF Apart
<1>2. CASE FullAcquires(a)
  <2>1. Moves(a) /\ run'[a].pc = "section" /\ Under(run'[a])
    BY <1>0, <1>2 DEF FullAcquires, Moves, Under, Typed, RunsOK, Runs
  <2>2. a \in FullSyncs /\ InSection = {}
    BY <1>2 DEF FullAcquires, FullSyncs, Apart, LockOK
  <2>3. InSection' = {a} /\ FullSyncs' = FullSyncs
    <3>1. InSection' = InSection \cup {a} /\ FullSyncs' = FullSyncs \cup {a}
      BY <2>1, Moved
    <3> QED
      BY <2>2, <3>1
  <2>4. LockOK' /\ FlagOK'
    BY <1>2, <2>3 DEF FullAcquires, Apart, LockOK, FlagOK
  <2>5. TriesOK'
    BY <1>2, <2>1, <2>3, TriesKept DEF FullAcquires, Apart
  <2> QED
    BY <2>4, <2>5 DEF Apart
<1>3. CASE FullReleases(a)
  <2>1. Moves(a) /\ run'[a].pc = "after" /\ Under(run'[a])
    BY <1>0, <1>3 DEF FullReleases, Moves, Under, Typed, RunsOK, Runs
  <2>2. a \in FullSyncs /\ a \in InSection
    BY <1>3 DEF FullReleases, FullSyncs, InSection
  <2>3. InSection' = {} /\ FullSyncs' = FullSyncs
    <3>1. InSection' = InSection \ {a} /\ FullSyncs' = FullSyncs \cup {a}
      BY <2>1, Moved
    <3> QED
      BY <2>2, <3>1 DEF Apart, LockOK
  <2>4. LockOK' /\ FlagOK'
    BY <1>3, <2>3 DEF FullReleases, Apart, LockOK, FlagOK
  <2>5. TriesOK'
    BY <1>3, <2>1, <2>3, TriesKept DEF FullReleases, Apart
  <2> QED
    BY <2>4, <2>5 DEF Apart
<1>4. CASE FullEnds(a) \/ FullFails(a)
  <2>1. EndFullSync(a) /\ a \in FullSyncs
    BY <1>4 DEF FullEnds, FullFails, FullSyncs
  <2>2. InSection' = InSection \ {a} /\ FullSyncs' = FullSyncs \ {a}
    BY <2>1, EndsMove DEF EndFullSync
  <2>3. pipeline' = IF a \in InSection THEN FALSE ELSE pipeline
    BY <1>4 DEF FullEnds, FullFails, InSection
  <2>4. "leaked" \in past => "leaked" \in past'
    BY <2>1 DEF EndFullSync
  <2>5. LockOK'
    BY <2>2, <2>3, <2>4 DEF Apart, LockOK
  <2>6. FullSyncs' # {} => "overlap" \in past'
    BY <2>1, <2>2 DEF EndFullSync, Apart, FlagOK
  <2>7. FlagOK'
    BY <2>2, <2>6 DEF FlagOK
  <2>8. TriesOK'
    BY <2>6 DEF TriesOK
  <2> QED
    BY <2>5, <2>7, <2>8 DEF Apart
<1>5. CASE FullBeginFails(a)
  <2>1. /\ run' = [run EXCEPT ![a] = Ended] /\ run[a].pc = "start"
        /\ UNCHANGED <<pipeline, fullFlag, past>>
    BY <1>5 DEF FullBeginFails, sync
  <2> QED
    BY <2>1, EndedRun, EndsMove, Away DEF Moves
<1> QED
  BY <1>1, <1>2, <1>3, <1>4, <1>5 DEF Full

LEMMA MinorApart ==
  ASSUME Typed, Apart, NEW a \in Runner,
         Lite(a) \/ MinorBeginFails(a) \/ MinorFails(a)
  PROVE  Apart'
<1>0. a \in Actor /\ Runner \subseteq Actor
  BY Names
<1>1. CASE MinorLooks(a)
  <2>1. /\ Moves(a) /\ run'[a].pc \in {"over", "try"}
        /\ run'[a].pc = "try" => ~fullFlag
    BY <1>0, <1>1, EndedRun DEF MinorLooks, Moves, Typed, RunsOK, Runs
  <2>2. a \notin InSection /\ a \notin FullSyncs
    BY <1>1 DEF MinorLooks, InSection, FullSyncs
  <2>3. InSection' = InSection /\ FullSyncs' = FullSyncs
    BY <2>1, <2>2, Moved DEF Under
  <2>4. UNCHANGED <<pipeline, fullFlag, past>>
    BY <1>1 DEF MinorLooks, sync
  <2>5. LockOK' /\ FlagOK'
    BY <2>3, <2>4 DEF Apart, LockOK, FlagOK
  <2>6. TriesOK'
    <3>1. CASE run'[a].pc = "try"
      <4>1. FullSyncs' = {} \/ "overlap" \in past'
        BY <2>1, <2>3, <2>4, <3>1 DEF Apart, FlagOK
      <4> QED
        BY <4>1 DEF TriesOK
    <3>2. CASE run'[a].pc # "try"
      BY <2>1, <2>3, <2>4, <3>2, TriesKept DEF Apart
    <3> QED
      BY <3>1, <3>2
  <2> QED
    BY <2>5, <2>6 DEF Apart
<1>2. CASE MinorTries(a)
  <2>1. /\ Moves(a) /\ ~Under(run'[a])
        /\ run'[a].pc = IF pipeline THEN "over" ELSE "section"
    BY <1>0, <1>2, EndedRun
    DEF MinorTries, Minor, Moves, Under, Typed, RunsOK, Runs
  <2>2. a \notin InSection /\ a \notin FullSyncs
    BY <1>2 DEF MinorTries, InSection, FullSyncs
  <2>3. /\ InSection' = IF pipeline THEN InSection ELSE InSection \cup {a}
        /\ FullSyncs' = FullSyncs
    BY <2>1, <2>2, Moved
  <2>4. pipeline' /\ UNCHANGED <<fullFlag, past>>
    BY <1>2 DEF MinorTries
  <2>5. LockOK' /\ FlagOK'
    BY <2>3, <2>4 DEF Apart, LockOK, FlagOK
  <2>6. TriesOK'
    BY <2>1, <2>3, <2>4, TriesKept DEF Apart
  <2> QED
    BY <2>5, <2>6 DEF Apart
<1>3. CASE MinorBeginFails(a)
  <2>1. /\ run' = [run EXCEPT ![a] = Ended] /\ run[a].pc = "try"
        /\ pipeline' /\ past' = past \cup {"leaked"} /\ fullFlag' = fullFlag
        /\ ~pipeline
    BY <1>3 DEF MinorBeginFails
  <2>2. a \notin InSection /\ a \notin FullSyncs
    BY <2>1 DEF InSection, FullSyncs
  <2>3. InSection' = InSection /\ FullSyncs' = FullSyncs
    BY <2>1, <2>2, EndsMove
  <2>4. LockOK' /\ FlagOK'
    BY <2>1, <2>3 DEF Apart, LockOK, FlagOK
  <2>5. TriesOK'
    BY <2>1, <2>3, TriesKept, EndsMove DEF Apart
  <2> QED
    BY <2>4, <2>5 DEF Apart
<1>4. CASE MinorEnds(a) \/ MinorFails(a)
  <2>1. /\ run' = [run EXCEPT ![a] = Ended] /\ run[a].pc = "section"
        /\ ~pipeline' /\ UNCHANGED <<past, fullFlag>>
        /\ run[a].task # "full"
    BY <1>4 DEF MinorEnds, MinorFails, Minor
  <2>2. a \in InSection /\ a \notin FullSyncs
    BY <2>1 DEF InSection, FullSyncs
  <2>3. InSection' = {} /\ FullSyncs' = FullSyncs
    <3>1. InSection' = InSection \ {a} /\ FullSyncs' = FullSyncs \ {a}
      BY <2>1, EndsMove
    <3> QED
      BY <2>2, <3>1 DEF Apart, LockOK
  <2>4. LockOK' /\ FlagOK'
    BY <2>1, <2>3 DEF Apart, LockOK, FlagOK
  <2>5. TriesOK'
    BY <2>1, <2>3, TriesKept, EndsMove DEF Apart
  <2> QED
    BY <2>4, <2>5 DEF Apart
<1> QED
  BY <1>1, <1>2, <1>3, <1>4 DEF Lite

LEMMA OthersApart ==
  ASSUME Typed, Apart,
         \/ Boot \/ BootFails \/ BootHangs \/ BootEndsUnscheduled \/ Watchdog
         \/ FollowUpsEnd \/ ArrChanges \/ ArrEnds \/ Poll
         \/ \E t \in Timed : Elapse(t)
         \/ \E m \in Manual, task \in {"full", "lite", "calendar"} : Ask(m, task)
         \/ AbandonRows \/ UNCHANGED vars
  PROVE  Apart'
<1>0. /\ "boot" \notin Runner /\ "arr" \notin Runner /\ Runner \subseteq Actor
      /\ Timed \subseteq Runner /\ Manual \subseteq Runner
  BY Names DEF Runner
<1>1. UNCHANGED <<pipeline, fullFlag>> /\ past \subseteq past'
  BY DEF Boot, BootGate, BootDecides, BootDone, BootEnds, BootFails, BootHangs,
         BootEndsUnscheduled, Watchdog, FollowUpsEnd, ArrChanges, ArrEnds,
         Poll, Elapse, Ask, AbandonRows, vars, sync
<1>2. CASE \/ Boot \/ BootFails \/ BootHangs \/ BootEndsUnscheduled
          \/ Watchdog \/ FollowUpsEnd \/ ArrChanges \/ ArrEnds \/ Poll
          \/ UNCHANGED vars
  <2>1. \A a \in Runner : run'[a] = run[a]
    BY <1>0, <1>2
    DEF Boot, BootGate, BootDecides, BootDone, BootEnds, BootFails, BootHangs,
        BootEndsUnscheduled, Watchdog, FollowUpsEnd, ArrChanges, ArrEnds, Poll,
        vars, Typed, RunsOK
  <2> QED
    BY <1>1, <2>1, Away
<1>3. ASSUME NEW t \in Timed, Elapse(t) PROVE Apart'
  <2>1. Fresh(t, "start").pc = "start"
    BY DEF Fresh, Ended
  <2>2. \A a \in Runner :
          \/ run'[a] = run[a]
          \/ run[a].pc = "over" /\ run'[a].pc = "start"
    BY <1>0, <1>3, <2>1 DEF Elapse, Active, Typed, RunsOK
  <2> QED
    BY <1>1, <2>2, Away
<1>4. ASSUME NEW m \in Manual, NEW task \in {"full", "lite", "calendar"},
             Ask(m, task)
      PROVE  Apart'
  <2>1. Fresh(task, "start").pc = "start"
    BY DEF Fresh, Ended
  <2>2. \A a \in Runner :
          \/ run'[a] = run[a]
          \/ run[a].pc = "over" /\ run'[a].pc = "start"
    BY <1>0, <1>4, <2>1 DEF Ask, Active, Typed, RunsOK
  <2> QED
    BY <1>1, <2>2, Away
<1>5. CASE AbandonRows
  <2>1. \A a \in Runner : /\ run'[a].task = run[a].task /\ run'[a].pc = run[a].pc
                          /\ run'[a].raced = run[a].raced
    BY <1>0, <1>5 DEF AbandonRows, Typed, RunsOK, Runs
  <2> QED
    BY <1>1, <2>1, Away
<1> QED
  BY <1>2, <1>3, <1>4, <1>5

LEMMA RestartApart == ASSUME Typed, Restart PROVE Apart'
<1>1. \A a \in Runner : run'[a] = Ended
  BY Names DEF Restart
<1>2. InSection' = {} /\ FullSyncs' = {}
  BY <1>1, EndedRun DEF InSection, FullSyncs
<1> QED
  BY <1>1, <1>2, EndedRun DEF Restart, Apart, LockOK, FlagOK, TriesOK

LEMMA InitApart == Init => Apart
<1> SUFFICES ASSUME Init PROVE Apart
  OBVIOUS
<1>1. \A a \in Runner : run[a] = Ended
  BY Names DEF Init
<1>2. InSection = {} /\ FullSyncs = {}
  BY <1>1, EndedRun DEF InSection, FullSyncs
<1> QED
  BY <1>1, <1>2, EndedRun DEF Init, Apart, LockOK, FlagOK, TriesOK

LEMMA NextApart == Typed /\ Apart /\ [Next]_vars => Apart'
BY FullApart, MinorApart, OthersApart, RestartApart DEF Next, Step

LEMMA Inductive == Spec => [](Typed /\ Apart)
<1>1. Init => Typed /\ Apart
  BY InitTyped, InitApart DEF Typed
<1>2. Typed /\ Apart /\ [Next]_vars => Typed' /\ Apart'
  BY NextTyped, NextApart DEF Typed
<1> QED
  BY <1>1, <1>2, PTL DEF Spec

\* At most one sync is in the pipeline, with the lock held, and a lock that
\* nobody holds was leaked (try_acquire_pipeline, acquire_pipeline_blocking).
THEOREM PipelineIsExclusive == Spec => []PipelineExclusive
<1>1. Apart => PipelineExclusive
  <2> SUFFICES ASSUME Apart PROVE PipelineExclusive
    OBVIOUS
  <2>1. Cardinality(InSection) <= 1
    <3>1. InSection = {} \/ \E a \in InSection : InSection = {a}
      BY DEF Apart, LockOK
    <3>2. CASE InSection = {}
      <4>1. Cardinality({}) = 0
        BY FS_EmptySet
      <4> QED
        BY <3>2, <4>1
    <3>3. ASSUME NEW a \in InSection, InSection = {a}
          PROVE  Cardinality(InSection) <= 1
      <4>1. Cardinality({a}) = 1
        BY FS_Singleton
      <4> QED
        BY <3>3, <4>1
    <3> QED
      BY <3>1, <3>2, <3>3
  <2> QED
    BY <2>1 DEF Apart, LockOK, PipelineExclusive
<1> QED
  BY <1>1, Inductive, PTL

\* The flag is set while a full sync is under way, unless one that overlapped
\* it has ended (begin_full_sync, end_full_sync).
THEOREM FlagCovers == Spec => []FlagCoversFullSync
<1>1. Apart => FlagCoversFullSync
  BY DEF Apart, FlagOK, FlagCoversFullSync
<1> QED
  BY <1>1, Inductive, PTL

\* Only MinorTries puts a thread of no full sync into the pipeline.
LEMMA Entering ==
  ASSUME Typed, [Next]_vars, NEW a \in Runner, Enters(a)
  PROVE  run[a].pc = "try"
<1>0. /\ "boot" \notin Runner /\ "arr" \notin Runner /\ Runner \subseteq Actor
      /\ Timed \subseteq Runner /\ Manual \subseteq Runner
  BY Names DEF Runner
<1>1. run[a].pc # "section" /\ run'[a].pc = "section" /\ run'[a].task # "full"
  BY DEF Enters, InSection
<1>2. ASSUME NEW x \in Runner, Full(x) \/ FullBeginFails(x) \/ FullFails(x)
      PROVE  FALSE
  <2>1. CASE FullBegins(x)
    <3>1. run'[a].pc \in {run[a].pc, "arr"}
      BY <1>0, <2>1 DEF FullBegins, Typed, RunsOK, Runs
    <3> QED
      BY <1>1, <3>1
  <2>2. CASE FullAcquires(x) \/ FullReleases(x)
    <3>1. run'[a] = run[a] \/ run'[a].task = run[x].task
      BY <1>0, <2>2 DEF FullAcquires, FullReleases, Typed, RunsOK, Runs
    <3>2. run[x].task = "full"
      BY <2>2 DEF FullAcquires, FullReleases
    <3> QED
      BY <1>1, <3>1, <3>2
  <2>3. CASE FullEnds(x) \/ FullBeginFails(x) \/ FullFails(x)
    <3>1. run'[a] = run[a] \/ run'[a] = Ended
      BY <1>0, <2>3
      DEF FullEnds, FullFails, FullBeginFails, EndFullSync, Typed, RunsOK
    <3> QED
      BY <1>1, <3>1, EndedRun
  <2> QED
    BY <1>2, <2>1, <2>2, <2>3 DEF Full
<1>3. ASSUME NEW x \in Runner, Lite(x) \/ MinorBeginFails(x) \/ MinorFails(x)
      PROVE  run[a].pc = "try"
  <2>1. CASE MinorLooks(x)
    <3>1. run'[a].pc \in {run[a].pc, "over", "try"}
      BY <1>0, <2>1, EndedRun DEF MinorLooks, Typed, RunsOK, Runs
    <3> QED
      BY <1>1, <3>1
  <2>2. CASE MinorTries(x)
    <3>1. run'[a] = run[a] \/ a = x
      BY <1>0, <2>2 DEF MinorTries, Typed, RunsOK
    <3> QED
      BY <1>1, <2>2, <3>1 DEF MinorTries
  <2>3. CASE MinorEnds(x) \/ MinorBeginFails(x) \/ MinorFails(x)
    <3>1. run'[a] = run[a] \/ run'[a] = Ended
      BY <1>0, <2>3 DEF MinorEnds, MinorBeginFails, MinorFails, Typed, RunsOK
    <3> QED
      BY <1>1, <3>1, EndedRun
  <2> QED
    BY <1>3, <2>1, <2>2, <2>3 DEF Lite
<1>4. CASE \/ Boot \/ BootFails \/ BootHangs \/ BootEndsUnscheduled
          \/ Watchdog \/ FollowUpsEnd \/ ArrChanges \/ ArrEnds \/ Poll
          \/ UNCHANGED vars
  <2>1. run'[a] = run[a]
    BY <1>0, <1>4
    DEF Boot, BootGate, BootDecides, BootDone, BootEnds, BootFails, BootHangs,
        BootEndsUnscheduled, Watchdog, FollowUpsEnd, ArrChanges, ArrEnds, Poll,
        vars, Typed, RunsOK
  <2> QED
    BY <1>1, <2>1
<1>5. ASSUME NEW t \in Timed, Elapse(t) PROVE FALSE
  <2>1. run'[a] = run[a] \/ run'[a] = Fresh(t, "start")
    BY <1>0, <1>5 DEF Elapse, Typed, RunsOK
  <2> QED
    BY <1>1, <2>1 DEF Fresh, Ended
<1>6. ASSUME NEW m \in Manual, NEW task \in {"full", "lite", "calendar"},
             Ask(m, task)
      PROVE  FALSE
  <2>1. run'[a] = run[a] \/ run'[a] = Fresh(task, "start")
    BY <1>0, <1>6 DEF Ask, Typed, RunsOK
  <2> QED
    BY <1>1, <2>1 DEF Fresh, Ended
<1>7. CASE AbandonRows
  <2>1. run'[a].pc = run[a].pc
    BY <1>0, <1>7 DEF AbandonRows, Typed, RunsOK, Runs
  <2> QED
    BY <1>1, <2>1
<1>8. CASE Restart
  <2>1. run'[a] = Ended
    BY <1>0, <1>8 DEF Restart
  <2> QED
    BY <1>1, <2>1, EndedRun
<1> QED
  BY <1>2, <1>3, <1>4, <1>5, <1>6, <1>7, <1>8 DEF Next, Step

\* A lite or calendar run enters the pipeline while a full sync is under way
\* only if that began after its look at the flag, or the flag was cleared
\* (should_skip_lite_or_calendar, try_acquire_pipeline).
THEOREM LiteAwaits == Spec => LiteAwaitsFull
<1>1. Typed /\ Apart /\ [Next]_vars
        => [\A a \in Runner : Enters(a) =>
              FullSyncs = {} \/ run[a].raced \/ "overlap" \in past]_vars
  BY Entering DEF Apart, TriesOK
<1> QED
  BY <1>1, Inductive, PTL DEF Spec, LiteAwaitsFull

-----------------------------------------------------------------------------
(***************************************************************************)
(* The boot and the owed syncs.                                            *)
(***************************************************************************)
BootAlone ==
  Active("boot") /\ ~firstRun /\ "watchdog" \notin past
    => ~workersGate /\ ~Active("arr") /\ ~scheduler

Ordered == BootAlone /\ OwedIsOverdue

LEMMA BumpOwed ==
  ASSUME Typed, OwedIsOverdue, NEW T, Bump(T) PROVE OwedIsOverdue'
BY DEF OwedIsOverdue, Bump, Typed, RestOK

LEMMA StartOwed ==
  ASSUME OwedIsOverdue, StartScheduler PROVE OwedIsOverdue'
BY DEF OwedIsOverdue, StartScheduler, clocks

LEMMA InitOrdered == Init => Ordered
<1> SUFFICES ASSUME Init PROVE Ordered
  OBVIOUS
<1>1. BootAlone
  BY Names, EndedRun DEF Init, BootAlone, Active
<1>2. OwedIsOverdue
  BY DEF Init, OwedIsOverdue
<1> QED
  BY <1>1, <1>2 DEF Ordered

LEMMA RunnersOrdered ==
  ASSUME Typed, Ordered, NEW a \in Runner,
         \/ Step(a) \/ FullBeginFails(a) \/ FullFails(a)
         \/ MinorBeginFails(a) \/ MinorFails(a)
  PROVE  Ordered'
<1>0. /\ "boot" \notin Runner /\ "arr" \notin Runner /\ Runner \subseteq Actor
      /\ "boot" \in Actor /\ "arr" \in Actor
  BY Names
<1>1. run'["boot"].pc = run["boot"].pc /\ run'["arr"].pc = run["arr"].pc
  <2>1. CASE FullBegins(a)
    BY <1>0, <2>1 DEF FullBegins, Typed, RunsOK, Runs
  <2>2. CASE ~FullBegins(a)
    <3>1. \E r : run' = [run EXCEPT ![a] = r]
      BY <2>2
      DEF Step, Full, Lite, FullAcquires, FullReleases, FullEnds,
          FullBeginFails, FullFails, EndFullSync, MinorLooks, MinorTries,
          MinorEnds, MinorBeginFails, MinorFails
    <3> QED
      BY <1>0, <3>1 DEF Typed, RunsOK
  <2> QED
    BY <2>1, <2>2
<1>2. /\ UNCHANGED <<workersGate, scheduler, firstRun>>
      /\ "watchdog" \in past => "watchdog" \in past'
  BY DEF Step, Full, Lite, FullBegins, FullAcquires, FullReleases, FullEnds,
      FullBeginFails, FullFails, EndFullSync, MinorLooks, MinorTries,
      MinorEnds, MinorBeginFails, MinorFails
<1>3. BootAlone'
  BY <1>1, <1>2 DEF Ordered, BootAlone, Active
<1>4. UNCHANGED clocks \/ \E T : Bump(T)
  BY DEF Step, Full, Lite, FullBegins, FullAcquires, FullReleases, FullEnds,
      FullBeginFails, FullFails, MinorLooks, MinorTries,
      MinorEnds, MinorBeginFails, MinorFails
<1>5. OwedIsOverdue'
  BY <1>4, BumpOwed DEF Ordered, clocks, OwedIsOverdue
<1> QED
  BY <1>3, <1>5 DEF Ordered

LEMMA BootOrdered ==
  ASSUME Typed, Ordered,
         Boot \/ BootFails \/ BootHangs \/ BootEndsUnscheduled \/ Watchdog
  PROVE  Ordered'
<1>0. "boot" \in Actor /\ "arr" \in Actor
  BY Names
<1>1. CASE BootEnds \/ BootEndsUnscheduled
  <2>1. run'["boot"].pc = "over"
    BY <1>0, <1>1, EndedRun DEF BootEnds, BootEndsUnscheduled, Typed, RunsOK
  <2>2. OwedIsOverdue'
    BY <1>1, StartOwed
    DEF BootEnds, BootEndsUnscheduled, Ordered, OwedIsOverdue, clocks
  <2> QED
    BY <2>1, <2>2 DEF Ordered, BootAlone, Active
<1>2. CASE Watchdog
  BY <1>2 DEF Watchdog, Ordered, BootAlone, OwedIsOverdue, clocks
<1>3. CASE BootGate \/ BootDecides \/ BootDone \/ BootFails \/ BootHangs
  <2>1. Active("boot") /\ run'["arr"] = run["arr"]
    BY <1>0, <1>3
    DEF BootGate, BootDecides, BootDone, BootFails, BootHangs, Active, Typed,
        RunsOK
  <2>2. UNCHANGED <<workersGate, scheduler, firstRun>> /\ past \subseteq past'
    BY <1>3 DEF BootGate, BootDecides, BootDone, BootFails, BootHangs
  <2>3. BootAlone'
    BY <2>1, <2>2 DEF Ordered, BootAlone, Active
  <2>4. UNCHANGED clocks \/ \E T : Bump(T)
    BY <1>3 DEF BootGate, BootDecides, BootDone, BootFails, BootHangs
  <2>5. OwedIsOverdue'
    BY <2>4, BumpOwed DEF Ordered, clocks, OwedIsOverdue
  <2> QED
    BY <2>3, <2>5 DEF Ordered
<1> QED
  BY <1>1, <1>2, <1>3 DEF Boot

LEMMA WorldOrdered ==
  ASSUME Typed, Ordered,
         \/ FollowUpsEnd \/ ArrChanges \/ ArrEnds \/ Poll
         \/ \E t \in Timed : Elapse(t)
         \/ \E m \in Manual, task \in {"full", "lite", "calendar"} : Ask(m, task)
         \/ AbandonRows \/ Restart \/ UNCHANGED vars
  PROVE  Ordered'
<1>0. /\ "boot" \in Actor /\ "arr" \in Actor /\ "boot" # "arr"
      /\ "boot" \notin Runner /\ "arr" \notin Runner
      /\ Timed \subseteq Runner /\ Manual \subseteq Runner
  BY Names DEF Runner
<1>1. CASE FollowUpsEnd
  BY <1>1, BumpOwed DEF FollowUpsEnd, Ordered, BootAlone, Active
<1>2. CASE ArrChanges
  <2>1. workersGate /\ run'["boot"] = run["boot"]
    BY <1>0, <1>2 DEF ArrChanges, Typed, RunsOK
  <2>2. UNCHANGED <<workersGate, scheduler, firstRun, past, clocks>>
    BY <1>2 DEF ArrChanges
  <2> QED
    BY <2>1, <2>2 DEF Ordered, BootAlone, Active, OwedIsOverdue, clocks
<1>3. CASE ArrEnds
  <2>1. Active("arr") /\ run'["boot"] = run["boot"]
    BY <1>0, <1>3 DEF ArrEnds, Active, Typed, RunsOK
  <2>2. UNCHANGED <<firstRun, past>>
    BY <1>3 DEF ArrEnds
  <2>3. BootAlone'
    BY <2>1, <2>2 DEF Ordered, BootAlone, Active
  <2>4. OwedIsOverdue'
    BY <1>3, StartOwed DEF ArrEnds, Ordered
  <2> QED
    BY <2>3, <2>4 DEF Ordered
<1>4. CASE Poll
  BY <1>4 DEF Poll, Ordered, BootAlone, Active, OwedIsOverdue
<1>5. ASSUME NEW t \in Timed, Elapse(t) PROVE Ordered'
  <2>1. run'["boot"] = run["boot"] /\ run'["arr"] = run["arr"]
    BY <1>0, <1>5 DEF Elapse, Typed, RunsOK
  <2>2. BootAlone'
    BY <1>5, <2>1 DEF Elapse, Ordered, BootAlone, Active
  <2>3. OwedIsOverdue'
    BY <1>5 DEF Elapse, Ordered, OwedIsOverdue, Typed, RestOK
  <2> QED
    BY <2>2, <2>3 DEF Ordered
<1>6. ASSUME NEW m \in Manual, NEW task \in {"full", "lite", "calendar"},
             Ask(m, task)
      PROVE  Ordered'
  <2>1. run'["boot"] = run["boot"] /\ run'["arr"] = run["arr"]
    BY <1>0, <1>6 DEF Ask, Typed, RunsOK
  <2> QED
    BY <1>6, <2>1 DEF Ask, Ordered, BootAlone, Active, OwedIsOverdue, clocks
<1>7. CASE AbandonRows
  <2>1. run'["boot"].pc = run["boot"].pc /\ run'["arr"].pc = run["arr"].pc
    BY <1>0, <1>7 DEF AbandonRows, Typed, RunsOK, Runs
  <2> QED
    BY <1>7, <2>1
    DEF AbandonRows, Ordered, BootAlone, Active, OwedIsOverdue, clocks
<1>8. CASE Restart
  <2>1. run'["arr"].pc = "over"
    BY <1>0, <1>8, EndedRun DEF Restart
  <2> QED
    BY <1>8, <2>1 DEF Restart, Ordered, BootAlone, Active, OwedIsOverdue
<1>9. CASE UNCHANGED vars
  BY <1>9 DEF vars, clocks, Ordered, BootAlone, Active, OwedIsOverdue
<1> QED
  BY <1>1, <1>2, <1>3, <1>4, <1>5, <1>6, <1>7, <1>8, <1>9

LEMMA NextOrdered == Typed /\ Ordered /\ [Next]_vars => Ordered'
BY RunnersOrdered, BootOrdered, WorldOrdered DEF Next

LEMMA AlwaysOrdered == Spec => []Ordered
<1>1. Spec => []Typed
  BY Inductive, PTL
<1> QED
  BY <1>1, InitOrdered, NextOrdered, PTL DEF Spec

\* Workers and scheduler wait for the sync of the boot
\* (run_startup_source_of_truth, _startup_gate_watchdog).
THEOREM BootComesFirst == Spec => []BootFirst
<1>1. Ordered => BootFirst
  BY DEF Ordered, BootAlone, BootFirst
<1> QED
  BY <1>1, AlwaysOrdered, PTL

\* An owed sync counts as overdue until it has succeeded, or until its clock
\* was excused (is_schedule_overdue, reschedule_task_after_completion).
THEOREM OwedStaysOverdue == Spec => []OwedIsOverdue
<1>1. Ordered => OwedIsOverdue
  BY DEF Ordered
<1> QED
  BY <1>1, AlwaysOrdered, PTL

-----------------------------------------------------------------------------
(* CatalogSync *)

LiveRow(r) == r.st # "none" /\ ~r.dead
Row(st) == [st |-> st, dead |-> FALSE]

-----------------------------------------------------------------------------
(* Units, rows and lists *)

LEMMA UnitFacts ==
  ASSUME NEW t \in Titles
  PROVE  /\ <<t, 0>> \in UnitsOf(t) /\ <<t, 0>>[1] = t /\ <<t, 0>>[2] = 0
         /\ \A e \in Episodes : <<t, e>> \in UnitsOf(t) /\ <<t, e>>[1] = t /\ <<t, e>>[2] = e /\ e # 0
         /\ \A u \in UnitsOf(t) : /\ u \in Units /\ u[1] = t /\ u = <<t, u[2]>>
                                  /\ u[2] # 0 => u[2] \in Episodes
         /\ \A u \in Units : u[1] = t => u \in UnitsOf(t)
BY CatalogAssumption DEF Units, UnitsOf

LEMMA UnitTitle ==
  ASSUME NEW u \in Units
  PROVE  u[1] \in Titles /\ u \in UnitsOf(u[1])
BY DEF Units, UnitsOf

LEMMA RowFacts ==
  /\ \A st \in States : Row(st) \in Rows /\ (st # "none" => LiveRow(Row(st)))
  /\ \A r \in Rows : Marked(r) \in Rows /\ ~LiveRow(Marked(r)) /\ r.st \in States /\ r.dead \in BOOLEAN
  /\ NoRow \in Rows /\ ~LiveRow(NoRow)
<1>1. ASSUME NEW r \in Rows PROVE Marked(r) = [st |-> r.st, dead |-> r.st # "none"]
  BY <1>1 DEF Marked, Rows
<1>2. ASSUME NEW r \in Rows
      PROVE  Marked(r) \in Rows /\ ~LiveRow(Marked(r)) /\ r.st \in States /\ r.dead \in BOOLEAN
  <2>1. r.st \in States /\ r.dead \in BOOLEAN
    BY DEF Rows
  <2>2. [st |-> r.st, dead |-> r.st # "none"] \in Rows
    BY <2>1 DEF Rows
  <2>3. ~LiveRow([st |-> r.st, dead |-> r.st # "none"])
    BY DEF LiveRow
  <2> QED BY <1>1, <2>1, <2>2, <2>3
<1>3. \A st \in States : Row(st) \in Rows /\ (st # "none" => LiveRow(Row(st)))
  BY DEF Row, Rows, LiveRow
<1>4. NoRow \in Rows /\ ~LiveRow(NoRow)
  BY DEF NoRow, Rows, States, LiveRow
<1> QED BY <1>2, <1>3, <1>4

\* What an upsert of a title makes of its rows; no live row dies of it.
LEMMA UpsertedRows ==
  ASSUME db \in [Units -> Rows], NEW t \in Titles, NEW st \in States, NEW eps \in Lists
  PROVE  /\ Upserted(t, st, eps) \in [UnitsOf(t) -> Rows]
         /\ Upserted(t, st, eps)[<<t, 0>>] = Row(st)
         /\ \A u \in UnitsOf(t) : u[2] # 0 =>
              Upserted(t, st, eps)[u] = IF eps[u[2]] # "none" THEN Row(eps[u[2]]) ELSE db[u]
         /\ st # "none" => /\ LiveRow(Upserted(t, st, eps)[<<t, 0>>])
                           /\ \A u \in UnitsOf(t) : Live(db, u) => Live(Upserted(t, st, eps), u)
<1>1. \A u \in UnitsOf(t) : Upserted(t, st, eps)[u] = IF u[2] = 0 THEN Row(st)
         ELSE IF eps[u[2]] # "none" THEN Row(eps[u[2]]) ELSE db[u]
  BY DEF Upserted, Row
<1>2. \A u \in UnitsOf(t) : u[2] # 0 => eps[u[2]] \in States
  BY UnitFacts DEF Lists
<1>3. \A u \in UnitsOf(t) : db[u] \in Rows /\ Row(st) \in Rows /\ (u[2] # 0 => Row(eps[u[2]]) \in Rows)
  BY <1>2, UnitFacts, RowFacts
<1>4. Upserted(t, st, eps) \in [UnitsOf(t) -> Rows]
  <2>1. Upserted(t, st, eps) = [u \in UnitsOf(t) |-> Upserted(t, st, eps)[u]]
    BY DEF Upserted
  <2>2. \A u \in UnitsOf(t) : Upserted(t, st, eps)[u] \in Rows
    BY <1>1, <1>3
  <2> QED BY <2>1, <2>2
<1>5. Upserted(t, st, eps)[<<t, 0>>] = Row(st)
  BY <1>1, UnitFacts
<1>6. ASSUME st # "none", NEW u \in UnitsOf(t), Live(db, u) PROVE Live(Upserted(t, st, eps), u)
  <2>1. LiveRow(Row(st)) /\ (u[2] # 0 /\ eps[u[2]] # "none" => LiveRow(Row(eps[u[2]])))
    BY <1>2, <1>6, RowFacts
  <2> QED BY <1>1, <1>6, <2>1 DEF Live, LiveRow
<1> QED BY <1>1, <1>4, <1>5, <1>6, RowFacts

\* What a targeted sync makes of them.
LEMMA TargetedRows ==
  ASSUME db \in [Units -> Rows], NEW t \in Titles, NEW st \in States, NEW eps \in Lists
  PROVE  /\ Targeted(t, st, eps) \in [UnitsOf(t) -> Rows]
         /\ Targeted(t, st, eps)[<<t, 0>>] = Row(st)
         /\ \A u \in UnitsOf(t) : u[2] # 0 =>
              IF eps[u[2]] # "none" THEN Targeted(t, st, eps)[u] = Row(eps[u[2]])
                                    ELSE ~Live(Targeted(t, st, eps), u)
<1>1. \A u \in UnitsOf(t) : Targeted(t, st, eps)[u] =
         IF u[2] # 0 /\ eps[u[2]] = "none" THEN Marked(db[u]) ELSE Upserted(t, st, eps)[u]
  BY DEF Targeted
<1>2. \A u \in UnitsOf(t) : Marked(db[u]) \in Rows /\ Upserted(t, st, eps)[u] \in Rows /\ ~LiveRow(Marked(db[u]))
  <2>1. Upserted(t, st, eps) \in [UnitsOf(t) -> Rows]
    BY UpsertedRows
  <2> QED BY <2>1, UnitFacts, RowFacts
<1>3. Targeted(t, st, eps) \in [UnitsOf(t) -> Rows]
  <2>1. Targeted(t, st, eps) = [u \in UnitsOf(t) |-> Targeted(t, st, eps)[u]]
    BY DEF Targeted
  <2>2. \A u \in UnitsOf(t) : Targeted(t, st, eps)[u] \in Rows
    BY <1>1, <1>2
  <2> QED BY <2>1, <2>2
<1>4. Targeted(t, st, eps)[<<t, 0>>] = Row(st)
  BY <1>1, UnitFacts, UpsertedRows
<1>5. ASSUME NEW u \in UnitsOf(t), u[2] # 0
      PROVE  IF eps[u[2]] # "none" THEN Targeted(t, st, eps)[u] = Row(eps[u[2]])
                                   ELSE ~Live(Targeted(t, st, eps), u)
  <2>1. Upserted(t, st, eps)[u] = IF eps[u[2]] # "none" THEN Row(eps[u[2]]) ELSE db[u]
    <3>1. \A v \in UnitsOf(t) : v[2] # 0 =>
            Upserted(t, st, eps)[v] = IF eps[v[2]] # "none" THEN Row(eps[v[2]]) ELSE db[v]
      BY UpsertedRows
    <3> QED BY <1>5, <3>1
  <2>2. CASE eps[u[2]] # "none"
    BY <1>1, <2>1, <2>2
  <2>3. CASE eps[u[2]] = "none"
    <3>1. Targeted(t, st, eps)[u] = Marked(db[u]) /\ ~LiveRow(Marked(db[u]))
      BY <1>1, <1>2, <1>5, <2>3
    <3> QED BY <2>3, <3>1 DEF Live, LiveRow
  <2> QED BY <2>2, <2>3
<1> QED BY <1>3, <1>4, <1>5

LEMMA GoneRows ==
  ASSUME db \in [Units -> Rows], NEW t \in Titles
  PROVE  /\ Gone(t) \in [UnitsOf(t) -> Rows]
         /\ \A u \in UnitsOf(t) : ~Live(Gone(t), u)
<1>1. \A u \in UnitsOf(t) : Gone(t)[u] = Marked(db[u]) /\ Marked(db[u]) \in Rows /\ ~LiveRow(Marked(db[u]))
  BY UnitFacts, RowFacts DEF Gone
<1>2. Gone(t) \in [UnitsOf(t) -> Rows]
  <2>1. Gone(t) = [u \in UnitsOf(t) |-> Gone(t)[u]]
    BY DEF Gone
  <2> QED BY <1>1, <2>1
<1> QED BY <1>1, <1>2 DEF Live, LiveRow

LEMMA MergedRows ==
  ASSUME db \in [Units -> Rows], NEW rows,
         \A t \in DOMAIN rows : t \in Titles => rows[t] \in [UnitsOf(t) -> Rows]
  PROVE  /\ Merged(rows) \in [Units -> Rows]
         /\ \A t \in Titles : \A u \in UnitsOf(t) :
              Merged(rows)[u] = IF t \in DOMAIN rows THEN rows[t][u] ELSE db[u]
         /\ DOMAIN rows = {} => Merged(rows) = db
<1>1. \A u \in Units : Merged(rows)[u] = IF u[1] \in DOMAIN rows THEN rows[u[1]][u] ELSE db[u]
  BY DEF Merged
<1>2. \A u \in Units : Merged(rows)[u] \in Rows
  BY <1>1, UnitTitle
<1>3. Merged(rows) = [u \in Units |-> Merged(rows)[u]]
  BY DEF Merged
<1>4. Merged(rows) \in [Units -> Rows]
  BY <1>2, <1>3
<1>5. ASSUME NEW t \in Titles, NEW u \in UnitsOf(t)
      PROVE  Merged(rows)[u] = IF t \in DOMAIN rows THEN rows[t][u] ELSE db[u]
  <2>1. u \in Units /\ u[1] = t
    BY UnitFacts
  <2> QED BY <1>1, <2>1
<1>6. DOMAIN rows = {} => Merged(rows) = db
  <2>1. DOMAIN rows = {} => Merged(rows) = [u \in Units |-> db[u]]
    <3> SUFFICES ASSUME DOMAIN rows = {} PROVE Merged(rows) = [u \in Units |-> db[u]]
      OBVIOUS
    <3>1. \A u \in Units : Merged(rows)[u] = db[u]
      BY <1>1
    <3> QED BY <1>3, <3>1
  <2>2. db = [u \in Units |-> db[u]]
    OBVIOUS
  <2> QED BY <2>1, <2>2
<1> QED BY <1>4, <1>5, <1>6

LEMMA OnlyRows ==
  ASSUME db \in [Units -> Rows], NEW t \in Titles, NEW rows \in [UnitsOf(t) -> Rows]
  PROVE  /\ Merged(Only(t, rows)) \in [Units -> Rows]
         /\ \A s \in Titles : \A u \in UnitsOf(s) :
              Merged(Only(t, rows))[u] = IF s = t THEN rows[u] ELSE db[u]
<1>1. DOMAIN Only(t, rows) = {t} /\ Only(t, rows)[t] = rows
  BY DEF Only
<1> QED BY <1>1, MergedRows

ListType == [on: BOOLEAN, bad: BOOLEAN, eps: Lists]

LEMMA ListFacts ==
  ASSUME arr \in [Units -> States], cache \in [Titles -> ListType], NEW t \in Titles, NEW F
  PROVE  /\ ListOf(t, F) \in ListType /\ ListOf(t, F).eps \in Lists
         /\ FreshList(t) \in ListType /\ \A e \in Episodes : FreshList(t).eps[e] = arr[<<t, e>>]
         /\ NoList \in ListType /\ Nothing \in Lists
         /\ \A eps \in Lists : OfSeason0(eps) \in Lists
<1>1. \A e \in Episodes : arr[<<t, e>>] \in States
  BY UnitFacts
<1>2. [e \in Episodes |-> arr[<<t, e>>]] \in Lists
  BY <1>1 DEF Lists
<1>3. Nothing \in Lists
  BY DEF Nothing, Lists, States
<1>4. \A eps \in Lists : OfSeason0(eps) \in Lists
  BY DEF OfSeason0, Lists, States
<1>5. FreshList(t) \in ListType /\ Failed \in ListType /\ NoList \in ListType
  BY <1>2, <1>3 DEF FreshList, Failed, NoList, ListType
<1>6. ListOf(t, F) \in ListType
  BY <1>5 DEF ListOf
<1>7. ListOf(t, F).eps \in Lists
  BY <1>6 DEF ListType
<1>8. \A e \in Episodes : FreshList(t).eps[e] = arr[<<t, e>>]
  BY DEF FreshList
<1> QED BY <1>3, <1>4, <1>5, <1>6, <1>7, <1>8

LEMMA FailureFacts ==
  ASSUME NEW T \in SUBSET Titles, NEW F \in Failures(T)
  PROVE  F \subseteq T /\ Cardinality(F) \in Nat /\ (F = {} => Cardinality(F) = 0)
<1>1. F \subseteq T
  BY DEF Failures
<1>2. IsFiniteSet(F)
  BY <1>1, CatalogAssumption, FS_Subset
<1> QED BY <1>1, <1>2, FS_CardinalityType, FS_EmptySet

-----------------------------------------------------------------------------
(* Types *)

ArrIsTyped == /\ setting \in Settings /\ arr \in [Units -> States] /\ specials \in BOOLEAN
              /\ used \in [Bounds -> Nat]
DataTyped == /\ db \in [Units -> Rows] /\ files \subseteq Units /\ cache \in [Titles -> ListType]
SeenTyped == /\ {pending, captured, firstFull, quiet} \subseteq BOOLEAN
             /\ away \subseteq Units /\ misread \subseteq Titles
TxTyped == /\ DOMAIN tx \subseteq Titles
           /\ \A t \in DOMAIN tx : tx[t] \in [UnitsOf(t) -> Rows]
RunTyped == /\ pc \in Points /\ mode \in {"full", "lite"} /\ booting \in BOOLEAN
            /\ snap \in [Units -> States] /\ todo \subseteq Titles /\ touched \subseteq Units
            /\ item \in [t: Titles, st: States]
RowsTyped == ArrIsTyped /\ DataTyped /\ SeenTyped /\ TxTyped /\ RunTyped

LEMMA RowsTypedIsTypeOK == RowsTyped => CatalogTypeOK
BY DEF RowsTyped, CatalogTypeOK, ArrIsTyped, DataTyped, SeenTyped, TxTyped, RunTyped, ListType

LEMMA CatalogInitTyped == CatalogInit => RowsTyped
<1> SUFFICES ASSUME CatalogInit PROVE RowsTyped
  OBVIOUS
<1>1. ArrIsTyped
  BY DEF CatalogInit, ArrIsTyped, States, Units
<1>2. DataTyped
  BY RowFacts DEF CatalogInit, DataTyped, NoList, ListType, Lists, Nothing, States
<1>3. SeenTyped /\ TxTyped
  BY DEF CatalogInit, SeenTyped, TxTyped, Empty
<1>4. item \in [t: Titles, st: States]
  BY CatalogAssumption DEF CatalogInit, States
<1>5. RunTyped
  BY <1>4 DEF CatalogInit, RunTyped, Points, Absent, States
<1> QED BY <1>1, <1>2, <1>3, <1>5 DEF RowsTyped

LEMMA PutTyped ==
  ASSUME TxTyped, NEW t \in Titles, NEW rows \in [UnitsOf(t) -> Rows], tx' = Put(t, rows)
  PROVE  /\ TxTyped' /\ DOMAIN tx' = DOMAIN tx \cup {t}
         /\ \A s \in DOMAIN tx' : tx'[s] = IF s = t THEN rows ELSE tx[s]
BY DEF TxTyped, Put

LEMMA NoTx == ASSUME tx' = Empty PROVE TxTyped' /\ DOMAIN tx' = {}
BY DEF TxTyped, Empty

\* Requests of lists keep the types of what they touch.
LEMMA ReadTyped ==
  ASSUME RowsTyped, NEW T \in SUBSET Titles, NEW F \in Failures(T), ReadLists(T, F)
  PROVE  /\ cache' \in [Titles -> ListType] /\ used' \in [Bounds -> Nat]
         /\ quiet' \in BOOLEAN /\ misread' \subseteq Titles
<1>1. cache' \in [Titles -> ListType]
  <2>1. \A t \in Titles : ListOf(t, F) \in ListType /\ cache[t] \in ListType
    BY ListFacts DEF RowsTyped, ArrIsTyped, DataTyped
  <2> QED BY <2>1 DEF ReadLists
<1>2. used' \in [Bounds -> Nat]
  BY FailureFacts DEF ReadLists, Spend, RowsTyped, ArrIsTyped, Bounds
<1> QED BY <1>1, <1>2, FailureFacts DEF ReadLists, RowsTyped, SeenTyped

LEMMA SpendTyped ==
  ASSUME ArrIsTyped, NEW b \in Bounds, NEW n \in Nat, Spend(b, n)
  PROVE  used' \in [Bounds -> Nat]
BY DEF ArrIsTyped, Spend

\* Targets are titles, and what a targeted sync reports are units.
LEMMA BeginTyped ==
  ASSUME RowsTyped, NEW m \in {"full", "lite"}, NEW b \in BOOLEAN, Begin(m, b)
  PROVE  RowsTyped'
<1>1. ArrIsTyped' /\ DataTyped'
  BY DEF Begin, RowsTyped, ArrIsTyped, DataTyped, world
<1>2. SeenTyped'
  BY DEF Begin, RowsTyped, SeenTyped, DataTyped, flags, ListType
<1>3. TxTyped'
  BY NoTx DEF Begin
<1>4. RunTyped'
  BY DEF Begin, RowsTyped, RunTyped, Points, Absent, States
<1> QED BY <1>1, <1>2, <1>3, <1>4 DEF RowsTyped

LEMMA SyncTyped ==
  ASSUME RowsTyped, SyncStep
  PROVE  RowsTyped'
<1> USE DEF RowsTyped
<1>1. CASE Specials
  <2>1. PICK T \in SUBSET Titles :
          \/ \E F \in Failures(T) : ReadLists(T, F) /\
               db' = Merged([t \in T |-> Captured(t, arr[<<t, 0>>], ListOf(t, F).eps)])
          \/ RequestFails /\ UNCHANGED <<db, cache, misread>>
    BY <1>1 DEF Specials
  <2>2. CASE RequestFails /\ UNCHANGED <<db, cache, misread>>
    <3>1. ArrIsTyped' /\ DataTyped' /\ SeenTyped' /\ TxTyped'
      BY <1>1, <2>2, SpendTyped
         DEF Specials, RequestFails, ArrIsTyped, DataTyped, SeenTyped, TxTyped, Bounds
    <3>2. RunTyped'
      BY <1>1, <2>2 DEF Specials, RunTyped, Points, Season0Seeds
    <3> QED BY <3>1, <3>2
  <2>3. ASSUME NEW F \in Failures(T), ReadLists(T, F),
               db' = Merged([t \in T |-> Captured(t, arr[<<t, 0>>], ListOf(t, F).eps)])
        PROVE  RowsTyped'
    <3>1. \A t \in T : arr[<<t, 0>>] \in States /\ Captured(t, arr[<<t, 0>>], ListOf(t, F).eps) \in [UnitsOf(t) -> Rows]
      BY ListFacts, UpsertedRows, UnitFacts DEF ArrIsTyped, DataTyped, Captured
    <3>2. db' \in [Units -> Rows]
      BY <2>3, <3>1, MergedRows DEF DataTyped
    <3>3. ArrIsTyped' /\ DataTyped' /\ SeenTyped' /\ TxTyped'
      BY <1>1, <2>3, <3>2, ReadTyped
         DEF Specials, ArrIsTyped, DataTyped, SeenTyped, TxTyped
    <3>4. RunTyped'
      BY <1>1, <2>3 DEF Specials, RunTyped, Points, Season0Seeds
    <3> QED BY <3>3, <3>4
  <2> QED BY <2>1, <2>2, <2>3
<1>2. CASE Seed
  BY <1>2 DEF Seed, world, flags, ghosts, ArrIsTyped, DataTyped, SeenTyped, TxTyped, RunTyped, Points, Seeds
<1>3. CASE Catalog
  BY <1>3 DEF Catalog, world, flags, ghosts, ArrIsTyped, DataTyped, SeenTyped, TxTyped, RunTyped, Points
<1>4. CASE CatalogFails
  BY <1>4, SpendTyped DEF CatalogFails, RequestFails, Stamp, ArrIsTyped, DataTyped, SeenTyped, TxTyped, RunTyped, Points, Bounds
<1>5. CASE Diff
  BY <1>5 DEF Diff, world, flags, ghosts, ArrIsTyped, DataTyped, SeenTyped, TxTyped, RunTyped, Points, Targets
<1>6. CASE Signatures
  <2>1. PICK T \in SUBSET Titles : \E F \in Failures(T) :
          /\ ReadLists(T, F)
          /\ todo' \subseteq todo \cup T
    BY <1>6 DEF Signatures
  <2>2. ArrIsTyped' /\ DataTyped' /\ SeenTyped' /\ TxTyped'
    BY <1>6, <2>1, ReadTyped DEF Signatures, flags, ArrIsTyped, DataTyped, SeenTyped, TxTyped
  <2>3. RunTyped'
    BY <1>6, <2>1 DEF Signatures, RunTyped, Points
  <2> QED BY <2>2, <2>3
<1>7. ASSUME NEW t \in Titles, ItemGone(t) PROVE RowsTyped'
  <2>1. TxTyped'
    BY <1>7, GoneRows, PutTyped DEF ItemGone, DataTyped
  <2>2. ArrIsTyped' /\ DataTyped' /\ SeenTyped'
    BY <1>7, SpendTyped DEF ItemGone, RequestFails, flags, ArrIsTyped, DataTyped, SeenTyped, Bounds
  <2>3. RunTyped'
    BY <1>7 DEF ItemGone, RunTyped
  <2> QED BY <2>1, <2>2, <2>3
<1>8. ASSUME NEW t \in Titles, Item(t) PROVE RowsTyped'
  <2>1. item' \in [t: Titles, st: States]
    BY <1>8, UnitFacts DEF Item, ArrIsTyped, RunTyped
  <2> QED BY <1>8, <2>1 DEF Item, world, flags, ghosts, ArrIsTyped, DataTyped, SeenTyped, TxTyped, RunTyped, Points
<1>9. CASE List
  <2>1. item.t \in Titles /\ item.st \in States
    BY DEF RunTyped
  <2>2. PICK T \in SUBSET {item.t}, F \in SUBSET Titles :
          /\ F \in Failures(T) /\ ReadLists(T, F)
          /\ \/ tx' = Put(item.t, Targeted(item.t, item.st, ListOf(item.t, F).eps)) /\ UNCHANGED db
             \/ db' = Merged(Only(item.t, Upserted(item.t, item.st, ListOf(item.t, F).eps))) /\ UNCHANGED tx
             \/ tx' = Put(item.t, Upserted(item.t, item.st, Nothing)) /\ UNCHANGED db
    BY <1>9, <2>1 DEF List, Failures
  <2>3. /\ Targeted(item.t, item.st, ListOf(item.t, F).eps) \in [UnitsOf(item.t) -> Rows]
        /\ Upserted(item.t, item.st, ListOf(item.t, F).eps) \in [UnitsOf(item.t) -> Rows]
        /\ Upserted(item.t, item.st, Nothing) \in [UnitsOf(item.t) -> Rows]
    BY <2>1, ListFacts, TargetedRows, UpsertedRows DEF ArrIsTyped, DataTyped
  <2>4. db' \in [Units -> Rows]
    BY <2>1, <2>2, <2>3, OnlyRows DEF DataTyped
  <2>5. TxTyped'
    BY <2>1, <2>2, <2>3, PutTyped DEF TxTyped
  <2>6. ArrIsTyped' /\ DataTyped' /\ SeenTyped'
    BY <1>9, <2>1, <2>2, <2>4, ReadTyped DEF List, flags, ArrIsTyped, DataTyped, SeenTyped
  <2>7. RunTyped'
    BY <1>9 DEF List, RunTyped, Points
  <2> QED BY <2>5, <2>6, <2>7
<1>10. CASE Commit
  <2>1. db' \in [Units -> Rows]
    BY <1>10, MergedRows DEF Commit, DataTyped, TxTyped
  <2>2. TxTyped'
    BY <1>10, NoTx DEF Commit
  <2>3. Reported \subseteq Units
    BY DEF Reported
  <2> QED BY <1>10, <2>1, <2>2, <2>3
          DEF Commit, world, flags, ghosts, ArrIsTyped, DataTyped, SeenTyped, RunTyped, Points
<1>11. CASE FullMark
  <2>1. Merged(tx) \in [Units -> Rows]
    BY MergedRows DEF DataTyped, TxTyped
  <2>2. db' \in [Units -> Rows]
    BY <1>11, <2>1, RowFacts DEF FullMark
  <2>3. TxTyped'
    BY <1>11, NoTx DEF FullMark
  <2> QED BY <1>11, <2>2, <2>3
          DEF FullMark, Stamp, world, ghosts, ArrIsTyped, DataTyped, SeenTyped, RunTyped, Points
<1>12. CASE Passes
  BY <1>12 DEF Passes, Materialized, world, flags, ghosts, ArrIsTyped, DataTyped, SeenTyped, TxTyped, RunTyped, Points
<1>13. CASE Finish
  BY <1>13 DEF Finish, Absent, States, world, flags, ghosts, ArrIsTyped, DataTyped, SeenTyped, TxTyped, RunTyped, Points
<1>14. CASE Raises
  <2>1. TxTyped'
    BY <1>14, NoTx DEF Raises
  <2> QED BY <1>14, <2>1, SpendTyped
          DEF Raises, RequestFails, flags, ArrIsTyped, DataTyped, SeenTyped, RunTyped, Points, Bounds
<1> QED BY <1>1, <1>2, <1>3, <1>4, <1>5, <1>6, <1>7, <1>8, <1>9, <1>10, <1>11, <1>12, <1>13, <1>14 DEF SyncStep

LEMMA JobTyped == ASSUME RowsTyped, NEW t \in Titles, Job(t) PROVE RowsTyped'
<1> USE DEF RowsTyped
<1>1. PICK F \in Failures({t}) :
        /\ IF arr[<<t, 0>>] = "none"
             THEN F = {} /\ db' = Merged(Only(t, Gone(t))) /\ UNCHANGED cache
             ELSE /\ db' = Merged(Only(t, Targeted(t, arr[<<t, 0>>], ListOf(t, F).eps)))
                  /\ cache' = IF setting.kind = "sonarr"
                                THEN [cache EXCEPT ![t] = ListOf(t, F)] ELSE cache
        /\ used' = [used EXCEPT !["jobs"] = @ + 1, !["fails"] = @ + Cardinality(F)]
        /\ misread' = misread \cup F
  BY DEF Job
<1>2. /\ Gone(t) \in [UnitsOf(t) -> Rows]
      /\ Targeted(t, arr[<<t, 0>>], ListOf(t, F).eps) \in [UnitsOf(t) -> Rows]
      /\ ListOf(t, F) \in ListType
  BY ListFacts, GoneRows, TargetedRows, UnitFacts DEF ArrIsTyped, DataTyped
<1>3. db' \in [Units -> Rows] /\ cache' \in [Titles -> ListType]
  BY <1>1, <1>2, OnlyRows DEF DataTyped
<1>4. F \subseteq Titles /\ Cardinality(F) \in Nat
  BY FailureFacts
<1>5. ArrIsTyped'
  BY <1>1, <1>4 DEF Job, ArrIsTyped, Bounds
<1>6. DataTyped'
  BY <1>3, UnitFacts DEF Job, DataTyped
<1>7. SeenTyped'
  BY <1>1, <1>4 DEF Job, flags, SeenTyped
<1>8. TxTyped' /\ RunTyped'
  BY DEF Job, syncing, TxTyped, RunTyped
<1> QED BY <1>5, <1>6, <1>7, <1>8

LEMMA ArrTyped ==
  ASSUME RowsTyped, NEW new \in [Units -> States], ArrBecomes(new)
  PROVE  RowsTyped'
BY SpendTyped
   DEF ArrBecomes, Bounds, flags, syncing, RowsTyped, ArrIsTyped, DataTyped, SeenTyped, TxTyped, RunTyped

\* What the Arr says of a unit after each of its steps.
LEMMA ArrSteps ==
  ASSUME RowsTyped
  PROVE  /\ \A t \in Titles : ArrRemoves(t) =>
              \E new \in [Units -> States] : ArrBecomes(new) /\ \A u \in Units : new[u] = IF u[1] = t THEN "none" ELSE arr[u]
         /\ \A t \in Titles : ArrAdds(t) =>
              \E new \in [Units -> States] : ArrBecomes(new) /\ \A u \in Units : new[u] =
                IF u[1] = t /\ (u[2] = 0 \/ u[2] \in setting.episodes) THEN "open" ELSE arr[u]
         /\ \A v \in Units, st \in States : UnitChanges(v, st) =>
              \E new \in [Units -> States] : ArrBecomes(new) /\ \A u \in Units : new[u] = IF u = v THEN st ELSE arr[u]
<1> USE DEF RowsTyped, ArrIsTyped, States
<1>1. ASSUME NEW t \in Titles, ArrRemoves(t)
      PROVE  \E new \in [Units -> States] : ArrBecomes(new) /\ \A u \in Units : new[u] = IF u[1] = t THEN "none" ELSE arr[u]
  <2> DEFINE new == [u \in Units |-> IF u[1] = t THEN "none" ELSE arr[u]]
  <2>1. ArrBecomes(new)
    BY <1>1 DEF ArrRemoves
  <2>2. new \in [Units -> States] /\ \A u \in Units : new[u] = IF u[1] = t THEN "none" ELSE arr[u]
    OBVIOUS
  <2> QED BY <2>1, <2>2
<1>2. ASSUME NEW t \in Titles, ArrAdds(t)
      PROVE  \E new \in [Units -> States] : ArrBecomes(new) /\ \A u \in Units : new[u] =
                IF u[1] = t /\ (u[2] = 0 \/ u[2] \in setting.episodes) THEN "open" ELSE arr[u]
  <2> DEFINE new == [u \in Units |-> IF u[1] = t /\ (u[2] = 0 \/ u[2] \in setting.episodes)
                                       THEN "open" ELSE arr[u]]
  <2>1. ArrBecomes(new)
    BY <1>2 DEF ArrAdds
  <2>2. new \in [Units -> States] /\ \A u \in Units : new[u] =
                IF u[1] = t /\ (u[2] = 0 \/ u[2] \in setting.episodes) THEN "open" ELSE arr[u]
    OBVIOUS
  <2> QED BY <2>1, <2>2
<1>3. ASSUME NEW v \in Units, NEW st \in States, UnitChanges(v, st)
      PROVE  \E new \in [Units -> States] : ArrBecomes(new) /\ \A u \in Units : new[u] = IF u = v THEN st ELSE arr[u]
  <2> DEFINE new == [arr EXCEPT ![v] = st]
  <2>1. ArrBecomes(new)
    BY <1>3 DEF UnitChanges
  <2>2. new \in [Units -> States] /\ \A u \in Units : new[u] = IF u = v THEN st ELSE arr[u]
    OBVIOUS
  <2> QED BY <2>1, <2>2
<1> QED BY <1>1, <1>2, <1>3

LEMMA CatalogTypedStep == ASSUME RowsTyped, [CatalogNext]_catalogVars PROVE RowsTyped'
<1> USE DEF RowsTyped
<1>1. CASE BootSync
  BY <1>1, BeginTyped DEF BootSync
<1>2. CASE SyncStep
  BY <1>2, SyncTyped
<1>3. CASE Crash
  <2>1. TxTyped'
    BY <1>3, NoTx DEF Crash
  <2>2. cache' \in [Titles -> ListType]
    BY <1>3, ListFacts DEF Crash, ArrIsTyped, DataTyped
  <2> QED BY <1>3, <2>1, <2>2, SpendTyped
          DEF Crash, Absent, States, flags, ArrIsTyped, DataTyped, SeenTyped, RunTyped, Points, Bounds
<1>4. CASE SpecialsOn
  BY <1>4, SpendTyped DEF SpecialsOn, syncing, ArrIsTyped, DataTyped, SeenTyped, TxTyped, RunTyped, Bounds
<1>5. ASSUME NEW m \in {"full", "lite"}, Scheduled(m) PROVE RowsTyped'
  BY <1>5, BeginTyped DEF Scheduled
<1>6. ASSUME NEW t \in Titles, Job(t) PROVE RowsTyped'
  BY <1>6, JobTyped
<1>7. ASSUME NEW t \in Titles, ArrRemoves(t) \/ ArrAdds(t) PROVE RowsTyped'
  BY <1>7, ArrSteps, ArrTyped
<1>8. ASSUME NEW t \in Titles, Expires(t) PROVE RowsTyped'
  <2>1. cache' \in [Titles -> ListType]
    BY <1>8, ListFacts DEF Expires, ArrIsTyped, DataTyped
  <2> QED BY <1>8, <2>1
          DEF Expires, world, flags, ghosts, syncing, ArrIsTyped, DataTyped, SeenTyped, TxTyped, RunTyped
<1>9. ASSUME NEW u \in Units, NEW st \in States, UnitChanges(u, st) PROVE RowsTyped'
  BY <1>9, ArrSteps, ArrTyped
<1>10. CASE UNCHANGED catalogVars
  BY <1>10 DEF catalogVars, world, flags, ghosts, syncing, ArrIsTyped, DataTyped, SeenTyped, TxTyped, RunTyped
<1> QED BY <1>1, <1>2, <1>3, <1>4, <1>5, <1>6, <1>7, <1>8, <1>9, <1>10 DEF CatalogNext

\* The rows, lists, flags and places of a sync keep their types.
THEOREM CatalogTyped == CatalogSpec => []CatalogTypeOK
BY CatalogInitTyped, CatalogTypedStep, RowsTypedIsTypeOK, PTL DEF CatalogSpec

-----------------------------------------------------------------------------
(* What holds besides *)

\* No episode without its title, neither in the catalog nor among the rows, and
\* a movie has no episodes.
Whole(f) == \A t \in Titles : f[<<t, 0>>] = "none" => \A u \in UnitsOf(t) : f[u] = "none"
ArrOK == /\ Whole(arr)
         /\ setting.kind = "radarr" => \A u \in Units : u[2] # 0 => arr[u] = "none"
TitleFirst(d, t) == ~Live(d, <<t, 0>>) => \A u \in UnitsOf(t) : ~Live(d, u)
RowsOK == /\ \A t \in Titles : TitleFirst(db, t)
          /\ \A t \in DOMAIN tx : TitleFirst(tx[t], t)

\* When a transaction is open, and what a sync has to do is in its catalog.
Compare == {"diff", "signatures", "titles", "list"}
PlaceOK == /\ pc \notin {"titles", "list"} => DOMAIN tx = {}
           /\ mode = "full" /\ setting.kind = "sonarr" => DOMAIN tx = {}
           /\ pc \in {"diff", "signatures"} => mode = "lite"
           /\ pc \in Compare => Whole(snap)
           /\ pc = "list" => item.st # "none"
           /\ pc \notin Compare => todo = {}
           /\ mode = "full" => \A t \in todo : snap[<<t, 0>>] # "none"

\* What is missing from the Arr, a list or the catalog was really away, or the
\* request for it failed, and an open transaction marks nothing else.
Excused(u) == u \in away \/ u[1] \in misread
AwayOK == pc # "down" => \A u \in Units : arr[u] = "none" => u \in away
CacheOK == \A t \in Titles : cache[t].on =>
             /\ pc # "down"
             /\ \A e \in Episodes : cache[t].eps[e] = "none" => Excused(<<t, e>>)
SnapOK == pc \in Compare => \A u \in Units : snap[u] = "none" => u \in away
TxOK == \A t \in DOMAIN tx : \A u \in UnitsOf(t) : Live(db, u) /\ ~Live(tx[t], u) => Excused(u)

CatalogSound == RowsTyped /\ ArrOK /\ RowsOK /\ PlaceOK /\ AwayOK /\ CacheOK /\ SnapOK /\ TxOK

LEMMA CatalogInitSound == CatalogInit => CatalogSound
<1> SUFFICES ASSUME CatalogInit PROVE CatalogSound
  OBVIOUS
<1>1. RowsTyped /\ pc = "down" /\ DOMAIN tx = {} /\ todo = {}
  BY CatalogInitTyped DEF CatalogInit, Empty
<1>2. ArrOK
  <2>1. setting \in Settings /\ \A u \in Units : arr[u] = IF u[1] \in setting.titles
              THEN IF u[2] = 0 \/ u[2] \in setting.episodes THEN "open" ELSE "none"
              ELSE "none"
    BY DEF CatalogInit
  <2>2. ASSUME NEW t \in Titles, arr[<<t, 0>>] = "none", NEW u \in UnitsOf(t)
        PROVE  arr[u] = "none"
    <3>1. <<t, 0>> \in Units /\ <<t, 0>>[1] = t /\ <<t, 0>>[2] = 0 /\ u \in Units /\ u[1] = t
      BY UnitFacts
    <3>2. t \notin setting.titles
      BY <2>1, <2>2, <3>1
    <3> QED BY <2>1, <3>1, <3>2
  <2>3. setting.kind = "radarr" => setting.episodes = {}
    BY <2>1, CatalogAssumption
  <2> QED BY <2>1, <2>2, <2>3 DEF ArrOK, Whole
<1>3. RowsOK
  BY <1>1, UnitFacts DEF CatalogInit, RowsOK, TitleFirst, Live, NoRow
<1>4. PlaceOK /\ AwayOK /\ SnapOK /\ TxOK
  BY <1>1 DEF PlaceOK, AwayOK, SnapOK, TxOK, Compare
<1>5. CacheOK
  BY DEF CatalogInit, CacheOK, NoList
<1> QED BY <1>1, <1>2, <1>3, <1>4, <1>5 DEF CatalogSound

\* Only the Arr changes the Arr.
LEMMA ArrStep ==
  ASSUME CatalogSound, [CatalogNext]_catalogVars
  PROVE  /\ setting' = setting /\ ArrOK'
         /\ arr' = arr \/ \E new \in [Units -> States] : ArrBecomes(new) /\ Whole(new)
<1> USE DEF CatalogSound, RowsTyped
<1>1. CASE setting' = setting /\ arr' = arr
  BY <1>1 DEF ArrOK, Whole
<1>2. ASSUME NEW new \in [Units -> States], ArrBecomes(new), Whole(new),
             setting.kind = "radarr" => \A u \in Units : u[2] # 0 => new[u] = "none"
      PROVE  /\ setting' = setting /\ ArrOK'
             /\ \E n \in [Units -> States] : ArrBecomes(n) /\ Whole(n)
  BY <1>2 DEF ArrBecomes, ArrOK, Whole
<1>3. setting.kind = "radarr" => setting.episodes = {}
  BY CatalogAssumption DEF ArrIsTyped
<1>4. ASSUME NEW t \in Titles, ArrRemoves(t) PROVE ArrOK' /\ setting' = setting /\ \E n \in [Units -> States] : ArrBecomes(n) /\ Whole(n)
  <2>1. PICK new \in [Units -> States] : ArrBecomes(new) /\ \A u \in Units : new[u] = IF u[1] = t THEN "none" ELSE arr[u]
    BY <1>4, ArrSteps
  <2>2. Whole(new)
    <3> SUFFICES ASSUME NEW s \in Titles, new[<<s, 0>>] = "none", NEW u \in UnitsOf(s) PROVE new[u] = "none"
      BY DEF Whole
    <3>1. s # t => arr[<<s, 0>>] = "none"
      BY <2>1, UnitFacts
    <3> QED BY <2>1, <3>1, UnitFacts DEF ArrOK, Whole
  <2> QED BY <1>2, <2>1, <2>2 DEF ArrOK
<1>5. ASSUME NEW t \in Titles, ArrAdds(t) PROVE ArrOK' /\ setting' = setting /\ \E n \in [Units -> States] : ArrBecomes(n) /\ Whole(n)
  <2>1. PICK new \in [Units -> States] : ArrBecomes(new) /\ \A u \in Units : new[u] =
                IF u[1] = t /\ (u[2] = 0 \/ u[2] \in setting.episodes) THEN "open" ELSE arr[u]
    BY <1>5, ArrSteps
  <2>2. Whole(new)
    <3> SUFFICES ASSUME NEW s \in Titles, new[<<s, 0>>] = "none", NEW u \in UnitsOf(s) PROVE new[u] = "none"
      BY DEF Whole
    <3>1. s # t /\ arr[<<s, 0>>] = "none"
      BY <2>1, UnitFacts
    <3> QED BY <2>1, <3>1, UnitFacts DEF ArrOK, Whole
  <2> QED BY <1>2, <1>3, <2>1, <2>2 DEF ArrOK
<1>6. ASSUME NEW v \in Units, NEW st \in States, UnitChanges(v, st) PROVE ArrOK' /\ setting' = setting /\ \E n \in [Units -> States] : ArrBecomes(n) /\ Whole(n)
  <2>1. PICK new \in [Units -> States] : ArrBecomes(new) /\ \A u \in Units : new[u] = IF u = v THEN st ELSE arr[u]
    BY <1>6, ArrSteps
  <2>2. /\ arr[<<v[1], 0>>] # "none" /\ (v[2] = 0 => st # "none")
        /\ v[2] # 0 => v[2] \in setting.episodes
    BY <1>6 DEF UnitChanges
  <2>3. Whole(new)
    <3> SUFFICES ASSUME NEW s \in Titles, new[<<s, 0>>] = "none", NEW u \in UnitsOf(s) PROVE new[u] = "none"
      BY DEF Whole
    <3>1. v # <<s, 0>> /\ arr[<<s, 0>>] = "none"
      BY <2>1, <2>2, UnitFacts
    <3>2. v[1] # s
      BY <2>2, <3>1
    <3> QED BY <2>1, <3>1, <3>2, UnitFacts DEF ArrOK, Whole
  <2> QED BY <1>2, <1>3, <2>1, <2>2, <2>3 DEF ArrOK
<1>7. CASE SyncStep
  BY <1>1, <1>7 DEF SyncStep, Specials, Seed, Catalog, CatalogFails, Diff, Signatures, ItemGone, Item,
                    List, Commit, FullMark, Passes, Finish, Raises, world
<1>8. CASE BootSync \/ Crash \/ SpecialsOn \/ UNCHANGED catalogVars
  BY <1>1, <1>8 DEF BootSync, Begin, Crash, SpecialsOn, catalogVars, world
<1>9. ASSUME NEW m \in {"full", "lite"}, Scheduled(m) PROVE ArrOK' /\ setting' = setting /\ arr' = arr
  BY <1>1, <1>9 DEF Scheduled, Begin, world
<1>10. ASSUME NEW t \in Titles, Job(t) \/ Expires(t) PROVE ArrOK' /\ setting' = setting /\ arr' = arr
  BY <1>1, <1>10 DEF Job, Expires, world
<1> QED BY <1>4, <1>5, <1>6, <1>7, <1>8, <1>9, <1>10, <1>1 DEF CatalogNext

LEMMA BeginIs ==
  ASSUME NEW m \in {"full", "lite"}, NEW b \in BOOLEAN, Begin(m, b)
  PROVE  /\ pc' \in {"catalog", "specials", "seed"} /\ mode' = m /\ todo' = {} /\ DOMAIN tx' = {}
         /\ arr' = arr /\ db' = db /\ cache' = cache /\ setting' = setting
BY NoTx DEF Begin, world

LEMMA PlaceStep == ASSUME CatalogSound, [CatalogNext]_catalogVars PROVE PlaceOK'
<1> USE DEF CatalogSound, RowsTyped, PlaceOK, Compare
<1> setting' = setting
  BY ArrStep
<1>1. CASE UNCHANGED <<pc, mode, snap, todo, item, tx>>
  BY <1>1 DEF Whole
<1>2. ASSUME NEW m \in {"full", "lite"}, NEW b \in BOOLEAN, Begin(m, b) PROVE PlaceOK'
  BY <1>2, BeginIs
<1>3. CASE Specials \/ Seed
  BY <1>3 DEF Specials, Seed
<1>4. CASE Catalog
  BY <1>4 DEF Catalog, ArrOK, RunTyped, Whole
<1>5. CASE CatalogFails \/ Passes \/ Finish
  BY <1>5 DEF CatalogFails, Passes, Finish, Whole
<1>6. CASE Diff \/ Signatures
  BY <1>6 DEF Diff, Signatures, Whole
<1>7. ASSUME NEW t \in Titles, ItemGone(t) PROVE PlaceOK'
  BY <1>7 DEF ItemGone, Whole
<1>8. ASSUME NEW t \in Titles, Item(t) PROVE PlaceOK'
  <2>1. item'.st # "none"
    BY <1>8 DEF Item, RunTyped
  <2> QED BY <1>8, <2>1 DEF Item, Whole
<1>9. CASE List
  <2>1. mode = "full" /\ setting.kind = "sonarr" => tx' = tx
    BY <1>9 DEF List
  <2> QED BY <1>9, <2>1 DEF List, Whole
<1>10. CASE Commit \/ FullMark \/ Raises
  <2>1. DOMAIN tx' = {}
    BY <1>10, NoTx DEF Commit, FullMark, Raises
  <2> QED BY <1>10, <2>1 DEF Commit, FullMark, Raises, Whole
<1>11. CASE Crash
  <2>1. DOMAIN tx' = {}
    BY <1>11, NoTx DEF Crash
  <2> QED BY <1>11, <2>1 DEF Crash
<1>12. CASE SpecialsOn
  BY <1>1, <1>12 DEF SpecialsOn, syncing
<1>13. ASSUME NEW t \in Titles, Job(t) \/ Expires(t) PROVE PlaceOK'
  BY <1>1, <1>13 DEF Job, Expires, syncing
<1>14. ASSUME NEW new \in [Units -> States], ArrBecomes(new) PROVE PlaceOK'
  BY <1>1, <1>14 DEF ArrBecomes, syncing
<1>15. CASE UNCHANGED catalogVars
  BY <1>1, <1>15 DEF catalogVars, syncing
<1>16. CASE BootSync
  BY <1>2, <1>16 DEF BootSync
<1>17. ASSUME NEW m \in {"full", "lite"}, Scheduled(m) PROVE PlaceOK'
  BY <1>2, <1>17 DEF Scheduled
<1>18. ASSUME NEW t \in Titles, ArrRemoves(t) \/ ArrAdds(t) PROVE PlaceOK'
  BY <1>14, <1>18, ArrSteps
<1>19. ASSUME NEW u \in Units, NEW st \in States, UnitChanges(u, st) PROVE PlaceOK'
  BY <1>14, <1>19, ArrSteps
<1> QED
  BY <1>3, <1>4, <1>5, <1>6, <1>7, <1>8, <1>9, <1>10, <1>11, <1>12, <1>13, <1>15, <1>16, <1>17, <1>18, <1>19
     DEF CatalogNext, SyncStep

\* An episode that the list lacks was away, or the request failed.
LEMMA ListExcused ==
  ASSUME CatalogSound, pc # "down", NEW t \in Titles, NEW F, F \subseteq misread',
         misread \subseteq misread', away \subseteq away'
  PROVE  \A e \in Episodes : ListOf(t, F).eps[e] = "none" => Excused(<<t, e>>)'
<1> SUFFICES ASSUME NEW e \in Episodes, ListOf(t, F).eps[e] = "none" PROVE Excused(<<t, e>>)'
  OBVIOUS
<1>0. <<t, e>> \in Units /\ <<t, e>>[1] = t
  BY UnitFacts
<1>1. CASE cache[t].on
  BY <1>0, <1>1 DEF ListOf, CatalogSound, CacheOK, Excused
<1>2. CASE ~cache[t].on /\ t \in F
  BY <1>0, <1>2 DEF Excused
<1>3. CASE ~cache[t].on /\ t \notin F
  <2>1. FreshList(t).eps[e] = "none"
    BY <1>3 DEF ListOf
  <2>2. arr[<<t, e>>] = "none"
    BY <2>1, ListFacts DEF CatalogSound, RowsTyped, ArrIsTyped, DataTyped
  <2> QED BY <1>0, <2>2 DEF CatalogSound, AwayOK, Excused
<1> QED BY <1>1, <1>2, <1>3

LEMMA ReadExcused ==
  ASSUME CatalogSound, pc # "down", NEW T \in SUBSET Titles, NEW F \in Failures(T), ReadLists(T, F),
         away' = away, arr' = arr, pc' # "down"
  PROVE  AwayOK' /\ CacheOK'
<1>1. F \subseteq misread' /\ misread \subseteq misread'
  BY DEF ReadLists
<1>2. AwayOK'
  BY DEF CatalogSound, AwayOK
<1>3. ASSUME NEW t \in Titles, cache'[t].on, NEW e \in Episodes, cache'[t].eps[e] = "none"
      PROVE  Excused(<<t, e>>)'
  <2>1. cache'[t] = ListOf(t, F) \/ cache'[t] = cache[t]
    BY DEF ReadLists
  <2>2. CASE cache'[t] = ListOf(t, F)
    BY <1>1, <1>3, <2>2, ListExcused
  <2>3. CASE cache'[t] = cache[t]
    BY <1>1, <1>3, <2>3 DEF CatalogSound, CacheOK, Excused
  <2> QED BY <2>1, <2>2, <2>3
<1> QED BY <1>2, <1>3 DEF CacheOK

LEMMA SeenStep == ASSUME CatalogSound, [CatalogNext]_catalogVars PROVE AwayOK' /\ CacheOK' /\ SnapOK'
<1> DEFINE Goal == AwayOK' /\ CacheOK' /\ SnapOK'
<1> USE DEF CatalogSound, RowsTyped
<1>1. ASSUME UNCHANGED <<arr, away, snap>>, pc' \in Compare => pc \in Compare \/ snap = arr,
             pc # "down", pc' # "down", misread \subseteq misread', cache' = cache
      PROVE  Goal
  BY <1>1 DEF AwayOK, CacheOK, SnapOK, Excused
<1>2. ASSUME NEW m \in {"full", "lite"}, NEW b \in BOOLEAN, Begin(m, b) PROVE Goal
  <2>1. pc' \in {"catalog", "specials", "seed"} /\ arr' = arr /\ cache' = cache
    BY <1>2, BeginIs
  <2>2. AwayOK'
    BY <1>2, <2>1 DEF Begin, AwayOK
  <2>3. SnapOK'
    BY <2>1 DEF SnapOK, Compare
  <2>4. ASSUME NEW t \in Titles, cache[t].on, NEW e \in Episodes, cache[t].eps[e] = "none"
        PROVE  <<t, e>> \in away'
    BY <1>2, <2>4, UnitFacts DEF Begin
  <2> QED BY <2>1, <2>2, <2>3, <2>4 DEF CacheOK, Excused
<1>3. CASE Specials
  <2>1. UNCHANGED <<arr, away>> /\ pc = "specials" /\ pc' = "seed"
    BY <1>3 DEF Specials
  <2>2. SnapOK'
    BY <2>1 DEF SnapOK, Compare
  <2>3. \/ \E T \in SUBSET Titles : \E F \in Failures(T) : ReadLists(T, F)
        \/ UNCHANGED <<cache, misread>>
    BY <1>3 DEF Specials
  <2>4. AwayOK' /\ CacheOK'
    BY <2>1, <2>3, ReadExcused DEF AwayOK, CacheOK, Excused
  <2> QED BY <2>2, <2>4
<1>4. CASE Catalog
  <2>1. SnapOK'
    BY <1>4 DEF Catalog, SnapOK, AwayOK, ghosts
  <2> QED BY <1>4, <2>1 DEF Catalog, AwayOK, CacheOK, Excused, world, ghosts
<1>5. CASE CatalogFails \/ Passes \/ Finish \/ Seed
  <2>1. SnapOK'
    BY <1>5 DEF CatalogFails, Passes, Finish, Seed, SnapOK, Compare
  <2> QED BY <1>5, <2>1
          DEF CatalogFails, Passes, Finish, Seed, AwayOK, CacheOK, Excused, world, ghosts
<1>6. CASE Diff
  BY <1>1, <1>6 DEF Diff, Compare, world, ghosts
<1>7. CASE Signatures
  <2>1. UNCHANGED <<arr, away, snap>> /\ pc = "signatures" /\ pc' = "titles"
    BY <1>7 DEF Signatures
  <2>2. \E T \in SUBSET Titles : \E F \in Failures(T) : ReadLists(T, F)
    BY <1>7 DEF Signatures
  <2>3. AwayOK' /\ CacheOK'
    BY <2>1, <2>2, ReadExcused
  <2> QED BY <2>1, <2>3 DEF SnapOK, Compare
<1>8. ASSUME NEW t \in Titles, ItemGone(t) PROVE Goal
  BY <1>1, <1>8 DEF ItemGone, Compare
<1>9. ASSUME NEW t \in Titles, Item(t) PROVE Goal
  BY <1>1, <1>9 DEF Item, Compare, world, ghosts
<1>10. CASE List
  <2>1. UNCHANGED <<arr, away, snap>> /\ pc = "list" /\ pc' = "titles"
    BY <1>10 DEF List
  <2>2. \E T \in SUBSET Titles : \E F \in Failures(T) : ReadLists(T, F)
    BY <1>10 DEF List, RunTyped
  <2>3. AwayOK' /\ CacheOK'
    BY <2>1, <2>2, ReadExcused
  <2> QED BY <2>1, <2>3 DEF SnapOK, Compare
<1>11. CASE Commit \/ FullMark
  BY <1>1, <1>11 DEF Commit, FullMark, Compare, world, ghosts
<1>12. CASE Raises
  BY <1>1, <1>12 DEF Raises, Compare
<1>13. CASE Crash
  <2>1. pc' = "down" /\ \A t \in Titles : cache'[t] = NoList
    BY <1>13 DEF Crash
  <2> QED BY <2>1 DEF AwayOK, CacheOK, SnapOK, Compare, NoList
<1>14. ASSUME UNCHANGED <<arr, away, snap, pc, misread, cache>> PROVE Goal
  BY <1>14 DEF AwayOK, CacheOK, SnapOK, Excused
<1>15. CASE SpecialsOn
  BY <1>14, <1>15 DEF SpecialsOn, syncing
<1>16. ASSUME NEW t \in Titles, Job(t) PROVE Goal
  <2>1. UNCHANGED <<arr, away, snap, pc>> /\ pc # "down"
    BY <1>16 DEF Job, syncing
  <2>2. PICK F \in Failures({t}) : /\ misread' = misread \cup F
                                   /\ cache' = cache \/ cache' = [cache EXCEPT ![t] = ListOf(t, F)]
    BY <1>16 DEF Job
  <2>3. AwayOK' /\ SnapOK'
    BY <2>1 DEF AwayOK, SnapOK
  <2>4. ASSUME NEW s \in Titles, cache'[s].on, NEW e \in Episodes, cache'[s].eps[e] = "none"
        PROVE  Excused(<<s, e>>)'
    <3>1. cache'[s] = cache[s] \/ (s = t /\ cache'[s] = ListOf(t, F))
      <4>1. cache \in [Titles -> ListType]
        BY DEF DataTyped
      <4>2. CASE cache' = cache
        BY <4>2
      <4>3. CASE cache' = [cache EXCEPT ![t] = ListOf(t, F)]
        BY <4>1, <4>3
      <4> QED BY <2>2, <4>2, <4>3
    <3>2. CASE cache'[s] = cache[s]
      BY <2>1, <2>2, <2>4, <3>2 DEF CacheOK, Excused
    <3>3. CASE s = t /\ cache'[s] = ListOf(t, F)
      BY <2>1, <2>2, <2>4, <3>3, ListExcused
    <3> QED BY <3>1, <3>2, <3>3
  <2> QED BY <2>1, <2>3, <2>4 DEF CacheOK
<1>17. ASSUME NEW t \in Titles, Expires(t) PROVE Goal
  <2>1. UNCHANGED <<arr, away, snap, pc, misread>> /\ \A s \in Titles : cache'[s] = cache[s] \/ cache'[s] = NoList
    BY <1>17 DEF Expires, world, ghosts, syncing, DataTyped
  <2> QED BY <2>1 DEF AwayOK, CacheOK, SnapOK, Excused, NoList
<1>18. ASSUME NEW new \in [Units -> States], ArrBecomes(new) PROVE Goal
  <2>1. /\ arr' = new /\ away' = away \cup {u \in Units : new[u] = "none"}
        /\ UNCHANGED <<snap, pc, misread, cache>>
    BY <1>18 DEF ArrBecomes, syncing
  <2> QED BY <2>1 DEF AwayOK, CacheOK, SnapOK, Excused
<1>19. CASE UNCHANGED catalogVars
  BY <1>14, <1>19 DEF catalogVars, world, ghosts, syncing
<1>20. CASE BootSync
  BY <1>2, <1>20 DEF BootSync
<1>21. ASSUME NEW m \in {"full", "lite"}, Scheduled(m) PROVE Goal
  BY <1>2, <1>21 DEF Scheduled
<1>22. ASSUME NEW t \in Titles, ArrRemoves(t) \/ ArrAdds(t) PROVE Goal
  BY <1>18, <1>22, ArrSteps
<1>23. ASSUME NEW u \in Units, NEW st \in States, UnitChanges(u, st) PROVE Goal
  BY <1>18, <1>23, ArrSteps
<1> QED
  BY <1>3, <1>4, <1>5, <1>6, <1>7, <1>8, <1>9, <1>10, <1>11, <1>12, <1>13, <1>15, <1>16, <1>17, <1>19,
     <1>20, <1>21, <1>22, <1>23
     DEF CatalogNext, SyncStep

-----------------------------------------------------------------------------
(* Which rows die *)

Removals == \A u \in Units : Live(db, u) /\ ~Live(db, u)' =>
              u \in away \/ arr[u] = "none" \/ u[1] \in misread'

LEMMA SameTitle ==
  ASSUME NEW d, NEW e, NEW t \in Titles, \A u \in UnitsOf(t) : d[u] = e[u], TitleFirst(d, t)
  PROVE  TitleFirst(e, t)
BY UnitFacts DEF TitleFirst, Live

LEMMA LiveTitle ==
  ASSUME NEW d, NEW t, d[<<t, 0>>] = Row("open") \/ d[<<t, 0>>] = Row("held") \/ d[<<t, 0>>] = Row("file")
  PROVE  Live(d, <<t, 0>>) /\ TitleFirst(d, t)
BY DEF TitleFirst, Live, Row

LEMMA GoodTitle ==
  ASSUME NEW d, NEW t, NEW st \in States, st # "none", d[<<t, 0>>] = Row(st)
  PROVE  Live(d, <<t, 0>>) /\ TitleFirst(d, t)
BY LiveTitle DEF States

\* A step that writes the rows of one title.
LEMMA OneTitle ==
  ASSUME CatalogSound, NEW t \in Titles, NEW rows \in [UnitsOf(t) -> Rows],
         db' = Merged(Only(t, rows)), TitleFirst(rows, t),
         \A u \in UnitsOf(t) : Live(db, u) /\ ~Live(rows, u) =>
           u \in away \/ arr[u] = "none" \/ u[1] \in misread'
  PROVE  /\ \A s \in Titles : TitleFirst(db', s)
         /\ \A s \in Titles \ {t} : \A u \in UnitsOf(s) : db'[u] = db[u]
         /\ Removals
<1> USE DEF CatalogSound, RowsTyped
<1>1. \A s \in Titles : \A u \in UnitsOf(s) : db'[u] = IF s = t THEN rows[u] ELSE db[u]
  BY OnlyRows DEF DataTyped
<1>2. ASSUME NEW s \in Titles PROVE TitleFirst(db', s)
  <2>1. CASE s = t
    BY <1>1, <2>1, SameTitle
  <2>2. CASE s # t
    <3>1. TitleFirst(db, s)
      BY DEF RowsOK
    <3>2. \A u \in UnitsOf(s) : db[u] = db'[u]
      BY <1>1, <2>2
    <3> QED BY <3>1, <3>2, SameTitle
  <2> QED BY <2>1, <2>2
<1>3. ASSUME NEW u \in Units, Live(db, u), ~Live(db', u)
      PROVE  u \in away \/ arr[u] = "none" \/ u[1] \in misread'
  <2>1. u[1] \in Titles /\ u \in UnitsOf(u[1])
    BY UnitTitle
  <2>2. CASE u[1] = t
    <3>1. db'[u] = rows[u]
      BY <1>1, <2>1, <2>2
    <3> QED BY <1>3, <2>1, <2>2, <3>1 DEF Live
  <2>3. CASE u[1] # t
    <3>1. db'[u] = db[u]
      BY <1>1, <2>1, <2>3
    <3> QED BY <1>3, <3>1 DEF Live
  <2> QED BY <2>2, <2>3
<1>4. Removals
  BY <1>3 DEF Removals
<1> QED BY <1>1, <1>2, <1>4

\* A step that puts the rows of one title into the transaction.
LEMMA OneInTx ==
  ASSUME CatalogSound, NEW t \in Titles, NEW rows \in [UnitsOf(t) -> Rows],
         tx' = Put(t, rows), TitleFirst(rows, t), db' = db, away' = away, misread \subseteq misread',
         \A u \in UnitsOf(t) : Live(db, u) /\ ~Live(rows, u) => Excused(u)'
  PROVE  RowsOK' /\ TxOK' /\ Removals
<1> USE DEF CatalogSound, RowsTyped
<1>1. DOMAIN tx' = DOMAIN tx \cup {t} /\ \A s \in DOMAIN tx' : tx'[s] = IF s = t THEN rows ELSE tx[s]
  BY PutTyped
<1>2. RowsOK'
  BY <1>1 DEF RowsOK
<1>3. TxOK'
  BY <1>1 DEF TxOK, Excused
<1> QED BY <1>2, <1>3 DEF Removals

\* A step that commits nothing and opens or closes no transaction.
LEMMA NoRows ==
  ASSUME CatalogSound, db' = db, tx' = tx \/ DOMAIN tx' = {},
         DOMAIN tx' = {} \/ (away \subseteq away' /\ misread \subseteq misread')
  PROVE  RowsOK' /\ TxOK' /\ Removals
BY DEF CatalogSound, RowsOK, TxOK, Removals, Excused

LEMMA GoneStep == ASSUME CatalogSound, NEW t \in Titles, ItemGone(t) PROVE RowsOK' /\ TxOK' /\ Removals
<1> USE DEF CatalogSound, RowsTyped
<1>1. Gone(t) \in [UnitsOf(t) -> Rows] /\ TitleFirst(Gone(t), t)
  BY GoneRows DEF DataTyped, TitleFirst
<1>2. db' = db /\ away' = away /\ misread \subseteq misread' /\ tx' = Put(t, Gone(t)) /\ pc # "down"
  BY DEF ItemGone
<1>3. ASSUME NEW u \in UnitsOf(t) PROVE Excused(u)'
  <2>0. u \in Units /\ u[1] = t
    BY UnitFacts
  <2>1. CASE arr[<<t, 0>>] = "none"
    <3>1. arr[u] = "none"
      BY <2>1 DEF ArrOK, Whole
    <3> QED BY <1>2, <2>0, <3>1 DEF AwayOK, Excused
  <2>2. CASE misread' = misread \cup {t}
    BY <2>0, <2>2 DEF Excused
  <2> QED BY <2>1, <2>2 DEF ItemGone
<1> QED BY <1>1, <1>2, <1>3, OneInTx

LEMMA ListStep == ASSUME CatalogSound, List PROVE RowsOK' /\ TxOK' /\ Removals
<1> USE DEF CatalogSound, RowsTyped
<1>1. item.t \in Titles /\ item.st \in States /\ item.st # "none" /\ pc = "list"
  BY DEF List, RunTyped, PlaceOK
<1>2. PICK F \in SUBSET Titles :
        /\ misread' = misread \cup F
        /\ \/ tx' = Put(item.t, Targeted(item.t, item.st, ListOf(item.t, F).eps)) /\ UNCHANGED db
           \/ /\ mode = "full" /\ setting.kind = "sonarr"
              /\ db' = Merged(Only(item.t, Upserted(item.t, item.st, ListOf(item.t, F).eps)))
              /\ UNCHANGED tx
           \/ tx' = Put(item.t, Upserted(item.t, item.st, Nothing)) /\ UNCHANGED db
  <2>1. PICK T \in SUBSET {item.t} : \E F \in Failures(T) : ReadLists(T, F) /\
        (\/ tx' = Put(item.t, Targeted(item.t, item.st, ListOf(item.t, F).eps)) /\ UNCHANGED db
         \/ /\ mode = "full" /\ setting.kind = "sonarr"
            /\ db' = Merged(Only(item.t, Upserted(item.t, item.st, ListOf(item.t, F).eps)))
            /\ UNCHANGED tx
         \/ tx' = Put(item.t, Upserted(item.t, item.st, Nothing)) /\ UNCHANGED db)
    BY DEF List, RunTyped
  <2> QED BY <1>1, <2>1 DEF ReadLists, Failures
<1>3. away' = away /\ item' = item
  BY DEF List
<1>4. ListOf(item.t, F).eps \in Lists /\ Nothing \in Lists
  BY <1>1, ListFacts DEF ArrIsTyped, DataTyped
<1>5. CASE tx' = Put(item.t, Targeted(item.t, item.st, ListOf(item.t, F).eps)) /\ UNCHANGED db
  <2> DEFINE new == Targeted(item.t, item.st, ListOf(item.t, F).eps)
  <2>1. /\ new \in [UnitsOf(item.t) -> Rows] /\ new[<<item.t, 0>>] = Row(item.st)
        /\ \A u \in UnitsOf(item.t) : u[2] # 0 /\ ListOf(item.t, F).eps[u[2]] # "none" =>
             new[u] = Row(ListOf(item.t, F).eps[u[2]])
    BY <1>1, <1>4, TargetedRows DEF DataTyped
  <2>2. Live(new, <<item.t, 0>>) /\ TitleFirst(new, item.t)
    BY <1>1, <2>1, GoodTitle
  <2>3. ASSUME NEW u \in UnitsOf(item.t), ~Live(new, u) PROVE Excused(u)'
    <3>1. u[2] # 0 /\ u[2] \in Episodes /\ u = <<item.t, u[2]>>
      BY <1>1, <2>2, <2>3, UnitFacts
    <3>2. ListOf(item.t, F).eps[u[2]] \in States
      BY <1>4, <3>1 DEF Lists
    <3>3. ListOf(item.t, F).eps[u[2]] = "none"
      BY <2>1, <2>3, <3>1, <3>2, RowFacts DEF Live, LiveRow
    <3>4. \A e \in Episodes : ListOf(item.t, F).eps[e] = "none" => Excused(<<item.t, e>>)'
      BY <1>1, <1>2, <1>3, ListExcused
    <3> QED BY <1>3, <3>1, <3>3, <3>4
  <2> QED BY <1>1, <1>2, <1>3, <1>5, <2>1, <2>2, <2>3, OneInTx
<1>6. CASE tx' = Put(item.t, Upserted(item.t, item.st, Nothing)) /\ UNCHANGED db
  <2> DEFINE new == Upserted(item.t, item.st, Nothing)
  <2>1. /\ new \in [UnitsOf(item.t) -> Rows] /\ new[<<item.t, 0>>] = Row(item.st)
        /\ \A u \in UnitsOf(item.t) : Live(db, u) => Live(new, u)
    BY <1>1, <1>4, UpsertedRows DEF DataTyped
  <2>2. TitleFirst(new, item.t)
    BY <1>1, <2>1, GoodTitle
  <2> QED BY <1>1, <1>2, <1>3, <1>6, <2>1, <2>2, OneInTx
<1>7. CASE /\ mode = "full" /\ setting.kind = "sonarr"
           /\ db' = Merged(Only(item.t, Upserted(item.t, item.st, ListOf(item.t, F).eps)))
           /\ UNCHANGED tx
  <2> DEFINE new == Upserted(item.t, item.st, ListOf(item.t, F).eps)
  <2>1. /\ new \in [UnitsOf(item.t) -> Rows] /\ new[<<item.t, 0>>] = Row(item.st)
        /\ \A u \in UnitsOf(item.t) : Live(db, u) => Live(new, u)
    BY <1>1, <1>4, UpsertedRows DEF DataTyped
  <2>2. TitleFirst(new, item.t)
    BY <1>1, <2>1, GoodTitle
  <2>3. DOMAIN tx' = {}
    BY <1>7 DEF PlaceOK
  <2>4. /\ \A s \in Titles : TitleFirst(db', s)
        /\ Removals
    BY <1>1, <1>7, <2>1, <2>2, OneTitle
  <2> QED BY <2>3, <2>4 DEF RowsOK, TxOK
<1> QED BY <1>2, <1>5, <1>6, <1>7

LEMMA JobStep == ASSUME CatalogSound, NEW t \in Titles, Job(t) PROVE RowsOK' /\ TxOK' /\ Removals
<1> USE DEF CatalogSound, RowsTyped
<1>1. pc # "down" /\ t \notin DOMAIN tx /\ tx' = tx /\ away' = away
  BY DEF Job, syncing
<1>2. PICK F \in SUBSET Titles :
        /\ misread' = misread \cup F
        /\ \/ arr[<<t, 0>>] = "none" /\ db' = Merged(Only(t, Gone(t)))
           \/ /\ arr[<<t, 0>>] # "none"
              /\ db' = Merged(Only(t, Targeted(t, arr[<<t, 0>>], ListOf(t, F).eps)))
  BY DEF Job, Failures
<1>3. (\A s \in Titles : TitleFirst(db', s)) /\ (\A s \in Titles \ {t} : \A u \in UnitsOf(s) : db'[u] = db[u]) /\ Removals
  <2>1. CASE arr[<<t, 0>>] = "none" /\ db' = Merged(Only(t, Gone(t)))
    <3>1. Gone(t) \in [UnitsOf(t) -> Rows] /\ TitleFirst(Gone(t), t)
      BY GoneRows DEF DataTyped, TitleFirst
    <3>2. \A u \in UnitsOf(t) : arr[u] = "none"
      BY <2>1 DEF ArrOK, Whole
    <3> QED BY <2>1, <3>1, <3>2, OneTitle
  <2>2. CASE arr[<<t, 0>>] # "none" /\ db' = Merged(Only(t, Targeted(t, arr[<<t, 0>>], ListOf(t, F).eps)))
    <3> DEFINE new == Targeted(t, arr[<<t, 0>>], ListOf(t, F).eps)
    <3>0. arr[<<t, 0>>] \in States /\ ListOf(t, F).eps \in Lists
      BY ListFacts, UnitFacts DEF ArrIsTyped, DataTyped
    <3>1. /\ new \in [UnitsOf(t) -> Rows] /\ new[<<t, 0>>] = Row(arr[<<t, 0>>])
          /\ \A u \in UnitsOf(t) : u[2] # 0 /\ ListOf(t, F).eps[u[2]] # "none" => new[u] = Row(ListOf(t, F).eps[u[2]])
      BY <3>0, TargetedRows DEF DataTyped
    <3>2. Live(new, <<t, 0>>) /\ TitleFirst(new, t)
      BY <2>2, <3>0, <3>1, GoodTitle
    <3>3. ASSUME NEW u \in UnitsOf(t), ~Live(new, u) PROVE Excused(u)'
      <4>1. u[2] # 0 /\ u[2] \in Episodes /\ u = <<t, u[2]>>
        BY <3>2, <3>3, UnitFacts
      <4>2. ListOf(t, F).eps[u[2]] \in States
        BY <3>0, <4>1 DEF Lists
      <4>3. ListOf(t, F).eps[u[2]] = "none"
        BY <3>1, <3>3, <4>1, <4>2, RowFacts DEF Live, LiveRow
      <4>4. \A e \in Episodes : ListOf(t, F).eps[e] = "none" => Excused(<<t, e>>)'
        BY <1>1, <1>2, ListExcused
      <4> QED BY <4>1, <4>3, <4>4
    <3>4. \A u \in UnitsOf(t) : Live(db, u) /\ ~Live(new, u) => u \in away \/ arr[u] = "none" \/ u[1] \in misread'
      BY <1>1, <3>3 DEF Excused
    <3> QED BY <2>2, <3>1, <3>2, <3>4, OneTitle
  <2> QED BY <1>2, <2>1, <2>2
<1>4. RowsOK'
  BY <1>1, <1>3 DEF RowsOK
<1>5. TxOK'
  BY <1>1, <1>2, <1>3 DEF TxOK, Excused, TxTyped, Live
<1> QED BY <1>3, <1>4, <1>5

LEMMA SpecialsStep == ASSUME CatalogSound, Specials PROVE RowsOK' /\ TxOK' /\ Removals
<1> USE DEF CatalogSound, RowsTyped
<1>1. pc = "specials" /\ tx' = tx /\ DOMAIN tx = {}
  BY DEF Specials, PlaceOK
<1>2. CASE db' = db
  BY <1>1, <1>2, NoRows
<1>3. ASSUME NEW T \in SUBSET Titles, \A t \in T : arr[<<t, 0>>] # "none", NEW F \in Failures(T),
             db' = Merged([t \in T |-> Captured(t, arr[<<t, 0>>], ListOf(t, F).eps)])
      PROVE  RowsOK' /\ Removals
  <2> DEFINE new(t) == Captured(t, arr[<<t, 0>>], ListOf(t, F).eps)
             rows == [t \in T |-> Captured(t, arr[<<t, 0>>], ListOf(t, F).eps)]
  <2>1. ASSUME NEW t \in T
        PROVE  /\ new(t) \in [UnitsOf(t) -> Rows] /\ TitleFirst(new(t), t)
               /\ \A u \in UnitsOf(t) : Live(db, u) => Live(new(t), u)
    <3>1. arr[<<t, 0>>] \in States /\ arr[<<t, 0>>] # "none" /\ OfSeason0(ListOf(t, F).eps) \in Lists
      BY <1>3, ListFacts, UnitFacts DEF ArrIsTyped, DataTyped
    <3>2. /\ new(t) \in [UnitsOf(t) -> Rows] /\ new(t)[<<t, 0>>] = Row(arr[<<t, 0>>])
          /\ \A u \in UnitsOf(t) : Live(db, u) => Live(new(t), u)
      BY <3>1, UpsertedRows DEF DataTyped, Captured
    <3>3. TitleFirst(new(t), t)
      BY <3>1, <3>2, GoodTitle
    <3> QED BY <3>2, <3>3
  <2>2. DOMAIN rows = T /\ \A t \in T : rows[t] = new(t)
    OBVIOUS
  <2>3. \A t \in Titles : \A u \in UnitsOf(t) : db'[u] = IF t \in T THEN new(t)[u] ELSE db[u]
    <3>1. \A t \in Titles : \A u \in UnitsOf(t) : Merged(rows)[u] = IF t \in DOMAIN rows THEN rows[t][u] ELSE db[u]
      BY <2>1, <2>2, MergedRows DEF DataTyped
    <3> HIDE DEF rows
    <3> QED BY <1>3, <2>2, <3>1 DEF rows
  <2> HIDE DEF new
  <2>4. ASSUME NEW t \in Titles PROVE TitleFirst(db', t)
    <3>1. CASE t \in T
      BY <2>1, <2>3, <3>1, SameTitle
    <3>2. CASE t \notin T
      <4>1. \A u \in UnitsOf(t) : db[u] = db'[u]
        BY <2>3, <3>2
      <4> QED BY <4>1, SameTitle DEF RowsOK
    <3> QED BY <3>1, <3>2
  <2>5. ASSUME NEW u \in Units, Live(db, u) PROVE Live(db', u)
    <3>1. u[1] \in Titles /\ u \in UnitsOf(u[1])
      BY UnitTitle
    <3>2. CASE u[1] \in T
      <4>1. db'[u] = new(u[1])[u] /\ Live(new(u[1]), u)
        BY <2>1, <2>3, <2>5, <3>1, <3>2
      <4> QED BY <4>1 DEF Live
    <3>3. CASE u[1] \notin T
      <4>1. db'[u] = db[u]
        BY <2>3, <3>1, <3>3
      <4> QED BY <2>5, <4>1 DEF Live
    <3> QED BY <3>2, <3>3
  <2>6. Removals
    BY <2>5 DEF Removals
  <2> QED BY <1>1, <2>4, <2>6 DEF RowsOK
<1>4. TxOK'
  BY <1>1 DEF TxOK
<1>5. \/ db' = db
      \/ \E T \in SUBSET Titles : (\A t \in T : arr[<<t, 0>>] # "none") /\ \E F \in Failures(T) :
            db' = Merged([t \in T |-> Captured(t, arr[<<t, 0>>], ListOf(t, F).eps)])
  BY DEF Specials
<1> QED BY <1>2, <1>3, <1>4, <1>5

LEMMA CommitStep == ASSUME CatalogSound, Commit \/ FullMark PROVE RowsOK' /\ TxOK' /\ Removals
<1> USE DEF CatalogSound, RowsTyped
<1> DEFINE gone(t) == mode = "full" /\ snap[<<t, 0>>] = "none"
<1>1. DOMAIN tx' = {} /\ pc = "titles" /\ misread' = misread
  BY NoTx DEF Commit, FullMark, ghosts
<1>2. \A t \in Titles : \A u \in UnitsOf(t) :
        Merged(tx)[u] \in Rows /\ Merged(tx)[u] = IF t \in DOMAIN tx THEN tx[t][u] ELSE db[u]
  <2>1. /\ Merged(tx) \in [Units -> Rows]
        /\ \A t \in Titles : \A u \in UnitsOf(t) : Merged(tx)[u] = IF t \in DOMAIN tx THEN tx[t][u] ELSE db[u]
    BY MergedRows DEF DataTyped, TxTyped
  <2> QED BY <2>1, UnitFacts
<1>3. ASSUME NEW t \in Titles
      PROVE  \/ \A u \in UnitsOf(t) : db'[u] = Merged(tx)[u]
             \/ gone(t) /\ \A u \in UnitsOf(t) : db'[u] = Marked(Merged(tx)[u])
  <2>1. CASE Commit
    BY <2>1 DEF Commit
  <2>2. CASE FullMark
    BY <2>2, UnitFacts DEF FullMark
  <2> QED BY <2>1, <2>2
<1>4. ASSUME NEW t \in Titles
      PROVE  /\ TitleFirst(Merged(tx), t)
             /\ \A u \in UnitsOf(t) : Live(db, u) /\ ~Live(Merged(tx), u) => Excused(u)
  <2>1. CASE t \in DOMAIN tx
    <3>1. TitleFirst(Merged(tx), t)
      BY <1>2, <2>1, SameTitle DEF RowsOK
    <3> QED BY <1>2, <2>1, <3>1 DEF TxOK, Live
  <2>2. CASE t \notin DOMAIN tx
    <3>1. TitleFirst(Merged(tx), t)
      BY <1>2, <2>2, SameTitle DEF RowsOK
    <3> QED BY <1>2, <2>2, <3>1 DEF Live
  <2> QED BY <2>1, <2>2
<1> HIDE DEF gone
<1>5. ASSUME NEW t \in Titles PROVE TitleFirst(db', t)
  <2>1. CASE \A u \in UnitsOf(t) : db'[u] = Merged(tx)[u]
    BY <1>4, <2>1, SameTitle
  <2>2. CASE \A u \in UnitsOf(t) : db'[u] = Marked(Merged(tx)[u])
    <3>1. \A u \in UnitsOf(t) : ~LiveRow(db'[u])
      BY <1>2, <2>2, RowFacts
    <3> QED BY <3>1 DEF TitleFirst, Live, LiveRow
  <2> QED BY <1>3, <2>1, <2>2
<1>6. ASSUME NEW u \in Units, Live(db, u), ~Live(db', u) PROVE Excused(u)
  <2>1. u[1] \in Titles /\ u \in UnitsOf(u[1])
    BY UnitTitle
  <2>2. CASE \A v \in UnitsOf(u[1]) : db'[v] = Merged(tx)[v]
    <3>1. ~Live(Merged(tx), u)
      BY <1>6, <2>1, <2>2 DEF Live
    <3> QED BY <1>4, <1>6, <2>1, <3>1
  <2>3. CASE gone(u[1])
    <3>1. snap[u] = "none"
      BY <1>1, <2>1, <2>3 DEF gone, PlaceOK, Compare, Whole
    <3> QED BY <1>1, <3>1 DEF SnapOK, Compare, Excused
  <2> QED BY <1>3, <2>1, <2>2, <2>3
<1>7. RowsOK' /\ TxOK'
  BY <1>1, <1>5 DEF RowsOK, TxOK
<1>8. Removals
  BY <1>1, <1>6 DEF Removals, Excused
<1> QED BY <1>7, <1>8

LEMMA RowsStep == ASSUME CatalogSound, [CatalogNext]_catalogVars PROVE RowsOK' /\ TxOK' /\ Removals
<1>1. CASE Specials
  BY <1>1, SpecialsStep
<1>2. CASE Seed \/ Catalog \/ CatalogFails \/ Diff \/ Passes \/ Finish
  BY <1>2, NoRows DEF Seed, Catalog, CatalogFails, Diff, Passes, Finish, ghosts
<1>3. CASE Signatures
  BY <1>3, NoRows DEF Signatures, ReadLists
<1>4. ASSUME NEW t \in Titles, ItemGone(t) PROVE RowsOK' /\ TxOK' /\ Removals
  BY <1>4, GoneStep
<1>5. ASSUME NEW t \in Titles, Item(t) PROVE RowsOK' /\ TxOK' /\ Removals
  BY <1>5, NoRows DEF Item, ghosts
<1>6. CASE List
  BY <1>6, ListStep
<1>7. CASE Commit \/ FullMark
  BY <1>7, CommitStep
<1>8. CASE Raises \/ Crash
  BY <1>8, NoRows, NoTx DEF Raises, Crash
<1>9. ASSUME NEW m \in {"full", "lite"}, NEW b \in BOOLEAN, Begin(m, b) PROVE RowsOK' /\ TxOK' /\ Removals
  BY <1>9, NoRows, BeginIs
<1>10. CASE BootSync
  BY <1>9, <1>10 DEF BootSync
<1>11. ASSUME NEW m \in {"full", "lite"}, Scheduled(m) PROVE RowsOK' /\ TxOK' /\ Removals
  BY <1>9, <1>11 DEF Scheduled
<1>12. CASE SpecialsOn \/ UNCHANGED catalogVars
  BY <1>12, NoRows DEF SpecialsOn, catalogVars, syncing, ghosts
<1>13. ASSUME NEW t \in Titles, Job(t) PROVE RowsOK' /\ TxOK' /\ Removals
  BY <1>13, JobStep
<1>14. ASSUME NEW t \in Titles, Expires(t) PROVE RowsOK' /\ TxOK' /\ Removals
  BY <1>14, NoRows DEF Expires, syncing, ghosts
<1>15. ASSUME NEW new \in [Units -> States], ArrBecomes(new) PROVE RowsOK' /\ TxOK' /\ Removals
  BY <1>15, NoRows DEF ArrBecomes, syncing
<1>16. ASSUME NEW t \in Titles, ArrRemoves(t) \/ ArrAdds(t) PROVE RowsOK' /\ TxOK' /\ Removals
  BY <1>15, <1>16, ArrSteps DEF CatalogSound
<1>17. ASSUME NEW u \in Units, NEW st \in States, UnitChanges(u, st) PROVE RowsOK' /\ TxOK' /\ Removals
  BY <1>15, <1>17, ArrSteps DEF CatalogSound
<1> QED
  BY <1>1, <1>2, <1>3, <1>4, <1>5, <1>6, <1>7, <1>8, <1>10, <1>11, <1>12, <1>13, <1>14, <1>16, <1>17
     DEF CatalogNext, SyncStep

LEMMA CatalogSoundStep == CatalogSound /\ [CatalogNext]_catalogVars => CatalogSound' /\ Removals
BY CatalogTypedStep, ArrStep, PlaceStep, SeenStep, RowsStep DEF CatalogSound

\* A row is marked deleted only when the Arr lacked the unit since the sync
\* began, or the list used was cached, or a request for that title failed.
THEOREM RemovalsExcused == CatalogSpec => RemovalsAreReal
<1>1. CatalogSound /\ [CatalogNext]_catalogVars => [\A u \in Units : Live(db, u) /\ ~Live(db, u)' =>
                                u \in away \/ arr[u] = "none" \/ u[1] \in misread']_catalogVars
  BY CatalogSoundStep DEF Removals
<1> QED BY <1>1, CatalogInitSound, CatalogSoundStep, PTL DEF CatalogSpec, RemovalsAreReal

-----------------------------------------------------------------------------
(* A sync that nothing disturbs *)

Late == {"diff", "signatures", "titles", "list", "passes", "done"}
Awaiting(t) == t \in todo \/ (pc = "list" /\ t = item.t)
Agreed(d) == /\ \A t \in Titles : Covered(d, t)
             /\ (\E t \in Titles : arr[<<t, 0>>] # "none") => \A t \in Titles : Exact(d, <<t, 0>>)

\* Every list that is cached is what the Arr has.
ListsOK == \A t \in Titles : cache[t].on => cache[t] = FreshList(t)

\* So is what was read, and once a title is dealt with the rows, with those of
\* the open transaction, agree with it.
ReadOK == /\ pc \in Late => snap = arr
          /\ pc = "list" => item.st = arr[<<item.t, 0>>]
FullOK == mode = "full" =>
            /\ pc \in {"titles", "list"} => \A t \in Titles : Awaiting(t) \/ Covered(Merged(tx), t)
            /\ pc \in {"passes", "done"} => Agreed(db)
LiteOK == mode = "lite" =>
            /\ pc \in {"signatures", "titles", "list"} =>
                 \A t \in Titles : Awaiting(t) \/ Compared(Merged(tx), t)
            /\ pc \in {"passes", "done"} => \A t \in Titles : Compared(db, t)
FilesOK == pc = "done" =>
             \A u \in (IF mode = "full" THEN Units ELSE touched) : u \in files <=> Needed(db, u)
QuietOK == quiet => ListsOK /\ ReadOK /\ FullOK /\ LiteOK /\ FilesOK

LEMMA QuietIsAgreement == CatalogSound /\ QuietOK => QuietSyncAgrees
BY DEF CatalogSound, RowsTyped, RunTyped, QuietOK, FullOK, LiteOK, FilesOK, Agreed, QuietSyncAgrees

LEMMA InitQuiet == CatalogInit => QuietOK
BY DEF CatalogInit, QuietOK

\* Exact rows have the right counts, and only a title's own rows matter.
LEMMA CountsAgree ==
  ASSUME arr \in [Units -> States], NEW d, NEW t \in Titles, \A u \in UnitsOf(t) : Exact(d, u)
  PROVE  Compared(d, t)
<1>1. ASSUME NEW e \in Episodes
      PROVE  /\ (Live(d, <<t, e>>) /\ d[<<t, e>>].st \in States) <=> arr[<<t, e>>] \in Catalogued
             /\ (Live(d, <<t, e>>) /\ d[<<t, e>>].st \in {"file"}) <=> arr[<<t, e>>] \in {"file"}
  <2>1. Exact(d, <<t, e>>) /\ arr[<<t, e>>] \in States
    BY UnitFacts
  <2>2. CASE arr[<<t, e>>] = "none"
    BY <2>1, <2>2 DEF Exact, Catalogued
  <2>3. CASE arr[<<t, e>>] # "none"
    BY <2>1, <2>3 DEF Exact, Catalogued, Live, States
  <2> QED BY <2>2, <2>3
<1>2. Exact(d, <<t, 0>>)
  BY UnitFacts
<1>3. /\ {e \in Episodes : Live(d, <<t, e>>) /\ d[<<t, e>>].st \in States} = {e \in Episodes : arr[<<t, e>>] \in Catalogued}
      /\ {e \in Episodes : Live(d, <<t, e>>) /\ d[<<t, e>>].st \in {"file"}} = {e \in Episodes : arr[<<t, e>>] \in {"file"}}
  BY <1>1
<1> QED BY <1>2, <1>3 DEF Compared, CountOf, CountIn

LEMMA SameRows ==
  ASSUME NEW d, NEW f, NEW t \in Titles, \A u \in UnitsOf(t) : d[u] = f[u]
  PROVE  /\ \A u \in UnitsOf(t) : Exact(d, u) => Exact(f, u)
         /\ Covered(d, t) => Covered(f, t)
         /\ Compared(d, t) => Compared(f, t)
<1>1. \A u \in UnitsOf(t) : Exact(d, u) => Exact(f, u)
  BY DEF Exact, Live
<1>2. Covered(d, t) => Covered(f, t)
  BY <1>1 DEF Covered
<1>3. \A e \in Episodes : d[<<t, e>>] = f[<<t, e>>]
  BY UnitFacts
<1>4. ASSUME NEW S PROVE CountOf(d, t, S) = CountOf(f, t, S)
  <2>1. {e \in Episodes : Live(d, <<t, e>>) /\ d[<<t, e>>].st \in S}
         = {e \in Episodes : Live(f, <<t, e>>) /\ f[<<t, e>>].st \in S}
    BY <1>3 DEF Live
  <2> QED BY <2>1 DEF CountOf
<1>5. Compared(d, t) => Compared(f, t)
  BY <1>1, <1>4, UnitFacts DEF Compared
<1> QED BY <1>1, <1>2, <1>5

\* A title that does not differ is compared.
LEMMA NotTarget ==
  ASSUME CatalogSound, snap = arr, NEW t \in Titles \ Targets
  PROVE  Compared(db, t)
<1> USE DEF CatalogSound, RowsTyped
<1>0. /\ <<t, 0>> \in Units /\ db[<<t, 0>>] \in Rows /\ arr \in [Units -> States]
      /\ ~Added(t) /\ ~Changed(t) /\ ~Removed(t)
  BY UnitFacts DEF Targets, DataTyped, ArrIsTyped
<1>1. CASE arr[<<t, 0>>] = "none"
  <2>1. ~Live(db, <<t, 0>>)
    BY <1>0, <1>1 DEF Removed
  <2>2. \A u \in UnitsOf(t) : ~Live(db, u) /\ arr[u] = "none"
    BY <1>1, <2>1 DEF RowsOK, TitleFirst, ArrOK, Whole
  <2> QED BY <1>0, <2>2, CountsAgree DEF Exact
<1>2. CASE arr[<<t, 0>>] # "none"
  <2>1. /\ ~db[<<t, 0>>].dead /\ db[<<t, 0>>].st = arr[<<t, 0>>]
        /\ CountOf(db, t, States) = CountIn(arr, t, Catalogued)
        /\ CountOf(db, t, {"file"}) = CountIn(arr, t, {"file"})
    BY <1>0, <1>2 DEF Added, Changed
  <2>2. db[<<t, 0>>] = [st |-> arr[<<t, 0>>], dead |-> FALSE]
    BY <1>0, <2>1 DEF Rows
  <2> QED BY <1>2, <2>1, <2>2 DEF Compared, Exact
<1> QED BY <1>1, <1>2

\* The rows after a step, with those of the transaction that is then open.
LEMMA MergedNext ==
  ASSUME NEW t \in Titles
  PROVE  \A u \in UnitsOf(t) : /\ Merged(tx)[u] = IF t \in DOMAIN tx THEN tx[t][u] ELSE db[u]
                               /\ Merged(tx)'[u] = IF t \in DOMAIN tx' THEN tx'[t][u] ELSE db'[u]
<1>1. \A u \in UnitsOf(t) : u \in Units /\ u[1] = t
  BY UnitFacts
<1> QED BY <1>1 DEF Merged

\* Quiet steps leave the Arr alone.
LEMMA QuietNext ==
  ASSUME arr' = arr,
         \A t \in Titles : cache'[t].on => cache'[t] = FreshList(t),
         pc' \in Late => snap' = arr,
         pc' = "list" => item'.st = arr[<<item'.t, 0>>],
         mode' = "full" /\ pc' \in {"titles", "list"} =>
           \A t \in Titles : t \in todo' \/ (pc' = "list" /\ t = item'.t) \/ Covered(Merged(tx)', t),
         mode' = "full" /\ pc' \in {"passes", "done"} => Agreed(db'),
         mode' = "lite" /\ pc' \in {"signatures", "titles", "list"} =>
           \A t \in Titles : t \in todo' \/ (pc' = "list" /\ t = item'.t) \/ Compared(Merged(tx)', t),
         mode' = "lite" /\ pc' \in {"passes", "done"} => \A t \in Titles : Compared(db', t),
         FilesOK'
  PROVE  QuietOK'
<1>1. ListsOK'
  BY DEF ListsOK, FreshList
<1>2. ReadOK'
  BY DEF ReadOK
<1>3. \A t \in Titles : /\ Covered(Merged(tx)', t) => Covered(Merged(tx), t)'
                        /\ Compared(Merged(tx)', t) => Compared(Merged(tx), t)'
                        /\ Compared(db', t) => Compared(db, t)'
  BY DEF Covered, Compared, Exact, Live, CountOf, CountIn
<1>4. Agreed(db') => Agreed(db)'
  BY DEF Agreed, Covered, Exact, Live
<1>5. FullOK'
  BY <1>3, <1>4 DEF FullOK, Awaiting
<1>6. LiteOK'
  BY <1>3 DEF LiteOK, Awaiting
<1> QED BY <1>1, <1>2, <1>5, <1>6 DEF QuietOK

\* Lists that are requested without a failure are what the Arr has.
LEMMA QuietRead ==
  ASSUME QuietOK, NEW T \in SUBSET Titles, NEW F \in Failures(T), ReadLists(T, F), quiet'
  PROVE  /\ quiet /\ \A t \in Titles : ListOf(t, F) = FreshList(t)
         /\ \A t \in Titles : cache'[t].on => cache'[t] = FreshList(t)
<1>1. quiet /\ F = {}
  BY DEF ReadLists
<1>2. \A t \in Titles : cache[t].on => cache[t] = FreshList(t)
  BY <1>1 DEF QuietOK, ListsOK
<1>3. \A t \in Titles : ListOf(t, F) = FreshList(t)
  BY <1>1, <1>2 DEF ListOf
<1> QED BY <1>1, <1>2, <1>3 DEF ReadLists

\* The rows of titles that a step leaves alone.
LEMMA OthersStay ==
  ASSUME NEW s \in Titles,
         \A u \in UnitsOf(s) : (IF s \in DOMAIN tx' THEN tx'[s][u] ELSE db'[u])
                             = (IF s \in DOMAIN tx THEN tx[s][u] ELSE db[u])
  PROVE  /\ Covered(Merged(tx), s) => Covered(Merged(tx)', s)
         /\ Compared(Merged(tx), s) => Compared(Merged(tx)', s)
<1>1. \A u \in UnitsOf(s) : Merged(tx)[u] = Merged(tx)'[u]
  BY MergedNext
<1> QED BY <1>1, SameRows

\* A targeted sync of a title that is gone, and of one whose list was read.
LEMMA GoneAgrees ==
  ASSUME CatalogSound, NEW t \in Titles, arr[<<t, 0>>] = "none"
  PROVE  \A u \in UnitsOf(t) : Exact(Gone(t), u)
<1>1. \A u \in UnitsOf(t) : arr[u] = "none" /\ ~Live(Gone(t), u)
  BY GoneRows DEF CatalogSound, ArrOK, Whole, RowsTyped, DataTyped
<1> QED BY <1>1 DEF Exact

LEMMA ListAgrees ==
  ASSUME CatalogSound, NEW t \in Titles, arr[<<t, 0>>] # "none", NEW st, st = arr[<<t, 0>>]
  PROVE  /\ \A u \in UnitsOf(t) : Exact(Targeted(t, st, FreshList(t).eps), u)
         /\ Covered(Upserted(t, st, FreshList(t).eps), t)
         /\ setting.kind = "radarr" => Covered(Upserted(t, st, Nothing), t)
<1> USE DEF CatalogSound, RowsTyped, ArrIsTyped, DataTyped
<1>1. /\ st \in States /\ FreshList(t).eps \in Lists /\ Nothing \in Lists
      /\ \A e \in Episodes : FreshList(t).eps[e] = arr[<<t, e>>]
  BY UnitFacts, ListFacts DEF ListType
<1>2. ASSUME NEW u \in UnitsOf(t), u[2] # 0
      PROVE  u[2] \in Episodes /\ FreshList(t).eps[u[2]] = arr[u]
  BY <1>1, <1>2, UnitFacts
<1>3. \A u \in UnitsOf(t) : u[2] = 0 => u = <<t, 0>>
  BY UnitFacts
<1>4. \A u \in UnitsOf(t) : Exact(Targeted(t, st, FreshList(t).eps), u)
  <2> DEFINE new == Targeted(t, st, FreshList(t).eps)
  <2>1. /\ new[<<t, 0>>] = Row(st)
        /\ \A u \in UnitsOf(t) : u[2] # 0 =>
             IF FreshList(t).eps[u[2]] # "none" THEN new[u] = Row(FreshList(t).eps[u[2]]) ELSE ~Live(new, u)
    BY <1>1, TargetedRows
  <2> HIDE DEF new
  <2>2. \A u \in UnitsOf(t) : Exact(new, u)
    BY <1>2, <1>3, <2>1 DEF Exact, Row
  <2> QED BY <2>2 DEF new
<1>5. Covered(Upserted(t, st, FreshList(t).eps), t)
  <2> DEFINE new == Upserted(t, st, FreshList(t).eps)
  <2>0. \A eps \in Lists :
          /\ Upserted(t, st, eps)[<<t, 0>>] = Row(st)
          /\ \A u \in UnitsOf(t) : u[2] # 0 =>
               Upserted(t, st, eps)[u] = IF eps[u[2]] # "none" THEN Row(eps[u[2]]) ELSE db[u]
    <3>1. db \in [Units -> Rows] /\ st \in States
      BY <1>1
    <3> QED BY <3>1, UpsertedRows
  <2>1. /\ new[<<t, 0>>] = Row(st)
        /\ \A u \in UnitsOf(t) : u[2] # 0 =>
             new[u] = IF FreshList(t).eps[u[2]] # "none" THEN Row(FreshList(t).eps[u[2]]) ELSE db[u]
    BY <1>1, <2>0
  <2> HIDE DEF new
  <2>2. Covered(new, t)
    BY <1>2, <1>3, <2>1 DEF Covered, Exact, Row
  <2> QED BY <2>2 DEF new
<1>6. ASSUME setting.kind = "radarr" PROVE Covered(Upserted(t, st, Nothing), t)
  <2> DEFINE new == Upserted(t, st, Nothing)
  <2>1. new[<<t, 0>>] = Row(st)
    BY <1>1, UpsertedRows
  <2>2. \A u \in UnitsOf(t) : u[2] # 0 => arr[u] = "none"
    BY <1>6, UnitFacts DEF ArrOK
  <2> HIDE DEF new
  <2>3. Covered(new, t)
    BY <1>3, <2>1, <2>2 DEF Covered, Exact, Row
  <2> QED BY <2>3 DEF new
<1> QED BY <1>4, <1>5, <1>6

\* Until the catalog is read only the cached lists matter.
LEMMA EarlyQuiet ==
  ASSUME arr' = arr, \A t \in Titles : cache'[t].on => cache'[t] = FreshList(t), pc' \notin Late
  PROVE  QuietOK'
BY QuietNext DEF Late, FilesOK

LEMMA QuietBegin ==
  ASSUME NEW m \in {"full", "lite"}, NEW b \in BOOLEAN, Begin(m, b), quiet'
  PROVE  QuietOK'
<1>1. arr' = arr /\ pc' \notin Late /\ cache' = cache
  BY BeginIs DEF Late
<1>2. \A t \in Titles : cache[t].on => cache[t] = FreshList(t)
  BY DEF Begin
<1> QED BY <1>1, <1>2, EarlyQuiet

\* Reading the catalog and comparing the rows with it.
LEMMA QuietCatalog == ASSUME CatalogSound, QuietOK, Catalog \/ Diff \/ Signatures, quiet' PROVE QuietOK'
<1> USE DEF CatalogSound, RowsTyped, RunTyped, PlaceOK, Compare
<1>1. CASE Catalog
  <2>1. /\ UNCHANGED <<arr, cache, mode, tx, db, quiet>> /\ snap' = arr /\ DOMAIN tx = {}
        /\ pc' = IF mode = "full" THEN "titles" ELSE "diff"
        /\ mode = "full" => todo' = {t \in Titles : arr[<<t, 0>>] # "none"}
    BY <1>1 DEF Catalog, world, ghosts
  <2>2. \A t \in Titles : cache'[t].on => cache'[t] = FreshList(t)
    BY <2>1 DEF QuietOK, ListsOK
  <2>3. \A t \in Titles : arr[<<t, 0>>] = "none" => Covered(Merged(tx)', t)
    BY DEF Covered, ArrOK, Whole
  <2>4. FilesOK'
    BY <2>1 DEF FilesOK
  <2> QED BY <2>1, <2>2, <2>3, <2>4, QuietNext
<1>2. CASE Diff
  <2>1. /\ UNCHANGED <<arr, cache, mode, tx, db, snap, quiet>> /\ DOMAIN tx = {} /\ todo' = Targets
        /\ pc = "diff" /\ mode = "lite" /\ pc' \in {"titles", "signatures"}
    BY <1>2 DEF Diff, world, ghosts
  <2>2. snap = arr /\ \A t \in Titles : cache'[t].on => cache'[t] = FreshList(t)
    BY <2>1 DEF QuietOK, ListsOK, ReadOK, Late
  <2>3. ASSUME NEW t \in Titles \ Targets PROVE Compared(Merged(tx)', t)
    <3>1. \A u \in UnitsOf(t) : db[u] = Merged(tx)'[u]
      BY <2>1, MergedNext
    <3> QED BY <2>2, <3>1, NotTarget, SameRows
  <2>4. FilesOK'
    BY <2>1 DEF FilesOK
  <2> QED BY <2>1, <2>2, <2>3, <2>4, QuietNext
<1>3. CASE Signatures
  <2>1. /\ UNCHANGED <<arr, mode, tx, db, snap>>
        /\ pc = "signatures" /\ mode = "lite" /\ pc' = "titles" /\ todo \subseteq todo'
    BY <1>3 DEF Signatures
  <2>2. PICK T \in SUBSET Titles, F \in SUBSET Titles : F \in Failures(T) /\ ReadLists(T, F)
    BY <1>3 DEF Signatures, Failures
  <2>3. quiet /\ \A t \in Titles : cache'[t].on => cache'[t] = FreshList(t)
    BY <2>2, QuietRead
  <2>4. snap = arr /\ \A t \in Titles : t \in todo \/ Compared(Merged(tx), t)
    BY <2>1, <2>3 DEF QuietOK, ReadOK, LiteOK, Late, Awaiting
  <2>5. \A t \in Titles : t \in todo' \/ Compared(Merged(tx)', t)
    BY <2>1, <2>4, OthersStay
  <2>6. FilesOK'
    BY <2>1 DEF FilesOK
  <2> QED BY <2>1, <2>3, <2>4, <2>5, <2>6, QuietNext
<1> QED BY <1>1, <1>2, <1>3

\* Taking up a title, or dropping it when it is gone.
LEMMA QuietItem == ASSUME CatalogSound, QuietOK, NEW t \in Titles, ItemGone(t) \/ Item(t), quiet' PROVE QuietOK'
<1> USE DEF CatalogSound, RowsTyped, RunTyped, PlaceOK, Compare
<1>0. /\ UNCHANGED <<arr, cache, mode, db, snap, quiet>> /\ todo' = todo \ {t} /\ pc = "titles" /\ quiet
  BY DEF ItemGone, Item, RequestFails, world, ghosts
<1>1. snap = arr /\ \A s \in Titles : cache'[s].on => cache'[s] = FreshList(s)
  BY <1>0 DEF QuietOK, ListsOK, ReadOK, Late
<1>2. /\ mode = "full" => \A s \in Titles : s \in todo \/ Covered(Merged(tx), s)
      /\ mode = "lite" => \A s \in Titles : s \in todo \/ Compared(Merged(tx), s)
  BY <1>0 DEF QuietOK, FullOK, LiteOK, Awaiting
<1>3. CASE ItemGone(t)
  <2>1. mode = "lite" /\ pc' = "titles" /\ arr[<<t, 0>>] = "none" /\ tx' = Put(t, Gone(t))
    BY <1>0, <1>3 DEF ItemGone, RequestFails
  <2>2. Compared(Merged(tx)', t)
    <3>1. \A u \in UnitsOf(t) : Gone(t)[u] = Merged(tx)'[u]
      BY <2>1, MergedNext DEF Put
    <3>2. Compared(Gone(t), t)
      BY <2>1, GoneAgrees, CountsAgree DEF ArrIsTyped
    <3> QED BY <3>1, <3>2, SameRows
  <2>3. ASSUME NEW s \in Titles, s # t, Compared(Merged(tx), s) PROVE Compared(Merged(tx)', s)
    <3>1. \A u \in UnitsOf(s) : (IF s \in DOMAIN tx' THEN tx'[s][u] ELSE db'[u])
                              = (IF s \in DOMAIN tx THEN tx[s][u] ELSE db[u])
      BY <1>0, <2>1, <2>3 DEF Put
    <3> QED BY <2>3, <3>1, OthersStay
  <2>4. \A s \in Titles : s \in todo' \/ Compared(Merged(tx)', s)
    BY <1>0, <1>2, <2>1, <2>2, <2>3
  <2>5. FilesOK'
    BY <2>1 DEF FilesOK
  <2> QED BY <1>0, <1>1, <2>1, <2>4, <2>5, QuietNext
<1>4. CASE Item(t)
  <2>1. pc' = "list" /\ item'.t = t /\ tx' = tx /\ item'.st = arr[<<t, 0>>]
    BY <1>1, <1>4 DEF Item
  <2>2. \A s \in Titles : /\ Covered(Merged(tx), s) => Covered(Merged(tx)', s)
                          /\ Compared(Merged(tx), s) => Compared(Merged(tx)', s)
    BY <1>0, <2>1, OthersStay
  <2>3. FilesOK'
    BY <2>1 DEF FilesOK
  <2> QED BY <1>0, <1>1, <1>2, <2>1, <2>2, <2>3, QuietNext
<1> QED BY <1>3, <1>4

LEMMA QuietList == ASSUME CatalogSound, QuietOK, List, quiet' PROVE QuietOK'
<1> USE DEF CatalogSound, RowsTyped, RunTyped, PlaceOK, Compare
<1> DEFINE t == item.t
<1>1. /\ UNCHANGED <<arr, mode, snap, todo>> /\ pc = "list" /\ pc' = "titles"
      /\ t \in Titles /\ item.st # "none"
  BY DEF List
<1>2. PICK F \in SUBSET Titles :
        /\ \E T \in SUBSET Titles : F \in Failures(T) /\ ReadLists(T, F)
        /\ \/ mode = "lite" /\ tx' = Put(t, Targeted(t, item.st, ListOf(t, F).eps)) /\ UNCHANGED db
           \/ /\ mode = "full" /\ setting.kind = "sonarr"
              /\ db' = Merged(Only(t, Upserted(t, item.st, ListOf(t, F).eps))) /\ UNCHANGED tx
           \/ /\ mode = "full" /\ setting.kind # "sonarr"
              /\ tx' = Put(t, Upserted(t, item.st, Nothing)) /\ UNCHANGED db
  BY <1>1 DEF List, Failures
<1>3. /\ quiet /\ ListOf(t, F) = FreshList(t)
      /\ \A s \in Titles : cache'[s].on => cache'[s] = FreshList(s)
  BY <1>1, <1>2, QuietRead
<1>4. snap = arr /\ item.st = arr[<<t, 0>>]
  BY <1>1, <1>3 DEF QuietOK, ReadOK, Late
<1>5. /\ mode = "full" => \A s \in Titles : s \in todo \/ s = t \/ Covered(Merged(tx), s)
      /\ mode = "lite" => \A s \in Titles : s \in todo \/ s = t \/ Compared(Merged(tx), s)
  BY <1>1, <1>3 DEF QuietOK, FullOK, LiteOK, Awaiting
<1>6. FilesOK'
  BY <1>1 DEF FilesOK
<1>7. /\ \A u \in UnitsOf(t) : Exact(Targeted(t, item.st, FreshList(t).eps), u)
      /\ Covered(Upserted(t, item.st, FreshList(t).eps), t)
      /\ setting.kind = "radarr" => Covered(Upserted(t, item.st, Nothing), t)
  BY <1>1, <1>4, ListAgrees
<1> HIDE DEF t
<1>8. ASSUME NEW rows, tx' = Put(t, rows), UNCHANGED db
      PROVE  /\ Covered(rows, t) => Covered(Merged(tx)', t)
             /\ Compared(rows, t) => Compared(Merged(tx)', t)
             /\ \A s \in Titles \ {t} : /\ Covered(Merged(tx), s) => Covered(Merged(tx)', s)
                                        /\ Compared(Merged(tx), s) => Compared(Merged(tx)', s)
  <2>1. \A u \in UnitsOf(t) : rows[u] = Merged(tx)'[u]
    BY <1>1, <1>8, MergedNext DEF Put
  <2>2. \A s \in Titles \ {t} : \A u \in UnitsOf(s) :
           (IF s \in DOMAIN tx' THEN tx'[s][u] ELSE db'[u]) = (IF s \in DOMAIN tx THEN tx[s][u] ELSE db[u])
    BY <1>8 DEF Put
  <2> QED BY <1>1, <2>1, <2>2, SameRows, OthersStay
<1>9. CASE mode = "lite" /\ tx' = Put(t, Targeted(t, item.st, ListOf(t, F).eps)) /\ UNCHANGED db
  <2>1. Compared(Targeted(t, item.st, FreshList(t).eps), t)
    BY <1>1, <1>7, CountsAgree DEF ArrIsTyped
  <2>2. \A s \in Titles : s \in todo' \/ Compared(Merged(tx)', s)
    BY <1>1, <1>3, <1>5, <1>8, <1>9, <2>1
  <2> QED BY <1>1, <1>3, <1>4, <1>6, <1>9, <2>2, QuietNext
<1>10. CASE /\ mode = "full" /\ setting.kind = "sonarr"
            /\ db' = Merged(Only(t, Upserted(t, item.st, ListOf(t, F).eps))) /\ UNCHANGED tx
  <2> DEFINE new == Upserted(t, item.st, FreshList(t).eps)
  <2>0. DOMAIN tx = {}
    BY <1>10
  <2>1. new \in [UnitsOf(t) -> Rows]
    <3>1. item.st \in States
      OBVIOUS
    <3>2. FreshList(t).eps \in Lists
      BY <1>1, ListFacts DEF ArrIsTyped, DataTyped, ListType
    <3> QED BY <1>1, <3>1, <3>2, UpsertedRows DEF DataTyped
  <2>2. \A s \in Titles : \A u \in UnitsOf(s) : db'[u] = IF s = t THEN new[u] ELSE db[u]
    BY <1>1, <1>3, <1>10, <2>1, OnlyRows DEF DataTyped
  <2> HIDE DEF new
  <2>3. Covered(Merged(tx)', t)
    <3>1. \A u \in UnitsOf(t) : new[u] = Merged(tx)'[u]
      BY <1>1, <1>10, <2>0, <2>2, MergedNext
    <3> QED BY <1>1, <1>7, <3>1, SameRows DEF new
  <2>4. ASSUME NEW s \in Titles \ {t}, Covered(Merged(tx), s) PROVE Covered(Merged(tx)', s)
    <3>1. \A u \in UnitsOf(s) :
           (IF s \in DOMAIN tx' THEN tx'[s][u] ELSE db'[u]) = (IF s \in DOMAIN tx THEN tx[s][u] ELSE db[u])
      BY <1>10, <2>0, <2>2
    <3> QED BY <2>4, <3>1, OthersStay
  <2>5. \A s \in Titles : s \in todo' \/ Covered(Merged(tx)', s)
    BY <1>1, <1>5, <1>10, <2>3, <2>4
  <2> QED BY <1>1, <1>3, <1>4, <1>6, <1>10, <2>5, QuietNext
<1>11. CASE /\ mode = "full" /\ setting.kind # "sonarr"
            /\ tx' = Put(t, Upserted(t, item.st, Nothing)) /\ UNCHANGED db
  <2>1. setting.kind = "radarr"
    BY <1>11, CatalogAssumption DEF ArrIsTyped
  <2>2. \A s \in Titles : s \in todo' \/ Covered(Merged(tx)', s)
    BY <1>1, <1>5, <1>7, <1>8, <1>11, <2>1
  <2> QED BY <1>1, <1>3, <1>4, <1>6, <1>11, <2>2, QuietNext
<1> QED BY <1>2, <1>9, <1>10, <1>11

\* The end of the comparison and the passes.
LEMMA QuietCommit == ASSUME CatalogSound, QuietOK, Commit \/ FullMark, quiet' PROVE QuietOK'
<1> USE DEF CatalogSound, RowsTyped, RunTyped, PlaceOK, Compare
<1>1. /\ UNCHANGED <<arr, cache, mode, quiet, snap>> /\ pc = "titles" /\ todo = {} /\ pc' = "passes"
  BY DEF Commit, FullMark, world, ghosts
<1>2. snap = arr /\ \A t \in Titles : cache'[t].on => cache'[t] = FreshList(t)
  BY <1>1 DEF QuietOK, ListsOK, ReadOK, Late
<1>3. FilesOK'
  BY <1>1 DEF FilesOK
<1>4. CASE Commit
  <2>1. mode = "lite" /\ db' = Merged(tx)
    BY <1>4 DEF Commit
  <2>2. \A t \in Titles : Compared(Merged(tx), t)
    BY <1>1, <2>1 DEF QuietOK, LiteOK, Awaiting
  <2>3. \A t \in Titles : Compared(db', t)
    BY <2>1, <2>2
  <2> QED BY <1>1, <1>2, <1>3, <2>1, <2>3, QuietNext
<1>5. CASE FullMark
  <2> DEFINE seen == {t \in Titles : arr[<<t, 0>>] # "none"}
  <2>1. mode = "full" /\ \A u \in Units : db'[u] = IF seen # {} /\ u[1] \notin seen
                                                     THEN Marked(Merged(tx)[u]) ELSE Merged(tx)[u]
    BY <1>2, <1>5 DEF FullMark
  <2>2. \A t \in Titles : Covered(Merged(tx), t)
    BY <1>1, <2>1 DEF QuietOK, FullOK, Awaiting
  <2>3. ASSUME NEW t \in seen PROVE Covered(db', t)
    <3>1. \A u \in UnitsOf(t) : u \in Units /\ u[1] = t
      BY UnitFacts
    <3>2. \A u \in UnitsOf(t) : Merged(tx)[u] = db'[u]
      BY <2>1, <3>1
    <3> QED BY <2>2, <3>2, SameRows
  <2>4. ASSUME NEW t \in Titles \ seen PROVE Covered(db', t)
    BY DEF Covered, ArrOK, Whole
  <2>5. ASSUME seen # {}, NEW t \in Titles PROVE Exact(db', <<t, 0>>)
    <3>1. CASE t \in seen
      <4>1. Covered(db', t) /\ <<t, 0>> \in UnitsOf(t)
        BY <2>3, <3>1, UnitFacts
      <4> QED BY <3>1, <4>1 DEF Covered
    <3>2. CASE t \notin seen
      <4>1. <<t, 0>> \in Units /\ <<t, 0>> \in UnitsOf(t) /\ <<t, 0>>[1] = t
        BY UnitFacts
      <4>2. db'[<<t, 0>>] = Marked(Merged(tx)[<<t, 0>>])
        BY <2>1, <2>5, <3>2, <4>1
      <4>3. Merged(tx)[<<t, 0>>] \in Rows
        <5>1. Merged(tx) \in [Units -> Rows]
          BY MergedRows DEF DataTyped, TxTyped
        <5> QED BY <4>1, <5>1
      <4>4. ~LiveRow(db'[<<t, 0>>])
        BY <4>2, <4>3, RowFacts
      <4> QED BY <3>2, <4>4 DEF Exact, Live, LiveRow
    <3> QED BY <3>1, <3>2
  <2>6. Agreed(db')
    BY <2>3, <2>4, <2>5 DEF Agreed
  <2> QED BY <1>1, <1>2, <1>3, <2>1, <2>6, QuietNext
<1> QED BY <1>4, <1>5

LEMMA QuietPasses == ASSUME CatalogSound, QuietOK, Passes, quiet' PROVE QuietOK'
<1> USE DEF CatalogSound, RowsTyped, RunTyped
<1>1. /\ UNCHANGED <<arr, cache, mode, quiet, snap, db, setting, specials, touched>> /\ pc = "passes" /\ pc' = "done"
      /\ files' = Materialized(IF mode = "full" THEN Units ELSE touched)
  BY DEF Passes, world, ghosts
<1>2. snap = arr /\ \A t \in Titles : cache'[t].on => cache'[t] = FreshList(t)
  BY <1>1 DEF QuietOK, ListsOK, ReadOK, Late
<1>3. /\ mode = "full" => Agreed(db)
      /\ mode = "lite" => \A t \in Titles : Compared(db, t)
  BY <1>1 DEF QuietOK, FullOK, LiteOK
<1>4. /\ mode' = "full" => Agreed(db')
      /\ mode' = "lite" => \A t \in Titles : Compared(db', t)
  BY <1>1, <1>3
<1>5. \A u \in (IF mode = "full" THEN Units ELSE touched) : u \in files' <=> Needed(db, u)
  BY <1>1 DEF Materialized
<1>6. \A u \in Units : Needed(db, u)' <=> Needed(db, u)
  BY <1>1 DEF Needed, Carries, Live, IsSpecial
<1>7. FilesOK'
  BY <1>1, <1>5, <1>6 DEF FilesOK
<1> QED BY <1>1, <1>2, <1>4, <1>7, QuietNext

\* A list that grows old, and steps that change nothing.
LEMMA QuietRest ==
  ASSUME CatalogSound, QuietOK, UNCHANGED <<world, db, files, quiet, syncing>>,
         \A t \in Titles : cache'[t] = cache[t] \/ ~cache'[t].on, quiet'
  PROVE  QuietOK'
<1>1. /\ UNCHANGED <<arr, setting, specials, db, files, quiet, pc, mode, snap, todo, item, tx, touched>> /\ quiet
  BY DEF world, syncing
<1>2. \A t \in Titles : cache'[t].on => cache'[t] = FreshList(t)
  BY <1>1 DEF QuietOK, ListsOK
<1>3. /\ pc' \in Late => snap' = arr
      /\ pc' = "list" => item'.st = arr[<<item'.t, 0>>]
  BY <1>1 DEF QuietOK, ReadOK
<1>4. \A s \in Titles : /\ Covered(Merged(tx), s) => Covered(Merged(tx)', s)
                        /\ Compared(Merged(tx), s) => Compared(Merged(tx)', s)
  BY <1>1, OthersStay
<1>5. /\ mode' = "full" /\ pc' \in {"titles", "list"} =>
           \A t \in Titles : t \in todo' \/ (pc' = "list" /\ t = item'.t) \/ Covered(Merged(tx)', t)
      /\ mode' = "full" /\ pc' \in {"passes", "done"} => Agreed(db')
  BY <1>1, <1>4 DEF QuietOK, FullOK, Awaiting
<1>6. /\ mode' = "lite" /\ pc' \in {"signatures", "titles", "list"} =>
           \A t \in Titles : t \in todo' \/ (pc' = "list" /\ t = item'.t) \/ Compared(Merged(tx)', t)
      /\ mode' = "lite" /\ pc' \in {"passes", "done"} => \A t \in Titles : Compared(db', t)
  BY <1>1, <1>4 DEF QuietOK, LiteOK, Awaiting
<1>7. FilesOK'
  BY <1>1 DEF QuietOK, FilesOK, Needed, Carries, Live, IsSpecial
<1> QED BY <1>1, <1>2, <1>3, <1>5, <1>6, <1>7, QuietNext

LEMMA QuietStep == CatalogSound /\ QuietOK /\ [CatalogNext]_catalogVars => QuietOK'
<1> SUFFICES ASSUME CatalogSound, QuietOK, [CatalogNext]_catalogVars, quiet' PROVE QuietOK'
  BY DEF QuietOK
<1> USE DEF CatalogSound, RowsTyped
<1>1. CASE BootSync
  BY <1>1, QuietBegin DEF BootSync
<1>2. ASSUME NEW m \in {"full", "lite"}, Scheduled(m) PROVE QuietOK'
  BY <1>2, QuietBegin DEF Scheduled
<1>3. CASE Specials
  <2>1. arr' = arr /\ pc' \notin Late
    BY <1>3 DEF Specials, Late
  <2>2. PICK T \in SUBSET Titles, F \in SUBSET Titles : F \in Failures(T) /\ ReadLists(T, F)
    BY <1>3 DEF Specials, RequestFails, Failures
  <2>3. \A t \in Titles : cache'[t].on => cache'[t] = FreshList(t)
    BY <2>2, QuietRead
  <2> QED BY <2>1, <2>3, EarlyQuiet
<1>4. CASE Seed \/ Finish
  <2>1. arr' = arr /\ pc' \notin Late /\ cache' = cache /\ quiet
    BY <1>4 DEF Seed, Finish, world, ghosts, Late
  <2>2. \A t \in Titles : cache'[t].on => cache'[t] = FreshList(t)
    BY <2>1 DEF QuietOK, ListsOK
  <2> QED BY <2>1, <2>2, EarlyQuiet
<1>5. CASE Catalog \/ Diff \/ Signatures
  BY <1>5, QuietCatalog
<1>6. ASSUME NEW t \in Titles, ItemGone(t) \/ Item(t) PROVE QuietOK'
  BY <1>6, QuietItem
<1>7. CASE List
  BY <1>7, QuietList
<1>8. CASE Commit \/ FullMark
  BY <1>8, QuietCommit
<1>9. CASE Passes
  BY <1>9, QuietPasses
<1>10. ~(CatalogFails \/ Raises \/ Crash \/ SpecialsOn)
  BY DEF CatalogFails, Raises, RequestFails, Crash, SpecialsOn
<1>11. \A t \in Titles : ~(Job(t) \/ ArrRemoves(t) \/ ArrAdds(t))
  BY DEF Job, ArrRemoves, ArrAdds, ArrBecomes
<1>12. \A u \in Units, st \in States : ~UnitChanges(u, st)
  BY DEF UnitChanges, ArrBecomes
<1>13. ASSUME NEW t \in Titles, Expires(t) PROVE QuietOK'
  <2>1. \A s \in Titles : cache'[s] = cache[s] \/ ~cache'[s].on
    BY <1>13 DEF Expires, DataTyped, NoList
  <2> QED BY <1>13, <2>1, QuietRest DEF Expires, ghosts
<1>14. CASE UNCHANGED catalogVars
  BY <1>14, QuietRest DEF catalogVars, ghosts
<1> QED
  BY <1>1, <1>2, <1>3, <1>4, <1>5, <1>6, <1>7, <1>8, <1>9, <1>10, <1>11, <1>12, <1>13, <1>14 DEF CatalogNext, SyncStep

\* At the end of a sync that nothing disturbed the rows, the catalog and the
\* placeholders agree, a full one's all, a lite one's counts and what it touched.
THEOREM QuietSyncs == CatalogSpec => []QuietSyncAgrees
<1>1. CatalogInit => CatalogSound /\ QuietOK
  BY CatalogInitSound, InitQuiet
<1>2. CatalogSound /\ QuietOK /\ [CatalogNext]_catalogVars => (CatalogSound /\ QuietOK)'
  BY CatalogSoundStep, QuietStep
<1> QED BY <1>1, <1>2, QuietIsAgreement, PTL DEF CatalogSpec
=============================================================================
