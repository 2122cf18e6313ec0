------------------------------ MODULE SyncRuns ------------------------------
(***************************************************************************)
(* The periodic maintenance of one process: the sync of the boot, the      *)
(* scheduler's full and lite syncs, the runs that a user asks for and the  *)
(* worker job of a changed Arr, with the full-sync flag and the pipeline   *)
(* lock that keep them apart, the gate that holds the workers, and the     *)
(* persisted next-run clock that decides what is overdue                   *)
(* (sync_coordinator.py, scheduled_sync.py, scheduler.py, boot_sync.py,    *)
(* startup.py, startup_sync_job.py, task_schedule_state.py, main.py,       *)
(* routes/tasks.py).                                                       *)
(*                                                                         *)
(* Time is abstracted to whether a clock is due: Elapse lets the next run  *)
(* time of a task pass.                                                    *)
(***************************************************************************)
EXTENDS Naturals, FiniteSets

CONSTANTS Manual,     \* threads of POST /api/tasks/run
          MaxAsks,    \* bound: requests of users
          MaxFaults   \* bound: errors, hangs, abandoned rows, restarts

Timed == {"full", "lite"}           \* the tasks with a schedule
Runner == Timed \union Manual       \* a scheduler's job has one thread at a time
Actor == {"boot", "arr"} \union Runner

ASSUME RunsAssumption == /\ IsFiniteSet(Manual) /\ Manual \intersect {"boot", "full", "lite", "arr"} = {}
                         /\ MaxAsks \in Nat /\ MaxFaults \in Nat

VARIABLES run,         \* [Actor -> [task, pc, row, raced]], a thread; row: its task run is working
          followUp,    \* the row of a full sync that has ended waits for its batches
          fullFlag,    \* _full_sync_active
          pipeline,    \* _pipeline_lock is held
          syncRow,     \* the startup-sync gate row is active
          workersGate, \* startup_sync_complete is set
          scheduler,   \* _sync_scheduler_started
          saved,       \* [Timed -> {"due", "ahead"}], the persisted next run; "due" if there is none
          firstRun,    \* the process was started before onboarding was complete
          owed,        \* tasks whose time has passed and that have not succeeded since
          excused,     \* tasks whose persisted clock was moved on without a run
          past, asks, faults

sync == <<fullFlag, pipeline, syncRow>>
clocks == <<saved, owed, excused>>
vars == <<run, followUp, sync, workersGate, scheduler, clocks, firstRun, past, asks, faults>>

Ended == [task |-> "none", pc |-> "over", row |-> "none", raced |-> FALSE]
Fresh(task, pc) == [Ended EXCEPT !.task = task, !.pc = pc]

Init == /\ firstRun \in BOOLEAN
        /\ run = [a \in Actor |-> IF a = "boot" THEN Fresh("none", IF firstRun THEN "gate" ELSE "decide")
                                                ELSE Ended]
        /\ followUp = FALSE
        /\ fullFlag = FALSE /\ pipeline = FALSE /\ syncRow = FALSE
        /\ workersGate = firstRun
        /\ scheduler = FALSE
        /\ saved \in [Timed -> {"due", "ahead"}]
        /\ owed = {t \in Timed : saved[t] = "due"}
        /\ excused = {}
        /\ past = {}
        /\ asks = MaxAsks /\ faults = MaxFaults

Fault == faults > 0 /\ faults' = faults - 1
Active(a) == run[a].pc # "over"

\* The threads between begin_full_sync and end_full_sync, and those that got the
\* pipeline lock and have not released it.
FullSyncs == {a \in Runner : run[a].task = "full" /\ run[a].pc \in {"arr", "section", "after"}}
InSection == {a \in Runner : run[a].pc = "section"}

\* reschedule_task_after_completion: the clock goes on from a completed run.
Bump(T) == /\ saved' = [t \in Timed |-> IF t \in T THEN "ahead" ELSE saved[t]]
           /\ owed' = owed \ T
           /\ excused' = excused \ T

-----------------------------------------------------------------------------
(* run_scheduled_full_sync *)

\* The flag is not set.
FullBeginsUnflagged(a) ==
  /\ run[a].task = "full" /\ run[a].pc = "start"
  /\ run' = [run EXCEPT ![a].row = "working", ![a].pc = "arr"]
  /\ UNCHANGED <<followUp, sync, workersGate, scheduler, clocks, firstRun, past, asks, faults>>

FullBegins(a) ==
  /\ run[a].task = "full" /\ run[a].pc = "start"
  /\ run' = [x \in Actor |-> CASE x = a -> [run[x] EXCEPT !.row = "working", !.pc = "arr"]
                               [] x # a /\ run[x].pc = "try" -> [run[x] EXCEPT !.raced = TRUE]
                               [] OTHER -> run[x]]
  /\ fullFlag' = TRUE
  /\ past' = IF FullSyncs # {} THEN past \union {"overlap"} ELSE past
  /\ UNCHANGED <<followUp, pipeline, syncRow, workersGate, scheduler, clocks, firstRun, asks, faults>>

\* begin_task_run raises before the flag is set.
FullBeginFails(a) ==
  /\ run[a].task = "full" /\ run[a].pc = "start"
  /\ run' = [run EXCEPT ![a] = Ended]
  /\ Fault
  /\ UNCHANGED <<followUp, sync, workersGate, scheduler, clocks, firstRun, past, asks>>

\* The Arrs have been synced: acquire_pipeline_blocking.
FullAcquires(a) == /\ run[a].task = "full" /\ run[a].pc = "arr" /\ ~pipeline
                   /\ pipeline' = TRUE
                   /\ run' = [run EXCEPT ![a].pc = "section"]
                   /\ UNCHANGED <<followUp, fullFlag, syncRow, workersGate, scheduler, clocks, firstRun, past, asks, faults>>

FullReleases(a) == /\ run[a].task = "full" /\ run[a].pc = "section"
                   /\ pipeline' = FALSE
                   /\ run' = [run EXCEPT ![a].pc = "after"]
                   /\ UNCHANGED <<followUp, fullFlag, syncRow, workersGate, scheduler, clocks, firstRun, past, asks, faults>>

\* end_full_sync clears the flag, whoever else has set it.
EndFullSync(a) == /\ fullFlag' = FALSE
                  /\ run' = [run EXCEPT ![a] = Ended]
                  /\ past' = IF FullSyncs = {a} THEN past \ {"overlap"} ELSE past

\* The follow-up batches are enqueued, or the run is complete.
FullEnds(a) ==
  /\ run[a].task = "full" /\ run[a].pc = "after"
  /\ \/ followUp' = TRUE /\ UNCHANGED clocks
     \/ Bump({"full", "lite"}) /\ UNCHANGED followUp
  /\ EndFullSync(a)
  /\ UNCHANGED <<pipeline, syncRow, workersGate, scheduler, firstRun, asks, faults>>

\* The sync raises; a section it is in is left through its finally.
FullFails(a) ==
  /\ run[a].task = "full" /\ run[a].pc \in {"arr", "section"}
  /\ pipeline' = IF run[a].pc = "section" THEN FALSE ELSE pipeline
  /\ EndFullSync(a)
  /\ Fault
  /\ UNCHANGED <<followUp, syncRow, workersGate, scheduler, clocks, firstRun, asks>>

\* The last batch completes the task run (TaskRun).
FollowUpsEnd == /\ followUp
                /\ followUp' = FALSE
                /\ Bump({"full", "lite"})
                /\ UNCHANGED <<run, sync, workersGate, scheduler, firstRun, past, asks, faults>>

Full(a) == FullBegins(a) \/ FullAcquires(a) \/ FullReleases(a) \/ FullEnds(a)

-----------------------------------------------------------------------------
(* run_lite_sync, run_calendar_only_maintenance *)

Minor(a) == run[a].task \in {"lite", "calendar"}

\* should_skip_lite_or_calendar
MinorLooks(a) == /\ Minor(a) /\ run[a].pc = "start"
                 /\ run' = IF fullFlag THEN [run EXCEPT ![a] = Ended] ELSE [run EXCEPT ![a].pc = "try"]
                 /\ UNCHANGED <<followUp, sync, workersGate, scheduler, clocks, firstRun, past, asks, faults>>

\* The run goes on although the lock is held.
MinorEntersAnyhow(a) ==
  /\ Minor(a) /\ run[a].pc = "try"
  /\ run' = [run EXCEPT ![a].row = "working", ![a].pc = "section"]
  /\ pipeline' = TRUE
  /\ UNCHANGED <<followUp, fullFlag, syncRow, workersGate, scheduler, clocks, firstRun, past, asks, faults>>

\* try_acquire_pipeline: the run is skipped, or its row is created.
MinorTries(a) ==
  /\ Minor(a) /\ run[a].pc = "try"
  /\ run' = IF pipeline THEN [run EXCEPT ![a] = Ended]
                         ELSE [run EXCEPT ![a].row = "working", ![a].pc = "section"]
  /\ pipeline' = TRUE
  /\ UNCHANGED <<followUp, fullFlag, syncRow, workersGate, scheduler, clocks, firstRun, past, asks, faults>>

\* begin_task_run raises outside the try: nobody releases the lock.
MinorBeginFails(a) == /\ Minor(a) /\ run[a].pc = "try" /\ ~pipeline
                      /\ run' = [run EXCEPT ![a] = Ended]
                      /\ pipeline' = TRUE
                      /\ past' = past \union {"leaked"}
                      /\ Fault
                      /\ UNCHANGED <<followUp, fullFlag, syncRow, workersGate, scheduler, clocks, firstRun, asks>>

MinorEnds(a) == /\ Minor(a) /\ run[a].pc = "section"
                /\ run' = [run EXCEPT ![a] = Ended]
                /\ pipeline' = FALSE
                /\ IF run[a].task = "lite" THEN Bump({"lite"}) ELSE UNCHANGED clocks
                /\ UNCHANGED <<followUp, fullFlag, syncRow, workersGate, scheduler, firstRun, past, asks, faults>>

\* The lock is released at the end of the try only.
MinorFailsHolding(a) == /\ Minor(a) /\ run[a].pc = "section"
                        /\ run' = [run EXCEPT ![a] = Ended]
                        /\ Fault
                        /\ UNCHANGED <<followUp, sync, workersGate, scheduler, clocks, firstRun, past, asks>>

MinorFails(a) == /\ Minor(a) /\ run[a].pc = "section"
                 /\ run' = [run EXCEPT ![a] = Ended]
                 /\ pipeline' = FALSE
                 /\ Fault
                 /\ UNCHANGED <<followUp, fullFlag, syncRow, workersGate, scheduler, clocks, firstRun, past, asks>>

Lite(a) == MinorLooks(a) \/ MinorTries(a) \/ MinorEnds(a)

Step(a) == Full(a) \/ Lite(a)

-----------------------------------------------------------------------------
(* The boot: run_startup_source_of_truth in a thread, or in a worker job after onboarding *)

\* ensure_sync_scheduler_started: a clock that is due is set to catch up soon.
StartScheduler ==
  IF scheduler THEN UNCHANGED <<scheduler, clocks>>
  ELSE /\ scheduler' = TRUE
       /\ saved' = [t \in Timed |-> "ahead"]
       /\ excused' = excused \union owed
       /\ UNCHANGED owed

\* The job of the first run takes the startup-sync gate, or is skipped and
\* recorded as done.
BootGate == /\ run["boot"].pc = "gate"
            /\ run' = [run EXCEPT !["boot"] = IF syncRow THEN Ended ELSE Fresh("none", "decide")]
            /\ syncRow' = TRUE
            /\ past' = IF syncRow THEN past \union {"denied"} ELSE past
            /\ UNCHANGED <<followUp, fullFlag, pipeline, workersGate, scheduler, clocks, firstRun, asks, faults>>

\* resolve_boot_sync_mode: what is overdue and what STARTUP_SYNC_MODE demands;
\* the first run always demands a full sync.
BootMode(setting) ==
  CASE saved["full"] = "due" \/ setting = "full" \/ firstRun -> "full"
    [] saved["full"] # "due" /\ setting # "full" /\ ~firstRun
         /\ (saved["lite"] = "due" \/ setting = "lite") -> "lite"
    [] OTHER -> "off"

\* The scheduler does not wait for the sync.
BootDecidesAndSchedules ==
  /\ run["boot"].pc = "decide"
  /\ run' = [run EXCEPT !["boot"] = [Fresh("full", "section") EXCEPT !.row = "working"]]
  /\ StartScheduler
  /\ UNCHANGED <<followUp, sync, workersGate, firstRun, past, asks, faults>>

BootDecides == /\ run["boot"].pc = "decide"
               /\ \E setting \in {"off", "lite", "full"} :
                    LET mode == BootMode(setting) IN
                    run' = [run EXCEPT !["boot"] =
                              IF mode = "off" THEN Fresh("none", "ending")
                                              ELSE [Fresh(mode, "section") EXCEPT !.row = "working"]]
               /\ UNCHANGED <<followUp, sync, workersGate, scheduler, clocks, firstRun, past, asks, faults>>

\* A full sync stands for a lite one; a lite sync leaves an overdue full one.
BootDone == LET task == run["boot"].task IN
            /\ run["boot"].pc = "section"
            /\ run' = [run EXCEPT !["boot"].row = "none", !["boot"].pc = "ending"]
            /\ Bump(IF task = "full" THEN {"full", "lite"} ELSE {"lite"})
            /\ UNCHANGED <<followUp, sync, workersGate, scheduler, firstRun, past, asks, faults>>

BootFails == /\ run["boot"].pc = "section"
             /\ run' = [run EXCEPT !["boot"].row = "none", !["boot"].pc = "ending"]
             /\ Fault
             /\ UNCHANGED <<followUp, sync, workersGate, scheduler, clocks, firstRun, past, asks>>

\* An Arr never answers.
BootHangs == /\ run["boot"].pc = "section"
             /\ run' = [run EXCEPT !["boot"].pc = "hung"]
             /\ Fault
             /\ UNCHANGED <<followUp, sync, workersGate, scheduler, clocks, firstRun, past, asks>>

\* The boot ends: the scheduler is started, then the workers are let go.
BootEnds == /\ run["boot"].pc = "ending"
            /\ StartScheduler
            /\ run' = [run EXCEPT !["boot"] = Ended]
            /\ syncRow' = IF firstRun THEN FALSE ELSE syncRow
            /\ workersGate' = TRUE
            /\ UNCHANGED <<followUp, fullFlag, pipeline, firstRun, past, asks, faults>>

\* The clock cannot be read: the error is logged, and nobody tries again.
BootEndsUnscheduled == /\ run["boot"].pc = "ending" /\ ~scheduler
                       /\ run' = [run EXCEPT !["boot"] = Ended]
                       /\ syncRow' = IF firstRun THEN FALSE ELSE syncRow
                       /\ workersGate' = TRUE
                       /\ past' = past \union {"unscheduled"}
                       /\ Fault
                       /\ UNCHANGED <<followUp, fullFlag, pipeline, scheduler, clocks, firstRun, asks>>

Boot == BootGate \/ BootDecides \/ BootDone \/ BootEnds

\* _startup_gate_watchdog fires after half an hour; it is not set up when the
\* process was started before onboarding.
Watchdog == /\ ~workersGate
            /\ workersGate' = TRUE
            /\ past' = past \union {"watchdog"}
            /\ UNCHANGED <<run, followUp, sync, scheduler, clocks, firstRun, asks, faults>>

-----------------------------------------------------------------------------
(* The worker job of a changed Arr *)

ArrChanges == /\ workersGate /\ ~Active("arr") /\ asks > 0
              /\ asks' = asks - 1
              /\ IF syncRow THEN UNCHANGED <<run, syncRow>>
                            ELSE run' = [run EXCEPT !["arr"] = Fresh("arr", "section")] /\ syncRow' = TRUE
              /\ UNCHANGED <<followUp, fullFlag, pipeline, workersGate, scheduler, clocks, firstRun, past, faults>>

\* It leaves the workers' gate alone, and starts the scheduler.
ArrEnds == /\ run["arr"].pc = "section"
           /\ run' = [run EXCEPT !["arr"] = Ended]
           /\ syncRow' = FALSE
           /\ StartScheduler
           /\ UNCHANGED <<followUp, fullFlag, pipeline, workersGate, firstRun, past, asks, faults>>

-----------------------------------------------------------------------------
(* The scheduler, the clock and the users *)

\* The next run time passes.  A started scheduler moves it on and fires the job,
\* unless an instance of it is still running (max_instances = 1); the saved
\* clock stays behind.
Elapse(t) == /\ scheduler \/ saved[t] = "ahead"
             /\ run' = IF scheduler /\ ~Active(t) THEN [run EXCEPT ![t] = Fresh(t, "start")] ELSE run
             /\ saved' = [saved EXCEPT ![t] = "due"]
             /\ owed' = owed \union {t}
             /\ excused' = excused \ {t}
             /\ UNCHANGED <<followUp, sync, workersGate, scheduler, firstRun, past, asks, faults>>

\* get_scheduled_task_metadata writes the scheduler's time over the saved one.
Poll == /\ scheduler
        /\ saved' = [t \in Timed |-> "ahead"]
        /\ excused' = owed
        /\ UNCHANGED <<run, followUp, sync, workersGate, scheduler, owed, firstRun, past, asks, faults>>

Working(task) == \/ \E a \in Actor : run[a].task = task /\ run[a].row = "working"
                 \/ task = "full" /\ followUp

\* POST /api/tasks/run: the rows are looked at and a thread is started.
Ask(m, task) == /\ asks > 0 /\ asks' = asks - 1
                /\ ~Active(m)
                /\ ~Working("full") /\ ~Working("lite")
                /\ task = "calendar" => ~Working("calendar")
                /\ run' = [run EXCEPT ![m] = Fresh(task, "start")]
                /\ UNCHANGED <<followUp, sync, workersGate, scheduler, clocks, firstRun, past, faults>>

\* POST /api/tasks/abandon: the rows of threads that may well be at work.
AbandonRows == /\ \E a \in Actor : run[a].row = "working"
               /\ run' = [a \in Actor |-> [run[a] EXCEPT !.row = "none"]]
               /\ Fault
               /\ UNCHANGED <<followUp, sync, workersGate, scheduler, clocks, firstRun, past, asks>>

\* A new process: only the rows of the database are left.
Restart == /\ run' = [a \in Actor |-> IF a = "boot" THEN Fresh("none", "decide") ELSE Ended]
           /\ followUp' = FALSE
           /\ fullFlag' = FALSE /\ pipeline' = FALSE
           /\ workersGate' = FALSE /\ scheduler' = FALSE
           /\ firstRun' = FALSE
           /\ past' = {}
           /\ syncRow' = FALSE
           /\ Fault
           /\ UNCHANGED <<saved, owed, excused, asks>>

Next == \/ \E a \in Runner : Step(a) \/ FullBeginFails(a) \/ FullFails(a) \/ MinorBeginFails(a) \/ MinorFails(a)
        \/ FollowUpsEnd
        \/ Boot \/ BootFails \/ BootHangs \/ BootEndsUnscheduled \/ Watchdog
        \/ ArrChanges \/ ArrEnds
        \/ \E t \in Timed : Elapse(t)
        \/ Poll
        \/ \E m \in Manual, task \in {"full", "lite", "calendar"} : Ask(m, task)
        \/ AbandonRows \/ Restart

Spec == Init /\ [][Next]_vars

\* Threads are scheduled, the lock is handed on to everyone who waits, time passes,
\* timers fire and batches end; nobody has to ask for anything.
Fairness == /\ \A a \in Runner : SF_vars(Step(a))
            /\ WF_vars(FollowUpsEnd) /\ WF_vars(Boot) /\ WF_vars(Watchdog) /\ WF_vars(ArrEnds)
            /\ \A t \in Timed : WF_vars(Elapse(t))

FairSpec == Spec /\ Fairness

-----------------------------------------------------------------------------
(* Properties *)

Pc == {"over", "start", "arr", "section", "after", "try", "gate", "decide", "ending", "hung"}

\* Every variable stays in its range, and only running threads have working rows.
TypeOK ==
  /\ run \in [Actor -> [task : {"none", "full", "lite", "calendar", "arr"}, pc : Pc,
                        row : {"none", "working"}, raced : BOOLEAN]]
  /\ \A a \in Actor : run[a].row = "working" => Active(a)
  /\ {followUp, fullFlag, pipeline, syncRow, workersGate, scheduler, firstRun} \subseteq BOOLEAN
  /\ saved \in [Timed -> {"due", "ahead"}]
  /\ owed \subseteq Timed /\ excused \subseteq owed
  /\ past \subseteq {"overlap", "leaked", "denied", "watchdog", "unscheduled"}
  /\ asks \in 0..MaxAsks /\ faults \in 0..MaxFaults

\* At most one sync is between acquire and release, the lock is then held, and a
\* lock that nobody holds was leaked by a run whose row could not be created.
PipelineExclusive == /\ Cardinality(InSection) <= 1
                     /\ InSection # {} => pipeline
                     /\ pipeline => InSection # {} \/ "leaked" \in past

\* While a full sync is under way its flag is set, unless another full sync that
\* overlapped it has ended.
FlagCoversFullSync == FullSyncs # {} => fullFlag \/ "overlap" \in past

\* A lite or calendar run enters the pipeline only while no full sync is under
\* way, unless that began between its look and its try, or its flag was cleared.
Enters(a) == a \notin InSection /\ a \in InSection' /\ run'[a].task # "full"
LiteAwaitsFull == [][\A a \in Runner : Enters(a) => FullSyncs = {} \/ run[a].raced \/ "overlap" \in past]_vars

\* Neither the workers' jobs nor the scheduler start before the sync of the boot
\* has ended, unless it took more than half an hour or the process was started
\* before onboarding was complete.
BootFirst == Active("boot") /\ ~firstRun /\ "watchdog" \notin past => ~Active("arr") /\ ~scheduler

\* A sync whose time has passed counts as overdue until it has succeeded, over
\* failures and restarts, unless its clock was moved on by the polling of the
\* task page or by the start of the scheduler.
OwedIsOverdue == \A t \in owed : saved[t] = "due" \/ t \in excused

\* The workers are let go in the end, even if the sync of the boot hangs.
WorkersReleased == []<>workersGate

\* Every sync whose time has passed succeeds in the end, unless the lock was
\* leaked, or the scheduler was never started: its start failed or the boot hangs.
Stuck == past \intersect {"leaked", "unscheduled"} # {} \/ run["boot"].pc = "hung"
EveryDueSyncRuns == \A t \in Timed : (t \in owed) ~> (t \notin owed \/ Stuck)

-----------------------------------------------------------------------------
(* What the documentation says and the code does not do *)

\* startup_gate.py:3-5: "Worker threads wait on this event before processing any
\* queued jobs, ensuring the initial sync has a chance to populate/update the
\* database first."
WorkersAwaitSync == run["boot"].pc = "section" /\ "watchdog" \notin past => ~workersGate
=============================================================================
