------------------------------ MODULE Playback ------------------------------
(***************************************************************************)
(* Somebody plays the placeholder of a movie: the webhook is stored, a     *)
(* worker asks Radarr for a search and shows SEARCHING, and the queue      *)
(* monitor follows Radarr's download queue until the movie is imported or  *)
(* declared NOT_FOUND.  The title is in one or two Radarr instances, with  *)
(* a Placeholder row each.  Five actors write these rows: the receiver of  *)
(* webhooks, the workers, the monitor, the calendar phase and the events   *)
(* of Radarr.  None of them locks a row it has read; the monitor and the   *)
(* calendar phase load rows, think, and write them later.                  *)
(*                                                                         *)
(* A timestamp is modelled by its age: the units passed since, up to Cap.  *)
(***************************************************************************)
EXTENDS Integers, Sequences, FiniteSets

CONSTANTS Instances,      \* the two Radarr instances, standard and 4k
          Standard,       \* the first of them
          Settings,       \* titles and settings, one of which holds
          Fallback,       \* ENABLE_PLAYBACK_FALLBACK_SEARCH
          Executors,      \* the worker threads
          SearchTimeout,  \* QUEUE_MONITOR_SEARCH_TIMEOUT_SECONDS, in units
          RetryGrace      \* QUEUE_MONITOR_RETRY_GRACE_SECONDS, in units

ASSUME PlaybackAssumption ==
  /\ \E uhd \in Instances : uhd # Standard /\ Instances = {Standard, uhd}
  /\ Standard \in Instances
  /\ Settings \subseteq
       [present: (SUBSET Instances) \ {{}},           \* who has the title
        prefer: {"primary", "secondary", "both"},   \* ..._SEARCH_MODE
        calendar: {"outside", "REQUEST", "COMING_SOON"},  \* of the title
        plays: Nat, grabs: Nat, imports: Nat, restarts: Nat]  \* bounds
  /\ Fallback \in BOOLEAN
  /\ SearchTimeout \in Nat \ {0} /\ RetryGrace \in Nat \ {0}

VARIABLES set,     \* the setting that holds
          ph,      \* the Placeholder row of each instance
          qm,      \* row.extra["queue_monitor"]
          aged,    \* was queue_monitor_active_set_at over 24 hours ago?
          download,  \* the title in Radarr's download queue
          media,   \* the file: none, in Radarr only, in its grace, known
          gate,    \* startup_sync_complete
          job,     \* the webhook_event job of each playback
          fb,      \* its playback_fallback job
          wk,      \* what each worker does
          mon,     \* what the monitor does
          wake,    \* its event
          signal,  \* a NOTIFY on its way
          cal,     \* the rows the calendar phase has loaded
          since,   \* age of the last search Radarr accepted
          asks,    \* how many it accepted, up to 2
          called,  \* instances flagged with a NOTIFY not looked at since
          grabs, imports, restarts

shown == <<ph, qm, aged>>
radarr == <<download, media>>
queue == <<job, fb, wk>>
watcher == <<mon, wake, signal>>
ghost == <<since, asks, called>>
bounds == <<grabs, imports, restarts>>
playbackVars == <<set, shown, radarr, gate, queue, watcher, cal, ghost,
                  bounds>>

Present == set.present
Plays == 1..set.plays
Unset == -1
Cap == IF SearchTimeout > RetryGrace THEN SearchTimeout ELSE RetryGrace
Ages == -1..Cap
ActiveQueueStatuses ==
  {"SEARCHING", "DOWNLOADING", "IMPORT_IN_PROGRESS", "RETRYING"}
Terminal == {"NOT_FOUND", "AVAILABLE"}
Statuses == ActiveQueueStatuses \cup Terminal \cup
            {"none", "REQUEST", "COMING_SOON", "SEARCH_QUEUED", "COUNTDOWN"}
\* The reasons that tell two lines of one status apart.
Reasons == {"other", "played", "waiting", "queued", "failed", "left"}
Rows == [has: BOOLEAN, status: Statuses, why: Reasons, watch: BOOLEAN]
QueueMonitor == [seen: BOOLEAN, left: Ages, search: Ages]
Fresh == [seen |-> FALSE, left |-> Unset, search |-> Unset]
Items == {"none", "queued", "downloading", "completed", "failed"}
Idle == [pc |-> "idle", kind |-> "play", of |-> 0, todo |-> <<>>,
         ok |-> FALSE, flag |-> {}, bell |-> {}]
NoIntents == [i \in {} |-> 0]
Quiet == [pc |-> "probe", ask |-> {}, map |-> [i \in Instances |-> "none"],
          todo |-> NoIntents]

PlaybackTypeOK ==
  /\ set \in Settings
  /\ ph \in [Instances -> Rows]
  /\ qm \in [Instances -> QueueMonitor]
  /\ aged \in [Instances -> BOOLEAN]
  /\ download \in [Instances -> Items]
  /\ media \in [Instances -> {"none", "reported", "grace", "known"}]
  /\ gate \in BOOLEAN
  /\ job \in [Plays -> {"none", "pending", "running", "done"}]
  /\ fb \in [Plays -> {"none", "waiting", "due", "running", "done"}]
  /\ \A w \in Executors :
       /\ wk[w].pc \in {"idle", "search", "show", "flag", "finish", "done"}
       /\ wk[w].kind \in {"play", "fallback"}
       /\ wk[w].todo \in Seq(Present)
       /\ wk[w].flag \subseteq wk[w].bell /\ wk[w].bell \subseteq Present
  /\ mon.pc \in {"probe", "wait", "clear", "fetch", "collect", "apply"}
  /\ mon.ask \subseteq Present /\ mon.map \in [Instances -> Items]
  /\ DOMAIN mon.todo \subseteq Present
  /\ wake \in BOOLEAN /\ signal \in BOOLEAN
  /\ DOMAIN cal \subseteq Present
  /\ since \in [Instances -> 0..Cap] /\ asks \in [Instances -> 0..2]
  /\ called \subseteq Present
  /\ grabs \in 0..set.grabs /\ imports \in 0..set.imports
  /\ restarts \in 0..set.restarts

\* The placeholders are there, nothing was ever played, the boot sync runs.
PlaybackInit ==
  /\ set \in Settings
  /\ ph = [i \in Instances |->
              [has |-> i \in Present, watch |-> FALSE, why |-> "other",
               status |-> IF i \in Present THEN "REQUEST" ELSE "none"]]
  /\ qm = [i \in Instances |-> Fresh]
  /\ aged = [i \in Instances |-> FALSE]
  /\ download = [i \in Instances |-> "none"]
  /\ media = [i \in Instances |-> "none"]
  /\ gate = FALSE
  /\ job = [p \in Plays |-> "none"] /\ fb = [p \in Plays |-> "none"]
  /\ wk = [w \in Executors |-> Idle]
  /\ mon = Quiet /\ wake = FALSE /\ signal = FALSE
  /\ cal = NoIntents
  /\ since = [i \in Instances |-> 0] /\ asks = [i \in Instances |-> 0]
  /\ called = {}
  /\ grabs = 0 /\ imports = 0 /\ restarts = 0

-----------------------------------------------------------------------------
(* Writing a row.                                                          *)

HasFile(i) == media[i] = "known"

\* The session writes the columns that it has changed, not those that it has
\* loaded: what others wrote meanwhile survives where the values are equal.
Flush(now, loaded, new) ==
  [f \in DOMAIN now |-> IF new[f] = loaded[f] THEN now[f] ELSE new[f]]

\* A status intent, applied to the row as the session has loaded it.
Intend(loaded, status, why) ==
  [has |-> loaded.has, status |-> status, why |-> why,
   watch |-> loaded.watch /\ status \notin Terminal]

-----------------------------------------------------------------------------
(* The receiver of webhooks.                                               *)

\* Before the gate opens, every instance that has a placeholder shows at once
\* that a search is queued.
Receive(p) ==
  /\ job[p] = "none" /\ \A q \in 1..(p - 1) : job[q] # "none"
  /\ \E i \in Present : ph[i].has
  /\ job' = [job EXCEPT ![p] = "pending"]
  /\ ph' = IF gate THEN ph
            ELSE [i \in Instances |->
                    IF ph[i].has THEN Intend(ph[i], "SEARCH_QUEUED", "other")
                    ELSE ph[i]]
  /\ UNCHANGED <<set, qm, aged, radarr, gate, fb, wk, watcher,
                 cal, ghost, bounds>>

GateOpens ==
  /\ ~gate
  /\ gate' = TRUE
  /\ UNCHANGED <<set, shown, radarr, queue, watcher, cal, ghost,
                 bounds>>

-----------------------------------------------------------------------------
(* The workers.                                                            *)

Others(i) == Instances \ {i}
Preferred ==
  IF set.prefer = "secondary" THEN CHOOSE i \in Others(Standard) : TRUE
  ELSE Standard
Other == CHOOSE i \in Others(Preferred) : TRUE

\* The rows to search for: one instance, or both, the standard one first.
Selected ==
  LET first == IF Preferred \in Present THEN Preferred ELSE Other
  IN IF set.prefer = "both" /\ Present = Instances THEN <<Preferred, Other>>
     ELSE <<first>>

\* The other instance is searched later, unless both or already the other were.
DelayedFallback ==
  Fallback /\ set.prefer # "both" /\ Present = Instances

At(w, pc) == wk[w].pc = pc
Row(w) == Head(wk[w].todo)
WorkerGoto(w, pc) == wk' = [wk EXCEPT ![w].pc = pc]
Skip(w) ==
  wk' = [wk EXCEPT ![w].todo = Tail(@),
                   ![w].pc = IF Len(wk[w].todo) > 1 THEN "search" ELSE "finish"]

\* A worker takes a job.  A playback that is not of a placeholder any more
\* does nothing, and neither does a fallback when the preferred instance has
\* the file by now.
Start(w, kind, p, rows) ==
  wk' = [wk EXCEPT ![w] =
           [pc |-> IF rows = <<>> THEN "finish" ELSE "search", kind |-> kind,
            of |-> p, todo |-> rows, ok |-> FALSE, flag |-> {}, bell |-> {}]]

Claim(w) ==
  /\ At(w, "idle") /\ gate
  /\ \E p \in Plays :
       \/ /\ job[p] = "pending"
          /\ job' = [job EXCEPT ![p] = "running"] /\ UNCHANGED fb
          /\ Start(w, "play", p,
                   IF \E i \in Present : ph[i].has THEN Selected ELSE <<>>)
       \/ /\ fb[p] = "due"
          /\ fb' = [fb EXCEPT ![p] = "running"] /\ UNCHANGED job
          /\ Start(w, "fallback", p,
                   IF HasFile(Preferred) THEN <<>> ELSE <<Other>>)
  /\ UNCHANGED <<set, shown, radarr, gate, watcher, cal, ghost, bounds>>

\* Radarr is asked to search; the request may fail.
Search(w) ==
  /\ At(w, "search")
  /\ LET i == Row(w)
     IN IF HasFile(i)
          THEN Skip(w) /\ UNCHANGED <<since, asks>>
          ELSE \E ok \in BOOLEAN :
                 /\ wk' = [wk EXCEPT ![w].ok = ok, ![w].pc = "show"]
                 /\ since' = IF ok THEN [since EXCEPT ![i] = 0] ELSE since
                 /\ asks' = IF ok /\ asks[i] < 2
                              THEN [asks EXCEPT ![i] = @ + 1] ELSE asks
  /\ UNCHANGED <<set, shown, radarr, gate, job, fb, watcher, cal,
                 called, bounds>>

\* What a commit of worker w writes besides: the flags and the NOTIFY of the
\* row before.
Flagged(w, rows) ==
  [i \in Instances |-> IF i \in wk[w].flag THEN [rows[i] EXCEPT !.watch = TRUE]
                       ELSE rows[i]]
Ring(w) ==
  /\ aged' = [i \in Instances |-> aged[i] /\ i \notin wk[w].bell]
  /\ signal' = (signal \/ wk[w].bell # {})
  /\ called' = called \cup wk[w].bell

\* SEARCHING is shown and committed, whether Radarr was reached or not.
Show(w) ==
  /\ At(w, "show")
  /\ LET i == Row(w)
     IN IF ph[i].has
          THEN /\ ph' = Flagged(w, [ph EXCEPT ![i] =
                                       Intend(@, "SEARCHING", "played")])
               /\ Ring(w)
               /\ wk' = [wk EXCEPT ![w].pc = "flag", ![w].flag = {},
                                   ![w].bell = {}]
          ELSE Skip(w) /\ UNCHANGED <<ph, aged, signal, called>>
  /\ UNCHANGED <<set, qm, radarr, gate, job, fb, mon, wake, cal,
                 since, asks, bounds>>

\* The flag for the monitor is set in the session after that commit, and only
\* if the search was accepted.
Flag(w) ==
  /\ At(w, "flag")
  /\ LET i == Row(w)
         more == Len(wk[w].todo) > 1
     IN wk' = [wk EXCEPT
          ![w].todo = Tail(@), ![w].pc = IF more THEN "search" ELSE "finish",
          ![w].bell = IF wk[w].ok THEN {i} ELSE {},
          ![w].flag = IF wk[w].ok /\ ~ph[i].watch THEN {i} ELSE {}]
  /\ UNCHANGED <<set, shown, radarr, gate, job, fb, watcher, cal,
                 ghost, bounds>>

\* The commit of the handler, with the fallback job if there is to be one.
Finish(w) ==
  /\ At(w, "finish")
  /\ ph' = Flagged(w, ph)
  /\ Ring(w)
  /\ fb' = IF wk[w].kind = "play" /\ wk[w].ok /\ DelayedFallback
             THEN [fb EXCEPT ![wk[w].of] = "waiting"] ELSE fb
  /\ WorkerGoto(w, "done")
  /\ UNCHANGED <<set, qm, radarr, gate, job, mon, wake, cal,
                 since, asks, bounds>>

\* The worker finishes the job in a transaction of its own.
Done(w) ==
  /\ At(w, "done")
  /\ IF wk[w].kind = "play"
       THEN job' = [job EXCEPT ![wk[w].of] = "done"] /\ UNCHANGED fb
       ELSE fb' = [fb EXCEPT ![wk[w].of] = "done"] /\ UNCHANGED job
  /\ wk' = [wk EXCEPT ![w] = Idle]
  /\ UNCHANGED <<set, shown, radarr, gate, watcher, cal, ghost,
                 bounds>>

-----------------------------------------------------------------------------
(* The queue monitor.                                                      *)

Targets == {i \in Present : /\ ph[i].has /\ ph[i].watch /\ ~HasFile(i)
                            /\ ph[i].status \in ActiveQueueStatuses}
MonitorAt(pc) == mon.pc = pc
MonitorGoto(pc) == mon' = [mon EXCEPT !.pc = pc]

\* A poll first expires the flags that are older than a day.
BeginPoll ==
  /\ ph' = [i \in Instances |-> [ph[i] EXCEPT !.watch = @ /\ ~aged[i]]]
  /\ aged' = [i \in Instances |-> FALSE]
  /\ LET S == {i \in Targets : ~aged[i]}
     IN mon' = [mon EXCEPT !.ask = S,
                           !.pc = IF S = {} THEN "probe" ELSE "fetch"]

\* With something to watch the monitor polls, otherwise it waits.
Probe ==
  /\ MonitorAt("probe")
  /\ IF Targets = {} THEN MonitorGoto("wait") /\ UNCHANGED <<ph, aged>>
     ELSE BeginPoll
  /\ called' = {}
  /\ UNCHANGED <<set, qm, radarr, gate, queue, wake, signal, cal, since, asks,
                 bounds>>

\* Mutant: the event is cleared between the look and the wait.
WaitClearing ==
  /\ MonitorAt("wait")
  /\ \/ wake' = FALSE /\ UNCHANGED mon
     \/ MonitorGoto("clear") /\ UNCHANGED wake
  /\ UNCHANGED <<set, shown, radarr, gate, queue, signal, cal, ghost, bounds>>

\* The wait ends when the event is set, or with the safety poll.
Wait ==
  /\ MonitorAt("wait")
  /\ MonitorGoto("clear")
  /\ UNCHANGED <<set, shown, radarr, gate, queue, wake, signal, cal, ghost,
                 bounds>>

ClearEvent ==
  /\ MonitorAt("clear")
  /\ wake' = FALSE
  /\ MonitorGoto("probe")
  /\ UNCHANGED <<set, shown, radarr, gate, queue, signal, cal, ghost, bounds>>

\* The instances are asked for their queues.  A queue that cannot be read
\* counts as an empty one.
FetchQueues ==
  /\ MonitorAt("fetch")
  /\ \E down \in SUBSET mon.ask :
       mon' = [mon EXCEPT !.ask = {}, !.pc = "collect",
                          !.map = [i \in Instances |->
                                     IF i \in mon.ask \ down THEN download[i]
                                     ELSE "none"]]
  /\ UNCHANGED <<set, shown, radarr, gate, queue, wake, signal, cal, ghost,
                 bounds>>

\* The timers of a row after a look at its queue item.
NextQm(q, item) ==
  IF item # "none" THEN [seen |-> TRUE, left |-> Unset, search |-> Unset]
  ELSE IF q.seen THEN [q EXCEPT !.left = IF @ = Unset THEN 0 ELSE @]
  ELSE [q EXCEPT !.search = IF @ = Unset THEN 0
                            ELSE IF @ >= SearchTimeout THEN Unset ELSE @]

\* Mutant: a search times out as soon as its timer runs.
LineEarly(q, item) ==
  CASE item = "queued" -> <<"SEARCHING", "queued">>
    [] item = "downloading" -> <<"DOWNLOADING", "other">>
    [] item = "completed" -> <<"IMPORT_IN_PROGRESS", "other">>
    [] item = "failed" -> <<"RETRYING", "failed">>
    [] item = "none" /\ q.seen ->
         IF NextQm(q, item).left < RetryGrace
           THEN <<"RETRYING", "left">> ELSE <<"NOT_FOUND", "other">>
    [] OTHER -> IF q.search = Unset THEN <<"SEARCHING", "waiting">>
                ELSE <<"NOT_FOUND", "other">>

\* Mutant: a search that never had a queue item is never given up.
LinePatient(q, item) ==
  CASE item = "queued" -> <<"SEARCHING", "queued">>
    [] item = "downloading" -> <<"DOWNLOADING", "other">>
    [] item = "completed" -> <<"IMPORT_IN_PROGRESS", "other">>
    [] item = "failed" -> <<"RETRYING", "failed">>
    [] item = "none" /\ q.seen ->
         IF NextQm(q, item).left < RetryGrace
           THEN <<"RETRYING", "left">> ELSE <<"NOT_FOUND", "other">>
    [] OTHER -> <<"SEARCHING", "waiting">>

\* The status and reason to show for it.
Line(q, item) ==
  CASE item = "queued" -> <<"SEARCHING", "queued">>
    [] item = "downloading" -> <<"DOWNLOADING", "other">>
    [] item = "completed" -> <<"IMPORT_IN_PROGRESS", "other">>
    [] item = "failed" -> <<"RETRYING", "failed">>
    [] item = "none" /\ q.seen ->
         IF NextQm(q, item).left < RetryGrace
           THEN <<"RETRYING", "left">> ELSE <<"NOT_FOUND", "other">>
    [] OTHER -> IF q.search < SearchTimeout THEN <<"SEARCHING", "waiting">>
                ELSE <<"NOT_FOUND", "other">>

\* The rows are loaded afresh after the requests; a row that was not asked for
\* counts as not queued.  An intent is built where the line is a new one, and
\* where a progress may have moved.
Collect ==
  /\ MonitorAt("collect")
  /\ LET line == [i \in Targets |-> Line(qm[i], mon.map[i])]
         news == {i \in Targets : line[i] # <<ph[i].status, ph[i].why>>}
         moved == {i \in Targets \ news :
                     ph[i].status \in {"DOWNLOADING", "IMPORT_IN_PROGRESS"}}
     IN /\ qm' = [i \in Instances |-> IF i \in Targets
                                        THEN NextQm(qm[i], mon.map[i])
                                        ELSE qm[i]]
        /\ \E M \in SUBSET moved :
             mon' = [Quiet EXCEPT
                       !.pc = IF news \cup M = {} THEN "probe" ELSE "apply",
                       !.todo = [i \in news \cup M |->
                                   [line |-> line[i], loaded |-> ph[i]]]]
  /\ UNCHANGED <<set, ph, aged, radarr, gate, queue, wake,
                 signal, cal, ghost, bounds>>

\* The first intent is applied to the row as it was loaded, the others to the
\* row as it is, since every commit makes the session read again.
Apply(i) ==
  /\ MonitorAt("apply") /\ i \in DOMAIN mon.todo
  /\ LET line == mon.todo[i].line
         rest == (DOMAIN mon.todo) \ {i}
     IN /\ \E loaded \in {mon.todo[i].loaded, ph[i]} :
             ph' = [ph EXCEPT ![i] =
                       Flush(@, loaded, Intend(loaded, line[1], line[2]))]
        /\ mon' = [mon EXCEPT !.pc = IF rest = {} THEN "probe" ELSE "apply",
                              !.todo = [k \in rest |-> @[k]]]
  /\ UNCHANGED <<set, qm, aged, radarr, gate, queue, wake, signal,
                 cal, ghost, bounds>>

Monitor == \/ Probe \/ Wait \/ ClearEvent \/ FetchQueues \/ Collect
           \/ \E i \in Present : Apply(i)

\* The notifier hands the signal on, or it was lost with the connection.
Deliver ==
  /\ signal
  /\ signal' = FALSE
  /\ \/ wake' = TRUE /\ UNCHANGED called
     \/ called' = {} /\ UNCHANGED wake
  /\ UNCHANGED <<set, shown, radarr, gate, queue, mon, cal, since,
                 asks, bounds>>

-----------------------------------------------------------------------------
(* The calendar phase.                                                     *)

Decision(known) == IF known THEN "AVAILABLE" ELSE set.calendar

\* A chunk is loaded and decided row by row ...
CalendarLoad ==
  /\ set.calendar # "outside" /\ DOMAIN cal = {}
  /\ LET S == {i \in Present : /\ ph[i].has
                               /\ ph[i].status # Decision(HasFile(i))}
     IN /\ S # {}
        /\ cal' = [i \in S |-> [status |-> Decision(HasFile(i)),
                                loaded |-> ph[i]]]
  /\ UNCHANGED <<set, shown, radarr, gate, queue, watcher, ghost,
                 bounds>>

\* ... and its statuses are written, whatever the row says by now.
CalendarWrite(i) ==
  /\ i \in DOMAIN cal
  /\ \E loaded \in {cal[i].loaded, ph[i]} :
       ph' = [ph EXCEPT ![i] =
                 Flush(@, loaded, Intend(loaded, cal[i].status, "other"))]
  /\ cal' = [k \in (DOMAIN cal) \ {i} |-> cal[k]]
  /\ UNCHANGED <<set, qm, aged, radarr, gate, queue, watcher,
                 ghost, bounds>>

-----------------------------------------------------------------------------
(* Radarr and its events.                                                  *)

\* Radarr finds a release after it was asked, or a user queues one.
Grab(i) ==
  /\ download[i] = "none" /\ media[i] = "none" /\ grabs < set.grabs
  /\ download' = [download EXCEPT ![i] = "queued"]
  /\ grabs' = grabs + 1
  /\ UNCHANGED <<set, shown, media, gate, queue, watcher, cal,
                 ghost, imports, restarts>>

Moves == {<<"queued", "downloading">>, <<"downloading", "completed">>,
          <<"downloading", "failed">>}

Move(i) ==
  /\ \E m \in Moves :
       m[1] = download[i] /\ download' = [download EXCEPT ![i] = m[2]]
  /\ UNCHANGED <<set, shown, media, gate, queue, watcher, cal,
                 ghost, bounds>>

\* The item leaves the queue: removed, or imported.
Leave(i) ==
  /\ download[i] # "none"
  /\ download' = [download EXCEPT ![i] = "none"]
  /\ \/ UNCHANGED <<media, imports>>
     \/ /\ download[i] = "completed" /\ imports < set.imports
        /\ media' = [media EXCEPT ![i] = "reported"]
        /\ imports' = imports + 1
  /\ UNCHANGED <<set, shown, gate, queue, watcher, cal, ghost,
                 grabs, restarts>>

\* The import event starts the countdown of the grace, and its steps show it
\* again.
Countdown(i) ==
  /\ gate /\ media[i] \in {"reported", "grace"}
  /\ media' = [media EXCEPT ![i] = "grace"]
  /\ ph' = [ph EXCEPT ![i] = IF @.has THEN [@ EXCEPT !.status = "COUNTDOWN",
                                                       !.why = "other"]
                               ELSE @]
  /\ UNCHANGED <<set, qm, aged, download, gate, queue, watcher, cal,
                 ghost, bounds>>

\* At its end the placeholder is retired; the flag and the monitor's notes stay
\* in the row.
GraceEnds(i) ==
  /\ gate /\ media[i] = "grace"
  /\ media' = [media EXCEPT ![i] = "known"]
  /\ ph' = [ph EXCEPT ![i].has = FALSE, ![i].status = "none",
                        ![i].why = "other"]
  /\ UNCHANGED <<set, qm, aged, download, gate, queue, watcher, cal,
                 ghost, bounds>>

\* The file is deleted, and the same row is a placeholder again.
FileDeleted(i) ==
  /\ gate /\ media[i] = "known"
  /\ media' = [media EXCEPT ![i] = "none"]
  /\ ph' = [ph EXCEPT ![i].has = TRUE, ![i].why = "other",
                        ![i].status = IF set.calendar = "outside" THEN "REQUEST"
                                      ELSE set.calendar]
  /\ UNCHANGED <<set, qm, aged, download, gate, queue, watcher, cal,
                 ghost, bounds>>

-----------------------------------------------------------------------------
(* Time and crashes.                                                       *)

Older(a, n) == IF a = Unset THEN Unset ELSE IF a + n > Cap THEN Cap ELSE a + n

\* A unit passes, or the half hour until a fallback is due, or a day.
Pass(span) ==
  LET n == IF span = "unit" THEN 1 ELSE Cap
  IN /\ span = "half_hour" => \E p \in Plays : fb[p] = "waiting"
     /\ span = "day" => \E i \in Present : ph[i].watch /\ ~aged[i]
     /\ qm' = [i \in Instances |-> [qm[i] EXCEPT !.left = Older(@, n),
                                                 !.search = Older(@, n)]]
     /\ since' = [i \in Instances |-> Older(since[i], n)]
     /\ fb' = IF span = "unit" THEN fb
              ELSE [p \in Plays |-> IF fb[p] = "waiting" THEN "due" ELSE fb[p]]
     /\ aged' = IF span = "day" THEN [i \in Instances |-> ph[i].watch]
                ELSE aged
     /\ UNCHANGED <<set, ph, radarr, gate, job, wk, watcher, cal,
                    asks, called, bounds>>

\* The process dies and comes back: its jobs are requeued, everybody starts
\* over, and the gate is closed.
Restart ==
  /\ restarts < set.restarts
  /\ restarts' = restarts + 1
  /\ gate' = FALSE
  /\ job' = [p \in Plays |-> IF job[p] = "running" THEN "pending" ELSE job[p]]
  /\ fb' = [p \in Plays |-> IF fb[p] = "running" THEN "due" ELSE fb[p]]
  /\ wk' = [w \in Executors |-> Idle]
  /\ mon' = Quiet /\ wake' = FALSE /\ signal' = FALSE
  /\ cal' = NoIntents
  /\ called' = {}
  /\ UNCHANGED <<set, shown, radarr, since, asks, grabs, imports>>

Work(w) == \/ Claim(w) \/ Search(w) \/ Show(w) \/ Flag(w)
           \/ Finish(w) \/ Done(w)

PlaybackNext ==
  \/ \E p \in Plays : Receive(p)
  \/ GateOpens
  \/ \E w \in Executors : Work(w)
  \/ Monitor \/ Deliver
  \/ CalendarLoad \/ \E i \in Present : CalendarWrite(i)
  \/ \E i \in Present : \/ Grab(i) \/ Move(i) \/ Leave(i)
                        \/ Countdown(i) \/ GraceEnds(i) \/ FileDeleted(i)
  \/ \E span \in {"unit", "half_hour", "day"} : Pass(span)
  \/ Restart

PlaybackSpec == PlaybackInit /\ [][PlaybackNext]_playbackVars

\* The monitor's thread runs, time passes, and what is in Radarr's queue leaves
\* it some day.
PlaybackFairness ==
  /\ WF_playbackVars(Monitor)
  /\ WF_playbackVars(Pass("unit"))
  /\ \A i \in Instances : WF_playbackVars(Leave(i))

FairPlaybackSpec == PlaybackSpec /\ PlaybackFairness

-----------------------------------------------------------------------------
(* Properties.                                                             *)

\* Everything the monitor watches comes to an end: a title whose item leaves
\* the queue for good is imported, or shown as NOT_FOUND, or given up.
WatchEnds == \A i \in Instances : i \in Targets ~> i \notin Targets

\* The time before NOT_FOUND: less for a search that never had a queue item.
Allowed(i) == IF qm[i].seen THEN RetryGrace ELSE SearchTimeout
GivenUp(i) == ph[i].status # "NOT_FOUND" /\ ph'[i].status = "NOT_FOUND"

\* The first search for a placeholder is given its time before it is declared
\* NOT_FOUND, however the monitor's rounds fall.
FirstSearchGetsItsTime ==
  [][\A i \in Present :
       GivenUp(i) /\ asks[i] = 1 => since[i] >= Allowed(i)]_playbackVars

\* Every search is given its time: "Max seconds in SEARCHING with no Arr
\* /queue row before NOT_FOUND" (config.py).
SearchGetsItsTime ==
  [][\A i \in Present : GivenUp(i) => since[i] >= Allowed(i)]_playbackVars

\* The monitor does not sleep through a call: what was flagged since it last
\* looked has its event set, or a NOTIFY on its way.
CallsAreHeard == MonitorAt("wait") /\ called # {} => wake \/ signal

\* A title that shows "Search queued" is searched for.
QueuedSearchStarts ==
  \A i \in Instances :
    ph[i].status = "SEARCH_QUEUED" ~> ph[i].status # "SEARCH_QUEUED"
=============================================================================
