# A TLA+ model of placeholdarr

placeholdarr keeps placeholder media files for titles that Radarr and Sonarr
know of but have not downloaded yet. Webhooks, timers and users ask for work;
the work runs in background jobs that live in a PostgreSQL table and are taken
by several worker threads of one process. The hard part of the program is not
any single job but what happens between them: claims, retries, a reaper, a
restart, notifications, gates with heartbeats, coalesced requests, idempotency
keys, and several writers of the same rows and files that do not wait for each
other. That is what this project models. Paths below are relative to the
repository (`src/`); where no directory is given it is `services/` or
`services/source_of_truth/`.

Contents

1. The system: components, state, operations, interactions
2. The modules and how they correspond to the code
3. The runs: what each shows, bounds, fairness
4. The proofs
5. Where the code and its documents disagree
6. What is not modelled, and the plan

## 1. The system

### Components

| component | source | state | operations | module |
|---|---|---|---|---|
| Worker job queue | `worker.py`, `postgres/models.py` (Job, EventLog) | table `job` (status, attempts, claim_token, updated_at), table `event_log`, in memory `_revoked_claim_ids` | claim, reload, run handler, commit, finish DONE or FAILED or retry, reap, reset at startup | JobQueue |
| Executor wake-up | `worker.py` executor loop, `postgres/notifier.py`, triggers in `postgres/db.py` | `_drain_event`, the LISTEN connection, `run_after` of rows | NOTIFY, listen, force-drain, drain pass, look at run_after, wait, safety poll | DrainWake |
| Startup sync gate | `startup_sync_job.py` | a row of `app_config` (owner, active, updated_at) | acquire, steal when stale, heartbeat, release | SyncGate |
| Class singleton | `class_singleton.py` | a row of `app_config` per class | the same | SyncGate |
| Media refresh jobs | `media_refresh_handler.py`, `idempotency.py` | `media_refresh` rows with their path sets, table of processed keys | coalescing enqueue, claim of a key, HTTP refresh | MediaRefresh |
| Batched placeholder jobs, template backfill | `placeholder_job_enqueue.py`, `status_reconciler.py`, `template_backfill.py` | rows with placeholder ids, sidecar files, active run id | merge ids into waiting rows, rewrite sidecars, supersede waiting rows, request every placeholder | NfoBatch |
| Task runs, placeholder art jobs | `task_run_history.py`, `task_run_phases.py`, `placeholder_refresh.py`, `placeholder_art_reconciler.py` | table of task runs, phases and counters in their summary | begin, count, scan for the last batch, complete, abandon, repair by polling | TaskRun |
| Pipeline coordinator, periodic runners, boot | `sync_coordinator.py`, `scheduled_sync.py`, `scheduler.py`, `boot_sync.py`, `startup.py`, `startup_gate.py`, `main.py` | full-sync flag, pipeline lock, workers' gate (in memory), persisted next runs | begin and end a full sync, try or wait for the pipeline, choose a boot mode, open the gate, move the clocks | SyncRuns |
| Catalog sync | `sync_runner.py`, `arr_api.py`, `startup.py`, `lite_reconcile.py` | Movie, Series and Episode rows, cached episode lists, specials flags | fetch, upsert, mark what is gone, compare counts and flags, remove placeholders | CatalogSync |
| Handlers, materializer, placeholder files | `event_handlers.py`, `materializer.py`, `filesystem.py`, `determiner.py`, `placeholder_cleanup.py`, `arr_share_guard.py`, `import_grace.py` | Movie and Placeholder rows, the files | handle add, import, file delete and delete; create and remove files; scan, relink, clean orphans | PlaceholderLife |
| Playback, queue monitor, calendar phase | `event_playback.py`, `queue_monitor_producer.py`, `status_orchestrator.py`, `calendar_phase.py` | status, watch flag and `extra["queue_monitor"]` of Placeholder rows, the queues in memory | search, fall back, follow the download queue, give up, show the calendar's status | Playback |
| Determination and policies | `determiner.py`, `determination_explain.py`, `placeholder_policy.py`, `tag_placeholder_policy.py`, `entity_reconcile.py` | determination, policy flags of movies, series and episodes | determine, explain, materialize, set and clear policies, apply tags | Determiner |
| Collections | `services/collections/`, `media_servers/plex_collections.py` | recipes with the shelves they own, shelves in Plex | select, explain, run a recipe or a set, close a season, run now | Collections |
| Webhook ingest | `handlers.py`, `webhook_ingest.py`, `event_normalization.py` | `event_log` | normalise, insert event and job in one transaction | JobQueue, Playback, PlaceholderLife |

Not modelled: the refresh throttle, the clients of Plex, Jellyfin and Emby,
settings and authentication, posters and metadata, library counters with the
dashboard snapshot. `PROJECT.json` says of every component how much of it is
modelled and why the rest is not.

### How they interact

* An enqueuer commits a row; a trigger sends a NOTIFY; the notifier thread,
  which listens on a connection of its own, sets the one event that all
  executors share.
* An executor claims a row in one transaction (FOR UPDATE SKIP LOCKED, a fresh
  uuid as `claim_token`), reloads it in a second session in which the handler
  runs and commits, and records the outcome in a third, with an UPDATE that
  matches id, status CLAIMED and the token.
* The reaper thread requeues rows that have been CLAIMED for too long, by age
  alone. The lifespan hook requeues all CLAIMED rows at startup.
* Handlers that do external I/O take an idempotency key. `media_refresh` commits
  it before the I/O; `nfo_refresh` and art jobs commit it with the handler's
  session.
* Heavy syncs pass through a gate row, whose heartbeat a thread keeps fresh, and
  through a lock and a flag in memory. A full sync ends with batches of jobs,
  and the last batch refreshes the library and completes the task run.
* A sync fetches an instance's catalog, upserts and marks rows, determines every
  title, creates and removes files, and scans the disk; webhooks and jobs do the
  same for one title at the same time.
* The receiver of webhooks, the workers, the queue monitor and the calendar
  phase all write the status of the same Placeholder rows, none under a lock.

### What is hard

Threads of one process and several transactions per job, so every step of one
actor can fall between two steps of another; a reaper that cannot tell a slow
handler from a dead one; notifications that are lost while disconnected; a
shared event that anyone may clear; reads without a lock whose result is written
later; crashes between the three transactions of a job; keys and claims that
outlive the attempt that made them; files written while the transaction that
records them is open; two instances that share one file; requests that fail half
way through a sync; runs that overlap. The code has no tests, so the documents
of what it should do are its docstrings, comments and CHANGELOG. `PROJECT.json`
lists the hazards line by line with the properties that would catch each.

### What makes each component correct

* Queue: a job is DONE only with its effect; a finished row stays; only the
  latest claim decides; failures are charged once per claim; every job settles.
* Wake-up: while the notifier listens nothing is left to the safety poll; with
  or without it, every row is done in the end.
* Gates: one run at a time, unless one stalled; a dead owner's gate opens.
* Media refresh: a row fires once; a path asked for is refreshed, or known to
  have been refused.
* Placeholder jobs: one writer per row; a requested sidecar is current or due.
* Task runs: the library is refreshed once and not forgotten; no run stays
  working with nothing left to do.
* Syncs: one holder of the pipeline, the flag covers the whole full sync,
  nothing runs before the boot sync has ended, and every sync that is due runs.
* Catalog: only what is gone loses its placeholder; an undisturbed sync leaves
  rows and files as the instance says; in the end they catch up.
* Files: an undisturbed sync repairs rows and file; removing one instance's
  title spares a file the other still wants.
* Playback: a flagged row is looked at; a first search gets its time; watching
  ends.
* Determination: an undisturbed round decides as the rules say; the explanation
  names the rule that decided; the chips agree with the pass; nothing flips to
  and fro without a change.
* Collections: an undisturbed run leaves the shelves as selected; a user's own
  shelves are spared; no shelf is forgotten; a season ends.

## 2. The modules

```
JobLifecycle <- refined by - JobQueue        JobQueueProofs        MCJobQueue
                             DrainWake    \
Singleton    <- refined by - SyncGate     /  WakeAndGateProofs     MCDrainWake, MCSyncGate
                             MediaRefresh \
                             NfoBatch     /  KeyedJobsProofs       MCKeyedJobs
                             TaskRun         TaskRunProofs         MCTaskRun
                             SyncRuns     \
                             CatalogSync  /  SyncProofs            MCSyncRuns, MCCatalogSync
                             PlaceholderLife \
                             Playback        / LifeAndPlaybackProofs
                                                       MCPlaceholderLife, MCPlayback
                             Determiner      DeterminerProofs      MCDeterminer
                             Collections     CollectionsProofs     MCCollections
```

Each component is a module of its own at the grain its properties need. JobQueue
has the claim in full; the others repeat only what of a claim decides who may
finish a row (a token per claim becomes the thread that holds it). `MC*` modules
name the sets, settings and symmetries of the TLC instances, `*Proofs` hold the
theorems. Some modules have a variable that is chosen once, the setting of a
behavior: configuration and bounds together, so that one run covers several.
Bounds on what the environment may do (`MaxFaults`, `changes`, `used`, ...) are
parts of the guards of the actions they bound.

### JobQueue

`row[j]` is the job row, `event[j]` the event of a webhook row, `exec[e]` where
thread `e` is in `_process_one_descriptor` together with its
`ClaimedJobDescriptor`. Program points: `claimed` (after `_claim_next_job`),
`running` (the handler), `ok`, `err`, `fatal` (its outcome, before the finish
transaction), `clearing` (before `_clear_claim_revoked`).

| code | action |
|---|---|
| `_claim_next_job` | `Claim` |
| `_reload_job_for_handler`, the load of the event | `Reload`, `Abandon`, `ReloadError` |
| handler and `handler_session.commit()` | `HandlerCommits`, `HandlerRaises`, `CommitSwallowed` |
| `_mark_descriptor_done`, `_mark_descriptor_failed` | `FinishDone`, `FinishFailed` |
| `StaleJobClaimError`, errors of the finish session | `FinishStale`, `FinishError` |
| `_clear_claim_revoked` | `Clear` |
| `_stale_claimed_reaper_loop` | `Reap` (its transaction), `Mark` (one id each) |
| lifespan reset | `Restart` |
| `_cancel_follow_up_jobs_for_task_run` | `CancelReads`, `CancelWrites` |
| `supersede_pending_template_nfo_jobs` | `Supersede` |

Tokens are numbered in the order of issue, which also stands for the age of a
claim that the reaper compares: a pass requeues every claim up to some cutoff. A
pass can hit a live handler at any time, since the code compares ages and
nothing else; such passes, restarts, failed transactions and cancellations share
the bound MaxFaults. `performed` and `swallowed` are history variables: which
handler transactions committed, and which failed commits were taken for
successes. Handlers are opaque here: what one writes is one transaction (for a
webhook, with `event.status`). A handler that commits in several steps is
modelled by the last of them. The attempt counters of row and event are not
bounded by a constraint: each claim needs a fault or a failed handler, and
failed handlers end at MaxAttempts.

### JobLifecycle

The promise without executors, tokens, reaper and crashes: absent, PENDING,
CLAIMED, then DONE (only if performed) or FAILED; requeues, supersession and the
withdrawal of follow-up rows. JobQueue implements it with `status` taken from
the row and `performed` from `performed \union swallowed`.

### DrainWake

What wakes the executors. `flag` is `_drain_event`, `link` and `wire` the
notifier's connection and an unread NOTIFY on it, `pc` the place in
`_executor_loop`: `held` (startup gate), `clear`, `drain`, `run`, `look`
(`_next_run_after_seconds`), `asleep`. `alarm[e]` are the delayed rows that
bounded the wait of `e`. Two history variables serve the properties: `silent`
(rows that became claimable without a NOTIFY, such as by an unlock or by their
`run_after`) and `owner`. Time is not modelled: a `run_after` passes at some
point, a wait may time out at any time. A restart of the process is left out of
this module: a start with any rows in the table is covered by enqueues before
`Start`. `Listen("deaf")` is `_issue_listen` swallowing a failure.

### SyncGate

Both gates, which are the same code. `OwnerIsJob` selects the name of the owner:
`job:<id>` (startup sync) or process and thread (calendar phase). For the
latter, `job` stands for the calls of `run_calendar_phase` (`scheduled_sync.py`,
`startup.py`); being called is no job row there, and requeues of a call are then
more than the code does, which is sound for the safety properties. A unit of
time is a heartbeat interval, `Stale` the number of intervals after which a gate
may be stolen (600 s and 60 s in the code, so 10; the model needs at least 2).
`overrun` are runs that lost the gate while at work, `stalled` runs whose
heartbeats do not get through, `cut` jobs whose run a crash ended.

### Singleton

The promise of such a gate without rows, owners, ages and claims: one run has
the class; it is out when it leaves or crashes, and another takes over only from
a run on its way out or one that is `mute`. SyncGate implements it for owners
per thread; a run that lost the gate while at work no longer has the class.

### MediaRefresh

Enqueues of one coalescing group (`call[p]`: the SELECT without a lock, then the
commit), the rows' path sets, the idempotency `key`, and the runs: `claimed`,
`loaded` (payload read), `firing` (key committed, HTTP ahead), `ok`, `err`.
History: `overlapped` (rows that changed under a merging enqueue), `spent` (rows
whose key went to a run without the claim), `unkeyed` (the key could not be
written and the handler went on), `fired`, `refreshed` (paths the media server
accepted), `refused` (rows with the paths it did not). `Fire` sends the requests
of a row; any set of them may be refused, which the clients and `refresh.py`
only count: the handler returns ok and the row becomes DONE. `FireFails` is the
handler that raises or returns not ok.

### NfoBatch

`enqueue_batched_placeholder_job` under row locks with a batch size, the
`nfo_refresh` handler whose key commits with its session, and the sweep of
`enqueue_template_backfill`. `Open`, `Fills` and `Chunks` say what the enqueue's
two loops compute: rows are filled in order, an id a row already has passes on,
the rest is cut into new rows. The set `L` of rows an enqueue could lock is
arbitrary, because SKIP LOCKED leaves out whatever others hold. `current` are
the placeholders whose sidecar was written from a read that came after the last
request; `old` of a run are the ids requested again since it read them;
`crossed` those last written from such an outdated read; `lost` those that a run
skipped for a key although no run of the row had written them.

### TaskRun

The last part of a full sync (`kind = "full"`) or of a placeholder refresh: its
runner enqueues batches of sidecar and art jobs, saves the summary of the task
run and ends, while threads run the batches. `run` is the task run with its
counter, `job` the batches, `key` the idempotency keys, `worker[t]` where a
thread or the poller of the status page is, `refreshed` how often the library
was refreshed for a batch run. `past` remembers what the properties name as
exceptions: `crossed` (two batches both looked for open siblings before either
had ended), `skipped`, `unkeyed` (the last batch could not commit its key),
`superseded` and `cleared` (a newer sweep replaced the marker of a template run,
or its refresh cleared it), `late`, `outdated`, `unopened`.

The last batch commits the handler's session, and its key with it, closes it and
goes on. If the commit fails the key is rolled back, and it goes on all the
same. From then on the row of the job is expired and belongs to no session, and
whatever reads it raises: in an art batch the line before the refresh, in an NFO
batch the hook after it. So `ScanLast` leads an art batch to `err`, and
`Refresh` an NFO batch.

| code | action |
|---|---|
| `run_scheduled_full_sync` from its art phase on, `run_placeholder_refresh_task` | `Runner`: `EnqueueBatches`, `EnqueueFails`, `BeginPhase`, `BeginFails`, `ReadSummary`, `SaveSummary`, `NoFollowUps`, `FinalizeEnqueue` |
| `process_nfo_refresh_job`, `process_placeholder_art_refresh_job` | `Skip`, `Work` |
| `accumulate_art_backfill_counts` | `ReadCount`, `SaveCount` |
| `_nfo_` and `_art_refresh_completion_scan_if_last_batch` | `ScanNotLast`, `ScanLast`, `Refresh` |
| `try_complete_linked_task_run`, `complete_full_sync_task_run` | `Check`, `Complete` |
| the claim, finish and failure of a job | `Claim`, `Finish`, `Raise` |
| `reconcile_stuck_art_backfill_tasks`, the reaper, `supersede_pending_template_nfo_jobs`, `abandon_task_run`, lifespan | `Poll`, `Reap`, `Supersede`, `Abandon`, `Restart` |

Left out: the display fields of phases. That abandoning reads rows in one
transaction and writes them in another is in JobQueue. A supersession is
modelled for full syncs only. Errors inside `accumulate_art_backfill_counts`,
which are swallowed, a failing finish and a failing completion after it are not
modelled.

### SyncRuns

Which syncs may run when. `run[a]` is a thread with its task, `fullFlag` and
`pipeline` the coordinator, `syncRow` the gate row, `workersGate` the event that
releases the workers, `saved` the persisted next run of each timed task, reduced
to whether it is due. `owed` are the tasks whose time has passed and that have
not succeeded since; `excused` those whose clock was moved on without a run.

| code | action |
|---|---|
| `run_scheduled_full_sync` | `FullBegins`, `FullBeginFails`, `FullAcquires`, `FullReleases`, `FullEnds`, `FullFails`, `FollowUpsEnd` |
| `run_lite_sync`, `run_calendar_only_maintenance` | `MinorLooks`, `MinorTries`, `MinorBeginFails`, `MinorEnds`, `MinorFails` |
| `resolve_boot_sync_mode`, `run_startup_source_of_truth`, `_run_startup_sync` | `Boot`: `BootGate`, `BootDecides`, `BootDone`, `BootEnds`; `BootFails`, `BootHangs`, `BootEndsUnscheduled` |
| `_startup_gate_watchdog` | `Watchdog` |
| the startup job when the instances change | `ArrChanges`, `ArrEnds` |
| `scheduler.py` | `StartScheduler`, `Elapse`, `Poll`, `Bump` |
| `tasks_run`, `tasks_abandon`, lifespan | `Ask`, `AbandonRows`, `Restart` |

The completion of a run's row is one step with the release of lock or flag that
follows. The boot sync takes neither lock nor flag, as in the code. The legacy
calendar schedule and `collections_sync` are left out.

### CatalogSync

One instance per behavior, Radarr or Sonarr, with titles and their episodes as
units. `arr` is what the instance says of a unit, `db` the rows, `files` who has
a placeholder, `cache` the episode lists of the last two minutes (a failed
request is cached as an empty list); `pc`, `mode`, `snap`, `todo`, `item`, `tx`
and `touched` are the sync and its open transaction. Ghosts: `quiet` (nothing
else happened in this sync, and nothing failed), `away` (units the instance
lacked at some time since the sync began), `misread` (titles of which a request
failed since).

| code | action |
|---|---|
| `resolve_boot_sync_mode`, `run_scheduled_full_sync`, `run_lite_sync` | `BootSync`, `Scheduled` |
| catalog fetches, the failure of one | `Catalog`, `CatalogFails` |
| `_run_startup_lite_snapshot_for_instances`, its comparisons | `Diff` with `Added`, `Removed`, `Changed`, `Signatures` |
| `sync_radarr_movies_by_ids`, `sync_sonarr_series_by_ids` | `Item`, `ItemGone`, `List` with `Upserted`, `Marked`, `Targeted` |
| commit, marking of a full sync, determination and removal passes | `Commit`, `FullMark`, `Passes`, `Finish`, `Stamp` |
| `lite_reconcile.py` | `Seed`, `Specials`, `SpecialsOn` |
| errors and crashes | `RequestFails`, `Raises`, `Crash` |
| `process_entity_reconcile_job` | `Job` |
| the instance itself, expiry of the cache | `UnitChanges`, `ArrRemoves`, `ArrAdds`, `Expires` |

A list is fetched and written in one step; the specials backfill of a series is
one step; titles keep their ids and numbers. A scheduled full sync does not
stamp `first_full`, and an error ends it, whereas a startup or lite sync goes on
to the passes, as in the code.

### PlaceholderLife

One placeholder file that two instances share: a Movie row and at most one
linked Placeholder row each, and the path-only row a scan may open. `inbox` are
the webhooks, `jobs` the grace and materialization jobs, `pc`, `scope`, `todo`,
`tx` and `took` the actors with their open transactions and row locks, `file`
the disk.

| code | action |
|---|---|
| `event_handlers.py`, the movie handlers | `MovieAdd`, `MovieImported`, `MovieFileDeleted`, `MovieDeleted` |
| `process_entity_materialization_job`, `process_import_grace_job` | `MaterializeJob`, `GraceFinalize` |
| `run_determination_pass` | `Determine` |
| `apply_movie_materialization`, `_mark_placeholder_row_*` | `Pick`, `CreatePlaceholder`, `RemovePlaceholder`, `NothingToDo`, `Commit` |
| the full sync and its self-healing | `Fetch`, `Upsert`, `ScanRoots`, `ResetLinks`, `Relink`, `CleanOrphans`, `Orphans` |
| `run_calendar_only_maintenance`, time between orphan passes | `Maintenance`, `GraceOfOrphanPasses` |
| the abort of a transaction by PostgreSQL, end of the process | `DeadlockVictim`, `Crash` |

A title that was never added is a deleted row; `placeholder_filepath` is set
exactly when `has_placeholder` is. The scan is one step, so is the upsert of
both instances, and so is the check for other users of a path with the unlink
that follows. Ids, the incremental scan of the boot sync, episodes, policies and
exceptions inside `apply_movie_materialization` are left out. A webhook whose
handler crashes is lost, a job is retried.

### Playback

Somebody plays a placeholder. `ph` and `qm` are the Placeholder rows with their
status, watch flag and queue-monitor timers (as ages), `download` and `media`
what Radarr does, `job` and `fb` the webhook and fallback jobs, `wk` the
workers, `mon`, `wake` and `signal` the monitor with its event and a NOTIFY on
its way, `cal` the rows the calendar phase has loaded. `since` and `asks` (the
accepted searches) and `called` (flagged rows whose NOTIFY was not looked at
yet) are ghosts.

| code | action |
|---|---|
| `apply_search_queued_for_playback`, the end of the startup gate | `Receive`, `GateOpens` |
| `process_playback_start_event`, `process_playback_fallback_job` | `Claim`, `Start`, `Search`, `Show`, `Flag`, `Finish`, `Done` |
| `queue_monitor_producer.py` | `Probe`, `Wait`, `ClearEvent`, `FetchQueues`, `Collect` (with `Line`), `Apply`, `Deliver` |
| `calendar_phase.py` | `CalendarLoad`, `CalendarWrite` |
| import grace, removal of the placeholder | `Countdown`, `GraceEnds` |
| Radarr, time, lifespan | `Grab`, `Move`, `Leave`, `FileDeleted`, `Pass`, `Restart` |

A movie in exactly two instances; `qm` is written at `Collect`. An unreadable
queue and an instance that is not asked both count as empty queues, which is
what the code makes of them. Episodes, races inside the extra JSON and database
errors in the receiver are left out.

### Determiner

One title, movie, episode or special, with the settings that decide about it.
`Determination` is the rule order of `_compute_determination` and the
suppressions after it; `Explained` is `determination_explain.py`, written down
apart from it. Two runners (the sync and the reconcile job) work in passes,
`Desk` is the policy chip of the library page with its fast path.

| code | action |
|---|---|
| `process_entity_reconcile_job` | `Fetch`, `Upsert`, `ReadTags`, `WriteTags` |
| `run_determination_for_entities_in_session` | `Determine`, `WriteDetermination` |
| `run_materialization_for_entities` | `Materialize` |
| `movie_placeholder_policy_set` and its episode and series forms | `Chip`, `EpisodeChip`, `ApplyPolicyFast`, `CommitChip` |
| `clear_arr_policy_tags_for_movie` | `ClearTags` |
| Radarr or Sonarr, the calendar, siblings, downloads | `ArrChange`, `TitleChange` |

The chip of a season is the chip of every episode; dates are facts of the row;
the file system step of the reconcile is PlaceholderLife's.

### Collections

One recipe and its shelves in one Plex library. `recipe` is the row with the
keys it owns, `catalog` the titles, `plex` the shelves by rating key (never
reused: `born`), `runs` the threads of the scheduled sync and of "Run now",
`season` whether today is in the recipe's window. `whole` is a ghost: no run was
cut short, overlapped another or had its recipe edited. `Selected` is what a run
takes, `Explained` the verdict of `explain_definition_item`. The two share the
filter, the pins and the limit as they share those functions in the code; the
stages and the limit they apply are each its own: a run takes no cap where the
recipe has no limit (`set.limit = None`), the explanation then takes `MaxItems`,
500 in the code.

| code | action |
|---|---|
| `run_all_enabled_recipes`, `run_recipe_now` | `Tick`, `RunNow`, `Begin` |
| `_evaluate`, `run_collection_set_recipe` | `InSeason`, `OutOfSeason`, `Start` with `Selected`, `Children` |
| `sync_collection`, `resolve_owned_collection` | `Look`, `Create`, `Update`, `Written` |
| `_clear_recipe_collection`, `delete_collection` | `Drop`, `Close` |
| the end of a run | `Finish`, `RecordSet`, `Error` |
| errors, end of the process | `Fail`, `Crash` |
| the user, the sync runners, the date | `Edit`, `UserInPlex`, `CatalogChanges`, `SeasonTurns` |

## 3. The runs

All runs but art_refresh, which stops at a violation, are exhaustive for their
constants.

| run | module | checks | bounds | distinct states |
|---|---|---|---|---|
| queue | MCJobQueue | DoneMeansPerformed, TerminalIsFinal, LatestClaimDecides, ImplementsLifecycle, EveryJobSettles | 2 executors, 1 webhook row, 1 sweep row of a task run, 2 attempts, 1 fault | 335 000 |
| drain_wake | MCDrainWake | NoLostWakeup, EveryRowDone | 2 rows, 2 executors, passes of 2, 2 faults | 420 000 |
| gate_safety | MCSyncGate | Exclusive, ImplementsSingleton, AbandonedGateOpens | owner per thread, 2 threads, 3 calls, Stale 2, 3 faults | 673 000 |
| keyed_jobs | MCKeyedJobs | FiredOnce, DoneIsRefreshed, OneWriter, CurrentOrDue | media refresh: 2 rows, 3 paths, 2 threads, 3 faults; sidecars: 3 rows, 3 ids, batch 2, 1 fault | 1 172 000 |
| task_safety | MCTaskRun | RefreshedOnce, RefreshNotMissed, SettledWhenDrained | 2 sidecar batches and 1 art batch, 2 threads, the poller, 2 faults | 1 920 000 |
| art_refresh | MCTaskRun | ArtIsRefreshed, violated (section 5) | 1 sidecar and 2 art batches, 2 threads, the poller, no fault | stops at the violation |
| syncs | MCSyncRuns | PipelineExclusive, FlagCoversFullSync, BootFirst, EveryDueSyncRuns | 1 manual thread, 1 request, 2 faults | 156 000 |
| catalog | MCCatalogSync | QuietSyncAgrees, RemovalsAreReal, CatchesUp | 7 settings; 2 titles, or 1 with 2 episodes; 1 or 2 changes, failures, crashes and jobs up to 1 | 326 000 |
| life | MCPlaceholderLife | QuietSyncRepairs, SiblingKeepsFile, Settles | 2 instances, 1 worker, both cleanup modes, 2 changes or 1, 1 crash | 792 000 |
| playback | MCPlayback | CallsAreHeard, FirstSearchGetsItsTime, WatchEnds | 7 settings, 1 worker, search timeout of 1 unit, retry grace of 2 | 261 000 |
| decisions | MCDeterminer | QuietRoundDecides, ExplanationAgrees, NoFlipFlop, FastAgreesWithPass | 14 settings, 2 changes, 1 fault | 2 719 000 |
| collections | MCCollections | ExplainAgrees, QuietRunSyncs, NothingForgotten, UserShelvesKept, SeasonEnds | 9 settings; 3 items, 2 values, 6 shelves, cap of 2 items | 434 000 |

What each run shows:

* **queue** - a row is DONE only when a handler transaction landed its effect,
  or a failed commit was taken for one (`swallowed`); finished rows stay, except
  for the withdrawal of follow-up rows; the outcome is that of the latest claim;
  JobQueue implements JobLifecycle; every row settles.
* **drain_wake** - while the notifier listens, a claimable row has somebody who
  will look at it, without the safety poll; with the poll every row is done in
  the end.
* **gate_safety** - two runs of a singleton are at work only after one was
  stalled for longer than the gate's age limit; the class is taken over only
  from a run that stalled or is on its way out (Singleton); a gate whose owner
  is gone opens again.
* **keyed_jobs** - a refresh row fires at most once, and each path of a DONE row
  was accepted by the media server or was asked for by this row and refused,
  which nobody repeats, except after a lost update or a key of another attempt;
  no two threads rewrite the same row's sidecars; a requested sidecar is
  current, or still due in some row. MCKeyedJobs puts the two kinds of keyed job
  side by side; one kind per behavior.
* **task_safety** - the library is refreshed at most once per batch run, unless
  a batch failed for good or the last one could not commit its key; for sidecar
  batches it is not missed except when two last batches crossed, a batch was
  skipped for its key or a newer sweep took over; no task run is left working
  with nothing to do, but for two named exceptions.
* **art_refresh** - without any fault, all art batches of a task run end DONE
  and the library was never refreshed.
* **syncs** - one sync at a time is between acquire and release of the pipeline,
  and a lock nobody holds was leaked by a run whose row could not be created;
  while a full sync is under way its flag is set, unless another full sync that
  overlapped it has ended; neither the jobs for changed instances nor the
  scheduler start before the sync of the boot has ended, with the watchdog and a
  first start before onboarding as exceptions; a sync that is due succeeds in
  the end.
* **catalog** - after a sync in which nothing failed and nothing else happened
  rows and placeholders agree with the instance (a full sync), or flags, counts
  and the placeholders of what it touched do (a lite sync); a row is marked
  deleted only if the instance lacked the unit since the sync began or since the
  list it used was cached, or if the request for that title failed; once the
  instance stays as it is, the database agrees for good.
* **life** - a full sync that nothing disturbs leaves rows and file as the rules
  want, whatever a crash, a lost webhook or a race left before; with
  `protect_siblings` giving up a placeholder never takes the file from a live
  sibling; once Radarr and the users leave the title alone the system settles.
* **playback** - the monitor does not sleep through a row that was flagged; a
  first search has its time before NOT_FOUND, however the rounds fall; all that
  is watched comes to an end.
* **decisions** - an undisturbed round ends with Radarr's row and a placeholder
  exactly if the rules want one; the explanation has the outcome the next pass
  will reach, a placeholder whose path is to change excepted, and names a step
  with that outcome; after such a round the next ones change nothing; the fast
  path of a chip decides as the pass does.
* **collections** - a title explained as in the shelf is one a run puts there,
  and a title a run puts there is explained so, unless the recipe has no limit
  and selects more than the explanation's cap; a successful undisturbed run
  leaves exactly the selected shelves; between runs the recipe names every shelf
  made for it, while no run was cut short, overlapped or had its recipe edited;
  a user's shelf is touched only if the recipe adopts; once a season is over for
  good its shelves are put away.

Why the bounds are enough. A stale finish needs two threads on the same row and
one requeue; two attempts allow a retry and the give-up. In DrainWake a pass of
two reaches its cap with a row left over when one of the two rows is retried,
and two executors are what it takes for one to clear the event of another. Two
threads at the gate are a run and the run that took over, and the third call is
one that finds the gate released late. Two rows of a batch with three ids fill a
row and open a second; the third row allows a sweep above a run that is still
writing. Two sidecar batches are the fewest that can be last together, and the
art batch is the other phase they wait for; an art batch never refreshes, so two
of them are left to art_refresh. In SyncRuns the interesting threads are the
boot sync, the timed tasks and one manual request. In CatalogSync one title must
stay while another goes, and an episode must go while another comes so that
counts hide it. PlaceholderLife needs two instances and a worker beside the
sync. In Playback two instances or two playbacks, one grab, one import or one
crash make the hazards; a retry grace longer than the search timeout is the
order of the defaults. Three items with a limit of two, or none, and a cap of
two, a pinned one and one outside the library, and two values of a set, exercise
every branch of the selection. Every safety invariant and action property of the
table is also proved (section 4) for every value of the constants, so that those
results do not rest on the bounds; only Exclusive needs a hypothesis there, the
one of its run.

Deadlock is checked for DrainWake, PlaceholderLife, Playback, CatalogSync and
Determiner, where some actor always has a step. In the other modules the system
may really stop: when every request has been handled and every bound is used.

### Fairness

* Queue: weak fairness of each thread as a whole and of the reaper. A handler
  returns since its I/O has timeouts, executors are daemon threads in an endless
  loop, the reaper runs on a timer. No fairness for a particular outcome: a
  handler may raise each time, and jobs then settle as FAILED. Nothing is
  assumed of enqueues, cancellations, restarts or faults.
* Wake-up: weak fairness of each executor, of time (`Due`), of the enqueuers'
  commits (`Unlock`) and of the reaper. None of the notifier: the result rests
  on the safety poll alone.
* Gate: weak fairness of each thread, of the second half of a heartbeat and of
  the clock.
* Syncs: strong fairness of each runner (a thread waits for a lock that others
  take and release again and again, and a scheduled run is called again each
  time its timer fires), weak fairness of the boot sync, its watchdog, the
  timers and the batches at the end of a full sync. None of failures, hangs,
  requests or restarts.
* Catalog: weak fairness of the sync's steps, of the boot sync and of the
  cache's expiry, strong fairness of each kind of scheduled sync, since a crash
  or a running sync disables it meanwhile. None of jobs and of what the instance
  does.
* Files: strong fairness of the full sync and of each worker, weak fairness of
  the abort of a deadlocked transaction. Strong, because PostgreSQL queues those
  who wait for a row lock, so that whoever waits gets it although others take it
  in between.
* Playback: weak fairness of the monitor, of time, and of Radarr dropping a
  finished or failed download from its queue. None of the workers.
* Collections: weak fairness of the scheduled task and of each run.

Each passing property is paired in `PROJECT.json` with a mutant: an operator
beside the one it replaces (`FinishDoneByStatus`, `LookThenClear`, `LineEarly`,
`TargetedKeeping`, ...) that changes it as a plausible bug would and breaks the
property.

## 4. The proofs

| module | theorems |
|---|---|
| JobQueueProofs | TypeCorrect, InvariantHolds, DoneIsPerformed, ChargedOncePerClaim, AttemptsStayBounded, FinishedRowsStay, LatestDecides, QueueImplementsLifecycle |
| WakeAndGateProofs | DrainTyped, WakeupNotLost, DelayedRowsCovered; GateTyped, ThreadOwnerExcludes, HeartbeatsKeepGate, GateIsSingleton |
| KeyedJobsProofs | RefreshTyped, RefreshInvariant, RefreshFiresOnce, DoneRowsRefreshed, KeyedIsRefresh; BatchInvariant, BatchOneWriter, BatchCurrentOrDue |
| TaskRunProofs | TaskTyped, TaskRefreshedOnce, TaskRefreshNotMissed, TaskSettles |
| SyncProofs | RunsTyped, PipelineIsExclusive, FlagCovers, LiteAwaits, BootComesFirst, OwedStaysOverdue; CatalogTyped, RemovalsExcused, QuietSyncs |
| LifeAndPlaybackProofs | LifeTyped, SyncRepairs, SiblingsProtected; PlaybackTyped, CallsHeard, FirstSearchTimed |
| DeterminerProofs | Typed, RoundDecides, TagsDecide, Settled, FastAgrees, Explanations |
| CollectionsProofs | ShelvesTyped, ShelvesSpared, QuietRunsSync, ShelvesRemembered, ExplanationIsTheRun |

`PROJECT.json` names the property each theorem states. Between them they prove
every safety invariant and every action property that the runs check, the
refinements of JobLifecycle and Singleton, and some properties no run checks.
They hold for every set of rows, threads, paths, titles and settings and every
bound, under the ASSUMEs of the modules: kinds of rows are subsets of the rows;
attempts, caps and timeouts are positive; placeholders for "nobody" are nobody;
`Stale` is at least 2 intervals; items, values and patterns of Collections and
episodes of CatalogSync are numbers, items and titles finite, the cap on items
positive; Playback has exactly two instances. ThreadOwnerExcludes,
HeartbeatsKeepGate and GateIsSingleton further assume `OwnerIsJob = FALSE`; they
are false otherwise, since the owner's name is then shared by all claims of a
job, and a late release of the run that was reaped frees the gate of the run
that replaced it.

In all modules the property to prove is not inductive as it stands. The
strengthening is defined in the proof module as a conjunction of named parts;
each was first checked by TLC as an invariant of the run's instance. The steps
are proved action by action, with lemmas for what several actions share.

The argument for the queue. DoneMeansPerformed alone is not inductive: a thread
at `ok` might write DONE for a row whose event another thread has since charged.
IInv adds what excludes that. `TokensNameClaims`: a token was issued once, so no
two threads carry the same one. `SnapshotIsCurrent`: a thread whose token is
still in some row speaks of that row and of its current number of attempts;
hence the conditional UPDATE can only succeed for the latest claim, and the
decision to give up, taken from the snapshot, is right. `HolderSeesEvent`: while
a thread holds the claim no other thread's failure can be charged to the event,
so an event it saw or wrote DONE stays DONE until its own finish.
`OkMeansPerformed`: the thread that is about to write DONE has landed its
effect. Note that a token may stay in a row that is PENDING (after a restart) or
FAILED (after a cancellation); the invariants are stated so that this is
harmless.

AttemptsStayBounded says by how much the reaper and restarts let a row exceed
its maximum: by the number of faults. It follows from `AttemptsCovered`: an open
row without a live claim has been claimed fewer times than the bound, so it may
be claimed once more. A failed handler leaves the row open only below the
maximum; every other way of taking a claim from its thread, or of losing its
finish, uses a fault and thereby raises the bound.

The argument for the wake-up. If the event is cleared, the thread that cleared
it is at `drain`; it leaves `drain` for `look` only when nothing is claimable,
or after an error, or at the cap after a job. The first is harmless; an error
makes the rows `silent`; in the third case the finish of the job sent a NOTIFY
of its own. `NoLostWakeup` is inductive with the part that speaks of threads at
`run`.

The argument for the gate. A thread at work owns the gate unless it was overrun,
because only a release by the owner or a steal changes an active row; owners are
threads, so a late release matches only its own acquisition. The gate of a run
whose heartbeats get through never reaches `Stale`, since the clock stops one
short of it until the heartbeat is written.

The argument for media refresh. A key that is not `spent` belongs to the run
with the claim or to a finished row, so a skipping run is never the claimant of
such a row; the claimant's paths are the row's unless an enqueue overlapped;
while no key is taken nothing has fired, and the one run that took it is the
only one about to fire. Once it has fired, each of its paths is in `refreshed`
or, for this row, in `refused`.

GateIsSingleton follows from the same invariant with OverrunAtWork: only a run
at work is overrun, so a thread that acquires the gate has the class afterwards;
an expired gate belongs to a run that is mute or ending; and every later step of
a run that was overrun is a stutter of Singleton.

The argument for the sidecar batches. BatchInv says that the ids of a row grow
only while it waits, that the run of a good claim has read all of them, and that
an id which is neither current nor in a row that will still write it freshly
does not exist, apart from those `lost` or `crossed`. The lemmas about `Fills`
and `Chunks` say that an enqueue leaves no id out. KeyedIsRefresh carries the
results of MediaRefresh over to the composition that the run checks.

The argument for task runs. `Typed /\ KeyOK /\ RowsOK /\ DoneOK /\ OnceOK`: two
threads with work on the same row are only possible once its key is committed,
so one of them skips, or, if the commit failed, `unkeyed` says so; the marker is
gone once a refresh of a template run has cleared it (ClearedOK); a batch run
has all of its rows or none; hence whoever is at `refresh` is the only one for
that batch run unless a batch failed for good. For RefreshNotMissed, Unrefreshed
(AfterOK and LeftOK) says where the duty to look for open siblings is while
nothing was refreshed: with an open batch, or with a thread on its way to the
scan. For SettledWhenDrained, WorkingOK says the same of the completion check.

The argument for the sync runs. The holder of the pipeline is at one of the
program points between acquire and release, and nobody else is (LockOK); the
flag was set by a full sync that has not ended (FlagOK); who tries has looked
(TriesOK). While the boot sync is at work nobody else has been let go
(BootAlone), and a task leaves `owed` only with its clock (OwedIsOverdue).

The argument for the catalog. RemovalsAreReal rests on CatalogSound: what is
missing from the instance, from a cached list or from the fetched catalog was
away since the sync began, or its request failed; the open transaction marks
nothing else; and no live episode is without its title. QuietSyncAgrees rests on
`quiet => ListsOK /\ ReadOK /\ FullOK /\ LiteOK /\ FilesOK`: undisturbed, cached
lists and the fetched catalog are what the instance has, every title is still to
be dealt with or agrees once the open transaction is merged, and a title the
comparison did not pick agrees already, because its flags and counts do.
`Commit` and `FullMark` hand this on to the rows and `Passes` to the files.

The argument for the files. While `quiet` only the sync acts, so the invariant
follows its program points: the scan leaves rows active only for live titles and
only if the file is there, relinking only copies, the determination then equals
`Wanted`, and during materialization the titles that are done have what they
should while the others are marked with what is to do. For SiblingKeepsFile:
before a file is unlinked ProtectedPath has looked at the committed rows of
every sibling, and the row locks of the open transaction keep them.

The argument for playback. PlayInv has five parts. CallsOK: a flagged row the
monitor has not looked at has set the event, sent a NOTIFY, or the monitor is
awake. AskedOK: who is watched was searched for, and who was never searched for
has no timer. TimersOK: the timers of a first search are not older than the
search. LinesOK: a line the monitor is about to write was earned when it was
computed and still is, and the calendar phase writes no NOT_FOUND.
OnlyTheMonitorGivesUp then leaves one action to look at. This proof showed a
mistake in the model: two guards of the CASE in `Line` overlapped, which TLC had
resolved by their order; they are now disjoint, as the code's if and elif are.

The argument for the determination. An undisturbed runner has read the row, the
tags and the settings as they are, so what it writes is what the rules give;
FastAgrees and Explanations compare two texts of the code: the fast path and the
eight steps of the explanation are equal to the rules case by case (on path
drift the outcomes differ, and the theorem says nothing of them there), and a
failed step has a deciding step with the same outcome.

The argument for collections. `Typed` knows what a run at each program point
holds; Named says that the books of the recipe name each shelf with our label,
or a run at work does and will store it; QuietOK that an undisturbed run has so
far left every title it has done as selected; WholeOK what `whole` promises of
runs and books. The smallest element of a set of numbers is needed for keys and
items; it comes from well-founded induction over the finite sets. The
explanation takes no title a run does not take, because a limit takes part of
what passes the pins; and it takes all of them up to its cap, because the first
n of at most n numbers are all of them.

What is only model-checked: the liveness properties EveryJobSettles,
EveryRowDone, AbandonedGateOpens, EveryDueSyncRuns, Settles, WatchEnds,
SeasonEnds and CatchesUp, since liveness under fairness needs ENABLED, which the
proof system does not reason about; and Exclusive for the startup gate, which
does not hold. What a recursively defined operator computes cannot be proved
either, since the induction theorems take an operator as a parameter; the
modules use no recursion.

## 5. Where the code and its documents disagree

The models do what the code does. The following sentences are not kept; each was
met while modelling or while choosing a property. Where an operator is named, it
states the sentence in its module and TLC finds it violated there; only
ArtIsRefreshed has a run of its own, art_refresh.

| what the document says | what happens |
|---|---|
| a commit error is swallowed only if the handler had closed its session (`worker.py`) | the test is for "closed" in the text, which a lost connection also has (DoneMeansCommitted) |
| abandoning a run fails its queued jobs (`task_run_history.py`) | also one that has meanwhile become DONE (DoneIsNotCancelled) |
| after a crash a follow-up attempt takes over (`startup_sync_job.py:16-18`) | the re-claimed job comes before the gate is stale, and is DONE without a run (CrashedSyncTakenOver) |
| "When the last bulk batch finishes, Plex TV/movie libraries refresh with forced metadata" (`CHANGELOG.md:590`) | the last art batch of a task run commits its key, closes its session and then reads the job's row, which raises before the refresh (`placeholder_art_reconciler.py:192`); the retry is skipped for the key, and the batch is DONE (ArtIsRefreshed) |
| refreshes survive restarts | the key is committed before the request; the re-run skips (RefreshSurvives) |
| one refresh covers the combined paths | a lost update between two enqueues drops a path (OneRefreshCoversAll) |
| a re-claim skips only what was done | ids merged after the requeue are skipped too (SkipsAreDuplicates) |
| "when the last job in that run completes, the app triggers a single section refresh" (`CHANGELOG.md:699`) | two last batches that overlap each see the other open, and there is none; a last batch whose commit fails refreshes without its key, and its next attempt does so again (`status_reconciler.py:219-222`) |
| a task row closes when its jobs finish (`CHANGELOG.md:593`) | a last batch that ends before its phase is opened leaves it working (RunCloses) |
| workers wait for the initial sync (`startup_gate.py:3-5`) | after a start before onboarding the gate is already set (WorkersAwaitSync) |
| only what the instance no longer has is marked (`sync_runner.py:1472`, `CHANGELOG.md:31`) | a failed request for one title marks it too (OnlyTheGoneAreMarked) |
| the first full sync is stamped when it is completed (`boot_sync.py:15`) | an instance that was skipped is stamped as well (FirstFullHappened) |
| at most so many seconds of SEARCHING before NOT_FOUND (`config.py:393`) | a second search does not restart the timer and gets less (SearchGetsItsTime) |
| what shows "Search queued" is searched for once the gate opens (`handlers.py:298-301`, `status_intent.py:41`) | a row may stay at that status (QueuedSearchStarts) |
| a lookahead of 0 makes no placeholders for the future (`config.py:357`, `app_config.py:570`) | it skips the horizon check (`determiner.py:933`, OffMeansNoFuture) |
| explain traces "one title through the pipeline" (`engine.py:2086`) | a run takes every title of a recipe without a limit, explain only the first 500 (`engine.py:1860`, 2235; ExplainIsExact) |
| sync makes no second collection of the same name (`CHANGELOG.md:372`) | two overlapping runs do (NoTwins) |
| an edit takes effect | a run that ends writes the definition back that it had read (EditsSurvive) |
| a closed season puts the shelves away (`CHANGELOG.md:334`) | a shelf of the user's with one of the titles, or an overlapping run, stops it (SeasonAlwaysEnds) |

Smaller disagreements met while modelling, which have no run of their own; the
models do what the code does:

* `worker.py:246-248` says that rows the reaper requeues do not exceed
  `max_attempts`. They do, since a requeue skips the failure path and a claim
  does not compare (`worker.py:408`); AttemptsBounded says by how much.
* `models.py:384` says that `claim_token` is cleared when a row is not CLAIMED.
  The reset at startup (`main.py:366`) leaves it; IInv shows this to be
  harmless.
* `models.py:384-385` says that the token prevents a stale handler from
  committing. It prevents only the finish (`worker.py:948`).
* `worker.py:1035-1036` says that the revoked marker is cleared before a
  re-claim can see it. The reaper sets it after its commit (`worker.py:266-267`)
  and an abandoned descriptor does not clear it. `is_claim_revoked` has no
  caller.
* `worker.py:1145-1147` says that a NOTIFY during a drain forces another pass.
  Another executor may clear the shared event (`worker.py:1149`), so it forces a
  pass of one executor, not of each; no work is lost (NoLostWakeup).
* `startup_sync_job.py:153` says that a release leaves a new owner alone. The
  owner is `job:<id>` for every claim of the job (line 232).
* The last NFO batch of a task run raises after its refresh, in a hook that
  reads the job's row (`status_reconciler.py:386-395`, 411-420); its retry is
  skipped for the committed key, so the batch costs an attempt more and is DONE.
* A media refresh whose requests fail returns ok with `failed` counted: the row
  is DONE, its key spent, and nobody asks again (`refresh.py:22-42`,
  `media_refresh_handler.py:332-370`).
* For a placeholder whose path is to change the determiner says obsolete at
  once, whereas the explanation of the library page lets the later rules change
  the outcome; ExplanationAgrees excepts it.
* A full sync run can be DONE although one of its batches failed; a placeholder
  refresh completed from within its last art batch stays done if that batch then
  fails; an abandoned run can become done; the part of `clear_pending_intent`
  that clears the legacy flag is dead code.
* An orphan cleanup may take a file whose rows still refer to it
  (OrphansAreUnlinked); a rescue of a row by the incremental scan leaves its
  lifecycle DELETED.
* The calendar phase overwrites SEARCHING; a failed search leaves SEARCHING
  without a flag, and nothing follows it (`event_playback.py`, about 1150); the
  watch flag survives a re-materialization, and its expiry after 24 hours is
  only looked at by a poll (`queue_monitor_producer.py:55`); the rollback in
  `apply_status_intent` during the receiver's transaction takes event and job
  with it.
* An outage while tags are read can lose a policy they ask for
  (OutageKeepsPolicy), a stale payload a manual chip; Never and Pinned can both
  be set (FlagsExclusive); clearing tags can take others along
  (ClearTakesOnlyCleared); with INCLUDE_SPECIALS off existing placeholders of
  specials stay; the fast path says not_needed where the pass says obsolete for
  a title with a file.
* The guard "already managed by another Placeholdarr recipe" is never reached;
  renaming a single recipe leaves the old shelf; a failed run overwrites the
  last summary; explain takes a failing source for an empty one, whereas a run
  fails.
* A renumbered episode keeps its old row alive under the same id
  (`sync_runner.py:605`, 1480); the full sync never marks episodes of a live
  series, which a lite sync heals by their count; unreadable JSON makes
  `arr_instance_reconcile.py:30-45` tombstone everything.

The passing properties name these exceptions where they matter (`swallowed`,
CancelFails, `overlapped`, `spent`, `unkeyed`, `refused`, `lost`, `crossed`,
`misread`, `whole`, ...), so that they say what does hold of the code.

## 6. What is not modelled, and the plan

Not modelled at all: the refresh throttle, the clients of the media servers and
other pure I/O, image processing, settings, authentication, the frontend,
migrations, library counters and the dashboard snapshot (derived from committed
rows; nothing that is modelled reads them). Left out of the modelled parts,
besides what section 2 says: the order in which rows are claimed (priority; SKIP
LOCKED makes any order possible), payload contents that no property reads, the
handler watchdog, which only logs, and logging. Episodes repeat the movie paths
of handlers, materializer, import grace and playback with seasons and series
around them; they are modelled where they differ (CatalogSync, Determiner).

Properties stated in the modules that no run checks: EventChargedPerClaim,
AttemptsBounded, DelayedRowHasAlarm, HeartbeatKeepsGate, LiteAwaitsFull,
OwedIsOverdue and TagsGovern, which are proved; DoneIsDrained and
WorkersReleased, which TLC confirmed when they were written; and those of
section 5, which do not hold.

Later work, in this order:

1. **Refinement of the keyed jobs**: MediaRefresh and NfoBatch as handlers of
   JobQueue, shown to implement its opaque handler step.
2. **Abstract specifications** for the files (one title: wanted, present) and
   the catalog (a copy that lags behind), with PlaceholderLife and CatalogSync
   shown to implement them.
3. **Episodes**: the window of episodes around a playback, and the season's part
   in materialization.
4. **Library counters**: pending batches, the advisory lock, the self-triggering
   of statistics.
5. **Refresh throttle and deduplication of webhooks.**
