-------------------------- MODULE PlaceholderLife --------------------------
(***************************************************************************)
(* The life of one placeholder file that two Radarr instances share: the   *)
(* same title in both, one canonical path, a Movie row and at most one     *)
(* linked Placeholder row per instance, and a path-only Placeholder row    *)
(* that a file system scan may open for the path.  Three kinds of actor    *)
(* write them: the worker that handles webhooks and delayed jobs, the full *)
(* sync with its self-healing pipeline, and the maintenance runs that only *)
(* clean orphans.  A file is written or removed while the transaction that *)
(* records it is still open, and the rows of an open transaction are       *)
(* locked for the others.                                                  *)
(*                                                                         *)
(* A title that was never added is a Movie row that is deleted.            *)
(* placeholder_filepath is set exactly when has_placeholder is, so it has  *)
(* no variable.  Titles are released and follow the auto policy.           *)
(***************************************************************************)
EXTENDS Naturals, FiniteSets

CONSTANTS Movies,       \* the rows of one title, one per Radarr instance
          Workers,      \* threads that run event handlers and jobs
          Sync,         \* the full sync
          Modes,        \* settings of RADARR_SHARED_PLACEHOLDER_CLEANUP
          MaxChanges,   \* changes in Radarr and removals by hand, by mode
          MaxCrashes

ASSUME LifeAssumption ==
  /\ Sync \notin Workers
  /\ Modes \subseteq {"protect_siblings", "any_instance_has_file"}
  /\ MaxChanges \in [Modes -> Nat] /\ MaxCrashes \in Nat

VARIABLES mode,    \* the setting
          arr,     \* what Radarr says of each title
          inbox,   \* webhooks not handled yet
          mov,     \* Movie rows
          row,     \* the newest Placeholder row linked to each Movie
          loose,   \* the path-only Placeholder row
          file,    \* is the placeholder file on disk?
          jobs,    \* grace finalization and materialization jobs
          pc, scope, todo, tx, took,  \* the actors and their transactions
          held,    \* the job a worker runs, pending again if it does not end
          snap,    \* the Radarr catalog the full sync fetched
          quiet,   \* nothing else has happened since the sync began
          changes, crashes

db == <<mov, row, loose>>
ext == <<mode, arr, inbox, changes, crashes>>
local == <<pc, scope, todo, tx, took, held>>
vars == <<ext, db, file, jobs, local, snap, quiet>>

Actors == Workers \cup {Sync}
Dets == {"needs", "exists", "obsolete", "not_needed"}
MovieRows == [hasFile: BOOLEAN, deleted: BOOLEAN, hasPh: BOOLEAN, det: Dets]
\* ex: the row exists; dead: lifecycle_status is DELETED; path: it has the path.
PlaceholderRows == [ex: BOOLEAN, has: BOOLEAN, dead: BOOLEAN, path: BOOLEAN]
LooseRows == [ex: BOOLEAN, has: BOOLEAN, old: BOOLEAN]
NoRow == [ex |-> FALSE, has |-> FALSE, dead |-> FALSE, path |-> FALSE]
Active == [ex |-> TRUE, has |-> TRUE, dead |-> FALSE, path |-> TRUE]
NoLoose == [ex |-> FALSE, has |-> FALSE, old |-> FALSE]
Empty == [m \in {} |-> 0]
Points == {"idle", "upsert", "scan", "reset", "relink", "determine",
           "determine_only", "enqueue", "pick", "files", "orphans"}

TypeOK ==
  /\ mode \in Modes
  /\ arr \in [Movies -> {"absent", "missing", "file"}]
  /\ inbox \subseteq {"add", "import", "file_deleted", "deleted"} \X Movies
  /\ mov \in [Movies -> MovieRows]
  /\ row \in [Movies -> PlaceholderRows]
  /\ loose \in LooseRows
  /\ file \in BOOLEAN
  /\ jobs \subseteq {"grace", "materialize"} \X Movies
  /\ pc \in [Actors -> Points]
  /\ scope \in [Actors -> SUBSET Movies]
  /\ todo \in [Actors -> SUBSET Movies]
  /\ DOMAIN tx = Actors
  /\ \A a \in Actors : \E M \in SUBSET Movies :
       tx[a] \in [M -> [mov: MovieRows, row: PlaceholderRows]]
  /\ took \subseteq Actors
  /\ held \in [Actors -> SUBSET ({"grace", "materialize"} \X Movies)]
  /\ snap \in [Movies -> {"absent", "missing", "file"}]
  /\ quiet \in BOOLEAN
  /\ changes \in 0..MaxChanges[mode] /\ crashes \in 0..MaxCrashes

\* A first start: nothing in the database, perhaps a placeholder left on disk.
Init ==
  /\ mode \in Modes
  /\ arr \in [Movies -> {"absent", "missing"}]
  /\ \E m \in Movies : arr[m] # "absent"
  /\ inbox = {}
  /\ mov = [m \in Movies |-> [hasFile |-> FALSE, deleted |-> TRUE,
                              hasPh |-> FALSE, det |-> "not_needed"]]
  /\ row = [m \in Movies |-> NoRow]
  /\ loose = NoLoose
  /\ file \in BOOLEAN
  /\ jobs = {}
  /\ pc = [a \in Actors |-> "idle"]
  /\ scope = [a \in Actors |-> {}]
  /\ todo = [a \in Actors |-> {}]
  /\ tx = [a \in Actors |-> Empty]
  /\ took = {}
  /\ held = [a \in Actors |-> {}]
  /\ snap = [m \in Movies |-> "absent"]
  /\ quiet = FALSE
  /\ changes = 0 /\ crashes = 0

-----------------------------------------------------------------------------
(* Determination and the guard of shared files.                            *)

\* Another configured instance has a real file of the title.
SiblingHasFile(mv, m) ==
  \E s \in Movies \ {m} : ~mv[s].deleted /\ mv[s].hasFile

Suppressed(mv, m) ==
  /\ mode = "any_instance_has_file"
  /\ SiblingHasFile(mv, m)

Determination(mv, m) ==
  IF mv[m].hasFile \/ mv[m].deleted \/ Suppressed(mv, m)
    THEN IF mv[m].hasPh THEN "obsolete" ELSE "not_needed"
    ELSE IF mv[m].hasPh THEN "exists" ELSE "needs"

\* Mutant: only the Movie row of the sibling is looked at.
ProtectedByMovieRow(mv, rw, m) ==
  /\ mode = "protect_siblings"
  /\ \E s \in Movies \ {m} : ~mv[s].deleted /\ mv[s].hasPh

\* The path is still referenced by a live sibling, by its Movie row or by its
\* active Placeholder row.
ProtectedPath(mv, rw, m) ==
  /\ mode = "protect_siblings"
  /\ \E s \in Movies \ {m} : /\ ~mv[s].deleted
                             /\ mv[s].hasPh \/ (rw[s].has /\ rw[s].path)

WithSiblings(mv, m) == {m} \cup {s \in Movies : ~mv[s].deleted}

(* Transactions: what an actor sees, and the rows others keep locked.      *)
MovSeen(a) == [m \in Movies |-> IF m \in DOMAIN tx[a] THEN tx[a][m].mov ELSE mov[m]]
RowSeen(a) == [m \in Movies |-> IF m \in DOMAIN tx[a] THEN tx[a][m].row ELSE row[m]]
Free(a, m) == \A b \in Actors \ {a} : m \notin DOMAIN tx[b]
AllFree(a) == \A m \in Movies : Free(a, m)

Write(a, m, mv, rw) ==
  tx' = [tx EXCEPT ![a] = [s \in DOMAIN tx[a] \cup {m} |->
                             IF s = m THEN [mov |-> mv, row |-> rw] ELSE tx[a][s]]]

\* What _mark_placeholder_rows_deleted leaves of a row.
Tombstone(r) == IF r.ex THEN [ex |-> TRUE, has |-> FALSE, dead |-> TRUE, path |-> FALSE]
                ELSE NoRow

Goto(a, p) == pc' = [pc EXCEPT ![a] = p]
Disturb == quiet' = FALSE

-----------------------------------------------------------------------------
(* The world outside: Radarr changes and tells, or the webhook is lost;    *)
(* somebody removes the placeholder by hand.                               *)

Tell(kind, m) == \/ inbox' = inbox \cup {<<kind, m>>}
                 \/ UNCHANGED inbox

ArrChange(m, to, kind) ==
  /\ changes < MaxChanges[mode]
  /\ changes' = changes + 1
  /\ arr' = [arr EXCEPT ![m] = to]
  /\ Tell(kind, m)
  /\ Disturb
  /\ UNCHANGED <<mode, crashes, db, file, jobs, local, snap>>

UserAdds(m) == arr[m] = "absent" /\ ArrChange(m, "missing", "add")
ArrImports(m) == arr[m] = "missing" /\ ArrChange(m, "file", "import")
ArrLosesFile(m) == arr[m] = "file" /\ ArrChange(m, "missing", "file_deleted")
UserDeletes(m) == arr[m] # "absent" /\ ArrChange(m, "absent", "deleted")

RemovedByHand ==
  /\ file /\ changes < MaxChanges[mode]
  /\ changes' = changes + 1
  /\ file' = FALSE
  /\ Disturb
  /\ UNCHANGED <<mode, arr, inbox, crashes, db, jobs, local, snap>>

-----------------------------------------------------------------------------
(* Event handlers and jobs.  Each writes what the event says in a first    *)
(* transaction; determination and materialization follow in their own.     *)

Handles(w, kind, m) ==
  /\ pc[w] = "idle" /\ <<kind, m>> \in inbox
  /\ inbox' = inbox \ {<<kind, m>>}
  /\ Disturb
  /\ UNCHANGED <<mode, arr, changes, crashes, file, tx, took, held, todo, snap>>

\* The title is fetched from Radarr now (the payload is the fallback), and the
\* disk decides whether it has a placeholder.
MovieAdd(w, m) ==
  /\ Handles(w, "add", m)
  /\ Free(w, m)
  /\ mov' = [mov EXCEPT ![m] = [hasFile |-> arr[m] = "file", deleted |-> FALSE,
                                hasPh |-> file, det |-> @.det]]
  /\ row' = IF row[m].ex
            THEN [row EXCEPT ![m] = [ex |-> TRUE, has |-> file, dead |-> @.dead,
                                     path |-> @.path \/ file]]
            ELSE row
  /\ Goto(w, "determine") /\ scope' = [scope EXCEPT ![w] = {m}]
  /\ UNCHANGED <<loose, jobs>>

\* An import is not believed at once: the grace period ends in a job.
MovieImported(w, m) ==
  /\ Handles(w, "import", m)
  /\ jobs' = jobs \cup {<<"grace", m>>}
  /\ UNCHANGED <<db, pc, scope>>

MovieFileDeleted(w, m) ==
  /\ Handles(w, "file_deleted", m)
  /\ Free(w, m)
  /\ mov' = [mov EXCEPT ![m].hasFile = FALSE, ![m].hasPh = FALSE]
  /\ row' = [row EXCEPT ![m] = Tombstone(@)]
  /\ Goto(w, "determine")
  /\ scope' = [scope EXCEPT ![w] = WithSiblings(mov, m)]
  /\ UNCHANGED <<loose, jobs>>

\* The materialization of a deleted title is left to a job.
MovieDeleted(w, m) ==
  /\ Handles(w, "deleted", m)
  /\ Free(w, m)
  /\ mov' = [mov EXCEPT ![m].deleted = TRUE, ![m].hasFile = FALSE]
  /\ Goto(w, "determine_only") /\ scope' = [scope EXCEPT ![w] = {m}]
  /\ UNCHANGED <<row, loose, jobs>>

Enqueue(w) ==
  /\ pc[w] = "enqueue"
  /\ jobs' = jobs \cup {"materialize"} \X scope[w]
  /\ Goto(w, "idle") /\ scope' = [scope EXCEPT ![w] = {}]
  /\ Disturb
  /\ UNCHANGED <<ext, db, file, todo, tx, took, held, snap>>

MaterializeJob(w, m) ==
  /\ pc[w] = "idle" /\ <<"materialize", m>> \in jobs
  /\ jobs' = jobs \ {<<"materialize", m>>}
  /\ held' = [held EXCEPT ![w] = {<<"materialize", m>>}]
  /\ Goto(w, "pick") /\ scope' = [scope EXCEPT ![w] = {m}]
  /\ Disturb
  /\ UNCHANGED <<ext, db, file, todo, tx, took, snap>>

\* The end of a grace period: the file is taken to be there, and the title and
\* its siblings are determined and materialized, all in the job's transaction.
GraceFinalize(w, m) ==
  LET filed == [mov EXCEPT ![m].hasFile = TRUE]
      group == WithSiblings(mov, m)
      next(s) == [filed[s] EXCEPT !.det = Determination(filed, s)]
      written == {m} \cup {s \in group : next(s) # mov[s]}
  IN /\ pc[w] = "idle" /\ <<"grace", m>> \in jobs
     /\ jobs' = jobs \ {<<"grace", m>>}
     /\ held' = [held EXCEPT ![w] = {<<"grace", m>>}]
     /\ \A s \in written : Free(w, s)
     /\ tx' = [tx EXCEPT ![w] = [s \in written |-> [mov |-> next(s), row |-> row[s]]]]
     /\ Goto(w, "pick") /\ scope' = [scope EXCEPT ![w] = group]
     /\ Disturb
     /\ UNCHANGED <<ext, db, file, todo, took, snap>>

-----------------------------------------------------------------------------
(* Determination and materialization, of a handler's scope or of all.      *)

Heard(a) == quiet' = (quiet /\ a = Sync)

Determine(a) ==
  LET next == [m \in Movies |-> IF m \in scope[a]
                                THEN [mov[m] EXCEPT !.det = Determination(mov, m)]
                                ELSE mov[m]]
  IN /\ pc[a] \in {"determine", "determine_only"}
     /\ \A m \in Movies : next[m] # mov[m] => Free(a, m)
     /\ mov' = next
     /\ Goto(a, IF pc[a] = "determine" THEN "pick" ELSE "enqueue")
     /\ Heard(a)
     /\ UNCHANGED <<ext, row, loose, file, jobs, scope, todo, tx, took, held, snap>>

Pick(a) ==
  /\ pc[a] = "pick"
  /\ todo' = [todo EXCEPT ![a] = {m \in scope[a] :
                                    MovSeen(a)[m].det \in {"needs", "obsolete"}}]
  /\ Goto(a, "files")
  /\ Heard(a)
  /\ UNCHANGED <<ext, db, file, jobs, scope, tx, took, held, snap>>

Materializing(a, m) ==
  /\ pc[a] = "files" /\ m \in todo[a] /\ Free(a, m)
  /\ Heard(a)
  /\ UNCHANGED <<ext, db, jobs, pc, scope, held, snap>>

\* The title gives its placeholder up: the file goes unless a sibling uses it.
\* The titles of this pass are determined again, and one may need it after all.
RemovePlaceholder(a, m) ==
  LET mv == MovSeen(a)
      rw == RowSeen(a)
      bare == [mv EXCEPT ![m].hasPh = FALSE]
      det == Determination(bare, m)
      linked == mv[m].hasPh \/ rw[m].path
  IN /\ Materializing(a, m)
     /\ mv[m].det = "obsolete"
     /\ file' = (file /\ (linked => ProtectedPath(mv, rw, m)))
     /\ Write(a, m, [bare[m] EXCEPT !.det = det], Tombstone(rw[m]))
     /\ todo' = IF det = "needs" THEN todo ELSE [todo EXCEPT ![a] = @ \ {m}]
     /\ UNCHANGED took

\* The file is written, then the title's own Placeholder row is activated; a
\* title without one takes over the path-only row, or opens its own.
CreatePlaceholder(a, m) ==
  LET mv == MovSeen(a)
      rw == RowSeen(a)
      newest == \A s \in Movies : ~rw[s].path
      made == [mv[m] EXCEPT !.hasPh = TRUE,
                 !.det = IF mv[m].hasFile \/ mv[m].deleted THEN "not_needed" ELSE "exists"]
  IN /\ Materializing(a, m)
     /\ \A s \in todo[a] : mv[s].det # "obsolete"
     /\ mv[m].det = "needs"
     /\ file' = TRUE
     /\ Write(a, m, made, Active)
     /\ IF ~rw[m].ex /\ loose.ex /\ took = {}
          THEN \/ took' = {a}
               \/ ~newest /\ UNCHANGED took
          ELSE UNCHANGED took
     /\ todo' = [todo EXCEPT ![a] = @ \ {m}]

\* Another transaction has changed the title's mind in the meantime.
NothingToDo(a, m) ==
  /\ Materializing(a, m)
  /\ MovSeen(a)[m].det \notin {"needs", "obsolete"}
  /\ todo' = [todo EXCEPT ![a] = @ \ {m}]
  /\ UNCHANGED <<file, tx, took>>

Commit(a) ==
  /\ pc[a] = "files" /\ todo[a] = {}
  /\ mov' = MovSeen(a)
  /\ row' = RowSeen(a)
  /\ loose' = IF a \in took THEN NoLoose ELSE loose
  /\ took' = took \ {a}
  /\ tx' = [tx EXCEPT ![a] = Empty]
  /\ Goto(a, IF a = Sync THEN "orphans" ELSE "idle")
  /\ scope' = [scope EXCEPT ![a] = {}]
  /\ held' = [held EXCEPT ![a] = {}]
  /\ Heard(a)
  /\ UNCHANGED <<ext, file, jobs, todo, snap>>

-----------------------------------------------------------------------------
(* The full sync and its self-healing pipeline.                            *)

Syncing(from, to) ==
  /\ pc[Sync] = from
  /\ Goto(Sync, to)
  /\ UNCHANGED <<ext, jobs, todo, tx, took, held>>

Fetch ==
  /\ Syncing("idle", "upsert")
  /\ snap' = arr
  /\ quiet' = (inbox = {} /\ jobs = {} /\ \A w \in Workers : pc[w] = "idle")
  /\ UNCHANGED <<db, file, scope>>

\* Titles of the catalog are upserted, the rest of the instance marked deleted.
Upsert ==
  LET next == [m \in Movies |->
                 IF snap[m] = "absent" THEN [mov[m] EXCEPT !.deleted = TRUE]
                 ELSE [mov[m] EXCEPT !.deleted = FALSE, !.hasFile = snap[m] = "file"]]
  IN /\ Syncing("upsert", "scan")
     /\ \A m \in Movies : next[m] # mov[m] => Free(Sync, m)
     /\ mov' = next
     /\ snap' = [m \in Movies |-> "absent"]
     /\ UNCHANGED <<row, loose, file, scope, quiet>>

\* Paths of tombstones and of deleted titles are cleared before the walk.
Healed == [m \in Movies |-> IF row[m].path /\ (row[m].dead \/ mov[m].deleted)
                            THEN Tombstone(row[m]) ELSE row[m]]
\* The linked rows a file found on disk can be matched with.
Eligible == {m \in Movies : Healed[m].path /\ ~Healed[m].dead /\ ~mov[m].deleted}

\* One row is refreshed for the file: a linked one first, an active one first.
Best(E) == IF \E m \in E : Healed[m].has THEN {m \in E : Healed[m].has} ELSE E

Missing(r) == IF r.has THEN [r EXCEPT !.has = FALSE, !.dead = FALSE] ELSE r

FileSeen ==
  /\ file
  /\ \/ \E m \in Best(Eligible) : /\ row' = [Healed EXCEPT ![m] = Active]
                                  /\ UNCHANGED loose
     \/ /\ Eligible = {}
        /\ row' = Healed
        /\ loose' = IF loose.ex THEN [loose EXCEPT !.has = TRUE]
                    ELSE [ex |-> TRUE, has |-> TRUE, old |-> FALSE]

FileNotSeen ==
  /\ ~file
  /\ row' = [m \in Movies |-> IF Healed[m].path THEN Missing(Healed[m]) ELSE Healed[m]]
  /\ loose' = [loose EXCEPT !.has = FALSE]

ScanRoots ==
  /\ Syncing("scan", "reset")
  /\ AllFree(Sync) /\ took = {}
  /\ FileSeen \/ FileNotSeen
  /\ UNCHANGED <<mov, file, scope, snap, quiet>>

\* Mutant: links are added, never reset.
ResetNothing ==
  /\ Syncing("reset", "relink")
  /\ AllFree(Sync)
  /\ UNCHANGED <<db, file, scope, snap, quiet>>

\* Link reconcile, first transaction: no title has a placeholder.
ResetLinks ==
  /\ Syncing("reset", "relink")
  /\ AllFree(Sync)
  /\ mov' = [m \in Movies |-> [mov[m] EXCEPT !.hasPh = FALSE]]
  /\ UNCHANGED <<row, loose, file, scope, snap, quiet>>

\* Then active rows are checked against the disk, and the titles linked again.
Relink ==
  LET valid == [m \in Movies |-> IF row[m].path /\ file THEN row[m] ELSE Missing(row[m])]
  IN /\ Syncing("relink", "determine")
     /\ AllFree(Sync) /\ took = {}
     /\ row' = valid
     /\ loose' = [loose EXCEPT !.has = @ /\ file]
     /\ mov' = [m \in Movies |-> [mov[m] EXCEPT !.hasPh = @ \/ valid[m].has]]
     /\ scope' = [scope EXCEPT ![Sync] = Movies]
     /\ UNCHANGED <<file, snap, quiet>>

\* Mutant: the row goes, its file stays.
CleanRowsOnly ==
  /\ took = {}
  /\ loose' = IF loose.has /\ loose.old THEN NoLoose ELSE loose
  /\ UNCHANGED <<mov, row, file>>

\* Path-only rows older than the grace are removed together with their file.
CleanOrphans ==
  /\ took = {}
  /\ IF loose.has /\ loose.old
       THEN file' = FALSE /\ loose' = NoLoose
       ELSE UNCHANGED <<file, loose>>
  /\ UNCHANGED <<mov, row>>

Orphans ==
  /\ Syncing("orphans", "idle")
  /\ CleanOrphans
  /\ quiet' = FALSE
  /\ UNCHANGED <<scope, snap>>

\* A lite or calendar run: it waits for nothing and ends with the same cleanup.
Maintenance ==
  /\ pc[Sync] = "idle"
  /\ CleanOrphans
  /\ UNCHANGED <<ext, jobs, local, snap, quiet>>

-----------------------------------------------------------------------------
GraceOfOrphanPasses ==
  /\ loose.ex /\ ~loose.old
  /\ loose' = [loose EXCEPT !.old = TRUE]
  /\ UNCHANGED <<ext, mov, row, file, jobs, local, snap, quiet>>

\* Two open transactions wait for each other's rows: the database aborts one.
\* A full sync ends there; a worker's job is tried again.
Waits(a, b) == pc[a] = "files" /\ todo[a] \cap DOMAIN tx[b] # {}

DeadlockVictim(a) ==
  /\ \E b \in Actors \ {a} : Waits(a, b) /\ Waits(b, a)
  /\ tx' = [tx EXCEPT ![a] = Empty]
  /\ took' = took \ {a}
  /\ Goto(a, "idle")
  /\ scope' = [scope EXCEPT ![a] = {}]
  /\ todo' = [todo EXCEPT ![a] = {}]
  /\ jobs' = jobs \cup held[a]
  /\ held' = [held EXCEPT ![a] = {}]
  /\ Disturb
  /\ UNCHANGED <<ext, db, file, snap>>

\* The process dies: open transactions roll back, the disk stays as it is.
Crash ==
  /\ crashes < MaxCrashes
  /\ crashes' = crashes + 1
  /\ pc' = [a \in Actors |-> "idle"]
  /\ scope' = [a \in Actors |-> {}]
  /\ todo' = [a \in Actors |-> {}]
  /\ tx' = [a \in Actors |-> Empty]
  /\ took' = {}
  /\ jobs' = jobs \cup UNION {held[a] : a \in Actors}
  /\ held' = [a \in Actors |-> {}]
  /\ snap' = [m \in Movies |-> "absent"]
  /\ Disturb
  /\ UNCHANGED <<mode, arr, inbox, changes, db, file>>

World == \/ RemovedByHand
         \/ \E m \in Movies : \/ UserAdds(m) \/ ArrImports(m)
                              \/ ArrLosesFile(m) \/ UserDeletes(m)

Worker(w) ==
  \/ Enqueue(w)
  \/ \E m \in Movies : \/ MovieAdd(w, m) \/ MovieImported(w, m)
                       \/ MovieFileDeleted(w, m) \/ MovieDeleted(w, m)
                       \/ MaterializeJob(w, m) \/ GraceFinalize(w, m)

Materialize(a) ==
  \/ Determine(a) \/ Pick(a) \/ Commit(a)
  \/ \E m \in Movies : \/ RemovePlaceholder(a, m) \/ CreatePlaceholder(a, m)
                       \/ NothingToDo(a, m)

FullSync == Fetch \/ Upsert \/ ScanRoots \/ ResetLinks \/ Relink \/ Orphans

Next == \/ World \/ FullSync \/ Maintenance \/ GraceOfOrphanPasses \/ Crash
        \/ \E w \in Workers : Worker(w)
        \/ \E a \in Actors : Materialize(a) \/ DeadlockVictim(a)

\* Workers and the scheduled full sync go on; time passes.  Row locks are
\* queued: a transaction that waits for one gets it when it is given up.
Fairness ==
  /\ SF_vars(FullSync \/ Materialize(Sync))
  /\ \A w \in Workers : SF_vars(Worker(w) \/ Materialize(w))
  /\ WF_vars(\E a \in Actors : DeadlockVictim(a))
  /\ WF_vars(GraceOfOrphanPasses)

Spec == Init /\ [][Next]_vars /\ Fairness

-----------------------------------------------------------------------------
(* Properties.                                                             *)

\* The title lacks a real file, and nothing suppresses its placeholder.
Wanted(m) ==
  /\ arr[m] = "missing"
  /\ mode = "any_instance_has_file" => \A s \in Movies : arr[s] # "file"

\* The database knows what Radarr knows.
InStep(m) == IF arr[m] = "absent" THEN mov[m].deleted
             ELSE ~mov[m].deleted /\ (mov[m].hasFile <=> arr[m] = "file")

Repaired ==
  /\ \A m \in Movies : /\ InStep(m)
                       /\ row[m].has <=> Wanted(m)
                       /\ row[m].has => row[m].path
  /\ (\E m \in Movies : Wanted(m)) => file
  /\ file => loose.has \/ \E m \in Movies : Wanted(m)

\* A full sync that nothing disturbs repairs every difference a crash, a lost
\* webhook, a removal by hand or a race has left: when its materialization is
\* committed, the rows agree with Radarr, exactly the titles that want one have
\* an active placeholder, and a file nobody wants is known to the orphan
\* cleanup (sync_runner.py, filesystem.py, determiner.py, materializer.py).
QuietSyncRepairs ==
  quiet /\ pc[Sync] = "orphans"
    => Repaired /\ \A m \in Movies : mov[m].hasPh <=> Wanted(m)

\* With protect_siblings, giving up a placeholder never takes the file from a
\* live sibling whose committed rows refer to it, not even in the window in
\* which the link reconcile has reset every Movie row.
SiblingKeepsFile ==
  [][\A a \in Actors, m \in Movies :
       RemovePlaceholder(a, m) /\ mode = "protect_siblings" /\ file /\ ~file'
         => \A s \in Movies \ {m} : s \notin DOMAIN tx[a]
              => ~(row[s].has /\ row[s].path /\ ~mov[s].deleted)]_vars

\* Orphan cleanup removes files that have no link: "Remove placeholder files +
\* DB rows with no movie/series/season/episode link".
OrphansAreUnlinked ==
  [][CleanOrphans /\ file /\ ~file'
       => \A m \in Movies : ~(row[m].has /\ row[m].path)]_vars

\* Once Radarr and the users leave the title alone, the system settles in the
\* state Radarr asks for, whatever webhooks were lost and whatever has crashed.
Settles == <>[](Repaired /\ ~loose.has)
=============================================================================
