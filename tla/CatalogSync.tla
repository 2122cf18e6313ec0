---------------------------- MODULE CatalogSync ----------------------------
(***************************************************************************)
(* How the database follows the catalog of one Radarr or Sonarr instance.  *)
(* A full sync upserts every title and episode and marks the titles it did *)
(* not see; a lite sync compares flags and counts with the catalog and     *)
(* syncs only the titles that differ, one request at a time, in a single   *)
(* transaction; a job syncs one title.  Requests may fail, episode lists   *)
(* are cached, failed ones too, the process may crash between any two      *)
(* steps, and what a lite sync touched is known to its thread only.        *)
(*                                                                         *)
(* A unit <<t, 0>> is a title, <<t, e>> its episode with Sonarr id e.      *)
(* What the Arr says of a unit is "none" (it has no such unit), "open" (no *)
(* file, unmonitored), "held" (no file, monitored) or "file".  A list is   *)
(* fetched and written in one step; movies are in the catalog itself.      *)
(* Titles have their database id and keep their numbers; policies, dates   *)
(* and shared paths are the subject of Determiner and PlaceholderLife.     *)
(***************************************************************************)
EXTENDS Naturals, FiniteSets, FiniteSetsExt

CONSTANTS Titles, Episodes, Special, \* Special: the episodes of season 0
          Settings                   \* instances, options and bounds

ASSUME CatalogAssumption ==
  /\ IsFiniteSet(Titles) /\ Titles # {}
  /\ IsFiniteSet(Episodes) /\ Episodes \subseteq Nat \ {0}
  /\ Special \subseteq Episodes
  /\ \A s \in Settings :
       /\ s.kind \in {"radarr", "sonarr"} /\ s.skip \in BOOLEAN
       /\ s.titles \subseteq Titles /\ s.episodes \subseteq Episodes
       /\ s.kind = "radarr" => s.episodes = {}
       /\ \A b \in {s.changes, s.fails, s.crashes, s.jobs, s.toggles} : b \in Nat

VARIABLES setting,  \* the instance, the options and the bounds of a behavior
          arr,      \* what the Arr says of each unit
          db,       \* Movie, Series and Episode rows
          files,    \* units with a placeholder
          cache,    \* episode lists of the last two minutes
          specials, pending, captured,  \* INCLUDE_SPECIALS and its two flags
          firstFull,                    \* first_full_sync_completed_at is set
          pc, mode, booting,            \* the sync
          snap, todo, item, tx, touched,
          quiet,    \* nothing else happened and nothing failed in this sync
          away,     \* units the Arr lacked at some time since it began
          misread,  \* titles of which a request failed since it began
          used      \* how much of each bound is used

world == <<setting, arr, specials, used>>
flags == <<pending, captured, firstFull>>
ghosts == <<quiet, away, misread>>
syncing == <<pc, mode, booting, snap, todo, item, tx, touched>>
catalogVars == <<world, flags, db, files, cache, ghosts, syncing>>

Units == Titles \X (Episodes \cup {0})
UnitsOf(t) == {t} \X (Episodes \cup {0})
States == {"none", "open", "held", "file"}
Rows == [st: States, dead: BOOLEAN]
NoRow == [st |-> "none", dead |-> FALSE]
Absent == [u \in Units |-> "none"]
Lists == [Episodes -> States]
Nothing == [e \in Episodes |-> "none"]
NoList == [on |-> FALSE, bad |-> FALSE, eps |-> Nothing]
Empty == [t \in {} |-> NoRow]
Bounds == {"changes", "fails", "crashes", "jobs", "toggles"}
Points == {"down", "idle", "specials", "seed", "catalog", "diff", "signatures",
           "titles", "list", "passes", "done"}

CatalogTypeOK ==
  /\ setting \in Settings
  /\ arr \in [Units -> States] /\ db \in [Units -> Rows]
  /\ files \subseteq Units
  /\ cache \in [Titles -> [on: BOOLEAN, bad: BOOLEAN, eps: Lists]]
  /\ {specials, pending, captured, firstFull, booting, quiet} \subseteq BOOLEAN
  /\ pc \in Points /\ mode \in {"full", "lite"}
  /\ snap \in [Units -> States]
  /\ todo \subseteq Titles /\ touched \subseteq Units
  /\ item \in [t: Titles, st: States]
  /\ \E T \in SUBSET Titles : DOMAIN tx = T
  /\ away \subseteq Units /\ misread \subseteq Titles
  /\ used \in [Bounds -> Nat]

\* A first start: an empty database and any catalog of the instance.
CatalogInit ==
  /\ setting \in Settings
  /\ arr = [u \in Units |-> IF u[1] \in setting.titles
              THEN IF u[2] = 0 \/ u[2] \in setting.episodes THEN "open" ELSE "none"
              ELSE "none"]
  /\ db = [u \in Units |-> NoRow] /\ files = {}
  /\ cache = [t \in Titles |-> NoList]
  /\ specials = FALSE /\ pending = FALSE
  /\ captured = FALSE /\ firstFull = FALSE
  /\ pc = "down" /\ mode = "full" /\ booting = FALSE
  /\ snap = Absent /\ todo = {} /\ tx = Empty /\ touched = {}
  /\ item = [t |-> CHOOSE t \in Titles : TRUE, st |-> "none"]
  /\ quiet = FALSE /\ away = {} /\ misread = {}
  /\ used = [b \in Bounds |-> 0]

-----------------------------------------------------------------------------
(* Rows, and which of them want a placeholder.                             *)

Live(d, u) == d[u].st # "none" /\ ~d[u].dead
IsSpecial(u) == u[2] \in Special
\* Movies and episodes have placeholders, series do not.
Carries(u) == (u[2] = 0) = (setting.kind = "radarr")

Needed(d, u) ==
  /\ Carries(u) /\ Live(d, u)
  /\ d[u].st = "open" \/ (d[u].st = "held" /\ ~setting.skip)
  /\ IsSpecial(u) => specials

\* Mutant: an upsert does not take the mark off a row.
UpsertedMarked(t, st, eps) ==
  [u \in UnitsOf(t) |->
     IF u[2] = 0 THEN [st |-> st, dead |-> db[u].dead]
     ELSE IF eps[u[2]] # "none" THEN [st |-> eps[u[2]], dead |-> FALSE]
     ELSE db[u]]

\* The rows of a title once it and the episodes of the list are upserted; rows
\* of other episodes are left alone.
Upserted(t, st, eps) ==
  [u \in UnitsOf(t) |->
     IF u[2] = 0 THEN [st |-> st, dead |-> FALSE]
     ELSE IF eps[u[2]] # "none" THEN [st |-> eps[u[2]], dead |-> FALSE]
     ELSE db[u]]

Marked(row) == [row EXCEPT !.dead = row.st # "none"]

\* Mutant: the targeted sync marks nothing.
TargetedKeeping(t, st, eps) == Upserted(t, st, eps)

\* Episodes that the list lacks are marked, all of them when it is empty.
Targeted(t, st, eps) ==
  [u \in UnitsOf(t) |->
     IF u[2] # 0 /\ eps[u[2]] = "none" THEN Marked(db[u])
     ELSE Upserted(t, st, eps)[u]]

\* The title is gone: its seasons and episodes are marked with it.
Gone(t) == [u \in UnitsOf(t) |-> Marked(db[u])]

\* Only the specials of a list.
OfSeason0(eps) == [e \in Episodes |-> IF e \in Special THEN eps[e] ELSE "none"]

\* Mutant: the specials' capture marks what is not in its list.
CapturedMarking(t, st, eps) == Targeted(t, st, OfSeason0(eps))

Captured(t, st, eps) == Upserted(t, st, OfSeason0(eps))

\* The rows of the title t alone, and those of an open transaction with them.
Only(t, rows) == [s \in {t} |-> rows]
Put(t, rows) == [s \in DOMAIN tx \cup {t} |-> IF s = t THEN rows ELSE tx[s]]

Merged(rows) ==
  [u \in Units |-> IF u[1] \in DOMAIN rows THEN rows[u[1]][u] ELSE db[u]]

-----------------------------------------------------------------------------
(* Requests.  A failed list is an empty list, and it is cached like one.   *)

Left(b) == used[b] < setting[b]
Spend(b, n) == used' = [used EXCEPT ![b] = @ + n]

FreshList(t) == [on |-> TRUE, bad |-> FALSE, eps |-> [e \in Episodes |-> arr[<<t, e>>]]]
Failed == [on |-> TRUE, bad |-> TRUE, eps |-> Nothing]

ListOf(t, F) ==
  IF cache[t].on THEN cache[t] ELSE IF t \in F THEN Failed ELSE FreshList(t)

Failures(T) == {F \in SUBSET {t \in T : ~cache[t].on} :
                  used["fails"] + Cardinality(F) <= setting["fails"]}

ReadLists(T, F) ==
  /\ cache' = [t \in Titles |-> IF t \in T THEN ListOf(t, F) ELSE cache[t]]
  /\ Spend("fails", Cardinality(F))
  /\ misread' = misread \cup F
  /\ quiet' = (quiet /\ F = {})

RequestFails == Left("fails") /\ Spend("fails", 1) /\ quiet' = FALSE

-----------------------------------------------------------------------------
(* The beginning of a sync.                                                *)

Begin(m, b) ==
  /\ mode' = m /\ booting' = b
  /\ pc' = IF m = "full" THEN "catalog"
           ELSE IF setting.kind = "sonarr" /\ (pending \/ ~captured)
             THEN "specials" ELSE "seed"
  /\ snap' = Absent /\ todo' = {} /\ tx' = Empty /\ touched' = {}
  /\ quiet' = \A t \in Titles : cache[t].on => cache[t] = FreshList(t)
  /\ away' = {u \in Units : \/ arr[u] = "none"
                            \/ u[2] # 0 /\ cache[u[1]].on
                                 /\ cache[u[1]].eps[u[2]] = "none"}
  /\ misread' = {t \in Titles : cache[t].bad}
  /\ UNCHANGED <<world, flags, db, files, cache, item>>

\* An instance without a full sync gets one; later boots are lite or, when the
\* full sync is overdue, full.
BootSync == /\ pc = "down"
            /\ \E m \in (IF firstFull THEN {"full", "lite"} ELSE {"full"}) : Begin(m, TRUE)

Scheduled(m) == pc = "idle" /\ Begin(m, FALSE)

Season0Seeds(d) ==
  {u \in Units : specials /\ IsSpecial(u) /\ Live(d, u) /\ d[u].st # "file"}

\* The capture of specials, pending or never done, for the series the catalog
\* lists; it counts as done whatever failed.
Specials ==
  /\ pc = "specials" /\ pc' = "seed"
  /\ captured' = TRUE /\ pending' = FALSE
  /\ \/ LET T == {t \in Titles : arr[<<t, 0>>] # "none"}
        IN \E F \in Failures(T) :
             /\ ReadLists(T, F)
             /\ db' = Merged([t \in T |->
                        Captured(t, arr[<<t, 0>>], ListOf(t, F).eps)])
     \/ RequestFails /\ UNCHANGED <<db, cache, misread>>
  /\ touched' = Season0Seeds(db')
  /\ UNCHANGED <<setting, arr, specials, firstFull, files, away,
                 mode, booting, snap, todo, item, tx>>

\* Rows that look unfinished: no file and no placeholder.
Seeds == {u \in Units : /\ Carries(u) /\ Live(db, u) /\ db[u].st # "file"
                        /\ u \notin files /\ (IsSpecial(u) => specials)}

Seed ==
  /\ pc = "seed" /\ pc' = "catalog"
  /\ touched' = touched \cup Seeds
  /\ UNCHANGED <<world, flags, db, files, cache, ghosts,
                 mode, booting, snap, todo, item, tx>>

Catalog ==
  /\ pc = "catalog"
  /\ snap' = arr
  /\ pc' = IF mode = "full" THEN "titles" ELSE "diff"
  /\ todo' = IF mode = "full" THEN {t \in Titles : arr[<<t, 0>>] # "none"} ELSE {}
  /\ UNCHANGED <<world, flags, db, files, cache, ghosts,
                 mode, booting, item, tx, touched>>

\* A startup full sync counts as the instance's first one when it did not raise.
Stamp == firstFull' = (firstFull \/ (mode = "full" /\ booting))

\* A failed catalog request is no catalog: the instance is skipped.
CatalogFails ==
  /\ pc = "catalog" /\ pc' = "passes"
  /\ RequestFails /\ Stamp
  /\ UNCHANGED <<setting, arr, specials, pending, captured, db, files, cache,
                 away, misread, mode, booting, snap, todo, item, tx, touched>>

-----------------------------------------------------------------------------
(* The lite sync: which titles differ, and the targeted sync of these.     *)

CountOf(d, t, S) == Cardinality({e \in Episodes : Live(d, <<t, e>>) /\ d[<<t, e>>].st \in S})
CountIn(a, t, S) == Cardinality({e \in Episodes : a[<<t, e>>] \in S})
Catalogued == States \ {"none"}

Added(t) == snap[<<t, 0>>] # "none" /\ db[<<t, 0>>].st = "none"
Removed(t) == snap[<<t, 0>>] = "none" /\ Live(db, <<t, 0>>)

\* Flags of the title, and the numbers of its episodes and of their files.
Changed(t) ==
  /\ snap[<<t, 0>>] # "none" /\ db[<<t, 0>>].st # "none"
  /\ \/ db[<<t, 0>>].dead
     \/ db[<<t, 0>>].st # snap[<<t, 0>>]
     \/ CountOf(db, t, States) # CountIn(snap, t, Catalogued)
     \/ CountOf(db, t, {"file"}) # CountIn(snap, t, {"file"})

Targets == {t \in Titles : Added(t) \/ Changed(t) \/ Removed(t)}

Diff ==
  /\ pc = "diff"
  /\ todo' = Targets
  /\ pc' = IF setting.skip /\ setting.kind = "sonarr" THEN "signatures" ELSE "titles"
  /\ UNCHANGED <<world, flags, db, files, cache, ghosts,
                 mode, booting, snap, item, tx, touched>>

\* The sum of the ids of the monitored episodes.
Signature(S) == SumSet(S)
InDb(t) == {e \in Episodes : Live(db, <<t, e>>)}

\* With SKIP_PLACEHOLDERS_WHEN_MONITORED the episodes of the other series are
\* requested too, and compared by their signature.
Signatures ==
  /\ pc = "signatures" /\ pc' = "titles"
  /\ LET T == {t \in Titles : /\ t \notin todo \/ snap[<<t, 0>>] = "none"
                            /\ Live(db, <<t, 0>>) /\ InDb(t) # {}}
     IN \E F \in Failures(T) :
          /\ ReadLists(T, F)
          /\ todo' = todo \cup
               {t \in T : Signature({e \in InDb(t) : db[<<t, e>>].st = "held"})
                       # Signature({e \in Episodes : ListOf(t, F).eps[e] = "held"})}
  /\ UNCHANGED <<setting, arr, specials, flags, db, files, away,
                 mode, booting, snap, item, tx, touched>>

\* A title that cannot be read is taken for one that is gone.
ItemGone(t) ==
  /\ pc = "titles" /\ mode = "lite" /\ t \in todo
  /\ \/ arr[<<t, 0>>] = "none" /\ UNCHANGED <<used, quiet, misread>>
     \/ RequestFails /\ misread' = misread \cup {t}
  /\ tx' = Put(t, Gone(t))
  /\ todo' = todo \ {t}
  /\ UNCHANGED <<setting, arr, specials, flags, db, files, cache, away,
                 pc, mode, booting, snap, item, touched>>

\* A full sync takes the title from the catalog, a targeted sync requests it.
Item(t) ==
  /\ pc = "titles" /\ t \in todo
  /\ mode = "lite" => arr[<<t, 0>>] # "none"
  /\ item' = [t |-> t, st |-> IF mode = "full" THEN snap[<<t, 0>>] ELSE arr[<<t, 0>>]]
  /\ todo' = todo \ {t} /\ pc' = "list"
  /\ UNCHANGED <<world, flags, db, files, cache, ghosts,
                 mode, booting, snap, tx, touched>>

\* A full sync commits each series; a targeted sync commits at its end, and so
\* does a full sync of movies, which have no lists.
List ==
  /\ pc = "list" /\ pc' = "titles"
  /\ LET t == item.t
         T == IF setting.kind = "sonarr" THEN {t} ELSE {}
     IN \E F \in Failures(T) :
          /\ ReadLists(T, F)
          /\ IF mode = "lite"
               THEN tx' = Put(t, Targeted(t, item.st, ListOf(t, F).eps))
                    /\ UNCHANGED db
             ELSE IF setting.kind = "sonarr"
               THEN db' = Merged(Only(t, Upserted(t, item.st, ListOf(t, F).eps)))
                    /\ UNCHANGED tx
             ELSE tx' = Put(t, Upserted(t, item.st, Nothing))
                  /\ UNCHANGED db
  /\ UNCHANGED <<setting, arr, specials, flags, files, away,
                 mode, booting, snap, todo, item, touched>>

\* What a targeted sync reports: the rows that it changed, those of a title that
\* changed or is gone, or when nothing changed every row of its titles.
Reported ==
  LET rows == {u \in Units : u[1] \in DOMAIN tx /\ tx[u[1]][u].st # "none"}
      title(u) == <<u[1], 0>>
      seen == {u \in rows :
                 \/ tx[u[1]][u] # db[u]
                 \/ tx[u[1]][title(u)] # db[title(u)] /\ ~tx[u[1]][u].dead
                 \/ tx[u[1]][title(u)].dead}
  IN IF seen # {} THEN seen ELSE rows

Commit ==
  /\ pc = "titles" /\ mode = "lite" /\ todo = {} /\ pc' = "passes"
  /\ db' = Merged(tx) /\ tx' = Empty
  /\ touched' = touched \cup Reported
  /\ UNCHANGED <<world, flags, files, cache, ghosts,
                 mode, booting, snap, todo, item>>

\* The full sync marks the titles it did not see, unless it saw none.
FullMark ==
  /\ pc = "titles" /\ mode = "full" /\ todo = {} /\ pc' = "passes"
  /\ LET seen == {t \in Titles : snap[<<t, 0>>] # "none"}
     IN db' = [u \in Units |-> IF seen # {} /\ u[1] \notin seen
                                 THEN Marked(Merged(tx)[u]) ELSE Merged(tx)[u]]
  /\ tx' = Empty /\ Stamp
  /\ UNCHANGED <<world, pending, captured, files, cache, ghosts,
                 mode, booting, snap, todo, item, touched>>

-----------------------------------------------------------------------------
(* Determination and materialization, and the end of a sync.               *)

Materialized(S) == (files \ S) \cup {u \in S : Needed(db, u)}

\* A full sync looks at every row, a lite sync at those it touched.
Passes ==
  /\ pc = "passes" /\ pc' = "done"
  /\ files' = Materialized(IF mode = "full" THEN Units ELSE touched)
  /\ UNCHANGED <<world, flags, db, cache, ghosts,
                 mode, booting, snap, todo, item, tx, touched>>

Finish ==
  /\ pc = "done" /\ pc' = "idle"
  /\ snap' = Absent /\ touched' = {} /\ booting' = FALSE
  /\ UNCHANGED <<world, flags, db, files, cache, ghosts, mode, todo, item, tx>>

\* The database raises in a sync.  The lite sync and the startup full sync go on
\* to their passes without the instance, a scheduled full sync ends.
Raises ==
  /\ pc \in {"diff", "signatures", "titles", "list"}
  /\ RequestFails
  /\ pc' = IF mode = "lite" \/ booting THEN "passes" ELSE "idle"
  /\ tx' = Empty /\ todo' = {}
  /\ UNCHANGED <<setting, arr, specials, flags, db, files, cache, away, misread,
                 mode, booting, snap, item, touched>>

SyncStep == \/ Specials \/ Seed \/ Catalog \/ CatalogFails \/ Diff \/ Signatures
            \/ \E t \in Titles : ItemGone(t) \/ Item(t)
            \/ List \/ Commit \/ FullMark \/ Passes \/ Finish \/ Raises

Crash ==
  /\ pc # "down" /\ Left("crashes") /\ Spend("crashes", 1)
  /\ pc' = "down" /\ booting' = FALSE
  /\ snap' = Absent /\ todo' = {} /\ tx' = Empty /\ touched' = {}
  /\ cache' = [t \in Titles |-> NoList]
  /\ quiet' = FALSE
  /\ UNCHANGED <<setting, arr, specials, flags, db, files, away, misread, mode, item>>

-----------------------------------------------------------------------------
(* Meanwhile: the job of one title, the Arr, the user and the clock.       *)

\* The rows of an open transaction are locked.
Job(t) ==
  /\ pc # "down" /\ Left("jobs") /\ db[<<t, 0>>].st # "none" /\ t \notin DOMAIN tx
  /\ \E F \in Failures({t}) :
       /\ IF arr[<<t, 0>>] = "none"
            THEN F = {} /\ db' = Merged(Only(t, Gone(t))) /\ UNCHANGED cache
            ELSE /\ db' = Merged(Only(t, Targeted(t, arr[<<t, 0>>], ListOf(t, F).eps)))
                 /\ cache' = IF setting.kind = "sonarr"
                               THEN [cache EXCEPT ![t] = ListOf(t, F)] ELSE cache
       /\ used' = [used EXCEPT !["jobs"] = @ + 1, !["fails"] = @ + Cardinality(F)]
       /\ misread' = misread \cup F
  /\ quiet' = FALSE
  /\ files' = (files \ UnitsOf(t)) \cup {u \in UnitsOf(t) : Needed(db', u)}
  /\ UNCHANGED <<setting, arr, specials, flags, away, syncing>>

ArrBecomes(new) ==
  /\ Left("changes") /\ Spend("changes", 1)
  /\ arr' = new
  /\ away' = away \cup {u \in Units : new[u] = "none"}
  /\ quiet' = FALSE
  /\ UNCHANGED <<setting, specials, flags, db, files, cache, misread, syncing>>

ArrRemoves(t) ==
  /\ arr[<<t, 0>>] # "none"
  /\ ArrBecomes([u \in Units |-> IF u[1] = t THEN "none" ELSE arr[u]])

ArrAdds(t) ==
  /\ t \in setting.titles /\ arr[<<t, 0>>] = "none"
  /\ ArrBecomes([u \in Units |-> IF u[1] = t /\ (u[2] = 0 \/ u[2] \in setting.episodes)
                                   THEN "open" ELSE arr[u]])

\* A series has no file of its own; episodes come and go.
UnitChanges(u, st) ==
  /\ arr[<<u[1], 0>>] # "none" /\ arr[u] # st
  /\ u[2] = 0 => st # "none" /\ (st = "file" => setting.kind = "radarr")
  /\ u[2] # 0 => u[2] \in setting.episodes
  /\ ArrBecomes([arr EXCEPT ![u] = st])

SpecialsOn ==
  /\ ~specials /\ Left("toggles") /\ Spend("toggles", 1)
  /\ specials' = TRUE /\ pending' = TRUE /\ quiet' = FALSE
  /\ UNCHANGED <<setting, arr, captured, firstFull, db, files, cache, away, misread, syncing>>

Expires(t) ==
  /\ cache[t].on
  /\ cache' = [cache EXCEPT ![t] = NoList]
  /\ UNCHANGED <<world, flags, db, files, ghosts, syncing>>

CatalogNext ==
  \/ BootSync \/ SyncStep \/ Crash \/ SpecialsOn
  \/ \E m \in {"full", "lite"} : Scheduled(m)
  \/ \E t \in Titles : Job(t) \/ ArrRemoves(t) \/ ArrAdds(t) \/ Expires(t)
  \/ \E u \in Units, st \in States : UnitChanges(u, st)

CatalogSpec == CatalogInit /\ [][CatalogNext]_catalogVars

\* A due sync runs in the end (SyncRuns), a run goes on, a list grows old.
FairCatalogSpec ==
  /\ CatalogSpec /\ WF_catalogVars(BootSync) /\ WF_catalogVars(SyncStep)
  /\ \A m \in {"full", "lite"} : SF_catalogVars(Scheduled(m))
  /\ \A t \in Titles : WF_catalogVars(Expires(t))

-----------------------------------------------------------------------------
(* Properties.                                                             *)

\* A row is marked deleted only when the Arr lacked the unit at some time since
\* the sync began, or since the list that was used was cached, or when the
\* request for that very title or its list failed.  A failed catalog request,
\* an exception or a crash never marks anything.
RemovalsAreReal ==
  [][\A u \in Units : Live(db, u) /\ ~Live(db, u)' =>
       u \in away \/ arr[u] = "none" \/ u[1] \in misread']_catalogVars

\* What the code's comments promise without that exception: only what the Arr
\* no longer has is marked.  Violated by a failed request for one title.
OnlyTheGoneAreMarked ==
  [][\A u \in Units : Live(db, u) /\ ~Live(db, u)' => u \in away \/ arr[u] = "none"]_catalogVars

\* The first full sync counts as completed only when the catalog was read.
\* Violated: a skipped instance is stamped like a synced one.
FirstFullHappened == [][~firstFull /\ firstFull' => pc # "catalog"]_catalogVars

\* Rows d have a unit as the Arr has it; all that the Arr has of a title; and
\* a title whose flags and counts agree.
Exact(d, u) == IF arr[u] = "none" THEN ~Live(d, u)
                                  ELSE d[u] = [st |-> arr[u], dead |-> FALSE]

Covered(d, t) == \A u \in UnitsOf(t) : arr[u] # "none" => Exact(d, u)

Compared(d, t) ==
  /\ Exact(d, <<t, 0>>)
  /\ CountOf(d, t, States) = CountIn(arr, t, Catalogued)
  /\ CountOf(d, t, {"file"}) = CountIn(arr, t, {"file"})

\* At the end of a full sync in which nothing failed and nothing else happened
\* the database has every title and episode of the catalog as the Arr has it, no
\* other title (unless the catalog is empty), and placeholders exactly where they
\* are needed.  At the end of such a lite sync flags and counts agree, and so
\* do the placeholders of the rows it touched.
QuietSyncAgrees ==
  pc = "done" /\ quiet =>
    /\ mode = "full" =>
         /\ \A t \in Titles : Covered(db, t)
         /\ (\E t \in Titles : arr[<<t, 0>>] # "none") =>
               \A t \in Titles : Exact(db, <<t, 0>>)
         /\ \A u \in Units : u \in files <=> Needed(db, u)
    /\ mode = "lite" =>
         /\ \A t \in Titles : Compared(db, t)
         /\ \A u \in touched : u \in files <=> Needed(db, u)

\* Once the Arr stays as it is and requests and the process stop failing, the
\* database agrees with the catalog for good and placeholders are exactly where
\* they are needed, whatever was lost, marked by mistake or left half done.
CatchesUp ==
  <>[](\A u \in Units : Exact(db, u) /\ (u \in files <=> Needed(db, u)))
=============================================================================
