---------------------------- MODULE Collections ----------------------------
(* One collection recipe and the shelves it keeps in one Plex library.  A run
   reads the recipe, evaluates it against the catalog, creates, updates and
   deletes shelves one call after the other and stores only afterwards which
   shelves are its own.  The scheduled sync and "Run now" are two threads that
   do not know of each other; meanwhile the catalog changes, the season opens
   and closes, the user edits the recipe and works in Plex, a call fails, the
   process ends. *)
EXTENDS Naturals, FiniteSets, FiniteSetsExt

CONSTANTS
  Items,       \* titles of the catalog, numbers in the order of the sort
  Values,      \* values of a set's category, numbers in the order of the set
  Patterns,    \* title patterns the user chooses from
  Library,     \* the items the Plex library has
  MinItems,    \* collection_set.min_items
  MaxItems,    \* MAX_COLLECTION_ITEMS
  MaxShelves,  \* bound: shelves that are ever created
  Settings     \* the recipes checked, with what may happen to each

ASSUME ItemsAssumption == /\ Items \subseteq Nat /\ Items # {}
                          /\ Values \subseteq Nat \ {0} /\ Values # {}
                          /\ Patterns \subseteq Nat /\ Patterns # {}
                          /\ MaxShelves \in Nat
ASSUME MinAssumption == MinItems \in Nat \ {0}
ASSUME CatalogAssumption == IsFiniteSet(Items)
ASSUME CapAssumption == MaxItems \in Nat \ {0}

Keys == 1..MaxShelves                    \* Plex rating keys
None == 0
Titles == Patterns \X Values
Runners == {"task", "manual"}
Main == Min(Values)       \* the one value of a recipe that is not a set

VARIABLES
  set,      \* the setting this behaviour runs under
  recipe,   \* the row of collection_recipe
  catalog,  \* item -> its values, or Untracked
  season,   \* whether today lies in the recipe's window
  plex,     \* rating key -> shelf, or Gone
  born,     \* rating keys given so far; Plex gives none twice
  runs,     \* what each thread is doing
  left,     \* what may still happen, see Settings
  whole     \* ghost: no run was cut short, overlapped or had its recipe edited

vars == <<set, recipe, catalog, season, plex, born, runs, left, whole>>

Untracked == {None}
NoTitle == <<None, None>>
Gone == [title |-> NoTitle]
Live == {k \in Keys : plex[k] # Gone}
Idle == [pc |-> "idle"]

-----------------------------------------------------------------------------
(* What a recipe selects.                                                    *)

Tracked == {i \in Items : catalog[i] # Untracked}
InOrder(S, n) == {i \in S : Cardinality({j \in S : j < i}) < n}
Under(p, q) == IF q > p THEN q - p ELSE 0

\* Sources, then the filter; a title passes when a row of any instance does.
Filtered(v) == {i \in Tracked \cap set.list : v \in catalog[i]}

\* Excludes drop rows, includes bring rows of the catalog back.
Pinned(S) == (S \ set.exclude) \cup (set.include \cap Tracked)

\* Pinned rows survive the limit and count toward it.
Limited(S, limit) ==
  LET pins == S \cap set.include
  IN  pins \cup InOrder(S \ pins, Under(Cardinality(pins), limit))

\* A limit that is set is at most the cap.
Limit == IF set.limit > MaxItems THEN MaxItems ELSE set.limit

\* A recipe without a limit takes all.
Selected(v) ==
  LET rows == Pinned(Filtered(v))
  IN  IF set.limit = None THEN rows ELSE Limited(rows, Limit)

Resolved(v) == Selected(v) \cap Library

\* The explanation takes the cap where the recipe has no limit.
InExplanation(v) ==
  Limited(Pinned(Filtered(v)), IF set.limit = None THEN MaxItems ELSE Limit)

\* Mutant: an exclude pin is final, whatever else is pinned.
ExplainedStrict(v, i) ==
  /\ i \in set.list \cup set.include
  /\ i \in Tracked
  /\ v \in catalog[i] \/ i \in set.include
  /\ i \notin set.exclude
  /\ i \in InExplanation(v)
  /\ i \in Library

\* The verdicts of explain_definition_item, stage by stage.
Explained(v, i) ==
  /\ i \in set.list \cup set.include
  /\ i \in Tracked
  /\ v \in catalog[i] \/ i \in set.include
  /\ i \notin set.exclude \ set.include
  /\ i \in InExplanation(v)
  /\ i \in Library

Children == {v \in Values : Cardinality(Selected(v)) >= MinItems}

-----------------------------------------------------------------------------
(* Shelves.                                                                  *)

Titled(t) == {k \in Live : plex[k].title = t}
Owned(t) == {k \in Titled(t) : plex[k].owned}
First(S) == IF S = {} THEN None ELSE Min(S)

\* Mutant: by its title any shelf will do.
KnownByTitle(keys, t) == IF keys[t] \in Live THEN keys[t] ELSE First(Titled(t))

\* resolve_owned_collection: the stored key if it still exists, whatever it
\* has become, or the first marked shelf of that title.
Known(keys, t) == IF keys[t] \in Live THEN keys[t] ELSE First(Owned(t))

\* Mutant: only the last summary is asked.
ManagedLast(row) == row.summary.titles

\* previous_managed_titles: what the definition says, else the last summary.
Managed(row) == IF row.managed # {} THEN row.managed ELSE row.summary.titles

Off(row) == row.window # "none" /\ ~season
Title(row) == <<row.pattern, Main>>
Kept(row) == IF row.mode = "set" THEN Managed(row) ELSE {Title(row)}

Summary(status, titles) == [status |-> status, titles |-> titles]

Shelf(t, items, owned, made) ==
  [title |-> t, items |-> items, owned |-> owned, made |-> made]

\* Mutant: what does not belong is not removed.
UpdatedAdding(shelf, want) ==
  [shelf EXCEPT !.items = @ \cup want, !.owned = TRUE]

\* A shelf is marked, filled with what is missing and rid of what does not
\* belong.
Updated(shelf, want) == [shelf EXCEPT !.items = want, !.owned = TRUE]

NewShelf(shelf) ==
  /\ born < MaxShelves
  /\ born' = born + 1
  /\ plex' = [plex EXCEPT ![born'] = shelf]

-----------------------------------------------------------------------------
Windows == {"none", "keep", "clear", "delete"}
Catalogs == [Items -> (SUBSET Values) \cup {Untracked}]
Budgets == [catalog : Nat, season : Nat, user : Nat, fail : Nat, edit : Nat,
            manual : Nat, crash : Nat]

ASSUME SettingsAssumption ==
  \A s \in Settings : /\ s.mode \in {"single", "set"} /\ s.window \in Windows
                      /\ s.adopt \in BOOLEAN /\ s.limit \in Nat
                      /\ s.catalogs \subseteq Catalogs /\ s.left \in Budgets

Init ==
  /\ set \in Settings
  /\ recipe = [mode |-> set.mode, pattern |-> Min(Patterns), adopt |-> set.adopt,
               window |-> set.window, enabled |-> TRUE,
               keys |-> [t \in Titles |-> None], managed |-> {},
               summary |-> Summary("never", {})]
  /\ catalog \in set.catalogs
  /\ season = TRUE
  /\ plex = [k \in Keys |-> Gone]
  /\ born = 0
  /\ runs = [r \in Runners |-> Idle]
  /\ left = set.left
  /\ whole = TRUE

Spend(what) == left[what] > 0 /\ left' = [left EXCEPT ![what] = @ - 1]
Busy(r) == runs[r].pc # "idle"
\* The other run and every run in progress are no longer undisturbed.
Disturbed == [r \in Runners |-> IF Busy(r) THEN [runs[r] EXCEPT !.quiet = FALSE]
                                           ELSE runs[r]]
Goes(r, to) == runs' = [(IF plex' = plex /\ recipe' = recipe
                         THEN runs ELSE Disturbed) EXCEPT ![r] = to]

-----------------------------------------------------------------------------
(* Runs.                                                                     *)

\* What run_recipe, or the policy of a closed season, reads and sets out to do.
Begin(job, todo, drop) ==
  [pc |-> "look", job |-> job, mode |-> recipe.mode, pattern |-> recipe.pattern,
   adopt |-> recipe.adopt, keys |-> recipe.keys, todo |-> todo, drop |-> drop,
   done |-> {}, found |-> None, want |-> {}, quiet |-> TRUE]

InSeason ==
  LET titles == IF recipe.mode = "set"
                THEN {<<recipe.pattern, v>> : v \in Children}
                ELSE {Title(recipe)}
  IN  Begin("ok", titles,
            IF recipe.mode = "set" THEN Managed(recipe) \ titles ELSE {})

OutOfSeason ==
  IF recipe.window = "clear" THEN Begin("cleared", Kept(recipe), {})
                             ELSE Begin("removed", {}, Kept(recipe))

\* Mutant: a failed attempt counts as one that was made.
AppliedOnce == CASE recipe.summary.status = "cleared" -> "clear"
                 [] recipe.summary.status = "removed" -> "delete"
                 [] recipe.summary.status = "error" -> recipe.window
                 [] OTHER -> "none"

\* What the last run of the recipe did for the closed season.
Applied == CASE recipe.summary.status = "cleared" -> "clear"
             [] recipe.summary.status = "removed" -> "delete"
             [] OTHER -> "none"

Start(r, run) ==
  /\ runs' = [runs EXCEPT ![r] = run]
  /\ whole' = (whole /\ \A o \in Runners : ~Busy(o))
  /\ UNCHANGED <<set, recipe, catalog, season, plex, born>>

\* The sync comes to the recipe: within its season it runs it, outside it
\* applies the policy unless the last summary says that this was done.
Tick ==
  /\ ~Busy("task")
  /\ recipe.enabled
  /\ \/ ~Off(recipe) /\ Start("task", InSeason)
     \/ /\ Off(recipe)
        /\ recipe.window # "keep"
        /\ Applied # recipe.window
        /\ Start("task", OutOfSeason)
  /\ UNCHANGED left

\* "Run now" asks neither whether the recipe is enabled nor who else runs it.
RunNow ==
  /\ ~Busy("manual")
  /\ Spend("manual")
  /\ \/ ~Off(recipe) /\ Start("manual", InSeason)
     \/ /\ Off(recipe)
        /\ recipe.window # "keep"
        /\ Start("manual", OutOfSeason)
     \/ /\ Off(recipe)
        /\ recipe.window = "keep"
        /\ recipe' = [recipe EXCEPT !.summary = Summary("dormant", {})]
        /\ runs' = Disturbed
        /\ UNCHANGED <<set, catalog, season, plex, born, whole>>

\* The row gets the outcome of the run: the keys only if all went well, and of
\* a set they were stored with the definition.
Finish(r) ==
  LET run == runs[r]
      set_ == run.mode = "set" /\ run.job = "ok"
  IN  /\ run.pc = "finish"
      /\ recipe' = [recipe EXCEPT
                      !.summary = Summary(run.job, IF set_ THEN run.done ELSE {}),
                      !.keys = IF run.job = "error" \/ set_ THEN @ ELSE run.keys]
      /\ UNCHANGED plex
      /\ Goes(r, Idle)
      /\ UNCHANGED <<set, catalog, season, born, left, whole>>

\* A set stores the definition it ran with, and what it manages now.
RecordSet(r) ==
  LET run == runs[r]
  IN  /\ run.pc = "record"
      /\ recipe' = [recipe EXCEPT !.mode = "set", !.pattern = run.pattern,
                                  !.managed = run.done, !.keys = run.keys]
      /\ UNCHANGED plex
      /\ Goes(r, [run EXCEPT !.pc = "finish"])
      /\ UNCHANGED <<set, catalog, season, born, left, whole>>

\* A Plex call or a source fails, or the title is taken by a shelf without a
\* mark: the run ends with an error, and what it has done so far stays done.
Error(run) == [run EXCEPT !.pc = "finish", !.job = "error"]
CutShort(run) == whole' = (whole /\ ~(run.mode = "set" /\ run.job = "ok"))
FirstTitle(S) == CHOOSE t \in S : \A u \in S : t[2] <= u[2]

\* Evaluate the next title and look for its shelf.
Look(r) ==
  LET run == runs[r]
      t == FirstTitle(run.todo)
      known == Known(run.keys, t)
      taken == known = None /\ Titled(t) # {}
  IN  /\ run.pc = "look"
      /\ run.todo # {}
      /\ UNCHANGED <<plex, recipe>>
      /\ IF taken /\ ~run.adopt
         THEN Goes(r, Error(run)) /\ CutShort(run)
         ELSE /\ Goes(r, [run EXCEPT !.pc = "write",
                           !.found = IF taken THEN First(Titled(t)) ELSE known,
                           !.want = IF run.job = "ok" THEN Resolved(t[2]) ELSE {}])
              /\ UNCHANGED whole
      /\ UNCHANGED <<set, catalog, season, born, left>>

Written(run, t, key) ==
  [run EXCEPT !.pc = "look", !.todo = @ \ {t}, !.done = @ \cup {t},
              !.keys[t] = key, !.found = None, !.want = {}]

\* Create the shelf, unless it would be empty.  Marking it is best effort.
Create(r) ==
  LET run == runs[r]
      t == FirstTitle(run.todo)
  IN  /\ run.pc = "write"
      /\ run.found = None
      /\ \/ /\ run.want = {}
            /\ UNCHANGED <<plex, born, recipe, left>>
            /\ Goes(r, Written(run, t, None))
         \/ /\ run.want # {}
            /\ \E marked \in BOOLEAN :
                 /\ IF marked THEN UNCHANGED left ELSE Spend("fail")
                 /\ NewShelf(Shelf(t, run.want, marked, TRUE))
            /\ UNCHANGED recipe
            /\ Goes(r, Written(run, t, born'))
      /\ UNCHANGED <<set, catalog, season, whole>>

\* The shelf that was found is updated, if it is still there.
Update(r) ==
  LET run == runs[r]
      t == FirstTitle(run.todo)
      k == run.found
  IN  /\ run.pc = "write"
      /\ k # None
      /\ \/ /\ k \in Live
            /\ plex' = [plex EXCEPT ![k] = Updated(@, run.want)]
            /\ UNCHANGED recipe
            /\ Goes(r, Written(run, t, k))
            /\ UNCHANGED <<left, whole>>
         \/ /\ k \in Live         \* added, but not removed
            /\ Spend("fail")
            /\ plex' = [plex EXCEPT ![k].items = @ \cup run.want, ![k].owned = TRUE]
            /\ UNCHANGED recipe
            /\ Goes(r, Error(run))
            /\ CutShort(run)
         \/ /\ k \notin Live
            /\ UNCHANGED <<plex, recipe, left>>
            /\ Goes(r, Error(run))
            /\ CutShort(run)
      /\ UNCHANGED <<set, catalog, season, born>>

\* Delete a marked shelf: one the set no longer has, or all of them when the
\* season is over.
Drop(r) ==
  LET run == runs[r]
      t == FirstTitle(run.drop)
      k == Known(run.keys, t)
  IN  /\ run.pc = "look"
      /\ run.todo = {}
      /\ run.drop # {}
      /\ plex' = IF k = None THEN plex ELSE [plex EXCEPT ![k] = Gone]
      /\ UNCHANGED recipe
      /\ Goes(r, [run EXCEPT !.drop = @ \ {t}, !.keys[t] = None])
      /\ UNCHANGED <<set, catalog, season, born, left, whole>>

Close(r) ==
  LET run == runs[r]
  IN  /\ run.pc = "look"
      /\ run.todo = {}
      /\ run.drop = {}
      /\ UNCHANGED <<plex, recipe>>
      /\ Goes(r, [run EXCEPT !.pc = IF run.mode = "set" /\ run.job = "ok"
                                    THEN "record" ELSE "finish"])
      /\ UNCHANGED <<set, catalog, season, born, left, whole>>

Fail(r) ==
  /\ runs[r].pc \in {"look", "write"}
  /\ runs[r].todo \cup runs[r].drop # {}
  /\ Spend("fail")
  /\ runs' = [runs EXCEPT ![r] = Error(runs[r])]
  /\ CutShort(runs[r])
  /\ UNCHANGED <<set, recipe, catalog, season, plex, born>>

Step(r) == \/ Look(r) \/ Create(r) \/ Update(r) \/ Drop(r)
           \/ Close(r) \/ RecordSet(r) \/ Finish(r)

-----------------------------------------------------------------------------
(* The rest of the world.                                                    *)

\* The process ends; runs are daemon threads.
Crash ==
  /\ \E r \in Runners : Busy(r)
  /\ Spend("crash")
  /\ runs' = [r \in Runners |-> Idle]
  /\ whole' = FALSE
  /\ UNCHANGED <<set, recipe, catalog, season, plex, born>>

\* PUT: the form carries back what the definition manages; the keys and the
\* last summary are not part of it.
Edit ==
  /\ Spend("edit")
  /\ \E p \in Patterns, a \in BOOLEAN, e \in BOOLEAN :
       /\ recipe' = [recipe EXCEPT !.pattern = p, !.adopt = a, !.enabled = e]
       /\ recipe' # recipe
  /\ whole' = (whole /\ (recipe'.pattern # recipe.pattern =>
                             recipe.mode = "set" /\ \A r \in Runners : ~Busy(r)))
  /\ runs' = Disturbed
  /\ UNCHANGED <<set, catalog, season, plex, born>>

CatalogChanges ==
  /\ Spend("catalog")
  /\ \E i \in Items, vs \in (SUBSET Values) \cup {Untracked} :
       /\ vs # catalog[i]
       /\ catalog' = [catalog EXCEPT ![i] = vs]
  /\ runs' = Disturbed
  /\ UNCHANGED <<set, recipe, season, plex, born, whole>>

SeasonTurns ==
  /\ recipe.window # "none"
  /\ Spend("season")
  /\ season' = ~season
  /\ UNCHANGED <<set, recipe, catalog, plex, born, runs, whole>>

\* The user makes a shelf of that name or deletes one.
UserInPlex ==
  /\ Spend("user")
  /\ \/ \E v \in Values :
          NewShelf(Shelf(<<recipe.pattern, v>>, {Min(Items)}, FALSE, FALSE))
     \/ \E k \in Live : plex' = [plex EXCEPT ![k] = Gone] /\ UNCHANGED born
  /\ runs' = Disturbed
  /\ UNCHANGED <<set, recipe, catalog, season, whole>>

-----------------------------------------------------------------------------
Next ==
  \/ Tick
  \/ RunNow
  \/ \E r \in Runners : Step(r) \/ Fail(r)
  \/ Crash
  \/ Edit
  \/ CatalogChanges
  \/ SeasonTurns
  \/ UserInPlex

Spec == Init /\ [][Next]_vars

FairSpec == Spec /\ WF_vars(Tick) /\ \A r \in Runners : WF_vars(Step(r))

-----------------------------------------------------------------------------
Shelves == [title : Titles, items : SUBSET Items, owned : BOOLEAN, made : BOOLEAN]
Summaries == [status : {"never", "dormant", "ok", "cleared", "removed", "error"},
              titles : SUBSET Titles]
Rows == [mode : {"single", "set"}, pattern : Patterns, adopt : BOOLEAN,
         window : Windows, enabled : BOOLEAN, keys : [Titles -> Keys \cup {None}],
         managed : SUBSET Titles, summary : Summaries]
Runs == [pc : {"look", "write", "record", "finish"},
         job : {"ok", "cleared", "removed", "error"}, mode : {"single", "set"},
         pattern : Patterns, adopt : BOOLEAN, keys : [Titles -> Keys \cup {None}],
         todo : SUBSET Titles, drop : SUBSET Titles, done : SUBSET Titles,
         found : Keys \cup {None}, want : SUBSET Items, quiet : BOOLEAN]

\* Every variable keeps its type.
TypeOK ==
  /\ set \in Settings
  /\ recipe \in Rows
  /\ catalog \in Catalogs
  /\ season \in BOOLEAN
  /\ plex \in [Keys -> Shelves \cup {Gone}]
  /\ born \in 0..MaxShelves
  /\ runs \in [Runners -> Runs \cup {Idle}]
  /\ left \in Budgets
  /\ whole \in BOOLEAN

\* A recipe without a limit that selects more than the cap.
BeyondCap(v) ==
  set.limit = None /\ Cardinality(Pinned(Filtered(v))) > MaxItems

\* What the user asks of a title and what the builder answers agree: a title
\* that the stage by stage verdict says is in the collection is one a run puts
\* there, and the other way round, unless the recipe has no limit and selects
\* more than the explanation's cap.
ExplainAgrees ==
  recipe.mode # "set" =>
    /\ \A i \in Items : Explained(Main, i) => i \in Resolved(Main)
    /\ ~BeyondCap(Main) => \A i \in Resolved(Main) : Explained(Main, i)

\* A run that nothing came in the way of and that reports success leaves the
\* shelves the recipe asks for: the one of every title, and exactly its items;
\* a title without a shelf has nothing to show.
QuietRunSyncs ==
  \A r \in Runners :
    LET run == runs[r]
        wanted == IF run.mode = "set"
                  THEN {<<run.pattern, v>> : v \in Children} ELSE run.done
    IN  Busy(r) /\ run.pc = "finish" /\ run.job = "ok" /\ run.quiet
          => /\ run.done = wanted
             /\ \A t \in wanted :
                  LET k == run.keys[t]
                  IN  IF k = None
                      THEN Owned(t) = {} /\ Resolved(t[2]) = {}
                      ELSE plex[k].title = t /\ plex[k].items = Resolved(t[2])

\* Between runs the row names every shelf that was made for the recipe, so that
\* each can still be emptied or deleted, and no title has two of them: as long
\* as no run of a set failed half way, no two runs overlapped, and no recipe was
\* renamed under its shelf.
NothingForgotten ==
  (whole /\ \A r \in Runners : ~Busy(r)) =>
    \A k \in Live :
      LET t == plex[k].title
      IN  plex[k].made =>
            /\ t \in Kept(recipe)
            /\ recipe.keys[t] = k \/ plex[k].owned
            /\ \A j \in Titled(t) : plex[j].made => j = k

\* A shelf the user made is touched by a run only if the recipe adopts.
UserShelvesKept ==
  [][\A k \in Live :
       plex'[k] # plex[k] /\ ~plex[k].made /\ ~plex[k].owned =>
         \/ left'.user < left.user
         \/ \E r \in Runners : runs[r].pc = "write" /\ runs[r].adopt]_vars

\* Once the season is over for good, the shelves are put away, emptied or
\* deleted as the recipe says, whatever of that failed before; unless a shelf of
\* the user's has taken one of the titles, which stops every attempt to empty
\* the others.
Blocked == recipe.window = "clear" /\ ~recipe.adopt /\
             \E t \in Kept(recipe) : Known(recipe.keys, t) = None /\ Titled(t) # {}
PutAway ==
  \A k \in Live : plex[k].owned =>
    recipe.window = "clear" /\ plex[k].items = {}
SeasonEnds ==
  <>[](Off(recipe) /\ recipe.enabled /\ recipe.window # "keep" /\ whole /\ ~Blocked)
    => <>[]PutAway

-----------------------------------------------------------------------------
(* What the documentation says and the code does not do *)

\* engine.py:2086: "Trace one title through the pipeline".  Of a recipe without a
\* limit the pipeline takes every title, the trace only the first, up to its cap.
ExplainIsExact ==
  recipe.mode # "set" =>
    \A i \in Items : Explained(Main, i) <=> i \in Resolved(Main)

\* CHANGELOG.md:372: "Sync no longer creates a second Plex collection with the
\* same name in a library".  Two runs that overlap do: both look before either
\* has created.
NoTwins == \A k \in Live : plex[k].made /\ plex[k].owned =>
             \A j \in Owned(plex[k].title) : plex[j].made => j = k

\* What the user saves stays saved: the run of a set that began before puts the
\* old definition back when it stores what it manages.
EditsSurvive == [][left'.edit = left.edit => recipe'.pattern = recipe.pattern]_vars

\* CHANGELOG.md:334: "When dormant, a recipe can delete Placeholdarr-owned Plex
\* collections", with no word of runs that failed or overlapped before.
SeasonAlwaysEnds ==
  <>[](Off(recipe) /\ recipe.enabled /\ recipe.window # "keep") => <>[]PutAway
=============================================================================
