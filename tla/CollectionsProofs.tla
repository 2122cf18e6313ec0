-------------------------- MODULE CollectionsProofs --------------------------
(***************************************************************************)
(* What the run checks of one recipe under nine settings , for any         *)
(* settings, catalogs and budgets: the shelves the user made are left      *)
(* alone, a run that nothing came in the way of leaves what was asked for, *)
(* no shelf made for the recipe is forgotten, and the explanation of a     *)
(* title agrees with what a run does with it.                              *)
(***************************************************************************)
EXTENDS Collections, FiniteSetTheorems, WellFoundedInduction, TLAPS

USE ItemsAssumption, MinAssumption, SettingsAssumption

-----------------------------------------------------------------------------
(***************************************************************************)
(* The least element of a set of numbers, and what follows of the operators *)
(* that choose one.  A finite set without one would have a least such      *)
(* subset.                                                                 *)
(***************************************************************************)

HasMin(S) == \E x \in S : \A y \in S : x <= y

LEMMA FiniteMin ==
  ASSUME NEW S \in SUBSET Nat, IsFiniteSet(S), S # {}
  PROVE  HasMin(S)
<1> DEFINE Bad == {A \in SUBSET S : A # {} /\ ~ HasMin(A)}
<1> SUFFICES ASSUME Bad # {} PROVE FALSE
  BY DEF HasMin
<1>1. Bad \subseteq FiniteSubsetsOf(S)
  BY FS_FiniteSubsetsOfFinite
<1>2. IsWellFoundedOn(StrictSubsetOrdering(S), FiniteSubsetsOf(S))
  BY FS_StrictSubsetOrderingWellFounded
<1> HIDE DEF Bad
<1>3. PICK A \in Bad : \A B \in Bad : <<B, A>> \notin StrictSubsetOrdering(S)
  BY <1>1, <1>2, WFMin, SMT
<1> USE DEF Bad
<1>4. PICK x \in A : TRUE
  BY <1>3
<1>5. A \ {x} \notin Bad
  <2>1. <<A \ {x}, A>> \in StrictSubsetOrdering(S)
    BY <1>4 DEF StrictSubsetOrdering
  <2> QED
    BY <1>3, <2>1
<1>6. CASE A = {x}
  BY <1>6 DEF HasMin
<1>7. CASE HasMin(A \ {x})
  <2>1. PICK y \in A \ {x} : \A z \in A \ {x} : y <= z
    BY <1>7 DEF HasMin
  <2>2. x \in Nat /\ y \in Nat
    BY <1>4, <2>1
  <2>3. CASE y <= x
    BY <2>1, <2>3 DEF HasMin
  <2>4. CASE x < y
    <3>1. \A z \in A : x <= z
      BY <2>1, <2>2, <2>4
    <3> QED
      BY <1>4, <3>1 DEF HasMin
  <2> QED
    BY <2>2, <2>3, <2>4
<1> QED
  BY <1>4, <1>5, <1>6, <1>7

LEMMA MinExists ==
  ASSUME NEW S \in SUBSET Nat, S # {}
  PROVE  HasMin(S)
<1>1. PICK n \in S : TRUE
  OBVIOUS
<1> DEFINE T == S \cap (0..n)
<1>2. T # {} /\ T \in SUBSET Nat
  BY <1>1
<1>3. IsFiniteSet(0..n)
  <2>1. 0 \in Int /\ n \in Int
    OBVIOUS
  <2> QED
    BY <2>1, FS_Interval
<1>4. IsFiniteSet(T)
  BY <1>3, FS_Subset
<1>5. PICK x \in T : \A y \in T : x <= y
  BY <1>2, <1>4, FiniteMin DEF HasMin
<1> QED
  BY <1>5 DEF HasMin

LEMMA MinIn == ASSUME NEW S \in SUBSET Nat, S # {} PROVE Min(S) \in S
BY MinExists DEF Min, HasMin

LEMMA MainIn == Main \in Values
<1>1. Values \in SUBSET Nat /\ Values # {}
  BY ItemsAssumption
<1> QED
  BY <1>1, MinIn DEF Main

LEMMA FirstTitleIn ==
  ASSUME NEW S \in SUBSET Titles, S # {}
  PROVE  FirstTitle(S) \in S
<1>1. PICK t \in S : \A u \in S : t[2] <= u[2]
  <2>1. {t[2] : t \in S} \in SUBSET Nat
    BY DEF Titles
  <2>2. {t[2] : t \in S} # {}
    OBVIOUS
  <2>3. PICK x \in {t[2] : t \in S} : \A y \in {t[2] : t \in S} : x <= y
    BY <2>1, <2>2, MinExists DEF HasMin
  <2> QED
    BY <2>3
<1> QED
  BY <1>1 DEF FirstTitle

LEMMA KeysAreNats == Keys \subseteq Nat \ {0} /\ None \notin Keys
BY DEF Keys, None

LEMMA FirstIn ==
  ASSUME NEW S \in SUBSET Keys
  PROVE  /\ S = {} => First(S) = None
         /\ S # {} => First(S) \in S
<1>1. S # {} => Min(S) \in S
  BY KeysAreNats, MinIn
<1> QED
  BY <1>1 DEF First

\* The shelf that resolve_owned_collection finds is there, and is named by its
\* key or marked and of that title; it finds none only if there is none.
LEMMA KnownIs ==
  ASSUME NEW keys, NEW t
  PROVE  /\ Known(keys, t) = None => keys[t] \notin Live /\ Owned(t) = {}
         /\ Known(keys, t) # None => /\ Known(keys, t) \in Live
                                     /\ Known(keys, t) = keys[t] \/ Known(keys, t) \in Owned(t)
<1>1. Owned(t) \in SUBSET Keys /\ Owned(t) \subseteq Live /\ None \notin Live
  BY KeysAreNats DEF Owned, Titled, Live
<1> QED
  BY <1>1, FirstIn DEF Known

LEMMA TakenIs ==
  ASSUME NEW t, Titled(t) # {}
  PROVE  First(Titled(t)) \in Titled(t)
BY FirstIn DEF Titled, Live

\* Shelves are not Gone.
LEMMA ShelvesLive == \A s \in Shelves : s # Gone
BY DEF Shelves, Gone, Titles, NoTitle, None

LEMMA LiveShelf ==
  ASSUME TypeOK, NEW k \in Live
  PROVE  k \in Keys /\ plex[k] \in Shelves
BY DEF TypeOK, Live

-----------------------------------------------------------------------------
(***************************************************************************)
(* Types.                                                                  *)
(***************************************************************************)

LEMMA ResolvedType == ASSUME NEW v PROVE Resolved(v) \in SUBSET Items
BY DEF Resolved, Selected, Limited, Pinned, Filtered, InOrder, Tracked

LEMMA IdleIsNoRun == Idle \notin Runs
BY DEF Idle, Runs

\* A busy thread has a run.
LEMMA BusyRun ==
  ASSUME TypeOK, NEW r \in Runners
  PROVE  Busy(r) <=> runs[r] \in Runs
<1>1. runs[r] \in Runs \cup {Idle}
  BY DEF TypeOK
<1> QED
  BY <1>1 DEF Busy, Idle, Runs

LEMMA DisturbedType ==
  ASSUME TypeOK
  PROVE  /\ Disturbed \in [Runners -> Runs \cup {Idle}]
         /\ \A r \in Runners : ~ Busy(r) => Disturbed[r] = runs[r]
         /\ \A r \in Runners : Busy(r) =>
              /\ Disturbed[r] = [runs[r] EXCEPT !.quiet = FALSE]
              /\ Disturbed[r] \in Runs
<1>1. ASSUME NEW r \in Runners, Busy(r) PROVE [runs[r] EXCEPT !.quiet = FALSE] \in Runs
  BY <1>1, BusyRun DEF Runs
<1>2. \A r \in Runners : ~ Busy(r) => runs[r] \in Runs \cup {Idle}
  BY DEF TypeOK
<1> QED
  BY <1>1, <1>2 DEF Disturbed

\* What Goes does to the threads: r goes on as to, and another run is as before
\* but not undisturbed if shelves or the row changed.
LEMMA GoesTo ==
  ASSUME TypeOK, NEW r \in Runners, NEW to \in Runs \cup {Idle}, Goes(r, to)
  PROVE  /\ runs' \in [Runners -> Runs \cup {Idle}]
         /\ runs'[r] = to
         /\ \A o \in Runners \ {r} :
              \/ runs'[o] = runs[o] /\ (Busy(o) => plex' = plex /\ recipe' = recipe)
              \/ Busy(o) /\ runs'[o] = [runs[o] EXCEPT !.quiet = FALSE]
<1>1. CASE plex' = plex /\ recipe' = recipe
  <2>1. runs' = [runs EXCEPT ![r] = to]
    BY <1>1 DEF Goes
  <2> QED
    BY <1>1, <2>1 DEF TypeOK
<1>2. CASE ~ (plex' = plex /\ recipe' = recipe)
  <2>1. runs' = [Disturbed EXCEPT ![r] = to]
    BY <1>2 DEF Goes
  <2> QED
    BY <1>2, <2>1, DisturbedType
<1> QED
  BY <1>1, <1>2

LEMMA ErrorType == ASSUME NEW run \in Runs PROVE Error(run) \in Runs
BY DEF Error, Runs

LEMMA WrittenType ==
  ASSUME NEW run \in Runs, NEW t \in Titles, NEW key \in Keys \cup {None}
  PROVE  Written(run, t, key) \in Runs
<1> DEFINE keys == [run.keys EXCEPT ![t] = key]
<1>1. keys \in [Titles -> Keys \cup {None}]
  BY DEF Runs
<1>2. Written(run, t, key) = [run EXCEPT !.pc = "look", !.todo = run.todo \ {t}, !.done = run.done \cup {t},
                                         !.keys = keys, !.found = None, !.want = {}]
  BY DEF Written, Runs
<1> HIDE DEF keys
<1>3. run.todo \ {t} \in SUBSET Titles /\ run.done \cup {t} \in SUBSET Titles
  BY DEF Runs
<1> QED
  BY <1>1, <1>2, <1>3 DEF Runs

LEMMA BeginType ==
  ASSUME TypeOK, NEW job \in {"ok", "cleared", "removed", "error"},
         NEW todo \in SUBSET Titles, NEW drop \in SUBSET Titles
  PROVE  Begin(job, todo, drop) \in Runs
BY DEF TypeOK, Rows, Runs, Begin

LEMMA ManagedType == ASSUME TypeOK PROVE Managed(recipe) \in SUBSET Titles
BY DEF TypeOK, Rows, Summaries, Managed

LEMMA KeptType == ASSUME TypeOK PROVE Title(recipe) \in Titles /\ Kept(recipe) \in SUBSET Titles
<1>1. Title(recipe) \in Titles
  BY MainIn DEF TypeOK, Rows, Title, Titles
<1> QED
  BY <1>1, ManagedType DEF Kept

LEMMA StartType ==
  ASSUME TypeOK
  PROVE  InSeason \in Runs /\ OutOfSeason \in Runs
<1>1. {<<recipe.pattern, v>> : v \in Children} \in SUBSET Titles
  BY DEF TypeOK, Rows, Titles, Children
<1>2. InSeason \in Runs
  BY <1>1, BeginType, KeptType, ManagedType DEF InSeason
<1>3. OutOfSeason \in Runs
  BY BeginType, KeptType DEF OutOfSeason
<1> QED
  BY <1>2, <1>3

LEMMA InitType == Init => TypeOK
<1> SUFFICES ASSUME Init PROVE TypeOK
  OBVIOUS
<1>1. Min(Patterns) \in Patterns
  BY MinIn
<1>2. Summary("never", {}) \in Summaries
  BY DEF Summary, Summaries
<1>3. recipe \in Rows
  BY <1>1, <1>2 DEF Init, Rows
<1>4. runs \in [Runners -> Runs \cup {Idle}]
  BY DEF Init
<1>5. catalog \in Catalogs /\ left \in Budgets
  BY DEF Init
<1> QED
  BY <1>3, <1>4, <1>5 DEF Init, TypeOK

\* What is spent was left.
LEMMA SpendType ==
  ASSUME TypeOK, NEW what \in {"catalog", "season", "user", "fail", "edit", "manual", "crash"}, Spend(what)
  PROVE  left' \in Budgets /\ left'[what] < left[what]
BY DEF TypeOK, Spend, Budgets

LEMMA NewShelfType ==
  ASSUME TypeOK, NEW shelf \in Shelves, NewShelf(shelf)
  PROVE  /\ born' = born + 1 /\ born' \in Keys /\ born' \in 0..MaxShelves
         /\ plex' = [plex EXCEPT ![born'] = shelf]
         /\ plex' \in [Keys -> Shelves \cup {Gone}]
BY DEF TypeOK, NewShelf, Keys

LEMMA UpdatedType ==
  ASSUME NEW shelf \in Shelves, NEW want \in SUBSET Items
  PROVE  /\ Updated(shelf, want) \in Shelves
         /\ [shelf EXCEPT !.items = @ \cup want, !.owned = TRUE] \in Shelves
BY DEF Updated, Shelves

LEMMA RunFields ==
  ASSUME NEW run \in Runs
  PROVE  /\ run.pc \in {"look", "write", "record", "finish"}
         /\ run.job \in {"ok", "cleared", "removed", "error"}
         /\ run.todo \in SUBSET Titles /\ run.drop \in SUBSET Titles /\ run.done \in SUBSET Titles
         /\ run.found \in Keys \cup {None} /\ run.want \in SUBSET Items
         /\ run.keys \in [Titles -> Keys \cup {None}] /\ run.pattern \in Patterns
         /\ run.mode \in {"single", "set"} /\ run.adopt \in BOOLEAN /\ run.quiet \in BOOLEAN
BY DEF Runs

\* A thread that is about to write has a title to write.
Writing == \A r \in Runners : runs[r].pc = "write" => runs[r].todo # {}

Typed == TypeOK /\ Writing

LEMMA WriteTitle ==
  ASSUME Typed, NEW r \in Runners, runs[r].pc = "write"
  PROVE  runs[r] \in Runs /\ FirstTitle(runs[r].todo) \in runs[r].todo
                         /\ FirstTitle(runs[r].todo) \in Titles
<1>1. runs[r] \in Runs
  BY BusyRun DEF Typed, Busy
<1>2. runs[r].todo \in SUBSET Titles /\ runs[r].todo # {}
  BY <1>1, RunFields DEF Typed, Writing
<1> QED
  BY <1>1, <1>2, FirstTitleIn

LEMMA GoesType ==
  ASSUME TypeOK, NEW r \in Runners, NEW to \in Runs \cup {Idle}, Goes(r, to),
         set' = set, catalog' = catalog, season' = season,
         recipe' \in Rows, plex' \in [Keys -> Shelves \cup {Gone}], born' \in 0..MaxShelves,
         left' \in Budgets, whole' \in BOOLEAN
  PROVE  TypeOK'
BY GoesTo DEF TypeOK

LEMMA LookType == ASSUME TypeOK, NEW r \in Runners, Look(r) PROVE TypeOK'
<1> DEFINE run == runs[r]
           t == FirstTitle(run.todo)
           to == [run EXCEPT !.pc = "write",
                    !.found = IF Known(run.keys, t) = None /\ Titled(t) # {}
                                THEN First(Titled(t)) ELSE Known(run.keys, t),
                    !.want = IF run.job = "ok" THEN Resolved(t[2]) ELSE {}]
<1>1. run \in Runs
  BY BusyRun DEF Look, Busy
<1>2. Error(run) \in Runs
  BY <1>1, ErrorType
<1>3. to \in Runs
  <2>1. /\ First(Titled(t)) \in Keys \cup {None}
        /\ Known(run.keys, t) \in Keys \cup {None}
    BY FirstIn, KnownIs DEF Titled, Live
  <2>2. Resolved(t[2]) \in SUBSET Items
    BY ResolvedType
  <2> QED
    BY <1>1, <2>1, <2>2 DEF Runs
<1>4. whole' \in BOOLEAN
  BY DEF Look, CutShort, TypeOK
<1>5. Goes(r, Error(run)) \/ Goes(r, to)
  BY DEF Look
<1>6. UNCHANGED <<set, catalog, season, born, left, plex, recipe>>
  BY DEF Look
<1> HIDE DEF to, run
<1> QED
  BY <1>2, <1>3, <1>4, <1>5, <1>6, GoesType DEF TypeOK

LEMMA CreateType == ASSUME Typed, NEW r \in Runners, Create(r) PROVE TypeOK'
<1> DEFINE run == runs[r]
           t == FirstTitle(run.todo)
<1> USE DEF Typed
<1>1. run \in Runs /\ t \in Titles
  BY WriteTitle DEF Create
<1>2. UNCHANGED <<set, catalog, season, whole, recipe>>
  BY DEF Create
<1>3. CASE run.want = {} /\ UNCHANGED <<plex, born, recipe, left>> /\ Goes(r, Written(run, t, None))
  <2>1. Written(run, t, None) \in Runs
    BY <1>1, WrittenType
  <2> HIDE DEF run, t
  <2> QED
    BY <1>2, <1>3, <2>1, GoesType DEF TypeOK
<1>4. ASSUME NEW marked \in BOOLEAN,
             IF marked THEN UNCHANGED left ELSE Spend("fail"),
             NewShelf(Shelf(t, run.want, marked, TRUE)),
             Goes(r, Written(run, t, born'))
      PROVE  TypeOK'
  <2>1. Shelf(t, run.want, marked, TRUE) \in Shelves
    BY <1>1 DEF Shelf, Shelves, Runs
  <2>2. born' \in Keys /\ born' \in 0..MaxShelves /\ plex' \in [Keys -> Shelves \cup {Gone}]
    BY <1>4, <2>1, NewShelfType
  <2>3. Written(run, t, born') \in Runs
    BY <1>1, <2>2, WrittenType
  <2>4. left' \in Budgets
    BY <1>4, SpendType DEF TypeOK
  <2> HIDE DEF run, t
  <2> QED
    BY <1>2, <1>4, <2>2, <2>3, <2>4, GoesType DEF TypeOK
<1> QED
  BY <1>3, <1>4 DEF Create

LEMMA UpdateType == ASSUME Typed, NEW r \in Runners, Update(r) PROVE TypeOK'
<1> DEFINE run == runs[r]
           t == FirstTitle(run.todo)
           k == run.found
<1> USE DEF Typed
<1>1. run \in Runs /\ t \in Titles
  BY WriteTitle DEF Update
<1>2. UNCHANGED <<set, catalog, season, born, recipe>> /\ k # None
  BY DEF Update
<1>3. k \in Keys /\ run.want \in SUBSET Items
  BY <1>1, <1>2, RunFields
<1>4. Written(run, t, k) \in Runs /\ Error(run) \in Runs
  BY <1>1, <1>3, WrittenType, ErrorType
<1>5. CASE k \in Live /\ plex' = [plex EXCEPT ![k] = Updated(@, run.want)]
           /\ Goes(r, Written(run, t, k)) /\ UNCHANGED <<left, whole>>
  <2>1. plex[k] \in Shelves
    BY <1>5, LiveShelf
  <2>2. Updated(plex[k], run.want) \in Shelves
    BY <1>3, <2>1, UpdatedType
  <2>3. plex' \in [Keys -> Shelves \cup {Gone}]
    BY <1>3, <1>5, <2>2 DEF TypeOK
  <2> HIDE DEF run, t, k
  <2> QED
    BY <1>2, <1>4, <1>5, <2>3, GoesType DEF TypeOK
<1>6. CASE k \in Live /\ Spend("fail") /\ CutShort(run) /\ Goes(r, Error(run))
           /\ plex' = [plex EXCEPT ![k].items = @ \cup run.want, ![k].owned = TRUE]
  <2>1. plex[k] \in Shelves
    BY <1>6, LiveShelf
  <2>2. [plex[k] EXCEPT !.items = @ \cup run.want, !.owned = TRUE] \in Shelves
    BY <1>3, <2>1, UpdatedType
  <2>3. plex' = [plex EXCEPT ![k] = [plex[k] EXCEPT !.items = @ \cup run.want, !.owned = TRUE]]
    BY <1>3, <1>6 DEF TypeOK
  <2>4. plex' \in [Keys -> Shelves \cup {Gone}]
    BY <2>2, <2>3 DEF TypeOK
  <2>5. left' \in Budgets /\ whole' \in BOOLEAN
    BY <1>6, SpendType DEF CutShort
  <2> HIDE DEF run, t, k
  <2> QED
    BY <1>2, <1>4, <1>6, <2>4, <2>5, GoesType DEF TypeOK
<1>7. CASE UNCHANGED <<plex, recipe, left>> /\ Goes(r, Error(run)) /\ CutShort(run)
  <2>1. whole' \in BOOLEAN
    BY <1>7 DEF CutShort
  <2> HIDE DEF run, t, k
  <2> QED
    BY <1>2, <1>4, <1>7, <2>1, GoesType DEF TypeOK
<1> QED
  BY <1>5, <1>6, <1>7 DEF Update

\* A run that looks for titles, or for shelves to drop, or that ends.
LEMMA LookRun ==
  ASSUME TypeOK, NEW r \in Runners, runs[r].pc \in {"look", "write", "record", "finish"}
  PROVE  runs[r] \in Runs
BY BusyRun DEF Busy

LEMMA DropType == ASSUME Typed, NEW r \in Runners, Drop(r) PROVE TypeOK'
<1> USE DEF Typed
<1> DEFINE run == runs[r]
           t == FirstTitle(run.drop)
           k == Known(run.keys, t)
           to == [run EXCEPT !.drop = @ \ {t}, !.keys[t] = None]
<1>1. run \in Runs /\ run.drop \in SUBSET Titles /\ run.drop # {}
  BY LookRun, RunFields DEF Drop
<1>2. t \in Titles
  BY <1>1, FirstTitleIn
<1>3. to \in Runs
  <2>1. [run.keys EXCEPT ![t] = None] \in [Titles -> Keys \cup {None}]
    BY <1>1, <1>2, RunFields
  <2>2. to = [run EXCEPT !.drop = run.drop \ {t}, !.keys = [run.keys EXCEPT ![t] = None]]
    BY <1>1 DEF Runs
  <2> QED
    BY <1>1, <2>1, <2>2 DEF Runs
<1>4. plex' \in [Keys -> Shelves \cup {Gone}]
  BY DEF Drop, TypeOK
<1>5. Goes(r, to) /\ UNCHANGED <<set, recipe, catalog, season, born, left, whole>>
  BY DEF Drop
<1> HIDE DEF to
<1> QED
  BY <1>3, <1>4, <1>5, GoesType DEF TypeOK

LEMMA CloseType == ASSUME Typed, NEW r \in Runners, Close(r) PROVE TypeOK'
<1> USE DEF Typed
<1> DEFINE run == runs[r]
           to == [run EXCEPT !.pc = IF run.mode = "set" /\ run.job = "ok" THEN "record" ELSE "finish"]
<1>1. run \in Runs
  BY LookRun DEF Close
<1>2. to \in Runs
  BY <1>1 DEF Runs
<1>3. Goes(r, to) /\ UNCHANGED <<set, recipe, catalog, season, plex, born, left, whole>>
  BY DEF Close
<1> HIDE DEF to
<1> QED
  BY <1>2, <1>3, GoesType DEF TypeOK

LEMMA RecordSetType == ASSUME Typed, NEW r \in Runners, RecordSet(r) PROVE TypeOK'
<1> USE DEF Typed
<1> DEFINE run == runs[r]
           to == [run EXCEPT !.pc = "finish"]
<1>1. run \in Runs
  BY LookRun DEF RecordSet
<1>2. to \in Runs
  BY <1>1 DEF Runs
<1>3. Goes(r, to) /\ UNCHANGED <<set, catalog, season, plex, born, left, whole>>
  BY DEF RecordSet
<1>4. recipe' \in Rows
  <2>1. recipe' = [recipe EXCEPT !.mode = "set", !.pattern = run.pattern,
                                 !.managed = run.done, !.keys = run.keys]
    BY DEF RecordSet
  <2> QED
    BY <1>1, <2>1, RunFields DEF TypeOK, Rows
<1> HIDE DEF to
<1> QED
  BY <1>2, <1>3, <1>4, GoesType DEF TypeOK

LEMMA FinishType == ASSUME Typed, NEW r \in Runners, Finish(r) PROVE TypeOK'
<1> USE DEF Typed
<1> DEFINE run == runs[r]
           set_ == run.mode = "set" /\ run.job = "ok"
           sum == Summary(run.job, IF set_ THEN run.done ELSE {})
           keys == IF run.job = "error" \/ set_ THEN recipe.keys ELSE run.keys
<1>1. run \in Runs
  BY LookRun DEF Finish
<1>2. sum \in Summaries
  BY <1>1, RunFields DEF Summary, Summaries
<1>3. keys \in [Titles -> Keys \cup {None}]
  BY <1>1, RunFields DEF TypeOK, Rows
<1>4. recipe' = [recipe EXCEPT !.summary = sum, !.keys = keys]
  BY DEF Finish, TypeOK, Rows
<1>5. Goes(r, Idle) /\ UNCHANGED <<set, catalog, season, plex, born, left, whole>>
  BY DEF Finish
<1> HIDE DEF sum, keys
<1>6. recipe' \in Rows
  BY <1>2, <1>3, <1>4 DEF TypeOK, Rows
<1> QED
  BY <1>5, <1>6, GoesType DEF TypeOK

LEMMA FailType == ASSUME Typed, NEW r \in Runners, Fail(r) PROVE TypeOK'
<1> USE DEF Typed
<1>1. runs[r] \in Runs
  BY LookRun DEF Fail
<1>2. Error(runs[r]) \in Runs
  BY <1>1, ErrorType
<1>3. left' \in Budgets /\ whole' \in BOOLEAN
  BY SpendType DEF Fail, CutShort
<1> QED
  BY <1>2, <1>3 DEF Fail, TypeOK

LEMMA StartTypes ==
  ASSUME Typed, NEW r \in Runners, NEW run \in {InSeason, OutOfSeason}, Start(r, run), left' \in Budgets
  PROVE  TypeOK'
<1>1. run \in Runs
  BY StartType DEF Typed
<1> QED
  BY <1>1 DEF Typed, TypeOK, Start

LEMMA TickType == ASSUME Typed, Tick PROVE TypeOK'
<1>1. left' \in Budgets
  BY DEF Tick, Typed, TypeOK
<1> QED
  BY <1>1, StartTypes DEF Tick, Runners

LEMMA RunNowType == ASSUME Typed, RunNow PROVE TypeOK'
<1>1. left' \in Budgets
  BY SpendType DEF RunNow, Typed
<1>2. CASE \E run \in {InSeason, OutOfSeason} : Start("manual", run)
  BY <1>1, <1>2, StartTypes DEF Runners
<1>3. CASE /\ recipe' = [recipe EXCEPT !.summary = Summary("dormant", {})]
           /\ runs' = Disturbed
           /\ UNCHANGED <<set, catalog, season, plex, born, whole>>
  <2>1. Summary("dormant", {}) \in Summaries
    BY DEF Summary, Summaries
  <2>2. recipe' \in Rows
    BY <1>3, <2>1 DEF Typed, TypeOK, Rows
  <2> QED
    BY <1>1, <1>3, <2>2, DisturbedType DEF Typed, TypeOK
<1> QED
  BY <1>2, <1>3 DEF RunNow

LEMMA WorldType ==
  ASSUME Typed, Crash \/ Edit \/ CatalogChanges \/ SeasonTurns \/ UserInPlex
  PROVE  TypeOK'
<1> USE DEF Typed
<1>1. CASE Crash
  <2>1. left' \in Budgets
    BY <1>1, SpendType DEF Crash
  <2> QED
    BY <1>1, <2>1 DEF Crash, TypeOK
<1>2. CASE Edit
  <2>1. left' \in Budgets
    BY <1>2, SpendType DEF Edit
  <2>2. recipe' \in Rows
    BY <1>2 DEF Edit, TypeOK, Rows
  <2>3. whole' \in BOOLEAN
    BY <1>2 DEF Edit
  <2>4. runs' = Disturbed /\ UNCHANGED <<set, catalog, season, plex, born>>
    BY <1>2 DEF Edit
  <2> QED
    BY <2>1, <2>2, <2>3, <2>4, DisturbedType DEF TypeOK
<1>3. CASE CatalogChanges
  <2>1. left' \in Budgets
    BY <1>3, SpendType DEF CatalogChanges
  <2>2. catalog' \in Catalogs
    BY <1>3 DEF CatalogChanges, TypeOK, Catalogs
  <2>3. runs' = Disturbed /\ UNCHANGED <<set, recipe, season, plex, born, whole>>
    BY <1>3 DEF CatalogChanges
  <2> QED
    BY <2>1, <2>2, <2>3, DisturbedType DEF TypeOK
<1>4. CASE SeasonTurns
  <2>1. left' \in Budgets
    BY <1>4, SpendType DEF SeasonTurns
  <2> QED
    BY <1>4, <2>1 DEF SeasonTurns, TypeOK
<1>5. CASE UserInPlex
  <2>1. left' \in Budgets
    BY <1>5, SpendType DEF UserInPlex
  <2>2. plex' \in [Keys -> Shelves \cup {Gone}] /\ born' \in 0..MaxShelves
    <3>1. ASSUME NEW v \in Values, NewShelf(Shelf(<<recipe.pattern, v>>, {Min(Items)}, FALSE, FALSE))
          PROVE  plex' \in [Keys -> Shelves \cup {Gone}] /\ born' \in 0..MaxShelves
      <4>1. Min(Items) \in Items
        BY MinIn
      <4>2. <<recipe.pattern, v>> \in Titles
        BY DEF TypeOK, Rows, Titles
      <4>3. Shelf(<<recipe.pattern, v>>, {Min(Items)}, FALSE, FALSE) \in Shelves
        BY <4>1, <4>2 DEF Shelf, Shelves
      <4> QED
        BY <3>1, <4>3, NewShelfType
    <3>2. ASSUME NEW k \in Live, plex' = [plex EXCEPT ![k] = Gone], UNCHANGED born
          PROVE  plex' \in [Keys -> Shelves \cup {Gone}] /\ born' \in 0..MaxShelves
      BY <3>2 DEF TypeOK
    <3> QED
      BY <1>5, <3>1, <3>2 DEF UserInPlex
  <2>3. runs' = Disturbed /\ UNCHANGED <<set, recipe, catalog, season, whole>>
    BY <1>5 DEF UserInPlex
  <2> QED
    BY <2>1, <2>2, <2>3, DisturbedType DEF TypeOK
<1> QED
  BY <1>1, <1>2, <1>3, <1>4, <1>5

\* Another run goes on as it was, and is not undisturbed if something changed.
SameRun(a, b) ==
  /\ b \in Runs /\ b.pc = a.pc /\ b.job = a.job /\ b.mode = a.mode /\ b.pattern = a.pattern
  /\ b.adopt = a.adopt /\ b.keys = a.keys /\ b.todo = a.todo /\ b.drop = a.drop
  /\ b.done = a.done /\ b.found = a.found /\ b.want = a.want

LEMMA DisturbedRun ==
  ASSUME NEW a \in Runs, NEW b, b = [a EXCEPT !.quiet = FALSE]
  PROVE  SameRun(a, b) /\ ~ b.quiet
BY DEF Runs, SameRun

LEMMA BusyHas == ASSUME NEW r \in Runners PROVE Busy(r) <=> runs[r].pc # "idle"
BY DEF Busy

LEMMA GoesOthers ==
  ASSUME TypeOK, NEW r \in Runners, NEW to \in Runs \cup {Idle}, Goes(r, to)
  PROVE  /\ runs'[r] = to
         /\ \A o \in Runners \ {r} :
              /\ Busy(o)' <=> Busy(o)
              /\ Busy(o) => /\ SameRun(runs[o], runs'[o])
                            /\ runs'[o].quiet => runs[o].quiet /\ plex' = plex /\ recipe' = recipe
<1>1. ASSUME NEW o \in Runners, o # r
      PROVE  /\ Busy(o)' <=> Busy(o)
             /\ Busy(o) => /\ SameRun(runs[o], runs'[o])
                           /\ runs'[o].quiet => runs[o].quiet /\ plex' = plex /\ recipe' = recipe
  <2>1. CASE runs'[o] = runs[o] /\ (Busy(o) => plex' = plex /\ recipe' = recipe)
    BY <2>1, BusyRun DEF SameRun, Busy
  <2>2. CASE Busy(o) /\ runs'[o] = [runs[o] EXCEPT !.quiet = FALSE]
    <3>1. runs[o] \in Runs
      BY <2>2, BusyRun
    <3>2. SameRun(runs[o], runs'[o]) /\ ~ runs'[o].quiet
      BY <2>2, <3>1, DisturbedRun
    <3> QED
      BY <2>2, <3>2 DEF SameRun, Busy
  <2> QED
    BY <1>1, <2>1, <2>2, GoesTo
<1> QED
  BY <1>1, GoesTo

LEMMA DisturbedOthers ==
  ASSUME TypeOK, runs' = Disturbed
  PROVE  \A o \in Runners : /\ Busy(o)' <=> Busy(o)
                            /\ Busy(o) => SameRun(runs[o], runs'[o]) /\ ~ runs'[o].quiet
<1> SUFFICES ASSUME NEW o \in Runners
             PROVE  /\ Busy(o)' <=> Busy(o)
                    /\ Busy(o) => SameRun(runs[o], runs'[o]) /\ ~ runs'[o].quiet
  OBVIOUS
<1>1. CASE Busy(o)
  <2>1. runs[o] \in Runs /\ runs'[o] = [runs[o] EXCEPT !.quiet = FALSE]
    BY <1>1, BusyRun, DisturbedType
  <2>2. SameRun(runs[o], runs'[o]) /\ ~ runs'[o].quiet
    BY <2>1, DisturbedRun
  <2> QED
    BY <1>1, <2>2 DEF SameRun, Busy
<1>2. CASE ~ Busy(o)
  <2>1. runs'[o] = runs[o]
    BY <1>2, DisturbedType
  <2> QED
    BY <1>2, <2>1 DEF Busy
<1> QED
  BY <1>1, <1>2

\* Only Look leaves a run about to write.
LEMMA WritingGoes ==
  ASSUME Typed, NEW r \in Runners, NEW to \in Runs \cup {Idle}, Goes(r, to),
         to.pc = "write" => to.todo # {}
  PROVE  Writing'
<1>1. ASSUME NEW o \in Runners, runs'[o].pc = "write" PROVE runs'[o].todo # {}
  <2>1. CASE o = r
    BY <1>1, <2>1, GoesOthers DEF Typed
  <2>2. CASE o # r
    BY <1>1, <2>2, GoesOthers DEF Typed, Writing, SameRun, Busy
  <2> QED
    BY <2>1, <2>2
<1> QED
  BY <1>1 DEF Writing

LEMMA WritingDisturbed == ASSUME Typed, runs' = Disturbed PROVE Writing'
BY DisturbedOthers DEF Typed, Writing, SameRun, Busy

LEMMA WrittenFields ==
  ASSUME NEW run \in Runs, NEW t \in Titles, NEW key \in Keys \cup {None}
  PROVE  LET w == Written(run, t, key)
         IN  /\ w \in Runs /\ w.pc = "look" /\ w.job = run.job /\ w.mode = run.mode
             /\ w.pattern = run.pattern /\ w.adopt = run.adopt /\ w.quiet = run.quiet
             /\ w.todo = run.todo \ {t} /\ w.done = run.done \cup {t} /\ w.drop = run.drop
             /\ w.keys[t] = key /\ \A u \in Titles \ {t} : w.keys[u] = run.keys[u]
<1> DEFINE keys == [run.keys EXCEPT ![t] = key]
           w == Written(run, t, key)
<1>1. w = [run EXCEPT !.pc = "look", !.todo = run.todo \ {t}, !.done = run.done \cup {t},
                      !.keys = keys, !.found = None, !.want = {}]
  BY DEF Written, Runs
<1>2. keys[t] = key /\ \A u \in Titles \ {t} : keys[u] = run.keys[u]
  BY RunFields
<1> HIDE DEF keys
<1>3. /\ w.pc = "look" /\ w.job = run.job /\ w.mode = run.mode
      /\ w.pattern = run.pattern /\ w.adopt = run.adopt /\ w.quiet = run.quiet
      /\ w.todo = run.todo \ {t} /\ w.done = run.done \cup {t} /\ w.drop = run.drop
      /\ w.keys = keys
  BY <1>1 DEF Runs
<1> QED
  BY <1>2, <1>3, WrittenType

LEMMA ErrorFields ==
  ASSUME NEW run \in Runs
  PROVE  LET w == Error(run)
         IN  /\ w \in Runs /\ w.pc = "finish" /\ w.job = "error" /\ w.mode = run.mode
             /\ w.pattern = run.pattern /\ w.adopt = run.adopt /\ w.quiet = run.quiet
             /\ w.todo = run.todo /\ w.done = run.done /\ w.drop = run.drop
             /\ w.keys = run.keys
BY DEF Error, Runs

LEMMA BeginFields ==
  ASSUME NEW job, NEW todo, NEW drop
  PROVE  LET w == Begin(job, todo, drop)
         IN  /\ w.pc = "look" /\ w.job = job /\ w.mode = recipe.mode /\ w.pattern = recipe.pattern
             /\ w.adopt = recipe.adopt /\ w.keys = recipe.keys /\ w.todo = todo /\ w.drop = drop
             /\ w.done = {}
BY DEF Begin

LEMMA IdleFields == Idle.pc = "idle"
BY DEF Idle

LEMMA WritingStep == ASSUME Typed, Next PROVE Writing'
<1>1. ASSUME NEW r \in Runners, Look(r) PROVE Writing'
  <2> DEFINE run == runs[r]
             found_ == IF Known(run.keys, FirstTitle(run.todo)) = None /\ Titled(FirstTitle(run.todo)) # {}
                         THEN First(Titled(FirstTitle(run.todo))) ELSE Known(run.keys, FirstTitle(run.todo))
             want_ == IF run.job = "ok" THEN Resolved(FirstTitle(run.todo)[2]) ELSE {}
             to == [run EXCEPT !.pc = "write", !.found = found_, !.want = want_]
  <2>1. run \in Runs /\ run.todo # {}
    BY <1>1, LookRun DEF Look, Typed
  <2>2. Goes(r, Error(run)) \/ Goes(r, to)
    BY <1>1 DEF Look
  <2>3. found_ \in Keys \cup {None} /\ want_ \in SUBSET Items
    BY FirstIn, KnownIs, ResolvedType DEF Titled, Live
  <2> HIDE DEF found_, want_
  <2>4. to \in Runs /\ to.todo = run.todo
    BY <2>1, <2>3 DEF Runs
  <2>5. Error(run) \in Runs /\ Error(run).pc = "finish"
    BY <2>1, ErrorFields
  <2> HIDE DEF to
  <2> QED
    BY <2>1, <2>2, <2>4, <2>5, WritingGoes
<1>2. ASSUME NEW r \in Runners, Create(r) \/ Update(r) PROVE Writing'
  <2> DEFINE run == runs[r]
  <2>1. run \in Runs /\ FirstTitle(run.todo) \in Titles
    BY <1>2, WriteTitle DEF Create, Update
  <2>2. \/ Goes(r, Error(run))
        \/ \E key \in Keys \cup {None} : Goes(r, Written(run, FirstTitle(run.todo), key))
    <3>1. ASSUME Create(r) PROVE <2>2
      <4>1. \A marked \in BOOLEAN : NewShelf(Shelf(FirstTitle(run.todo), run.want, marked, TRUE)) => born' \in Keys
        BY DEF NewShelf, Keys, Typed, TypeOK
      <4> QED
        BY <3>1, <4>1 DEF Create
    <3>2. ASSUME Update(r) PROVE <2>2
      BY <2>1, <3>2, RunFields DEF Update
    <3> QED
      BY <1>2, <3>1, <3>2
  <2>3. Error(run) \in Runs /\ Error(run).pc = "finish"
    BY <2>1, ErrorFields
  <2>4. \A key \in Keys \cup {None} : Written(run, FirstTitle(run.todo), key) \in Runs
                                     /\ Written(run, FirstTitle(run.todo), key).pc = "look"
    BY <2>1, WrittenFields
  <2> HIDE DEF run
  <2> QED
    BY <2>2, <2>3, <2>4, WritingGoes
<1>3. ASSUME NEW r \in Runners, Drop(r) \/ Close(r) \/ RecordSet(r) \/ Finish(r) PROVE Writing'
  <2>1. runs[r] \in Runs
    BY <1>3, LookRun DEF Drop, Close, RecordSet, Finish, Typed
  <2>2. CASE Drop(r)
    <3> DEFINE to == [runs[r] EXCEPT !.drop = @ \ {FirstTitle(runs[r].drop)},
                                     !.keys[FirstTitle(runs[r].drop)] = None]
    <3>1. Goes(r, to) /\ runs[r].pc = "look"
      BY <2>2 DEF Drop
    <3>2. to.pc = "look"
      BY <2>1, <3>1 DEF Runs
    <3>3. to \in Runs
      <4>1. runs[r].drop \in SUBSET Titles /\ runs[r].drop # {}
        BY <2>1, <2>2, RunFields DEF Drop
      <4>2. FirstTitle(runs[r].drop) \in Titles
        BY <4>1, FirstTitleIn
      <4>3. [runs[r].keys EXCEPT ![FirstTitle(runs[r].drop)] = None] \in [Titles -> Keys \cup {None}]
        BY <2>1, <4>2, RunFields
      <4>4. to = [runs[r] EXCEPT !.drop = runs[r].drop \ {FirstTitle(runs[r].drop)},
                                 !.keys = [runs[r].keys EXCEPT ![FirstTitle(runs[r].drop)] = None]]
        BY <2>1 DEF Runs
      <4> QED
        BY <2>1, <4>1, <4>3, <4>4 DEF Runs
    <3> HIDE DEF to
    <3> QED
      BY <3>1, <3>2, <3>3, WritingGoes
  <2>3. CASE Close(r)
    <3> DEFINE to == [runs[r] EXCEPT !.pc = IF runs[r].mode = "set" /\ runs[r].job = "ok"
                                              THEN "record" ELSE "finish"]
    <3>1. Goes(r, to)
      BY <2>3 DEF Close
    <3>2. to \in Runs /\ to.pc # "write"
      BY <2>1 DEF Runs
    <3> HIDE DEF to
    <3> QED
      BY <3>1, <3>2, WritingGoes
  <2>4. CASE RecordSet(r)
    <3> DEFINE to == [runs[r] EXCEPT !.pc = "finish"]
    <3>1. Goes(r, to)
      BY <2>4 DEF RecordSet
    <3>2. to \in Runs /\ to.pc # "write"
      BY <2>1 DEF Runs
    <3> HIDE DEF to
    <3> QED
      BY <3>1, <3>2, WritingGoes
  <2>5. CASE Finish(r)
    BY <2>5, IdleFields, WritingGoes DEF Finish
  <2> QED
    BY <1>3, <2>2, <2>3, <2>4, <2>5
<1>4. ASSUME NEW r \in Runners, Fail(r) PROVE Writing'
  <2>1. runs[r] \in Runs
    BY <1>4, LookRun DEF Fail, Typed
  <2>2. runs' = [runs EXCEPT ![r] = Error(runs[r])] /\ Error(runs[r]).pc = "finish"
    BY <1>4, <2>1, ErrorFields DEF Fail
  <2> QED
    BY <2>2 DEF Typed, TypeOK, Writing
<1>5. CASE Tick \/ RunNow
  <2>1. InSeason.pc = "look" /\ OutOfSeason.pc = "look"
    BY BeginFields DEF InSeason, OutOfSeason
  <2>2. ASSUME NEW r \in Runners, NEW run \in {InSeason, OutOfSeason}, Start(r, run) PROVE Writing'
    <3>1. runs' = [runs EXCEPT ![r] = run] /\ run.pc = "look"
      BY <2>1, <2>2 DEF Start
    <3> QED
      BY <3>1 DEF Typed, TypeOK, Writing
  <2> QED
    BY <1>5, <2>2, WritingDisturbed DEF Tick, RunNow, Runners
<1>6. CASE Crash
  BY <1>6, IdleFields DEF Crash, Writing
<1>7. CASE Edit \/ CatalogChanges \/ UserInPlex
  BY <1>7, WritingDisturbed DEF Edit, CatalogChanges, UserInPlex
<1>8. CASE SeasonTurns
  BY <1>8 DEF SeasonTurns, Typed, Writing
<1> QED
  BY <1>1, <1>2, <1>3, <1>4, <1>5, <1>6, <1>7, <1>8 DEF Next, Step

LEMMA TypedStep == Typed /\ [Next]_vars => Typed'
<1> SUFFICES ASSUME Typed, [Next]_vars PROVE Typed'
  OBVIOUS
<1>1. ASSUME Next PROVE TypeOK'
  <2>1. ASSUME NEW r \in Runners, Step(r) \/ Fail(r) PROVE TypeOK'
    BY <2>1, LookType, CreateType, UpdateType, DropType, CloseType, RecordSetType, FinishType, FailType
       DEF Step, Typed
  <2> QED
    BY <1>1, <2>1, TickType, RunNowType, WorldType DEF Next
<1>2. CASE Next
  BY <1>1, <1>2, WritingStep DEF Typed
<1>3. CASE UNCHANGED vars
  BY <1>3 DEF Typed, TypeOK, Writing, vars
<1> QED
  BY <1>2, <1>3

LEMMA TypedInit == Init => Typed
<1>1. Init => Writing
  BY IdleFields DEF Init, Writing
<1> QED
  BY <1>1, InitType DEF Typed

\* Every variable keeps its type, and a thread that writes has a title to write.
THEOREM ShelvesTyped == Spec => []TypeOK
<1>1. Typed => TypeOK
  BY DEF Typed
<1> QED
  BY <1>1, TypedInit, TypedStep, PTL DEF Spec

-----------------------------------------------------------------------------
(***************************************************************************)
(* Keys are given once, and a stored key names a shelf of its title that   *)
(* was made or taken over for the recipe, or none.                         *)
(***************************************************************************)

Mine(k) == plex[k].made \/ plex[k].owned

KeysOK(keys) ==
  \A t \in Titles : /\ keys[t] <= born
                    /\ keys[t] \in Live => plex[keys[t]].title = t /\ Mine(keys[t])

FoundOK(run) ==
  run.pc = "write" =>
    /\ run.found <= born
    /\ run.found \in Live => /\ plex[run.found].title = FirstTitle(run.todo)
                             /\ Mine(run.found) \/ run.adopt

Named == /\ \A k \in Keys : k > born => plex[k] = Gone
         /\ KeysOK(recipe.keys)
         /\ \A r \in Runners : Busy(r) => KeysOK(runs[r].keys) /\ FoundOK(runs[r])

\* No step gives a shelf another title, takes its mark, or brings a key back.
PlexGoesOn ==
  /\ born' \in {born, born + 1}
  /\ \A k \in Keys : /\ k > born' => plex'[k] = Gone
                     /\ k <= born /\ k \in Live' =>
                          /\ k \in Live /\ plex'[k].title = plex[k].title
                          /\ Mine(k) => Mine(k)'

LEMMA BornIsNat == Typed => born \in Nat
<1> SUFFICES ASSUME Typed PROVE born \in Nat
  OBVIOUS
<1>1. born \in 0..MaxShelves /\ MaxShelves \in Nat
  BY ItemsAssumption DEF Typed, TypeOK
<1> QED
  BY <1>1

LEMMA BornGoesOn ==
  ASSUME Typed, Typed', PlexGoesOn, NEW k \in Keys \cup {None}, k <= born
  PROVE  k <= born'
<1>1. born \in Nat
  BY BornIsNat
<1>3. k \in Nat
  BY KeysAreNats DEF None
<1>2. born' = born \/ born' = born + 1
  BY DEF PlexGoesOn
<1> QED
  BY <1>1, <1>2, <1>3

LEMMA KeysGoOn ==
  ASSUME Typed, Typed', PlexGoesOn, NEW keys \in [Titles -> Keys \cup {None}], KeysOK(keys)
  PROVE  KeysOK(keys)'
<1> SUFFICES ASSUME NEW t \in Titles
             PROVE  /\ keys[t] <= born'
                    /\ keys[t] \in Live' => plex'[keys[t]].title = t /\ Mine(keys[t])'
  BY DEF KeysOK
<1>1. keys[t] \in Keys \cup {None} /\ keys[t] <= born
  BY DEF KeysOK
<1>2. keys[t] <= born'
  BY <1>1, BornGoesOn
<1>3. ASSUME keys[t] \in Live' PROVE plex'[keys[t]].title = t /\ Mine(keys[t])'
  <2>1. keys[t] \in Keys
    BY <1>3 DEF Live
  <2>2. keys[t] \in Live /\ plex'[keys[t]].title = plex[keys[t]].title
        /\ (Mine(keys[t]) => Mine(keys[t])')
    BY <1>1, <1>3, <2>1 DEF PlexGoesOn
  <2> QED
    BY <2>2 DEF KeysOK
<1> QED
  BY <1>2, <1>3

LEMMA FoundGoesOn ==
  ASSUME Typed, Typed', PlexGoesOn, NEW run \in Runs, FoundOK(run)
  PROVE  FoundOK(run)'
<1> SUFFICES ASSUME run.pc = "write"
             PROVE  /\ run.found <= born'
                    /\ run.found \in Live' => /\ plex'[run.found].title = FirstTitle(run.todo)
                                              /\ Mine(run.found)' \/ run.adopt
  BY DEF FoundOK
<1>1. run.found \in Keys \cup {None} /\ run.found <= born
  BY RunFields DEF FoundOK
<1>2. run.found <= born'
  BY <1>1, BornGoesOn
<1>3. ASSUME run.found \in Live'
      PROVE  plex'[run.found].title = FirstTitle(run.todo) /\ (Mine(run.found)' \/ run.adopt)
  <2>1. run.found \in Keys
    BY <1>3 DEF Live
  <2>2. /\ run.found \in Live /\ plex'[run.found].title = plex[run.found].title
        /\ Mine(run.found) => Mine(run.found)'
    BY <1>1, <1>3, <2>1 DEF PlexGoesOn
  <2> QED
    BY <2>2 DEF FoundOK
<1> QED
  BY <1>2, <1>3

LEMMA NamedKept ==
  ASSUME Typed, Typed', Named, PlexGoesOn,
         recipe'.keys = recipe.keys \/ KeysOK(recipe.keys)',
         \A o \in Runners : Busy(o)' =>
           \/ Busy(o) /\ SameRun(runs[o], runs'[o])
           \/ (KeysOK(runs[o].keys) /\ FoundOK(runs[o]))'
  PROVE  Named'
<1>1. \A k \in Keys : k > born' => plex'[k] = Gone
  BY DEF PlexGoesOn
<1>2. KeysOK(recipe.keys)'
  <2>1. PICK keys : keys = recipe.keys
    OBVIOUS
  <2>2. CASE recipe'.keys = recipe.keys
    <3>1. keys \in [Titles -> Keys \cup {None}]
      BY <2>1 DEF Typed, TypeOK, Rows
    <3>2. KeysOK(keys)'
      BY <2>1, <3>1, KeysGoOn DEF Named
    <3> QED
      BY <2>1, <2>2, <3>2 DEF KeysOK
  <2> QED
    BY <2>2
<1>3. ASSUME NEW o \in Runners, Busy(o), SameRun(runs[o], runs'[o])
      PROVE  (KeysOK(runs[o].keys) /\ FoundOK(runs[o]))'
  <2>1. PICK run : run = runs[o]
    OBVIOUS
  <2>2. run \in Runs /\ KeysOK(run.keys) /\ FoundOK(run)
    BY <1>3, <2>1, BusyRun DEF Named, Typed
  <2>3. KeysOK(run.keys)' /\ FoundOK(run)'
    BY <2>2, RunFields, KeysGoOn, FoundGoesOn
  <2> QED
    BY <1>3, <2>1, <2>3 DEF KeysOK, FoundOK, SameRun
<1> QED
  BY <1>1, <1>2, <1>3 DEF Named

\* Nothing happened in Plex.
LEMMA PlexStays == ASSUME Typed, Named, UNCHANGED <<plex, born>> PROVE PlexGoesOn
BY DEF Named, PlexGoesOn, Live, Mine

\* A shelf is given a new content or mark.
LEMMA PlexUpdated ==
  ASSUME Typed, Named, NEW k \in Live, NEW s \in Shelves, plex' = [plex EXCEPT ![k] = s],
         s.title = plex[k].title, s.made = plex[k].made, plex[k].owned => s.owned, UNCHANGED born
  PROVE  PlexGoesOn
BY DEF Typed, TypeOK, Named, PlexGoesOn, Live, Mine

LEMMA PlexDeleted ==
  ASSUME Typed, Named, NEW k \in Keys, plex' = [plex EXCEPT ![k] = Gone], UNCHANGED born
  PROVE  PlexGoesOn
BY DEF Typed, TypeOK, Named, PlexGoesOn, Live, Mine

LEMMA PlexAdded ==
  ASSUME Typed, Named, NEW s \in Shelves, NewShelf(s)
  PROVE  PlexGoesOn
<1>1. born \in Nat /\ born' = born + 1 /\ born' \in Keys
  BY BornIsNat, NewShelfType DEF Typed
<1>2. plex' = [plex EXCEPT ![born'] = s]
  BY DEF NewShelf
<1>3. \A k \in Keys : k # born' => plex'[k] = plex[k]
  BY <1>1, <1>2 DEF Typed, TypeOK
<1>4. ASSUME NEW k \in Keys, k > born' PROVE plex'[k] = Gone
  <2>1. k > born /\ k # born'
    BY <1>1, <1>4, KeysAreNats
  <2> QED
    BY <1>3, <2>1 DEF Named
<1>5. ASSUME NEW k \in Keys, k <= born, k \in Live'
      PROVE  k \in Live /\ plex'[k].title = plex[k].title /\ (Mine(k) => Mine(k)')
  <2>1. k # born'
    BY <1>1, <1>5, KeysAreNats
  <2>2. plex'[k] = plex[k]
    BY <1>3, <2>1
  <2> QED
    BY <1>5, <2>2 DEF Live, Mine
<1> QED
  BY <1>1, <1>4, <1>5 DEF PlexGoesOn

-----------------------------------------------------------------------------
(***************************************************************************)
(* What each step of a run does, field by field.                           *)
(***************************************************************************)

OthersGo(r) ==
  \A o \in Runners \ {r} :
    /\ Busy(o)' <=> Busy(o)
    /\ Busy(o) => /\ SameRun(runs[o], runs'[o])
                  /\ runs'[o].quiet => runs[o].quiet /\ plex' = plex /\ recipe' = recipe

\* What a run keeps from its beginning to its end, if it does not fail.
SameOrder(a, b) ==
  b.job = a.job /\ b.mode = a.mode /\ b.pattern = a.pattern /\ b.adopt = a.adopt /\ b.quiet = a.quiet

Looked(a, b) ==
  LET t == FirstTitle(a.todo)
      known == Known(a.keys, t)
      taken == known = None /\ Titled(t) # {}
  IN  /\ SameOrder(a, b) /\ b.pc = "write" /\ b.keys = a.keys
      /\ b.todo = a.todo /\ b.drop = a.drop /\ b.done = a.done
      /\ taken => a.adopt
      /\ b.found = IF taken THEN First(Titled(t)) ELSE known
      /\ b.want = IF a.job = "ok" THEN Resolved(t[2]) ELSE {}

Wrote(a, b, key) ==
  LET t == FirstTitle(a.todo)
  IN  /\ SameOrder(a, b) /\ b.pc = "look"
      /\ b.todo = a.todo \ {t} /\ b.drop = a.drop /\ b.done = a.done \cup {t}
      /\ b.keys[t] = key /\ \A u \in Titles \ {t} : b.keys[u] = a.keys[u]

Dropped(a, b) ==
  LET t == FirstTitle(a.drop)
  IN  /\ SameOrder(a, b) /\ b.pc = "look"
      /\ b.todo = a.todo /\ b.drop = a.drop \ {t} /\ b.done = a.done
      /\ b.keys[t] = None /\ \A u \in Titles \ {t} : b.keys[u] = a.keys[u]

GoneTo(a, b, pc) ==
  /\ SameOrder(a, b) /\ b.pc = pc /\ b.keys = a.keys
  /\ b.todo = a.todo /\ b.drop = a.drop /\ b.done = a.done

Failed(a, b) ==
  /\ b.pc = "finish" /\ b.job = "error" /\ b.mode = a.mode /\ b.pattern = a.pattern
  /\ b.adopt = a.adopt /\ b.quiet = a.quiet /\ b.keys = a.keys
  /\ b.todo = a.todo /\ b.drop = a.drop /\ b.done = a.done

Begun(b, job, todo, drop) ==
  /\ b.pc = "look" /\ b.job = job /\ b.mode = recipe.mode /\ b.pattern = recipe.pattern
  /\ b.adopt = recipe.adopt /\ b.keys = recipe.keys
  /\ b.todo = todo /\ b.drop = drop /\ b.done = {}

LEMMA GoesOthersGo ==
  ASSUME TypeOK, NEW r \in Runners, NEW to \in Runs \cup {Idle}, Goes(r, to)
  PROVE  runs'[r] = to /\ OthersGo(r)
BY GoesOthers DEF OthersGo

LEMMA ErrorGoes ==
  ASSUME TypeOK, NEW r \in Runners, runs[r] \in Runs, Goes(r, Error(runs[r]))
  PROVE  runs'[r] \in Runs /\ Failed(runs[r], runs'[r]) /\ OthersGo(r)
<1>1. Error(runs[r]) \in Runs /\ Failed(runs[r], Error(runs[r]))
  BY ErrorFields DEF Failed
<1>2. runs'[r] = Error(runs[r]) /\ OthersGo(r)
  BY <1>1, GoesOthersGo
<1> QED
  BY <1>1, <1>2

LEMMA LookDoes ==
  ASSUME Typed, NEW r \in Runners, Look(r)
  PROVE  /\ runs[r] \in Runs /\ runs[r].pc = "look"
         /\ FirstTitle(runs[r].todo) \in runs[r].todo /\ FirstTitle(runs[r].todo) \in Titles
         /\ runs'[r] \in Runs /\ OthersGo(r)
         /\ UNCHANGED <<set, recipe, catalog, season, plex, born, left>>
         /\ \/ Failed(runs[r], runs'[r]) /\ CutShort(runs[r])
            \/ Looked(runs[r], runs'[r]) /\ whole' = whole
<1> DEFINE run == runs[r]
           t == FirstTitle(run.todo)
           taken == Known(run.keys, t) = None /\ Titled(t) # {}
           found_ == IF taken THEN First(Titled(t)) ELSE Known(run.keys, t)
           want_ == IF run.job = "ok" THEN Resolved(t[2]) ELSE {}
           to == [run EXCEPT !.pc = "write", !.found = found_, !.want = want_]
<1>1. run \in Runs /\ run.pc = "look" /\ run.todo # {} /\ TypeOK
  BY LookRun DEF Look, Typed
<1>2. t \in run.todo /\ t \in Titles
  BY <1>1, RunFields, FirstTitleIn
<1>3. UNCHANGED <<set, recipe, catalog, season, plex, born, left>>
  BY DEF Look
<1>4. \/ Goes(r, Error(run)) /\ CutShort(run)
      \/ Goes(r, to) /\ whole' = whole /\ (taken => run.adopt)
  <2>1. run.adopt \in BOOLEAN
    BY <1>1, RunFields
  <2> QED
    BY <2>1 DEF Look
<1>5. CASE Goes(r, Error(run)) /\ CutShort(run)
  <2>1. runs'[r] \in Runs /\ Failed(runs[r], runs'[r]) /\ OthersGo(r)
    BY <1>1, <1>5, ErrorGoes
  <2> QED
    BY <1>1, <1>2, <1>3, <1>5, <2>1
<1>6. CASE Goes(r, to) /\ whole' = whole /\ (taken => run.adopt)
  <2>1. found_ \in Keys \cup {None} /\ want_ \in SUBSET Items
    BY FirstIn, KnownIs, ResolvedType DEF Titled, Live
  <2>2. PICK f : f = found_
    OBVIOUS
  <2>3. PICK w : w = want_
    OBVIOUS
  <2>4. to = [run EXCEPT !.pc = "write", !.found = f, !.want = w]
    BY <2>2, <2>3
  <2> HIDE DEF to
  <2>5. /\ to \in Runs /\ SameOrder(run, to) /\ to.pc = "write" /\ to.keys = run.keys
        /\ to.todo = run.todo /\ to.drop = run.drop /\ to.done = run.done
        /\ to.found = f /\ to.want = w
    BY <1>1, <2>1, <2>2, <2>3, <2>4 DEF Runs, SameOrder
  <2>6. runs'[r] = to /\ OthersGo(r)
    BY <1>1, <1>6, <2>5, GoesOthersGo
  <2>7. Looked(runs[r], to)
    BY <1>6, <2>2, <2>3, <2>5 DEF Looked
  <2> QED
    BY <1>1, <1>2, <1>3, <1>6, <2>5, <2>6, <2>7
<1> QED
  BY <1>4, <1>5, <1>6

LEMMA WrittenGoes ==
  ASSUME TypeOK, NEW r \in Runners, runs[r] \in Runs, FirstTitle(runs[r].todo) \in Titles,
         NEW key \in Keys \cup {None}, Goes(r, Written(runs[r], FirstTitle(runs[r].todo), key))
  PROVE  runs'[r] \in Runs /\ Wrote(runs[r], runs'[r], key) /\ OthersGo(r)
<1> DEFINE w == Written(runs[r], FirstTitle(runs[r].todo), key)
<1>1. w \in Runs /\ Wrote(runs[r], w, key)
  BY WrittenFields DEF Wrote, SameOrder
<1> HIDE DEF w
<1>2. runs'[r] = w /\ OthersGo(r)
  BY <1>1, GoesOthersGo DEF w
<1> QED
  BY <1>1, <1>2

LEMMA CreateDoes ==
  ASSUME Typed, NEW r \in Runners, Create(r)
  PROVE  /\ runs[r] \in Runs /\ runs[r].pc = "write" /\ runs[r].found = None
         /\ FirstTitle(runs[r].todo) \in runs[r].todo /\ FirstTitle(runs[r].todo) \in Titles
         /\ runs'[r] \in Runs /\ OthersGo(r)
         /\ UNCHANGED <<set, recipe, catalog, season, whole>>
         /\ \/ /\ runs[r].want = {} /\ UNCHANGED <<plex, born, left>>
               /\ Wrote(runs[r], runs'[r], None)
            \/ /\ runs[r].want # {}
               /\ \E marked \in BOOLEAN :
                    LET s == Shelf(FirstTitle(runs[r].todo), runs[r].want, marked, TRUE)
                    IN  s \in Shelves /\ NewShelf(s)
               /\ Wrote(runs[r], runs'[r], born')
<1>1. /\ runs[r] \in Runs /\ runs[r].pc = "write" /\ runs[r].found = None /\ TypeOK
      /\ FirstTitle(runs[r].todo) \in runs[r].todo /\ FirstTitle(runs[r].todo) \in Titles
  BY WriteTitle DEF Create, Typed
<1>2. UNCHANGED <<set, recipe, catalog, season, whole>>
  BY DEF Create
<1>3. CASE /\ runs[r].want = {} /\ UNCHANGED <<plex, born, left>>
           /\ Goes(r, Written(runs[r], FirstTitle(runs[r].todo), None))
  <2>1. runs'[r] \in Runs /\ Wrote(runs[r], runs'[r], None) /\ OthersGo(r)
    BY <1>1, <1>3, WrittenGoes
  <2> QED
    BY <1>1, <1>2, <1>3, <2>1
<1>4. ASSUME NEW marked \in BOOLEAN, runs[r].want # {},
             NewShelf(Shelf(FirstTitle(runs[r].todo), runs[r].want, marked, TRUE)),
             Goes(r, Written(runs[r], FirstTitle(runs[r].todo), born'))
      PROVE  /\ runs'[r] \in Runs /\ OthersGo(r) /\ Wrote(runs[r], runs'[r], born')
             /\ Shelf(FirstTitle(runs[r].todo), runs[r].want, marked, TRUE) \in Shelves
  <2>1. Shelf(FirstTitle(runs[r].todo), runs[r].want, marked, TRUE) \in Shelves
    BY <1>1 DEF Shelf, Shelves, Runs
  <2>2. born' \in Keys
    BY <1>1, <1>4, <2>1, NewShelfType
  <2>3. PICK key \in Keys \cup {None} : key = born'
    BY <2>2
  <2>4. runs'[r] \in Runs /\ Wrote(runs[r], runs'[r], key) /\ OthersGo(r)
    BY <1>1, <1>4, <2>3, WrittenGoes
  <2> QED
    BY <2>1, <2>3, <2>4
<1>5. \/ /\ runs[r].want = {} /\ UNCHANGED <<plex, born, left>>
         /\ Goes(r, Written(runs[r], FirstTitle(runs[r].todo), None))
      \/ \E marked \in BOOLEAN :
           /\ runs[r].want # {}
           /\ NewShelf(Shelf(FirstTitle(runs[r].todo), runs[r].want, marked, TRUE))
           /\ Goes(r, Written(runs[r], FirstTitle(runs[r].todo), born'))
  BY DEF Create
<1>6. CASE \E marked \in BOOLEAN :
           /\ runs[r].want # {}
           /\ NewShelf(Shelf(FirstTitle(runs[r].todo), runs[r].want, marked, TRUE))
           /\ Goes(r, Written(runs[r], FirstTitle(runs[r].todo), born'))
  <2>1. PICK marked \in BOOLEAN :
           /\ runs[r].want # {}
           /\ NewShelf(Shelf(FirstTitle(runs[r].todo), runs[r].want, marked, TRUE))
           /\ Goes(r, Written(runs[r], FirstTitle(runs[r].todo), born'))
    BY <1>6
  <2>2. /\ runs'[r] \in Runs /\ OthersGo(r) /\ Wrote(runs[r], runs'[r], born')
        /\ Shelf(FirstTitle(runs[r].todo), runs[r].want, marked, TRUE) \in Shelves
    BY <1>4, <2>1
  <2> QED
    BY <1>1, <1>2, <2>1, <2>2
<1> QED
  BY <1>3, <1>5, <1>6

LEMMA UpdateDoes ==
  ASSUME Typed, NEW r \in Runners, Update(r)
  PROVE  /\ runs[r] \in Runs /\ runs[r].pc = "write" /\ runs[r].found \in Keys
         /\ FirstTitle(runs[r].todo) \in runs[r].todo /\ FirstTitle(runs[r].todo) \in Titles
         /\ runs'[r] \in Runs /\ OthersGo(r)
         /\ UNCHANGED <<set, recipe, catalog, season, born>>
         /\ \/ /\ runs[r].found \notin Live /\ UNCHANGED plex
               /\ Failed(runs[r], runs'[r]) /\ CutShort(runs[r])
            \/ /\ runs[r].found \in Live
               /\ \E s \in Shelves :
                    /\ plex' = [plex EXCEPT ![runs[r].found] = s]
                    /\ s.title = plex[runs[r].found].title /\ s.made = plex[runs[r].found].made
                    /\ s.owned
                    /\ \/ Failed(runs[r], runs'[r]) /\ CutShort(runs[r])
                       \/ /\ s.items = runs[r].want /\ whole' = whole
                          /\ Wrote(runs[r], runs'[r], runs[r].found)
<1> DEFINE run == runs[r]
           k == runs[r].found
           t == FirstTitle(runs[r].todo)
<1>1. /\ run \in Runs /\ run.pc = "write" /\ TypeOK
      /\ t \in run.todo /\ t \in Titles
  BY WriteTitle DEF Update, Typed
<1>2. k \in Keys /\ run.want \in SUBSET Items
  BY <1>1, RunFields DEF Update
<1>3. UNCHANGED <<set, recipe, catalog, season, born>>
  BY DEF Update
<1>4. CASE /\ k \in Live /\ plex' = [plex EXCEPT ![k] = Updated(@, run.want)]
           /\ Goes(r, Written(run, t, k)) /\ whole' = whole
  <2>1. plex[k] \in Shelves
    BY <1>1, <1>4, LiveShelf
  <2>2. /\ Updated(plex[k], run.want) \in Shelves
        /\ Updated(plex[k], run.want).title = plex[k].title
        /\ Updated(plex[k], run.want).made = plex[k].made
        /\ Updated(plex[k], run.want).owned
        /\ Updated(plex[k], run.want).items = run.want
    BY <1>2, <2>1 DEF Updated, Shelves
  <2>3. plex' = [plex EXCEPT ![k] = Updated(plex[k], run.want)]
    BY <1>1, <1>4 DEF TypeOK
  <2>4. runs'[r] \in Runs /\ Wrote(runs[r], runs'[r], k) /\ OthersGo(r)
    BY <1>1, <1>2, <1>4, WrittenGoes
  <2> QED
    BY <1>1, <1>2, <1>3, <1>4, <2>2, <2>3, <2>4
<1>5. CASE /\ k \in Live
           /\ plex' = [plex EXCEPT ![k].items = @ \cup run.want, ![k].owned = TRUE]
           /\ Goes(r, Error(run)) /\ CutShort(run)
  <2> DEFINE s == [plex[k] EXCEPT !.items = @ \cup run.want, !.owned = TRUE]
  <2>1. plex[k] \in Shelves
    BY <1>1, <1>5, LiveShelf
  <2>2. s \in Shelves /\ s.title = plex[k].title /\ s.made = plex[k].made /\ s.owned
    BY <1>2, <2>1 DEF Shelves
  <2>3. plex' = [plex EXCEPT ![k] = s]
    BY <1>1, <1>2, <1>5 DEF TypeOK
  <2>4. runs'[r] \in Runs /\ Failed(runs[r], runs'[r]) /\ OthersGo(r)
    BY <1>1, <1>5, ErrorGoes
  <2> HIDE DEF s
  <2> QED
    BY <1>1, <1>2, <1>3, <1>5, <2>2, <2>3, <2>4
<1>6. CASE /\ k \notin Live /\ UNCHANGED plex
           /\ Goes(r, Error(run)) /\ CutShort(run)
  <2>1. runs'[r] \in Runs /\ Failed(runs[r], runs'[r]) /\ OthersGo(r)
    BY <1>1, <1>6, ErrorGoes
  <2> QED
    BY <1>1, <1>2, <1>3, <1>6, <2>1
<1> QED
  BY <1>4, <1>5, <1>6 DEF Update

LEMMA DropDoes ==
  ASSUME Typed, NEW r \in Runners, Drop(r)
  PROVE  /\ runs[r] \in Runs /\ runs[r].pc = "look" /\ runs[r].todo = {}
         /\ FirstTitle(runs[r].drop) \in runs[r].drop /\ FirstTitle(runs[r].drop) \in Titles
         /\ runs'[r] \in Runs /\ OthersGo(r) /\ Dropped(runs[r], runs'[r])
         /\ UNCHANGED <<set, recipe, catalog, season, born, left, whole>>
         /\ LET k == Known(runs[r].keys, FirstTitle(runs[r].drop))
            IN  plex' = IF k = None THEN plex ELSE [plex EXCEPT ![k] = Gone]
<1> DEFINE t == FirstTitle(runs[r].drop)
           keys == [runs[r].keys EXCEPT ![t] = None]
           to == [runs[r] EXCEPT !.drop = @ \ {t}, !.keys[t] = None]
<1>1. runs[r] \in Runs /\ runs[r].pc = "look" /\ runs[r].todo = {} /\ runs[r].drop # {} /\ TypeOK
  BY LookRun DEF Drop, Typed
<1>2. t \in runs[r].drop /\ t \in Titles
  BY <1>1, RunFields, FirstTitleIn
<1>3. to = [runs[r] EXCEPT !.drop = runs[r].drop \ {t}, !.keys = keys]
  BY <1>1 DEF Runs
<1>4. /\ keys \in [Titles -> Keys \cup {None}] /\ keys[t] = None
      /\ \A u \in Titles \ {t} : keys[u] = runs[r].keys[u]
  BY <1>1, <1>2, RunFields
<1> HIDE DEF keys
<1>5. /\ to \in Runs /\ SameOrder(runs[r], to) /\ to.pc = "look"
      /\ to.todo = runs[r].todo /\ to.drop = runs[r].drop \ {t} /\ to.done = runs[r].done
      /\ to.keys = keys
  BY <1>1, <1>3, <1>4 DEF Runs, SameOrder
<1> HIDE DEF to
<1>6. Dropped(runs[r], to)
  BY <1>4, <1>5 DEF Dropped
<1>7. Goes(r, to)
  BY DEF Drop, to
<1>8. runs'[r] = to /\ OthersGo(r)
  BY <1>1, <1>5, <1>7, GoesOthersGo
<1> QED
  BY <1>1, <1>2, <1>5, <1>6, <1>8 DEF Drop

LEMMA CloseDoes ==
  ASSUME Typed, NEW r \in Runners, Close(r)
  PROVE  /\ runs[r] \in Runs /\ runs[r].pc = "look" /\ runs[r].todo = {} /\ runs[r].drop = {}
         /\ runs'[r] \in Runs /\ OthersGo(r)
         /\ GoneTo(runs[r], runs'[r], IF runs[r].mode = "set" /\ runs[r].job = "ok"
                                        THEN "record" ELSE "finish")
         /\ UNCHANGED <<set, recipe, catalog, season, plex, born, left, whole>>
<1> DEFINE pc_ == IF runs[r].mode = "set" /\ runs[r].job = "ok" THEN "record" ELSE "finish"
           to == [runs[r] EXCEPT !.pc = pc_]
<1>1. runs[r] \in Runs /\ runs[r].pc = "look" /\ TypeOK
  BY LookRun DEF Close, Typed
<1>2. pc_ \in {"record", "finish"}
  OBVIOUS
<1> HIDE DEF pc_
<1>3. to \in Runs /\ GoneTo(runs[r], to, pc_)
  BY <1>1, <1>2 DEF Runs, GoneTo, SameOrder
<1>4. Goes(r, to)
  BY DEF Close, pc_
<1> HIDE DEF to
<1>5. runs'[r] = to /\ OthersGo(r)
  BY <1>1, <1>3, <1>4, GoesOthersGo
<1> QED
  BY <1>1, <1>3, <1>5 DEF Close, pc_

LEMMA RecordDoes ==
  ASSUME Typed, NEW r \in Runners, RecordSet(r)
  PROVE  /\ runs[r] \in Runs /\ runs[r].pc = "record"
         /\ runs'[r] \in Runs /\ OthersGo(r) /\ GoneTo(runs[r], runs'[r], "finish")
         /\ UNCHANGED <<set, catalog, season, plex, born, left, whole>>
         /\ recipe'.mode = "set" /\ recipe'.pattern = runs[r].pattern
         /\ recipe'.managed = runs[r].done /\ recipe'.keys = runs[r].keys
         /\ recipe'.summary = recipe.summary /\ recipe'.window = recipe.window
<1> DEFINE to == [runs[r] EXCEPT !.pc = "finish"]
<1>1. runs[r] \in Runs /\ runs[r].pc = "record" /\ TypeOK
  BY LookRun DEF RecordSet, Typed
<1>2. to \in Runs /\ GoneTo(runs[r], to, "finish")
  BY <1>1 DEF Runs, GoneTo, SameOrder
<1>3. Goes(r, to)
  BY DEF RecordSet
<1> HIDE DEF to
<1>4. runs'[r] = to /\ OthersGo(r)
  BY <1>1, <1>2, <1>3, GoesOthersGo
<1>5. recipe' = [recipe EXCEPT !.mode = "set", !.pattern = runs[r].pattern,
                               !.managed = runs[r].done, !.keys = runs[r].keys]
  BY DEF RecordSet
<1>6. /\ recipe'.mode = "set" /\ recipe'.pattern = runs[r].pattern
      /\ recipe'.managed = runs[r].done /\ recipe'.keys = runs[r].keys
      /\ recipe'.summary = recipe.summary /\ recipe'.window = recipe.window
  BY <1>1, <1>5 DEF TypeOK, Rows
<1> QED
  BY <1>1, <1>2, <1>4, <1>6 DEF RecordSet

LEMMA FinishDoes ==
  ASSUME Typed, NEW r \in Runners, Finish(r)
  PROVE  /\ runs[r] \in Runs /\ runs[r].pc = "finish"
         /\ ~ Busy(r)' /\ OthersGo(r)
         /\ UNCHANGED <<set, catalog, season, plex, born, left, whole>>
         /\ recipe'.mode = recipe.mode /\ recipe'.pattern = recipe.pattern
         /\ recipe'.managed = recipe.managed /\ recipe'.window = recipe.window
         /\ recipe'.keys = IF runs[r].job = "error" \/ (runs[r].mode = "set" /\ runs[r].job = "ok")
                             THEN recipe.keys ELSE runs[r].keys
         /\ recipe'.summary =
              Summary(runs[r].job, IF runs[r].mode = "set" /\ runs[r].job = "ok" THEN runs[r].done ELSE {})
<1> DEFINE summary_ == Summary(runs[r].job, IF runs[r].mode = "set" /\ runs[r].job = "ok" THEN runs[r].done ELSE {})
           keys_ == IF runs[r].job = "error" \/ (runs[r].mode = "set" /\ runs[r].job = "ok")
                      THEN recipe.keys ELSE runs[r].keys
<1>1. runs[r] \in Runs /\ runs[r].pc = "finish" /\ TypeOK
  BY LookRun DEF Finish, Typed
<1>2. runs'[r] = Idle /\ OthersGo(r)
  BY <1>1, GoesOthersGo DEF Finish
<1>3. ~ Busy(r)'
  BY <1>2, IdleFields DEF Busy
<1>4. recipe' = [recipe EXCEPT !.summary = summary_, !.keys = keys_]
  BY <1>1 DEF Finish, TypeOK, Rows
<1> HIDE DEF summary_, keys_
<1>5. /\ recipe'.mode = recipe.mode /\ recipe'.pattern = recipe.pattern
      /\ recipe'.managed = recipe.managed /\ recipe'.window = recipe.window
      /\ recipe'.keys = keys_ /\ recipe'.summary = summary_
  BY <1>1, <1>4 DEF TypeOK, Rows
<1> QED
  BY <1>1, <1>2, <1>3, <1>5 DEF Finish, summary_, keys_

LEMMA FailDoes ==
  ASSUME Typed, NEW r \in Runners, Fail(r)
  PROVE  /\ runs[r] \in Runs /\ runs[r].pc \in {"look", "write"}
         /\ runs[r].todo \cup runs[r].drop # {}
         /\ runs'[r] \in Runs /\ Failed(runs[r], runs'[r]) /\ OthersGo(r) /\ CutShort(runs[r])
         /\ UNCHANGED <<set, recipe, catalog, season, plex, born>>
<1>1. runs[r] \in Runs /\ TypeOK
  BY LookRun DEF Fail, Typed
<1>2. Error(runs[r]) \in Runs /\ Failed(runs[r], Error(runs[r]))
  BY <1>1, ErrorFields DEF Failed
<1>3. runs'[r] = Error(runs[r]) /\ \A o \in Runners \ {r} : runs'[o] = runs[o]
  BY <1>1 DEF Fail, TypeOK
<1>4. UNCHANGED <<set, recipe, catalog, season, plex, born>>
  BY DEF Fail
<1>5. OthersGo(r)
  BY <1>1, <1>3, <1>4, BusyRun DEF OthersGo, SameRun, Busy
<1> QED
  BY <1>1, <1>2, <1>3, <1>4, <1>5 DEF Fail

\* What a run of this row is to do, in its season and outside it.
InTitles == IF recipe.mode = "set" THEN {<<recipe.pattern, v>> : v \in Children} ELSE {Title(recipe)}
BegunRun(b) ==
  \/ /\ ~ Off(recipe)
     /\ Begun(b, "ok", InTitles, IF recipe.mode = "set" THEN Managed(recipe) \ InTitles ELSE {})
  \/ recipe.window = "clear" /\ Begun(b, "cleared", Kept(recipe), {})
  \/ recipe.window = "delete" /\ Begun(b, "removed", {}, Kept(recipe))

LEMMA StartDoes ==
  ASSUME Typed, NEW r \in Runners, ~ Busy(r),
         \/ ~ Off(recipe) /\ Start(r, InSeason)
         \/ Off(recipe) /\ recipe.window # "keep" /\ Start(r, OutOfSeason)
  PROVE  /\ runs'[r] \in Runs /\ OthersGo(r) /\ BegunRun(runs'[r])
         /\ UNCHANGED <<set, recipe, catalog, season, plex, born>>
         /\ whole' => whole /\ \A o \in Runners : ~ Busy(o)
<1>1. TypeOK
  BY DEF Typed
<1>2. ASSUME NEW run \in Runs, Start(r, run)
      PROVE  /\ runs'[r] = run /\ OthersGo(r)
             /\ UNCHANGED <<set, recipe, catalog, season, plex, born>>
             /\ whole' => whole /\ \A o \in Runners : ~ Busy(o)
  <2>1. runs'[r] = run /\ \A o \in Runners \ {r} : runs'[o] = runs[o]
    BY <1>1, <1>2 DEF Start, TypeOK
  <2>2. UNCHANGED <<set, recipe, catalog, season, plex, born>>
    BY <1>2 DEF Start
  <2>3. OthersGo(r)
    BY <1>1, <2>1, <2>2, BusyRun DEF OthersGo, SameRun, Busy
  <2>4. whole' => whole /\ \A o \in Runners : ~ Busy(o)
    BY <1>2 DEF Start
  <2> QED
    BY <2>1, <2>2, <2>3, <2>4
<1>3. CASE ~ Off(recipe) /\ Start(r, InSeason)
  <2>1. Begun(InSeason, "ok", InTitles, IF recipe.mode = "set" THEN Managed(recipe) \ InTitles ELSE {})
    BY BeginFields DEF InSeason, Begun, InTitles
  <2>2. InSeason \in Runs
    BY <1>1, StartType
  <2> HIDE DEF InSeason
  <2> QED
    BY <1>2, <1>3, <2>1, <2>2 DEF BegunRun
<1>4. CASE Off(recipe) /\ recipe.window # "keep" /\ Start(r, OutOfSeason)
  <2>1. recipe.window \in {"clear", "delete"}
    BY <1>1, <1>4 DEF TypeOK, Rows, Windows, Off
  <2>2. \/ recipe.window = "clear" /\ Begun(OutOfSeason, "cleared", Kept(recipe), {})
        \/ recipe.window = "delete" /\ Begun(OutOfSeason, "removed", {}, Kept(recipe))
    BY <2>1, BeginFields DEF OutOfSeason, Begun
  <2>3. OutOfSeason \in Runs
    BY <1>1, StartType
  <2> QED
    BY <1>2, <1>4, <2>2, <2>3 DEF BegunRun
<1> QED
  BY <1>3, <1>4

LEMMA StartsDo ==
  ASSUME Typed, Tick \/ RunNow
  PROVE  \/ \E r \in Runners :
              /\ ~ Busy(r) /\ runs'[r] \in Runs /\ OthersGo(r) /\ BegunRun(runs'[r])
              /\ UNCHANGED <<set, recipe, catalog, season, plex, born>>
              /\ whole' => whole /\ \A o \in Runners : ~ Busy(o)
         \/ /\ runs' = Disturbed
            /\ recipe' = [recipe EXCEPT !.summary = Summary("dormant", {})]
            /\ UNCHANGED <<set, catalog, season, plex, born, whole>>
<1>1. CASE Tick
  <2>1. /\ ~ Busy("task") /\ "task" \in Runners
        /\ \/ ~ Off(recipe) /\ Start("task", InSeason)
           \/ Off(recipe) /\ recipe.window # "keep" /\ Start("task", OutOfSeason)
    BY <1>1 DEF Tick, Runners
  <2> QED
    BY <2>1, StartDoes
<1>2. CASE RunNow
  <2>1. /\ ~ Busy("manual") /\ "manual" \in Runners
        /\ \/ ~ Off(recipe) /\ Start("manual", InSeason)
           \/ Off(recipe) /\ recipe.window # "keep" /\ Start("manual", OutOfSeason)
           \/ /\ recipe' = [recipe EXCEPT !.summary = Summary("dormant", {})]
              /\ runs' = Disturbed
              /\ UNCHANGED <<set, catalog, season, plex, born, whole>>
    BY <1>2 DEF RunNow, Runners
  <2> QED
    BY <2>1, StartDoes
<1> QED
  BY <1>1, <1>2

LEMMA WroteKeys ==
  ASSUME Typed, Typed', PlexGoesOn, NEW a \in Runs, NEW b \in Runs, KeysOK(a.keys),
         NEW t \in Titles, b.pc = "look",
         b.keys[t] <= born', b.keys[t] \in Live' => plex'[b.keys[t]].title = t /\ Mine(b.keys[t])',
         \A u \in Titles \ {t} : b.keys[u] = a.keys[u]
  PROVE  (KeysOK(b.keys) /\ FoundOK(b))'
<1>1. KeysOK(a.keys)'
  BY RunFields, KeysGoOn
<1>2. FoundOK(b)'
  BY DEF FoundOK
<1>3. KeysOK(b.keys)'
  BY <1>1 DEF KeysOK
<1> QED
  BY <1>2, <1>3

\* A title without a shelf is named by no key.
LEMMA NoneKey == Typed => None <= born /\ None \notin Live
BY BornIsNat, KeysAreNats DEF None, Live

LEMMA SameKeys ==
  ASSUME Typed, Typed', PlexGoesOn, NEW a \in Runs, NEW b \in Runs, KeysOK(a.keys),
         b.keys = a.keys, b.pc # "write"
  PROVE  (KeysOK(b.keys) /\ FoundOK(b))'
<1>1. KeysOK(a.keys)'
  BY RunFields, KeysGoOn
<1> QED
  BY <1>1 DEF KeysOK, FoundOK

\* The other runs and, where the row keeps its keys, the row need no look.
LEMMA NamedOthers ==
  ASSUME Typed, Typed', Named, PlexGoesOn, NEW r \in Runners, OthersGo(r),
         recipe'.keys = recipe.keys \/ KeysOK(recipe.keys)',
         Busy(r)' => (KeysOK(runs[r].keys) /\ FoundOK(runs[r]))'
  PROVE  Named'
<1>1. \A o \in Runners : Busy(o)' =>
        \/ Busy(o) /\ SameRun(runs[o], runs'[o])
        \/ (KeysOK(runs[o].keys) /\ FoundOK(runs[o]))'
  BY DEF OthersGo
<1> QED
  BY <1>1, NamedKept

LEMMA LiveBorn == ASSUME Typed, Named, NEW k \in Live PROVE k <= born
<1>1. k \in Keys /\ k \in Nat /\ plex[k] # Gone
  BY KeysAreNats DEF Live
<1>2. born \in Nat
  BY BornIsNat
<1>3. ~ (k > born)
  BY <1>1 DEF Named
<1> QED
  BY <1>1, <1>2, <1>3

LEMMA NamedRun ==
  ASSUME Typed, Typed', Named, NEW r \in Runners, Step(r) \/ Fail(r)
  PROVE  Named'
<1>0. TypeOK /\ TypeOK'
  BY DEF Typed
<1>1. CASE Look(r)
  <2>1. PICK a \in Runs, b \in Runs : a = runs[r] /\ b = runs'[r]
    BY <1>1, LookDoes
  <2>2. KeysOK(a.keys) /\ PlexGoesOn
    BY <1>1, <2>1, LookDoes, PlexStays DEF Named, Busy
  <2>3. (KeysOK(b.keys) /\ FoundOK(b))'
    <3>1. CASE Failed(a, b)
      BY <2>2, <3>1, SameKeys DEF Failed
    <3>2. CASE Looked(a, b)
      <4> DEFINE t == FirstTitle(a.todo)
      <4>1. t \in Titles /\ UNCHANGED <<plex, born>>
        BY <1>1, <2>1, LookDoes
      <4>2. b.found \in Live => plex[b.found].title = t /\ (Mine(b.found) \/ b.adopt)
        <5>1. CASE Known(a.keys, t) = None /\ Titled(t) # {}
          <6>1. b.found \in Titled(t) /\ b.adopt
            BY <3>2, <5>1, TakenIs DEF Looked, SameOrder
          <6> QED
            BY <6>1 DEF Titled
        <5>2. CASE ~ (Known(a.keys, t) = None /\ Titled(t) # {})
          <6>1. b.found = Known(a.keys, t)
            BY <3>2, <5>2 DEF Looked
          <6>2. b.found \in Live => b.found = a.keys[t] \/ b.found \in Owned(t)
            BY <6>1, KnownIs, KeysAreNats DEF Live
          <6> QED
            BY <2>2, <4>1, <6>2 DEF KeysOK, Owned, Titled, Mine
        <5> QED
          BY <5>1, <5>2
      <4>3. b.found <= born
        <5>1. b.found = First(Titled(t)) \/ b.found = Known(a.keys, t)
          BY <3>2 DEF Looked
        <5>2. First(Titled(t)) = None \/ First(Titled(t)) \in Live
          BY FirstIn DEF Titled, Live
        <5>3. Known(a.keys, t) = None \/ Known(a.keys, t) \in Live
          BY KnownIs
        <5> QED
          BY <5>1, <5>2, <5>3, LiveBorn, NoneKey
      <4>4. b.todo = a.todo /\ b.keys = a.keys
        BY <3>2 DEF Looked
      <4>5. FoundOK(b)
        BY <4>2, <4>3, <4>4 DEF FoundOK
      <4>6. KeysOK(b.keys)
        BY <2>2, <4>4
      <4>7. FoundOK(b)'
        BY <2>2, <4>5, FoundGoesOn
      <4>8. KeysOK(b.keys)'
        BY <2>2, <4>6, RunFields, KeysGoOn
      <4> QED
        BY <4>7, <4>8
    <3> QED
      BY <1>1, <2>1, <3>1, <3>2, LookDoes
  <2>4. OthersGo(r) /\ recipe' = recipe
    BY <1>1, LookDoes
  <2>5. (KeysOK(runs[r].keys) /\ FoundOK(runs[r]))'
    BY <2>1, <2>3 DEF KeysOK, FoundOK
  <2> QED
    BY <2>2, <2>4, <2>5, NamedOthers
<1>2. CASE Create(r)
  <2>1. PICK a \in Runs, b \in Runs : a = runs[r] /\ b = runs'[r]
    BY <1>2, CreateDoes
  <2> DEFINE t == FirstTitle(a.todo)
  <2>2. KeysOK(a.keys) /\ t \in Titles /\ OthersGo(r) /\ recipe' = recipe
    BY <1>2, <2>1, CreateDoes DEF Named, Busy
  <2>3. CASE UNCHANGED <<plex, born>> /\ Wrote(a, b, None)
    <3>1. PlexGoesOn
      BY <2>3, PlexStays
    <3>2. /\ b.pc = "look" /\ b.keys[t] = None /\ None <= born' /\ None \notin Live'
          /\ \A u \in Titles \ {t} : b.keys[u] = a.keys[u]
      BY <2>3, NoneKey DEF Wrote, Live
    <3>3. (KeysOK(b.keys) /\ FoundOK(b))'
      BY <2>2, <3>1, <3>2, WroteKeys
    <3>4. (KeysOK(runs[r].keys) /\ FoundOK(runs[r]))'
      BY <2>1, <3>3 DEF KeysOK, FoundOK
    <3> QED
      BY <2>2, <3>1, <3>4, NamedOthers
  <2>4. ASSUME NEW marked \in BOOLEAN, NEW s \in Shelves, s = Shelf(t, a.want, marked, TRUE),
               NewShelf(s), Wrote(a, b, born')
        PROVE  Named'
    <3>1. PlexGoesOn /\ born' \in Keys /\ plex' = [plex EXCEPT ![born'] = s]
      BY <1>0, <2>4, PlexAdded, NewShelfType
    <3>2. plex'[born'] = s
      BY <1>0, <3>1 DEF TypeOK
    <3>3. s.title = t /\ s.made
      BY <2>4 DEF Shelf
    <3>4. PICK key : key = born'
      OBVIOUS
    <3>5. /\ b.pc = "look" /\ b.keys[t] = key
          /\ \A u \in Titles \ {t} : b.keys[u] = a.keys[u]
      BY <2>4, <3>4 DEF Wrote
    <3>6. key <= born' /\ plex'[key].title = t /\ Mine(key)'
      BY <3>1, <3>2, <3>3, <3>4, KeysAreNats DEF Mine
    <3>7. (KeysOK(b.keys) /\ FoundOK(b))'
      BY <2>2, <3>1, <3>5, <3>6, WroteKeys
    <3>8. (KeysOK(runs[r].keys) /\ FoundOK(runs[r]))'
      BY <2>1, <3>7 DEF KeysOK, FoundOK
    <3> QED
      BY <2>2, <3>1, <3>8, NamedOthers
  <2> QED
    BY <1>2, <2>1, <2>3, <2>4, CreateDoes
<1>3. CASE Update(r)
  <2>1. PICK a \in Runs, b \in Runs : a = runs[r] /\ b = runs'[r]
    BY <1>3, UpdateDoes
  <2> DEFINE t == FirstTitle(a.todo)
             k == a.found
  <2>2. /\ KeysOK(a.keys) /\ FoundOK(a) /\ a.pc = "write" /\ k \in Keys
        /\ t \in Titles /\ OthersGo(r) /\ recipe' = recipe /\ born' = born
    BY <1>3, <2>1, UpdateDoes DEF Named, Busy
  <2>3. CASE UNCHANGED plex /\ Failed(a, b)
    <3>1. PlexGoesOn
      BY <2>2, <2>3, PlexStays
    <3>2. (KeysOK(b.keys) /\ FoundOK(b))'
      BY <2>2, <2>3, <3>1, SameKeys DEF Failed
    <3>3. (KeysOK(runs[r].keys) /\ FoundOK(runs[r]))'
      BY <2>1, <3>2 DEF KeysOK, FoundOK
    <3> QED
      BY <2>2, <3>1, <3>3, NamedOthers
  <2>4. ASSUME NEW s \in Shelves, k \in Live, plex' = [plex EXCEPT ![k] = s],
               s.title = plex[k].title, s.made = plex[k].made, s.owned,
               Failed(a, b) \/ Wrote(a, b, k)
        PROVE  Named'
    <3>1. PlexGoesOn
      BY <2>2, <2>4, PlexUpdated
    <3>2. plex'[k] = s
      BY <1>0, <2>2, <2>4 DEF TypeOK
    <3>3. ASSUME Failed(a, b) PROVE (KeysOK(b.keys) /\ FoundOK(b))'
      BY <2>2, <3>1, <3>3, SameKeys DEF Failed
    <3>4. ASSUME Wrote(a, b, k) PROVE (KeysOK(b.keys) /\ FoundOK(b))'
      <4>1. /\ b.pc = "look" /\ b.keys[t] = k
            /\ \A u \in Titles \ {t} : b.keys[u] = a.keys[u]
        BY <3>4 DEF Wrote
      <4>2. k <= born' /\ plex'[k].title = t /\ Mine(k)'
        BY <2>2, <2>4, <3>2 DEF FoundOK, Mine
      <4> QED
        BY <2>2, <3>1, <4>1, <4>2, WroteKeys
    <3>5. (KeysOK(b.keys) /\ FoundOK(b))'
      BY <2>4, <3>3, <3>4
    <3>6. (KeysOK(runs[r].keys) /\ FoundOK(runs[r]))'
      BY <2>1, <3>5 DEF KeysOK, FoundOK
    <3> QED
      BY <2>2, <3>1, <3>6, NamedOthers
  <2> QED
    BY <1>3, <2>1, <2>3, <2>4, UpdateDoes
<1>4. CASE Drop(r)
  <2>1. PICK a \in Runs, b \in Runs : a = runs[r] /\ b = runs'[r]
    BY <1>4, DropDoes
  <2> DEFINE t == FirstTitle(a.drop)
             k == Known(a.keys, t)
  <2>2. /\ KeysOK(a.keys) /\ t \in Titles /\ OthersGo(r) /\ recipe' = recipe /\ born' = born
        /\ Dropped(a, b) /\ plex' = IF k = None THEN plex ELSE [plex EXCEPT ![k] = Gone]
    BY <1>4, <2>1, DropDoes DEF Named, Busy
  <2>3. PlexGoesOn
    <3>1. CASE k = None
      BY <2>2, <3>1, PlexStays
    <3>2. CASE k # None
      <4>1. k \in Keys
        BY <3>2, KnownIs DEF Live
      <4> QED
        BY <2>2, <3>2, <4>1, PlexDeleted
    <3> QED
      BY <3>1, <3>2
  <2>4. /\ b.pc = "look" /\ b.keys[t] = None /\ None <= born' /\ None \notin Live'
        /\ \A u \in Titles \ {t} : b.keys[u] = a.keys[u]
    BY <2>2, NoneKey, KeysAreNats DEF Dropped, Live
  <2>5. (KeysOK(b.keys) /\ FoundOK(b))'
    BY <2>2, <2>3, <2>4, WroteKeys
  <2>6. (KeysOK(runs[r].keys) /\ FoundOK(runs[r]))'
    BY <2>1, <2>5 DEF KeysOK, FoundOK
  <2> QED
    BY <2>2, <2>3, <2>6, NamedOthers
<1>5. CASE Close(r) \/ RecordSet(r) \/ Fail(r)
  <2>1. /\ runs[r] \in Runs /\ runs[r].pc # "idle" /\ runs'[r] \in Runs /\ OthersGo(r)
        /\ runs'[r].keys = runs[r].keys /\ runs'[r].pc # "write" /\ UNCHANGED <<plex, born>>
        /\ recipe' = recipe \/ recipe'.keys = runs[r].keys
    BY <1>5, CloseDoes, RecordDoes, FailDoes DEF GoneTo, Failed
  <2>2. PICK a \in Runs, b \in Runs : a = runs[r] /\ b = runs'[r]
    BY <2>1
  <2>3. KeysOK(a.keys) /\ PlexGoesOn
    BY <2>1, <2>2, PlexStays DEF Named, Busy
  <2>4. (KeysOK(b.keys) /\ FoundOK(b))'
    BY <2>1, <2>2, <2>3, SameKeys
  <2>5. (KeysOK(runs[r].keys) /\ FoundOK(runs[r]))'
    BY <2>2, <2>4 DEF KeysOK, FoundOK
  <2>6. recipe'.keys = recipe.keys \/ KeysOK(recipe.keys)'
    BY <2>1, <2>2, <2>4 DEF KeysOK
  <2> QED
    BY <2>1, <2>3, <2>5, <2>6, NamedOthers
<1>6. CASE Finish(r)
  <2>1. /\ runs[r] \in Runs /\ runs[r].pc = "finish" /\ ~ Busy(r)' /\ OthersGo(r)
        /\ UNCHANGED <<plex, born>>
        /\ recipe'.keys = recipe.keys \/ recipe'.keys = runs[r].keys
    BY <1>6, FinishDoes
  <2>2. PICK a \in Runs : a = runs[r]
    BY <2>1
  <2>3. KeysOK(a.keys) /\ PlexGoesOn
    BY <2>1, <2>2, PlexStays DEF Named, Busy
  <2>4. KeysOK(a.keys)'
    BY <2>3, RunFields, KeysGoOn
  <2>5. recipe'.keys = recipe.keys \/ KeysOK(recipe.keys)'
    BY <2>1, <2>2, <2>4 DEF KeysOK
  <2> QED
    BY <2>1, <2>3, <2>5, NamedOthers
<1> QED
  BY <1>1, <1>2, <1>3, <1>4, <1>5, <1>6 DEF Step

LEMMA NamedWorld ==
  ASSUME Typed, Typed', Named, Tick \/ RunNow \/ Crash \/ Edit \/ CatalogChanges \/ SeasonTurns \/ UserInPlex
  PROVE  Named'
<1>0. TypeOK
  BY DEF Typed
<1>1. ASSUME runs' = Disturbed, PlexGoesOn, recipe'.keys = recipe.keys PROVE Named'
  <2>1. \A o \in Runners : Busy(o)' => Busy(o) /\ SameRun(runs[o], runs'[o])
    BY <1>0, <1>1, DisturbedOthers
  <2> QED
    BY <1>1, <2>1, NamedKept
<1>2. CASE Tick \/ RunNow
  <2>1. ASSUME NEW r \in Runners, ~ Busy(r), runs'[r] \in Runs, OthersGo(r), BegunRun(runs'[r]),
               UNCHANGED <<set, recipe, catalog, season, plex, born>>
        PROVE  Named'
    <3>1. PlexGoesOn
      BY <2>1, PlexStays
    <3>2. PICK b \in Runs : b = runs'[r]
      BY <2>1
    <3>3. b.pc = "look" /\ b.keys = recipe.keys
      BY <2>1, <3>2 DEF BegunRun, Begun
    <3>4. PICK keys \in [Titles -> Keys \cup {None}] : keys = recipe.keys
      BY <1>0 DEF TypeOK, Rows
    <3>5. KeysOK(keys)'
      BY <3>1, <3>4, KeysGoOn DEF Named
    <3>6. (KeysOK(runs[r].keys) /\ FoundOK(runs[r]))'
      BY <3>2, <3>3, <3>4, <3>5 DEF KeysOK, FoundOK
    <3> QED
      BY <2>1, <3>1, <3>6, NamedOthers
  <2>2. ASSUME recipe' = [recipe EXCEPT !.summary = Summary("dormant", {})], UNCHANGED <<plex, born>>
        PROVE  recipe'.keys = recipe.keys /\ PlexGoesOn
    BY <1>0, <2>2, PlexStays DEF TypeOK, Rows
  <2> QED
    BY <1>1, <1>2, <2>1, <2>2, StartsDo
<1>3. CASE Crash
  <2>1. PlexGoesOn /\ recipe' = recipe
    BY <1>3, PlexStays DEF Crash
  <2>2. \A o \in Runners : ~ Busy(o)'
    BY <1>3, IdleFields DEF Crash, Busy
  <2> QED
    BY <2>1, <2>2, NamedKept
<1>4. CASE Edit \/ CatalogChanges
  <2>1. PlexGoesOn /\ recipe'.keys = recipe.keys /\ runs' = Disturbed
    BY <1>0, <1>4, PlexStays DEF Edit, CatalogChanges, TypeOK, Rows
  <2> QED
    BY <1>1, <2>1
<1>5. CASE SeasonTurns
  BY <1>5 DEF SeasonTurns, Named, Busy, KeysOK, FoundOK, Live, Mine
<1>6. CASE UserInPlex
  <2>1. runs' = Disturbed /\ recipe' = recipe
    BY <1>6 DEF UserInPlex
  <2>2. ASSUME NEW v \in Values, NewShelf(Shelf(<<recipe.pattern, v>>, {Min(Items)}, FALSE, FALSE))
        PROVE  PlexGoesOn
    <3>1. Min(Items) \in Items
      BY MinIn
    <3>2. <<recipe.pattern, v>> \in Titles
      BY <1>0 DEF TypeOK, Rows, Titles
    <3>3. Shelf(<<recipe.pattern, v>>, {Min(Items)}, FALSE, FALSE) \in Shelves
      BY <3>1, <3>2 DEF Shelf, Shelves
    <3> QED
      BY <2>2, <3>3, PlexAdded
  <2>3. ASSUME NEW k \in Live, plex' = [plex EXCEPT ![k] = Gone], UNCHANGED born PROVE PlexGoesOn
    BY <2>3, PlexDeleted DEF Live
  <2>4. PlexGoesOn
    BY <1>6, <2>2, <2>3 DEF UserInPlex
  <2> QED
    BY <1>1, <2>1, <2>4
<1> QED
  BY <1>2, <1>3, <1>4, <1>5, <1>6

TypedNamed == Typed /\ Named

LEMMA NamedInit == Init => Named
<1> SUFFICES ASSUME Init PROVE Named
  OBVIOUS
<1>1. \A k \in Keys : plex[k] = Gone
  BY DEF Init
<1>2. \A r \in Runners : ~ Busy(r)
  BY IdleFields DEF Init, Busy
<1>3. recipe.keys = [t \in Titles |-> None]
  BY DEF Init
<1>4. KeysOK(recipe.keys)
  BY <1>3, NoneKey, TypedInit DEF KeysOK
<1> QED
  BY <1>1, <1>2, <1>4 DEF Named

LEMMA NamedStep == TypedNamed /\ [Next]_vars => TypedNamed'
<1> SUFFICES ASSUME Typed, Named, [Next]_vars PROVE TypedNamed'
  BY DEF TypedNamed
<1>1. Typed'
  BY TypedStep
<1>2. CASE Next
  <2>1. Named'
    BY <1>1, <1>2, NamedRun, NamedWorld DEF Next
  <2> QED
    BY <1>1, <2>1 DEF TypedNamed
<1>3. CASE UNCHANGED vars
  BY <1>1, <1>3 DEF vars, TypedNamed, Named, Busy, KeysOK, FoundOK, Live, Mine
<1> QED
  BY <1>2, <1>3

LEMMA NamedAlways == Spec => []TypedNamed
<1>1. Init => TypedNamed
  BY TypedInit, NamedInit DEF TypedNamed
<1> QED
  BY <1>1, NamedStep, PTL DEF Spec

-----------------------------------------------------------------------------
(***************************************************************************)
(* The shelves of the user.                                                *)
(***************************************************************************)

Spared == \A k \in Live :
            plex'[k] # plex[k] /\ ~plex[k].made /\ ~plex[k].owned =>
              \/ left'.user < left.user
              \/ \E r \in Runners : runs[r].pc = "write" /\ runs[r].adopt

LEMMA SparedStep == TypedNamed /\ [Next]_vars => Spared
<1> SUFFICES ASSUME Typed, Named, [Next]_vars,
                    NEW k \in Live, plex'[k] # plex[k], ~plex[k].made, ~plex[k].owned
             PROVE  \/ left'.user < left.user
                    \/ \E r \in Runners : runs[r].pc = "write" /\ runs[r].adopt
  BY DEF TypedNamed, Spared
<1>0. TypeOK /\ k \in Keys /\ k <= born /\ ~ Mine(k) /\ plex \in [Keys -> Shelves \cup {Gone}]
  BY LiveBorn DEF Typed, TypeOK, Live, Mine
<1>1. ASSUME NEW s \in Shelves, NewShelf(s) PROVE FALSE
  <2>1. born' = born + 1 /\ plex' = [plex EXCEPT ![born'] = s]
    BY <1>0, <1>1, NewShelfType
  <2>2. k # born'
    BY <1>0, <2>1, BornIsNat, KeysAreNats
  <2> QED
    BY <1>0, <2>1, <2>2
<1>2. ASSUME NEW r \in Runners, Create(r) PROVE FALSE
  <2>1. UNCHANGED plex \/ \E s \in Shelves : NewShelf(s)
    BY <1>2, CreateDoes
  <2> QED
    BY <1>1, <2>1
<1>3. ASSUME NEW r \in Runners, Update(r) PROVE runs[r].pc = "write" /\ runs[r].adopt
  <2>1. /\ runs[r] \in Runs /\ runs[r].pc = "write" /\ runs[r].found \in Keys
        /\ UNCHANGED plex \/ \E s \in Shelves : plex' = [plex EXCEPT ![runs[r].found] = s]
    BY <1>3, UpdateDoes
  <2>2. runs[r].found = k
    BY <1>0, <2>1
  <2>3. FoundOK(runs[r])
    BY <2>1 DEF Named, Busy
  <2> QED
    BY <1>0, <2>1, <2>2, <2>3 DEF FoundOK
<1>4. ASSUME NEW r \in Runners, Drop(r) PROVE FALSE
  <2> DEFINE t == FirstTitle(runs[r].drop)
             j == Known(runs[r].keys, t)
  <2>1. /\ runs[r].pc = "look" /\ t \in Titles
        /\ plex' = IF j = None THEN plex ELSE [plex EXCEPT ![j] = Gone]
    BY <1>4, DropDoes
  <2>2. j = k /\ j # None
    BY <1>0, <2>1
  <2>3. k = runs[r].keys[t] \/ k \in Owned(t)
    BY <2>2, KnownIs
  <2>4. KeysOK(runs[r].keys)
    BY <2>1 DEF Named, Busy
  <2> QED
    BY <1>0, <2>1, <2>3, <2>4 DEF KeysOK, Owned, Mine
<1>5. ASSUME UserInPlex PROVE left'.user < left.user
  <2>1. Spend("user")
    BY <1>5 DEF UserInPlex
  <2> QED
    BY <1>0, <2>1, SpendType
<1>6. ASSUME NEW r \in Runners, Look(r) \/ Close(r) \/ RecordSet(r) \/ Finish(r) \/ Fail(r) PROVE FALSE
  BY <1>6, LookDoes, CloseDoes, RecordDoes, FinishDoes, FailDoes
<1>7. ASSUME Tick \/ RunNow \/ Crash \/ Edit \/ CatalogChanges \/ SeasonTurns PROVE FALSE
  BY <1>7, StartsDo DEF Crash, Edit, CatalogChanges, SeasonTurns
<1> QED
  BY <1>2, <1>3, <1>4, <1>5, <1>6, <1>7 DEF Next, Step, vars

\* A shelf that the user made and that no run has taken over is changed only by
\* the user, or by a run of a recipe that adopts.
THEOREM ShelvesSpared == Spec => UserShelvesKept
<1>1. TypedNamed /\ [Next]_vars => [Spared]_vars
  BY SparedStep
<1>2. Spec => [][Spared]_vars
  BY <1>1, NamedAlways, PTL DEF Spec
<1> QED
  BY <1>2 DEF UserShelvesKept, Spared

-----------------------------------------------------------------------------
(***************************************************************************)
(* A run that nothing came in the way of.  At any time the titles it is    *)
(* done with have the shelf that was asked for; the one it is writing has  *)
(* the shelf it found or none; those it will drop are not among them.      *)
(***************************************************************************)

Synced(keys, t) ==
  LET k == keys[t]
  IN  IF k = None THEN Owned(t) = {} /\ Resolved(t[2]) = {}
      ELSE k \in Live /\ plex[k].title = t /\ plex[k].items = Resolved(t[2])

Wanted(run) == {<<run.pattern, v>> : v \in Children}

QuietRun(run) ==
  /\ run.mode = "set" => run.todo \cup run.done = Wanted(run)
  /\ run.drop \cap (run.todo \cup run.done) = {}
  /\ \A t \in run.done : Synced(run.keys, t)
  /\ run.pc = "write" =>
       LET t == FirstTitle(run.todo)
       IN  /\ run.want = Resolved(t[2])
           /\ IF run.found = None THEN Owned(t) = {} ELSE run.found \in Live
  /\ run.pc \in {"record", "finish"} => run.todo = {}

QuietOK ==
  \A r \in Runners : Busy(r) /\ runs[r].quiet /\ runs[r].job = "ok" => QuietRun(runs[r])

\* As long as the shelves, the catalog and the setting are the same.
SameWorld == UNCHANGED <<plex, catalog, set>>

LEMMA SameResolved ==
  ASSUME UNCHANGED <<catalog, set>>, NEW v
  PROVE  Resolved(v)' = Resolved(v) /\ Children' = Children
BY DEF Resolved, Selected, Limited, Limit, Pinned, Filtered, InOrder, Tracked,
       Children

LEMMA SameSynced ==
  ASSUME SameWorld, NEW keys, NEW t, Synced(keys, t)
  PROVE  Synced(keys, t)'
<1>1. Resolved(t[2])' = Resolved(t[2])
  BY SameResolved DEF SameWorld
<1>2. Owned(t)' = Owned(t) /\ Live' = Live
  BY DEF SameWorld, Owned, Titled, Live
<1> QED
  BY <1>1, <1>2 DEF Synced, SameWorld

LEMMA SameWanted ==
  ASSUME UNCHANGED <<catalog, set>>, NEW a, NEW b, b.pattern = a.pattern
  PROVE  Wanted(b)' = Wanted(a)
BY SameResolved DEF Wanted

\* A run that goes on without a change of what it is doing.
LEMMA QuietGoesOn ==
  ASSUME SameWorld, NEW a \in Runs, NEW b \in Runs, QuietRun(a),
         b.mode = a.mode, b.pattern = a.pattern, b.keys = a.keys,
         b.todo = a.todo, b.drop = a.drop, b.done = a.done,
         b.pc = "write" => b.pc = a.pc /\ b.found = a.found /\ b.want = a.want,
         b.pc \in {"record", "finish"} => b.todo = {}
  PROVE  QuietRun(b)'
<1>1. Wanted(b)' = Wanted(a)
  BY SameWanted DEF SameWorld
<1>2. \A t \in b.done : Synced(b.keys, t)'
  BY SameSynced DEF QuietRun
<1>3. ASSUME b.pc = "write"
      PROVE  LET t == FirstTitle(b.todo)
             IN  /\ b.want = Resolved(t[2])'
                 /\ IF b.found = None THEN Owned(t)' = {} ELSE b.found \in Live'
  <2> DEFINE t == FirstTitle(b.todo)
  <2>1. Resolved(t[2])' = Resolved(t[2])
    BY SameResolved DEF SameWorld
  <2>2. Owned(t)' = Owned(t) /\ Live' = Live
    BY DEF SameWorld, Owned, Titled, Live
  <2> QED
    BY <1>3, <2>1, <2>2 DEF QuietRun
<1> QED
  BY <1>1, <1>2, <1>3 DEF QuietRun

\* Another shelf of another title is written or deleted.
LEMMA SyncedBeside ==
  ASSUME Typed, Typed', UNCHANGED <<catalog, set>>, NEW keys \in [Titles -> Keys \cup {None}],
         NEW t \in Titles, Synced(keys, t), NEW k \in Keys,
         \A j \in Keys \ {k} : plex'[j] = plex[j],
         k \in Live => plex[k].title # t,
         k \in Live' => plex'[k].title # t
  PROVE  Synced(keys, t)'
<1>1. Resolved(t[2])' = Resolved(t[2])
  BY SameResolved
<1>2. CASE keys[t] = None
  <2>1. Owned(t)' = {}
    BY <1>2 DEF Synced, Owned, Titled, Live
  <2> QED
    BY <1>1, <1>2, <2>1 DEF Synced
<1>3. CASE keys[t] # None
  <2>1. keys[t] \in Live /\ plex[keys[t]].title = t /\ keys[t] \in Keys
    BY <1>3 DEF Synced, Live
  <2>2. keys[t] # k
    BY <2>1
  <2>3. plex'[keys[t]] = plex[keys[t]] /\ keys[t] \in Live'
    BY <2>1, <2>2 DEF Live
  <2> QED
    BY <1>1, <1>3, <2>3 DEF Synced
<1> QED
  BY <1>2, <1>3

\* The run has written the shelf of its title.
LEMMA QuietWrote ==
  ASSUME Typed, Typed', UNCHANGED <<catalog, set>>, NEW a \in Runs, NEW b \in Runs, QuietRun(a),
         NEW key, Wrote(a, b, key), FirstTitle(a.todo) \in a.todo,
         Synced(b.keys, FirstTitle(a.todo))',
         \A t \in a.done \ {FirstTitle(a.todo)} : Synced(a.keys, t)'
  PROVE  QuietRun(b)'
<1> DEFINE t == FirstTitle(a.todo)
<1>1. /\ b.mode = a.mode /\ b.pattern = a.pattern /\ b.pc = "look"
      /\ b.todo = a.todo \ {t} /\ b.drop = a.drop /\ b.done = a.done \cup {t}
      /\ \A u \in Titles \ {t} : b.keys[u] = a.keys[u]
  BY DEF Wrote, SameOrder
<1>2. Wanted(b)' = Wanted(a)
  BY <1>1, SameWanted
<1>3. \A u \in b.done : Synced(b.keys, u)'
  <2>1. ASSUME NEW u \in a.done, u # t PROVE Synced(b.keys, u)'
    <3>1. u \in Titles
      BY <2>1, RunFields
    <3>2. b.keys[u] = a.keys[u] /\ Synced(a.keys, u)'
      BY <1>1, <2>1, <3>1
    <3> QED
      BY <3>2 DEF Synced
  <2> QED
    BY <1>1, <2>1
<1>4. b.drop \cap (b.todo \cup b.done) = {}
  BY <1>1 DEF QuietRun
<1>5. b.mode = "set" => b.todo \cup b.done = Wanted(a)
  BY <1>1 DEF QuietRun
<1> QED
  BY <1>1, <1>2, <1>3, <1>4, <1>5 DEF QuietRun

\* The runs of the other threads.
LEMMA QuietOthers ==
  ASSUME Typed, Typed', QuietOK, UNCHANGED <<catalog, set>>, NEW r \in Runners, OthersGo(r),
         Busy(r)' /\ runs'[r].quiet /\ runs'[r].job = "ok" => QuietRun(runs[r])'
  PROVE  QuietOK'
<1> SUFFICES ASSUME NEW o \in Runners, o # r, Busy(o)', runs'[o].quiet, runs'[o].job = "ok"
             PROVE  QuietRun(runs[o])'
  BY DEF QuietOK
<1>1. Busy(o) /\ SameRun(runs[o], runs'[o]) /\ runs[o].quiet /\ plex' = plex
  BY DEF OthersGo
<1>2. runs[o] \in Runs /\ runs'[o] \in Runs
  BY <1>1, BusyRun DEF Typed, SameRun
<1>3. PICK a \in Runs, b \in Runs : a = runs[o] /\ b = runs'[o]
  BY <1>2
<1>4. QuietRun(a)
  BY <1>1, <1>3 DEF QuietOK, SameRun
<1>5. a.pc \in {"record", "finish"} => a.todo = {}
  BY <1>4 DEF QuietRun
<1>6. QuietRun(b)'
  BY <1>1, <1>3, <1>4, <1>5, QuietGoesOn DEF SameRun, SameWorld
<1> QED
  BY <1>3, <1>6 DEF QuietRun, Wanted

LEMMA QuietUnchanged ==
  ASSUME Typed, QuietOK, UNCHANGED <<runs, plex, catalog, set>>
  PROVE  QuietOK'
<1> SUFFICES ASSUME NEW r \in Runners, Busy(r), runs[r].quiet, runs[r].job = "ok"
             PROVE  QuietRun(runs[r])'
  BY DEF QuietOK, Busy
<1>1. PICK a \in Runs : a = runs[r]
  BY BusyRun DEF Typed
<1>2. QuietRun(a)
  BY <1>1 DEF QuietOK
<1>3. a.pc \in {"record", "finish"} => a.todo = {}
  BY <1>2 DEF QuietRun
<1>4. QuietRun(a)'
  BY <1>2, <1>3, QuietGoesOn DEF SameWorld
<1> QED
  BY <1>1, <1>4 DEF QuietRun, Wanted

LEMMA QuietStepRun ==
  ASSUME Typed, Typed', Named, QuietOK, NEW r \in Runners, Step(r) \/ Fail(r)
  PROVE  QuietOK'
<1>0. TypeOK /\ TypeOK'
  BY DEF Typed
<1>1. /\ UNCHANGED <<catalog, set>> /\ OthersGo(r) /\ runs[r] \in Runs /\ Busy(r)
      /\ Busy(r)' => runs'[r] \in Runs
  BY <1>0, BusyRun, LookDoes, CreateDoes, UpdateDoes, DropDoes, CloseDoes, RecordDoes, FinishDoes, FailDoes
     DEF Step
<1> SUFFICES ASSUME Busy(r)', runs'[r].quiet, runs'[r].job = "ok"
             PROVE  QuietRun(runs[r])'
  BY <1>1, QuietOthers
<1>2. PICK a \in Runs, b \in Runs : a = runs[r] /\ b = runs'[r]
  BY <1>1
<1>3. ~ Failed(a, b) /\ ~ Finish(r)
  BY <1>2, FinishDoes DEF Failed
<1> SUFFICES QuietRun(b)'
  BY <1>2 DEF QuietRun, Wanted
<1>4. SameOrder(a, b)
  BY <1>2, <1>3, LookDoes, CreateDoes, UpdateDoes, DropDoes, CloseDoes, RecordDoes, FailDoes
     DEF Step, Looked, Wrote, Dropped, GoneTo
<1>5. QuietRun(a) /\ a.job = "ok" /\ b.mode = a.mode /\ b.pattern = a.pattern
  BY <1>1, <1>2, <1>4 DEF QuietOK, SameOrder
<1>6. KeysOK(a.keys) /\ FoundOK(a)
  BY <1>1, <1>2 DEF Named
<1>7. a.todo \in SUBSET Titles /\ a.drop \in SUBSET Titles /\ a.done \in SUBSET Titles
      /\ a.keys \in [Titles -> Keys \cup {None}]
  BY RunFields
<1>8. CASE Look(r)
  <2> DEFINE t == FirstTitle(a.todo)
  <2>1. Looked(a, b) /\ SameWorld
    BY <1>2, <1>3, <1>8, LookDoes DEF SameWorld
  <2>2. Resolved(t[2])' = Resolved(t[2]) /\ Wanted(b)' = Wanted(a)
    BY <1>1, <1>5, SameResolved, SameWanted
  <2>3. Owned(t)' = Owned(t) /\ Live' = Live
    BY <2>1 DEF SameWorld, Owned, Titled, Live
  <2>4. \A u \in b.done : Synced(b.keys, u)'
    BY <1>5, <2>1, SameSynced DEF QuietRun, Looked
  <2>5. b.want = Resolved(t[2])' /\ IF b.found = None THEN Owned(t)' = {} ELSE b.found \in Live'
    <3>1. CASE Known(a.keys, t) = None /\ Titled(t) # {}
      <4>1. b.found \in Titled(t) /\ b.found # None
        <5>1. b.found = First(Titled(t))
          BY <2>1, <3>1 DEF Looked
        <5>2. First(Titled(t)) \in Titled(t)
          BY <3>1, TakenIs
        <5>3. Titled(t) \subseteq Keys
          BY DEF Titled, Live
        <5> QED
          BY <5>1, <5>2, <5>3, KeysAreNats
      <4>2. b.found \in Live'
        BY <2>3, <4>1 DEF Titled
      <4>3. b.want = Resolved(t[2])'
        BY <1>5, <2>1, <2>2 DEF Looked
      <4> QED
        BY <4>1, <4>2, <4>3
    <3>2. CASE ~ (Known(a.keys, t) = None /\ Titled(t) # {})
      <4>1. b.found = Known(a.keys, t)
        BY <2>1, <3>2 DEF Looked
      <4> QED
        BY <1>5, <2>1, <2>2, <2>3, <4>1, KnownIs DEF Looked
    <3> QED
      BY <3>1, <3>2
  <2>6. b.todo = a.todo /\ b.drop = a.drop /\ b.done = a.done /\ b.pc = "write"
    BY <2>1 DEF Looked
  <2> QED
    BY <1>5, <2>2, <2>4, <2>5, <2>6 DEF QuietRun
<1>9. CASE Create(r)
  <2> DEFINE t == FirstTitle(a.todo)
  <2>1. a.pc = "write" /\ a.found = None /\ t \in a.todo /\ t \in Titles
    BY <1>2, <1>9, CreateDoes
  <2>2. a.want = Resolved(t[2]) /\ Owned(t) = {}
    BY <1>5, <2>1 DEF QuietRun
  <2>3. Resolved(t[2])' = Resolved(t[2])
    BY <1>1, SameResolved
  <2>4. CASE a.want = {} /\ UNCHANGED plex /\ Wrote(a, b, None)
    <3>1. SameWorld
      BY <1>1, <2>4 DEF SameWorld
    <3>2. Owned(t)' = Owned(t)
      BY <2>4 DEF Owned, Titled, Live
    <3>3. b.keys[t] = None
      BY <2>4 DEF Wrote
    <3>4. Synced(b.keys, t)'
      BY <2>2, <2>3, <2>4, <3>2, <3>3 DEF Synced
    <3>5. \A u \in a.done \ {t} : Synced(a.keys, u)'
      BY <1>5, <3>1, SameSynced DEF QuietRun
    <3> QED
      BY <1>1, <1>5, <2>1, <2>4, <3>4, <3>5, QuietWrote
  <2>5. ASSUME NEW marked \in BOOLEAN, NEW s \in Shelves, s = Shelf(t, a.want, marked, TRUE),
               NewShelf(s), Wrote(a, b, born')
        PROVE  QuietRun(b)'
    <3>1. born' = born + 1 /\ born' \in Keys /\ plex' = [plex EXCEPT ![born'] = s]
      BY <1>0, <2>5, NewShelfType
    <3>2. plex'[born'] = s /\ \A j \in Keys \ {born'} : plex'[j] = plex[j]
      BY <1>0, <3>1 DEF TypeOK
    <3>3. s.title = t /\ s.items = a.want /\ s # Gone
      BY <2>5, ShelvesLive DEF Shelf
    <3>4. born' \notin Live
      <4>1. ASSUME born' \in Live PROVE FALSE
        <5>1. born' <= born
          BY <4>1, LiveBorn
        <5> QED
          BY <3>1, <5>1, BornIsNat
      <4> QED
        BY <4>1
    <3>5. b.keys[t] = born' /\ born' \in Live' /\ born' # None
      BY <2>5, <3>1, <3>2, <3>3, KeysAreNats DEF Wrote, Live
    <3>6. Synced(b.keys, t)'
      BY <2>2, <2>3, <3>2, <3>3, <3>5 DEF Synced
    <3>7. ASSUME NEW u \in a.done, u # t PROVE Synced(a.keys, u)'
      <4>1. Synced(a.keys, u) /\ u \in Titles
        BY <1>5, <1>7, <3>7 DEF QuietRun
      <4>2. PICK k \in Keys : k = born'
        BY <3>1
      <4>3. plex'[k].title # u /\ k \notin Live /\ \A j \in Keys \ {k} : plex'[j] = plex[j]
        BY <3>2, <3>3, <3>4, <3>7, <4>2
      <4> QED
        BY <1>1, <1>7, <4>1, <4>3, SyncedBeside
    <3>8. PICK key : key = born'
      OBVIOUS
    <3>9. Wrote(a, b, key)
      BY <2>5, <3>8
    <3> QED
      BY <1>1, <1>5, <2>1, <3>6, <3>7, <3>9, QuietWrote
  <2> QED
    BY <1>2, <1>9, <2>4, <2>5, CreateDoes
<1>10. CASE Update(r)
  <2> DEFINE t == FirstTitle(a.todo)
             k == a.found
  <2>1. a.pc = "write" /\ k \in Keys /\ t \in a.todo /\ t \in Titles
    BY <1>2, <1>10, UpdateDoes
  <2>2. a.want = Resolved(t[2])
    BY <1>5, <2>1 DEF QuietRun
  <2>3. Resolved(t[2])' = Resolved(t[2])
    BY <1>1, SameResolved
  <2>4. k \in Live /\ \E s \in Shelves :
          /\ plex' = [plex EXCEPT ![k] = s] /\ s.title = plex[k].title
          /\ s.items = a.want /\ Wrote(a, b, k)
    BY <1>2, <1>3, <1>10, UpdateDoes
  <2>5. PICK s \in Shelves :
          /\ plex' = [plex EXCEPT ![k] = s] /\ s.title = plex[k].title
          /\ s.items = a.want /\ Wrote(a, b, k)
    BY <2>4
  <2>6. plex[k].title = t /\ s # Gone
    BY <1>6, <2>1, <2>4, ShelvesLive DEF FoundOK
  <2>7. plex'[k] = s /\ \A j \in Keys \ {k} : plex'[j] = plex[j]
    BY <1>0, <2>1, <2>5 DEF TypeOK
  <2>8. b.keys[t] = k /\ k \in Live' /\ k # None
    BY <2>1, <2>5, <2>6, <2>7, KeysAreNats DEF Wrote, Live
  <2>9. Synced(b.keys, t)'
    BY <2>2, <2>3, <2>5, <2>6, <2>7, <2>8 DEF Synced
  <2>10. ASSUME NEW u \in a.done, u # t PROVE Synced(a.keys, u)'
    <3>1. Synced(a.keys, u) /\ u \in Titles
      BY <1>5, <1>7, <2>10 DEF QuietRun
    <3>2. plex[k].title # u /\ plex'[k].title # u
      BY <2>5, <2>6, <2>7, <2>10
    <3> QED
      BY <1>1, <1>7, <2>1, <2>7, <3>1, <3>2, SyncedBeside
  <2> QED
    BY <1>1, <1>5, <2>1, <2>5, <2>9, <2>10, QuietWrote
<1>11. CASE Drop(r)
  <2> DEFINE t == FirstTitle(a.drop)
             k == Known(a.keys, t)
  <2>1. /\ a.pc = "look" /\ a.todo = {} /\ t \in a.drop /\ t \in Titles /\ Dropped(a, b)
        /\ plex' = IF k = None THEN plex ELSE [plex EXCEPT ![k] = Gone]
    BY <1>2, <1>11, DropDoes
  <2>2. /\ b.pc = "look" /\ b.todo = {} /\ b.drop = a.drop \ {t} /\ b.done = a.done
        /\ \A u \in Titles \ {t} : b.keys[u] = a.keys[u]
    BY <2>1 DEF Dropped
  <2>3. Wanted(b)' = Wanted(a)
    BY <1>1, <1>5, SameWanted
  <2>4. ASSUME NEW u \in a.done PROVE Synced(b.keys, u)'
    <3>1. Synced(a.keys, u) /\ u \in Titles /\ u # t
      BY <1>5, <1>7, <2>1, <2>4 DEF QuietRun
    <3>2. Synced(a.keys, u)'
      <4>1. CASE k = None
        BY <1>1, <2>1, <3>1, <4>1, SameSynced DEF SameWorld
      <4>2. CASE k # None
        <5>1. k \in Live /\ (k = a.keys[t] \/ k \in Owned(t))
          BY <4>2, KnownIs
        <5>2. k \in Keys /\ plex[k].title = t
          BY <1>6, <2>1, <5>1 DEF KeysOK, Owned, Titled, Live
        <5>3. plex'[k] = Gone /\ \A j \in Keys \ {k} : plex'[j] = plex[j]
          BY <1>0, <2>1, <4>2, <5>2 DEF TypeOK
        <5>4. k \notin Live'
          BY <5>3 DEF Live
        <5> QED
          BY <1>1, <1>7, <3>1, <5>2, <5>3, <5>4, SyncedBeside
      <4> QED
        BY <4>1, <4>2
    <3> QED
      BY <2>2, <3>1, <3>2 DEF Synced
  <2> QED
    BY <1>5, <2>1, <2>2, <2>3, <2>4 DEF QuietRun
<1>12. CASE Close(r) \/ RecordSet(r)
  <2>1. /\ UNCHANGED plex /\ b.pc \in {"record", "finish"}
        /\ b.keys = a.keys /\ b.todo = a.todo /\ b.drop = a.drop /\ b.done = a.done
        /\ Close(r) => a.todo = {}
        /\ RecordSet(r) => a.pc = "record"
    BY <1>2, <1>12, CloseDoes, RecordDoes DEF GoneTo
  <2>2. a.todo = {}
    BY <1>5, <1>12, <2>1 DEF QuietRun
  <2>3. SameWorld
    BY <1>1, <2>1 DEF SameWorld
  <2> QED
    BY <1>5, <2>1, <2>2, <2>3, QuietGoesOn
<1>13. CASE Fail(r)
  BY <1>2, <1>3, <1>13, FailDoes
<1> QED
  BY <1>3, <1>8, <1>9, <1>10, <1>11, <1>12, <1>13 DEF Step

LEMMA QuietWorld ==
  ASSUME Typed, Typed', Named, QuietOK,
         Tick \/ RunNow \/ Crash \/ Edit \/ CatalogChanges \/ SeasonTurns \/ UserInPlex
  PROVE  QuietOK'
<1>0. TypeOK
  BY DEF Typed
<1>1. ASSUME runs' = Disturbed PROVE QuietOK'
  BY <1>0, <1>1, DisturbedOthers DEF QuietOK
<1>2. CASE Tick \/ RunNow
  <2>1. ASSUME NEW r \in Runners, ~ Busy(r), runs'[r] \in Runs, OthersGo(r), BegunRun(runs'[r]),
               UNCHANGED <<set, recipe, catalog, season, plex, born>>
        PROVE  QuietOK'
    <3>1. PICK b \in Runs : b = runs'[r]
      BY <2>1
    <3>2. ASSUME b.job = "ok" PROVE QuietRun(b)'
      <4>1. Begun(b, "ok", InTitles, IF recipe.mode = "set" THEN Managed(recipe) \ InTitles ELSE {})
        BY <2>1, <3>1, <3>2 DEF BegunRun, Begun
      <4>2. /\ b.pc = "look" /\ b.done = {} /\ b.todo = InTitles /\ b.drop \cap InTitles = {}
            /\ b.mode = recipe.mode /\ b.pattern = recipe.pattern
        BY <4>1 DEF Begun
      <4>3. Wanted(b)' = Wanted(b)
        BY <2>1, SameWanted
      <4>4. b.mode = "set" => b.todo = Wanted(b)
        BY <4>2 DEF InTitles, Wanted
      <4> QED
        BY <4>2, <4>3, <4>4 DEF QuietRun
    <3>3. runs'[r].job = "ok" => QuietRun(runs[r])'
      BY <3>1, <3>2 DEF QuietRun, Wanted
    <3> QED
      BY <2>1, <3>3, QuietOthers
  <2> QED
    BY <1>1, <1>2, <2>1, StartsDo
<1>3. CASE Crash
  BY <1>3, IdleFields DEF Crash, QuietOK, Busy
<1>4. CASE Edit \/ CatalogChanges \/ UserInPlex
  BY <1>1, <1>4 DEF Edit, CatalogChanges, UserInPlex
<1>5. CASE SeasonTurns
  <2>1. UNCHANGED <<runs, plex, catalog, set>>
    BY <1>5 DEF SeasonTurns
  <2> QED
    BY <2>1, QuietUnchanged
<1> QED
  BY <1>2, <1>3, <1>4, <1>5

TypedQuiet == TypedNamed /\ QuietOK

LEMMA QuietStep == TypedQuiet /\ [Next]_vars => TypedQuiet'
<1> SUFFICES ASSUME Typed, Named, QuietOK, [Next]_vars PROVE TypedQuiet'
  BY DEF TypedQuiet, TypedNamed
<1>1. TypedNamed' /\ Typed'
  BY NamedStep DEF TypedNamed
<1>2. CASE Next
  <2>1. QuietOK'
    BY <1>1, <1>2, QuietStepRun, QuietWorld DEF Next
  <2> QED
    BY <1>1, <2>1 DEF TypedQuiet
<1>3. CASE UNCHANGED vars
  <2>1. QuietOK'
    BY <1>3, QuietUnchanged DEF vars
  <2> QED
    BY <1>1, <2>1 DEF TypedQuiet
<1> QED
  BY <1>2, <1>3

LEMMA QuietMeansSynced == TypedQuiet => QuietRunSyncs
<1> SUFFICES ASSUME TypedQuiet PROVE QuietRunSyncs
  OBVIOUS
<1>1. ASSUME NEW r \in Runners, Busy(r), runs[r].pc = "finish", runs[r].job = "ok", runs[r].quiet
      PROVE  /\ runs[r].mode = "set" => runs[r].done = {<<runs[r].pattern, v>> : v \in Children}
             /\ \A t \in runs[r].done : Synced(runs[r].keys, t)
  <2>1. QuietRun(runs[r])
    BY <1>1 DEF TypedQuiet, QuietOK
  <2> QED
    BY <1>1, <2>1 DEF QuietRun, Wanted
<1> QED
  BY <1>1 DEF QuietRunSyncs, Synced

\* A run that nothing came in the way of, and that reports success, leaves
\* exactly the shelves the recipe asks for, each with exactly its items.
THEOREM QuietRunsSync == Spec => []QuietRunSyncs
<1>1. Init => TypedQuiet
  BY TypedInit, NamedInit, IdleFields DEF TypedQuiet, TypedNamed, QuietOK, Init, Busy
<1> QED
  BY <1>1, QuietStep, QuietMeansSynced, PTL DEF Spec

-----------------------------------------------------------------------------
(***************************************************************************)
(* The explanation.  What passes the filter and the pins is tracked, comes *)
(* from the list or is pinned, passes the filter or is pinned, and is not  *)
(* excluded unless it is pinned too.  A limit takes some of it, and all of *)
(* it if there are no more titles than it allows: the first n of at most n *)
(* numbers are all of them.  So the explanation's cap takes no title that  *)
(* the run does not take, and takes each of them unless they are more.     *)
(***************************************************************************)

LEMMA PinnedIs ==
  ASSUME NEW v, NEW i \in Pinned(Filtered(v))
  PROVE  /\ i \in Tracked /\ i \in set.list \cup set.include
         /\ v \in catalog[i] \/ i \in set.include
         /\ i \notin set.exclude \ set.include
BY DEF Pinned, Filtered

LEMMA PinnedFinite ==
  ASSUME NEW v
  PROVE  /\ Pinned(Filtered(v)) \subseteq Items
         /\ IsFiniteSet(Pinned(Filtered(v)))
<1>1. Pinned(Filtered(v)) \subseteq Items
  BY DEF Pinned, Filtered, Tracked
<1> QED
  BY <1>1, CatalogAssumption, FS_Subset

LEMMA LimitedIsPart ==
  ASSUME NEW S, NEW n
  PROVE  Limited(S, n) \subseteq S
BY DEF Limited, InOrder

LEMMA LimitedIsAll ==
  ASSUME NEW S \in SUBSET Items, IsFiniteSet(S), NEW n \in Nat, Cardinality(S) <= n
  PROVE  S \subseteq Limited(S, n)
<1> DEFINE pins == S \cap set.include
           rest == S \ pins
<1>1. /\ IsFiniteSet(pins) /\ IsFiniteSet(rest)
      /\ Cardinality(pins) \in Nat /\ Cardinality(rest) \in Nat
  BY FS_Subset, FS_CardinalityType
<1>2. Cardinality(rest) = Cardinality(S) - Cardinality(pins)
  <2>1. S \cap pins = pins
    OBVIOUS
  <2> QED
    BY <1>1, <2>1, FS_Difference
<1>3. Cardinality(S) \in Nat
  BY FS_CardinalityType
<1>4. ASSUME NEW i \in rest
      PROVE  Cardinality({j \in rest : j < i}) < Under(Cardinality(pins), n)
  <2> DEFINE before == {j \in rest : j < i}
  <2>1. before \subseteq rest /\ i \notin before
    <3>1. i \in Nat
      OBVIOUS
    <3> QED
      BY <3>1
  <2>2. /\ IsFiniteSet(before) /\ Cardinality(before) <= Cardinality(rest)
        /\ Cardinality(before) # Cardinality(rest)
    BY <1>1, <2>1, FS_Subset
  <2>3. Cardinality(before) \in Nat
    BY <2>2, FS_CardinalityType
  <2> HIDE DEF before, rest, pins
  <2>4. /\ Cardinality(before) < Cardinality(rest)
        /\ Cardinality(rest) <= n - Cardinality(pins)
    BY <1>1, <1>2, <1>3, <2>2, <2>3
  <2>5. Under(Cardinality(pins), n) = n - Cardinality(pins)
    BY <1>1, <2>3, <2>4 DEF Under
  <2> QED
    BY <1>1, <2>3, <2>4, <2>5 DEF before
<1> QED
  BY <1>4 DEF Limited, InOrder

\* A title the explanation takes in its fifth stage is one a run takes.
LEMMA ExplainedIsSelected ==
  ASSUME NEW v
  PROVE  InExplanation(v) \subseteq Selected(v)
BY LimitedIsPart DEF InExplanation, Selected

LEMMA SelectedIsPart ==
  ASSUME NEW v
  PROVE  Selected(v) \subseteq Pinned(Filtered(v))
BY LimitedIsPart DEF Selected

\* And the other way round, unless the cap cuts.
LEMMA SelectedIsExplained ==
  ASSUME set \in Settings, NEW v, ~BeyondCap(v)
  PROVE  Selected(v) \subseteq InExplanation(v)
<1>1. CASE set.limit = None
  <2>1. Cardinality(Pinned(Filtered(v))) \in Nat
    BY PinnedFinite, FS_CardinalityType
  <2>2. Cardinality(Pinned(Filtered(v))) <= MaxItems
    BY <1>1, <2>1, CapAssumption DEF BeyondCap
  <2> QED
    BY <1>1, <2>2, CapAssumption, PinnedFinite, LimitedIsAll DEF Selected, InExplanation
<1>2. CASE set.limit # None
  BY <1>2 DEF Selected, InExplanation
<1> QED
  BY <1>1, <1>2

LEMMA ExplanationAgreesNow ==
  ASSUME set \in Settings
  PROVE  ExplainAgrees
<1>1. ASSUME NEW i \in Items, Explained(Main, i)
      PROVE  i \in Resolved(Main)
  BY <1>1, ExplainedIsSelected DEF Explained, Resolved
<1>2. ASSUME ~BeyondCap(Main), NEW i \in Resolved(Main)
      PROVE  Explained(Main, i)
  <2>1. i \in Selected(Main) /\ i \in Library
    BY DEF Resolved
  <2>2. i \in InExplanation(Main)
    BY <1>2, <2>1, SelectedIsExplained
  <2>3. i \in Pinned(Filtered(Main))
    BY <2>1, SelectedIsPart
  <2> QED
    BY <2>1, <2>2, <2>3, PinnedIs DEF Explained
<1> QED
  BY <1>1, <1>2 DEF ExplainAgrees

\* A title that is in the collection by the explanation's verdict is one a run
\* puts there, and the other way round unless the recipe has no limit and takes
\* more than the explanation's cap.
THEOREM ExplanationIsTheRun == Spec => []ExplainAgrees
<1>1. TypeOK => ExplainAgrees
  BY ExplanationAgreesNow DEF TypeOK
<1> QED
  BY <1>1, ShelvesTyped, PTL

-----------------------------------------------------------------------------
(***************************************************************************)
(* As long as no run was cut short or overlapped another, and no recipe    *)
(* was renamed under its shelf, the shelves that were made are all known:  *)
(* by the key of their title or their mark, in the row or, until it stores *)
(* them, in the run, and a title has one shelf that is the recipe's.       *)
(***************************************************************************)

Alone == \A j, k \in Live : plex[j].title = plex[k].title /\ Mine(j) /\ Mine(k) => j = k
Reach(keys) == \A k \in Live : plex[k].made => plex[k].owned \/ keys[plex[k].title] = k
Made(S) == \A k \in Live : plex[k].made => plex[k].title \in S
Home == IF recipe.mode = "set" THEN recipe.managed ELSE {Title(recipe)}

SetRun(run) == run.mode = "set" /\ run.job = "ok"

\* The row names every shelf, or the run does and will store it.
RowReach(run) ==
  \/ Reach(recipe.keys)
  \/ run.job = "ok" /\ IF run.mode = "set" THEN run.pc # "finish" ELSE run.todo = {}

\* The titles that have shelves are those of the row, or of a set in progress.
Places(run) == IF SetRun(run) /\ run.pc # "finish"
               THEN run.todo \cup run.done \cup run.drop ELSE Home

WriteAlone(run) ==
  run.pc = "write" =>
    /\ run.job # "ok" => run.want = {}
    /\ \A j \in Titled(FirstTitle(run.todo)) : Mine(j) => j = run.found

WholeRun(run) ==
  /\ run.mode = recipe.mode /\ run.pattern = recipe.pattern
  /\ run.mode = "single" => run.todo \cup run.drop \subseteq {Title(recipe)}
  /\ run.mode = "single" /\ run.job = "ok" => run.drop = {}
  /\ run.pc = "record" => SetRun(run) /\ run.todo = {} /\ run.drop = {}
  /\ Reach(run.keys)
  /\ RowReach(run)
  /\ Made(Places(run))
  /\ WriteAlone(run)

AllHome == Reach(recipe.keys) /\ Made(Home)

WholeOK ==
  whole => /\ Alone
           /\ \A r, o \in Runners : Busy(r) /\ Busy(o) => r = o
           /\ (\A r \in Runners : ~Busy(r)) => AllHome
           /\ \A r \in Runners : Busy(r) => WholeRun(runs[r])

\* No shelf is made, renamed or loses its mark.
FewerMade ==
  \A k \in Live' : plex'[k].made =>
    /\ k \in Live /\ plex[k].made /\ plex'[k].title = plex[k].title
    /\ plex[k].owned => plex'[k].owned

\* Nor does one become the recipe's.
FewerMine ==
  /\ FewerMade
  /\ \A k \in Live' : Mine(k)' => k \in Live /\ Mine(k) /\ plex'[k].title = plex[k].title

SameHome == /\ recipe'.mode = recipe.mode /\ recipe'.pattern = recipe.pattern
            /\ recipe'.keys = recipe.keys /\ recipe'.managed = recipe.managed

LEMMA AloneKept == ASSUME FewerMine, Alone PROVE Alone'
<1> SUFFICES ASSUME NEW j \in Live', NEW k \in Live', plex'[j].title = plex'[k].title, Mine(j)', Mine(k)'
             PROVE  j = k
  BY DEF Alone
<1> QED
  BY DEF FewerMine, Alone

LEMMA ReachKept == ASSUME FewerMade, NEW keys, Reach(keys) PROVE Reach(keys)'
<1> SUFFICES ASSUME NEW k \in Live', plex'[k].made
             PROVE  plex'[k].owned \/ keys[plex'[k].title] = k
  BY DEF Reach
<1>1. k \in Live /\ plex[k].made /\ plex'[k].title = plex[k].title /\ (plex[k].owned => plex'[k].owned)
  BY DEF FewerMade
<1> QED
  BY <1>1 DEF Reach

LEMMA MadeKept == ASSUME FewerMade, NEW S, Made(S) PROVE Made(S)'
<1> SUFFICES ASSUME NEW k \in Live', plex'[k].made PROVE plex'[k].title \in S
  BY DEF Made
<1>1. k \in Live /\ plex[k].made /\ plex'[k].title = plex[k].title
  BY DEF FewerMade
<1> QED
  BY <1>1 DEF Made

LEMMA HomeKept ==
  ASSUME SameHome
  PROVE  Home' = Home /\ Title(recipe)' = Title(recipe)
BY DEF SameHome, Home, Title

LEMMA AllHomeKept == ASSUME FewerMade, SameHome, AllHome PROVE AllHome'
<1>1. PICK keys, S : keys = recipe.keys /\ S = Home
  OBVIOUS
<1>2. Reach(keys)' /\ Made(S)'
  BY <1>1, ReachKept, MadeKept DEF AllHome
<1>3. recipe'.keys = keys /\ Home' = S
  BY <1>1, HomeKept DEF SameHome
<1> QED
  BY <1>2, <1>3 DEF AllHome, Reach, Made

LEMMA RowReachKept ==
  ASSUME FewerMade, SameHome, NEW a, NEW b, RowReach(a),
         b.job = a.job, b.mode = a.mode,
         b.pc = "finish" => a.pc = "finish" \/ b.mode # "set", a.todo = {} => b.todo = {}
  PROVE  RowReach(b)'
<1>1. PICK keys : keys = recipe.keys
  OBVIOUS
<1>2. CASE Reach(keys)
  BY <1>1, <1>2, ReachKept DEF RowReach, SameHome, Reach
<1>3. CASE ~ Reach(keys)
  BY <1>1, <1>3 DEF RowReach
<1> QED
  BY <1>2, <1>3

LEMMA PlacesKept ==
  ASSUME FewerMade, SameHome, NEW a, NEW b, Made(Places(a)), Places(b)' = Places(a)
  PROVE  Made(Places(b))'
<1>1. PICK S : S = Places(a)
  OBVIOUS
<1>2. Made(S)'
  BY <1>1, MadeKept
<1> QED
  BY <1>1, <1>2 DEF Made

\* A run in which nothing changes, next to such a step.
LEMMA WholeRunKept ==
  ASSUME FewerMine, SameHome, NEW a, NEW b, WholeRun(a), SameRun(a, b)
  PROVE  WholeRun(b)'
<1>1. /\ b.pc = a.pc /\ b.job = a.job /\ b.mode = a.mode /\ b.pattern = a.pattern
      /\ b.keys = a.keys /\ b.todo = a.todo /\ b.drop = a.drop
      /\ b.done = a.done /\ b.found = a.found /\ b.want = a.want
  BY DEF SameRun
<1>2. Home' = Home /\ Title(recipe)' = Title(recipe)
  BY HomeKept
<1>3. Reach(b.keys)'
  <2>1. PICK keys : keys = a.keys
    OBVIOUS
  <2> QED
    BY <1>1, <2>1, ReachKept DEF FewerMine, WholeRun, Reach
<1>4. RowReach(b)'
  BY <1>1, RowReachKept DEF FewerMine, WholeRun
<1>5. Made(Places(b))'
  BY <1>1, <1>2, PlacesKept DEF FewerMine, WholeRun, Places, SetRun
<1>6. WriteAlone(b)'
  BY <1>1 DEF WholeRun, WriteAlone, FewerMine, Titled
<1> QED
  BY <1>1, <1>2, <1>3, <1>4, <1>5, <1>6 DEF WholeRun, SetRun, SameHome

LEMMA WholeStays ==
  ASSUME Typed, Typed', WholeOK, FewerMine, SameHome, whole' => whole,
         \A o \in Runners : /\ Busy(o)' <=> Busy(o)
                            /\ Busy(o) => SameRun(runs[o], runs'[o])
  PROVE  WholeOK'
<1> SUFFICES ASSUME whole, whole'
             PROVE  /\ Alone'
                    /\ \A r, o \in Runners : Busy(r)' /\ Busy(o)' => r = o
                    /\ (\A r \in Runners : ~Busy(r)') => AllHome'
                    /\ \A r \in Runners : Busy(r)' => WholeRun(runs[r])'
  BY DEF WholeOK
<1>1. Alone'
  BY AloneKept DEF WholeOK
<1>2. (\A r \in Runners : ~Busy(r)') => AllHome'
  BY AllHomeKept DEF FewerMine, WholeOK
<1>3. ASSUME NEW r \in Runners, Busy(r)' PROVE WholeRun(runs[r])'
  <2>1. Busy(r) /\ SameRun(runs[r], runs'[r])
    BY <1>3
  <2>2. PICK a, b : a = runs[r] /\ b = runs'[r]
    OBVIOUS
  <2>3. WholeRun(b)'
    BY <2>1, <2>2, WholeRunKept DEF WholeOK
  <2> QED
    BY <2>2, <2>3 DEF WholeRun, SetRun, Places, RowReach, WriteAlone
<1> QED
  BY <1>1, <1>2, <1>3 DEF WholeOK

\* A step of the only run.
LEMMA WholeSteps ==
  ASSUME Typed, WholeOK, NEW r \in Runners, Busy(r), OthersGo(r), whole' => whole,
         whole' => Alone' /\ (Busy(r)' => WholeRun(runs[r])') /\ (~ Busy(r)' => AllHome')
  PROVE  WholeOK'
<1> SUFFICES ASSUME whole, whole'
             PROVE  /\ Alone'
                    /\ \A q, o \in Runners : Busy(q)' /\ Busy(o)' => q = o
                    /\ (\A o \in Runners : ~Busy(o)') => AllHome'
                    /\ \A o \in Runners : Busy(o)' => WholeRun(runs[o])'
  BY DEF WholeOK
<1>1. \A o \in Runners \ {r} : ~ Busy(o)'
  BY DEF OthersGo, WholeOK
<1> QED
  BY <1>1

\* Plex is as it was, or rid of a shelf.
LEMMA FewerSame == ASSUME UNCHANGED plex PROVE FewerMine
BY DEF FewerMine, FewerMade, Live, Mine

LEMMA FewerDeleted ==
  ASSUME TypeOK, NEW k \in Keys, plex' = [plex EXCEPT ![k] = Gone]
  PROVE  FewerMine
BY DEF TypeOK, FewerMine, FewerMade, Live, Mine

LEMMA FewerAdded ==
  ASSUME Typed, Named, NEW s \in Shelves, NewShelf(s), ~ s.made, ~ s.owned
  PROVE  FewerMine
<1>1. born' \in Keys /\ plex' = [plex EXCEPT ![born'] = s]
  BY NewShelfType DEF Typed
<1>2. PICK n \in Keys : n = born'
  BY <1>1
<1>3. plex'[n] = s /\ \A k \in Keys \ {n} : plex'[k] = plex[k]
  BY <1>1, <1>2 DEF Typed, TypeOK
<1>4. ~ Mine(n)' /\ ~ plex'[n].made
  BY <1>3 DEF Mine
<1> QED
  BY <1>3, <1>4 DEF FewerMine, FewerMade, Live, Mine

\* A run fails: what it made stays, and was known to the row all along.
LEMMA WholeFailed ==
  ASSUME FewerMade, SameHome, NEW a \in Runs, NEW b \in Runs, WholeRun(a), Failed(a, b),
         a.pc \in {"look", "write"}, ~ SetRun(a), a.todo \cup a.drop # {}
  PROVE  WholeRun(b)'
<1>1. /\ b.pc = "finish" /\ b.job = "error" /\ b.mode = a.mode /\ b.pattern = a.pattern
      /\ b.keys = a.keys /\ b.todo = a.todo /\ b.drop = a.drop /\ a.mode \in {"single", "set"}
  BY RunFields DEF Failed
<1>2. Home' = Home /\ Title(recipe)' = Title(recipe)
  BY HomeKept
<1>3. Reach(b.keys)'
  <2>1. PICK keys : keys = a.keys
    OBVIOUS
  <2> QED
    BY <1>1, <2>1, ReachKept DEF WholeRun, Reach
<1>4. Reach(recipe.keys)'
  <2>1. PICK keys : keys = recipe.keys
    OBVIOUS
  <2>2. Reach(keys)
    BY <1>1, <2>1 DEF WholeRun, RowReach, SetRun
  <2> QED
    BY <2>1, <2>2, ReachKept DEF Reach, SameHome
<1>5. Places(a) = Home /\ Places(b)' = Home
  BY <1>1, <1>2 DEF Places, SetRun
<1>6. Made(Places(b))'
  BY <1>5, PlacesKept DEF WholeRun
<1> QED
  BY <1>1, <1>2, <1>3, <1>4, <1>6 DEF WholeRun, RowReach, WriteAlone, SameHome

\* A title has been written, with the shelf given or with none.
LEMMA WholeWrote ==
  ASSUME NEW a \in Runs, NEW b \in Runs, NEW key, Wrote(a, b, key), WholeRun(a),
         a.pc = "write", FirstTitle(a.todo) \in a.todo, SameHome,
         Reach(b.keys)', RowReach(b)', Made(Places(a))'
  PROVE  WholeRun(b)'
<1> DEFINE t == FirstTitle(a.todo)
<1>1. /\ b.job = a.job /\ b.mode = a.mode /\ b.pattern = a.pattern /\ b.pc = "look"
      /\ b.todo = a.todo \ {t} /\ b.drop = a.drop /\ b.done = a.done \cup {t}
  BY DEF Wrote, SameOrder
<1>2. Home' = Home /\ Title(recipe)' = Title(recipe)
  BY HomeKept
<1>3. Places(b) = Places(a)
  BY <1>1 DEF Places, SetRun
<1>4. Made(Places(b))'
  <2>1. Places(b)' = Places(a)'
    BY <1>1 DEF Places, SetRun
  <2> QED
    BY <2>1 DEF Made
<1> QED
  BY <1>1, <1>2, <1>4 DEF WholeRun, WriteAlone, SameHome, SetRun

LEMMA WholeLook ==
  ASSUME Typed, Named, NEW r \in Runners, Look(r), whole, WholeOK, whole'
  PROVE  Alone' /\ WholeRun(runs[r])'
<1>1. PICK a \in Runs, b \in Runs : a = runs[r] /\ b = runs'[r]
  BY LookDoes
<1> DEFINE t == FirstTitle(a.todo)
<1>2. /\ a.pc = "look" /\ t \in a.todo /\ t \in Titles /\ FewerMine /\ SameHome
      /\ UNCHANGED <<plex, recipe>>
  BY <1>1, LookDoes, FewerSame DEF SameHome
<1>3. Busy(r) /\ WholeRun(a) /\ Alone /\ KeysOK(a.keys)
  BY <1>1, <1>2 DEF WholeOK, Named, Busy
<1>4. Alone'
  BY <1>2, <1>3, AloneKept
<1>5. WholeRun(b)'
  <2>1. CASE Failed(a, b) /\ CutShort(a)
    <3>1. ~ SetRun(a)
      BY <2>1 DEF CutShort, SetRun
    <3> QED
      BY <1>2, <1>3, <2>1, <3>1, WholeFailed DEF FewerMine
  <2>2. CASE Looked(a, b)
    <3>1. /\ b.job = a.job /\ b.mode = a.mode /\ b.pattern = a.pattern /\ b.pc = "write"
          /\ b.keys = a.keys /\ b.todo = a.todo /\ b.drop = a.drop /\ b.done = a.done
      BY <2>2 DEF Looked, SameOrder
    <3>2. Home' = Home /\ Title(recipe)' = Title(recipe)
      BY <1>2, HomeKept
    <3>3. Reach(b.keys)'
      <4>1. PICK keys : keys = a.keys
        OBVIOUS
      <4> QED
        BY <1>2, <1>3, <3>1, <4>1, ReachKept DEF FewerMine, WholeRun, Reach
    <3>4. RowReach(b)'
      BY <1>2, <1>3, <3>1, RowReachKept DEF FewerMine, WholeRun
    <3>5. Made(Places(b))'
      BY <1>2, <1>3, <3>1, <3>2, PlacesKept DEF FewerMine, WholeRun, Places, SetRun
    <3>6. b.job # "ok" => b.want = {}
      BY <2>2, <3>1 DEF Looked
    <3>7. ASSUME NEW j \in Titled(t), Mine(j) PROVE j = b.found
      <4>1. j \in Live /\ plex[j].title = t
        BY <3>7 DEF Titled
      <4>2. CASE Known(a.keys, t) = None
        <5>1. a.keys[t] \notin Live /\ Owned(t) = {}
          BY <4>2, KnownIs
        <5>2. plex[j].made /\ ~ plex[j].owned
          BY <3>7, <5>1 DEF Owned, Mine
        <5>3. a.keys[t] = j
          BY <1>3, <4>1, <5>2 DEF WholeRun, Reach
        <5> QED
          BY <4>1, <5>1, <5>3
      <4>3. CASE Known(a.keys, t) # None
        <5>1. b.found = Known(a.keys, t)
          BY <2>2, <4>3 DEF Looked
        <5>2. b.found \in Live /\ (b.found = a.keys[t] \/ b.found \in Owned(t))
          BY <4>3, <5>1, KnownIs
        <5>3. plex[b.found].title = t /\ Mine(b.found)
          BY <1>2, <1>3, <5>2 DEF KeysOK, Owned, Titled, Mine
        <5> QED
          BY <1>3, <3>7, <4>1, <5>2, <5>3 DEF Alone
      <4> QED
        BY <4>2, <4>3
    <3>8. WriteAlone(b)'
      BY <1>2, <3>1, <3>6, <3>7 DEF WriteAlone, Titled, Live, Mine
    <3> QED
      BY <1>2, <1>3, <3>1, <3>2, <3>3, <3>4, <3>5, <3>8 DEF WholeRun, SameHome
  <2> QED
    BY <1>1, <2>1, <2>2, LookDoes
<1> QED
  BY <1>1, <1>4, <1>5 DEF WholeRun, SetRun, Places, RowReach, WriteAlone

\* A title that a run fills has its place in the row, or among those of its set.
LEMMA WholeTitle ==
  ASSUME NEW a \in Runs, WholeRun(a), a.job = "ok", a.pc = "write", NEW t \in a.todo
  PROVE  t \in Places(a) /\ (a.mode = "single" => a.todo = {t})
<1>1. a.mode \in {"single", "set"}
  BY RunFields
<1>2. CASE a.mode = "single"
  BY <1>2 DEF WholeRun, Places, SetRun, Home
<1>3. CASE a.mode = "set"
  BY <1>3 DEF WholeRun, Places, SetRun, Home
<1> QED
  BY <1>1, <1>2, <1>3

LEMMA WholeCreate ==
  ASSUME Typed, Typed', Named, NEW r \in Runners, Create(r), whole, WholeOK
  PROVE  Alone' /\ WholeRun(runs[r])'
<1>0. TypeOK /\ TypeOK'
  BY DEF Typed
<1>1. PICK a \in Runs, b \in Runs : a = runs[r] /\ b = runs'[r]
  BY CreateDoes
<1> DEFINE t == FirstTitle(a.todo)
<1>2. /\ a.pc = "write" /\ a.found = None /\ t \in a.todo /\ t \in Titles /\ SameHome /\ recipe' = recipe
  BY <1>1, CreateDoes DEF SameHome
<1>3. Busy(r) /\ WholeRun(a) /\ Alone /\ KeysOK(a.keys)
  BY <1>1, <1>2 DEF WholeOK, Named, Busy
<1>4. \A j \in Titled(t) : ~ Mine(j)
  <2>1. \A j \in Titled(t) : j # None
    BY KeysAreNats DEF Titled, Live
  <2> QED
    BY <1>2, <1>3, <2>1 DEF WholeRun, WriteAlone
<1>5. CASE a.want = {} /\ UNCHANGED plex /\ Wrote(a, b, None)
  <2>1. FewerMine
    BY <1>5, FewerSame
  <2>2. Alone'
    BY <1>3, <2>1, AloneKept
  <2>3. Reach(b.keys)'
    <3> SUFFICES ASSUME NEW k \in Live', plex'[k].made
                 PROVE  plex'[k].owned \/ b.keys[plex'[k].title] = k
      BY DEF Reach
    <3>1. k \in Live /\ plex' = plex /\ plex[k].title \in Titles
      BY <1>0, <1>5, LiveShelf DEF Live, Shelves
    <3>2. plex[k].title # t
      BY <1>4, <3>1 DEF Titled, Mine
    <3>3. b.keys[plex[k].title] = a.keys[plex[k].title]
      BY <1>5, <3>1, <3>2 DEF Wrote
    <3> QED
      BY <1>3, <3>1, <3>3 DEF WholeRun, Reach
  <2>4. b.job = a.job /\ b.mode = a.mode /\ b.pc = "look" /\ (a.todo = {} => b.todo = {})
    BY <1>5 DEF Wrote, SameOrder
  <2>5. RowReach(b)'
    BY <1>2, <1>3, <2>1, <2>4, RowReachKept DEF FewerMine, WholeRun
  <2>6. Places(a)' = Places(a)
    BY <1>2, HomeKept DEF Places
  <2>7. Made(Places(a))'
    BY <1>2, <1>3, <2>1, <2>6, PlacesKept DEF FewerMine, WholeRun
  <2>8. WholeRun(b)'
    BY <1>2, <1>3, <1>5, <2>3, <2>5, <2>7, WholeWrote
  <2> QED
    BY <1>1, <2>2, <2>8 DEF WholeRun, SetRun, Places, RowReach, WriteAlone
<1>6. ASSUME NEW marked \in BOOLEAN, NEW s \in Shelves, s = Shelf(t, a.want, marked, TRUE),
             NewShelf(s), a.want # {}, Wrote(a, b, born')
      PROVE  Alone' /\ WholeRun(runs[r])'
  <2>1. PICK n \in Keys : n = born' /\ plex' = [plex EXCEPT ![n] = s]
    BY <1>0, <1>6, NewShelfType
  <2>2. plex'[n] = s /\ \A k \in Keys \ {n} : plex'[k] = plex[k]
    BY <1>0, <2>1 DEF TypeOK
  <2>3. s.title = t /\ s.made
    BY <1>6 DEF Shelf
  <2>4. \A k \in Live' \ {n} : k \in Live /\ plex'[k] = plex[k]
    BY <2>2 DEF Live
  <2>5. ASSUME NEW k \in Live' \ {n}, Mine(k)' PROVE k \in Live /\ Mine(k) /\ plex'[k].title # t
    BY <1>4, <2>4, <2>5 DEF Mine, Titled
  <2>6. Alone'
    <3> SUFFICES ASSUME NEW j \in Live', NEW k \in Live', plex'[j].title = plex'[k].title, Mine(j)', Mine(k)'
                 PROVE  j = k
      BY DEF Alone
    <3>1. CASE j = n \/ k = n
      BY <2>2, <2>3, <2>5, <3>1
    <3>2. CASE j # n /\ k # n
      BY <1>3, <2>4, <2>5, <3>2 DEF Alone
    <3> QED
      BY <3>1, <3>2
  <2>11. Wrote(a, b, n)
    BY <1>6, <2>1
  <2>7. Reach(b.keys)'
    <3> SUFFICES ASSUME NEW k \in Live', plex'[k].made
                 PROVE  plex'[k].owned \/ b.keys[plex'[k].title] = k
      BY DEF Reach
    <3>1. CASE k = n
      <4>1. b.keys[t] = n
        BY <2>11 DEF Wrote
      <4> QED
        BY <2>2, <2>3, <3>1, <4>1
    <3>2. CASE k # n
      <4>1. Mine(k)'
        BY DEF Mine
      <4>2. k \in Live /\ plex'[k] = plex[k] /\ plex[k].title # t
        BY <2>4, <2>5, <3>2, <4>1
      <4>3. plex[k].title \in Titles
        BY <1>0, <4>2, LiveShelf DEF Shelves
      <4>4. b.keys[plex[k].title] = a.keys[plex[k].title]
        BY <1>6, <4>2, <4>3 DEF Wrote
      <4> QED
        BY <1>3, <4>2, <4>4 DEF WholeRun, Reach
    <3> QED
      BY <3>1, <3>2
  <2>8. /\ a.job = "ok" /\ b.job = "ok" /\ b.mode = a.mode /\ b.pc = "look" /\ a.mode \in {"single", "set"}
        /\ b.todo = a.todo \ {t}
    BY <1>2, <1>3, <1>6, RunFields DEF Wrote, SameOrder, WholeRun, WriteAlone
  <2>9. RowReach(b)'
    <3>1. b.mode = "single" => b.todo = {}
      BY <1>2, <1>3, <2>8, WholeTitle
    <3> QED
      BY <2>8, <3>1 DEF RowReach
  <2>10. Made(Places(a))'
    <3>1. PICK S : S = Places(a)
      OBVIOUS
    <3>2. Places(a)' = S
      BY <1>2, <3>1, HomeKept DEF Places
    <3>3. t \in S /\ Made(S)
      BY <1>2, <1>3, <2>8, <3>1, WholeTitle DEF WholeRun
    <3>4. ASSUME NEW k \in Live', plex'[k].made PROVE plex'[k].title \in S
      <4>1. CASE k = n
        BY <2>2, <2>3, <3>3, <4>1
      <4>2. CASE k # n
        BY <2>4, <3>3, <3>4, <4>2 DEF Made
      <4> QED
        BY <4>1, <4>2
    <3> QED
      BY <3>2, <3>4 DEF Made
  <2>12. WholeRun(b)'
    BY <1>2, <1>3, <2>7, <2>9, <2>10, <2>11, WholeWrote
  <2> QED
    BY <1>1, <2>6, <2>12 DEF WholeRun, SetRun, Places, RowReach, WriteAlone
<1> QED
  BY <1>1, <1>5, <1>6, CreateDoes

LEMMA WholeUpdate ==
  ASSUME Typed, Typed', Named, NEW r \in Runners, Update(r), whole, WholeOK, whole'
  PROVE  Alone' /\ WholeRun(runs[r])'
<1>0. TypeOK
  BY DEF Typed
<1>1. PICK a \in Runs, b \in Runs : a = runs[r] /\ b = runs'[r]
  BY UpdateDoes
<1> DEFINE t == FirstTitle(a.todo)
           k == a.found
<1>2. /\ a.pc = "write" /\ k \in Keys /\ t \in a.todo /\ t \in Titles /\ SameHome /\ recipe' = recipe
  BY <1>1, UpdateDoes DEF SameHome
<1>3. Busy(r) /\ WholeRun(a) /\ Alone /\ FoundOK(a)
  BY <1>1, <1>2 DEF WholeOK, Named, Busy
<1>4. \A j \in Titled(t) : Mine(j) => j = k
  BY <1>2, <1>3 DEF WholeRun, WriteAlone
<1>5. CASE UNCHANGED plex /\ Failed(a, b) /\ CutShort(a)
  <2>1. FewerMine /\ ~ SetRun(a)
    BY <1>5, FewerSame DEF CutShort, SetRun
  <2>2. Alone'
    BY <1>3, <2>1, AloneKept
  <2>3. WholeRun(b)'
    BY <1>2, <1>3, <1>5, <2>1, WholeFailed DEF FewerMine
  <2> QED
    BY <1>1, <2>2, <2>3 DEF WholeRun, SetRun, Places, RowReach, WriteAlone
<1>6. ASSUME NEW s \in Shelves, k \in Live, plex' = [plex EXCEPT ![k] = s],
             s.title = plex[k].title, s.made = plex[k].made, s.owned,
             \/ Failed(a, b) /\ CutShort(a)
             \/ Wrote(a, b, k)
      PROVE  Alone' /\ WholeRun(runs[r])'
  <2>1. plex'[k] = s /\ \A j \in Keys \ {k} : plex'[j] = plex[j]
    BY <1>0, <1>2, <1>6 DEF TypeOK
  <2>2. Live' = Live /\ plex[k].title = t
    BY <1>2, <1>3, <1>6, <2>1, ShelvesLive DEF Live, FoundOK
  <2>3. FewerMade
    BY <1>6, <2>1, <2>2 DEF FewerMade, Live
  <2>4. Alone'
    <3> SUFFICES ASSUME NEW i \in Live, NEW j \in Live, plex'[i].title = plex'[j].title, Mine(i)', Mine(j)'
                 PROVE  i = j
      BY <2>2 DEF Alone
    <3>1. plex'[i].title = plex[i].title /\ plex'[j].title = plex[j].title
      BY <1>6, <2>1 DEF Live
    <3>2. (i # k => Mine(i)) /\ (j # k => Mine(j))
      BY <2>1 DEF Live, Mine
    <3>3. CASE i # k /\ j # k
      BY <1>3, <3>1, <3>2, <3>3 DEF Alone
    <3>4. CASE i = k \/ j = k
      BY <1>4, <2>2, <3>1, <3>2, <3>4 DEF Titled
    <3> QED
      BY <3>3, <3>4
  <2>5. ASSUME Failed(a, b), CutShort(a) PROVE WholeRun(b)'
    <3>1. ~ SetRun(a)
      BY <2>5 DEF CutShort, SetRun
    <3> QED
      BY <1>2, <1>3, <2>3, <2>5, <3>1, WholeFailed
  <2>6. ASSUME Wrote(a, b, k) PROVE WholeRun(b)'
    <3>1. /\ b.job = a.job /\ b.mode = a.mode /\ b.pc = "look" /\ (a.todo = {} => b.todo = {})
          /\ b.keys[t] = k /\ \A u \in Titles \ {t} : b.keys[u] = a.keys[u]
      BY <2>6 DEF Wrote, SameOrder
    <3>2. Reach(b.keys)'
      <4> SUFFICES ASSUME NEW j \in Live', plex'[j].made
                   PROVE  plex'[j].owned \/ b.keys[plex'[j].title] = j
        BY DEF Reach
      <4>1. CASE j = k
        BY <1>6, <2>1, <4>1
      <4>2. CASE j # k
        <5>1. j \in Live /\ plex'[j] = plex[j] /\ plex[j].made
          BY <2>1, <2>2, <4>2 DEF Live
        <5>2. plex[j].title # t
          BY <1>4, <4>2, <5>1 DEF Titled, Mine
        <5>3. plex[j].title \in Titles
          BY <1>0, <5>1, LiveShelf DEF Shelves
        <5>4. b.keys[plex[j].title] = a.keys[plex[j].title]
          BY <3>1, <5>2, <5>3
        <5> QED
          BY <1>3, <5>1, <5>4 DEF WholeRun, Reach
      <4> QED
        BY <4>1, <4>2
    <3>3. RowReach(b)'
      BY <1>2, <1>3, <2>3, <3>1, RowReachKept DEF WholeRun
    <3>4. Places(a)' = Places(a)
      BY <1>2, HomeKept DEF Places
    <3>5. Made(Places(a))'
      BY <1>2, <1>3, <2>3, <3>4, PlacesKept DEF WholeRun
    <3> QED
      BY <1>2, <1>3, <2>6, <3>2, <3>3, <3>5, WholeWrote
  <2>7. WholeRun(b)'
    BY <1>6, <2>5, <2>6
  <2> QED
    BY <1>1, <2>4, <2>7 DEF WholeRun, SetRun, Places, RowReach, WriteAlone
<1> QED
  BY <1>1, <1>5, <1>6, UpdateDoes

LEMMA WholeDrop ==
  ASSUME Typed, Named, NEW r \in Runners, Drop(r), whole, WholeOK
  PROVE  Alone' /\ WholeRun(runs[r])'
<1>0. TypeOK
  BY DEF Typed
<1>1. PICK a \in Runs, b \in Runs : a = runs[r] /\ b = runs'[r]
  BY DropDoes
<1> DEFINE t == FirstTitle(a.drop)
           k == Known(a.keys, t)
<1>2. /\ a.pc = "look" /\ a.todo = {} /\ t \in a.drop /\ t \in Titles /\ Dropped(a, b)
      /\ SameHome /\ plex' = IF k = None THEN plex ELSE [plex EXCEPT ![k] = Gone]
  BY <1>1, DropDoes DEF SameHome
<1>3. Busy(r) /\ WholeRun(a) /\ Alone /\ KeysOK(a.keys)
  BY <1>1, <1>2 DEF WholeOK, Named, Busy
<1>4. /\ b.job = a.job /\ b.mode = a.mode /\ b.pattern = a.pattern /\ b.pc = "look"
      /\ b.todo = {} /\ b.drop = a.drop \ {t} /\ b.done = a.done
      /\ \A u \in Titles \ {t} : b.keys[u] = a.keys[u]
  BY <1>2 DEF Dropped, SameOrder
<1>5. FewerMine
  <2>1. k # None => k \in Keys
    BY KnownIs DEF Live
  <2> QED
    BY <1>0, <1>2, <2>1, FewerSame, FewerDeleted
<1>6. ASSUME NEW j \in Live', plex'[j].made
      PROVE  j \in Live /\ plex[j].made /\ plex'[j] = plex[j] /\ plex[j].title # t
  <2>1. j \in Live /\ plex[j].made /\ plex'[j] = plex[j] /\ j # k
    BY <1>0, <1>2, <1>6, KeysAreNats DEF TypeOK, Live, None
  <2>2. ASSUME plex[j].title = t PROVE FALSE
    <3>1. Mine(j)
      BY <2>1 DEF Mine
    <3>2. CASE k = None
      <4>1. a.keys[t] \notin Live /\ Owned(t) = {}
        BY <3>2, KnownIs
      <4>2. ~ plex[j].owned
        BY <2>1, <2>2, <4>1 DEF Owned, Titled
      <4> QED
        BY <1>3, <2>1, <2>2, <4>1, <4>2 DEF WholeRun, Reach
    <3>3. CASE k # None
      <4>1. k \in Live /\ (k = a.keys[t] \/ k \in Owned(t))
        BY <3>3, KnownIs
      <4>2. plex[k].title = t /\ Mine(k)
        BY <1>2, <1>3, <4>1 DEF KeysOK, Owned, Titled, Mine
      <4> QED
        BY <1>3, <2>1, <2>2, <3>1, <4>1, <4>2 DEF Alone
    <3> QED
      BY <3>2, <3>3
  <2> QED
    BY <2>1, <2>2
<1>7. Alone'
  BY <1>3, <1>5, AloneKept
<1>8. Reach(b.keys)'
  <2> SUFFICES ASSUME NEW j \in Live', plex'[j].made
               PROVE  plex'[j].owned \/ b.keys[plex'[j].title] = j
    BY DEF Reach
  <2>1. j \in Live /\ plex[j].made /\ plex'[j] = plex[j] /\ plex[j].title # t
    BY <1>6
  <2>2. plex[j].title \in Titles
    BY <1>0, <2>1, LiveShelf DEF Shelves
  <2> QED
    BY <1>3, <1>4, <2>1, <2>2 DEF WholeRun, Reach
<1>9. RowReach(b)'
  BY <1>2, <1>3, <1>4, <1>5, RowReachKept DEF FewerMine, WholeRun
<1>10. Home' = Home /\ Title(recipe)' = Title(recipe)
  BY <1>2, HomeKept
<1>11. Made(Places(b))'
  <2>1. PICK S : S = Places(a)
    OBVIOUS
  <2>2. S \ {t} \subseteq Places(b)' /\ (SetRun(a) \/ Places(b)' = S)
    BY <1>2, <1>4, <1>10, <2>1 DEF Places, SetRun
  <2>3. Made(S)
    BY <1>3, <2>1 DEF WholeRun
  <2>4. ASSUME NEW j \in Live', plex'[j].made PROVE plex'[j].title \in S \ {t}
    BY <1>6, <2>3, <2>4 DEF Made
  <2> QED
    BY <2>2, <2>4 DEF Made
<1>12. WholeRun(b)'
  BY <1>2, <1>3, <1>4, <1>8, <1>9, <1>10, <1>11 DEF WholeRun, WriteAlone, SameHome
<1> QED
  BY <1>1, <1>7, <1>12 DEF WholeRun, SetRun, Places, RowReach, WriteAlone

LEMMA WholeEnds ==
  ASSUME Typed, Named, NEW r \in Runners, Close(r) \/ RecordSet(r) \/ Fail(r), whole, WholeOK, whole'
  PROVE  Alone' /\ WholeRun(runs[r])'
<1>1. PICK a \in Runs, b \in Runs : a = runs[r] /\ b = runs'[r]
  BY CloseDoes, RecordDoes, FailDoes
<1>2. FewerMine /\ a.pc # "idle"
  BY <1>1, FewerSame, CloseDoes, RecordDoes, FailDoes
<1>3. Busy(r) /\ WholeRun(a) /\ Alone
  BY <1>1, <1>2 DEF WholeOK, Busy
<1>4. Alone'
  BY <1>2, <1>3, AloneKept
<1>5. Reach(a.keys)'
  BY <1>2, <1>3, ReachKept DEF FewerMine, WholeRun
<1>6. CASE Close(r)
  <2>1. /\ GoneTo(a, b, IF SetRun(a) THEN "record" ELSE "finish") /\ a.pc = "look"
        /\ a.todo = {} /\ a.drop = {} /\ SameHome
    BY <1>1, <1>6, CloseDoes DEF SetRun, SameHome
  <2>2. /\ b.job = a.job /\ b.mode = a.mode /\ b.pattern = a.pattern /\ b.keys = a.keys
        /\ b.todo = {} /\ b.drop = {} /\ b.done = a.done
        /\ b.pc = IF SetRun(a) THEN "record" ELSE "finish"
    BY <2>1 DEF GoneTo, SameOrder
  <2>3. Home' = Home /\ Title(recipe)' = Title(recipe)
    BY <2>1, HomeKept
  <2>4. Reach(b.keys)'
    BY <1>5, <2>2 DEF Reach
  <2>5. RowReach(b)'
    <3>1. CASE b.pc = "finish" /\ b.mode = "set"
      <4>1. a.job # "ok"
        BY <2>2, <3>1 DEF SetRun
      <4>2. PICK keys : keys = recipe.keys
        OBVIOUS
      <4>3. Reach(keys)
        BY <1>3, <4>1, <4>2 DEF WholeRun, RowReach
      <4>4. Reach(keys)'
        BY <1>2, <4>3, ReachKept DEF FewerMine
      <4> QED
        BY <2>1, <4>2, <4>4 DEF RowReach, Reach, SameHome
    <3>2. CASE ~ (b.pc = "finish" /\ b.mode = "set")
      BY <1>2, <1>3, <2>1, <2>2, <3>2, RowReachKept DEF FewerMine, WholeRun
    <3> QED
      BY <3>1, <3>2
  <2>6. Made(Places(b))'
    <3>1. Places(b)' = Places(a)
      BY <2>1, <2>2, <2>3 DEF Places, SetRun
    <3> QED
      BY <1>2, <1>3, <2>1, <3>1, PlacesKept DEF FewerMine, WholeRun
  <2>7. WholeRun(b)'
    BY <1>3, <2>1, <2>2, <2>3, <2>4, <2>5, <2>6 DEF WholeRun, WriteAlone, SetRun, SameHome
  <2> QED
    BY <1>1, <1>4, <2>7 DEF WholeRun, SetRun, Places, RowReach, WriteAlone
<1>7. CASE RecordSet(r)
  <2>1. /\ GoneTo(a, b, "finish") /\ a.pc = "record"
        /\ recipe'.mode = "set" /\ recipe'.pattern = a.pattern
        /\ recipe'.managed = a.done /\ recipe'.keys = a.keys
    BY <1>1, <1>7, RecordDoes
  <2>2. /\ b.job = a.job /\ b.mode = a.mode /\ b.pattern = a.pattern /\ b.keys = a.keys
        /\ b.pc = "finish"
    BY <2>1 DEF GoneTo, SameOrder
  <2>3. SetRun(a) /\ a.todo = {} /\ a.drop = {}
    BY <1>3, <2>1 DEF WholeRun
  <2>4. Reach(b.keys)' /\ RowReach(b)'
    BY <1>5, <2>1, <2>2 DEF Reach, RowReach
  <2>5. PICK S : S = a.done
    OBVIOUS
  <2>6. Made(S)
    BY <1>3, <2>1, <2>3, <2>5 DEF WholeRun, Places
  <2>7. Made(S)'
    BY <1>2, <2>6, MadeKept DEF FewerMine
  <2>8. Places(b)' = S
    BY <2>1, <2>2, <2>5 DEF Places, Home
  <2>9. Made(Places(b))'
    BY <2>7, <2>8 DEF Made
  <2>10. WholeRun(b)'
    BY <2>1, <2>2, <2>3, <2>4, <2>9 DEF WholeRun, WriteAlone, SetRun
  <2> QED
    BY <1>1, <1>4, <2>10 DEF WholeRun, SetRun, Places, RowReach, WriteAlone
<1>8. CASE Fail(r)
  <2>1. /\ Failed(a, b) /\ CutShort(a) /\ a.pc \in {"look", "write"} /\ a.todo \cup a.drop # {}
        /\ SameHome
    BY <1>1, <1>8, FailDoes DEF SameHome
  <2>2. ~ SetRun(a)
    BY <2>1 DEF CutShort, SetRun
  <2>3. WholeRun(b)'
    BY <1>2, <1>3, <2>1, <2>2, WholeFailed DEF FewerMine
  <2> QED
    BY <1>1, <1>4, <2>3 DEF WholeRun, SetRun, Places, RowReach, WriteAlone
<1> QED
  BY <1>6, <1>7, <1>8

LEMMA WholeFinish ==
  ASSUME Typed, Named, NEW r \in Runners, Finish(r), whole, WholeOK
  PROVE  Alone' /\ AllHome'
<1>1. PICK a \in Runs : a = runs[r]
  BY FinishDoes
<1>2. /\ FewerMine /\ a.pc = "finish"
      /\ recipe'.mode = recipe.mode /\ recipe'.pattern = recipe.pattern
      /\ recipe'.managed = recipe.managed
      /\ recipe'.keys = IF a.job = "error" \/ SetRun(a) THEN recipe.keys ELSE a.keys
  BY <1>1, FewerSame, FinishDoes DEF SetRun
<1>3. Busy(r) /\ WholeRun(a) /\ Alone
  BY <1>1, <1>2 DEF WholeOK, Busy
<1>4. Alone'
  BY <1>2, <1>3, AloneKept
<1>5. Reach(recipe.keys)'
  <2>1. PICK keys : keys = recipe'.keys
    OBVIOUS
  <2>2. Reach(keys)
    BY <1>2, <1>3, <2>1 DEF WholeRun, RowReach, SetRun
  <2>3. Reach(keys)'
    BY <1>2, <2>2, ReachKept DEF FewerMine
  <2> QED
    BY <2>1, <2>3 DEF Reach
<1>6. Made(Home)'
  <2>1. PICK S : S = Home
    OBVIOUS
  <2>2. Home' = S
    BY <1>2, <2>1 DEF Home, Title
  <2>3. Made(S)
    BY <1>2, <1>3, <2>1 DEF WholeRun, Places
  <2>4. Made(S)'
    BY <1>2, <2>3, MadeKept DEF FewerMine
  <2> QED
    BY <2>2, <2>4 DEF Made
<1> QED
  BY <1>4, <1>5, <1>6 DEF AllHome

LEMMA WholeStart ==
  ASSUME Typed, NEW r \in Runners, ~ Busy(r), runs'[r] \in Runs, OthersGo(r), BegunRun(runs'[r]),
         UNCHANGED <<set, recipe, catalog, season, plex, born>>,
         whole' => whole /\ \A o \in Runners : ~ Busy(o),
         WholeOK
  PROVE  WholeOK'
<1> SUFFICES ASSUME whole', whole, \A o \in Runners : ~ Busy(o), Alone, AllHome
             PROVE  WholeOK'
  BY DEF WholeOK
<1>1. PICK b \in Runs : b = runs'[r]
  BY DEF BegunRun
<1>2. FewerMine /\ SameHome
  BY FewerSame DEF SameHome
<1>3. Alone' /\ AllHome'
  BY <1>2, AloneKept, AllHomeKept DEF FewerMine
<1>4. PICK job \in {"ok", "cleared", "removed"}, todo \in {InTitles, Kept(recipe), {}},
           drop \in {Managed(recipe) \ InTitles, Kept(recipe), {}} :
        /\ Begun(b, job, todo, drop)
        /\ recipe.mode = "single" => todo \cup drop \subseteq {Title(recipe)} /\ (job = "ok" => drop = {})
        /\ recipe.mode = "set" /\ job = "ok" => todo = InTitles /\ drop = Managed(recipe) \ InTitles
  <2>1. recipe.mode = "single" => InTitles = {Title(recipe)} /\ Kept(recipe) = {Title(recipe)}
    BY DEF InTitles, Kept
  <2> QED
    BY <1>1, <2>1 DEF BegunRun
<1>5. /\ b.pc = "look" /\ b.job = job /\ b.mode = recipe.mode /\ b.pattern = recipe.pattern
      /\ b.keys = recipe.keys /\ b.todo = todo /\ b.drop = drop /\ b.done = {}
  BY <1>4 DEF Begun
<1>6. Home \subseteq Places(b)
  <2>1. CASE SetRun(b)
    <3>1. todo \cup drop = InTitles \cup Managed(recipe) /\ Home = recipe.managed
      BY <1>4, <1>5, <2>1 DEF SetRun, Home
    <3>2. recipe.managed \subseteq Managed(recipe)
      BY DEF Managed
    <3> QED
      BY <1>5, <2>1, <3>1, <3>2 DEF Places
  <2>2. CASE ~ SetRun(b)
    BY <2>2 DEF Places
  <2> QED
    BY <2>1, <2>2
<1>7. Places(b)' = Places(b) /\ Home' = Home
  BY <1>2, HomeKept DEF Places, SetRun
<1>8. Made(Places(b))'
  BY <1>3, <1>6, <1>7 DEF Made, AllHome
<1>9. Reach(b.keys)' /\ RowReach(b)'
  BY <1>2, <1>3, <1>5 DEF AllHome, Reach, RowReach, SameHome
<1>10. WholeRun(b)'
  BY <1>2, <1>4, <1>5, <1>8, <1>9, HomeKept DEF WholeRun, WriteAlone, SameHome
<1>11. WholeRun(runs[r])' /\ Busy(r)'
  BY <1>1, <1>5, <1>10 DEF WholeRun, SetRun, Places, RowReach, WriteAlone, Busy
<1>12. \A o \in Runners \ {r} : ~ Busy(o)'
  BY DEF OthersGo
<1> QED
  BY <1>3, <1>11, <1>12 DEF WholeOK

LEMMA WholeWorld ==
  ASSUME Typed, Typed', Named, WholeOK,
         Tick \/ RunNow \/ Crash \/ Edit \/ CatalogChanges \/ SeasonTurns \/ UserInPlex
  PROVE  WholeOK'
<1>0. TypeOK
  BY DEF Typed
<1>1. ASSUME runs' = Disturbed, FewerMine, SameHome, whole' => whole PROVE WholeOK'
  <2>1. \A o \in Runners : /\ Busy(o)' <=> Busy(o)
                           /\ Busy(o) => SameRun(runs[o], runs'[o])
    BY <1>0, <1>1, DisturbedOthers
  <2> QED
    BY <1>1, <2>1, WholeStays
<1>2. CASE Tick \/ RunNow
  <2>1. ASSUME runs' = Disturbed, recipe' = [recipe EXCEPT !.summary = Summary("dormant", {})],
               UNCHANGED <<set, catalog, season, plex, born, whole>>
        PROVE  WholeOK'
    <3>1. SameHome /\ FewerMine
      BY <1>0, <2>1, FewerSame DEF SameHome, TypeOK, Rows
    <3> QED
      BY <1>1, <2>1, <3>1
  <2> QED
    BY <1>2, <2>1, StartsDo, WholeStart
<1>3. CASE Crash
  BY <1>3 DEF Crash, WholeOK
<1>4. CASE Edit
  <2>1. /\ runs' = Disturbed /\ FewerMine /\ recipe'.mode = recipe.mode
        /\ recipe'.keys = recipe.keys /\ recipe'.managed = recipe.managed
        /\ whole' => whole /\ (recipe'.pattern # recipe.pattern =>
                                 recipe.mode = "set" /\ \A r \in Runners : ~Busy(r))
    BY <1>0, <1>4, FewerSame DEF Edit, TypeOK, Rows
  <2>2. CASE recipe'.pattern = recipe.pattern
    BY <1>1, <2>1, <2>2 DEF SameHome
  <2>3. CASE recipe'.pattern # recipe.pattern
    <3> SUFFICES ASSUME whole', whole, recipe.mode = "set", \A r \in Runners : ~Busy(r)
                 PROVE  WholeOK'
      BY <2>1, <2>3 DEF WholeOK
    <3>1. \A r \in Runners : ~ Busy(r)'
      BY <1>0, <2>1, DisturbedOthers
    <3>7. Alone /\ AllHome
      BY DEF WholeOK
    <3>2. Alone'
      BY <2>1, <3>7, AloneKept
    <3>3. PICK keys, S : keys = recipe.keys /\ S = Home
      OBVIOUS
    <3>4. Reach(keys)' /\ Made(S)'
      BY <2>1, <3>3, <3>7, ReachKept, MadeKept DEF FewerMine, AllHome
    <3>5. Home' = S /\ recipe'.keys = keys
      BY <2>1, <3>3 DEF Home
    <3>6. AllHome'
      BY <3>4, <3>5 DEF AllHome, Reach, Made
    <3> QED
      BY <3>1, <3>2, <3>6 DEF WholeOK
  <2> QED
    BY <2>2, <2>3
<1>5. CASE CatalogChanges
  <2>1. runs' = Disturbed /\ FewerMine /\ SameHome /\ (whole' => whole)
    BY <1>5, FewerSame DEF CatalogChanges, SameHome
  <2> QED
    BY <1>1, <2>1
<1>6. CASE SeasonTurns
  <2>1. FewerMine /\ SameHome /\ (whole' => whole) /\ runs' = runs
    BY <1>6, FewerSame DEF SeasonTurns, SameHome
  <2>2. \A o \in Runners : /\ Busy(o)' <=> Busy(o)
                           /\ Busy(o) => SameRun(runs[o], runs'[o])
    BY <1>0, <2>1, BusyRun DEF SameRun, Busy
  <2> QED
    BY <2>1, <2>2, WholeStays
<1>7. CASE UserInPlex
  <2>1. runs' = Disturbed /\ SameHome /\ (whole' => whole)
    BY <1>7 DEF UserInPlex, SameHome
  <2>2. ASSUME NEW v \in Values, NewShelf(Shelf(<<recipe.pattern, v>>, {Min(Items)}, FALSE, FALSE))
        PROVE  FewerMine
    <3> DEFINE s == Shelf(<<recipe.pattern, v>>, {Min(Items)}, FALSE, FALSE)
    <3>1. Min(Items) \in Items
      BY MinIn
    <3>2. <<recipe.pattern, v>> \in Titles
      BY <1>0 DEF TypeOK, Rows, Titles
    <3>3. s \in Shelves /\ ~ s.made /\ ~ s.owned
      BY <3>1, <3>2 DEF Shelf, Shelves
    <3> QED
      BY <2>2, <3>3, FewerAdded
  <2>3. ASSUME NEW k \in Live, plex' = [plex EXCEPT ![k] = Gone] PROVE FewerMine
    BY <1>0, <2>3, FewerDeleted DEF Live
  <2>4. FewerMine
    BY <1>7, <2>2, <2>3 DEF UserInPlex
  <2> QED
    BY <1>1, <2>1, <2>4
<1> QED
  BY <1>2, <1>3, <1>4, <1>5, <1>6, <1>7

LEMMA WholeRuns ==
  ASSUME Typed, Typed', Named, WholeOK, NEW r \in Runners, Step(r) \/ Fail(r)
  PROVE  WholeOK'
<1>0. TypeOK /\ TypeOK'
  BY DEF Typed
<1>1. /\ OthersGo(r) /\ runs[r] \in Runs /\ Busy(r)
      /\ Busy(r)' => runs'[r] \in Runs
  BY <1>0, BusyRun, LookDoes, CreateDoes, UpdateDoes, DropDoes, CloseDoes, RecordDoes, FinishDoes, FailDoes
     DEF Step
<1>2. whole' => whole
  BY LookDoes, CreateDoes, UpdateDoes, DropDoes, CloseDoes, RecordDoes, FinishDoes, FailDoes
     DEF Step, CutShort
<1>3. ASSUME whole'
      PROVE  Alone' /\ (Busy(r)' => WholeRun(runs[r])') /\ (~ Busy(r)' => AllHome')
  <2>1. whole
    BY <1>2, <1>3
  <2>2. CASE Finish(r)
    BY <2>1, <2>2, WholeFinish, FinishDoes
  <2>3. CASE ~ Finish(r)
    <3>1. Busy(r)'
      <4>1. runs'[r] \in Runs
        BY <2>3, LookDoes, CreateDoes, UpdateDoes, DropDoes, CloseDoes, RecordDoes, FailDoes DEF Step
      <4> QED
        BY <4>1, RunFields DEF Busy
    <3>2. Alone' /\ WholeRun(runs[r])'
      BY <1>3, <2>1, <2>3, WholeLook, WholeCreate, WholeUpdate, WholeDrop, WholeEnds DEF Step
    <3> QED
      BY <3>1, <3>2
  <2> QED
    BY <2>2, <2>3
<1> QED
  BY <1>1, <1>2, <1>3, WholeSteps

TypedWhole == TypedNamed /\ WholeOK

LEMMA WholeStep == TypedWhole /\ [Next]_vars => TypedWhole'
<1> SUFFICES ASSUME Typed, Named, WholeOK, [Next]_vars PROVE TypedWhole'
  BY DEF TypedWhole, TypedNamed
<1>1. TypedNamed' /\ Typed'
  BY NamedStep DEF TypedNamed
<1>2. CASE Next
  <2>1. WholeOK'
    BY <1>1, <1>2, WholeRuns, WholeWorld DEF Next
  <2> QED
    BY <1>1, <2>1 DEF TypedWhole
<1>3. CASE UNCHANGED vars
  <2>1. FewerMine /\ SameHome /\ (whole' => whole) /\ runs' = runs
    BY <1>3, FewerSame DEF vars, SameHome
  <2>2. \A o \in Runners : /\ Busy(o)' <=> Busy(o)
                           /\ Busy(o) => SameRun(runs[o], runs'[o])
    BY <2>1, BusyRun DEF SameRun, Busy, Typed
  <2>3. WholeOK'
    BY <1>1, <2>1, <2>2, WholeStays
  <2> QED
    BY <1>1, <2>3 DEF TypedWhole
<1> QED
  BY <1>2, <1>3

LEMMA WholeInit == Init => WholeOK
<1> SUFFICES ASSUME Init PROVE WholeOK
  OBVIOUS
<1>1. Live = {} /\ \A r \in Runners : ~ Busy(r)
  BY IdleFields DEF Init, Live, Busy
<1> QED
  BY <1>1 DEF WholeOK, Alone, AllHome, Reach, Made

LEMMA WholeForgetsNone == TypedWhole => NothingForgotten
<1> SUFFICES ASSUME TypedWhole, whole, \A r \in Runners : ~Busy(r),
                    NEW k \in Live, plex[k].made
             PROVE  /\ plex[k].title \in Kept(recipe)
                    /\ recipe.keys[plex[k].title] = k \/ plex[k].owned
                    /\ \A j \in Titled(plex[k].title) : plex[j].made => j = k
  BY DEF NothingForgotten
<1>1. Alone /\ AllHome
  BY DEF TypedWhole, WholeOK
<1>2. plex[k].title \in Home
  BY <1>1 DEF AllHome, Made
<1>3. plex[k].title \in Kept(recipe)
  BY <1>2 DEF Home, Kept, Managed
<1>4. recipe.keys[plex[k].title] = k \/ plex[k].owned
  BY <1>1 DEF AllHome, Reach
<1>5. ASSUME NEW j \in Titled(plex[k].title), plex[j].made PROVE j = k
  BY <1>1, <1>5 DEF Alone, Titled, Mine
<1> QED
  BY <1>3, <1>4, <1>5

\* Between runs the row names every shelf that was made for the recipe, and no
\* title has two, as long as no run of a set failed half way, none overlapped
\* another and no recipe was renamed under its shelf.
THEOREM ShelvesRemembered == Spec => []NothingForgotten
<1>1. Init => TypedWhole
  BY TypedInit, NamedInit, WholeInit DEF TypedWhole, TypedNamed
<1> QED
  BY <1>1, WholeStep, WholeForgetsNone, PTL DEF Spec
=============================================================================
