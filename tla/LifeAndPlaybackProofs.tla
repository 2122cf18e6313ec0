----------------------- MODULE LifeAndPlaybackProofs -----------------------
(***************************************************************************)
(* What the runs check of PlaceholderLife and of Playback on a few titles, *)
(* for every setting and any number of workers, changes and crashes.       *)
(*                                                                         *)
(* PlaceholderLife: types, that an undisturbed full sync repairs whatever  *)
(* has gone wrong before, and that giving a placeholder up never takes a   *)
(* committed sibling's file.                                               *)
(*                                                                         *)
(* Playback: types, that the monitor does not sleep through a call, and    *)
(* that the first search for a placeholder is given its time.              *)
(***************************************************************************)
EXTENDS PlaceholderLife, Playback, TLAPS

\* Where each actor may hold a transaction, and what the sync's scope is.
ActorsOK ==
  /\ \A a \in Actors :
       /\ pc[a] \notin {"pick", "files"} => DOMAIN tx[a] = {}
       /\ pc[a] # "files" => a \notin took /\ todo[a] = {}
  /\ pc[Sync] = "pick" => DOMAIN tx[Sync] = {}
  /\ pc[Sync] \in {"determine", "pick", "files"} => scope[Sync] = Movies
  /\ pc[Sync] \notin {"determine_only", "enqueue"}

TxRows == [mov: MovieRows, row: PlaceholderRows]

\* The types in groups, and with them that an active row has the path, also
\* in an open transaction.
WorldOK ==
  /\ mode \in Modes
  /\ arr \in [Movies -> {"absent", "missing", "file"}]
  /\ inbox \subseteq {"add", "import", "file_deleted", "deleted"} \X Movies
  /\ jobs \subseteq {"grace", "materialize"} \X Movies
  /\ snap \in [Movies -> {"absent", "missing", "file"}]
  /\ file \in BOOLEAN /\ quiet \in BOOLEAN
  /\ changes \in 0..MaxChanges[mode] /\ crashes \in 0..MaxCrashes

RowsOK ==
  /\ mov \in [Movies -> MovieRows]
  /\ row \in [Movies -> PlaceholderRows]
  /\ loose \in LooseRows
  /\ \A m \in Movies : row[m].has => row[m].path

PlacesOK ==
  /\ pc \in [Actors -> Points]
  /\ scope \in [Actors -> SUBSET Movies]
  /\ todo \in [Actors -> SUBSET Movies]
  /\ took \subseteq Actors
  /\ held \in [Actors -> SUBSET ({"grace", "materialize"} \X Movies)]

TxOK ==
  /\ DOMAIN tx = Actors
  /\ \A a \in Actors : DOMAIN tx[a] \subseteq Movies /\ tx[a] \in [DOMAIN tx[a] -> TxRows]
  /\ \A a \in Actors : \A m \in DOMAIN tx[a] : tx[a][m].row.has => tx[a][m].row.path

Sound == WorldOK /\ RowsOK /\ PlacesOK /\ TxOK /\ ActorsOK

\* The rows mv know what Radarr knows.
InStepSeen(mv) ==
  \A m \in Movies :
    IF arr[m] = "absent" THEN mv[m].deleted
    ELSE ~mv[m].deleted /\ (mv[m].hasFile <=> arr[m] = "file")

\* The rows know what is on the disk.
Scanned ==
  /\ \A m \in Movies : row[m].has => ~mov[m].deleted
  /\ file => loose.has \/ \E m \in Movies : row[m].has
  /\ (\E m \in Movies : row[m].has) => file

Linked == \A m \in Movies : mov[m].hasPh <=> row[m].has

\* While titles are materialized: those that are done have what they should
\* have, the others are marked for what is left to do.
Filing(mv, rw) ==
  /\ InStepSeen(mv)
  /\ \A m \in Movies :
       /\ mv[m].hasPh <=> rw[m].has
       /\ mv[m].hasPh => ~mv[m].deleted
       /\ m \in todo[Sync] => /\ mv[m].hasPh <=> ~Wanted(m)
                              /\ mv[m].det = IF Wanted(m) THEN "needs" ELSE "obsolete"
       /\ m \notin todo[Sync] => (mv[m].hasPh <=> Wanted(m))
       /\ Wanted(m) /\ mv[m].hasPh => file
  /\ file => (loose.has /\ Sync \notin took) \/ \E m \in Movies : rw[m].has

\* What an undisturbed sync has reached, by its place.
Reached ==
  /\ inbox = {} /\ jobs = {} /\ \A w \in Workers : pc[w] = "idle"
  /\ pc[Sync] # "idle"
  /\ pc[Sync] = "upsert" => snap = arr
  /\ pc[Sync] \in {"scan", "reset", "relink", "determine", "pick"} => InStepSeen(mov)
  /\ pc[Sync] \in {"reset", "relink", "determine", "pick"} => Scanned
  /\ pc[Sync] = "relink" => \A m \in Movies : ~mov[m].hasPh
  /\ pc[Sync] \in {"determine", "pick"} => Linked
  /\ pc[Sync] = "pick" => \A m \in Movies : mov[m].det = Determination(mov, m)
  /\ pc[Sync] = "files" => Filing(MovSeen(Sync), RowSeen(Sync))
  /\ pc[Sync] = "orphans" => Repaired /\ \A m \in Movies : mov[m].hasPh <=> Wanted(m)

LInv == Sound /\ (quiet => Reached)

-----------------------------------------------------------------------------
(* Types *)

LEMMA SoundTyped == Sound => TypeOK
BY DEF Sound, WorldOK, RowsOK, PlacesOK, TxOK, TypeOK, TxRows

\* What an actor sees is typed, and its active rows have the path.
LEMMA Seen ==
  ASSUME Sound, NEW a \in Actors
  PROVE  /\ MovSeen(a) \in [Movies -> MovieRows]
         /\ RowSeen(a) \in [Movies -> PlaceholderRows]
         /\ \A m \in Movies : RowSeen(a)[m].has => RowSeen(a)[m].path
         /\ DOMAIN tx[a] = {} => MovSeen(a) = mov /\ RowSeen(a) = row
<1>1. /\ DOMAIN tx[a] \subseteq Movies /\ tx[a] \in [DOMAIN tx[a] -> TxRows]
      /\ mov \in [Movies -> MovieRows] /\ row \in [Movies -> PlaceholderRows]
  BY DEF Sound, RowsOK, TxOK
<1>2. ASSUME NEW m \in Movies, m \in DOMAIN tx[a]
      PROVE  tx[a][m].mov \in MovieRows /\ tx[a][m].row \in PlaceholderRows
  <2>1. tx[a][m] \in TxRows
    BY <1>1, <1>2
  <2> QED
    BY <2>1 DEF TxRows
<1>3. /\ MovSeen(a) \in [Movies -> MovieRows]
      /\ RowSeen(a) \in [Movies -> PlaceholderRows]
  BY <1>1, <1>2 DEF MovSeen, RowSeen
<1>4. \A m \in Movies : RowSeen(a)[m].has => RowSeen(a)[m].path
  BY <1>1 DEF RowSeen, Sound, RowsOK, TxOK
<1>5. DOMAIN tx[a] = {} => MovSeen(a) = mov /\ RowSeen(a) = row
  BY <1>1 DEF MovSeen, RowSeen
<1> QED
  BY <1>3, <1>4, <1>5

LEMMA RowsTyped ==
  /\ NoRow \in PlaceholderRows /\ Active \in PlaceholderRows /\ NoLoose \in LooseRows
  /\ ~NoRow.has /\ Active.has /\ Active.path
  /\ \A r \in PlaceholderRows :
       /\ Tombstone(r) \in PlaceholderRows /\ ~Tombstone(r).has /\ ~Tombstone(r).path
       /\ Missing(r) \in PlaceholderRows /\ ~Missing(r).has
       /\ Missing(r).path = r.path
       /\ ~r.has => Missing(r) = r
BY DEF NoRow, Active, NoLoose, PlaceholderRows, LooseRows, Tombstone, Missing

LEMMA DetTyped ==
  ASSUME NEW mv, NEW m PROVE Determination(mv, m) \in Dets
BY DEF Determination, Dets

LEMMA EmptyTyped == DOMAIN Empty = {} /\ Empty \in [{} -> TxRows]
BY DEF Empty

\* Writing a title in a transaction touches no other title and no other actor.
LEMMA WriteTyped ==
  ASSUME Sound, NEW a \in Actors, NEW m \in Movies, NEW mv \in MovieRows,
         NEW rw \in PlaceholderRows, rw.has => rw.path, Write(a, m, mv, rw)
  PROVE  /\ TxOK'
         /\ \A b \in Actors \ {a} : tx'[b] = tx[b]
         /\ DOMAIN tx'[a] = DOMAIN tx[a] \cup {m}
         /\ tx'[a][m].mov = mv /\ tx'[a][m].row = rw
         /\ \A s \in DOMAIN tx[a] \ {m} : tx'[a][s] = tx[a][s]
<1> DEFINE r == [mov |-> mv, row |-> rw]
           g == [s \in DOMAIN tx[a] \cup {m} |-> IF s = m THEN r ELSE tx[a][s]]
<1>0. TxOK
  BY DEF Sound
<1>1. r \in TxRows /\ r.mov = mv /\ r.row = rw
  BY DEF TxRows
<1>2. DOMAIN tx = Actors /\ tx' = [tx EXCEPT ![a] = g]
  BY <1>0 DEF TxOK, Write
<1> HIDE DEF r
<1>4. /\ DOMAIN g = DOMAIN tx[a] \cup {m} /\ g[m] = r
      /\ \A s \in DOMAIN tx[a] \ {m} : g[s] = tx[a][s]
  OBVIOUS
<1>5. DOMAIN g \subseteq Movies /\ g \in [DOMAIN g -> TxRows]
  BY <1>0, <1>1, <1>4 DEF TxOK
<1>6. \A s \in DOMAIN g : g[s].row.has => g[s].row.path
  BY <1>0, <1>1, <1>4 DEF TxOK
<1> HIDE DEF g
<1>7. tx'[a] = g /\ DOMAIN tx' = Actors /\ \A b \in Actors \ {a} : tx'[b] = tx[b]
  BY <1>2
<1> QED
  BY <1>0, <1>1, <1>4, <1>5, <1>6, <1>7 DEF TxOK

\* An actor whose transaction ends, by commit or not.
LEMMA EndTyped ==
  ASSUME TxOK, NEW a \in Actors, tx' = [tx EXCEPT ![a] = Empty]
  PROVE  /\ TxOK'
         /\ \A b \in Actors \ {a} : tx'[b] = tx[b]
         /\ DOMAIN tx'[a] = {}
<1>2. DOMAIN tx = Actors /\ \A b \in Actors : tx'[b] = IF b = a THEN Empty ELSE tx[b]
  BY DEF TxOK
<1>3. DOMAIN tx' = Actors
  BY <1>2
<1> HIDE DEF Empty
<1> QED
  BY <1>2, <1>3, EmptyTyped DEF TxOK

LEMMA InitSound == Init => Sound
<1> SUFFICES ASSUME Init PROVE Sound
  OBVIOUS
<1> USE LifeAssumption
<1>1. DOMAIN tx = Actors /\ \A a \in Actors : pc[a] = "idle" /\ todo[a] = {} /\ tx[a] = Empty
  BY DEF Init
<1>2. TxOK
  BY <1>1, EmptyTyped DEF TxOK
<1>3. RowsOK
  BY RowsTyped DEF Init, RowsOK, MovieRows, Dets
<1>4. PlacesOK
  BY DEF Init, Points, PlacesOK
<1>5. WorldOK
  <2>1. changes \in 0..MaxChanges[mode] /\ crashes \in 0..MaxCrashes
    BY DEF Init
  <2>2. /\ arr \in [Movies -> {"absent", "missing", "file"}]
        /\ snap \in [Movies -> {"absent", "missing", "file"}]
    BY DEF Init
  <2> QED
    BY <2>1, <2>2 DEF Init, WorldOK
<1>6. ActorsOK
  BY <1>1, EmptyTyped DEF Init, ActorsOK, Actors
<1> QED
  BY <1>2, <1>3, <1>4, <1>5, <1>6 DEF Sound

LEMMA WorldSteps == ASSUME Sound, World PROVE WorldOK'
<1> USE LifeAssumption DEF Sound, WorldOK
<1>1. ASSUME NEW m \in Movies, NEW to \in {"absent", "missing", "file"},
             NEW kind \in {"add", "import", "file_deleted", "deleted"},
             ArrChange(m, to, kind)
      PROVE  WorldOK'
  <2>1. changes' \in 0..MaxChanges[mode] /\ mode' = mode /\ quiet' = FALSE
    BY <1>1 DEF ArrChange, Disturb
  <2>2. arr' \in [Movies -> {"absent", "missing", "file"}]
    BY <1>1 DEF ArrChange
  <2>3. inbox' \subseteq {"add", "import", "file_deleted", "deleted"} \X Movies
    BY <1>1 DEF ArrChange, Tell
  <2> QED
    BY <1>1, <2>1, <2>2, <2>3 DEF ArrChange
<1>2. ASSUME RemovedByHand PROVE WorldOK'
  <2>1. changes' \in 0..MaxChanges[mode] /\ mode' = mode /\ quiet' = FALSE
    BY <1>2 DEF RemovedByHand, Disturb
  <2> QED
    BY <1>2, <2>1 DEF RemovedByHand
<1> QED
  BY <1>1, <1>2 DEF World, UserAdds, ArrImports, ArrLosesFile, UserDeletes

\* The world changes nothing that the actors have.
LEMMA WorldSound == ASSUME Sound, World PROVE Sound'
<1>1. UNCHANGED <<db, local>>
  BY DEF World, UserAdds, ArrImports, ArrLosesFile, UserDeletes, ArrChange, RemovedByHand
<1> QED
  BY <1>1, WorldSteps DEF Sound, RowsOK, PlacesOK, TxOK, ActorsOK, db, local

\* A step of one actor keeps ActorsOK when it does for that actor.
LEMMA OneActor ==
  ASSUME ActorsOK, NEW a \in Actors,
         \A b \in Actors \ {a} : /\ pc'[b] = pc[b] /\ scope'[b] = scope[b]
                                 /\ tx'[b] = tx[b] /\ todo'[b] = todo[b]
                                 /\ b \in took' <=> b \in took,
         pc'[a] \in {"pick", "files"} \/ DOMAIN tx'[a] = {},
         pc'[a] = "files" \/ (a \notin took' /\ todo'[a] = {}),
         a = Sync => /\ pc'[a] = "pick" => DOMAIN tx'[a] = {}
                     /\ pc'[a] \in {"determine", "pick", "files"} => scope'[a] = Movies
                     /\ pc'[a] \notin {"determine_only", "enqueue"}
  PROVE  ActorsOK'
<1>1. Sync \in Actors
  BY DEF Actors
<1> QED
  BY <1>1 DEF ActorsOK

\* The first transaction of a handler.
LEMMA HandlerSound ==
  ASSUME Sound, NEW w \in Workers, NEW m \in Movies,
         \/ MovieAdd(w, m) \/ MovieImported(w, m)
         \/ MovieFileDeleted(w, m) \/ MovieDeleted(w, m)
  PROVE  Sound'
<1>w. w \in Actors /\ w # Sync /\ pc[w] = "idle"
  BY LifeAssumption DEF Actors, MovieAdd, MovieImported, MovieFileDeleted, MovieDeleted, Handles
<1>1. /\ inbox' \subseteq inbox /\ quiet' = FALSE
      /\ UNCHANGED <<mode, arr, changes, crashes, file, tx, took, held, todo, snap, loose>>
  BY DEF MovieAdd, MovieImported, MovieFileDeleted, MovieDeleted, Handles, Disturb, db
<1>r. RowsOK
  BY DEF Sound
<1>2. RowsOK'
  <2>1. CASE MovieAdd(w, m)
    <3>1. row' \in [Movies -> PlaceholderRows] /\ \A s \in Movies : row'[s].has => row'[s].path
      <4> DEFINE r == [ex |-> TRUE, has |-> file, dead |-> row[m].dead,
                      path |-> row[m].path \/ file]
      <4>1. row' = [row EXCEPT ![m] = r] \/ row' = row
        <5>1. CASE row[m].ex
          BY <2>1, <5>1 DEF MovieAdd
        <5>2. CASE ~row[m].ex
          BY <2>1, <5>2 DEF MovieAdd
        <5> QED
          BY <5>1, <5>2
      <4>2. r \in PlaceholderRows /\ (r.has => r.path)
        BY <1>r DEF RowsOK, PlaceholderRows, Sound, WorldOK
      <4> HIDE DEF r
      <4> QED
        BY <1>r, <4>1, <4>2 DEF RowsOK
    <3>2. mov' \in [Movies -> MovieRows]
      BY <1>r, <2>1 DEF MovieAdd, Sound, WorldOK, RowsOK, MovieRows
    <3> QED
      BY <1>1, <1>r, <3>1, <3>2 DEF RowsOK
  <2>2. CASE MovieImported(w, m)
    BY <1>r, <2>2 DEF MovieImported, RowsOK, db
  <2>3. CASE MovieFileDeleted(w, m)
    <3>1. row' \in [Movies -> PlaceholderRows] /\ \A s \in Movies : row'[s].has => row'[s].path
      BY <1>r, <2>3, RowsTyped DEF MovieFileDeleted, RowsOK
    <3>2. mov' \in [Movies -> MovieRows]
      <4>1. mov' = [mov EXCEPT ![m] = [mov[m] EXCEPT !.hasFile = FALSE, !.hasPh = FALSE]]
        BY <2>3 DEF MovieFileDeleted
      <4>2. [mov[m] EXCEPT !.hasFile = FALSE, !.hasPh = FALSE] \in MovieRows
        BY <1>r DEF RowsOK, MovieRows
      <4> QED
        BY <1>r, <4>1, <4>2 DEF RowsOK
    <3> QED
      BY <1>1, <1>r, <3>1, <3>2 DEF RowsOK
  <2>4. CASE MovieDeleted(w, m)
    <3>1. mov' = [mov EXCEPT ![m] = [mov[m] EXCEPT !.deleted = TRUE, !.hasFile = FALSE]]
      BY <2>4 DEF MovieDeleted
    <3>2. [mov[m] EXCEPT !.deleted = TRUE, !.hasFile = FALSE] \in MovieRows
      BY <1>r DEF RowsOK, MovieRows
    <3>3. mov' \in [Movies -> MovieRows]
      BY <1>r, <3>1, <3>2 DEF RowsOK
    <3> QED
      BY <1>1, <1>r, <2>4, <3>3 DEF RowsOK, MovieDeleted
  <2> QED
    BY <2>1, <2>2, <2>3, <2>4
<1>3. /\ \E p \in {"idle", "determine", "determine_only"} : pc' = [pc EXCEPT ![w] = p]
      /\ \E S \in SUBSET Movies : scope' = [scope EXCEPT ![w] = S]
      /\ jobs' \subseteq jobs \cup {<<"grace", m>>}
  <2>1. CASE MovieAdd(w, m)
    BY <2>1 DEF MovieAdd, Goto
  <2>2. CASE MovieImported(w, m)
    <3>1. pc' = [pc EXCEPT ![w] = "idle"] /\ scope' = [scope EXCEPT ![w] = scope[w]]
      BY <1>w, <2>2 DEF MovieImported, Sound, PlacesOK
    <3>2. scope[w] \in SUBSET Movies
      BY <1>w DEF Sound, PlacesOK
    <3> QED
      BY <2>2, <3>1, <3>2 DEF MovieImported
  <2>3. CASE MovieFileDeleted(w, m)
    BY <2>3 DEF MovieFileDeleted, Goto, WithSiblings
  <2>4. CASE MovieDeleted(w, m)
    BY <2>4 DEF MovieDeleted, Goto
  <2> QED
    BY <2>1, <2>2, <2>3, <2>4
<1>4. /\ pc' \in [Actors -> Points] /\ scope' \in [Actors -> SUBSET Movies]
      /\ \A a \in Actors \ {w} : pc'[a] = pc[a] /\ scope'[a] = scope[a]
      /\ pc'[w] \in {"idle", "determine", "determine_only"}
  BY <1>w, <1>3 DEF Sound, PlacesOK, Points
<1>5. WorldOK'
  <2>1. <<"grace", m>> \in {"grace", "materialize"} \X Movies
    OBVIOUS
  <2>2. jobs' \subseteq {"grace", "materialize"} \X Movies
    BY <1>3, <2>1 DEF Sound, WorldOK
  <2> QED
    BY <1>1, <2>2 DEF Sound, WorldOK
<1>6. PlacesOK' /\ TxOK'
  BY <1>1, <1>4 DEF Sound, PlacesOK, TxOK
<1>7. ActorsOK'
  <2>1. DOMAIN tx[w] = {} /\ w \notin took /\ todo[w] = {}
    BY <1>w DEF Sound, ActorsOK
  <2> QED
    BY <1>w, <1>1, <1>4, <2>1, OneActor DEF Sound
<1> QED
  BY <1>2, <1>5, <1>6, <1>7 DEF Sound

\* A worker takes a job, or ends with leaving one.
LEMMA JobSound ==
  ASSUME Sound, NEW w \in Workers,
         \/ Enqueue(w)
         \/ \E m \in Movies : MaterializeJob(w, m) \/ GraceFinalize(w, m)
  PROVE  Sound'
<1>w. w \in Actors /\ w # Sync
  BY LifeAssumption DEF Actors
<1> PICK m : Enqueue(w) \/ (m \in Movies /\ (MaterializeJob(w, m) \/ GraceFinalize(w, m)))
  OBVIOUS
<1>1. /\ UNCHANGED <<ext, db, file, todo, took, snap>> /\ quiet' = FALSE
      /\ jobs' \subseteq {"grace", "materialize"} \X Movies
      /\ held' \in [Actors -> SUBSET ({"grace", "materialize"} \X Movies)]
      /\ \E S \in SUBSET Movies : scope' = [scope EXCEPT ![w] = S]
      /\ pc[w] \in {"idle", "enqueue"}
      /\ \/ pc' = [pc EXCEPT ![w] = "idle"] /\ tx' = tx
         \/ pc' = [pc EXCEPT ![w] = "pick"]
  <2>1. CASE Enqueue(w)
    BY <1>w, <2>1 DEF Enqueue, Goto, Disturb, Sound, WorldOK, PlacesOK
  <2>2. CASE m \in Movies /\ MaterializeJob(w, m)
    BY <1>w, <2>2 DEF MaterializeJob, Goto, Disturb, Sound, WorldOK, PlacesOK
  <2>3. CASE m \in Movies /\ GraceFinalize(w, m)
    <3>1. WithSiblings(mov, m) \in SUBSET Movies
      BY <2>3 DEF WithSiblings
    <3>2. held' = [held EXCEPT ![w] = {<<"grace", m>>}] /\ pc' = [pc EXCEPT ![w] = "pick"]
          /\ pc[w] = "idle"
      BY <2>3 DEF GraceFinalize, Goto
    <3>3. held' \in [Actors -> SUBSET ({"grace", "materialize"} \X Movies)]
      BY <1>w, <2>3, <3>2 DEF Sound, PlacesOK
    <3>4. jobs' = jobs \ {<<"grace", m>>} /\ scope' = [scope EXCEPT ![w] = WithSiblings(mov, m)]
          /\ UNCHANGED <<ext, db, file, todo, took, snap>> /\ quiet' = FALSE
      BY <2>3 DEF GraceFinalize, Disturb
    <3>5. jobs' \subseteq {"grace", "materialize"} \X Movies
      BY <3>4 DEF Sound, WorldOK
    <3> QED
      BY <3>1, <3>2, <3>3, <3>4, <3>5
  <2> QED
    BY <2>1, <2>2, <2>3
<1>2. TxOK' /\ \A a \in Actors \ {w} : tx'[a] = tx[a]
  <2>1. CASE Enqueue(w) \/ MaterializeJob(w, m)
    BY <2>1 DEF Enqueue, MaterializeJob, Sound, TxOK
  <2>2. CASE m \in Movies /\ GraceFinalize(w, m)
    <3> DEFINE filed == [mov EXCEPT ![m].hasFile = TRUE]
               next(s) == [filed[s] EXCEPT !.det = Determination(filed, s)]
               written == {m} \cup {s \in WithSiblings(mov, m) : next(s) # mov[s]}
               g == [s \in written |-> [mov |-> next(s), row |-> row[s]]]
    <3>1. filed \in [Movies -> MovieRows]
      BY DEF Sound, RowsOK, MovieRows
    <3>2. tx' = [tx EXCEPT ![w] = g]
      BY <2>2 DEF GraceFinalize
    <3>3. written \subseteq Movies
      BY <2>2 DEF WithSiblings
    <3> HIDE DEF filed
    <3>4. \A s \in Movies : next(s) \in MovieRows
      BY <3>1, DetTyped DEF MovieRows
    <3> HIDE DEF next
    <3>5. /\ DOMAIN g \subseteq Movies /\ g \in [DOMAIN g -> TxRows]
          /\ \A s \in DOMAIN g : g[s].row = row[s]
      BY <3>3, <3>4 DEF TxRows, Sound, RowsOK
    <3> HIDE DEF g, written
    <3>6. DOMAIN tx' = Actors /\ \A a \in Actors : tx'[a] = IF a = w THEN g ELSE tx[a]
      BY <1>w, <3>2 DEF Sound, TxOK
    <3> QED
      BY <3>5, <3>6 DEF Sound, RowsOK, TxOK
  <2> QED
    BY <2>1, <2>2
<1>3. /\ pc' \in [Actors -> Points] /\ scope' \in [Actors -> SUBSET Movies]
      /\ \A a \in Actors \ {w} : pc'[a] = pc[a] /\ scope'[a] = scope[a]
      /\ \/ pc'[w] = "idle" /\ tx' = tx
         \/ pc'[w] = "pick"
  BY <1>w, <1>1 DEF Sound, PlacesOK, Points
<1>4. WorldOK' /\ RowsOK' /\ PlacesOK'
  BY <1>1, <1>3 DEF Sound, WorldOK, RowsOK, PlacesOK, ext, db
<1>5. ActorsOK'
  <2>1. DOMAIN tx[w] = {} /\ w \notin took /\ todo[w] = {}
    BY <1>w, <1>1 DEF Sound, ActorsOK
  <2>2. pc'[w] \in {"pick", "files"} \/ DOMAIN tx'[w] = {}
    BY <1>3, <2>1
  <2> QED
    BY <1>w, <1>1, <1>2, <1>3, <2>1, <2>2, OneActor DEF Sound
<1> QED
  BY <1>2, <1>4, <1>5 DEF Sound

\* Determination in a transaction of its own.
LEMMA DetermineSound ==
  ASSUME Sound, NEW a \in Actors, Determine(a) PROVE Sound'
<1>1. /\ UNCHANGED <<ext, row, loose, file, jobs, scope, todo, tx, took, held, snap>>
      /\ quiet' = (quiet /\ a = Sync)
      /\ pc[a] \in {"determine", "determine_only"}
      /\ pc' = [pc EXCEPT ![a] = IF pc[a] = "determine" THEN "pick" ELSE "enqueue"]
  BY DEF Determine, Goto, Heard
<1>2. /\ pc' \in [Actors -> Points] /\ \A b \in Actors \ {a} : pc'[b] = pc[b]
      /\ pc'[a] = IF pc[a] = "determine" THEN "pick" ELSE "enqueue"
  BY <1>1 DEF Sound, PlacesOK, Points
<1>3. mov' \in [Movies -> MovieRows]
  <2>1. \A m \in Movies : [mov[m] EXCEPT !.det = Determination(mov, m)] \in MovieRows
    BY DetTyped DEF Sound, RowsOK, MovieRows
  <2>2. mov' = [m \in Movies |-> IF m \in scope[a]
                                THEN [mov[m] EXCEPT !.det = Determination(mov, m)]
                                ELSE mov[m]]
    BY DEF Determine
  <2> QED
    BY <2>1, <2>2 DEF Sound, RowsOK
<1>4. WorldOK' /\ RowsOK' /\ PlacesOK' /\ TxOK'
  BY <1>1, <1>2, <1>3 DEF Sound, WorldOK, RowsOK, PlacesOK, TxOK, ext
<1>5. ActorsOK'
  <2>1. DOMAIN tx[a] = {} /\ a \notin took /\ todo[a] = {}
    BY <1>1 DEF Sound, ActorsOK
  <2>2. a = Sync => pc[a] = "determine" /\ scope[a] = Movies
    BY <1>1 DEF Sound, ActorsOK
  <2> QED
    BY <1>1, <1>2, <2>1, <2>2, OneActor DEF Sound
<1> QED
  BY <1>4, <1>5 DEF Sound

LEMMA PickSound ==
  ASSUME Sound, NEW a \in Actors, Pick(a) PROVE Sound'
<1>1. /\ UNCHANGED <<ext, db, file, jobs, scope, tx, took, held, snap>>
      /\ quiet' = (quiet /\ a = Sync)
      /\ pc[a] = "pick" /\ pc' = [pc EXCEPT ![a] = "files"]
  BY DEF Pick, Goto, Heard
<1>2. /\ todo' \in [Actors -> SUBSET Movies] /\ \A b \in Actors \ {a} : todo'[b] = todo[b]
  <2>1. PICK S \in SUBSET Movies : todo' = [todo EXCEPT ![a] = S]
    BY DEF Pick, Sound, PlacesOK
  <2> QED
    BY <2>1 DEF Sound, PlacesOK
<1>3. /\ pc' \in [Actors -> Points] /\ \A b \in Actors \ {a} : pc'[b] = pc[b]
      /\ pc'[a] = "files"
  BY <1>1 DEF Sound, PlacesOK, Points
<1>4. WorldOK' /\ RowsOK' /\ PlacesOK' /\ TxOK'
  BY <1>1, <1>2, <1>3 DEF Sound, WorldOK, RowsOK, PlacesOK, TxOK, ext, db
<1>5. a = Sync => scope[a] = Movies
  BY <1>1 DEF Sound, ActorsOK
<1>6. ActorsOK'
  BY <1>1, <1>2, <1>3, <1>5, OneActor DEF Sound
<1> QED
  BY <1>4, <1>6 DEF Sound

\* A title of the pass is materialized; what RemovePlaceholder and
\* CreatePlaceholder write is well formed.
LEMMA FilesSound ==
  ASSUME Sound, NEW a \in Actors, NEW m \in Movies,
         Materializing(a, m), file' \in BOOLEAN,
         took' \subseteq took \cup {a}, took \subseteq took',
         todo' = todo \/ todo' = [todo EXCEPT ![a] = @ \ {m}],
         TxOK', \A b \in Actors \ {a} : tx'[b] = tx[b]
  PROVE  Sound'
<1>1. /\ UNCHANGED <<ext, db, jobs, pc, scope, held, snap>> /\ pc[a] = "files"
      /\ quiet' = (quiet /\ a = Sync)
  BY DEF Materializing, Heard
<1>2. todo' \in [Actors -> SUBSET Movies] /\ \A b \in Actors \ {a} : todo'[b] = todo[b]
  BY DEF Sound, PlacesOK
<1>3. WorldOK' /\ RowsOK' /\ PlacesOK'
  BY <1>1, <1>2 DEF Sound, WorldOK, RowsOK, PlacesOK, ext, db
<1>4. a = Sync => scope[a] = Movies
  BY <1>1 DEF Sound, ActorsOK
<1>5. ActorsOK'
  BY <1>1, <1>2, <1>4, OneActor DEF Sound
<1> QED
  BY <1>3, <1>5 DEF Sound

\* What RemovePlaceholder makes of a title.
Given(a, m) == [MovSeen(a)[m] EXCEPT
                  !.hasPh = FALSE,
                  !.det = Determination([MovSeen(a) EXCEPT ![m].hasPh = FALSE], m)]

LEMMA RemoveWrites ==
  ASSUME Sound, NEW a \in Actors, NEW m \in Movies, RemovePlaceholder(a, m)
  PROVE  /\ Given(a, m) \in MovieRows
         /\ Write(a, m, Given(a, m), Tombstone(RowSeen(a)[m]))
         /\ Tombstone(RowSeen(a)[m]) \in PlaceholderRows /\ ~Tombstone(RowSeen(a)[m]).has
<1>1. MovSeen(a) \in [Movies -> MovieRows] /\ RowSeen(a) \in [Movies -> PlaceholderRows]
  BY Seen
<1> DEFINE bare == [MovSeen(a) EXCEPT ![m].hasPh = FALSE]
<1>2. bare[m] = [MovSeen(a)[m] EXCEPT !.hasPh = FALSE]
  BY <1>1
<1>3. Determination(bare, m) \in Dets
  BY DetTyped
<1>4. Given(a, m) = [bare[m] EXCEPT !.det = Determination(bare, m)]
  BY <1>1, <1>2 DEF Given, MovieRows
<1>5. Given(a, m) \in MovieRows
  <2>1. MovSeen(a)[m] \in MovieRows
    BY <1>1
  <2> HIDE DEF bare
  <2> QED
    BY <1>2, <1>3, <1>4, <2>1 DEF MovieRows
<1>6. Write(a, m, Given(a, m), Tombstone(RowSeen(a)[m]))
  BY <1>4 DEF RemovePlaceholder
<1>7. Tombstone(RowSeen(a)[m]) \in PlaceholderRows /\ ~Tombstone(RowSeen(a)[m]).has
  BY <1>1, RowsTyped
<1> QED
  BY <1>5, <1>6, <1>7

LEMMA RemoveSound ==
  ASSUME Sound, NEW a \in Actors, NEW m \in Movies, RemovePlaceholder(a, m) PROVE Sound'
<1>1. TxOK' /\ \A b \in Actors \ {a} : tx'[b] = tx[b]
  BY RemoveWrites, WriteTyped
<1>2. /\ Materializing(a, m) /\ file' \in BOOLEAN /\ took' = took
      /\ todo' = todo \/ todo' = [todo EXCEPT ![a] = @ \ {m}]
  BY DEF RemovePlaceholder, Sound, WorldOK
<1> QED
  BY <1>1, <1>2, FilesSound

\* What CreatePlaceholder makes of a title.
Made(a, m) == [MovSeen(a)[m] EXCEPT
                 !.hasPh = TRUE,
                 !.det = IF MovSeen(a)[m].hasFile \/ MovSeen(a)[m].deleted
                         THEN "not_needed" ELSE "exists"]

LEMMA CreateWrites ==
  ASSUME Sound, NEW a \in Actors, NEW m \in Movies, CreatePlaceholder(a, m)
  PROVE  Made(a, m) \in MovieRows /\ Write(a, m, Made(a, m), Active)
<1>1. MovSeen(a)[m] \in MovieRows
  BY Seen
<1>2. Made(a, m) \in MovieRows
  BY <1>1 DEF Made, MovieRows, Dets
<1> QED
  BY <1>2 DEF CreatePlaceholder, Made

LEMMA CreateSound ==
  ASSUME Sound, NEW a \in Actors, NEW m \in Movies, CreatePlaceholder(a, m) PROVE Sound'
<1>1. TxOK' /\ \A b \in Actors \ {a} : tx'[b] = tx[b]
  BY CreateWrites, WriteTyped, RowsTyped
<1>2. /\ Materializing(a, m) /\ file' = TRUE
      /\ todo' = [todo EXCEPT ![a] = @ \ {m}]
  BY DEF CreatePlaceholder
<1>3. took' \subseteq took \cup {a} /\ took \subseteq took'
  <2>1. took' = took \/ (took = {} /\ took' = {a})
    BY DEF CreatePlaceholder
  <2> QED
    BY <2>1
<1> QED
  BY <1>1, <1>2, <1>3, FilesSound

LEMMA NothingSound ==
  ASSUME Sound, NEW a \in Actors, NEW m \in Movies, NothingToDo(a, m) PROVE Sound'
<1>1. /\ Materializing(a, m) /\ UNCHANGED <<file, tx, took>>
      /\ todo' = [todo EXCEPT ![a] = @ \ {m}]
  BY DEF NothingToDo
<1>2. TxOK' /\ file' \in BOOLEAN /\ \A b \in Actors \ {a} : tx'[b] = tx[b]
  BY <1>1 DEF Sound, TxOK, WorldOK
<1> QED
  BY <1>1, <1>2, FilesSound

LEMMA CommitSound ==
  ASSUME Sound, NEW a \in Actors, Commit(a) PROVE Sound'
<1>1. /\ UNCHANGED <<ext, file, jobs, todo, snap>> /\ quiet' = (quiet /\ a = Sync)
      /\ pc[a] = "files" /\ pc' = [pc EXCEPT ![a] = IF a = Sync THEN "orphans" ELSE "idle"]
      /\ todo[a] = {} /\ took' = took \ {a} /\ scope' = [scope EXCEPT ![a] = {}]
      /\ tx' = [tx EXCEPT ![a] = Empty] /\ held' = [held EXCEPT ![a] = {}]
      /\ mov' = MovSeen(a) /\ row' = RowSeen(a) /\ loose' \in {loose, NoLoose}
  BY DEF Commit, Goto, Heard
<1>2. RowsOK'
  <2>1. loose' \in LooseRows
    BY <1>1, RowsTyped DEF Sound, RowsOK
  <2> QED
    BY <1>1, <2>1, Seen DEF RowsOK
<1>3. TxOK' /\ DOMAIN tx'[a] = {} /\ \A b \in Actors \ {a} : tx'[b] = tx[b]
  BY <1>1, EndTyped DEF Sound
<1>4. /\ pc' \in [Actors -> Points] /\ scope' \in [Actors -> SUBSET Movies]
      /\ held' \in [Actors -> SUBSET ({"grace", "materialize"} \X Movies)]
      /\ \A b \in Actors \ {a} : pc'[b] = pc[b] /\ scope'[b] = scope[b]
      /\ pc'[a] = IF a = Sync THEN "orphans" ELSE "idle"
  BY <1>1 DEF Sound, PlacesOK, Points
<1>5. WorldOK' /\ PlacesOK'
  BY <1>1, <1>4 DEF Sound, WorldOK, PlacesOK, ext
<1>6. ActorsOK'
  BY <1>1, <1>3, <1>4, OneActor DEF Sound
<1> QED
  BY <1>2, <1>3, <1>5, <1>6 DEF Sound

\* A healed row, and a row for a file that is gone, are well formed.
LEMMA HealedTyped ==
  ASSUME RowsOK
  PROVE  /\ Healed \in [Movies -> PlaceholderRows]
         /\ \A m \in Movies : /\ Healed[m].has => Healed[m].path
                              /\ Healed[m].has => row[m].has /\ ~mov[m].deleted
<1>1. \A m \in Movies : row[m] \in PlaceholderRows
  BY DEF RowsOK
<1> QED
  BY <1>1, RowsTyped DEF Healed, RowsOK

LEMMA ScanTyped ==
  ASSUME RowsOK, FileSeen \/ FileNotSeen, mov' = mov PROVE RowsOK'
<1>1. /\ Healed \in [Movies -> PlaceholderRows]
      /\ \A m \in Movies : Healed[m].has => Healed[m].path
  BY HealedTyped
<1>2. loose' \in LooseRows
  <2>1. loose \in LooseRows /\ [ex |-> TRUE, has |-> TRUE, old |-> FALSE] \in LooseRows
    BY DEF RowsOK, LooseRows
  <2>2. [loose EXCEPT !.has = TRUE] \in LooseRows /\ [loose EXCEPT !.has = FALSE] \in LooseRows
    BY <2>1 DEF LooseRows
  <2>3. CASE FileSeen
    BY <2>1, <2>2, <2>3, Zenon DEF FileSeen
  <2>4. CASE FileNotSeen
    BY <2>2, <2>4 DEF FileNotSeen
  <2> QED
    BY <2>3, <2>4
<1>3. row' \in [Movies -> PlaceholderRows] /\ \A m \in Movies : row'[m].has => row'[m].path
  <2>1. ASSUME NEW m \in Movies, row' = [Healed EXCEPT ![m] = Active]
        PROVE  row' \in [Movies -> PlaceholderRows] /\ \A s \in Movies : row'[s].has => row'[s].path
    BY <1>1, <2>1, RowsTyped
  <2>2. CASE row' = Healed
    BY <1>1, <2>2
  <2>3. CASE FileNotSeen
    BY <1>1, <2>3, RowsTyped DEF FileNotSeen
  <2>4. Best(Eligible) \subseteq Movies
    BY DEF Best, Eligible
  <2>5. CASE FileSeen
    <3>1. row' = Healed \/ \E m \in Movies : row' = [Healed EXCEPT ![m] = Active]
      BY <2>4, <2>5 DEF FileSeen
    <3> QED
      BY <2>1, <2>2, <3>1
  <2> QED
    BY <2>3, <2>5
<1> QED
  BY <1>2, <1>3 DEF RowsOK

\* A step of the full sync, without what it writes.
LEMMA SyncSound ==
  ASSUME Sound, NEW from \in {"idle", "upsert", "scan", "reset", "relink", "orphans"},
         NEW to \in Points \ {"determine_only", "enqueue", "pick", "files"},
         Syncing(from, to), RowsOK', file' \in BOOLEAN, quiet' \in BOOLEAN,
         snap' \in [Movies -> {"absent", "missing", "file"}],
         scope' = IF to = "determine" THEN [scope EXCEPT ![Sync] = Movies] ELSE scope
  PROVE  Sound'
<1>0. Sync \in Actors
  BY DEF Actors
<1>1. /\ UNCHANGED <<ext, jobs, todo, tx, took, held>> /\ pc[Sync] = from
      /\ pc' = [pc EXCEPT ![Sync] = to]
  BY DEF Syncing, Goto
<1>2. /\ pc' \in [Actors -> Points] /\ scope' \in [Actors -> SUBSET Movies]
      /\ \A b \in Actors \ {Sync} : pc'[b] = pc[b] /\ scope'[b] = scope[b]
      /\ pc'[Sync] = to /\ (to = "determine" => scope'[Sync] = Movies)
  BY <1>0, <1>1 DEF Sound, PlacesOK
<1>3. WorldOK' /\ PlacesOK' /\ TxOK'
  BY <1>1, <1>2 DEF Sound, WorldOK, PlacesOK, TxOK, ext
<1>4. DOMAIN tx[Sync] = {} /\ Sync \notin took /\ todo[Sync] = {}
  BY <1>0, <1>1 DEF Sound, ActorsOK
<1>5. ActorsOK'
  BY <1>0, <1>1, <1>2, <1>4, OneActor DEF Sound
<1> QED
  BY <1>3, <1>5 DEF Sound

LEMMA FullSyncSound == ASSUME Sound, FullSync PROVE Sound'
<1>0. RowsOK /\ WorldOK
  BY DEF Sound
<1> USE DEF Points
<1>1. CASE Fetch
  BY <1>0, <1>1, SyncSound DEF Fetch, RowsOK, WorldOK, db
<1>2. CASE Upsert
  <2>1. mov' \in [Movies -> MovieRows]
    BY <1>0, <1>2 DEF Upsert, RowsOK, MovieRows
  <2>2. RowsOK'
    BY <1>0, <1>2, <2>1 DEF Upsert, RowsOK
  <2> QED
    BY <1>0, <1>2, <2>2, SyncSound DEF Upsert, WorldOK
<1>3. CASE ScanRoots
  BY <1>0, <1>3, ScanTyped, SyncSound DEF ScanRoots, WorldOK
<1>4. CASE ResetLinks
  <2>1. mov' \in [Movies -> MovieRows]
    BY <1>0, <1>4 DEF ResetLinks, RowsOK, MovieRows
  <2>2. RowsOK'
    BY <1>0, <1>4, <2>1 DEF ResetLinks, RowsOK
  <2> QED
    BY <1>0, <1>4, <2>2, SyncSound DEF ResetLinks, WorldOK
<1>5. CASE Relink
  <2> DEFINE valid == [m \in Movies |-> IF row[m].path /\ file THEN row[m] ELSE Missing(row[m])]
  <2>1. /\ row' = valid /\ loose' = [loose EXCEPT !.has = @ /\ file]
        /\ mov' = [m \in Movies |-> [mov[m] EXCEPT !.hasPh = @ \/ valid[m].has]]
        /\ scope' = [scope EXCEPT ![Sync] = Movies] /\ UNCHANGED <<file, snap, quiet>>
        /\ Syncing("relink", "determine")
    BY <1>5 DEF Relink
  <2>2. /\ valid \in [Movies -> PlaceholderRows]
        /\ \A m \in Movies : valid[m].has \in BOOLEAN /\ (valid[m].has => valid[m].path)
    <3>1. \A m \in Movies : valid[m] \in PlaceholderRows /\ (valid[m].has => valid[m].path)
      BY <1>0, RowsTyped DEF RowsOK
    <3> QED
      BY <3>1 DEF PlaceholderRows
  <2> HIDE DEF valid
  <2>3. mov' \in [Movies -> MovieRows]
    BY <1>0, <2>1, <2>2 DEF RowsOK, MovieRows
  <2>4. loose' \in LooseRows
    BY <1>0, <2>1 DEF RowsOK, LooseRows, WorldOK
  <2>5. RowsOK'
    BY <2>1, <2>2, <2>3, <2>4 DEF RowsOK
  <2> QED
    BY <1>0, <2>1, <2>5, SyncSound DEF WorldOK
<1>6. CASE Orphans
  <2>1. /\ UNCHANGED <<mov, row, scope, snap>> /\ Syncing("orphans", "idle") /\ quiet' = FALSE
        /\ loose' \in {loose, NoLoose} /\ file' \in {file, FALSE}
    BY <1>6 DEF Orphans, CleanOrphans
  <2>2. RowsOK' /\ file' \in BOOLEAN
    BY <1>0, <2>1, RowsTyped DEF RowsOK, WorldOK
  <2> QED
    BY <1>0, <2>1, <2>2, SyncSound DEF WorldOK
<1> QED
  BY <1>1, <1>2, <1>3, <1>4, <1>5, <1>6 DEF FullSync

LEMMA RestSound ==
  ASSUME Sound, Maintenance \/ GraceOfOrphanPasses PROVE Sound'
<1>1. /\ UNCHANGED <<ext, jobs, local, snap, quiet, mov, row>>
      /\ loose' \in {loose, NoLoose, [loose EXCEPT !.old = TRUE]} /\ file' \in {file, FALSE}
  BY DEF Maintenance, GraceOfOrphanPasses, CleanOrphans
<1>2. RowsOK'
  <2>1. loose \in LooseRows /\ [loose EXCEPT !.old = TRUE] \in LooseRows
    BY DEF Sound, RowsOK, LooseRows
  <2>2. loose' \in LooseRows
    BY <1>1, <2>1, RowsTyped, Zenon
  <2> QED
    BY <1>1, <2>2 DEF Sound, RowsOK
<1>3. WorldOK' /\ PlacesOK' /\ TxOK' /\ ActorsOK'
  BY <1>1 DEF Sound, WorldOK, PlacesOK, TxOK, ActorsOK, ext, local
<1> QED
  BY <1>2, <1>3 DEF Sound

LEMMA VictimSound ==
  ASSUME Sound, NEW a \in Actors, DeadlockVictim(a) PROVE Sound'
<1>1. /\ UNCHANGED <<ext, db, file, snap>> /\ quiet' = FALSE
      /\ pc' = [pc EXCEPT ![a] = "idle"] /\ scope' = [scope EXCEPT ![a] = {}]
      /\ todo' = [todo EXCEPT ![a] = {}] /\ held' = [held EXCEPT ![a] = {}]
      /\ took' = took \ {a} /\ tx' = [tx EXCEPT ![a] = Empty] /\ jobs' = jobs \cup held[a]
  BY DEF DeadlockVictim, Goto, Disturb
<1>2. TxOK' /\ DOMAIN tx'[a] = {} /\ \A b \in Actors \ {a} : tx'[b] = tx[b]
  BY <1>1, EndTyped DEF Sound
<1>3. /\ pc' \in [Actors -> Points] /\ scope' \in [Actors -> SUBSET Movies]
      /\ todo' \in [Actors -> SUBSET Movies] /\ todo'[a] = {} /\ pc'[a] = "idle"
      /\ held' \in [Actors -> SUBSET ({"grace", "materialize"} \X Movies)]
      /\ \A b \in Actors \ {a} : pc'[b] = pc[b] /\ scope'[b] = scope[b] /\ todo'[b] = todo[b]
  BY <1>1 DEF Sound, PlacesOK, Points
<1>4. held[a] \subseteq {"grace", "materialize"} \X Movies
  BY DEF Sound, PlacesOK
<1>5. WorldOK' /\ RowsOK' /\ PlacesOK'
  BY <1>1, <1>3, <1>4 DEF Sound, WorldOK, RowsOK, PlacesOK, ext, db
<1>6. ActorsOK'
  BY <1>1, <1>2, <1>3, OneActor DEF Sound
<1> QED
  BY <1>2, <1>5, <1>6 DEF Sound

LEMMA CrashSound == ASSUME Sound, Crash PROVE Sound'
<1>1. /\ UNCHANGED <<mode, arr, inbox, changes, db, file>> /\ quiet' = FALSE
      /\ crashes' = crashes + 1 /\ crashes < MaxCrashes /\ took' = {}
      /\ jobs' = jobs \cup UNION {held[a] : a \in Actors}
      /\ snap' = [m \in Movies |-> "absent"]
      /\ pc' = [a \in Actors |-> "idle"] /\ tx' = [a \in Actors |-> Empty]
      /\ scope' = [a \in Actors |-> {}] /\ todo' = [a \in Actors |-> {}]
      /\ held' = [a \in Actors |-> {}]
  BY DEF Crash, Disturb
<1>2. UNION {held[a] : a \in Actors} \subseteq {"grace", "materialize"} \X Movies
  BY DEF Sound, PlacesOK
<1>3. jobs' \subseteq {"grace", "materialize"} \X Movies /\ crashes' \in 0..MaxCrashes
  BY <1>1, <1>2, LifeAssumption DEF Sound, WorldOK
<1>4. WorldOK' /\ RowsOK' /\ PlacesOK'
  BY <1>1, <1>3 DEF Sound, WorldOK, RowsOK, PlacesOK, Points, db
<1>5. DOMAIN tx' = Actors /\ \A a \in Actors : tx'[a] = Empty
  BY <1>1
<1>6. TxOK' /\ ActorsOK'
  BY <1>1, <1>5, EmptyTyped DEF TxOK, ActorsOK, Actors
<1> QED
  BY <1>4, <1>6 DEF Sound

LEMMA StepSound == Sound /\ [Next]_vars => Sound'
<1> SUFFICES ASSUME Sound, [Next]_vars PROVE Sound'
  OBVIOUS
<1>1. CASE World
  BY <1>1, WorldSound
<1>2. CASE FullSync
  BY <1>2, FullSyncSound
<1>3. CASE Maintenance \/ GraceOfOrphanPasses
  BY <1>3, RestSound
<1>4. CASE Crash
  BY <1>4, CrashSound
<1>5. ASSUME NEW w \in Workers, Worker(w) PROVE Sound'
  <2>1. CASE Enqueue(w)
    BY <2>1, JobSound
  <2> QED
    BY <1>5, <2>1, HandlerSound, JobSound DEF Worker
<1>6. ASSUME NEW a \in Actors, Materialize(a) PROVE Sound'
  BY <1>6, DetermineSound, PickSound, CommitSound, RemoveSound, CreateSound, NothingSound
     DEF Materialize
<1>7. ASSUME NEW a \in Actors, DeadlockVictim(a) PROVE Sound'
  BY <1>7, VictimSound
<1>8. CASE UNCHANGED vars
  BY <1>8 DEF Sound, WorldOK, RowsOK, PlacesOK, TxOK, ActorsOK, vars, ext, db, local
<1> QED
  BY <1>1, <1>2, <1>3, <1>4, <1>5, <1>6, <1>7, <1>8 DEF Next

-----------------------------------------------------------------------------
(* What an undisturbed sync reaches *)

\* Radarr and the setting stay: so does what is wanted.
LEMMA WantedSame ==
  ASSUME arr' = arr, mode' = mode
  PROVE  \A m \in Movies : Wanted(m)' <=> Wanted(m)
BY DEF Wanted

\* Rows that know Radarr are determined as Radarr and the setting ask.
LEMMA DetSeen ==
  ASSUME WorldOK, NEW mv \in [Movies -> MovieRows], InStepSeen(mv), NEW m \in Movies
  PROVE  Determination(mv, m) = IF Wanted(m) THEN IF mv[m].hasPh THEN "exists" ELSE "needs"
                                ELSE IF mv[m].hasPh THEN "obsolete" ELSE "not_needed"
<1>1. \A s \in Movies : arr[s] = "file" <=> ~mv[s].deleted /\ mv[s].hasFile
  BY DEF InStepSeen, WorldOK
<1>2. arr[m] = "missing" <=> ~mv[m].deleted /\ ~mv[m].hasFile
  BY DEF InStepSeen, WorldOK
<1>3. Wanted(m) <=> ~(mv[m].hasFile \/ mv[m].deleted \/ Suppressed(mv, m))
  BY <1>1, <1>2 DEF Wanted, Suppressed, SiblingHasFile
<1> QED
  BY <1>3 DEF Determination

\* What an actor sees after it has written a title.
LEMMA SeenWrite ==
  ASSUME Sound, NEW a \in Actors, NEW m \in Movies, NEW mv \in MovieRows,
         NEW rw \in PlaceholderRows, rw.has => rw.path, Write(a, m, mv, rw), UNCHANGED <<mov, row>>
  PROVE  \A s \in Movies :
           /\ MovSeen(a)'[s] = IF s = m THEN mv ELSE MovSeen(a)[s]
           /\ RowSeen(a)'[s] = IF s = m THEN rw ELSE RowSeen(a)[s]
<1>1. /\ DOMAIN tx'[a] = DOMAIN tx[a] \cup {m}
      /\ tx'[a][m].mov = mv /\ tx'[a][m].row = rw
      /\ \A s \in DOMAIN tx[a] \ {m} : tx'[a][s] = tx[a][s]
  BY WriteTyped
<1> QED
  BY <1>1 DEF MovSeen, RowSeen

\* A step of the sync leaves the workers where they are.
LEMMA StillQuiet ==
  ASSUME LInv, quiet, NEW p \in Points, pc' = [pc EXCEPT ![Sync] = p],
         inbox' = inbox, jobs' = jobs
  PROVE  /\ inbox' = {} /\ jobs' = {} /\ \A w \in Workers : pc'[w] = "idle"
         /\ pc'[Sync] = p
<1>1. pc \in [Actors -> Points] /\ Sync \in Actors /\ \A w \in Workers : w \in Actors /\ w # Sync
  BY LifeAssumption DEF LInv, Sound, PlacesOK, Actors
<1> QED
  BY <1>1 DEF LInv, Reached

LEMMA FetchReaches ==
  ASSUME LInv, Fetch, quiet' PROVE Reached'
<1>1. /\ pc' = [pc EXCEPT ![Sync] = "upsert"] /\ snap' = arr
      /\ UNCHANGED <<arr, inbox, jobs>>
      /\ inbox = {} /\ jobs = {} /\ \A w \in Workers : pc[w] = "idle"
  BY DEF Fetch, Syncing, Goto, ext
<1>2. pc \in [Actors -> Points] /\ Sync \in Actors /\ \A w \in Workers : w \in Actors /\ w # Sync
  BY LifeAssumption DEF LInv, Sound, PlacesOK, Actors
<1>3. pc'[Sync] = "upsert" /\ \A w \in Workers : pc'[w] = "idle"
  BY <1>1, <1>2
<1> QED
  BY <1>1, <1>3 DEF Reached

LEMMA UpsertReaches ==
  ASSUME LInv, quiet, Upsert PROVE Reached'
<1>1. /\ pc' = [pc EXCEPT ![Sync] = "scan"] /\ UNCHANGED <<arr, inbox, jobs>>
      /\ pc[Sync] = "upsert"
  BY DEF Upsert, Syncing, Goto, ext
<1>2. /\ inbox' = {} /\ jobs' = {} /\ \A w \in Workers : pc'[w] = "idle"
      /\ pc'[Sync] = "scan"
  BY <1>1, StillQuiet DEF Points
<1>3. snap = arr
  BY <1>1 DEF LInv, Reached
<1>4. mov' = [m \in Movies |->
                IF snap[m] = "absent" THEN [mov[m] EXCEPT !.deleted = TRUE]
                ELSE [mov[m] EXCEPT !.deleted = FALSE, !.hasFile = snap[m] = "file"]]
  BY DEF Upsert
<1>5. InStepSeen(mov)'
  <2>1. \A m \in Movies : mov[m] \in MovieRows
    BY DEF LInv, Sound, RowsOK
  <2>2. \A m \in Movies :
          IF arr[m] = "absent" THEN mov'[m].deleted
          ELSE ~mov'[m].deleted /\ (mov'[m].hasFile <=> arr[m] = "file")
    BY <1>3, <1>4, <2>1 DEF MovieRows
  <2> QED
    BY <1>1, <2>2 DEF InStepSeen
<1> QED
  BY <1>2, <1>5 DEF Reached

LEMMA ScanReaches ==
  ASSUME LInv, quiet, ScanRoots PROVE Reached'
<1>1. /\ pc' = [pc EXCEPT ![Sync] = "reset"] /\ UNCHANGED <<arr, inbox, jobs, mov, file>>
      /\ pc[Sync] = "scan"
  BY DEF ScanRoots, Syncing, Goto, ext
<1>2. /\ inbox' = {} /\ jobs' = {} /\ \A w \in Workers : pc'[w] = "idle"
      /\ pc'[Sync] = "reset"
  BY <1>1, StillQuiet DEF Points
<1>3. InStepSeen(mov)'
  BY <1>1 DEF LInv, Reached, InStepSeen
<1>4. /\ Healed \in [Movies -> PlaceholderRows]
      /\ \A m \in Movies : /\ Healed[m].has => Healed[m].path
                           /\ Healed[m].has => ~mov[m].deleted
  BY HealedTyped DEF LInv, Sound
<1>5. Scanned'
  <2>1. CASE FileSeen
    <3>1. file
      BY <2>1 DEF FileSeen
    <3>2. ASSUME NEW m \in Best(Eligible), row' = [Healed EXCEPT ![m] = Active] PROVE Scanned'
      <4>1. m \in Movies /\ ~mov[m].deleted
        BY DEF Best, Eligible
      <4>2. row'[m].has /\ \A s \in Movies : row'[s].has => ~mov[s].deleted
        BY <1>4, <3>2, <4>1, RowsTyped
      <4> QED
        BY <1>1, <3>1, <4>1, <4>2 DEF Scanned
    <3>3. CASE row' = Healed /\ loose' = IF loose.ex THEN [loose EXCEPT !.has = TRUE]
                                         ELSE [ex |-> TRUE, has |-> TRUE, old |-> FALSE]
      <4>1. loose'.has
        BY <3>3 DEF LInv, Sound, RowsOK, LooseRows
      <4> QED
        BY <1>1, <1>4, <3>1, <3>3, <4>1 DEF Scanned
    <3> QED
      BY <2>1, <3>2, <3>3 DEF FileSeen
  <2>2. CASE FileNotSeen
    <3>1. \A m \in Movies : ~row'[m].has
      BY <1>4, <2>2, RowsTyped DEF FileNotSeen
    <3> QED
      BY <1>1, <2>2, <3>1 DEF Scanned, FileNotSeen
  <2> QED
    BY <2>1, <2>2 DEF ScanRoots
<1> QED
  BY <1>2, <1>3, <1>5 DEF Reached

LEMMA ResetReaches ==
  ASSUME LInv, quiet, ResetLinks PROVE Reached'
<1>1. /\ pc' = [pc EXCEPT ![Sync] = "relink"] /\ UNCHANGED <<arr, inbox, jobs, row, loose, file>>
      /\ pc[Sync] = "reset" /\ mov' = [m \in Movies |-> [mov[m] EXCEPT !.hasPh = FALSE]]
  BY DEF ResetLinks, Syncing, Goto, ext
<1>2. /\ inbox' = {} /\ jobs' = {} /\ \A w \in Workers : pc'[w] = "idle"
      /\ pc'[Sync] = "relink"
  BY <1>1, StillQuiet DEF Points
<1>3. \A m \in Movies : /\ mov'[m].deleted = mov[m].deleted /\ mov'[m].hasFile = mov[m].hasFile
                        /\ ~mov'[m].hasPh
  BY <1>1 DEF LInv, Sound, RowsOK, MovieRows
<1>4. InStepSeen(mov)' /\ Scanned'
  BY <1>1, <1>3 DEF LInv, Reached, InStepSeen, Scanned
<1> QED
  BY <1>2, <1>3, <1>4 DEF Reached

\* After the scan every active row is valid: relinking only copies the rows.
LEMMA RelinkReaches ==
  ASSUME LInv, quiet, Relink PROVE Reached'
<1> DEFINE valid == [m \in Movies |-> IF row[m].path /\ file THEN row[m] ELSE Missing(row[m])]
<1>1. /\ pc' = [pc EXCEPT ![Sync] = "determine"] /\ UNCHANGED <<arr, inbox, jobs, file>>
      /\ pc[Sync] = "relink" /\ row' = valid /\ loose' = [loose EXCEPT !.has = @ /\ file]
      /\ mov' = [m \in Movies |-> [mov[m] EXCEPT !.hasPh = @ \/ valid[m].has]]
  BY DEF Relink, Syncing, Goto, ext
<1>2. /\ inbox' = {} /\ jobs' = {} /\ \A w \in Workers : pc'[w] = "idle"
      /\ pc'[Sync] = "determine"
  BY <1>1, StillQuiet DEF Points
<1>3. InStepSeen(mov) /\ Scanned /\ \A m \in Movies : ~mov[m].hasPh
  BY <1>1 DEF LInv, Reached
<1>4. \A m \in Movies : valid[m] = row[m]
  BY <1>3, RowsTyped DEF LInv, Sound, RowsOK, Scanned
<1> HIDE DEF valid
<1>5. \A m \in Movies : /\ mov'[m].deleted = mov[m].deleted /\ mov'[m].hasFile = mov[m].hasFile
                        /\ mov'[m].hasPh <=> row[m].has
                        /\ row'[m] = row[m]
  BY <1>1, <1>3, <1>4 DEF LInv, Sound, RowsOK, MovieRows
<1>6. loose'.has <=> loose.has /\ file
  BY <1>1 DEF LInv, Sound, RowsOK, LooseRows
<1>7. arr' = arr /\ file' = file
  BY <1>1
<1>8. InStepSeen(mov)'
  BY <1>3, <1>5, <1>7 DEF InStepSeen
<1>9. Linked'
  BY <1>5 DEF Linked
<1>10. Scanned'
  BY <1>3, <1>5, <1>6, <1>7 DEF Scanned
<1> QED
  BY <1>2, <1>8, <1>9, <1>10 DEF Reached

LEMMA DetermineReaches ==
  ASSUME LInv, quiet, Determine(Sync) PROVE Reached'
<1>0. Sync \in Actors /\ scope[Sync] = Movies /\ pc[Sync] = "determine"
  BY DEF Determine, LInv, Sound, ActorsOK, Actors
<1>1. /\ pc' = [pc EXCEPT ![Sync] = "pick"] /\ UNCHANGED <<arr, mode, inbox, jobs, file, row, loose>>
      /\ mov' = [m \in Movies |-> [mov[m] EXCEPT !.det = Determination(mov, m)]]
  BY <1>0 DEF Determine, Goto, ext
<1>2. /\ inbox' = {} /\ jobs' = {} /\ \A w \in Workers : pc'[w] = "idle"
      /\ pc'[Sync] = "pick"
  BY <1>1, StillQuiet DEF Points
<1>3. InStepSeen(mov) /\ Scanned /\ Linked
  BY <1>0 DEF LInv, Reached
<1>4. \A m \in Movies : /\ mov'[m].deleted = mov[m].deleted /\ mov'[m].hasFile = mov[m].hasFile
                        /\ mov'[m].hasPh = mov[m].hasPh /\ mov'[m].det = Determination(mov, m)
  BY <1>1 DEF LInv, Sound, RowsOK, MovieRows
<1>5. \A m \in Movies : Determination(mov, m)' = Determination(mov, m)
  <2>1. \A m \in Movies : Suppressed(mov, m)' <=> Suppressed(mov, m)
    BY <1>1, <1>4 DEF Suppressed, SiblingHasFile
  <2> QED
    BY <1>4, <2>1 DEF Determination
<1>6. InStepSeen(mov)' /\ Scanned' /\ Linked'
  BY <1>1, <1>3, <1>4 DEF InStepSeen, Scanned, Linked
<1> QED
  BY <1>2, <1>4, <1>5, <1>6 DEF Reached

LEMMA PickReaches ==
  ASSUME LInv, quiet, Pick(Sync) PROVE Reached'
<1>1. /\ pc[Sync] = "pick" /\ pc' = [pc EXCEPT ![Sync] = "files"]
      /\ UNCHANGED <<arr, mode, inbox, jobs, file, mov, row, loose, tx, took>>
  BY DEF Pick, Goto, ext, db
<1>0. Sync \in Actors /\ scope[Sync] = Movies /\ DOMAIN tx[Sync] = {} /\ Sync \notin took
  BY <1>1 DEF LInv, Sound, ActorsOK, Actors
<1>2. /\ inbox' = {} /\ jobs' = {} /\ \A w \in Workers : pc'[w] = "idle"
      /\ pc'[Sync] = "files"
  BY <1>1, StillQuiet DEF Points
<1>3. /\ InStepSeen(mov) /\ Scanned /\ Linked
      /\ \A m \in Movies : mov[m].det = Determination(mov, m)
  BY <1>1 DEF LInv, Reached
<1>4. MovSeen(Sync) = mov /\ RowSeen(Sync) = row
  BY <1>0, Seen DEF LInv
<1>5. MovSeen(Sync)' = mov /\ RowSeen(Sync)' = row
  BY <1>1, <1>4 DEF MovSeen, RowSeen
<1>6. todo'[Sync] = {m \in Movies : mov[m].det \in {"needs", "obsolete"}}
  BY <1>0, <1>4 DEF Pick, LInv, Sound, PlacesOK
<1>7. \A m \in Movies :
        mov[m].det = IF Wanted(m) THEN IF mov[m].hasPh THEN "exists" ELSE "needs"
                     ELSE IF mov[m].hasPh THEN "obsolete" ELSE "not_needed"
  BY <1>3, DetSeen DEF LInv, Sound, RowsOK
<1>8. \A m \in Movies : Wanted(m)' <=> Wanted(m)
  BY <1>1, WantedSame
<1>9. Filing(MovSeen(Sync), RowSeen(Sync))'
  <2>1. InStepSeen(MovSeen(Sync))'
    BY <1>1, <1>3, <1>5 DEF InStepSeen
  <2>2. \A m \in Movies :
          /\ mov[m].hasPh <=> row[m].has
          /\ mov[m].hasPh => ~mov[m].deleted
          /\ m \in todo'[Sync] => /\ mov[m].hasPh <=> ~Wanted(m)
                                 /\ mov[m].det = IF Wanted(m) THEN "needs" ELSE "obsolete"
          /\ m \notin todo'[Sync] => (mov[m].hasPh <=> Wanted(m))
          /\ Wanted(m) /\ mov[m].hasPh => file
    BY <1>3, <1>6, <1>7 DEF Linked, Scanned
  <2>3. file => (loose.has /\ Sync \notin took) \/ \E m \in Movies : row[m].has
    BY <1>0, <1>3 DEF Scanned
  <2> QED
    BY <1>1, <1>5, <1>8, <2>1, <2>2, <2>3 DEF Filing
<1> QED
  BY <1>2, <1>9 DEF Reached

\* A step at the files: the sync stays there, what is wanted stays.
LEMMA FilesQuiet ==
  ASSUME LInv, quiet, NEW m \in Movies, Materializing(Sync, m)
  PROVE  /\ inbox' = {} /\ jobs' = {} /\ \A w \in Workers : pc'[w] = "idle"
         /\ pc'[Sync] = "files" /\ m \in todo[Sync] /\ Sync \in Actors
         /\ UNCHANGED <<arr, mode, mov, row, loose>>
         /\ \A s \in Movies : Wanted(s)' <=> Wanted(s)
         /\ Filing(MovSeen(Sync), RowSeen(Sync))
         /\ MovSeen(Sync) \in [Movies -> MovieRows]
         /\ RowSeen(Sync) \in [Movies -> PlaceholderRows]
<1>1. /\ UNCHANGED <<arr, mode, mov, row, loose, pc, inbox, jobs>>
      /\ pc[Sync] = "files" /\ m \in todo[Sync]
  BY DEF Materializing, ext, db
<1>2. Filing(MovSeen(Sync), RowSeen(Sync)) /\ inbox = {} /\ jobs = {} /\ \A w \in Workers : pc[w] = "idle"
  BY <1>1 DEF LInv, Reached
<1>3. Sync \in Actors
  BY DEF Actors
<1>4. \A s \in Movies : Wanted(s)' <=> Wanted(s)
  BY <1>1, WantedSame
<1>5. MovSeen(Sync) \in [Movies -> MovieRows] /\ RowSeen(Sync) \in [Movies -> PlaceholderRows]
  BY <1>3, Seen DEF LInv
<1> QED
  BY <1>1, <1>2, <1>3, <1>4, <1>5

\* The titles that keep their placeholder protect its file: with the other
\* setting nobody wants one once a title has to give it up.
LEMMA RemoveReaches ==
  ASSUME LInv, quiet, NEW m \in Movies, RemovePlaceholder(Sync, m) PROVE Reached'
<1> DEFINE mv == MovSeen(Sync)
           rw == RowSeen(Sync)
           bare == [mv EXCEPT ![m].hasPh = FALSE]
<1>1. /\ inbox' = {} /\ jobs' = {} /\ \A w \in Workers : pc'[w] = "idle"
      /\ pc'[Sync] = "files" /\ m \in todo[Sync] /\ Sync \in Actors
      /\ UNCHANGED <<arr, mode, mov, row, loose>>
      /\ \A s \in Movies : Wanted(s)' <=> Wanted(s)
      /\ Filing(mv, rw)
      /\ mv \in [Movies -> MovieRows] /\ rw \in [Movies -> PlaceholderRows]
  BY FilesQuiet DEF RemovePlaceholder
<1>2. /\ mv[m].det = "obsolete" /\ took' = took
      /\ todo' = IF Determination(bare, m) = "needs" THEN todo ELSE [todo EXCEPT ![Sync] = @ \ {m}]
      /\ file' = (file /\ (mv[m].hasPh \/ rw[m].path => ProtectedPath(mv, rw, m)))
  BY DEF RemovePlaceholder
<1>3. /\ Given(Sync, m) \in MovieRows /\ ~Tombstone(rw[m]).has
      /\ Tombstone(rw[m]) \in PlaceholderRows /\ Write(Sync, m, Given(Sync, m), Tombstone(rw[m]))
  BY <1>1, RemoveWrites DEF LInv
<1>4. \A s \in Movies :
        /\ MovSeen(Sync)'[s] = IF s = m THEN Given(Sync, m) ELSE mv[s]
        /\ RowSeen(Sync)'[s] = IF s = m THEN Tombstone(rw[m]) ELSE rw[s]
  BY <1>1, <1>3, SeenWrite DEF LInv
<1>5. ~Wanted(m) /\ mv[m].hasPh /\ ~mv[m].deleted /\ InStepSeen(mv)
  BY <1>1, <1>2 DEF Filing
<1>6. /\ Given(Sync, m).deleted = mv[m].deleted /\ Given(Sync, m).hasFile = mv[m].hasFile
      /\ ~Given(Sync, m).hasPh
  <2>1. mv[m] \in MovieRows
    BY <1>1
  <2> HIDE DEF mv, bare
  <2>2. Given(Sync, m) = [mv[m] EXCEPT !.hasPh = FALSE, !.det = Determination(bare, m)]
    BY DEF Given, mv, bare
  <2> QED
    BY <2>1, <2>2 DEF MovieRows
<1> HIDE DEF mv, rw
<1>7. todo'[Sync] = todo[Sync] \ {m}
  <2>1. /\ bare \in [Movies -> MovieRows]
        /\ \A s \in Movies : bare[s].deleted = mv[s].deleted /\ bare[s].hasFile = mv[s].hasFile
        /\ ~bare[m].hasPh
    BY <1>1 DEF MovieRows
  <2> HIDE DEF bare
  <2>2. InStepSeen(bare)
    BY <1>5, <2>1 DEF InStepSeen
  <2>3. Determination(bare, m) = "not_needed"
    BY <1>5, <2>1, <2>2, DetSeen DEF LInv, Sound
  <2> QED
    BY <1>1, <1>2, <2>3 DEF LInv, Sound, PlacesOK
<1>8. file' => file /\ \E s \in Movies \ {m} : rw[s].has
  BY <1>1, <1>2, <1>5 DEF ProtectedPath, Filing
<1>9. ASSUME NEW s \in Movies, s # m, Wanted(s), mv[s].hasPh PROVE file'
  <2>1. mode = "protect_siblings"
    <3>1. arr[m] \in {"missing", "file"}
      BY <1>5 DEF InStepSeen, LInv, Sound, WorldOK
    <3>2. mode = "any_instance_has_file" => FALSE
      BY <1>5, <1>9, <3>1 DEF Wanted
    <3> QED
      BY <3>2, LifeAssumption DEF LInv, Sound, WorldOK
  <2>2. file /\ ~mv[s].deleted
    BY <1>1, <1>9 DEF Filing
  <2> QED
    BY <1>2, <1>9, <2>1, <2>2 DEF ProtectedPath
<1>10. InStepSeen(MovSeen(Sync))'
  BY <1>1, <1>4, <1>5, <1>6 DEF InStepSeen
<1>11. Filing(MovSeen(Sync), RowSeen(Sync))'
  <2>1. ASSUME NEW s \in Movies
        PROVE  /\ MovSeen(Sync)'[s].hasPh <=> RowSeen(Sync)'[s].has
               /\ MovSeen(Sync)'[s].hasPh => ~MovSeen(Sync)'[s].deleted
               /\ s \in todo'[Sync] =>
                    /\ MovSeen(Sync)'[s].hasPh <=> ~Wanted(s)
                    /\ MovSeen(Sync)'[s].det = IF Wanted(s) THEN "needs" ELSE "obsolete"
               /\ s \notin todo'[Sync] => (MovSeen(Sync)'[s].hasPh <=> Wanted(s))
               /\ Wanted(s) /\ MovSeen(Sync)'[s].hasPh => file'
    <3>1. CASE s = m
      BY <1>3, <1>4, <1>5, <1>6, <1>7, <3>1
    <3>2. CASE s # m
      BY <1>1, <1>4, <1>7, <1>9, <3>2 DEF Filing
    <3> QED
      BY <3>1, <3>2
  <2>2. file' => \E s \in Movies : RowSeen(Sync)'[s].has
    BY <1>4, <1>8
  <2> QED
    BY <1>1, <1>10, <2>1, <2>2 DEF Filing
<1> QED
  BY <1>1, <1>11 DEF Reached

LEMMA CreateReaches ==
  ASSUME LInv, quiet, NEW m \in Movies, CreatePlaceholder(Sync, m) PROVE Reached'
<1> DEFINE mv == MovSeen(Sync)
           rw == RowSeen(Sync)
<1>1. /\ inbox' = {} /\ jobs' = {} /\ \A w \in Workers : pc'[w] = "idle"
      /\ pc'[Sync] = "files" /\ m \in todo[Sync] /\ Sync \in Actors
      /\ UNCHANGED <<arr, mode, mov, row, loose>>
      /\ \A s \in Movies : Wanted(s)' <=> Wanted(s)
      /\ Filing(mv, rw)
      /\ mv \in [Movies -> MovieRows] /\ rw \in [Movies -> PlaceholderRows]
  BY FilesQuiet DEF CreatePlaceholder
<1>2. mv[m].det = "needs" /\ file' = TRUE /\ todo' = [todo EXCEPT ![Sync] = @ \ {m}]
  BY DEF CreatePlaceholder
<1>3. Made(Sync, m) \in MovieRows /\ Write(Sync, m, Made(Sync, m), Active)
  BY <1>1, CreateWrites DEF LInv
<1>4. \A s \in Movies :
        /\ MovSeen(Sync)'[s] = IF s = m THEN Made(Sync, m) ELSE mv[s]
        /\ RowSeen(Sync)'[s] = IF s = m THEN Active ELSE rw[s]
  BY <1>1, <1>3, SeenWrite, RowsTyped DEF LInv
<1>5. Wanted(m) /\ ~mv[m].hasPh /\ InStepSeen(mv)
  BY <1>1, <1>2 DEF Filing
<1>6. /\ Made(Sync, m).deleted = mv[m].deleted /\ Made(Sync, m).hasFile = mv[m].hasFile
      /\ Made(Sync, m).hasPh
  BY <1>1 DEF Made, MovieRows
<1> HIDE DEF mv, rw
<1>7. todo'[Sync] = todo[Sync] \ {m}
  BY <1>1, <1>2 DEF LInv, Sound, PlacesOK
<1>8. ~mv[m].deleted
  BY <1>5 DEF Wanted, InStepSeen
<1>9. InStepSeen(MovSeen(Sync))'
  BY <1>1, <1>4, <1>5, <1>6 DEF InStepSeen
<1>10. Filing(MovSeen(Sync), RowSeen(Sync))'
  <2>1. ASSUME NEW s \in Movies
        PROVE  /\ MovSeen(Sync)'[s].hasPh <=> RowSeen(Sync)'[s].has
               /\ MovSeen(Sync)'[s].hasPh => ~MovSeen(Sync)'[s].deleted
               /\ s \in todo'[Sync] =>
                    /\ MovSeen(Sync)'[s].hasPh <=> ~Wanted(s)
                    /\ MovSeen(Sync)'[s].det = IF Wanted(s) THEN "needs" ELSE "obsolete"
               /\ s \notin todo'[Sync] => (MovSeen(Sync)'[s].hasPh <=> Wanted(s))
    <3>1. CASE s = m
      BY <1>4, <1>5, <1>6, <1>7, <1>8, <3>1, RowsTyped
    <3>2. CASE s # m
      BY <1>1, <1>4, <1>7, <3>2 DEF Filing
    <3> QED
      BY <3>1, <3>2
  <2>2. RowSeen(Sync)'[m].has
    BY <1>4, RowsTyped
  <2> QED
    BY <1>1, <1>2, <1>9, <2>1, <2>2 DEF Filing
<1> QED
  BY <1>1, <1>10 DEF Reached

\* A title that is still to do is marked with what there is to do.
LEMMA NothingIsMissed ==
  ASSUME LInv, quiet, NEW m \in Movies, NothingToDo(Sync, m) PROVE FALSE
<1>1. m \in todo[Sync] /\ Filing(MovSeen(Sync), RowSeen(Sync))
  BY FilesQuiet DEF NothingToDo
<1>2. MovSeen(Sync)[m].det \in {"needs", "obsolete"}
  BY <1>1 DEF Filing
<1> QED
  BY <1>2 DEF NothingToDo

LEMMA CommitReaches ==
  ASSUME LInv, quiet, Commit(Sync) PROVE Reached'
<1>1. /\ pc[Sync] = "files" /\ pc' = [pc EXCEPT ![Sync] = "orphans"]
      /\ UNCHANGED <<arr, mode, inbox, jobs, file>> /\ todo[Sync] = {}
      /\ mov' = MovSeen(Sync) /\ row' = RowSeen(Sync)
      /\ loose' = IF Sync \in took THEN NoLoose ELSE loose
  BY DEF Commit, Goto, ext
<1>2. /\ inbox' = {} /\ jobs' = {} /\ \A w \in Workers : pc'[w] = "idle"
      /\ pc'[Sync] = "orphans"
  BY <1>1, StillQuiet DEF Points
<1>3. Filing(mov', row')
  BY <1>1 DEF LInv, Reached
<1>4. \A m \in Movies : Wanted(m)' <=> Wanted(m)
  BY <1>1, WantedSame
<1>5. \A m \in Movies : row'[m].has => row'[m].path
  BY <1>1, Seen DEF LInv, Actors
<1>6. \A m \in Movies : (mov'[m].hasPh <=> row'[m].has) /\ (mov'[m].hasPh <=> Wanted(m))
  BY <1>1, <1>3 DEF Filing
<1>7. \A m \in Movies : InStep(m)'
  BY <1>1, <1>3 DEF Filing, InStepSeen, InStep
<1>8. (\E m \in Movies : Wanted(m)) => file
  BY <1>3, <1>6 DEF Filing
<1>9. file => loose'.has \/ \E m \in Movies : Wanted(m)
  BY <1>1, <1>3, <1>6 DEF Filing
<1>10. Repaired'
  BY <1>1, <1>4, <1>5, <1>6, <1>7, <1>8, <1>9 DEF Repaired
<1> QED
  BY <1>2, <1>4, <1>6, <1>10 DEF Reached

\* Only the age of the path-only row changes.
LEMMA GraceReaches ==
  ASSUME LInv, quiet, GraceOfOrphanPasses PROVE Reached'
<1>1. /\ loose' = [loose EXCEPT !.old = TRUE]
      /\ UNCHANGED <<ext, mov, row, file, jobs, local, snap, quiet>>
  BY DEF GraceOfOrphanPasses
<1>2. loose'.has = loose.has
  BY <1>1 DEF LInv, Sound, RowsOK, LooseRows
<1>3. UNCHANGED <<mode, arr, inbox, mov, row, file, jobs, pc, todo, tx, took, snap>>
  BY <1>1 DEF ext, local
<1>4. MovSeen(Sync)' = MovSeen(Sync) /\ RowSeen(Sync)' = RowSeen(Sync)
  BY <1>3 DEF MovSeen, RowSeen
<1>5. \A m \in Movies : (Wanted(m)' <=> Wanted(m)) /\ (InStep(m)' <=> InStep(m))
  BY <1>3 DEF Wanted, InStep
<1>6. Reached
  BY DEF LInv
<1>7. InStepSeen(mov) => InStepSeen(mov)'
  BY <1>3 DEF InStepSeen
<1>8. (Scanned => Scanned') /\ (Linked => Linked')
  BY <1>2, <1>3 DEF Scanned, Linked
<1>9. \A m \in Movies : Determination(mov, m)' = Determination(mov, m)
  BY <1>3 DEF Determination, Suppressed, SiblingHasFile
<1>10. Filing(MovSeen(Sync), RowSeen(Sync)) => Filing(MovSeen(Sync), RowSeen(Sync))'
  BY <1>2, <1>3, <1>4, <1>5 DEF Filing, InStepSeen
<1>11. Repaired => Repaired'
  BY <1>2, <1>3, <1>5 DEF Repaired
<1> QED
  BY <1>3, <1>5, <1>6, <1>7, <1>8, <1>9, <1>10, <1>11 DEF Reached

LEMMA StepReached == LInv /\ [Next]_vars /\ quiet' => Reached'
<1> SUFFICES ASSUME LInv, [Next]_vars, quiet' PROVE Reached'
  OBVIOUS
<1>1. CASE UNCHANGED vars
  <2>1. /\ UNCHANGED <<mode, arr, inbox, mov, row, loose, file, jobs, pc, todo, tx, took, snap, quiet>>
    BY <1>1 DEF vars, ext, db, local
  <2>2. Reached
    BY <2>1 DEF LInv
  <2> QED
    BY <2>1, <2>2 DEF Reached, InStepSeen, Scanned, Linked, Filing, MovSeen, RowSeen,
       Wanted, Repaired, InStep, Determination, Suppressed, SiblingHasFile
<1>2. CASE World \/ Crash \/ Orphans
  BY <1>2 DEF World, UserAdds, ArrImports, ArrLosesFile, UserDeletes, ArrChange, RemovedByHand,
     Crash, Orphans, Disturb
<1>3. ASSUME NEW w \in Workers, Worker(w) PROVE Reached'
  BY <1>3 DEF Worker, Enqueue, MovieAdd, MovieImported, MovieFileDeleted, MovieDeleted, Handles,
     MaterializeJob, GraceFinalize, Disturb
<1>4. ASSUME NEW a \in Actors, DeadlockVictim(a) PROVE Reached'
  BY <1>4 DEF DeadlockVictim, Disturb
<1>5. CASE Maintenance
  BY <1>5 DEF Maintenance, LInv, Reached
<1>6. CASE GraceOfOrphanPasses
  BY <1>6, GraceReaches DEF GraceOfOrphanPasses
<1>7. ASSUME NEW a \in Actors, Materialize(a) PROVE Reached'
  <2>1. quiet /\ a = Sync
    BY <1>7 DEF Materialize, Determine, Pick, Commit, RemovePlaceholder, CreatePlaceholder,
       NothingToDo, Materializing, Heard
  <2> QED
    BY <1>7, <2>1, DetermineReaches, PickReaches, CommitReaches, RemoveReaches, CreateReaches,
       NothingIsMissed DEF Materialize
<1>8. CASE Fetch
  BY <1>8, FetchReaches
<1>9. CASE Upsert \/ ScanRoots \/ ResetLinks \/ Relink
  <2>1. quiet
    BY <1>9 DEF Upsert, ScanRoots, ResetLinks, Relink
  <2> QED
    BY <1>9, <2>1, UpsertReaches, ScanReaches, ResetReaches, RelinkReaches
<1> QED
  BY <1>1, <1>2, <1>3, <1>4, <1>5, <1>6, <1>7, <1>8, <1>9 DEF Next, FullSync

LEMMA Invariance == Spec => []LInv
<1>1. Init => LInv
  BY InitSound DEF LInv, Init
<1>2. LInv /\ [Next]_vars => LInv'
  BY StepSound, StepReached DEF LInv
<1> QED
  BY <1>1, <1>2, PTL DEF Spec

-----------------------------------------------------------------------------
\* Every variable keeps its type, whatever is lost, crashes or is aborted.
THEOREM LifeTyped == Spec => []TypeOK
<1>1. LInv => TypeOK
  BY SoundTyped DEF LInv
<1> QED
  BY <1>1, Invariance, PTL

\* A full sync that nothing disturbs repairs every difference (the comment
\* of QuietSyncRepairs), for any number of instances that share the path.
THEOREM SyncRepairs == Spec => []QuietSyncRepairs
<1>1. LInv => QuietSyncRepairs
  BY DEF LInv, Reached, QuietSyncRepairs
<1> QED
  BY <1>1, Invariance, PTL

\* Under protect_siblings no title takes a committed live sibling's file.
THEOREM SiblingsProtected == Spec => SiblingKeepsFile
<1> DEFINE Keeps == \A a \in Actors, m \in Movies :
             RemovePlaceholder(a, m) /\ mode = "protect_siblings" /\ file /\ ~file'
               => \A s \in Movies \ {m} : s \notin DOMAIN tx[a]
                    => ~(row[s].has /\ row[s].path /\ ~mov[s].deleted)
<1>1. Keeps
  <2> SUFFICES ASSUME NEW a \in Actors, NEW m \in Movies, RemovePlaceholder(a, m),
                      mode = "protect_siblings", file, ~file',
                      NEW s \in Movies \ {m}, s \notin DOMAIN tx[a],
                      row[s].has, row[s].path, ~mov[s].deleted
               PROVE  FALSE
    OBVIOUS
  <2>1. ~ProtectedPath(MovSeen(a), RowSeen(a), m)
    BY DEF RemovePlaceholder
  <2>2. MovSeen(a)[s] = mov[s] /\ RowSeen(a)[s] = row[s]
    BY DEF MovSeen, RowSeen
  <2> QED
    BY <2>1, <2>2 DEF ProtectedPath
<1>2. [Next]_vars => [Keeps]_vars
  BY <1>1
<1> QED
  BY <1>2, PTL DEF Spec, SiblingKeepsFile

-----------------------------------------------------------------------------
(* The playback of a placeholder.                                          *)

Intents == [line: Statuses \X Reasons, loaded: Rows]
Verdicts == [status: Statuses, loaded: Rows]
WorkerPoints == {"idle", "search", "show", "flag", "finish", "done"}
Tasks == [pc: WorkerPoints,
          kind: {"play", "fallback"}, of: Nat, todo: Seq(Present), ok: BOOLEAN,
          flag: SUBSET Present, bell: SUBSET Present]
MonitorPoints == {"probe", "wait", "clear", "fetch", "collect", "apply"}

\* The types in groups.
ShownOK ==
  /\ ph \in [Instances -> Rows] /\ qm \in [Instances -> QueueMonitor]
  /\ aged \in [Instances -> BOOLEAN]
RadarrOK ==
  /\ download \in [Instances -> Items]
  /\ media \in [Instances -> {"none", "reported", "grace", "known"}]
  /\ since \in [Instances -> 0..Cap] /\ asks \in [Instances -> 0..2]
  /\ grabs \in 0..set.grabs /\ imports \in 0..set.imports
  /\ restarts \in 0..set.restarts
JobsOK ==
  /\ gate \in BOOLEAN
  /\ job \in [Plays -> {"none", "pending", "running", "done"}]
  /\ fb \in [Plays -> {"none", "waiting", "due", "running", "done"}]
  /\ \A p \in Plays : fb[p] # "none" => Present = Instances
WorkOK ==
  /\ wk \in [Executors -> Tasks]
  /\ \A w \in Executors :
       /\ wk[w].flag \subseteq wk[w].bell
       /\ wk[w].pc \in {"search", "show", "flag"} => wk[w].todo # <<>>
       /\ wk[w].kind = "fallback" => Present = Instances
WatcherOK ==
  /\ mon = [pc |-> mon.pc, ask |-> mon.ask, map |-> mon.map, todo |-> mon.todo]
  /\ mon.pc \in MonitorPoints /\ mon.ask \subseteq Present
  /\ mon.map \in [Instances -> Items]
  /\ DOMAIN mon.todo \subseteq Present /\ mon.todo \in [DOMAIN mon.todo -> Intents]
  /\ wake \in BOOLEAN /\ signal \in BOOLEAN /\ called \subseteq Present
CalendarOK ==
  /\ DOMAIN cal \subseteq Present /\ cal \in [DOMAIN cal -> Verdicts]
PlayTyped == /\ set \in Settings /\ ShownOK /\ RadarrOK /\ JobsOK /\ WorkOK
             /\ WatcherOK /\ CalendarOK

LEMMA PlayTypedIsTypeOK == PlayTyped => PlaybackTypeOK
BY DEF PlayTyped, PlaybackTypeOK, ShownOK, RadarrOK, JobsOK, WorkOK, WatcherOK, CalendarOK, Tasks,
   WorkerPoints, MonitorPoints

-----------------------------------------------------------------------------
(* Settings, instances and lines *)

LEMMA SetFacts ==
  ASSUME set \in Settings
  PROVE  /\ Present \subseteq Instances /\ Present # {}
         /\ set.prefer \in {"primary", "secondary", "both"}
         /\ set.calendar \in {"outside", "REQUEST", "COMING_SOON"}
         /\ set.plays \in Nat /\ set.grabs \in Nat /\ set.imports \in Nat /\ set.restarts \in Nat
BY PlaybackAssumption DEF Present

LEMMA CapFacts ==
  /\ Cap \in Nat /\ SearchTimeout \in Nat /\ RetryGrace \in Nat
  /\ SearchTimeout > 0 /\ RetryGrace > 0
  /\ SearchTimeout <= Cap /\ RetryGrace <= Cap /\ 0 \in 0..Cap
  /\ \A a \in Ages : a \in Int /\ a >= -1 /\ a <= Cap
BY PlaybackAssumption DEF Cap, Ages

LEMMA InstanceFacts ==
  ASSUME set \in Settings
  PROVE  /\ Preferred \in Instances /\ Other \in Instances
         /\ Preferred # Other /\ Instances = {Preferred, Other}
<1>1. PICK uhd \in Instances : uhd # Standard /\ Instances = {Standard, uhd}
  BY PlaybackAssumption
<1>2. Standard \in Instances
  BY PlaybackAssumption
<1>3. \A i \in Instances : Others(i) = (IF i = Standard THEN {uhd} ELSE {Standard})
  BY <1>1, <1>2 DEF Others
<1>4. (CHOOSE i \in {uhd} : TRUE) = uhd /\ (CHOOSE i \in {Standard} : TRUE) = Standard
  OBVIOUS
<1>5. Preferred = uhd \/ Preferred = Standard
  BY <1>2, <1>3, <1>4 DEF Preferred
<1>6. CASE Preferred = uhd
  <2>1. Other = Standard
    BY <1>1, <1>3, <1>4, <1>6 DEF Other
  <2> QED BY <1>1, <1>2, <1>6, <2>1
<1>7. CASE Preferred = Standard
  <2>1. Other = uhd
    BY <1>1, <1>2, <1>3, <1>4, <1>7 DEF Other
  <2> QED BY <1>1, <1>2, <1>7, <2>1
<1> QED BY <1>5, <1>6, <1>7

LEMMA SelectedFacts ==
  ASSUME set \in Settings
  PROVE  Selected \in Seq(Present) /\ Selected # <<>>
<1>1. /\ Preferred \in Instances /\ Other \in Instances /\ Instances = {Preferred, Other}
      /\ Present \subseteq Instances /\ Present # {}
  BY InstanceFacts, SetFacts
<1>2. CASE set.prefer = "both" /\ Present = Instances
  BY <1>1, <1>2 DEF Selected
<1>3. CASE ~(set.prefer = "both" /\ Present = Instances)
  <2>1. (IF Preferred \in Present THEN Preferred ELSE Other) \in Present
    BY <1>1
  <2> QED BY <1>3, <2>1 DEF Selected
<1> QED BY <1>2, <1>3

LEMMA TimerFacts ==
  ASSUME NEW q \in QueueMonitor, NEW item \in Items
  PROVE  /\ NextQm(q, item) \in QueueMonitor
         /\ Line(q, item) \in Statuses \X Reasons
BY CapFacts DEF NextQm, Line, QueueMonitor, Items, Statuses, Reasons, ActiveQueueStatuses,
   Terminal, Unset, Ages

LEMMA OlderFacts ==
  ASSUME NEW a \in Ages, NEW n \in Nat
  PROVE  Older(a, n) \in Ages /\ (a \in 0..Cap => Older(a, n) \in 0..Cap)
BY CapFacts DEF Older, Ages, Unset

-----------------------------------------------------------------------------
(* Types *)

LEMMA RowFacts ==
  /\ \A r \in Rows, st \in Statuses, w \in Reasons :
       Intend(r, st, w) =
         [has |-> r.has, status |-> st, why |-> w, watch |-> r.watch /\ st \notin Terminal]
       /\ Intend(r, st, w) \in Rows
  /\ \A r, l, n \in Rows :
       /\ Flush(r, l, n) \in Rows
       /\ Flush(r, l, n).status = IF n.status = l.status THEN r.status ELSE n.status
       /\ Flush(r, l, n).watch = IF n.watch = l.watch THEN r.watch ELSE n.watch
<1>1. ASSUME NEW r \in Rows, NEW st \in Statuses, NEW w \in Reasons
      PROVE  /\ Intend(r, st, w) =
               [has |-> r.has, status |-> st, why |-> w, watch |-> r.watch /\ st \notin Terminal]
             /\ Intend(r, st, w) \in Rows
  <2>1. Intend(r, st, w) =
          [has |-> r.has, status |-> st, why |-> w, watch |-> r.watch /\ st \notin Terminal]
    BY DEF Intend
  <2>2. r.has \in BOOLEAN /\ (r.watch /\ st \notin Terminal) \in BOOLEAN
    BY DEF Rows
  <2> QED BY <2>1, <2>2 DEF Rows
<1>2. ASSUME NEW r \in Rows, NEW l \in Rows, NEW n \in Rows
      PROVE  /\ Flush(r, l, n) \in Rows
             /\ Flush(r, l, n).status = IF n.status = l.status THEN r.status ELSE n.status
             /\ Flush(r, l, n).watch = IF n.watch = l.watch THEN r.watch ELSE n.watch
  <2>1. DOMAIN r = {"has", "status", "why", "watch"}
    BY DEF Rows
  <2>2. Flush(r, l, n) = [has |-> IF n.has = l.has THEN r.has ELSE n.has,
                          status |-> IF n.status = l.status THEN r.status ELSE n.status,
                          why |-> IF n.why = l.why THEN r.why ELSE n.why,
                          watch |-> IF n.watch = l.watch THEN r.watch ELSE n.watch]
    BY <2>1 DEF Flush
  <2>3. r.has \in BOOLEAN /\ n.has \in BOOLEAN /\ r.status \in Statuses /\ n.status \in Statuses
        /\ r.why \in Reasons /\ n.why \in Reasons /\ r.watch \in BOOLEAN /\ n.watch \in BOOLEAN
    BY DEF Rows
  <2> QED BY <2>2, <2>3 DEF Rows
<1> QED BY <1>1, <1>2

LEMMA IdleFacts ==
  /\ Idle \in Tasks /\ Idle.flag = {} /\ Idle.bell = {} /\ Idle.pc = "idle" /\ Idle.kind = "play"
  /\ NoIntents \in [{} -> Intents] /\ NoIntents \in [{} -> Verdicts] /\ DOMAIN NoIntents = {}
  /\ Quiet.todo = NoIntents /\ Quiet.pc = "probe" /\ Quiet.ask = {}
  /\ Quiet.map \in [Instances -> Items]
  /\ Quiet = [pc |-> Quiet.pc, ask |-> Quiet.ask, map |-> Quiet.map, todo |-> Quiet.todo]
BY DEF Idle, Tasks, WorkerPoints, NoIntents, Quiet, Items

LEMMA InitPlayTyped == PlaybackInit => PlayTyped
<1> SUFFICES ASSUME PlaybackInit PROVE PlayTyped
  OBVIOUS
<1> USE DEF PlaybackInit
<1>0. set \in Settings
  OBVIOUS
<1>1. ShownOK
  <2>1. ph \in [Instances -> Rows]
    BY DEF Rows, Statuses, Reasons
  <2>2. qm \in [Instances -> QueueMonitor] /\ aged \in [Instances -> BOOLEAN]
    BY CapFacts DEF Fresh, QueueMonitor, Ages, Unset
  <2> QED BY <2>1, <2>2 DEF ShownOK
<1>2. RadarrOK
  BY <1>0, CapFacts, SetFacts DEF RadarrOK, Items
<1>3. JobsOK
  BY DEF JobsOK
<1>4. WorkOK
  BY IdleFacts DEF WorkOK
<1>5. WatcherOK
  BY IdleFacts DEF WatcherOK, MonitorPoints
<1>6. CalendarOK
  BY IdleFacts DEF CalendarOK
<1> QED BY <1>0, <1>1, <1>2, <1>3, <1>4, <1>5, <1>6 DEF PlayTyped

\* Groups that a step leaves alone keep their types.
LEMMA KeepShown == PlayTyped /\ UNCHANGED <<set, ph, qm, aged>> => ShownOK'
BY DEF PlayTyped, ShownOK
LEMMA KeepRadarr ==
  PlayTyped /\ UNCHANGED <<set, download, media, since, asks, grabs, imports, restarts>>
    => RadarrOK'
BY DEF PlayTyped, RadarrOK
LEMMA KeepJobs == PlayTyped /\ UNCHANGED <<set, gate, job, fb>> => JobsOK'
BY DEF PlayTyped, JobsOK, Plays, Present
LEMMA KeepWork == PlayTyped /\ UNCHANGED <<set, wk>> => WorkOK'
BY DEF PlayTyped, WorkOK, Tasks, Present
LEMMA KeepWatcher == PlayTyped /\ UNCHANGED <<set, mon, wake, signal, called>> => WatcherOK'
BY DEF PlayTyped, WatcherOK, Present
LEMMA KeepCalendar == PlayTyped /\ UNCHANGED <<set, cal>> => CalendarOK'
BY DEF PlayTyped, CalendarOK, Present

\* A worker goes on.
LEMMA WorkTyped ==
  ASSUME PlayTyped, UNCHANGED set, NEW w \in Executors, NEW t \in Tasks,
         wk' = [wk EXCEPT ![w] = t], t.flag \subseteq t.bell,
         t.pc \in {"search", "show", "flag"} => t.todo # <<>>,
         t.kind = "fallback" => Present = Instances
  PROVE  WorkOK' /\ wk'[w] = t /\ \A v \in Executors \ {w} : wk'[v] = wk[v]
<1>1. wk' \in [Executors -> Tasks]
  BY DEF PlayTyped, WorkOK
<1>2. Tasks' = Tasks /\ Present' = Present
  BY DEF Tasks, Present
<1>3. \A v \in Executors : wk'[v] = IF v = w THEN t ELSE wk[v]
  BY DEF PlayTyped, WorkOK
<1> QED BY <1>1, <1>2, <1>3 DEF PlayTyped, WorkOK

LEMMA FlaggedTyped ==
  ASSUME PlayTyped, NEW w \in Executors, NEW rows \in [Instances -> Rows]
  PROVE  /\ Flagged(w, rows) \in [Instances -> Rows]
         /\ \A i \in Instances : Flagged(w, rows)[i].status = rows[i].status
         /\ \A i \in Instances : Flagged(w, rows)[i].watch = (rows[i].watch \/ i \in wk[w].flag)
<1>1. \A r \in Rows : LET n == [r EXCEPT !.watch = TRUE] IN n \in Rows /\ n.status = r.status
      /\ n.watch = TRUE
  BY DEF Rows
<1>2. \A i \in Instances : rows[i] \in Rows /\ rows[i].watch \in BOOLEAN
  BY DEF Rows
<1>3. \A i \in Instances : Flagged(w, rows)[i] =
        IF i \in wk[w].flag THEN [rows[i] EXCEPT !.watch = TRUE] ELSE rows[i]
  BY DEF Flagged
<1>4. \A i \in Instances : Flagged(w, rows)[i] \in Rows
  BY <1>1, <1>2, <1>3
<1>5. Flagged(w, rows) \in [Instances -> Rows]
  BY <1>4 DEF Flagged
<1> QED BY <1>1, <1>2, <1>3, <1>5

-----------------------------------------------------------------------------
(* Every step keeps the types. *)

LEMMA WatcherTyped ==
  ASSUME PlayTyped, UNCHANGED set, NEW p \in MonitorPoints, NEW a \in SUBSET Present,
         NEW f \in [Instances -> Items], NEW t, DOMAIN t \subseteq Present,
         t \in [DOMAIN t -> Intents],
         mon' = [pc |-> p, ask |-> a, map |-> f, todo |-> t],
         wake' \in BOOLEAN, signal' \in BOOLEAN, called' \subseteq Present
  PROVE  WatcherOK'
<1>1. Present' = Present
  BY DEF Present
<1>2. mon'.pc = p /\ mon'.ask = a /\ mon'.map = f /\ mon'.todo = t
  OBVIOUS
<1> QED BY <1>1, <1>2 DEF WatcherOK

LEMMA ReceiveTyped == ASSUME PlayTyped, NEW p \in Plays, Receive(p) PROVE PlayTyped'
<1> USE DEF Receive, radarr, watcher, ghost, bounds
<1>1. ShownOK'
  <2>1. \A i \in Instances : ph[i] \in Rows /\ Intend(ph[i], "SEARCH_QUEUED", "other") \in Rows
    BY RowFacts DEF PlayTyped, ShownOK, Statuses, Reasons
  <2> QED BY <2>1 DEF PlayTyped, ShownOK
<1>2. JobsOK'
  BY DEF PlayTyped, JobsOK, Plays, Present
<1> QED BY <1>1, <1>2, KeepRadarr, KeepWork, KeepWatcher, KeepCalendar DEF PlayTyped

LEMMA GateTypedStep == ASSUME PlayTyped, GateOpens PROVE PlayTyped'
<1> USE DEF GateOpens, shown, radarr, queue, watcher, ghost, bounds
<1>1. JobsOK'
  BY DEF PlayTyped, JobsOK, Plays, Present
<1> QED BY <1>1, KeepShown, KeepRadarr, KeepWork, KeepWatcher, KeepCalendar DEF PlayTyped

LEMMA StartFacts ==
  ASSUME PlayTyped, UNCHANGED set, NEW w \in Executors, NEW k \in {"play", "fallback"}, NEW p \in Plays,
         NEW rows \in Seq(Present), Start(w, k, p, rows), k = "fallback" => Present = Instances
  PROVE  /\ WorkOK'
         /\ \E t \in Tasks : /\ wk' = [wk EXCEPT ![w] = t] /\ t.flag = {} /\ t.ok = FALSE
                             /\ t.bell = {} /\ t.pc \in {"search", "finish"}
<1>1. DEFINE t == [pc |-> IF rows = <<>> THEN "finish" ELSE "search", kind |-> k, of |-> p, todo |-> rows,
                   ok |-> FALSE, flag |-> {}, bell |-> {}]
<1>3. t \in Tasks
  BY DEF Tasks, WorkerPoints, Plays
<1>4. wk' = [wk EXCEPT ![w] = t]
  BY DEF Start
<1>5. t.flag = {} /\ t.bell = {} /\ t.ok = FALSE /\ t.pc \in {"search", "finish"}
      /\ (t.pc = "search" => t.todo # <<>>)
      /\ (t.kind = "fallback" => Present = Instances)
  OBVIOUS
<1> HIDE DEF t
<1>6. WorkOK'
  BY <1>3, <1>4, <1>5, WorkTyped
<1> QED BY <1>3, <1>4, <1>5, <1>6

LEMMA ClaimStarts ==
  ASSUME PlayTyped, NEW w \in Executors, Claim(w)
  PROVE  /\ WorkOK' /\ JobsOK'
         /\ \E t \in Tasks : /\ wk' = [wk EXCEPT ![w] = t] /\ t.flag = {} /\ t.ok = FALSE
                             /\ t.bell = {} /\ t.pc \in {"search", "finish"}
<1> USE DEF Claim
<1>1. PICK p \in Plays :
       \/ /\ job' = [job EXCEPT ![p] = "running"] /\ UNCHANGED fb
          /\ Start(w, "play", p, IF \E i \in Present : ph[i].has THEN Selected ELSE <<>>)
       \/ /\ fb[p] = "due"
          /\ fb' = [fb EXCEPT ![p] = "running"] /\ UNCHANGED job
          /\ Start(w, "fallback", p, IF HasFile(Preferred) THEN <<>> ELSE <<Other>>)
  OBVIOUS
<1>2. UNCHANGED <<set, gate>>
  OBVIOUS
<1>3. JobsOK'
  BY <1>1, <1>2 DEF PlayTyped, JobsOK, Plays, Present
<1>4. <<>> \in Seq(Present) /\ Selected \in Seq(Present)
  BY SelectedFacts DEF PlayTyped
<1>5. CASE Start(w, "play", p, IF \E i \in Present : ph[i].has THEN Selected ELSE <<>>)
  <2>1. (IF \E i \in Present : ph[i].has THEN Selected ELSE <<>>) \in Seq(Present)
    BY <1>4
  <2> QED BY <1>2, <1>3, <1>5, <2>1, StartFacts
<1>6. CASE fb[p] = "due" /\ Start(w, "fallback", p, IF HasFile(Preferred) THEN <<>> ELSE <<Other>>)
  <2>1. Present = Instances /\ Other \in Instances
    BY <1>6, InstanceFacts DEF PlayTyped, JobsOK
  <2>2. (IF HasFile(Preferred) THEN <<>> ELSE <<Other>>) \in Seq(Present)
    BY <1>4, <2>1
  <2> QED BY <1>2, <1>3, <1>6, <2>1, <2>2, StartFacts
<1> QED BY <1>1, <1>5, <1>6

\* A worker's task and what a step makes of it, field by field.
Task(p, k, o, a, g, f, b) ==
  [pc |-> p, kind |-> k, of |-> o, todo |-> a, ok |-> g, flag |-> f, bell |-> b]

LEMMA TaskTyped ==
  /\ \A t \in Tasks : t = Task(t.pc, t.kind, t.of, t.todo, t.ok, t.flag, t.bell)
  /\ \A p \in WorkerPoints, k \in {"play", "fallback"}, o \in Nat, a \in Seq(Present), g \in BOOLEAN,
        f \in SUBSET Present, b \in SUBSET Present : Task(p, k, o, a, g, f, b) \in Tasks
  /\ \A p, k, o, a, g, f, b :
       LET t == Task(p, k, o, a, g, f, b)
       IN t.pc = p /\ t.kind = k /\ t.todo = a /\ t.ok = g /\ t.flag = f /\ t.bell = b
<1>1. \A t \in Tasks : t = Task(t.pc, t.kind, t.of, t.todo, t.ok, t.flag, t.bell)
  BY DEF Tasks, Task
<1>2. \A p \in WorkerPoints, k \in {"play", "fallback"}, o \in Nat, a \in Seq(Present), g \in BOOLEAN,
        f \in SUBSET Present, b \in SUBSET Present : Task(p, k, o, a, g, f, b) \in Tasks
  BY DEF Tasks, Task
<1>3. \A p, k, o, a, g, f, b :
       LET t == Task(p, k, o, a, g, f, b)
       IN t.pc = p /\ t.kind = k /\ t.todo = a /\ t.ok = g /\ t.flag = f /\ t.bell = b
  BY DEF Task
<1> QED BY <1>1, <1>2, <1>3

LEMMA WorkFacts ==
  ASSUME PlayTyped, NEW w \in Executors
  PROVE  /\ wk[w] \in Tasks /\ wk[w].kind \in {"play", "fallback"} /\ wk[w].of \in Nat
         /\ wk[w].todo \in Seq(Present) /\ wk[w].ok \in BOOLEAN
         /\ wk[w].flag \in SUBSET Present /\ wk[w].bell \in SUBSET Present
BY DEF PlayTyped, WorkOK, Tasks

\* The steps of a worker.
LEMMA SkipTask ==
  ASSUME PlayTyped, NEW w \in Executors, NEW a, NEW p
  PROVE  [[wk[w] EXCEPT !.todo = a] EXCEPT !.pc = p] =
           Task(p, wk[w].kind, wk[w].of, a, wk[w].ok, wk[w].flag, wk[w].bell)
<1>1. wk[w] = Task(wk[w].pc, wk[w].kind, wk[w].of, wk[w].todo, wk[w].ok, wk[w].flag, wk[w].bell)
  BY TaskTyped DEF PlayTyped, WorkOK
<1> DEFINE q == wk[w].pc
           k == wk[w].kind
           o == wk[w].of
           d == wk[w].todo
           h == wk[w].ok
           i == wk[w].flag
           j == wk[w].bell
<1> HIDE DEF q, k, o, d, h, i, j
<1>2. wk[w] = Task(q, k, o, d, h, i, j)
  BY <1>1 DEF q, k, o, d, h, i, j
<1>3. [Task(q, k, o, d, h, i, j) EXCEPT !.todo = a] = Task(q, k, o, a, h, i, j)
  BY DEF Task
<1>4. [wk[w] EXCEPT !.todo = a] = Task(q, k, o, a, h, i, j)
  BY <1>2, <1>3, Zenon
<1>5. [Task(q, k, o, a, h, i, j) EXCEPT !.pc = p] = Task(p, k, o, a, h, i, j)
  BY DEF Task
<1>6. [[wk[w] EXCEPT !.todo = a] EXCEPT !.pc = p] = Task(p, k, o, a, h, i, j)
  BY <1>4, <1>5, Zenon
<1> QED BY <1>6, Zenon DEF k, o, d, h, i, j

LEMMA AskTask ==
  ASSUME PlayTyped, NEW w \in Executors, NEW g, NEW p
  PROVE  [[wk[w] EXCEPT !.ok = g] EXCEPT !.pc = p] =
           Task(p, wk[w].kind, wk[w].of, wk[w].todo, g, wk[w].flag, wk[w].bell)
<1>1. wk[w] = Task(wk[w].pc, wk[w].kind, wk[w].of, wk[w].todo, wk[w].ok, wk[w].flag, wk[w].bell)
  BY TaskTyped DEF PlayTyped, WorkOK
<1> DEFINE q == wk[w].pc
           k == wk[w].kind
           o == wk[w].of
           d == wk[w].todo
           h == wk[w].ok
           i == wk[w].flag
           j == wk[w].bell
<1> HIDE DEF q, k, o, d, h, i, j
<1>2. wk[w] = Task(q, k, o, d, h, i, j)
  BY <1>1 DEF q, k, o, d, h, i, j
<1>3. [Task(q, k, o, d, h, i, j) EXCEPT !.ok = g] = Task(q, k, o, d, g, i, j)
  BY DEF Task
<1>4. [wk[w] EXCEPT !.ok = g] = Task(q, k, o, d, g, i, j)
  BY <1>2, <1>3, Zenon
<1>5. [Task(q, k, o, d, g, i, j) EXCEPT !.pc = p] = Task(p, k, o, d, g, i, j)
  BY DEF Task
<1>6. [[wk[w] EXCEPT !.ok = g] EXCEPT !.pc = p] = Task(p, k, o, d, g, i, j)
  BY <1>4, <1>5, Zenon
<1> QED BY <1>6, Zenon DEF k, o, d, h, i, j

LEMMA ShowTask ==
  ASSUME PlayTyped, NEW w \in Executors, NEW p, NEW f, NEW b
  PROVE  [[[wk[w] EXCEPT !.pc = p] EXCEPT !.flag = f] EXCEPT !.bell = b] =
           Task(p, wk[w].kind, wk[w].of, wk[w].todo, wk[w].ok, f, b)
<1>1. wk[w] = Task(wk[w].pc, wk[w].kind, wk[w].of, wk[w].todo, wk[w].ok, wk[w].flag, wk[w].bell)
  BY TaskTyped DEF PlayTyped, WorkOK
<1> DEFINE q == wk[w].pc
           k == wk[w].kind
           o == wk[w].of
           d == wk[w].todo
           h == wk[w].ok
           i == wk[w].flag
           j == wk[w].bell
<1> HIDE DEF q, k, o, d, h, i, j
<1>2. wk[w] = Task(q, k, o, d, h, i, j)
  BY <1>1 DEF q, k, o, d, h, i, j
<1>3. [Task(q, k, o, d, h, i, j) EXCEPT !.pc = p] = Task(p, k, o, d, h, i, j)
  BY DEF Task
<1>4. [wk[w] EXCEPT !.pc = p] = Task(p, k, o, d, h, i, j)
  BY <1>2, <1>3, Zenon
<1>5. [Task(p, k, o, d, h, i, j) EXCEPT !.flag = f] = Task(p, k, o, d, h, f, j)
  BY DEF Task
<1>6. [[wk[w] EXCEPT !.pc = p] EXCEPT !.flag = f] = Task(p, k, o, d, h, f, j)
  BY <1>4, <1>5, Zenon
<1>7. [Task(p, k, o, d, h, f, j) EXCEPT !.bell = b] = Task(p, k, o, d, h, f, b)
  BY DEF Task
<1>8. [[[wk[w] EXCEPT !.pc = p] EXCEPT !.flag = f] EXCEPT !.bell = b] = Task(p, k, o, d, h, f, b)
  BY <1>6, <1>7, Zenon
<1> QED BY <1>8, Zenon DEF k, o, d, h, i, j

LEMMA FlagTask ==
  ASSUME PlayTyped, NEW w \in Executors, NEW p, NEW b, NEW f
  PROVE  [[[[wk[w] EXCEPT !.todo = Tail(wk[w].todo)] EXCEPT !.pc = p] EXCEPT !.bell = b] EXCEPT !.flag = f] =
           Task(p, wk[w].kind, wk[w].of, Tail(wk[w].todo), wk[w].ok, f, b)
<1>1. wk[w] = Task(wk[w].pc, wk[w].kind, wk[w].of, wk[w].todo, wk[w].ok, wk[w].flag, wk[w].bell)
  BY TaskTyped DEF PlayTyped, WorkOK
<1> DEFINE q == wk[w].pc
           k == wk[w].kind
           o == wk[w].of
           d == wk[w].todo
           h == wk[w].ok
           i == wk[w].flag
           j == wk[w].bell
           a == Tail(wk[w].todo)
<1> HIDE DEF a, q, k, o, d, h, i, j
<1>2. wk[w] = Task(q, k, o, d, h, i, j)
  BY <1>1 DEF q, k, o, d, h, i, j
<1>3. [Task(q, k, o, d, h, i, j) EXCEPT !.todo = a] = Task(q, k, o, a, h, i, j)
  BY DEF Task
<1>4. [wk[w] EXCEPT !.todo = a] = Task(q, k, o, a, h, i, j)
  BY <1>2, <1>3, Zenon
<1>5. [Task(q, k, o, a, h, i, j) EXCEPT !.pc = p] = Task(p, k, o, a, h, i, j)
  BY DEF Task
<1>6. [[wk[w] EXCEPT !.todo = a] EXCEPT !.pc = p] = Task(p, k, o, a, h, i, j)
  BY <1>4, <1>5, Zenon
<1>7. [Task(p, k, o, a, h, i, j) EXCEPT !.bell = b] = Task(p, k, o, a, h, i, b)
  BY DEF Task
<1>8. [[[wk[w] EXCEPT !.todo = a] EXCEPT !.pc = p] EXCEPT !.bell = b] = Task(p, k, o, a, h, i, b)
  BY <1>6, <1>7, Zenon
<1>9. [Task(p, k, o, a, h, i, b) EXCEPT !.flag = f] = Task(p, k, o, a, h, f, b)
  BY DEF Task
<1>10. [[[[wk[w] EXCEPT !.todo = a] EXCEPT !.pc = p] EXCEPT !.bell = b] EXCEPT !.flag = f] =
         Task(p, k, o, a, h, f, b)
  BY <1>8, <1>9, Zenon
<1> QED BY <1>10, Zenon DEF a, k, o, d, h, i, j

LEMMA FinishTask ==
  ASSUME PlayTyped, NEW w \in Executors, NEW p
  PROVE  [wk[w] EXCEPT !.pc = p] =
           Task(p, wk[w].kind, wk[w].of, wk[w].todo, wk[w].ok, wk[w].flag, wk[w].bell)
<1>1. wk[w] = Task(wk[w].pc, wk[w].kind, wk[w].of, wk[w].todo, wk[w].ok, wk[w].flag, wk[w].bell)
  BY TaskTyped DEF PlayTyped, WorkOK
<1> DEFINE q == wk[w].pc
           k == wk[w].kind
           o == wk[w].of
           d == wk[w].todo
           h == wk[w].ok
           i == wk[w].flag
           j == wk[w].bell
<1> HIDE DEF q, k, o, d, h, i, j
<1>2. wk[w] = Task(q, k, o, d, h, i, j)
  BY <1>1 DEF q, k, o, d, h, i, j
<1>3. [Task(q, k, o, d, h, i, j) EXCEPT !.pc = p] = Task(p, k, o, d, h, i, j)
  BY DEF Task
<1>4. [wk[w] EXCEPT !.pc = p] = Task(p, k, o, d, h, i, j)
  BY <1>2, <1>3, Zenon
<1> QED BY <1>4, Zenon DEF k, o, d, h, i, j

LEMMA TodoFacts ==
  ASSUME NEW s \in Seq(Present), s # <<>>
  PROVE  /\ Head(s) \in Present /\ Tail(s) \in Seq(Present)
         /\ Len(s) > 1 => Tail(s) # <<>>
<1>1. Head(s) \in Present /\ Tail(s) \in Seq(Present)
  OBVIOUS
<1>2. Len(Tail(s)) = Len(s) - 1 /\ Len(s) \in Nat
  OBVIOUS
<1>3. Len(<<>>) = 0
  OBVIOUS
<1>4. ASSUME Len(s) > 1, Tail(s) = <<>> PROVE FALSE
  <2>1. Len(Tail(s)) = 0
    BY <1>3, <1>4
  <2>2. Len(s) - 1 = 0
    BY <1>2, <2>1, Zenon
  <2>3. Len(s) \in Nat /\ Len(s) > 1
    BY <1>2, <1>4
  <2> DEFINE n == Len(s)
  <2> HIDE DEF n
  <2>4. n - 1 = 0 /\ n \in Nat /\ n > 1
    BY <2>2, <2>3 DEF n
  <2> QED BY <2>4
<1> QED BY <1>1, <1>4

LEMMA SkipFacts ==
  ASSUME PlayTyped, UNCHANGED set, NEW w \in Executors, wk[w].pc \in {"search", "show"}, Skip(w)
  PROVE  /\ WorkOK' /\ wk'[w].pc \in {"search", "finish"}
         /\ wk'[w].flag = wk[w].flag /\ wk'[w].bell = wk[w].bell
         /\ \A v \in Executors \ {w} : wk'[v] = wk[v]
<1>1. /\ wk[w].todo # <<>> /\ wk[w].todo \in Seq(Present) /\ wk[w].flag \subseteq wk[w].bell
      /\ wk[w].kind = "fallback" => Present = Instances
  BY DEF PlayTyped, WorkOK, Tasks
<1> DEFINE p == IF Len(wk[w].todo) > 1 THEN "search" ELSE "finish"
           t == Task(p, wk[w].kind, wk[w].of, Tail(wk[w].todo), wk[w].ok, wk[w].flag, wk[w].bell)
<1>2. Tail(wk[w].todo) \in Seq(Present) /\ (p = "search" => Tail(wk[w].todo) # <<>>)
      /\ p \in {"search", "finish"}
  BY <1>1, TodoFacts
<1>3. wk' = [wk EXCEPT ![w].todo = Tail(wk[w].todo), ![w].pc = p]
  BY DEF Skip
<1> HIDE DEF p
<1>4. wk' = [wk EXCEPT ![w] = [[wk[w] EXCEPT !.todo = Tail(wk[w].todo)] EXCEPT !.pc = p]]
  BY <1>3 DEF PlayTyped, WorkOK
<1>5. wk' = [wk EXCEPT ![w] = t]
  BY <1>4, SkipTask
<1>6. t \in Tasks
  <2>1. p \in WorkerPoints
    BY <1>2 DEF WorkerPoints
  <2> QED BY <1>2, <2>1, WorkFacts, TaskTyped
<1>7. t.pc = p /\ t.kind = wk[w].kind /\ t.todo = Tail(wk[w].todo) /\ t.flag = wk[w].flag
      /\ t.bell = wk[w].bell
  BY TaskTyped
<1> HIDE DEF t
<1>8. WorkOK' /\ wk'[w] = t /\ \A v \in Executors \ {w} : wk'[v] = wk[v]
  BY <1>1, <1>2, <1>5, <1>6, <1>7, WorkTyped
<1> QED BY <1>2, <1>7, <1>8

LEMMA AskFacts ==
  ASSUME PlayTyped, UNCHANGED set, NEW w \in Executors, wk[w].pc = "search", NEW g \in BOOLEAN,
         wk' = [wk EXCEPT ![w].ok = g, ![w].pc = "show"]
  PROVE  /\ WorkOK' /\ wk'[w].pc = "show" /\ wk'[w].ok = g /\ wk'[w].todo = wk[w].todo
         /\ wk'[w].flag = wk[w].flag /\ wk'[w].bell = wk[w].bell
         /\ \A v \in Executors \ {w} : wk'[v] = wk[v]
<1> DEFINE t == Task("show", wk[w].kind, wk[w].of, wk[w].todo, g, wk[w].flag, wk[w].bell)
<1>1. wk[w].todo # <<>> /\ wk[w].flag \subseteq wk[w].bell
      /\ (wk[w].kind = "fallback" => Present = Instances)
  BY DEF PlayTyped, WorkOK
<1>2. wk' = [wk EXCEPT ![w] = [[wk[w] EXCEPT !.ok = g] EXCEPT !.pc = "show"]]
  BY DEF PlayTyped, WorkOK
<1>3. wk' = [wk EXCEPT ![w] = t]
  <2>1. [[wk[w] EXCEPT !.ok = g] EXCEPT !.pc = "show"] = t
    BY AskTask
  <2> QED BY <1>2, <2>1, Zenon
<1>4. t \in Tasks
  <2>1. "show" \in WorkerPoints
    BY DEF WorkerPoints
  <2> QED BY <2>1, WorkFacts, TaskTyped
<1>5. t.pc = "show" /\ t.kind = wk[w].kind /\ t.todo = wk[w].todo /\ t.ok = g /\ t.flag = wk[w].flag
      /\ t.bell = wk[w].bell
  BY TaskTyped
<1> HIDE DEF t
<1>6. WorkOK' /\ wk'[w] = t /\ \A v \in Executors \ {w} : wk'[v] = wk[v]
  BY <1>1, <1>3, <1>4, <1>5, WorkTyped
<1> QED BY <1>5, <1>6

LEMMA ShowFacts ==
  ASSUME PlayTyped, UNCHANGED set, NEW w \in Executors, wk[w].pc = "show",
         wk' = [wk EXCEPT ![w].pc = "flag", ![w].flag = {}, ![w].bell = {}]
  PROVE  /\ WorkOK' /\ wk'[w].pc = "flag" /\ wk'[w].ok = wk[w].ok /\ wk'[w].todo = wk[w].todo
         /\ wk'[w].flag = {} /\ wk'[w].bell = {}
         /\ \A v \in Executors \ {w} : wk'[v] = wk[v]
<1> DEFINE t == Task("flag", wk[w].kind, wk[w].of, wk[w].todo, wk[w].ok, {}, {})
<1>1. wk[w].todo # <<>> /\ (wk[w].kind = "fallback" => Present = Instances)
  BY DEF PlayTyped, WorkOK
<1>2. wk' = [wk EXCEPT ![w] = [[[wk[w] EXCEPT !.pc = "flag"] EXCEPT !.flag = {}] EXCEPT !.bell = {}]]
  BY DEF PlayTyped, WorkOK
<1>3. wk' = [wk EXCEPT ![w] = t]
  <2>1. \A x, y, z : [[[wk[w] EXCEPT !.pc = x] EXCEPT !.flag = y] EXCEPT !.bell = z] =
                      Task(x, wk[w].kind, wk[w].of, wk[w].todo, wk[w].ok, y, z)
    BY ShowTask
  <2>2. [[[wk[w] EXCEPT !.pc = "flag"] EXCEPT !.flag = {}] EXCEPT !.bell = {}] = t
    BY <2>1
  <2> QED BY <1>2, <2>2, Zenon
<1>4. t \in Tasks
  <2>1. "flag" \in WorkerPoints /\ {} \in SUBSET Present
    BY DEF WorkerPoints
  <2> QED BY <2>1, WorkFacts, TaskTyped
<1>5. t.pc = "flag" /\ t.kind = wk[w].kind /\ t.todo = wk[w].todo /\ t.ok = wk[w].ok /\ t.flag = {}
      /\ t.bell = {}
  BY TaskTyped
<1> HIDE DEF t
<1>6. WorkOK' /\ wk'[w] = t /\ \A v \in Executors \ {w} : wk'[v] = wk[v]
  BY <1>1, <1>3, <1>4, <1>5, WorkTyped
<1> QED BY <1>5, <1>6

LEMMA FlagFacts ==
  ASSUME PlayTyped, NEW w \in Executors, Flag(w)
  PROVE  /\ WorkOK' /\ wk'[w].pc \in {"search", "finish"}
         /\ Row(w) \in Present /\ wk'[w].flag \subseteq (IF wk[w].ok THEN {Row(w)} ELSE {})
         /\ \A v \in Executors \ {w} : wk'[v] = wk[v]
<1>1. wk[w].todo # <<>> /\ wk[w].todo \in Seq(Present)
      /\ (wk[w].kind = "fallback" => Present = Instances)
  BY DEF PlayTyped, WorkOK, Tasks, At, Flag
<1> DEFINE p == IF Len(wk[w].todo) > 1 THEN "search" ELSE "finish"
           b == IF wk[w].ok THEN {Row(w)} ELSE {}
           f == IF wk[w].ok /\ ~ph[Row(w)].watch THEN {Row(w)} ELSE {}
           t == Task(p, wk[w].kind, wk[w].of, Tail(wk[w].todo), wk[w].ok, f, b)
<1>2. Tail(wk[w].todo) \in Seq(Present) /\ (p = "search" => Tail(wk[w].todo) # <<>>)
      /\ p \in {"search", "finish"}
      /\ Row(w) \in Present
  BY <1>1, TodoFacts DEF Row
<1>3. b \in SUBSET Present /\ f \in SUBSET Present /\ f \subseteq b
      /\ f \subseteq (IF wk[w].ok THEN {Row(w)} ELSE {})
  BY <1>2
<1>4. wk' = [wk EXCEPT ![w].todo = Tail(wk[w].todo), ![w].pc = p, ![w].bell = b, ![w].flag = f]
      /\ UNCHANGED set
  BY DEF Flag
<1> HIDE DEF p, b, f
<1>5. wk' = [wk EXCEPT ![w] = [[[[wk[w] EXCEPT !.todo = Tail(wk[w].todo)] EXCEPT !.pc = p] EXCEPT !.bell = b] EXCEPT !.flag = f]]
  BY <1>4 DEF PlayTyped, WorkOK
<1>6. wk' = [wk EXCEPT ![w] = t]
  <2>1. \A y, z, u : [[[[wk[w] EXCEPT !.todo = Tail(wk[w].todo)] EXCEPT !.pc = y] EXCEPT !.bell = z] EXCEPT !.flag = u] =
                      Task(y, wk[w].kind, wk[w].of, Tail(wk[w].todo), wk[w].ok, u, z)
    BY FlagTask
  <2>2. [[[[wk[w] EXCEPT !.todo = Tail(wk[w].todo)] EXCEPT !.pc = p] EXCEPT !.bell = b] EXCEPT !.flag = f] = t
    BY <2>1
  <2> QED BY <1>5, <2>2, Zenon
<1>7. t \in Tasks
  <2>1. p \in WorkerPoints
    BY <1>2 DEF WorkerPoints
  <2> QED BY <1>2, <1>3, <2>1, WorkFacts, TaskTyped
<1>8. t.pc = p /\ t.kind = wk[w].kind /\ t.todo = Tail(wk[w].todo) /\ t.flag = f /\ t.bell = b
  BY TaskTyped
<1> HIDE DEF t
<1>9. WorkOK' /\ wk'[w] = t /\ \A v \in Executors \ {w} : wk'[v] = wk[v]
  BY <1>1, <1>2, <1>3, <1>4, <1>6, <1>7, <1>8, WorkTyped
<1> QED BY <1>2, <1>3, <1>8, <1>9

LEMMA FinishFacts ==
  ASSUME PlayTyped, NEW w \in Executors, Finish(w)
  PROVE  /\ WorkOK' /\ wk'[w].pc = "done"
         /\ wk'[w].flag = wk[w].flag /\ wk'[w].bell = wk[w].bell
         /\ \A v \in Executors \ {w} : wk'[v] = wk[v]
<1> DEFINE t == Task("done", wk[w].kind, wk[w].of, wk[w].todo, wk[w].ok, wk[w].flag, wk[w].bell)
<1>1. wk[w].flag \subseteq wk[w].bell /\ (wk[w].kind = "fallback" => Present = Instances)
  BY DEF PlayTyped, WorkOK
<1>2. wk' = [wk EXCEPT ![w] = [wk[w] EXCEPT !.pc = "done"]] /\ UNCHANGED set
  BY DEF PlayTyped, WorkOK, Finish, WorkerGoto
<1>3. wk' = [wk EXCEPT ![w] = t]
  BY <1>2, FinishTask
<1>4. t \in Tasks
  <2>1. "done" \in WorkerPoints
    BY DEF WorkerPoints
  <2> QED BY <2>1, WorkFacts, TaskTyped
<1>5. t.pc = "done" /\ t.kind = wk[w].kind /\ t.flag = wk[w].flag /\ t.bell = wk[w].bell
  BY TaskTyped
<1> HIDE DEF t
<1>6. WorkOK' /\ wk'[w] = t /\ \A v \in Executors \ {w} : wk'[v] = wk[v]
  BY <1>1, <1>2, <1>3, <1>4, <1>5, WorkTyped
<1> QED BY <1>5, <1>6

LEMMA DoneFacts ==
  ASSUME PlayTyped, NEW w \in Executors, Done(w)
  PROVE  /\ WorkOK' /\ JobsOK' /\ wk'[w].pc = "idle" /\ wk'[w].flag = {}
         /\ \A v \in Executors \ {w} : wk'[v] = wk[v]
<1>1. wk' = [wk EXCEPT ![w] = Idle] /\ UNCHANGED <<set, gate>>
  BY DEF Done
<1>2. WorkOK' /\ wk'[w] = Idle /\ \A v \in Executors \ {w} : wk'[v] = wk[v]
  BY <1>1, IdleFacts, WorkTyped
<1>3. /\ wk[w].kind = "fallback" => Present = Instances
      /\ \/ job' = [job EXCEPT ![wk[w].of] = "done"] /\ UNCHANGED fb
         \/ wk[w].kind = "fallback" /\ fb' = [fb EXCEPT ![wk[w].of] = "done"] /\ UNCHANGED job
  BY DEF Done, PlayTyped, WorkOK, Tasks
<1>4. JobsOK'
  BY <1>1, <1>3 DEF PlayTyped, JobsOK, Plays, Present
<1> QED BY <1>2, <1>4, IdleFacts

-----------------------------------------------------------------------------

\* What a worker's commit does to the flags and the notice.
LEMMA RingTyped ==
  ASSUME PlayTyped, UNCHANGED set, NEW w \in Executors, Ring(w)
  PROVE  /\ aged' \in [Instances -> BOOLEAN] /\ signal' \in BOOLEAN /\ called' \subseteq Present
         /\ called' = called \cup wk[w].bell /\ (wk[w].bell # {} => signal') /\ (signal => signal')
BY WorkFacts DEF Ring, PlayTyped, ShownOK, WatcherOK

LEMMA WatcherStays ==
  ASSUME PlayTyped, UNCHANGED <<set, mon>>, wake' \in BOOLEAN, signal' \in BOOLEAN, called' \subseteq Present
  PROVE  WatcherOK'
BY DEF PlayTyped, WatcherOK, Present

LEMMA ShownRows ==
  ASSUME NEW i \in Instances, PlayTyped
  PROVE  ph[i] \in Rows /\ ph[i].status \in Statuses /\ ph[i].why \in Reasons
         /\ ph[i].watch \in BOOLEAN /\ ph[i].has \in BOOLEAN
BY DEF PlayTyped, ShownOK, Rows

LEMMA WorkStepTyped ==
  ASSUME PlayTyped, NEW w \in Executors, Work(w)
  PROVE  PlayTyped'
<1> USE DEF shown, radarr, queue, watcher, ghost, bounds
<1>0. set \in Settings /\ Present \subseteq Instances
  BY SetFacts DEF PlayTyped
<1>1. CASE Claim(w)
  <2>1. UNCHANGED <<set, shown, radarr, gate, watcher, cal, ghost, bounds>>
    BY <1>1 DEF Claim
  <2> QED BY <1>1, <2>1, ClaimStarts, KeepShown, KeepRadarr, KeepWatcher, KeepCalendar DEF PlayTyped
<1>2. CASE Search(w)
  <2>1. UNCHANGED <<set, shown, radarr, gate, job, fb, watcher, cal, called, bounds>>
        /\ wk[w].pc = "search"
    BY <1>2 DEF Search, At
  <2>2. Row(w) \in Present
    BY <2>1, WorkFacts, TodoFacts DEF Row, PlayTyped, WorkOK
  <2>3. since' \in [Instances -> 0..Cap] /\ asks' \in [Instances -> 0..2]
    <3>1. since \in [Instances -> 0..Cap] /\ asks \in [Instances -> 0..2] /\ Row(w) \in Instances
      BY <1>0, <2>2 DEF PlayTyped, RadarrOK
    <3>2. since' = since \/ since' = [since EXCEPT ![Row(w)] = 0]
      BY <1>2 DEF Search
    <3>3. asks' = asks \/ (asks[Row(w)] < 2 /\ asks' = [asks EXCEPT ![Row(w)] = asks[Row(w)] + 1])
      BY <1>2 DEF Search
    <3>4. since' \in [Instances -> 0..Cap]
      BY <3>1, <3>2, CapFacts
    <3>5. asks[Row(w)] \in 0..2 /\ (asks[Row(w)] < 2 => asks[Row(w)] + 1 \in 0..2)
      BY <3>1
    <3>6. asks' \in [Instances -> 0..2]
      BY <3>1, <3>3, <3>5
    <3> QED BY <3>4, <3>6
  <2>4. RadarrOK'
    BY <2>1, <2>3 DEF PlayTyped, RadarrOK
  <2>5. WorkOK'
    <3>1. CASE Skip(w)
      BY <2>1, <3>1, SkipFacts
    <3>2. ASSUME NEW g \in BOOLEAN, wk' = [wk EXCEPT ![w].ok = g, ![w].pc = "show"] PROVE WorkOK'
      BY <2>1, <3>2, AskFacts
    <3> QED BY <1>2, <3>1, <3>2 DEF Search
  <2> QED BY <2>1, <2>4, <2>5, KeepShown, KeepJobs, KeepWatcher, KeepCalendar DEF PlayTyped
<1>3. CASE Show(w)
  <2>1. UNCHANGED <<set, qm, radarr, gate, job, fb, mon, wake, cal, since, asks, bounds>>
        /\ wk[w].pc = "show"
    BY <1>3 DEF Show, At
  <2>2. Row(w) \in Instances
    BY <1>0, <2>1, WorkFacts, TodoFacts DEF Row, PlayTyped, WorkOK
  <2>3. CASE ph[Row(w)].has
    <3>1. /\ ph' = Flagged(w, [ph EXCEPT ![Row(w)] = Intend(@, "SEARCHING", "played")])
          /\ Ring(w)
          /\ wk' = [wk EXCEPT ![w].pc = "flag", ![w].flag = {}, ![w].bell = {}]
      BY <1>3, <2>3 DEF Show
    <3>2. Intend(ph[Row(w)], "SEARCHING", "played") \in Rows
      BY <2>2, ShownRows, RowFacts DEF Statuses, ActiveQueueStatuses, Reasons
    <3>3. [ph EXCEPT ![Row(w)] = Intend(@, "SEARCHING", "played")] \in [Instances -> Rows]
      BY <2>2, <3>2 DEF PlayTyped, ShownOK
    <3>4. ph' \in [Instances -> Rows]
      BY <3>1, <3>3, FlaggedTyped
    <3>5. WorkOK'
      BY <2>1, <3>1, ShowFacts
    <3>6. aged' \in [Instances -> BOOLEAN] /\ signal' \in BOOLEAN /\ called' \subseteq Present
      BY <2>1, <3>1, RingTyped
    <3>7. WatcherOK'
      BY <2>1, <3>6, WatcherStays DEF PlayTyped, WatcherOK
    <3>8. ShownOK'
      BY <2>1, <3>4, <3>6 DEF PlayTyped, ShownOK
    <3> QED BY <2>1, <3>5, <3>7, <3>8, KeepRadarr, KeepJobs, KeepCalendar DEF PlayTyped
  <2>4. CASE ~ph[Row(w)].has
    <3>1. Skip(w) /\ UNCHANGED <<ph, aged, signal, called>>
      BY <1>3, <2>4 DEF Show
    <3>2. WorkOK'
      BY <2>1, <3>1, SkipFacts
    <3> QED BY <2>1, <3>1, <3>2, KeepShown, KeepRadarr, KeepJobs, KeepWatcher, KeepCalendar
               DEF PlayTyped
  <2> QED BY <2>3, <2>4
<1>4. CASE Flag(w)
  <2>1. UNCHANGED <<set, shown, radarr, gate, job, fb, watcher, cal, ghost, bounds>>
    BY <1>4 DEF Flag
  <2>2. WorkOK'
    BY <1>4, FlagFacts
  <2> QED BY <2>1, <2>2, KeepShown, KeepRadarr, KeepJobs, KeepWatcher, KeepCalendar DEF PlayTyped
<1>5. CASE Finish(w)
  <2>1. UNCHANGED <<set, qm, radarr, gate, job, mon, wake, cal, since, asks, bounds>>
    BY <1>5 DEF Finish
  <2>2. Ring(w) /\ ph' = Flagged(w, ph)
    BY <1>5 DEF Finish
  <2>3. aged' \in [Instances -> BOOLEAN] /\ signal' \in BOOLEAN /\ called' \subseteq Present
    BY <2>1, <2>2, RingTyped
  <2>4. ph' \in [Instances -> Rows]
    BY <2>2, FlaggedTyped DEF PlayTyped, ShownOK
  <2>5. ShownOK' /\ WatcherOK'
    BY <2>1, <2>3, <2>4, WatcherStays DEF PlayTyped, ShownOK, WatcherOK
  <2>6. JobsOK'
    <3>1. fb' = fb \/ (Present = Instances /\ fb' = [fb EXCEPT ![wk[w].of] = "waiting"])
      BY <1>5 DEF Finish, DelayedFallback
    <3> QED BY <2>1, <3>1 DEF PlayTyped, JobsOK, Plays, Present
  <2>7. WorkOK'
    BY <1>5, FinishFacts
  <2> QED BY <2>1, <2>5, <2>6, <2>7, KeepRadarr, KeepCalendar DEF PlayTyped
<1>6. CASE Done(w)
  <2>1. UNCHANGED <<set, shown, radarr, gate, watcher, cal, ghost, bounds>>
    BY <1>6 DEF Done
  <2> QED BY <1>6, <2>1, DoneFacts, KeepShown, KeepRadarr, KeepWatcher, KeepCalendar DEF PlayTyped
<1> QED BY <1>1, <1>2, <1>3, <1>4, <1>5, <1>6 DEF Work

-----------------------------------------------------------------------------
(* The monitor's record, field by field. *)

Watching(p, a, f, t) == [pc |-> p, ask |-> a, map |-> f, todo |-> t]

LEMMA WatchingFacts ==
  ASSUME PlayTyped, NEW p, NEW a, NEW f, NEW t
  PROVE  /\ mon = Watching(mon.pc, mon.ask, mon.map, mon.todo)
         /\ [mon EXCEPT !.pc = p] = Watching(p, mon.ask, mon.map, mon.todo)
         /\ [[mon EXCEPT !.ask = a] EXCEPT !.pc = p] = Watching(p, a, mon.map, mon.todo)
         /\ [[[mon EXCEPT !.ask = a] EXCEPT !.pc = p] EXCEPT !.map = f] =
            Watching(p, a, f, mon.todo)
         /\ [[mon EXCEPT !.pc = p] EXCEPT !.todo = t] = Watching(p, mon.ask, mon.map, t)
         /\ [[Quiet EXCEPT !.pc = p] EXCEPT !.todo = t] = Watching(p, {}, Quiet.map, t)
<1>1. mon = Watching(mon.pc, mon.ask, mon.map, mon.todo)
  BY DEF PlayTyped, WatcherOK, Watching
<1> DEFINE q == mon.pc
           k == mon.ask
           g == mon.map
           d == mon.todo
           h == Quiet.map
<1> HIDE DEF q, k, g, d, h
<1>2. mon = Watching(q, k, g, d)
  BY <1>1 DEF q, k, g, d
<1>3. [Watching(q, k, g, d) EXCEPT !.pc = p] = Watching(p, k, g, d)
  BY DEF Watching
<1>4. [Watching(q, k, g, d) EXCEPT !.ask = a] = Watching(q, a, g, d)
  BY DEF Watching
<1>5. [Watching(q, a, g, d) EXCEPT !.pc = p] = Watching(p, a, g, d)
  BY DEF Watching
<1>6. [Watching(p, a, g, d) EXCEPT !.map = f] = Watching(p, a, f, d)
  BY DEF Watching
<1>7. [Watching(p, k, g, d) EXCEPT !.todo = t] = Watching(p, k, g, t)
  BY DEF Watching
<1>8. Quiet = Watching("probe", {}, h, NoIntents)
  BY IdleFacts DEF Watching, h
<1>9. [Watching("probe", {}, h, NoIntents) EXCEPT !.pc = p] = Watching(p, {}, h, NoIntents)
  BY DEF Watching
<1>10. [Watching(p, {}, h, NoIntents) EXCEPT !.todo = t] = Watching(p, {}, h, t)
  BY DEF Watching
<1>11. [mon EXCEPT !.pc = p] = Watching(p, k, g, d)
  BY <1>2, <1>3, Zenon
<1>12. [[mon EXCEPT !.ask = a] EXCEPT !.pc = p] = Watching(p, a, g, d)
  BY <1>2, <1>4, <1>5, Zenon
<1>13. [[[mon EXCEPT !.ask = a] EXCEPT !.pc = p] EXCEPT !.map = f] = Watching(p, a, f, d)
  BY <1>12, <1>6, Zenon
<1>14. [[mon EXCEPT !.pc = p] EXCEPT !.todo = t] = Watching(p, k, g, t)
  BY <1>11, <1>7, Zenon
<1>15. [[Quiet EXCEPT !.pc = p] EXCEPT !.todo = t] = Watching(p, {}, h, t)
  BY <1>8, <1>9, <1>10, Zenon
<1> QED BY <1>1, <1>11, <1>12, <1>13, <1>14, <1>15, Zenon DEF k, g, d, h

LEMMA WatchTyped ==
  ASSUME PlayTyped, UNCHANGED set, NEW p \in MonitorPoints, NEW a \in SUBSET Present,
         NEW f \in [Instances -> Items], NEW t, DOMAIN t \subseteq Present,
         t \in [DOMAIN t -> Intents], mon' = Watching(p, a, f, t),
         wake' \in BOOLEAN, signal' \in BOOLEAN, called' \subseteq Present
  PROVE  /\ WatcherOK' /\ mon'.pc = p /\ mon'.ask = a /\ mon'.map = f /\ mon'.todo = t
<1>1. Present' = Present
  BY DEF Present
<1>2. mon'.pc = p /\ mon'.ask = a /\ mon'.map = f /\ mon'.todo = t
  BY DEF Watching
<1> QED BY <1>1, <1>2 DEF WatcherOK, Watching

LEMMA TargetFacts == PlayTyped => Targets \subseteq Present /\ Targets \subseteq Instances
BY SetFacts DEF PlayTyped, Targets

\* The monitor, step by step: what it becomes.
LEMMA ProbeFacts ==
  ASSUME PlayTyped, Probe
  PROVE  /\ ShownOK' /\ WatcherOK' /\ called' = {} /\ mon'.todo = mon.todo
         /\ \A i \in Instances : ph'[i].status = ph[i].status /\ (ph'[i].watch => ph[i].watch)
<1>1. UNCHANGED <<set, qm, wake, signal>> /\ called' = {}
  BY DEF Probe
<1>2. mon.map \in [Instances -> Items] /\ mon.todo \in [DOMAIN mon.todo -> Intents]
      /\ DOMAIN mon.todo \subseteq Present
      /\ mon.ask \in SUBSET Present /\ wake \in BOOLEAN /\ signal \in BOOLEAN
  BY DEF PlayTyped, WatcherOK
<1>3. CASE Targets = {}
  <2>1. mon' = [mon EXCEPT !.pc = "wait"] /\ UNCHANGED <<ph, aged>>
    BY <1>3 DEF Probe, MonitorGoto
  <2>2. mon' = Watching("wait", mon.ask, mon.map, mon.todo)
    BY <2>1, WatchingFacts
  <2>3. "wait" \in MonitorPoints
    BY DEF MonitorPoints
  <2>4. WatcherOK' /\ mon'.todo = mon.todo
    BY <1>1, <1>2, <2>2, <2>3, WatchTyped
  <2>5. ShownOK'
    BY <1>1, <2>1, KeepShown
  <2> QED BY <1>1, <2>1, <2>4, <2>5
<1>4. CASE Targets # {}
  <2> DEFINE S == {i \in Targets : ~aged[i]}
             p == IF S = {} THEN "probe" ELSE "fetch"
  <2>1. BeginPoll
    BY <1>4 DEF Probe
  <2>2. mon' = [mon EXCEPT !.ask = S, !.pc = p]
    BY <2>1 DEF BeginPoll
  <2>3. S \in SUBSET Present /\ p \in MonitorPoints
    BY TargetFacts DEF MonitorPoints
  <2> HIDE DEF S, p
  <2>4. mon' = Watching(p, S, mon.map, mon.todo)
    BY <2>2, WatchingFacts
  <2>5. WatcherOK' /\ mon'.todo = mon.todo
    BY <1>1, <1>2, <2>3, <2>4, WatchTyped
  <2>6. \A r \in Rows, b \in BOOLEAN : /\ [r EXCEPT !.watch = b] \in Rows
                                          /\ [r EXCEPT !.watch = b].status = r.status
                                       /\ [r EXCEPT !.watch = b].watch = b
    BY DEF Rows
  <2>7. ph' = [i \in Instances |-> [ph[i] EXCEPT !.watch = (ph[i].watch /\ ~aged[i])]]
        /\ aged' = [i \in Instances |-> FALSE]
    BY <2>1 DEF BeginPoll
  <2>8. \A i \in Instances : /\ ph'[i] \in Rows /\ ph'[i].status = ph[i].status
                             /\ ph'[i].watch = (ph[i].watch /\ ~aged[i])
    <3> SUFFICES ASSUME NEW i \in Instances
                 PROVE  /\ ph'[i] \in Rows /\ ph'[i].status = ph[i].status
                        /\ ph'[i].watch = (ph[i].watch /\ ~aged[i])
      OBVIOUS
    <3>1. ph'[i] = [ph[i] EXCEPT !.watch = (ph[i].watch /\ ~aged[i])]
      BY <2>7
    <3>2. (ph[i].watch /\ ~aged[i]) \in BOOLEAN /\ ph[i] \in Rows
      BY DEF PlayTyped, ShownOK
    <3> QED BY <2>6, <3>1, <3>2
  <2>9. ShownOK'
    BY <1>1, <2>7, <2>8 DEF PlayTyped, ShownOK
  <2> QED BY <1>1, <2>5, <2>8, <2>9
<1> QED BY <1>3, <1>4

LEMMA FetchFacts ==
  ASSUME PlayTyped, FetchQueues
  PROVE  WatcherOK' /\ mon'.pc = "collect" /\ mon'.todo = mon.todo
<1>1. UNCHANGED <<set, wake, signal, called>> /\ mon.pc = "fetch"
  BY DEF FetchQueues, ghost, MonitorAt
<1>2. mon.todo \in [DOMAIN mon.todo -> Intents] /\ DOMAIN mon.todo \subseteq Present
      /\ wake \in BOOLEAN /\ signal \in BOOLEAN /\ called \subseteq Present
  BY DEF PlayTyped, WatcherOK
<1>3. PICK down \in SUBSET mon.ask :
        mon' = [mon EXCEPT !.ask = {}, !.pc = "collect",
                           !.map = [i \in Instances |-> IF i \in mon.ask \ down THEN download[i] ELSE "none"]]
  BY DEF FetchQueues
<1> DEFINE f == [i \in Instances |-> IF i \in mon.ask \ down THEN download[i] ELSE "none"]
<1>4. f \in [Instances -> Items]
  BY DEF PlayTyped, RadarrOK, Items
<1>5. mon' = [mon EXCEPT !.ask = {}, !.pc = "collect", !.map = f]
  BY <1>3
<1> HIDE DEF f
<1>6. mon' = Watching("collect", {}, f, mon.todo)
  BY <1>5, WatchingFacts
<1>7. "collect" \in MonitorPoints /\ {} \in SUBSET Present
  BY DEF MonitorPoints
<1> QED BY <1>1, <1>2, <1>4, <1>6, <1>7, WatchTyped

LEMMA CollectFacts ==
  ASSUME PlayTyped, Collect
  PROVE  /\ WatcherOK' /\ ShownOK' /\ mon'.pc \in {"probe", "apply"}
         /\ DOMAIN mon'.todo \subseteq Targets
         /\ \A i \in DOMAIN mon'.todo : mon'.todo[i].line = Line(qm[i], mon.map[i])
         /\ \A i \in Instances : qm'[i] = IF i \in Targets THEN NextQm(qm[i], mon.map[i]) ELSE qm[i]
<1> DEFINE line == [i \in Targets |-> Line(qm[i], mon.map[i])]
           news == {i \in Targets : line[i] # <<ph[i].status, ph[i].why>>}
           moved == {i \in Targets \ news : ph[i].status \in {"DOWNLOADING", "IMPORT_IN_PROGRESS"}}
<1>1. PICK M \in SUBSET moved :
         mon' = [Quiet EXCEPT !.pc = IF news \cup M = {} THEN "probe" ELSE "apply",
                              !.todo = [i \in news \cup M |-> [line |-> line[i], loaded |-> ph[i]]]]
  BY DEF Collect
<1>2. /\ UNCHANGED <<set, ph, aged, wake, signal, called>>
      /\ qm' = [i \in Instances |-> IF i \in Targets THEN NextQm(qm[i], mon.map[i]) ELSE qm[i]]
  BY DEF Collect, ghost
<1>3. Targets \subseteq Present /\ Targets \subseteq Instances
  BY TargetFacts
<1>4. wake \in BOOLEAN /\ signal \in BOOLEAN /\ called \subseteq Present
      /\ mon.map \in [Instances -> Items]
  BY DEF PlayTyped, WatcherOK
<1>5. \A i \in Instances : qm[i] \in QueueMonitor /\ mon.map[i] \in Items
  BY <1>4 DEF PlayTyped, ShownOK
<1>6. \A i \in Instances : NextQm(qm[i], mon.map[i]) \in QueueMonitor
      /\ Line(qm[i], mon.map[i]) \in Statuses \X Reasons
  BY <1>5, TimerFacts
<1>7. ShownOK'
  BY <1>2, <1>5, <1>6 DEF PlayTyped, ShownOK
<1> DEFINE D == news \cup M
           p == IF D = {} THEN "probe" ELSE "apply"
           t == [i \in D |-> [line |-> line[i], loaded |-> ph[i]]]
<1>8. D \subseteq Targets
  OBVIOUS
<1>9. \A i \in Targets : line[i] = Line(qm[i], mon.map[i])
  OBVIOUS
<1>10. mon' = [Quiet EXCEPT !.pc = p, !.todo = t]
  BY <1>1
<1> HIDE DEF line, news, moved, D
<1>11. DOMAIN t = D /\ \A i \in D : t[i] = [line |-> line[i], loaded |-> ph[i]]
       /\ t[i].line = line[i]
  OBVIOUS
<1>12. \A i \in D : t[i] \in Intents
  <2> SUFFICES ASSUME NEW i \in D PROVE t[i] \in Intents
    OBVIOUS
  <2>1. i \in Instances /\ line[i] \in Statuses \X Reasons /\ ph[i] \in Rows
    BY <1>3, <1>6, <1>8, <1>9, ShownRows
  <2> QED BY <1>11, <2>1 DEF Intents
<1>13. p \in MonitorPoints /\ p \in {"probe", "apply"}
  BY DEF MonitorPoints
<1>14. t \in [DOMAIN t -> Intents]
  BY <1>11, <1>12
<1> HIDE DEF p, t
<1>15. mon' = Watching(p, {}, Quiet.map, t)
  BY <1>10, WatchingFacts
<1>16. Quiet.map \in [Instances -> Items] /\ {} \in SUBSET Present /\ DOMAIN t \subseteq Present
  BY <1>3, <1>8, <1>11, IdleFacts
<1>17. WatcherOK' /\ mon'.pc = p /\ mon'.todo = t
  BY <1>2, <1>4, <1>13, <1>14, <1>15, <1>16, WatchTyped
<1> QED BY <1>2, <1>7, <1>8, <1>9, <1>11, <1>13, <1>17

\* An intent that was applied to a row read before changes the status or not,
\* and never raises the flag.
LEMMA LateIntent ==
  ASSUME NEW r \in Rows, NEW l \in Rows, NEW st \in Statuses, NEW y \in Reasons
  PROVE  /\ Flush(r, l, Intend(l, st, y)) \in Rows
         /\ Flush(r, l, Intend(l, st, y)).status \in {r.status, st}
         /\ Flush(r, l, Intend(l, st, y)).watch => r.watch
<1>1. Intend(l, st, y) \in Rows
  BY RowFacts
<1> DEFINE n == Intend(l, st, y)
<1>2. n.status = st /\ (n.watch => l.watch) /\ n \in Rows
  BY <1>1 DEF Intend
<1> HIDE DEF n
<1>3. Flush(r, l, n) \in Rows
      /\ Flush(r, l, n).status = (IF n.status = l.status THEN r.status ELSE n.status)
      /\ Flush(r, l, n).watch = (IF n.watch = l.watch THEN r.watch ELSE n.watch)
  BY <1>2, RowFacts
<1>4. n.watch \in BOOLEAN /\ l.watch \in BOOLEAN /\ r.watch \in BOOLEAN
  BY <1>2 DEF Rows
<1>5. Flush(r, l, n).status \in {r.status, st} /\ (Flush(r, l, n).watch => r.watch)
  BY <1>2, <1>3, <1>4
<1> QED BY <1>3, <1>5 DEF n

LEMMA ApplyFacts ==
  ASSUME PlayTyped, NEW i \in Present, Apply(i)
  PROVE  /\ ShownOK' /\ WatcherOK' /\ mon.pc = "apply" /\ i \in DOMAIN mon.todo
         /\ DOMAIN mon'.todo \subseteq DOMAIN mon.todo
         /\ \A k \in DOMAIN mon'.todo : mon'.todo[k] = mon.todo[k]
         /\ \A k \in Instances \ {i} : ph'[k] = ph[k]
         /\ ph'[i].status \in {ph[i].status, mon.todo[i].line[1]} /\ (ph'[i].watch => ph[i].watch)
<1>0. i \in Instances
  BY SetFacts DEF PlayTyped
<1>1. UNCHANGED <<set, qm, aged, wake, signal, called>> /\ mon.pc = "apply" /\ i \in DOMAIN mon.todo
  BY DEF Apply, ghost, MonitorAt
<1>2. /\ mon.map \in [Instances -> Items] /\ mon.todo \in [DOMAIN mon.todo -> Intents]
         /\ DOMAIN mon.todo \subseteq Present
      /\ mon.ask \in SUBSET Present /\ wake \in BOOLEAN /\ signal \in BOOLEAN
         /\ called \subseteq Present
  BY DEF PlayTyped, WatcherOK
<1> DEFINE line == mon.todo[i].line
           rest == (DOMAIN mon.todo) \ {i}
           p == IF rest = {} THEN "probe" ELSE "apply"
           t == [k \in rest |-> mon.todo[k]]
<1>3. line[1] \in Statuses /\ line[2] \in Reasons /\ mon.todo[i].loaded \in Rows /\ ph[i] \in Rows
  <2>1. mon.todo[i] \in Intents
    BY <1>1, <1>2
  <2>2. mon.todo[i].line \in Statuses \X Reasons /\ mon.todo[i].loaded \in Rows
    BY <2>1 DEF Intents
  <2> QED BY <1>0, <2>2, ShownRows
<1>4. PICK loaded \in {mon.todo[i].loaded, ph[i]} :
        ph' = [ph EXCEPT ![i] = Flush(@, loaded, Intend(loaded, line[1], line[2]))]
  BY DEF Apply
<1>5. mon' = [mon EXCEPT !.pc = p, !.todo = t]
  BY DEF Apply
<1>6. t \in [DOMAIN t -> Intents] /\ DOMAIN t \subseteq Present
      /\ DOMAIN t \subseteq DOMAIN mon.todo
      /\ \A k \in DOMAIN t : t[k] = mon.todo[k]
  BY <1>2
<1>7. p \in MonitorPoints
  BY DEF MonitorPoints
<1> HIDE DEF p, t
<1>8. mon' = Watching(p, mon.ask, mon.map, t)
  BY <1>5, WatchingFacts
<1>9. WatcherOK' /\ mon'.todo = t
  BY <1>1, <1>2, <1>6, <1>7, <1>8, WatchTyped
<1> HIDE DEF line
<1> DEFINE n == Flush(ph[i], loaded, Intend(loaded, line[1], line[2]))
<1>10. n \in Rows /\ n.status \in {ph[i].status, line[1]} /\ (n.watch => ph[i].watch)
  <2>1. loaded \in Rows
    BY <1>3, <1>4 DEF line
  <2> DEFINE a == line[1]
             b == line[2]
             r == ph[i]
  <2>2. a \in Statuses /\ b \in Reasons /\ r \in Rows
    BY <1>3 DEF line
  <2> HIDE DEF a, b, r
  <2>3. LET c == Flush(r, loaded, Intend(loaded, a, b)) IN c \in Rows /\ c.status \in {r.status, a}
        /\ (c.watch => r.watch)
    BY <2>1, <2>2, LateIntent
  <2> QED BY <2>3 DEF a, b, r
<1>11. ph' = [ph EXCEPT ![i] = n]
  BY <1>4
<1> HIDE DEF n
<1>12. ph'[i] = n /\ (\A k \in Instances \ {i} : ph'[k] = ph[k]) /\ ph' \in [Instances -> Rows]
  BY <1>0, <1>10, <1>11 DEF PlayTyped, ShownOK
<1>13. ShownOK'
  BY <1>1, <1>12 DEF PlayTyped, ShownOK
<1> QED BY <1>1, <1>6, <1>9, <1>10, <1>12, <1>13 DEF line

LEMMA PointFacts ==
  ASSUME PlayTyped, UNCHANGED set, NEW p \in MonitorPoints, MonitorGoto(p),
         wake' \in BOOLEAN, UNCHANGED <<signal, called>>
  PROVE  WatcherOK' /\ mon'.pc = p /\ mon'.todo = mon.todo
<1>1. /\ mon.map \in [Instances -> Items] /\ mon.todo \in [DOMAIN mon.todo -> Intents]
         /\ DOMAIN mon.todo \subseteq Present
      /\ mon.ask \in SUBSET Present /\ signal \in BOOLEAN /\ called \subseteq Present
  BY DEF PlayTyped, WatcherOK
<1>2. mon' = Watching(p, mon.ask, mon.map, mon.todo)
  BY WatchingFacts DEF MonitorGoto
<1> QED BY <1>1, <1>2, WatchTyped

LEMMA MonitorStepTyped ==
  ASSUME PlayTyped, Monitor \/ Deliver
  PROVE  PlayTyped'
<1> USE DEF shown, radarr, queue, watcher, ghost, bounds
<1>1. CASE Probe
  <2>1. UNCHANGED <<set, qm, radarr, gate, queue, wake, signal, cal, since, asks, bounds>>
    BY <1>1 DEF Probe
  <2> QED BY <1>1, <2>1, ProbeFacts, KeepRadarr, KeepJobs, KeepWork, KeepCalendar DEF PlayTyped
<1>2. CASE Wait \/ ClearEvent
  <2>1. /\ UNCHANGED <<set, shown, radarr, gate, queue, signal, cal, ghost, bounds>>
        /\ (MonitorGoto("clear") \/ MonitorGoto("probe")) /\ wake' \in BOOLEAN
    BY <1>2 DEF Wait, ClearEvent, PlayTyped, WatcherOK
  <2>2. WatcherOK'
    BY <2>1, PointFacts DEF MonitorPoints
  <2> QED BY <2>1, <2>2, KeepShown, KeepRadarr, KeepJobs, KeepWork, KeepCalendar DEF PlayTyped
<1>3. CASE FetchQueues
  <2>1. UNCHANGED <<set, shown, radarr, gate, queue, wake, signal, cal, ghost, bounds>>
    BY <1>3 DEF FetchQueues
  <2> QED BY <1>3, <2>1, FetchFacts, KeepShown, KeepRadarr, KeepJobs, KeepWork, KeepCalendar
             DEF PlayTyped
<1>4. CASE Collect
  <2>1. UNCHANGED <<set, ph, aged, radarr, gate, queue, wake, signal, cal, ghost, bounds>>
    BY <1>4 DEF Collect
  <2> QED BY <1>4, <2>1, CollectFacts, KeepRadarr, KeepJobs, KeepWork, KeepCalendar DEF PlayTyped
<1>5. ASSUME NEW i \in Present, Apply(i) PROVE PlayTyped'
  <2>1. UNCHANGED <<set, qm, aged, radarr, gate, queue, wake, signal, cal, ghost, bounds>>
    BY <1>5 DEF Apply
  <2> QED BY <1>5, <2>1, ApplyFacts, KeepRadarr, KeepJobs, KeepWork, KeepCalendar DEF PlayTyped
<1>6. CASE Deliver
  <2>1. /\ UNCHANGED <<set, shown, radarr, gate, queue, mon, cal, since, asks, bounds>>
        /\ wake' \in BOOLEAN /\ signal' \in BOOLEAN /\ called' \subseteq Present
    BY <1>6 DEF Deliver, PlayTyped, WatcherOK
  <2>2. WatcherOK'
    BY <2>1, WatcherStays
  <2> QED BY <2>1, <2>2, KeepShown, KeepRadarr, KeepJobs, KeepWork, KeepCalendar DEF PlayTyped
<1> QED BY <1>1, <1>2, <1>3, <1>4, <1>5, <1>6 DEF Monitor

-----------------------------------------------------------------------------
(* The calendar phase, Radarr and time. *)

LEMMA DecisionFacts ==
  ASSUME PlayTyped, set.calendar # "outside", NEW b \in BOOLEAN
  PROVE  Decision(b) \in Statuses /\ Decision(b) # "NOT_FOUND"
BY SetFacts DEF Decision, PlayTyped, Statuses, ActiveQueueStatuses, Terminal

LEMMA LoadFacts ==
  ASSUME PlayTyped, CalendarLoad
  PROVE  CalendarOK' /\ \A i \in DOMAIN cal' : cal'[i].status # "NOT_FOUND"
<1>1. PICK S \in SUBSET Present : cal' =
             [i \in S |-> [status |-> Decision(HasFile(i)), loaded |-> ph[i]]]
  BY DEF CalendarLoad
<1>2. set.calendar # "outside" /\ UNCHANGED set
  BY DEF CalendarLoad
<1>3. \A i \in S : /\ cal'[i] \in Verdicts /\ cal'[i].status # "NOT_FOUND"
  <2> SUFFICES ASSUME NEW i \in S PROVE cal'[i] \in Verdicts /\ cal'[i].status # "NOT_FOUND"
    OBVIOUS
  <2>1. ph[i] \in Rows
    BY SetFacts, ShownRows DEF PlayTyped
  <2>2. HasFile(i) \in BOOLEAN
    BY DEF HasFile
  <2>3. Decision(HasFile(i)) \in Statuses /\ Decision(HasFile(i)) # "NOT_FOUND"
    BY <1>2, <2>2, DecisionFacts
  <2>4. cal'[i] = [status |-> Decision(HasFile(i)), loaded |-> ph[i]]
    BY <1>1
  <2> QED BY <2>1, <2>3, <2>4 DEF Verdicts
<1>4. DOMAIN cal' = S /\ Present' = Present
  BY <1>1, <1>2 DEF Present
<1>5. cal' \in [DOMAIN cal' -> Verdicts]
  BY <1>1, <1>3, <1>4
<1> QED BY <1>3, <1>4, <1>5 DEF CalendarOK

LEMMA WriteFacts ==
  ASSUME PlayTyped, NEW i \in Present, CalendarWrite(i)
  PROVE  /\ ShownOK' /\ CalendarOK' /\ i \in DOMAIN cal
         /\ DOMAIN cal' \subseteq DOMAIN cal /\ \A k \in DOMAIN cal' : cal'[k] = cal[k]
         /\ \A k \in Instances \ {i} : ph'[k] = ph[k]
         /\ ph'[i].status \in {ph[i].status, cal[i].status} /\ (ph'[i].watch => ph[i].watch)
<1>0. i \in Instances /\ i \in DOMAIN cal /\ UNCHANGED <<set, qm, aged>>
  BY SetFacts DEF PlayTyped, CalendarWrite
<1>1. cal \in [DOMAIN cal -> Verdicts] /\ DOMAIN cal \subseteq Present
  BY DEF PlayTyped, CalendarOK
<1>2. cal[i].status \in Statuses /\ cal[i].loaded \in Rows /\ ph[i] \in Rows /\ "other" \in Reasons
  <2>1. cal[i] \in Verdicts
    BY <1>0, <1>1
  <2> QED BY <1>0, <2>1, ShownRows DEF Verdicts, Reasons
<1>3. cal' = [k \in (DOMAIN cal) \ {i} |-> cal[k]]
  BY DEF CalendarWrite
<1>4. DOMAIN cal' \subseteq DOMAIN cal /\ \A k \in DOMAIN cal' : cal'[k] = cal[k]
  BY <1>3
<1>5. CalendarOK'
  <2>1. cal' \in [DOMAIN cal' -> Verdicts]
    BY <1>1, <1>3, <1>4
  <2> QED BY <1>0, <1>1, <1>4, <2>1 DEF CalendarOK, Present
<1>6. PICK loaded \in {cal[i].loaded, ph[i]} :
        ph' = [ph EXCEPT ![i] = Flush(@, loaded, Intend(loaded, cal[i].status, "other"))]
  BY DEF CalendarWrite
<1> DEFINE n == Flush(ph[i], loaded, Intend(loaded, cal[i].status, "other"))
<1>7. n \in Rows /\ n.status \in {ph[i].status, cal[i].status} /\ (n.watch => ph[i].watch)
  <2>1. loaded \in Rows
    BY <1>2, <1>6
  <2> DEFINE a == cal[i].status
             b == "other"
             r == ph[i]
  <2>2. a \in Statuses /\ b \in Reasons /\ r \in Rows
    BY <1>2
  <2> HIDE DEF a, b, r
  <2>3. LET c == Flush(r, loaded, Intend(loaded, a, b)) IN c \in Rows /\ c.status \in {r.status, a}
        /\ (c.watch => r.watch)
    BY <2>1, <2>2, LateIntent
  <2> QED BY <2>3 DEF a, b, r
<1>8. ph' = [ph EXCEPT ![i] = n]
  BY <1>6
<1> HIDE DEF n
<1>9. ph'[i] = n /\ (\A k \in Instances \ {i} : ph'[k] = ph[k]) /\ ph' \in [Instances -> Rows]
  BY <1>0, <1>7, <1>8 DEF PlayTyped, ShownOK
<1>10. ShownOK'
  BY <1>0, <1>9 DEF PlayTyped, ShownOK
<1> QED BY <1>0, <1>4, <1>5, <1>7, <1>9, <1>10

PhRow(h, s, y, b) == [has |-> h, status |-> s, why |-> y, watch |-> b]

\* What the events of Radarr make of a row.
LEMMA EventRow ==
  ASSUME NEW r \in Rows, NEW h \in BOOLEAN, NEW s \in Statuses
  PROVE  /\ [[r EXCEPT !.status = s] EXCEPT !.why = "other"] = PhRow(r.has, s, "other", r.watch)
         /\ [[[r EXCEPT !.has = h] EXCEPT !.status = s] EXCEPT !.why = "other"] =
            PhRow(h, s, "other", r.watch)
         /\ [[[r EXCEPT !.has = h] EXCEPT !.why = "other"] EXCEPT !.status = s] =
            PhRow(h, s, "other", r.watch)
         /\ PhRow(r.has, s, "other", r.watch) \in Rows /\ PhRow(h, s, "other", r.watch) \in Rows
         /\ \A x \in BOOLEAN : PhRow(x, s, "other", r.watch).status = s
            /\ PhRow(x, s, "other", r.watch).watch = r.watch
<1> DEFINE g == r.has
           t == r.status
           y == r.why
           w == r.watch
<1>1. r = PhRow(g, t, y, w) /\ g \in BOOLEAN /\ w \in BOOLEAN
  BY DEF Rows, PhRow
<1> HIDE DEF g, t, y, w
<1>2. [PhRow(g, t, y, w) EXCEPT !.status = s] = PhRow(g, s, y, w)
  BY DEF PhRow
<1>3. [PhRow(g, s, y, w) EXCEPT !.why = "other"] = PhRow(g, s, "other", w)
  BY DEF PhRow
<1>4. [PhRow(g, t, y, w) EXCEPT !.has = h] = PhRow(h, t, y, w)
  BY DEF PhRow
<1>5. [PhRow(h, t, y, w) EXCEPT !.status = s] = PhRow(h, s, y, w)
  BY DEF PhRow
<1>6. [PhRow(h, s, y, w) EXCEPT !.why = "other"] = PhRow(h, s, "other", w)
  BY DEF PhRow
<1>7. [PhRow(h, t, y, w) EXCEPT !.why = "other"] = PhRow(h, t, "other", w)
  BY DEF PhRow
<1>8. [PhRow(h, t, "other", w) EXCEPT !.status = s] = PhRow(h, s, "other", w)
  BY DEF PhRow
<1>9. [[r EXCEPT !.status = s] EXCEPT !.why = "other"] = PhRow(g, s, "other", w)
  BY <1>1, <1>2, <1>3, Zenon
<1>10. [[[r EXCEPT !.has = h] EXCEPT !.status = s] EXCEPT !.why = "other"] = PhRow(h, s, "other", w)
  BY <1>1, <1>4, <1>5, <1>6, Zenon
<1>11. [[[r EXCEPT !.has = h] EXCEPT !.why = "other"] EXCEPT !.status = s] = PhRow(h, s, "other", w)
  BY <1>1, <1>4, <1>7, <1>8, Zenon
<1>12. \A x \in BOOLEAN : PhRow(x, s, "other", w) \in Rows
  BY <1>1 DEF PhRow, Rows, Reasons
<1>13. \A x \in BOOLEAN : PhRow(x, s, "other", w).status = s /\ PhRow(x, s, "other", w).watch = w
  BY DEF PhRow
<1>14. PhRow(g, s, "other", w) \in Rows /\ PhRow(h, s, "other", w) \in Rows
  BY <1>1, <1>12
<1> QED BY <1>9, <1>10, <1>11, <1>13, <1>14, Zenon DEF g, w

\* A row of which an event changes one instance.
LEMMA OneRow ==
  ASSUME PlayTyped, UNCHANGED <<set, qm, aged>>, NEW i \in Present, NEW r \in Rows, ph' =
           [ph EXCEPT ![i] = r]
  PROVE  ShownOK' /\ ph'[i] = r /\ \A k \in Instances \ {i} : ph'[k] = ph[k]
<1>1. i \in Instances
  BY SetFacts DEF PlayTyped
<1> QED BY <1>1 DEF PlayTyped, ShownOK

LEMMA EventFacts ==
  ASSUME PlayTyped, NEW i \in Present, Countdown(i) \/ GraceEnds(i) \/ FileDeleted(i)
  PROVE  /\ ShownOK' /\ RadarrOK'
         /\ \A k \in Instances : /\ ph'[k].status = ph[k].status \/ ph'[k].status # "NOT_FOUND"
                                 /\ ph'[k].watch = ph[k].watch
<1>1. UNCHANGED <<set, qm, aged, download, since, asks, grabs, imports, restarts>>
  BY DEF Countdown, GraceEnds, FileDeleted, ghost, bounds
<1>2. \E s \in {"grace", "known", "none"} : media' = [media EXCEPT ![i] = s]
  BY DEF Countdown, GraceEnds, FileDeleted
<1>3. RadarrOK'
  BY <1>1, <1>2 DEF PlayTyped, RadarrOK
<1>4. ph[i] \in Rows /\ ph[i].has \in BOOLEAN /\ i \in Instances
  BY SetFacts, ShownRows DEF PlayTyped
<1>5. \E r \in Rows : /\ ph' = [ph EXCEPT ![i] = r] /\ r.watch = ph[i].watch
                      /\ r.status = ph[i].status \/ r.status # "NOT_FOUND"
  <2>1. CASE Countdown(i)
    <3>1. CASE ph[i].has
      <4>1. ph' = [ph EXCEPT ![i] = [[ph[i] EXCEPT !.status = "COUNTDOWN"] EXCEPT !.why = "other"]]
        BY <2>1, <3>1 DEF Countdown
      <4>2. "COUNTDOWN" \in Statuses
        BY DEF Statuses
      <4>3. /\ [[ph[i] EXCEPT !.status = "COUNTDOWN"] EXCEPT !.why = "other"] =
               PhRow(ph[i].has, "COUNTDOWN", "other", ph[i].watch)
            /\ PhRow(ph[i].has, "COUNTDOWN", "other", ph[i].watch) \in Rows
        BY <1>4, <4>2, EventRow
      <4>4. /\ PhRow(ph[i].has, "COUNTDOWN", "other", ph[i].watch).status = "COUNTDOWN"
            /\ PhRow(ph[i].has, "COUNTDOWN", "other", ph[i].watch).watch = ph[i].watch
        BY DEF PhRow
      <4> QED BY <4>1, <4>3, <4>4
    <3>2. CASE ~ph[i].has
      <4>1. ph' = [ph EXCEPT ![i] = ph[i]]
        BY <2>1, <3>2 DEF Countdown
      <4> QED BY <1>4, <4>1
    <3> QED BY <3>1, <3>2
  <2>2. CASE GraceEnds(i)
    <3>1. ph' = [ph EXCEPT ![i] = [[[ph[i] EXCEPT !.has = FALSE] EXCEPT !.status = "none"] EXCEPT !.why = "other"]]
      BY <1>4, <2>2 DEF GraceEnds, PlayTyped, ShownOK
    <3>2. "none" \in Statuses /\ FALSE \in BOOLEAN
      BY DEF Statuses
    <3>3. /\ [[[ph[i] EXCEPT !.has = FALSE] EXCEPT !.status = "none"] EXCEPT !.why = "other"] =
             PhRow(FALSE, "none", "other", ph[i].watch)
          /\ PhRow(FALSE, "none", "other", ph[i].watch) \in Rows
          /\ PhRow(FALSE, "none", "other", ph[i].watch).status = "none"
          /\ PhRow(FALSE, "none", "other", ph[i].watch).watch = ph[i].watch
      BY <1>4, <3>2, EventRow
    <3> QED BY <3>1, <3>3
  <2>3. CASE FileDeleted(i)
    <3> DEFINE s == IF set.calendar = "outside" THEN "REQUEST" ELSE set.calendar
    <3>1. s \in Statuses /\ s # "NOT_FOUND"
      BY SetFacts DEF PlayTyped, Statuses
    <3>2. ph' = [ph EXCEPT ![i].has = TRUE, ![i].why = "other", ![i].status = s]
      BY <2>3 DEF FileDeleted
    <3> HIDE DEF s
    <3>3. ph' = [ph EXCEPT ![i] = [[[ph[i] EXCEPT !.has = TRUE] EXCEPT !.why = "other"] EXCEPT !.status = s]]
      BY <1>4, <3>2 DEF PlayTyped, ShownOK
    <3>4. /\ [[[ph[i] EXCEPT !.has = TRUE] EXCEPT !.why = "other"] EXCEPT !.status = s] =
             PhRow(TRUE, s, "other", ph[i].watch)
          /\ PhRow(TRUE, s, "other", ph[i].watch) \in Rows
          /\ PhRow(TRUE, s, "other", ph[i].watch).status = s
          /\ PhRow(TRUE, s, "other", ph[i].watch).watch = ph[i].watch
      BY <1>4, <3>1, EventRow
    <3> QED BY <3>1, <3>3, <3>4
  <2> QED BY <2>1, <2>2, <2>3
<1>6. PICK r \in Rows : /\ ph' = [ph EXCEPT ![i] = r] /\ r.watch = ph[i].watch
                        /\ r.status = ph[i].status \/ r.status # "NOT_FOUND"
  BY <1>5
<1>7. ShownOK' /\ ph'[i] = r /\ \A k \in Instances \ {i} : ph'[k] = ph[k]
  BY <1>1, <1>6, OneRow
<1> QED BY <1>3, <1>6, <1>7

Timers(s, l, c) == [seen |-> s, left |-> l, search |-> c]

LEMMA TimersFacts ==
  ASSUME NEW q \in QueueMonitor, NEW a \in Ages, NEW b \in Ages
  PROVE  /\ [[q EXCEPT !.left = a] EXCEPT !.search = b] = Timers(q.seen, a, b)
         /\ [[q EXCEPT !.left = a] EXCEPT !.search = b] \in QueueMonitor
<1> DEFINE y == q.seen
           l == q.left
           c == q.search
<1>1. q = Timers(y, l, c) /\ y \in BOOLEAN
  BY DEF QueueMonitor, Timers
<1> HIDE DEF y, l, c
<1>2. [Timers(y, l, c) EXCEPT !.left = a] = Timers(y, a, c)
  BY DEF Timers
<1>3. [Timers(y, a, c) EXCEPT !.search = b] = Timers(y, a, b)
  BY DEF Timers
<1>4. [[q EXCEPT !.left = a] EXCEPT !.search = b] = Timers(y, a, b)
  BY <1>1, <1>2, <1>3, Zenon
<1>5. Timers(y, a, b) \in QueueMonitor
  BY <1>1 DEF Timers, QueueMonitor
<1> QED BY <1>4, <1>5, Zenon DEF y

LEMMA PassFacts ==
  ASSUME PlayTyped, NEW span \in {"unit", "half_hour", "day"}, Pass(span)
  PROVE  /\ ShownOK' /\ RadarrOK' /\ JobsOK'
         /\ \E n \in Nat : \A i \in Instances :
              /\ since'[i] = Older(since[i], n) /\ qm'[i].seen = qm[i].seen
              /\ qm'[i].left = Older(qm[i].left, n) /\ qm'[i].search = Older(qm[i].search, n)
              /\ qm[i] = Fresh => qm'[i] = Fresh
<1> DEFINE n == IF span = "unit" THEN 1 ELSE Cap
<1>1. n \in Nat
  BY CapFacts
<1>2. /\ qm' = [i \in Instances |-> [qm[i] EXCEPT !.left = Older(qm[i].left, n), !.search = Older(qm[i].search, n)]]
      /\ since' = [i \in Instances |-> Older(since[i], n)]
      /\ UNCHANGED <<set, ph, download, media, gate, job, asks, grabs, imports, restarts>>
  BY DEF Pass, radarr, bounds
<1>3. /\ fb' = fb \/ fb' = [p \in Plays |-> IF fb[p] = "waiting" THEN "due" ELSE fb[p]]
      /\ aged' = aged \/ aged' = [i \in Instances |-> ph[i].watch]
  BY DEF Pass
<1> HIDE DEF n
<1>4. \A i \in Instances : qm[i] \in QueueMonitor /\ since[i] \in 0..Cap
  BY DEF PlayTyped, ShownOK, RadarrOK
<1>6. \A i \in Instances : /\ qm'[i] = Timers(qm[i].seen, Older(qm[i].left, n), Older(qm[i].search, n))
                           /\ qm'[i] \in QueueMonitor
                           /\ since'[i] = Older(since[i], n) /\ since'[i] \in 0..Cap
                           /\ qm[i] = Fresh => qm'[i] = Fresh
  <2> SUFFICES ASSUME NEW i \in Instances
               PROVE  /\ qm'[i] = Timers(qm[i].seen, Older(qm[i].left, n), Older(qm[i].search, n))
                      /\ qm'[i] \in QueueMonitor
                      /\ since'[i] = Older(since[i], n) /\ since'[i] \in 0..Cap
                      /\ qm[i] = Fresh => qm'[i] = Fresh
    OBVIOUS
  <2>1. qm[i] \in QueueMonitor /\ since[i] \in 0..Cap /\ since[i] \in Ages
    BY <1>4, CapFacts DEF Ages
  <2>2. qm[i].left \in Ages /\ qm[i].search \in Ages
    BY <2>1 DEF QueueMonitor
  <2>3. Older(qm[i].left, n) \in Ages /\ Older(qm[i].search, n) \in Ages
        /\ Older(since[i], n) \in 0..Cap
    BY <1>1, <2>1, <2>2, OlderFacts
  <2>4. qm'[i] = [qm[i] EXCEPT !.left = Older(qm[i].left, n), !.search = Older(qm[i].search, n)]
        /\ since'[i] = Older(since[i], n)
    BY <1>2
  <2>5. /\ qm'[i] = Timers(qm[i].seen, Older(qm[i].left, n), Older(qm[i].search, n))
        /\ qm'[i] \in QueueMonitor
    <3> DEFINE a == Older(qm[i].left, n)
               b == Older(qm[i].search, n)
               q == qm[i]
    <3>1. q \in QueueMonitor /\ a \in Ages /\ b \in Ages
      BY <2>1, <2>3
    <3>2. qm'[i] = [[q EXCEPT !.left = a] EXCEPT !.search = b]
      BY <2>4
    <3> HIDE DEF a, b, q
    <3>3. qm'[i] = Timers(q.seen, a, b) /\ qm'[i] \in QueueMonitor
      <4>1. [[q EXCEPT !.left = a] EXCEPT !.search = b] = Timers(q.seen, a, b)
            /\ [[q EXCEPT !.left = a] EXCEPT !.search = b] \in QueueMonitor
        BY <3>1, TimersFacts
      <4> QED BY <3>2, <4>1, Zenon
    <3> QED BY <3>3 DEF a, b, q
  <2>6. qm[i] = Fresh => qm'[i] = Fresh
    BY <2>5 DEF Fresh, Older, Timers
  <2> QED BY <2>3, <2>4, <2>5, <2>6
<1>7. ShownOK'
  <2>1. qm' \in [Instances -> QueueMonitor]
    BY <1>2, <1>6
  <2>2. aged' \in [Instances -> BOOLEAN]
    <3>1. \A i \in Instances : ph[i].watch \in BOOLEAN
      BY ShownRows
    <3> QED BY <1>3, <3>1 DEF PlayTyped, ShownOK
  <2> QED BY <1>2, <2>1, <2>2 DEF PlayTyped, ShownOK
<1>8. RadarrOK'
  <2>1. since' \in [Instances -> 0..Cap]
    BY <1>2, <1>6
  <2> QED BY <1>2, <2>1 DEF PlayTyped, RadarrOK
<1>9. JobsOK'
  BY <1>2, <1>3 DEF PlayTyped, JobsOK, Plays, Present
<1>10. \A i \in Instances :
              /\ since'[i] = Older(since[i], n) /\ qm'[i].seen = qm[i].seen
              /\ qm'[i].left = Older(qm[i].left, n) /\ qm'[i].search = Older(qm[i].search, n)
              /\ qm[i] = Fresh => qm'[i] = Fresh
  <2>1. \A s, l, c : Timers(s, l, c).seen = s /\ Timers(s, l, c).left = l
        /\ Timers(s, l, c).search = c
    BY DEF Timers
  <2> QED BY <1>6, <2>1
<1> QED BY <1>1, <1>7, <1>8, <1>9, <1>10

LEMMA QueueItemsTyped ==
  ASSUME PlayTyped, NEW i \in Present, Grab(i) \/ Move(i) \/ Leave(i)
  PROVE  RadarrOK'
<1>1. UNCHANGED <<set, since, asks, restarts>>
  BY DEF Grab, Move, Leave, ghost, bounds
<1>2. \E s \in Items : download' = [download EXCEPT ![i] = s]
  BY DEF Grab, Move, Leave, Moves, Items
<1>3. media' = media \/ media' = [media EXCEPT ![i] = "reported"]
  BY DEF Grab, Move, Leave
<1>4. set.grabs \in Nat /\ set.imports \in Nat
  BY SetFacts DEF PlayTyped
<1>5. grabs' = grabs \/ (grabs < set.grabs /\ grabs' = grabs + 1)
  BY DEF Grab, Move, Leave, bounds
<1>6. imports' = imports \/ (imports < set.imports /\ imports' = imports + 1)
  BY DEF Grab, Move, Leave, bounds
<1>7. grabs' \in 0..set.grabs /\ imports' \in 0..set.imports
  BY <1>4, <1>5, <1>6 DEF PlayTyped, RadarrOK
<1> QED BY <1>1, <1>2, <1>3, <1>7 DEF PlayTyped, RadarrOK

LEMMA RestartTyped ==
  ASSUME PlayTyped, Restart
  PROVE  PlayTyped'
<1>1. UNCHANGED <<set, ph, qm, aged, download, media, since, asks, grabs, imports>>
  BY DEF Restart, shown, radarr
<1>2. JobsOK'
  BY <1>1 DEF Restart, PlayTyped, JobsOK, Plays, Present
<1>3. restarts' \in 0..set.restarts
  <2>1. restarts \in 0..set.restarts /\ set.restarts \in Nat /\ restarts < set.restarts
        /\ restarts' = restarts + 1
    BY SetFacts DEF Restart, PlayTyped, RadarrOK
  <2> QED BY <2>1
<1>4. RadarrOK'
  BY <1>1, <1>3 DEF PlayTyped, RadarrOK
<1>5. WorkOK'
  <2>1. wk' = [w \in Executors |-> Idle] /\ Tasks' = Tasks
    BY <1>1 DEF Restart, Tasks, Present
  <2> QED BY <2>1, IdleFacts DEF WorkOK
<1>6. WatcherOK'
  <2>1. mon' = Quiet /\ wake' = FALSE /\ signal' = FALSE /\ called' = {}
    BY DEF Restart
  <2> QED BY <1>1, <2>1, IdleFacts DEF WatcherOK, MonitorPoints
<1>7. CalendarOK'
  BY IdleFacts DEF Restart, CalendarOK
<1>8. ShownOK'
  BY <1>1, KeepShown
<1> QED BY <1>1, <1>2, <1>4, <1>5, <1>6, <1>7, <1>8 DEF PlayTyped

LEMMA PlayTypedStep == PlayTyped /\ [PlaybackNext]_playbackVars => PlayTyped'
<1> SUFFICES ASSUME PlayTyped, [PlaybackNext]_playbackVars PROVE PlayTyped'
  OBVIOUS
<1> USE DEF shown, radarr, queue, watcher, ghost, bounds
<1>1. CASE UNCHANGED playbackVars
  BY <1>1, KeepShown, KeepRadarr, KeepJobs, KeepWork, KeepWatcher, KeepCalendar
     DEF playbackVars, PlayTyped
<1>2. ASSUME NEW p \in Plays, Receive(p) PROVE PlayTyped'
  BY <1>2, ReceiveTyped
<1>3. CASE GateOpens
  BY <1>3, GateTypedStep
<1>4. ASSUME NEW w \in Executors, Work(w) PROVE PlayTyped'
  BY <1>4, WorkStepTyped
<1>5. CASE Monitor \/ Deliver
  BY <1>5, MonitorStepTyped
<1>6. CASE CalendarLoad
  <2>1. UNCHANGED <<set, shown, radarr, gate, queue, watcher, ghost, bounds>>
    BY <1>6 DEF CalendarLoad
  <2> QED BY <1>6, <2>1, LoadFacts, KeepShown, KeepRadarr, KeepJobs, KeepWork, KeepWatcher
             DEF PlayTyped
<1>7. ASSUME NEW i \in Present, CalendarWrite(i) PROVE PlayTyped'
  <2>1. UNCHANGED <<set, qm, aged, radarr, gate, queue, watcher, ghost, bounds>>
    BY <1>7 DEF CalendarWrite
  <2> QED BY <1>7, <2>1, WriteFacts, KeepRadarr, KeepJobs, KeepWork, KeepWatcher DEF PlayTyped
<1>8. ASSUME NEW i \in Present, Grab(i) \/ Move(i) \/ Leave(i) PROVE PlayTyped'
  <2>1. UNCHANGED <<set, shown, gate, queue, watcher, cal, ghost>>
    BY <1>8 DEF Grab, Move, Leave
  <2> QED BY <1>8, <2>1, QueueItemsTyped, KeepShown, KeepJobs, KeepWork, KeepWatcher,
             KeepCalendar DEF PlayTyped
<1>9. ASSUME NEW i \in Present, Countdown(i) \/ GraceEnds(i) \/ FileDeleted(i) PROVE PlayTyped'
  <2>1. UNCHANGED <<set, qm, aged, download, gate, queue, watcher, cal, ghost, bounds>>
    BY <1>9 DEF Countdown, GraceEnds, FileDeleted
  <2> QED BY <1>9, <2>1, EventFacts, KeepJobs, KeepWork, KeepWatcher, KeepCalendar DEF PlayTyped
<1>10. ASSUME NEW span \in {"unit", "half_hour", "day"}, Pass(span) PROVE PlayTyped'
  <2>1. UNCHANGED <<set, ph, radarr, gate, job, wk, watcher, cal, asks, called, bounds>>
    BY <1>10 DEF Pass
  <2> QED BY <1>10, <2>1, PassFacts, KeepWork, KeepWatcher, KeepCalendar DEF PlayTyped
<1>11. CASE Restart
  BY <1>11, RestartTyped
<1> QED BY <1>1, <1>2, <1>3, <1>4, <1>5, <1>6, <1>7, <1>8, <1>9, <1>10, <1>11 DEF PlaybackNext

\* The variables keep their types: rows, timers, jobs, workers, the monitor and
\* what it is about to write.
THEOREM PlaybackTyped == PlaybackSpec => []PlaybackTypeOK
<1>1. PlaybackInit => PlayTyped
  BY InitPlayTyped
<1>2. PlayTyped /\ [PlaybackNext]_playbackVars => PlayTyped'
  BY PlayTypedStep
<1>3. PlayTyped => PlaybackTypeOK
  BY PlayTypedIsTypeOK
<1> QED BY <1>1, <1>2, <1>3, PTL DEF PlaybackSpec

-----------------------------------------------------------------------------
(* The invariant behind the two properties of the monitor. *)

\* A call has set the event or has a NOTIFY on its way, unless the monitor is
\* about to look anyway.
CallsOK == mon.pc # "probe" /\ called # {} => wake \/ signal

\* What is watched, or about to be, was searched for; without a search there
\* are no timers.
AskedOK ==
  /\ \A i \in Instances : (ph[i].watch => asks[i] # 0) /\ (asks[i] = 0 => qm[i] = Fresh)
  /\ \A w \in Executors :
       /\ \A i \in wk[w].flag : asks[i] # 0
       /\ wk[w].pc \in {"show", "flag"} /\ wk[w].ok => asks[Head(wk[w].todo)] # 0

\* The timers of a first search are not older than the search.
TimersOK ==
  \A i \in Instances : asks[i] = 1 => qm[i].left <= since[i] /\ qm[i].search <= since[i]

\* A line that the monitor is about to write was earned; the calendar phase
\* writes no NOT_FOUND.
LinesOK ==
  /\ \A i \in DOMAIN mon.todo :
       /\ asks[i] # 0
       /\ asks[i] = 1 /\ mon.todo[i].line[1] = "NOT_FOUND" => since[i] >= Allowed(i)
  /\ \A i \in DOMAIN cal : cal[i].status # "NOT_FOUND"

PlayInv == PlayTyped /\ CallsOK /\ AskedOK /\ TimersOK /\ LinesOK

LEMMA InitPlayInv == PlaybackInit => PlayInv
<1> SUFFICES ASSUME PlaybackInit PROVE PlayInv
  OBVIOUS
<1> USE DEF PlaybackInit
<1>1. PlayTyped
  BY InitPlayTyped
<1>2. CallsOK /\ LinesOK
  BY IdleFacts DEF CallsOK, LinesOK
<1>3. AskedOK /\ TimersOK
  <2>1. \A i \in Instances : asks[i] = 0 /\ qm[i] = Fresh /\ ph[i].watch = FALSE
    OBVIOUS
  <2>2. \A w \in Executors : wk[w] = Idle
    OBVIOUS
  <2> QED BY <2>1, <2>2, IdleFacts DEF AskedOK, TimersOK
<1> QED BY <1>1, <1>2, <1>3 DEF PlayInv

LEMMA CallsStep == PlayTyped /\ CallsOK /\ [PlaybackNext]_playbackVars => CallsOK'
<1> SUFFICES ASSUME PlayTyped, CallsOK, [PlaybackNext]_playbackVars PROVE CallsOK'
  OBVIOUS
<1> USE DEF CallsOK, shown, radarr, queue, watcher, ghost, bounds
<1>1. CASE UNCHANGED <<mon, wake, signal, called>>
  BY <1>1
<1>2. ASSUME NEW w \in Executors, Work(w) PROVE CallsOK'
  <2>1. UNCHANGED <<set, mon, wake>>
    BY <1>2 DEF Work, Claim, Search, Show, Flag, Finish, Done
  <2>2. Ring(w) \/ UNCHANGED <<signal, called>>
    BY <1>2 DEF Work, Claim, Search, Show, Flag, Finish, Done
  <2>3. Ring(w) => (called' = called \cup wk[w].bell /\ (wk[w].bell # {} => signal') /\ (signal => signal'))
    BY <2>1, RingTyped
  <2> QED BY <2>1, <2>2, <2>3
<1>3. CASE Probe
  BY <1>3, ProbeFacts
<1>4. CASE Wait
  <2>1. mon.pc = "wait" /\ UNCHANGED <<wake, signal, called>>
    BY <1>4 DEF Wait, MonitorAt
  <2> QED BY <2>1
<1>5. CASE ClearEvent
  <2>1. mon'.pc = "probe"
    BY <1>5, PointFacts DEF ClearEvent, MonitorPoints
  <2> QED BY <2>1
<1>6. CASE FetchQueues
  <2>1. mon.pc = "fetch" /\ UNCHANGED <<wake, signal, called>>
    BY <1>6 DEF FetchQueues, MonitorAt
  <2> QED BY <2>1
<1>7. CASE Collect
  <2>1. mon.pc = "collect" /\ UNCHANGED <<wake, signal, called>>
    BY <1>7 DEF Collect, MonitorAt
  <2> QED BY <2>1
<1>8. ASSUME NEW i \in Present, Apply(i) PROVE CallsOK'
  <2>1. mon.pc = "apply" /\ UNCHANGED <<wake, signal, called>>
    BY <1>8 DEF Apply, MonitorAt
  <2> QED BY <2>1
<1>9. CASE Deliver
  BY <1>9 DEF Deliver
<1>10. CASE Restart
  BY <1>10, IdleFacts DEF Restart
<1>11. CASE \E p \in Plays : Receive(p)
  BY <1>1, <1>11 DEF Receive
<1>12. CASE GateOpens \/ CalendarLoad \/ \E i \in Present : CalendarWrite(i)
  BY <1>1, <1>12 DEF GateOpens, CalendarLoad, CalendarWrite
<1>13. CASE \E i \in Present : Grab(i) \/ Move(i) \/ Leave(i) \/ Countdown(i) \/ GraceEnds(i)
            \/ FileDeleted(i)
  BY <1>1, <1>13 DEF Grab, Move, Leave, Countdown, GraceEnds, FileDeleted
<1>14. CASE \E span \in {"unit", "half_hour", "day"} : Pass(span)
  BY <1>1, <1>14 DEF Pass
<1>15. CASE UNCHANGED playbackVars
  BY <1>1, <1>15 DEF playbackVars
<1> QED BY <1>2, <1>3, <1>4, <1>5, <1>6, <1>7, <1>8, <1>9, <1>10, <1>11, <1>12, <1>13, <1>14, <1>15
        DEF PlaybackNext, Monitor

\* What makes a step keep AskedOK: no search is forgotten, a row gets its flag
\* and a worker its task only where there was one.
LEMMA AskedKept ==
  ASSUME PlayTyped, AskedOK, UNCHANGED set,
         \A i \in Instances : asks[i] # 0 => asks'[i] # 0,
         \A i \in Instances : ph'[i].watch => ph[i].watch \/ asks'[i] # 0,
         \A i \in Instances : asks'[i] = 0 => asks[i] = 0 /\ (qm[i] = Fresh => qm'[i] = Fresh),
         \A v \in Executors :
           \/ wk'[v] = wk[v]
           \/ /\ \A i \in wk'[v].flag : asks'[i] # 0
              /\ wk'[v].pc \in {"show", "flag"} /\ wk'[v].ok => asks'[Head(wk'[v].todo)] # 0
  PROVE  AskedOK'
<1>1. \A i \in Instances : (ph'[i].watch => asks'[i] # 0) /\ (asks'[i] = 0 => qm'[i] = Fresh)
  BY DEF AskedOK
<1>2. ASSUME NEW v \in Executors
      PROVE  /\ \A i \in wk'[v].flag : asks'[i] # 0
             /\ wk'[v].pc \in {"show", "flag"} /\ wk'[v].ok => asks'[Head(wk'[v].todo)] # 0
  <2>1. CASE wk'[v] = wk[v]
    <3>1. \A i \in wk[v].flag : i \in Instances /\ asks[i] # 0
      BY SetFacts, WorkFacts DEF PlayTyped, AskedOK
    <3>2. wk[v].pc \in {"show", "flag"} /\ wk[v].ok => Head(wk[v].todo) \in Instances
          /\ asks[Head(wk[v].todo)] # 0
      BY SetFacts, WorkFacts, TodoFacts DEF PlayTyped, WorkOK, AskedOK
    <3> QED BY <2>1, <3>1, <3>2
  <2>2. CASE wk'[v] # wk[v]
    BY <2>2
  <2> QED BY <2>1, <2>2
<1> QED BY <1>1, <1>2 DEF AskedOK

\* A search and what it counts.
LEMMA SearchFacts ==
  ASSUME PlayTyped, NEW w \in Executors, Search(w)
  PROVE  /\ Row(w) \in Instances /\ UNCHANGED <<set, ph, qm, mon, cal>>
         /\ wk'[w].flag = wk[w].flag /\ \A v \in Executors \ {w} : wk'[v] = wk[v]
         /\ \A i \in Instances \ {Row(w)} : asks'[i] = asks[i] /\ since'[i] = since[i]
         /\ \/ asks'[Row(w)] = asks[Row(w)] /\ since'[Row(w)] = since[Row(w)]
            \/ asks'[Row(w)] = 1 /\ asks[Row(w)] = 0 /\ since'[Row(w)] = 0
            \/ asks'[Row(w)] = 2 /\ asks[Row(w)] # 0
         /\ wk'[w].pc \in {"show", "flag"} /\ wk'[w].ok => wk'[w].todo = wk[w].todo
            /\ asks'[Row(w)] # 0
<1>1. /\ UNCHANGED <<set, ph, qm, mon, cal>> /\ wk[w].pc = "search"
  BY DEF Search, At, shown, watcher
<1>2. Row(w) \in Instances /\ wk[w].todo # <<>>
  BY <1>1, SetFacts, WorkFacts, TodoFacts DEF PlayTyped, WorkOK, Row
<1>3. asks \in [Instances -> 0..2] /\ since \in [Instances -> 0..Cap]
  BY DEF PlayTyped, RadarrOK
<1>4. CASE Skip(w) /\ UNCHANGED <<since, asks>>
  <2>1. wk'[w].pc \in {"search", "finish"} /\ wk'[w].flag = wk[w].flag
        /\ \A v \in Executors \ {w} : wk'[v] = wk[v]
    BY <1>1, <1>4, SkipFacts
  <2> QED BY <1>1, <1>2, <1>4, <2>1
<1>5. ASSUME NEW g \in BOOLEAN, wk' = [wk EXCEPT ![w].ok = g, ![w].pc = "show"],
             since' = IF g THEN [since EXCEPT ![Row(w)] = 0] ELSE since,
             asks' = IF g /\ asks[Row(w)] < 2 THEN [asks EXCEPT ![Row(w)] = @ + 1] ELSE asks
      PROVE  /\ wk'[w].flag = wk[w].flag /\ \A v \in Executors \ {w} : wk'[v] = wk[v]
             /\ \A i \in Instances \ {Row(w)} : asks'[i] = asks[i] /\ since'[i] = since[i]
             /\ \/ asks'[Row(w)] = asks[Row(w)] /\ since'[Row(w)] = since[Row(w)]
                \/ asks'[Row(w)] = 1 /\ asks[Row(w)] = 0 /\ since'[Row(w)] = 0
                \/ asks'[Row(w)] = 2 /\ asks[Row(w)] # 0
             /\ wk'[w].pc \in {"show", "flag"} /\ wk'[w].ok => wk'[w].todo = wk[w].todo
                /\ asks'[Row(w)] # 0
  <2>1. /\ wk'[w].flag = wk[w].flag /\ wk'[w].ok = g /\ wk'[w].todo = wk[w].todo
        /\ \A v \in Executors \ {w} : wk'[v] = wk[v]
    BY <1>1, <1>5, AskFacts
  <2>2. CASE ~g
    BY <1>2, <1>5, <2>1, <2>2
  <2>3. CASE g
    <3>1. asks[Row(w)] \in {0, 1, 2}
      BY <1>2, <1>3
    <3>2. since' = [since EXCEPT ![Row(w)] = 0]
      BY <1>5, <2>3
    <3>3. asks' = IF asks[Row(w)] < 2 THEN [asks EXCEPT ![Row(w)] = asks[Row(w)] + 1] ELSE asks
      BY <1>5, <2>3
    <3>4. since'[Row(w)] = 0 /\ \A i \in Instances \ {Row(w)} : since'[i] = since[i]
      BY <1>2, <1>3, <3>2
    <3>5. \A i \in Instances \ {Row(w)} : asks'[i] = asks[i]
      BY <1>2, <1>3, <3>3
    <3>6. asks'[Row(w)] = IF asks[Row(w)] < 2 THEN asks[Row(w)] + 1 ELSE 2
      BY <1>2, <1>3, <3>1, <3>3
    <3> QED BY <2>1, <3>1, <3>4, <3>5, <3>6
  <2> QED BY <2>2, <2>3
<1> QED BY <1>1, <1>2, <1>4, <1>5 DEF Search

LEMMA AskedWork ==
  ASSUME PlayTyped, AskedOK, NEW w \in Executors, Work(w)
  PROVE  AskedOK'
<1> USE DEF shown, radarr, queue, watcher, ghost, bounds
<1>0. Present \subseteq Instances /\ \A i \in Instances : ph[i].watch \in BOOLEAN
  BY SetFacts, ShownRows DEF PlayTyped
<1>1. CASE Search(w)
  <2>1. \A i \in Instances : asks[i] # 0 => asks'[i] # 0
    BY <1>1, SearchFacts
  <2>2. UNCHANGED <<set, ph, qm>>
    BY <1>1, SearchFacts
  <2>3. \A i \in wk'[w].flag : asks'[i] # 0
    BY <1>0, <1>1, <2>1, SearchFacts, WorkFacts DEF AskedOK
  <2>4. wk'[w].pc \in {"show", "flag"} /\ wk'[w].ok => asks'[Head(wk'[w].todo)] # 0
    BY <1>1, SearchFacts DEF Row
  <2>5. \A v \in Executors \ {w} : wk'[v] = wk[v]
    BY <1>1, SearchFacts
  <2> QED BY <2>1, <2>2, <2>3, <2>4, <2>5, AskedKept
<1>2. ASSUME UNCHANGED <<set, qm, asks>>,
             \A i \in Instances : ph'[i].watch => ph[i].watch \/ asks'[i] # 0,
             \A v \in Executors \ {w} : wk'[v] = wk[v],
             \A i \in wk'[w].flag : asks[i] # 0,
             wk'[w].pc \in {"show", "flag"} /\ wk'[w].ok => asks[Head(wk'[w].todo)] # 0
      PROVE  AskedOK'
  BY <1>2, AskedKept
<1>3. \A i \in wk[w].flag : asks[i] # 0
  BY DEF AskedOK
<1>4. CASE Claim(w)
  <2>1. UNCHANGED <<set, ph, qm, asks>>
    BY <1>4 DEF Claim
  <2>2. PICK t \in Tasks : wk' = [wk EXCEPT ![w] = t] /\ t.flag = {}
             /\ t.pc \in {"search", "finish"}
    BY <1>4, ClaimStarts
  <2>3. wk'[w] = t /\ \A v \in Executors \ {w} : wk'[v] = wk[v]
    BY <2>2 DEF PlayTyped, WorkOK
  <2> QED BY <1>2, <2>1, <2>2, <2>3
<1>5. CASE Show(w)
  <2>1. UNCHANGED <<set, qm, asks>> /\ wk[w].pc = "show" /\ Row(w) \in Instances
    BY <1>0, <1>5, WorkFacts, TodoFacts DEF Show, At, PlayTyped, WorkOK, Row
  <2>2. CASE ph[Row(w)].has
    <3>1. /\ ph' = Flagged(w, [ph EXCEPT ![Row(w)] = Intend(@, "SEARCHING", "played")])
          /\ wk' = [wk EXCEPT ![w].pc = "flag", ![w].flag = {}, ![w].bell = {}]
      BY <1>5, <2>2 DEF Show
    <3>2. /\ Intend(ph[Row(w)], "SEARCHING", "played") \in Rows
          /\ Intend(ph[Row(w)], "SEARCHING", "played").watch => ph[Row(w)].watch
      <4>1. ph[Row(w)] \in Rows /\ "SEARCHING" \in Statuses /\ "played" \in Reasons
        BY <2>1, ShownRows DEF Statuses, ActiveQueueStatuses, Reasons
      <4>2. \A r \in Rows : Intend(r, "SEARCHING", "played") \in Rows
            /\ (Intend(r, "SEARCHING", "played").watch => r.watch)
        <5> SUFFICES ASSUME NEW r \in Rows
                     PROVE  Intend(r, "SEARCHING", "played") \in Rows
                            /\ (Intend(r, "SEARCHING", "played").watch => r.watch)
          OBVIOUS
        <5>1. Intend(r, "SEARCHING", "played") \in Rows
          BY <4>1, RowFacts
        <5>2. Intend(r, "SEARCHING", "played").watch = (r.watch /\ "SEARCHING" \notin Terminal)
          BY DEF Intend
        <5> QED BY <5>1, <5>2
      <4> QED BY <4>1, <4>2
    <3>3. \A i \in Instances : ph'[i].watch => ph[i].watch \/ asks[i] # 0
      <4> DEFINE r == Intend(ph[Row(w)], "SEARCHING", "played")
      <4>1. ph' = Flagged(w, [ph EXCEPT ![Row(w)] = r])
        BY <3>1
      <4> HIDE DEF r
      <4>2. [ph EXCEPT ![Row(w)] = r] \in [Instances -> Rows]
        BY <3>2 DEF PlayTyped, ShownOK, r
      <4>3. \A i \in Instances : [ph EXCEPT ![Row(w)] = r][i].watch => ph[i].watch
        BY <2>1, <3>2 DEF PlayTyped, ShownOK, r
      <4>4. \A i \in Instances : ph'[i].watch =
              ([ph EXCEPT ![Row(w)] = r][i].watch \/ i \in wk[w].flag)
        BY <4>1, <4>2, FlaggedTyped
      <4> QED BY <1>3, <4>3, <4>4
    <3>4. /\ wk'[w].flag = {} /\ wk'[w].ok = wk[w].ok /\ wk'[w].todo = wk[w].todo
          /\ \A v \in Executors \ {w} : wk'[v] = wk[v]
      BY <2>1, <3>1, ShowFacts
    <3>5. wk[w].ok => asks[Head(wk[w].todo)] # 0
      BY <2>1 DEF AskedOK
    <3> QED BY <1>2, <2>1, <3>3, <3>4, <3>5
  <2>3. CASE ~ph[Row(w)].has
    <3>1. Skip(w) /\ UNCHANGED ph
      BY <1>5, <2>3 DEF Show
    <3>2. wk'[w].pc \in {"search", "finish"} /\ wk'[w].flag = wk[w].flag
          /\ \A v \in Executors \ {w} : wk'[v] = wk[v]
      BY <2>1, <3>1, SkipFacts
    <3> QED BY <1>2, <1>3, <2>1, <3>1, <3>2
  <2> QED BY <2>2, <2>3
<1>6. CASE Flag(w)
  <2>1. UNCHANGED <<set, ph, qm, asks>> /\ wk[w].pc = "flag"
    BY <1>6 DEF Flag, At
  <2>2. /\ wk'[w].pc \in {"search", "finish"}
           /\ wk'[w].flag \subseteq (IF wk[w].ok THEN {Row(w)} ELSE {})
        /\ \A v \in Executors \ {w} : wk'[v] = wk[v]
    BY <1>6, FlagFacts
  <2>3. wk[w].ok => asks[Row(w)] # 0
    BY <2>1 DEF AskedOK, Row
  <2> QED BY <1>2, <2>1, <2>2, <2>3
<1>7. CASE Finish(w)
  <2>1. UNCHANGED <<set, qm, asks>> /\ ph' = Flagged(w, ph)
    BY <1>7 DEF Finish
  <2>2. \A i \in Instances : ph'[i].watch = (ph[i].watch \/ i \in wk[w].flag)
    BY <2>1, FlaggedTyped DEF PlayTyped, ShownOK
  <2>3. wk'[w].pc = "done" /\ wk'[w].flag = wk[w].flag /\ \A v \in Executors \ {w} : wk'[v] = wk[v]
    BY <1>7, FinishFacts
  <2> QED BY <1>2, <1>3, <2>1, <2>2, <2>3
<1>8. CASE Done(w)
  <2>1. UNCHANGED <<set, ph, qm, asks>>
    BY <1>8 DEF Done
  <2>2. wk'[w].pc = "idle" /\ wk'[w].flag = {} /\ \A v \in Executors \ {w} : wk'[v] = wk[v]
    BY <1>8, DoneFacts
  <2> QED BY <1>2, <2>1, <2>2
<1> QED BY <1>1, <1>4, <1>5, <1>6, <1>7, <1>8 DEF Work

LEMMA NextFacts ==
  ASSUME NEW q \in QueueMonitor, NEW item \in Items
  PROVE  /\ NextQm(q, item).left \in {Unset, 0, q.left}
         /\ NextQm(q, item).search \in {Unset, 0, q.search}
         /\ item = "none" => NextQm(q, item).seen = q.seen
         /\ item = "none" /\ q.seen => NextQm(q, item).left = IF q.left = Unset THEN 0 ELSE q.left
<1> DEFINE y == q.seen
           l == q.left
           c == q.search
<1>1. q = Timers(y, l, c) /\ y \in BOOLEAN
  BY DEF QueueMonitor, Timers
<1>2. CASE item # "none"
  BY <1>2 DEF NextQm
<1>3. CASE item = "none" /\ q.seen
  <2> DEFINE a == IF q.left = Unset THEN 0 ELSE q.left
  <2>1. NextQm(q, item) = [q EXCEPT !.left = a]
    BY <1>3 DEF NextQm
  <2> HIDE DEF a, y, l, c
  <2>2. [Timers(y, l, c) EXCEPT !.left = a] = Timers(y, a, c)
    BY DEF Timers
  <2>3. NextQm(q, item) = Timers(y, a, c)
    BY <1>1, <2>1, <2>2, Zenon
  <2>4. NextQm(q, item).seen = y /\ NextQm(q, item).left = a /\ NextQm(q, item).search = c
    BY <2>3 DEF Timers
  <2> QED BY <1>3, <2>4 DEF a, y, c
<1>4. CASE item = "none" /\ ~q.seen
  <2> DEFINE a == IF q.search =
               Unset THEN 0 ELSE IF q.search >= SearchTimeout THEN Unset ELSE q.search
  <2>1. NextQm(q, item) = [q EXCEPT !.search = a]
    BY <1>4 DEF NextQm
  <2>2. a \in {Unset, 0, q.search}
    OBVIOUS
  <2> HIDE DEF a, y, l, c
  <2>3. [Timers(y, l, c) EXCEPT !.search = a] = Timers(y, l, a)
    BY DEF Timers
  <2>4. NextQm(q, item) = Timers(y, l, a)
    BY <1>1, <2>1, <2>3, Zenon
  <2>5. NextQm(q, item).seen = y /\ NextQm(q, item).left = l /\ NextQm(q, item).search = a
    BY <2>4 DEF Timers
  <2> QED BY <1>4, <2>2, <2>5 DEF y, l
<1> QED BY <1>2, <1>3, <1>4

\* The line that is shown, item by item.
LEMMA LineCases ==
  ASSUME NEW q \in QueueMonitor, NEW item \in Items
  PROVE  Line(q, item) = IF item = "queued" THEN <<"SEARCHING", "queued">>
                         ELSE IF item = "downloading" THEN <<"DOWNLOADING", "other">>
                         ELSE IF item = "completed" THEN <<"IMPORT_IN_PROGRESS", "other">>
                         ELSE IF item = "failed" THEN <<"RETRYING", "failed">>
                         ELSE IF q.seen
                                THEN IF NextQm(q, item).left < RetryGrace
                                       THEN <<"RETRYING", "left">> ELSE <<"NOT_FOUND", "other">>
                                ELSE IF q.search < SearchTimeout
                                       THEN <<"SEARCHING", "waiting">> ELSE <<"NOT_FOUND", "other">>
BY DEF Line, Items

\* The line says NOT_FOUND only when its timer has run out.
LEMMA LineFacts ==
  ASSUME NEW q \in QueueMonitor, NEW item \in Items, Line(q, item)[1] = "NOT_FOUND"
  PROVE  /\ item = "none"
         /\ q.seen => q.left >= RetryGrace
         /\ ~q.seen => q.search >= SearchTimeout
<1>1. /\ \A x \in {"queued", "other"} : <<"SEARCHING", x>>[1] = "SEARCHING"
      /\ <<"SEARCHING", "waiting">>[1] = "SEARCHING" /\ <<"RETRYING", "left">>[1] = "RETRYING"
      /\ <<"RETRYING", "failed">>[1] = "RETRYING" /\ <<"DOWNLOADING", "other">>[1] = "DOWNLOADING"
      /\ <<"IMPORT_IN_PROGRESS", "other">>[1] = "IMPORT_IN_PROGRESS"
  OBVIOUS
<1>2. item \notin {"queued", "downloading", "completed", "failed"}
  BY <1>1, LineCases
<1>3. item = "none"
  BY <1>2 DEF Items
<1>4. CASE q.seen
  <2>1. NextQm(q, item).left = IF q.left = Unset THEN 0 ELSE q.left
    BY <1>3, <1>4, NextFacts
  <2>2. ~(NextQm(q, item).left < RetryGrace)
    BY <1>1, <1>2, <1>4, LineCases
  <2>3. q.left \in Ages
    BY DEF QueueMonitor
  <2> QED BY <1>3, <1>4, <2>1, <2>2, <2>3, CapFacts DEF Unset
<1>5. CASE ~q.seen
  <2>1. ~(q.search < SearchTimeout)
    BY <1>1, <1>2, <1>5, LineCases
  <2>2. q.search \in Ages
    BY DEF QueueMonitor
  <2> QED BY <1>3, <1>5, <2>1, <2>2, CapFacts
<1> QED BY <1>4, <1>5

LEMMA OlderGrows ==
  ASSUME NEW a \in Ages, NEW b \in 0..Cap, NEW n \in Nat
  PROVE  /\ a <= b => Older(a, n) <= Older(b, n)
         /\ \A c \in {SearchTimeout, RetryGrace} : b >= c => Older(b, n) >= c
<1>1. /\ Cap \in Nat /\ a \in Int /\ b \in Int /\ a >= -1 /\ a <= Cap /\ 0 <= b /\ b <= Cap
      /\ SearchTimeout \in Nat /\ RetryGrace \in Nat /\ SearchTimeout <= Cap /\ RetryGrace <= Cap
  BY CapFacts
<1>2. Older(b, n) = IF b + n > Cap THEN Cap ELSE b + n
  BY <1>1 DEF Older, Unset
<1>3. Older(a, n) = IF a = -1 THEN -1 ELSE IF a + n > Cap THEN Cap ELSE a + n
  BY DEF Older, Unset
<1>4. a <= b => Older(a, n) <= Older(b, n)
  BY <1>1, <1>2, <1>3
<1>5. Older(b, n) >= b
  BY <1>1, <1>2
<1>6. \A c \in {SearchTimeout, RetryGrace} : b >= c => Older(b, n) >= c
  <2>1. Older(b, n) \in Int
    BY <1>1, <1>2
  <2> QED BY <1>1, <1>5, <2>1
<1> QED BY <1>4, <1>6

LEMMA AskedStep == PlayTyped /\ AskedOK /\ [PlaybackNext]_playbackVars => AskedOK'
<1> SUFFICES ASSUME PlayTyped, AskedOK, [PlaybackNext]_playbackVars PROVE AskedOK'
  OBVIOUS
<1> USE DEF shown, radarr, queue, watcher, ghost, bounds
<1>0. Present \subseteq Instances
  BY SetFacts DEF PlayTyped
<1>1. ASSUME UNCHANGED <<set, wk, asks>>,
             \A i \in Instances : ph'[i].watch => ph[i].watch,
             \A i \in Instances : asks[i] = 0 /\ qm[i] = Fresh => qm'[i] = Fresh
      PROVE  AskedOK'
  BY <1>1, AskedKept
<1>2. CASE UNCHANGED playbackVars
  BY <1>1, <1>2 DEF playbackVars
<1>3. ASSUME NEW p \in Plays, Receive(p) PROVE AskedOK'
  <2>1. UNCHANGED <<set, wk, asks, qm>>
    BY <1>3 DEF Receive
  <2>2. \A i \in Instances : ph'[i].watch => ph[i].watch
    <3>1. \A i \in Instances : ph'[i] = ph[i] \/ ph'[i] = Intend(ph[i], "SEARCH_QUEUED", "other")
      BY <1>3 DEF Receive
    <3>2. \A r : Intend(r, "SEARCH_QUEUED", "other").watch => r.watch
      BY DEF Intend
    <3> QED BY <3>1, <3>2
  <2> QED BY <1>1, <2>1, <2>2
<1>4. CASE GateOpens
  BY <1>1, <1>4 DEF GateOpens
<1>5. ASSUME NEW w \in Executors, Work(w) PROVE AskedOK'
  BY <1>5, AskedWork
<1>6. CASE Probe
  <2>1. UNCHANGED <<set, wk, asks, qm>>
    BY <1>6 DEF Probe
  <2>2. \A i \in Instances : ph'[i].watch => ph[i].watch
    BY <1>6, ProbeFacts
  <2> QED BY <1>1, <2>1, <2>2
<1>7. CASE Wait \/ ClearEvent \/ FetchQueues \/ Deliver
  BY <1>1, <1>7 DEF Wait, ClearEvent, FetchQueues, Deliver
<1>8. CASE Collect
  <2>1. UNCHANGED <<set, wk, asks, ph>>
    BY <1>8 DEF Collect
  <2>2. \A i \in Instances : qm'[i] = qm[i] \/ i \in Targets
    BY <1>8, CollectFacts
  <2>3. \A i \in Targets : asks[i] # 0
    BY <1>0 DEF Targets, AskedOK
  <2> QED BY <1>1, <2>1, <2>2, <2>3
<1>9. ASSUME NEW i \in Present, Apply(i) PROVE AskedOK'
  <2>1. UNCHANGED <<set, wk, asks, qm>>
    BY <1>9 DEF Apply
  <2>2. \A k \in Instances : ph'[k].watch => ph[k].watch
    BY <1>9, ApplyFacts
  <2> QED BY <1>1, <2>1, <2>2
<1>10. CASE CalendarLoad
  BY <1>1, <1>10 DEF CalendarLoad
<1>11. ASSUME NEW i \in Present, CalendarWrite(i) PROVE AskedOK'
  <2>1. UNCHANGED <<set, wk, asks, qm>>
    BY <1>11 DEF CalendarWrite
  <2>2. \A k \in Instances : ph'[k].watch => ph[k].watch
    BY <1>11, WriteFacts
  <2> QED BY <1>1, <2>1, <2>2
<1>12. ASSUME NEW i \in Present, Grab(i) \/ Move(i) \/ Leave(i) PROVE AskedOK'
  BY <1>1, <1>12 DEF Grab, Move, Leave
<1>13. ASSUME NEW i \in Present, Countdown(i) \/ GraceEnds(i) \/ FileDeleted(i) PROVE AskedOK'
  <2>1. UNCHANGED <<set, wk, asks, qm>>
    BY <1>13 DEF Countdown, GraceEnds, FileDeleted
  <2>2. \A k \in Instances : ph'[k].watch => ph[k].watch
    BY <1>13, EventFacts
  <2> QED BY <1>1, <2>1, <2>2
<1>14. ASSUME NEW span \in {"unit", "half_hour", "day"}, Pass(span) PROVE AskedOK'
  <2>1. UNCHANGED <<set, wk, asks, ph>>
    BY <1>14 DEF Pass
  <2>2. \A i \in Instances : qm[i] = Fresh => qm'[i] = Fresh
    BY <1>14, PassFacts
  <2> QED BY <1>1, <2>1, <2>2
<1>15. CASE Restart
  <2>1. UNCHANGED <<set, asks, ph, qm>> /\ wk' = [w \in Executors |-> Idle]
    BY <1>15 DEF Restart
  <2>2. \A v \in Executors : wk'[v].flag = {} /\ wk'[v].pc = "idle"
    BY <2>1, IdleFacts
  <2> QED BY <2>1, <2>2, AskedKept
<1> QED BY <1>2, <1>3, <1>4, <1>5, <1>6, <1>7, <1>8, <1>9, <1>10, <1>11, <1>12, <1>13, <1>14, <1>15
        DEF PlaybackNext, Monitor

\* Only a search, a look of the monitor and time move the timers.
LEMMA TimersStill ==
  ASSUME PlayTyped, [PlaybackNext]_playbackVars
  PROVE  \/ UNCHANGED <<qm, since, asks>>
         \/ \E w \in Executors : Search(w)
         \/ Collect
         \/ \E span \in {"unit", "half_hour", "day"} : Pass(span)
<1> USE DEF shown, radarr, queue, watcher, ghost, bounds
<1>1. CASE UNCHANGED playbackVars
  BY <1>1 DEF playbackVars
<1>2. ASSUME NEW p \in Plays, Receive(p) PROVE UNCHANGED <<qm, since, asks>>
  BY <1>2 DEF Receive
<1>3. CASE GateOpens \/ CalendarLoad \/ Deliver \/ Restart
  BY <1>3 DEF GateOpens, CalendarLoad, Deliver, Restart
<1>4. ASSUME NEW w \in Executors, Work(w) PROVE UNCHANGED <<qm, since, asks>> \/ Search(w)
  BY <1>4 DEF Work, Claim, Show, Flag, Finish, Done
<1>5. CASE Monitor
  BY <1>5 DEF Monitor, Probe, Wait, ClearEvent, FetchQueues, Apply
<1>6. ASSUME NEW i \in Present,
             CalendarWrite(i) \/ Grab(i) \/ Move(i) \/ Leave(i) \/ Countdown(i) \/ GraceEnds(i)
             \/ FileDeleted(i)
      PROVE  UNCHANGED <<qm, since, asks>>
  BY <1>6 DEF CalendarWrite, Grab, Move, Leave, Countdown, GraceEnds, FileDeleted
<1> QED BY <1>1, <1>2, <1>3, <1>4, <1>5, <1>6 DEF PlaybackNext

LEMMA TimersStep == PlayTyped /\ AskedOK /\ TimersOK /\ [PlaybackNext]_playbackVars => TimersOK'
<1> SUFFICES ASSUME PlayTyped, AskedOK, TimersOK, [PlaybackNext]_playbackVars PROVE TimersOK'
  OBVIOUS
<1>0. \A i \in Instances : /\ qm[i] \in QueueMonitor /\ qm[i].left \in Ages /\ qm[i].search \in Ages
                           /\ since[i] \in 0..Cap /\ asks[i] \in 0..2
  BY DEF PlayTyped, ShownOK, RadarrOK, QueueMonitor
<1>1. CASE UNCHANGED <<qm, since, asks>>
  BY <1>1 DEF TimersOK
<1>2. ASSUME NEW w \in Executors, Search(w) PROVE TimersOK'
  <2>1. UNCHANGED qm /\ Row(w) \in Instances
    BY <1>2, SearchFacts
  <2> SUFFICES ASSUME NEW i \in Instances, asks'[i] = 1
               PROVE  qm[i].left <= since'[i] /\ qm[i].search <= since'[i]
    BY <2>1 DEF TimersOK
  <2>2. CASE asks'[i] = asks[i] /\ since'[i] = since[i]
    BY <2>2 DEF TimersOK
  <2>3. CASE asks[i] = 0 /\ since'[i] = 0
    <3>1. qm[i] = Fresh
      BY <2>3 DEF AskedOK
    <3> QED BY <2>3, <3>1 DEF Fresh, Unset
  <2>4. \/ asks'[i] = asks[i] /\ since'[i] = since[i]
        \/ asks[i] = 0 /\ since'[i] = 0
        \/ asks'[i] = 2
    BY <1>2, SearchFacts
  <2> QED BY <2>2, <2>3, <2>4
<1>3. CASE Collect
  <2>1. UNCHANGED <<since, asks>>
    BY <1>3 DEF Collect, ghost
  <2> SUFFICES ASSUME NEW i \in Instances, asks[i] = 1
               PROVE  qm'[i].left <= since[i] /\ qm'[i].search <= since[i]
    BY <2>1 DEF TimersOK
  <2>2. mon.map[i] \in Items
    BY DEF PlayTyped, WatcherOK
  <2>3. qm'[i] = qm[i] \/ qm'[i] = NextQm(qm[i], mon.map[i])
    BY <1>3, CollectFacts
  <2>4. qm'[i].left \in {Unset, 0, qm[i].left} /\ qm'[i].search \in {Unset, 0, qm[i].search}
    BY <1>0, <2>2, <2>3, NextFacts
  <2>5. qm[i].left <= since[i] /\ qm[i].search <= since[i] /\ since[i] \in 0..Cap /\ Cap \in Nat
    BY <1>0, CapFacts DEF TimersOK
  <2> QED BY <2>4, <2>5 DEF Unset
<1>4. ASSUME NEW span \in {"unit", "half_hour", "day"}, Pass(span) PROVE TimersOK'
  <2>1. UNCHANGED asks
    BY <1>4 DEF Pass
  <2>2. PICK n \in Nat : \A i \in Instances :
              /\ since'[i] = Older(since[i], n)
              /\ qm'[i].left = Older(qm[i].left, n) /\ qm'[i].search = Older(qm[i].search, n)
    BY <1>4, PassFacts
  <2> SUFFICES ASSUME NEW i \in Instances, asks[i] = 1
               PROVE  qm'[i].left <= since'[i] /\ qm'[i].search <= since'[i]
    BY <2>1 DEF TimersOK
  <2>3. qm[i].left <= since[i] /\ qm[i].search <= since[i]
    BY DEF TimersOK
  <2>4. Older(qm[i].left, n) <= Older(since[i], n)
    BY <1>0, <2>3, OlderGrows
  <2>5. Older(qm[i].search, n) <= Older(since[i], n)
    BY <1>0, <2>3, OlderGrows
  <2> QED BY <2>2, <2>4, <2>5
<1> QED BY <1>1, <1>2, <1>3, <1>4, TimersStill

\* The intents of the monitor change only in its own steps.
LEMMA TodoStill ==
  ASSUME PlayTyped, [PlaybackNext]_playbackVars
  PROVE  \/ Collect
         \/ /\ DOMAIN mon'.todo \subseteq DOMAIN mon.todo
            /\ \A k \in DOMAIN mon'.todo : mon'.todo[k] = mon.todo[k]
<1> USE DEF shown, radarr, queue, watcher, ghost, bounds
<1>1. CASE UNCHANGED playbackVars
  BY <1>1 DEF playbackVars
<1>2. ASSUME NEW p \in Plays, Receive(p) PROVE UNCHANGED mon
  BY <1>2 DEF Receive
<1>3. CASE GateOpens \/ CalendarLoad \/ Deliver
  BY <1>3 DEF GateOpens, CalendarLoad, Deliver
<1>4. ASSUME NEW w \in Executors, Work(w) PROVE UNCHANGED mon
  BY <1>4 DEF Work, Claim, Search, Show, Flag, Finish, Done
<1>5. CASE Probe
  BY <1>5, ProbeFacts
<1>6. CASE Wait \/ ClearEvent
  <2>1. wake' \in BOOLEAN /\ UNCHANGED <<set, signal, called>>
    BY <1>6 DEF Wait, ClearEvent, PlayTyped, WatcherOK
  <2>2. MonitorGoto("clear") \/ MonitorGoto("probe")
    BY <1>6 DEF Wait, ClearEvent
  <2>3. mon'.todo = mon.todo
    BY <2>1, <2>2, PointFacts DEF MonitorPoints
  <2> QED BY <2>3
<1>7. CASE FetchQueues
  BY <1>7, FetchFacts
<1>8. ASSUME NEW i \in Present, Apply(i)
      PROVE  /\ DOMAIN mon'.todo \subseteq DOMAIN mon.todo
             /\ \A k \in DOMAIN mon'.todo : mon'.todo[k] = mon.todo[k]
  BY <1>8, ApplyFacts
<1>9. ASSUME NEW i \in Present,
             CalendarWrite(i) \/ Grab(i) \/ Move(i) \/ Leave(i) \/ Countdown(i) \/ GraceEnds(i)
             \/ FileDeleted(i)
      PROVE  UNCHANGED mon
  BY <1>9 DEF CalendarWrite, Grab, Move, Leave, Countdown, GraceEnds, FileDeleted
<1>10. ASSUME NEW span \in {"unit", "half_hour", "day"}, Pass(span) PROVE UNCHANGED mon
  BY <1>10 DEF Pass
<1>11. CASE Restart
  BY <1>11, IdleFacts DEF Restart
<1> QED BY <1>1, <1>2, <1>3, <1>4, <1>5, <1>6, <1>7, <1>8, <1>9, <1>10, <1>11
           DEF PlaybackNext, Monitor

LEMMA VerdictsStep ==
  ASSUME PlayTyped, [PlaybackNext]_playbackVars, \A i \in DOMAIN cal : cal[i].status # "NOT_FOUND"
  PROVE  \A i \in DOMAIN cal' : cal'[i].status # "NOT_FOUND"
<1> USE DEF shown, radarr, queue, watcher, ghost, bounds
<1>1. CASE UNCHANGED cal
  BY <1>1
<1>2. CASE CalendarLoad
  BY <1>2, LoadFacts
<1>3. ASSUME NEW i \in Present, CalendarWrite(i)
      PROVE  \A k \in DOMAIN cal' : cal'[k].status # "NOT_FOUND"
  BY <1>3, WriteFacts
<1>4. CASE Restart
  BY <1>4, IdleFacts DEF Restart
<1>5. \/ UNCHANGED cal \/ CalendarLoad \/ (\E i \in Present : CalendarWrite(i)) \/ Restart
  <2>1. CASE UNCHANGED playbackVars
    BY <2>1 DEF playbackVars
  <2>2. CASE \E p \in Plays : Receive(p)
    BY <2>2 DEF Receive
  <2>3. CASE GateOpens \/ Deliver
    BY <2>3 DEF GateOpens, Deliver
  <2>4. CASE \E w \in Executors : Work(w)
    BY <2>4 DEF Work, Claim, Search, Show, Flag, Finish, Done
  <2>5. CASE Monitor
    BY <2>5 DEF Monitor, Probe, Wait, ClearEvent, FetchQueues, Collect, Apply
  <2>6. CASE \E i \in Present : Grab(i) \/ Move(i) \/ Leave(i) \/ Countdown(i) \/ GraceEnds(i)
             \/ FileDeleted(i)
    BY <2>6 DEF Grab, Move, Leave, Countdown, GraceEnds, FileDeleted
  <2>7. CASE \E span \in {"unit", "half_hour", "day"} : Pass(span)
    BY <2>7 DEF Pass
  <2> QED BY <2>1, <2>2, <2>3, <2>4, <2>5, <2>6, <2>7 DEF PlaybackNext
<1> QED BY <1>1, <1>2, <1>3, <1>4, <1>5

\* Time that was earned stays earned while no other search is accepted.
LEMMA EarnedStays ==
  ASSUME PlayTyped, [PlaybackNext]_playbackVars, ~Collect, NEW i \in Instances, asks[i] # 0
  PROVE  /\ asks'[i] # 0
         /\ asks'[i] = 1 => asks[i] = 1
         /\ asks'[i] = 1 /\ since[i] >= Allowed(i) => since'[i] >= Allowed(i)'
<1>1. CASE UNCHANGED <<qm, since, asks>>
  BY <1>1 DEF Allowed
<1>2. ASSUME NEW w \in Executors, Search(w)
      PROVE  UNCHANGED qm /\ asks'[i] # 0 /\ (asks'[i] = 1 => asks[i] = 1 /\ since'[i] = since[i])
  <2>1. \/ i # Row(w) /\ asks'[i] = asks[i] /\ since'[i] = since[i]
        \/ i = Row(w) /\ asks'[i] = asks[i] /\ since'[i] = since[i]
        \/ i = Row(w) /\ asks'[i] = 2
    BY <1>2, SearchFacts
  <2> QED BY <1>2, <2>1, SearchFacts
<1>3. ASSUME NEW span \in {"unit", "half_hour", "day"}, Pass(span)
      PROVE  UNCHANGED asks /\ (since[i] >= Allowed(i) => since'[i] >= Allowed(i)')
  <2>1. PICK n \in Nat : \A k \in Instances : since'[k] = Older(since[k], n)
             /\ qm'[k].seen = qm[k].seen
    BY <1>3, PassFacts
  <2>2. since[i] \in 0..Cap /\ Allowed(i) \in {SearchTimeout, RetryGrace} /\ 0 \in Ages
    BY CapFacts DEF PlayTyped, RadarrOK, Allowed, Ages
  <2>3. since'[i] = Older(since[i], n) /\ Allowed(i)' = Allowed(i)
    BY <2>1 DEF Allowed
  <2>4. since[i] >= Allowed(i) => Older(since[i], n) >= Allowed(i)
    BY <2>2, OlderGrows
  <2> QED BY <1>3, <2>3, <2>4 DEF Pass
<1>4. \/ UNCHANGED <<qm, since, asks>>
      \/ \E w \in Executors : Search(w)
      \/ \E span \in {"unit", "half_hour", "day"} : Pass(span)
  BY TimersStill
<1>5. ASSUME NEW w \in Executors, Search(w)
      PROVE  /\ asks'[i] # 0
             /\ asks'[i] = 1 => asks[i] = 1
             /\ asks'[i] = 1 /\ since[i] >= Allowed(i) => since'[i] >= Allowed(i)'
  <2>1. UNCHANGED qm /\ asks'[i] # 0 /\ (asks'[i] = 1 => asks[i] = 1 /\ since'[i] = since[i])
    BY <1>2, <1>5
  <2>2. Allowed(i)' = Allowed(i)
    BY <2>1 DEF Allowed
  <2> QED BY <2>1, <2>2
<1>6. ASSUME NEW span \in {"unit", "half_hour", "day"}, Pass(span)
      PROVE  /\ asks'[i] # 0
             /\ asks'[i] = 1 => asks[i] = 1
             /\ asks'[i] = 1 /\ since[i] >= Allowed(i) => since'[i] >= Allowed(i)'
  BY <1>3, <1>6
<1> QED BY <1>1, <1>4, <1>5, <1>6

LEMMA LinesStep ==
  PlayTyped /\ AskedOK /\ TimersOK /\ LinesOK /\ [PlaybackNext]_playbackVars => LinesOK'
<1> SUFFICES ASSUME PlayTyped, AskedOK, TimersOK, LinesOK, [PlaybackNext]_playbackVars
               PROVE LinesOK'
  OBVIOUS
<1>0. DOMAIN mon.todo \subseteq Instances /\ Targets \subseteq Instances
  BY SetFacts, TargetFacts DEF PlayTyped, WatcherOK
<1>1. \A i \in DOMAIN cal' : cal'[i].status # "NOT_FOUND"
  BY VerdictsStep DEF LinesOK
<1>2. CASE Collect
  <2>1. UNCHANGED <<since, asks>>
    BY <1>2 DEF Collect, ghost
  <2>2. ASSUME NEW i \in DOMAIN mon'.todo
        PROVE  /\ asks[i] # 0
               /\ asks[i] = 1 /\ mon'.todo[i].line[1] = "NOT_FOUND" => since[i] >= Allowed(i)'
    <3>1. i \in Targets /\ i \in Instances
      BY <1>0, <1>2, <2>2, CollectFacts
    <3>2. mon'.todo[i].line = Line(qm[i], mon.map[i]) /\ qm'[i] = NextQm(qm[i], mon.map[i])
      BY <1>2, <2>2, <3>1, CollectFacts
    <3>3. asks[i] # 0
      BY <3>1 DEF Targets, AskedOK
    <3>4. ASSUME asks[i] = 1, mon'.todo[i].line[1] = "NOT_FOUND" PROVE since[i] >= Allowed(i)'
      <4>1. qm[i] \in QueueMonitor /\ mon.map[i] \in Items /\ since[i] \in 0..Cap
            /\ qm[i].left \in Ages /\ qm[i].search \in Ages
        BY <3>1 DEF PlayTyped, ShownOK, WatcherOK, RadarrOK, QueueMonitor
      <4>2. Line(qm[i], mon.map[i])[1] = "NOT_FOUND"
        BY <3>2, <3>4
      <4>3. /\ mon.map[i] = "none"
            /\ qm[i].seen => qm[i].left >= RetryGrace
            /\ ~qm[i].seen => qm[i].search >= SearchTimeout
        BY <4>1, <4>2, LineFacts
      <4>4. qm'[i].seen = qm[i].seen
        BY <3>2, <4>1, <4>3, NextFacts
      <4>5. Allowed(i)' = IF qm[i].seen THEN RetryGrace ELSE SearchTimeout
        BY <4>4 DEF Allowed
      <4>6. qm[i].left <= since[i] /\ qm[i].search <= since[i]
        BY <3>1, <3>4 DEF TimersOK
      <4> QED BY <4>1, <4>3, <4>5, <4>6, CapFacts
    <3> QED BY <3>3, <3>4
  <2> QED BY <1>1, <2>1, <2>2 DEF LinesOK
<1>3. CASE ~Collect
  <2>1. /\ DOMAIN mon'.todo \subseteq DOMAIN mon.todo
        /\ \A k \in DOMAIN mon'.todo : mon'.todo[k] = mon.todo[k]
    BY <1>3, TodoStill
  <2>2. ASSUME NEW i \in DOMAIN mon'.todo
        PROVE  /\ asks'[i] # 0
               /\ asks'[i] = 1 /\ mon'.todo[i].line[1] = "NOT_FOUND" => since'[i] >= Allowed(i)'
    <3>1. i \in Instances /\ i \in DOMAIN mon.todo /\ mon'.todo[i] = mon.todo[i]
      BY <1>0, <2>1, <2>2
    <3>2. /\ asks[i] # 0
          /\ asks[i] = 1 /\ mon.todo[i].line[1] = "NOT_FOUND" => since[i] >= Allowed(i)
      BY <3>1 DEF LinesOK
    <3>3. /\ asks'[i] # 0
          /\ asks'[i] = 1 => asks[i] = 1
          /\ asks'[i] = 1 /\ since[i] >= Allowed(i) => since'[i] >= Allowed(i)'
      BY <1>3, <3>1, <3>2, EarnedStays
    <3> QED BY <3>1, <3>2, <3>3
  <2> QED BY <1>1, <2>2 DEF LinesOK
<1> QED BY <1>2, <1>3

LEMMA PlayInvStep == PlayInv /\ [PlaybackNext]_playbackVars => PlayInv'
BY PlayTypedStep, CallsStep, AskedStep, TimersStep, LinesStep DEF PlayInv

\* The monitor does not sleep through a call: what a worker flagged since it
\* last looked has set its event, or the NOTIFY is on its way; neither the
\* order of look, wait and clear nor a lost connection breaks this.
THEOREM CallsHeard == PlaybackSpec => []CallsAreHeard
<1>1. PlaybackInit => PlayInv
  BY InitPlayInv
<1>2. PlayInv /\ [PlaybackNext]_playbackVars => PlayInv'
  BY PlayInvStep
<1>3. PlayInv => CallsAreHeard
  BY DEF PlayInv, CallsOK, CallsAreHeard, MonitorAt
<1> QED BY <1>1, <1>2, <1>3, PTL DEF PlaybackSpec

\* NOT_FOUND is written by an intent of the monitor and by nothing else.
LEMMA OnlyTheMonitorGivesUp ==
  ASSUME PlayInv, [PlaybackNext]_playbackVars, NEW i \in Present, GivenUp(i)
  PROVE  Apply(i) /\ i \in DOMAIN mon.todo /\ mon.todo[i].line[1] = "NOT_FOUND"
<1> USE DEF shown, radarr, queue, watcher, ghost, bounds, GivenUp
<1>0. PlayTyped /\ i \in Instances /\ \A k \in DOMAIN cal : cal[k].status # "NOT_FOUND"
  BY SetFacts DEF PlayInv, PlayTyped, LinesOK
<1>1. CASE UNCHANGED ph
  BY <1>1
<1>2. ASSUME NEW p \in Plays, Receive(p) PROVE FALSE
  <2>1. ph'[i] = ph[i] \/ ph'[i] = Intend(ph[i], "SEARCH_QUEUED", "other")
    BY <1>0, <1>2 DEF Receive
  <2> QED BY <2>1 DEF Intend
<1>3. ASSUME NEW w \in Executors, Work(w) PROVE FALSE
  <2>1. CASE UNCHANGED ph
    BY <1>1, <2>1
  <2>2. CASE Finish(w)
    <3>1. ph'[i].status = ph[i].status
      BY <1>0, <2>2, FlaggedTyped DEF Finish, PlayTyped, ShownOK
    <3> QED BY <3>1
  <2>3. CASE Show(w) /\ ph[Row(w)].has
    <3> DEFINE r == Intend(ph[Row(w)], "SEARCHING", "played")
    <3>1. ph' = Flagged(w, [ph EXCEPT ![Row(w)] = r]) /\ Row(w) \in Instances
      BY <1>0, <2>3, SetFacts, WorkFacts, TodoFacts DEF Show, At, PlayTyped, WorkOK, Row
    <3>2. r \in Rows /\ r.status = "SEARCHING"
      <4>1. ph[Row(w)] \in Rows /\ "SEARCHING" \in Statuses /\ "played" \in Reasons
        BY <1>0, <3>1, ShownRows DEF Statuses, ActiveQueueStatuses, Reasons
      <4>2. \A x \in Rows : Intend(x, "SEARCHING", "played") \in Rows
        BY <4>1, RowFacts
      <4> QED BY <4>1, <4>2 DEF Intend
    <3> HIDE DEF r
    <3>3. [ph EXCEPT ![Row(w)] = r] \in [Instances -> Rows]
      BY <1>0, <3>2 DEF PlayTyped, ShownOK
    <3>4. ph'[i].status = [ph EXCEPT ![Row(w)] = r][i].status
      BY <1>0, <3>1, <3>3, FlaggedTyped
    <3>5. [ph EXCEPT ![Row(w)] = r][i].status \in {ph[i].status, "SEARCHING"}
      BY <1>0, <3>1, <3>2 DEF PlayTyped, ShownOK
    <3> QED BY <3>4, <3>5
  <2> QED BY <1>3, <2>1, <2>2, <2>3 DEF Work, Claim, Search, Show, Flag, Done
<1>4. CASE Monitor
  <2>1. CASE Probe
    BY <1>0, <2>1, ProbeFacts
  <2>2. CASE Wait \/ ClearEvent \/ FetchQueues \/ Collect
    BY <1>1, <2>2 DEF Wait, ClearEvent, FetchQueues, Collect
  <2>3. ASSUME NEW k \in Present, Apply(k), k # i PROVE FALSE
    BY <1>0, <2>3, ApplyFacts
  <2>4. CASE Apply(i)
    BY <1>0, <2>4, ApplyFacts
  <2> QED BY <1>4, <2>1, <2>2, <2>3, <2>4 DEF Monitor
<1>5. ASSUME NEW k \in Present, CalendarWrite(k) PROVE FALSE
  <2>1. k \in DOMAIN cal /\ ph'[k].status \in {ph[k].status, cal[k].status}
        /\ (k # i => ph'[i] = ph[i])
    BY <1>0, <1>5, WriteFacts
  <2> QED BY <1>0, <2>1
<1>6. ASSUME NEW k \in Present, Countdown(k) \/ GraceEnds(k) \/ FileDeleted(k) PROVE FALSE
  <2>1. ph'[i].status = ph[i].status \/ ph'[i].status # "NOT_FOUND"
    BY <1>0, <1>6, EventFacts
  <2> QED BY <2>1
<1>7. CASE GateOpens \/ Deliver \/ CalendarLoad \/ Restart \/ UNCHANGED playbackVars
  BY <1>1, <1>7 DEF GateOpens, Deliver, CalendarLoad, Restart, playbackVars
<1>8. CASE \E k \in Present : Grab(k) \/ Move(k) \/ Leave(k)
  BY <1>1, <1>8 DEF Grab, Move, Leave
<1>9. CASE \E span \in {"unit", "half_hour", "day"} : Pass(span)
  BY <1>1, <1>9 DEF Pass
<1> QED BY <1>2, <1>3, <1>4, <1>5, <1>6, <1>7, <1>8, <1>9 DEF PlaybackNext

\* The first search for a placeholder gets the time its settings allow before
\* NOT_FOUND is shown: whichever of its rounds, a restart or a late write of the
\* monitor shows it, the timer that ran out is not older than the search.
THEOREM FirstSearchTimed == PlaybackSpec => FirstSearchGetsItsTime
<1> DEFINE Timely == \A i \in Present : GivenUp(i) /\ asks[i] = 1 => since[i] >= Allowed(i)
<1>1. PlaybackInit => PlayInv
  BY InitPlayInv
<1>2. PlayInv /\ [PlaybackNext]_playbackVars => PlayInv'
  BY PlayInvStep
<1>3. PlayInv /\ [PlaybackNext]_playbackVars => [Timely]_playbackVars
  <2> SUFFICES ASSUME PlayInv, [PlaybackNext]_playbackVars PROVE Timely
    OBVIOUS
  <2> SUFFICES ASSUME NEW i \in Present, GivenUp(i), asks[i] = 1 PROVE since[i] >= Allowed(i)
    OBVIOUS
  <2>1. i \in DOMAIN mon.todo /\ mon.todo[i].line[1] = "NOT_FOUND"
    BY OnlyTheMonitorGivesUp
  <2> QED BY <2>1 DEF PlayInv, LinesOK
<1> QED BY <1>1, <1>2, <1>3, PTL DEF PlaybackSpec, FirstSearchGetsItsTime
=============================================================================
