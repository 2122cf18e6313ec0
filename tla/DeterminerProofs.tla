-------------------------- MODULE DeterminerProofs --------------------------
(***************************************************************************)
(* What the runs check of Determiner for fourteen settings, two changes,  *)
(* for every set of settings and any number of changes and faults: types,  *)
(* that an undisturbed round decides as the rules' precedence says, that   *)
(* the tags govern, that later rounds change nothing, and that the fast    *)
(* path agrees with the pass; and that the explanation of the library page *)
(* tells what the pass will do.                                            *)
(***************************************************************************)
EXTENDS Determiner, TLAPS

\* What each thread remembers, by where it is.
MemoryOK ==
  \A t \in Threads :
    /\ pc[t] = "upsert" => mem[t] \in [snap: Rows]
    /\ pc[t] = "apply" => mem[t] \in [flags: Flags, want: Policies]
    /\ pc[t] = "write" => mem[t] \in [det: Dets, value: Dets]
    /\ pc[t] = "chip" =>
         /\ t = Desk
         /\ mem[t] \in [chip: Policies, flags: Flags] \cup [chip: Policies]

LeftOK ==
  \A t \in Threads :
    /\ pc[t] \in {"idle", "chip"} => left[t] = 0
    /\ pc[t] \in {"upsert", "tags", "apply", "fast"} => left[t] \in 0 .. 1
    /\ pc[t] \in {"determine", "write", "materialize"} => left[t] \in 1 .. 2

TInv == TypeOK /\ MemoryOK /\ LeftOK

-----------------------------------------------------------------------------
LEMMA PolicyOfType ==
  ASSUME NEW p \in Flags PROVE PolicyOf(p) \in Policies
BY DEF PolicyOf, Policies

LEMMA EffectiveType == ASSUME TypeOK PROVE Effective \in Policies
<1>1. PolicyOf(pol) \in Policies
  BY PolicyOfType DEF TypeOK
<1> QED
  BY <1>1 DEF TypeOK, Effective, Policies

LEMMA DeterminationType ==
  ASSUME TypeOK, NEW has \in BOOLEAN PROVE Determination(has) \in Dets
BY DEF Determination, HiddenSpecial, BaseDetermination, MonitoredSuppression,
       SiblingSuppression, BlockPlaceholder, ForcePlaceholder, Suppressed,
       Ordinary, Dets

LEMMA TargetType ==
  ASSUME TypeOK, NEW p \in Policies PROVE PolicyTarget(p) \in Dets
BY DEF PolicyTarget, Suppressed, Ordinary, Dets

LEMMA AppliedType ==
  ASSUME TypeOK, NEW d \in Dets
  PROVE  Applied(d) \in [ph: BOOLEAN, det: Dets, drift: BOOLEAN]
BY DEF TypeOK, Applied, Created, Removed, Outcome, Dets, Titles

LEMMA MaterializedType ==
  ASSUME TypeOK, NEW d \in Dets
  PROVE  Materialized(d) \in [ph: BOOLEAN, det: Dets, drift: BOOLEAN]
<1>1. Determination(FALSE) \in Dets
  BY DeterminationType
<1>2. Created \in [ph: BOOLEAN, det: Dets, drift: BOOLEAN]
  BY DEF TypeOK, Created, Outcome, Dets, Titles
<1> QED
  BY <1>1, <1>2, AppliedType DEF Materialized, Outcome

LEMMA RecordType ==
  ASSUME TypeOK, NEW o \in [ph: BOOLEAN, det: Dets, drift: BOOLEAN], Record(o)
  PROVE  ph' \in BOOLEAN /\ det' \in Dets /\ title' \in Titles
BY DEF TypeOK, Record, Titles

LEMMA MergedType ==
  ASSUME NEW now \in Flags, NEW was \in Flags, NEW new \in Flags
  PROVE  Merged(now, was, new) \in Flags
BY DEF Merged, Flags

LEMMA WithPolicyType ==
  ASSUME NEW p \in Flags, NEW policy \in Policies, NEW s \in {"manual", "tag"}
  PROVE  WithPolicy(p, policy, s) \in Flags
BY DEF WithPolicy, Flags

LEMMA DesiredType == ASSUME NEW tags PROVE Desired(tags) \in Policies
BY DEF Desired, Policies

-----------------------------------------------------------------------------
LEMMA InitTInv == Init => TInv
<1> SUFFICES ASSUME Init PROVE TInv
  OBVIOUS
<1>1. cfg \in Settings /\ arr \in Rows /\ row \in Rows
  BY DEF Init, Rows
<1>2. title \in Titles
  <2>1. cfg.any \in BOOLEAN
    BY <1>1, DeterminerAssumption DEF SettingRows
  <2>2. PICK date \in Dates, sib \in {FALSE, cfg.any} :
          title = [date |-> date, sib |-> sib, acq |-> FALSE, drift |-> FALSE]
    BY DEF Init
  <2> QED
    BY <2>1, <2>2 DEF Titles
<1>3. pol \in Flags /\ own \in Policies /\ det \in Dets
  BY DEF Init, Flags, Policies, Dets
<1>4. mem \in [Threads -> Memories]
  BY DEF Init, Memories
<1>5. TypeOK
  <2>1. /\ pc \in [Threads -> {"idle"}]
        /\ left \in [Threads -> 0 .. 2]
    BY DEF Init
  <2>2. changes \in 0 .. MaxChanges /\ faults \in 0 .. MaxFaults
    BY DeterminerAssumption DEF Init
  <2>3. ph \in BOOLEAN /\ job \in BOOLEAN /\ calm \in BOOLEAN
    BY DEF Init
  <2>4. lone \in Runners \cup {NoOne}
    BY DEF Init
  <2>5. pc \in [Threads -> {"idle", "upsert", "tags", "apply", "chip", "fast",
                            "determine", "write", "materialize"}]
    BY <2>1
  <2> QED
    BY <1>1, <1>2, <1>3, <1>4, <2>1, <2>2, <2>3, <2>4, <2>5 DEF TypeOK
<1>6. MemoryOK /\ LeftOK
  BY DEF Init, MemoryOK, LeftOK
<1> QED
  BY <1>5, <1>6 DEF TInv

\* A step of t leaves what the others remember and their passes as they are.
LEMMA OthersKeep ==
  ASSUME TInv, NEW t \in Threads, NEW point, NEW m, Goto(t, point, m)
  PROVE  \A u \in Threads \ {t} : pc'[u] = pc[u] /\ mem'[u] = mem[u]
BY DEF TInv, TypeOK, Goto

LEMMA QuietlyType ==
  ASSUME TypeOK, NEW t, Quietly(t) \/ Disturb
  PROVE  lone' \in Runners \cup {NoOne} /\ calm' \in BOOLEAN
BY DEF TypeOK, Quietly, Disturb

LEMMA NextTInv == TInv /\ [Next]_vars => TInv'
<1> SUFFICES ASSUME TInv, [Next]_vars PROVE TInv'
  OBVIOUS
<1> USE DEF TInv
<1>1. ASSUME NEW t \in Runners, Fetch(t) PROVE TInv'
  <2>1. t \in Threads /\ t # Desk
    BY DeterminerAssumption DEF Threads, Runners
  <2>2. [snap |-> arr] \in [snap: Rows]
    BY DEF TypeOK
  <2>3. lone' \in Runners \cup {NoOne} /\ calm' \in BOOLEAN
    BY <1>1 DEF TypeOK, Fetch, Disturb
  <2>4. TypeOK'
    BY <1>1, <2>1, <2>2, <2>3 DEF TypeOK, Fetch, Goto, decision, Memories
  <2>5. MemoryOK'
    BY <1>1, <2>1, <2>2 DEF TypeOK, Fetch, Goto, MemoryOK
  <2>6. LeftOK'
    BY <1>1, <2>1 DEF TypeOK, Fetch, Goto, LeftOK
  <2> QED
    BY <2>4, <2>5, <2>6
<1>2. ASSUME NEW t \in Runners, Upsert(t) PROVE TInv'
  <2>1. t \in Threads
    BY DEF Threads
  <2>2. mem[t].snap \in Rows
    BY <1>2, <2>1 DEF Upsert, MemoryOK
  <2>3. TypeOK'
    BY <1>2, <2>1, <2>2, QuietlyType
    DEF TypeOK, Upsert, Goto, decision, Memories
  <2>4. MemoryOK' /\ LeftOK'
    BY <1>2, <2>1 DEF TypeOK, Upsert, Goto, MemoryOK, LeftOK
  <2> QED
    BY <2>3, <2>4
<1>3. ASSUME NEW t \in Threads, ReadTags(t) PROVE TInv'
  <2>1. PICK listed \in BOOLEAN :
          LET want == IF listed THEN Desired(row.tags) ELSE "auto" IN
          /\ ~listed => faults < MaxFaults
          /\ faults' = IF listed THEN faults ELSE faults + 1
          /\ IF row.file # "gone" /\ NeedsTagApply(pol, want)
             THEN Goto(t, "apply", [flags |-> pol, want |-> want])
             ELSE Goto(t, AfterTags(t), Nothing)
          /\ IF listed THEN Quietly(t) ELSE Disturb
    BY <1>3 DEF ReadTags
  <2> DEFINE want == IF listed THEN Desired(row.tags) ELSE "auto"
             m == [flags |-> pol, want |-> want]
  <2>2. m \in [flags: Flags, want: Policies]
    BY DesiredType DEF TypeOK, Policies
  <2>3. \/ Goto(t, "apply", m)
        \/ Goto(t, AfterTags(t), Nothing)
    BY <2>1
  <2>4. faults' \in 0 .. MaxFaults
    BY <2>1, DeterminerAssumption DEF TypeOK
  <2>5. lone' \in Runners \cup {NoOne} /\ calm' \in BOOLEAN
    BY <2>1, QuietlyType
  <2>6. AfterTags(t) \in {"determine", "idle"}
    BY DEF AfterTags
  <2>7. TypeOK'
    <3>1. pc' \in [Threads -> {"idle", "upsert", "tags", "apply", "chip",
                   "fast", "determine", "write", "materialize"}]
      BY <2>3, <2>6 DEF TypeOK, Goto
    <3>2. mem' \in [Threads -> Memories]
      BY <2>2, <2>3 DEF TypeOK, Goto, Memories
    <3> QED
      BY <1>3, <2>4, <2>5, <3>1, <3>2 DEF TypeOK, ReadTags, decision
  <2>8. MemoryOK'
    BY <1>3, <2>2, <2>3, <2>6 DEF TypeOK, ReadTags, Goto, MemoryOK
  <2>9. LeftOK'
    BY <1>3, <2>3, <2>6 DEF TypeOK, ReadTags, Goto, LeftOK, AfterTags
  <2> QED
    BY <2>7, <2>8, <2>9
<1>4. ASSUME NEW t \in Threads, WriteTags(t) PROVE TInv'
  <2>1. mem[t] \in [flags: Flags, want: Policies] /\ left[t] \in 0 .. 1
    BY <1>4 DEF WriteTags, MemoryOK, LeftOK
  <2>2. pol' \in Flags
    <3>1. WithPolicy(mem[t].flags, mem[t].want, "tag") \in Flags
      BY <2>1, WithPolicyType
    <3> QED
      BY <1>4, <2>1, <3>1, MergedType DEF TypeOK, WriteTags
  <2>3. left' \in [Threads -> 0 .. 2]
    BY <1>4, <2>1 DEF TypeOK, WriteTags
  <2>4. TypeOK'
    BY <1>4, <2>2, <2>3, QuietlyType DEF TypeOK, WriteTags, Goto, Memories
  <2>5. MemoryOK'
    BY <1>4 DEF TypeOK, WriteTags, Goto, MemoryOK
  <2>6. LeftOK'
    BY <1>4, <2>1 DEF TypeOK, WriteTags, Goto, LeftOK
  <2> QED
    BY <2>4, <2>5, <2>6
<1>5. ASSUME NEW t \in Threads, ApplyPolicyFast(t) PROVE TInv'
  <2>1. ph' \in BOOLEAN /\ det' \in Dets /\ title' \in Titles
    <3>1. PolicyTarget(Effective) \in Dets
      BY EffectiveType, TargetType
    <3>2. Applied(PolicyTarget(Effective))
            \in [ph: BOOLEAN, det: Dets, drift: BOOLEAN]
      BY <3>1, AppliedType
    <3> QED
      BY <1>5, <3>2, RecordType DEF TypeOK, ApplyPolicyFast
  <2>2. AfterTags(t) \in {"determine", "idle"}
    BY DEF AfterTags
  <2>3. TypeOK'
    BY <1>5, <2>1, <2>2, QuietlyType
    DEF TypeOK, ApplyPolicyFast, Goto, Memories
  <2>4. MemoryOK'
    BY <1>5, <2>2 DEF TypeOK, ApplyPolicyFast, Goto, MemoryOK
  <2>5. LeftOK'
    BY <1>5, <2>2 DEF TypeOK, ApplyPolicyFast, Goto, LeftOK, AfterTags
  <2> QED
    BY <2>3, <2>4, <2>5
<1>6. ASSUME NEW t \in Threads, Determine(t) PROVE TInv'
  <2>1. [det |-> det, value |-> Determination(ph)] \in [det: Dets, value: Dets]
    BY DeterminationType DEF TypeOK
  <2>2. TypeOK'
    BY <1>6, <2>1, QuietlyType
    DEF TypeOK, Determine, Goto, decision, Memories
  <2>3. MemoryOK' /\ LeftOK'
    BY <1>6, <2>1 DEF TypeOK, Determine, Goto, MemoryOK, LeftOK
  <2> QED
    BY <2>2, <2>3
<1>7. ASSUME NEW t \in Threads, WriteDetermination(t) PROVE TInv'
  <2>1. mem[t] \in [det: Dets, value: Dets]
    BY <1>7 DEF WriteDetermination, MemoryOK
  <2>2. TypeOK'
    BY <1>7, <2>1, QuietlyType
    DEF TypeOK, WriteDetermination, Goto, Memories
  <2>3. MemoryOK' /\ LeftOK'
    BY <1>7 DEF TypeOK, WriteDetermination, Goto, MemoryOK, LeftOK
  <2> QED
    BY <2>2, <2>3
<1>8. ASSUME NEW t \in Threads, Materialize(t) PROVE TInv'
  <2>1. left[t] \in 1 .. 2
    BY <1>8 DEF Materialize, LeftOK
  <2>2. ph' \in BOOLEAN /\ det' \in Dets /\ title' \in Titles
    <3>1. Materialized(det) \in [ph: BOOLEAN, det: Dets, drift: BOOLEAN]
      BY MaterializedType DEF TypeOK
    <3> QED
      BY <1>8, <3>1, RecordType DEF Materialize
  <2>3. lone' \in Runners \cup {NoOne} /\ calm' \in BOOLEAN
    BY <1>8, <2>1 DEF TypeOK, Materialize, Disturb
  <2>4. left' \in [Threads -> 0 .. 2]
    BY <1>8, <2>1 DEF TypeOK, Materialize
  <2>5. TypeOK'
    BY <1>8, <2>2, <2>3, <2>4 DEF TypeOK, Materialize, Goto, Memories
  <2>6. MemoryOK'
    BY <1>8 DEF TypeOK, Materialize, Goto, MemoryOK
  <2>7. LeftOK'
    BY <1>8, <2>1 DEF TypeOK, Materialize, Goto, LeftOK
  <2> QED
    BY <2>5, <2>6, <2>7
<1>9. ASSUME NEW policy \in Policies, Chip(policy) \/ EpisodeChip(policy)
      PROVE TInv'
  <2>1. Desk \in Threads
    BY DEF Threads
  <2>2. PICK m \in [chip: Policies, flags: Flags] \cup [chip: Policies] :
          Goto(Desk, "chip", m)
    BY <1>9 DEF TypeOK, Chip, EpisodeChip
  <2>3. changes' \in 0 .. MaxChanges
    BY <1>9, DeterminerAssumption DEF TypeOK, Chip, EpisodeChip, Change
  <2>4. TypeOK'
    BY <1>9, <2>1, <2>2, <2>3, QuietlyType
    DEF TypeOK, Chip, EpisodeChip, Goto, decision, Memories
  <2>5. MemoryOK'
    BY <2>1, <2>2 DEF TypeOK, Goto, MemoryOK
  <2>6. LeftOK'
    BY <1>9, <2>1, <2>2 DEF TypeOK, Chip, EpisodeChip, Goto, LeftOK
  <2> QED
    BY <2>4, <2>5, <2>6
<1>10. ASSUME CommitChip PROVE TInv'
  <2> DEFINE m == mem[Desk]
  <2>1. Desk \in Threads
    BY DEF Threads
  <2>2. m \in [chip: Policies, flags: Flags] \cup [chip: Policies]
    BY <1>10, <2>1 DEF CommitChip, MemoryOK
  <2>3. pol' \in Flags /\ own' \in Policies
    <3>1. CASE "flags" \in DOMAIN m
      <4>1. m \in [chip: Policies, flags: Flags]
        BY <2>2, <3>1
      <4>2. WithPolicy(m.flags, m.chip, "manual") \in Flags
        BY <4>1, WithPolicyType
      <4> QED
        BY <1>10, <3>1, <4>1, <4>2, MergedType DEF TypeOK, CommitChip
    <3>2. CASE "flags" \notin DOMAIN m
      BY <1>10, <2>2, <3>2 DEF TypeOK, CommitChip
    <3> QED
      BY <3>1, <3>2
  <2>4. job' \in BOOLEAN
    BY <1>10 DEF TypeOK, CommitChip
  <2>5. TypeOK'
    BY <1>10, <2>1, <2>3, <2>4, QuietlyType
    DEF TypeOK, CommitChip, Goto, Memories
  <2>6. MemoryOK' /\ LeftOK'
    BY <1>10, <2>1 DEF TypeOK, CommitChip, Goto, MemoryOK, LeftOK
  <2> QED
    BY <2>5, <2>6
<1>11. ASSUME ClearTags PROVE TInv'
  <2>1. Desk \in Threads
    BY DEF Threads
  <2>2. arr' \in Rows /\ row' \in Rows
    BY <1>11 DEF TypeOK, ClearTags, Rows
  <2>3. changes' \in 0 .. MaxChanges
    BY <1>11, DeterminerAssumption DEF TypeOK, ClearTags, Change
  <2>4. TypeOK'
    BY <1>11, <2>1, <2>2, <2>3, QuietlyType
    DEF TypeOK, ClearTags, Goto, decision, Memories
  <2>5. MemoryOK' /\ LeftOK'
    BY <1>11, <2>1 DEF TypeOK, ClearTags, Goto, MemoryOK, LeftOK
  <2> QED
    BY <2>4, <2>5
<1>12. ASSUME ArrChange PROVE TInv'
  <2>1. arr' \in Rows
    BY <1>12 DEF TypeOK, ArrChange, Rows
  <2>2. changes' \in 0 .. MaxChanges
    BY <1>12, DeterminerAssumption DEF TypeOK, ArrChange, Change
  <2> QED
    BY <1>12, <2>1, <2>2, QuietlyType
    DEF TypeOK, ArrChange, decision, thread, MemoryOK, LeftOK
<1>13. ASSUME TitleChange PROVE TInv'
  <2>1. title' \in Titles
    BY <1>13 DEF TypeOK, TitleChange, Titles, Dates, NextDates
  <2>2. changes' \in 0 .. MaxChanges
    BY <1>13, DeterminerAssumption DEF TypeOK, TitleChange, Change
  <2> QED
    BY <1>13, <2>1, <2>2, QuietlyType
    DEF TypeOK, TitleChange, decision, thread, MemoryOK, LeftOK
<1>14. ASSUME UNCHANGED vars PROVE TInv'
  BY <1>14 DEF vars, decision, thread, TypeOK, MemoryOK, LeftOK
<1> QED
  BY <1>1, <1>2, <1>3, <1>4, <1>5, <1>6, <1>7, <1>8, <1>9, <1>10, <1>11,
     <1>12, <1>13, <1>14
  DEF Next, RunnerStep, ThreadStep

\* Every variable keeps its type (Determiner, TypeOK).
THEOREM Typed == Spec => []TypeOK
<1>1. Spec => []TInv
  BY InitTInv, NextTInv, PTL DEF Spec
<1> QED
  BY <1>1, PTL DEF TInv

\* What the fast path does for a policy is what the rules want: no later
\* pass undoes it (apply_movie_placeholder_policy_fast, run_determination).
LEMMA FastStep ==
  ASSUME TypeOK, NEW t \in Threads, ApplyPolicyFast(t), Missing,
         Effective # "auto"
  PROVE  ph' = Wanted
<1>1. Effective \in Policies
  BY EffectiveType
<1>2. CASE Effective = "never"
  BY <1>2 DEF TypeOK, ApplyPolicyFast, Record, Applied, Created, Removed,
              Outcome, PolicyTarget, Suppressed, Wanted
<1>3. CASE Effective = "pinned"
  BY <1>3 DEF TypeOK, ApplyPolicyFast, Record, Applied, Created, Removed,
              Outcome, PolicyTarget, Suppressed, Ordinary, Wanted
<1> QED
  BY <1>1, <1>2, <1>3 DEF Policies

LEMMA FastStepOnly ==
  ASSUME TInv, [Next]_vars, NEW t \in Threads, pc[t] = "fast", pc'[t] # "fast"
  PROVE  ApplyPolicyFast(t)
<1> USE DEF TInv
<1>1. ~UNCHANGED vars
  BY DEF vars, thread
<1>2. ASSUME NEW u \in Runners, RunnerStep(u) PROVE FALSE
  <2>1. u \in Threads /\ u # t
    BY <1>2 DEF Threads, RunnerStep, Fetch, Upsert
  <2>2. pc'[t] = pc[t]
    BY <1>2, <2>1 DEF TypeOK, RunnerStep, Fetch, Upsert, Goto
  <2> QED
    BY <2>2
<1>3. ASSUME NEW u \in Threads, ThreadStep(u), u # t PROVE FALSE
  <2>1. \E point, m : Goto(u, point, m)
    BY <1>3 DEF ThreadStep, ReadTags, WriteTags, ApplyPolicyFast, Determine,
                WriteDetermination, Materialize
  <2>2. pc'[t] = pc[t]
    BY <1>3, <2>1 DEF TypeOK, Goto
  <2> QED
    BY <2>2
<1>4. ASSUME NEW policy \in Policies, Chip(policy) \/ EpisodeChip(policy)
      PROVE FALSE
  <2>1. Desk # t
    BY <1>4 DEF Chip, EpisodeChip
  <2> QED
    BY <1>4, <2>1 DEF TypeOK, Chip, EpisodeChip, Goto
<1>5. ASSUME CommitChip \/ ClearTags PROVE FALSE
  <2>1. Desk # t
    BY <1>5 DEF CommitChip, ClearTags
  <2> QED
    BY <1>5, <2>1 DEF TypeOK, CommitChip, ClearTags, Goto
<1>6. ASSUME ArrChange \/ TitleChange PROVE FALSE
  BY <1>6 DEF ArrChange, TitleChange, thread
<1>7. ThreadStep(t)
  BY <1>1, <1>2, <1>3, <1>4, <1>5, <1>6 DEF Next
<1> QED
  BY <1>7 DEF ThreadStep, ReadTags, WriteTags, Determine, WriteDetermination,
              Materialize

\* In every instance, what a chip or a tag does at once to a title that has
\* no file is what the rules want (PolicyTarget and Determination agree).
THEOREM FastAgrees == Spec => FastAgreesWithPass
<1>1. ASSUME TInv, [Next]_vars
      PROVE  [\A t \in Threads :
                pc[t] = "fast" /\ pc'[t] # "fast" /\ Missing
                /\ Effective # "auto" => ph' = Wanted]_vars
  BY <1>1, FastStep, FastStepOnly DEF TInv
<1>2. Spec => []TInv
  BY InitTInv, NextTInv, PTL DEF Spec
<1> QED
  BY <1>1, <1>2, PTL DEF Spec, FastAgreesWithPass

-----------------------------------------------------------------------------
(***************************************************************************)
(* Undisturbed rounds.  Whoever runs alone works on the row of Radarr, on  *)
(* policies the tags agree with, and on a determination of the present     *)
(* state; a round that ends so leaves a state the rules keep.              *)
(***************************************************************************)
Governed == row.file # "gone" => ~NeedsTagApply(pol, Desired(row.tags))

Stage(t) ==
  /\ pc[t] = "upsert" => mem[t].snap = arr
  /\ pc[t] \notin {"idle", "upsert"} => row = arr
  /\ pc[t] = "apply" =>
       /\ row.file # "gone" /\ mem[t].flags = pol
       /\ mem[t].want = Desired(row.tags)
       /\ NeedsTagApply(pol, mem[t].want)
  /\ pc[t] \in {"fast", "determine", "write", "materialize"} => Governed
  /\ pc[t] = "write" => mem[t].det = det /\ mem[t].value = Determination(ph)
  /\ pc[t] = "materialize" => det = Determination(ph)

LoneOK ==
  \A t \in Runners :
    lone = t => Stage(t) /\ \A u \in Threads \ {t} : pc[u] = "idle"

Kept == det = Determination(ph) /\ det \in {"exists", "not_needed"}

CalmOK ==
  calm => /\ lone \in Runners /\ pc[lone] \notin {"apply", "fast"}
          /\ row = arr /\ Governed /\ Kept

DriftOK == title.drift => ph

QInv == TInv /\ DriftOK /\ LoneOK /\ CalmOK

LEMMA CalmDecides ==
  ASSUME TInv, CalmOK PROVE QuietRoundDecides /\ TagsGovern
<1> SUFFICES ASSUME calm PROVE QuietRoundDecides /\ TagsGovern
  BY DEF QuietRoundDecides, TagsGovern
<1>1. row = arr /\ Governed /\ Kept
  BY DEF CalmOK
<1>2. TagsGovern
  <2>1. ASSUME row.file # "gone", row.tags # {}
        PROVE  PolicyOf(pol) = Desired(row.tags)
    <3>1. Desired(row.tags) # "auto"
      BY <2>1 DEF TInv, TypeOK, Rows, Desired
    <3> QED
      BY <1>1, <2>1, <3>1 DEF Governed, NeedsTagApply
  <2>2. ASSUME row.file # "gone", row.tags = {}
        PROVE  pol.src # "tag" \/ PolicyOf(pol) = "auto"
    <3>1. Desired(row.tags) = "auto"
      BY <2>2 DEF Desired
    <3> QED
      BY <1>1, <2>2, <3>1 DEF Governed, NeedsTagApply
  <2> QED
    BY <2>1, <2>2 DEF TagsGovern
<1>3. QuietRoundDecides
  <2>1. Effective \in {"auto", "pinned", "never"}
    BY EffectiveType DEF TInv, Policies
  <2>2. ph \in BOOLEAN /\ title.acq \in BOOLEAN /\ title.sib \in BOOLEAN
    BY DEF TInv, TypeOK, Titles
  <2>3. CASE HiddenSpecial
    BY <1>1, <2>3 DEF QuietRoundDecides, KeepsWhatIs
  <2>4. CASE ~HiddenSpecial /\ ~Missing
    BY <1>1, <2>1, <2>2, <2>4
    DEF QuietRoundDecides, KeepsWhatIs, Wanted, Kept, Determination,
        BaseDetermination, MonitoredSuppression, SiblingSuppression,
        SiblingSuppresses, BlockPlaceholder, ForcePlaceholder, Suppressed,
        Ordinary
  <2>5. CASE ~HiddenSpecial /\ Missing
    BY <1>1, <2>1, <2>2, <2>5
    DEF QuietRoundDecides, KeepsWhatIs, Wanted, Kept, Determination,
        BaseDetermination, MonitoredSuppression, SiblingSuppression,
        BlockPlaceholder, ForcePlaceholder, Suppressed, Ordinary,
        OutsideHorizon
  <2> QED
    BY <2>3, <2>4, <2>5
<1> QED
  BY <1>2, <1>3

\* Carrying out a fresh determination leaves a state that the rules keep.
LEMMA MaterializedKept ==
  ASSUME TInv, DriftOK, det = Determination(ph), Record(Materialized(det)),
         UNCHANGED <<cfg, row, pol, own>>
  PROVE  Kept' /\ DriftOK'
<1> DEFINE o == Materialized(det)
<1>1. /\ ph' = o.ph /\ det' = o.det /\ title'.drift = o.drift
      /\ title'.sib = title.sib /\ title'.acq = title.acq
      /\ title'.date = title.date
  BY DEF TInv, TypeOK, Titles, Record
<1>2. /\ Missing' = Missing /\ Effective' = Effective
      /\ HiddenSpecial' = HiddenSpecial /\ Monitored' = Monitored
      /\ SiblingSuppresses' = SiblingSuppresses
      /\ OutsideHorizon' = OutsideHorizon
  BY <1>1 DEF Missing, Effective, HiddenSpecial, Monitored,
              SiblingSuppresses, OutsideHorizon
<1>3. ph \in BOOLEAN /\ det \in Dets
  BY DEF TInv, TypeOK
<1>4. CASE det \in {"exists", "not_needed"}
  <2>1. o = [ph |-> ph, det |-> det, drift |-> title.drift]
    BY <1>4 DEF Materialized, Applied, Outcome
  <2>2. title' = title
    BY <2>1 DEF TInv, TypeOK, Titles, Record
  <2>3. Determination(ph)' = Determination(ph)
    BY <1>1, <2>1, <2>2 DEF Determination, HiddenSpecial, Missing, Effective,
       BaseDetermination, OutsideHorizon, MonitoredSuppression, Monitored,
       SiblingSuppression, SiblingSuppresses, BlockPlaceholder,
       ForcePlaceholder
  <2> QED
    BY <1>1, <1>4, <2>1, <2>2, <2>3 DEF Kept, DriftOK
<1>5. CASE det = "needs"
  <2>1. ~ph /\ Missing /\ ~HiddenSpecial /\ ~title.drift
    BY <1>3, <1>5
    DEF DriftOK, Determination, BaseDetermination, MonitoredSuppression,
        SiblingSuppression, BlockPlaceholder, ForcePlaceholder, Suppressed,
        Ordinary
  <2>2. ph' = TRUE /\ det' = "exists" /\ title'.drift = title.drift
    BY <1>1, <1>5, <2>1 DEF Materialized, Applied, Created, Outcome
  <2>3. Determination(ph)' = "exists"
    BY <1>1, <1>2, <1>5, <2>1, <2>2
    DEF Determination, BaseDetermination, MonitoredSuppression,
        SiblingSuppression, BlockPlaceholder, ForcePlaceholder, Suppressed,
        Ordinary
  <2> QED
    BY <2>2, <2>3 DEF Kept, DriftOK
<1>6. CASE det = "obsolete"
  <2> DEFINE again == Determination(FALSE)
  <2>1. again \in {"needs", "not_needed"}
    BY DEF Determination, BaseDetermination, MonitoredSuppression,
           SiblingSuppression, BlockPlaceholder, ForcePlaceholder,
           Suppressed, Ordinary
  <2>2. CASE again = "needs"
    <3>1. Missing /\ ~HiddenSpecial
      BY <2>2 DEF Determination, BaseDetermination, MonitoredSuppression,
           SiblingSuppression, BlockPlaceholder, ForcePlaceholder,
           Suppressed, Ordinary
    <3>2. ph' = TRUE /\ det' = "exists" /\ title'.drift = FALSE
      BY <1>1, <1>6, <2>2, <3>1 DEF Materialized, Created, Outcome
    <3>3. Determination(ph)' = "exists"
      BY <1>1, <1>2, <2>2, <3>1, <3>2
      DEF Determination, BaseDetermination, MonitoredSuppression,
          SiblingSuppression, BlockPlaceholder, ForcePlaceholder, Suppressed,
          Ordinary
    <3> QED
      BY <3>2, <3>3 DEF Kept, DriftOK
  <2>3. CASE again = "not_needed"
    <3>1. ph' = FALSE /\ det' = "not_needed" /\ title'.drift = FALSE
      BY <1>1, <1>6, <2>3 DEF Materialized, Outcome
    <3>2. Determination(ph)' = "not_needed"
      BY <1>1, <1>2, <2>3, <3>1
      DEF Determination, BaseDetermination, MonitoredSuppression,
          SiblingSuppression, BlockPlaceholder, ForcePlaceholder, Suppressed,
          Ordinary
    <3> QED
      BY <3>1, <3>2 DEF Kept, DriftOK
  <2> QED
    BY <2>1, <2>2, <2>3
<1> QED
  BY <1>3, <1>4, <1>5, <1>6 DEF Dets

LEMMA InitQInv == Init => QInv
<1> SUFFICES ASSUME Init PROVE QInv
  OBVIOUS
<1>2. LoneOK
  BY DEF Init, LoneOK, Stage, Threads
<1>3. DriftOK /\ CalmOK
  BY DEF Init, DriftOK, CalmOK
<1> QED
  BY <1>2, <1>3, InitTInv DEF QInv

\* Who disturbs leaves nobody alone.
LEMMA Disturbed == ASSUME Disturb PROVE LoneOK' /\ CalmOK'
BY DeterminerAssumption DEF Disturb, LoneOK, CalmOK

\* Governed speaks of the row and of the policies only.
LEMMA GovernedKept ==
  ASSUME Governed, UNCHANGED <<row, pol>> PROVE Governed'
BY DEF Governed, NeedsTagApply, PolicyOf, Desired

LEMMA DeterminationKept ==
  ASSUME UNCHANGED <<cfg, row, title, pol, own, ph>>
  PROVE  Determination(ph)' = Determination(ph)
BY DEF Determination, HiddenSpecial, Missing, Effective, PolicyOf,
       BaseDetermination, OutsideHorizon, MonitoredSuppression, Monitored,
       SiblingSuppression, SiblingSuppresses, BlockPlaceholder,
       ForcePlaceholder, Suppressed, Ordinary

\* A quiet step of the lone runner: the others stay idle.
LEMMA LoneStep ==
  ASSUME QInv, NEW t \in Threads, lone = t,
         NEW point, NEW m, Goto(t, point, m), lone' = t
  PROVE  /\ t \in Runners
         /\ Stage(t)
         /\ pc'[t] = point /\ mem'[t] = m
         /\ Stage(t)' => LoneOK'
<1> USE DEF QInv, TInv
<1>1. t \in Runners
  BY DeterminerAssumption DEF TypeOK, Threads
<1>2. Stage(t) /\ \A u \in Threads \ {t} : pc[u] = "idle"
  BY <1>1 DEF LoneOK
<1>3. /\ pc'[t] = point /\ mem'[t] = m
      /\ \A u \in Threads \ {t} : pc'[u] = pc[u]
  BY DEF TypeOK, Goto
<1>4. Stage(t)' => LoneOK'
  <2> SUFFICES ASSUME Stage(t)', NEW u \in Runners, lone' = u
               PROVE  Stage(u)' /\ \A v \in Threads \ {u} : pc'[v] = "idle"
    BY DEF LoneOK
  <2>1. u = t
    OBVIOUS
  <2>2. Stage(u)'
    BY <2>1 DEF Stage
  <2> QED
    BY <1>2, <1>3, <2>1, <2>2
<1> QED
  BY <1>1, <1>2, <1>3, <1>4

\* Same, for a step during a calm: what makes it calm must be kept too.
LEMMA QuietStep ==
  ASSUME QInv, NEW t \in Threads, Quietly(t), NEW point, NEW m,
         Goto(t, point, m),
         lone = t => Stage(t)',
         lone = t /\ calm => /\ point \notin {"apply", "fast"} /\ row' = arr'
                            /\ Governed' /\ Kept'
  PROVE  LoneOK' /\ CalmOK'
<1>1. CASE lone = t
  <2>1. lone' = t /\ calm' = calm
    BY <1>1 DEF Quietly
  <2>2. LoneOK' /\ pc'[t] = point /\ t \in Runners
    BY <1>1, <2>1, LoneStep
  <2> QED
    BY <1>1, <2>1, <2>2 DEF CalmOK
<1>2. CASE lone # t
  BY <1>2, Disturbed DEF Quietly
<1> QED
  BY <1>1, <1>2

LEMMA NextQInv == QInv /\ [Next]_vars => QInv'
<1> SUFFICES ASSUME QInv, [Next]_vars PROVE QInv'
  OBVIOUS
<1> USE DEF QInv
<1>t. TInv'
  BY NextTInv
<1>1. ASSUME NEW t \in Runners, Fetch(t) PROVE QInv'
  <2>1. t \in Threads
    BY DEF Threads
  <2>2. DriftOK'
    BY <1>1 DEF Fetch, decision, DriftOK
  <2>3. CASE \A u \in Threads : pc[u] = "idle"
    <3>1. /\ lone' = t /\ calm' = calm /\ pc'[t] = "upsert"
          /\ mem'[t].snap = arr /\ UNCHANGED <<arr, row, cfg, title, decision>>
          /\ \A u \in Threads \ {t} : pc'[u] = "idle"
      BY <1>1, <2>1, <2>3 DEF TInv, TypeOK, Fetch, Goto
    <3>2. Stage(t)'
      BY <3>1 DEF Stage
    <3>3. ASSUME NEW u \in Runners, lone' = u
          PROVE  Stage(u)' /\ \A v \in Threads \ {u} : pc'[v] = "idle"
      <4>1. u = t
        BY <3>1, <3>3
      <4>2. Stage(u)'
        BY <3>2, <4>1 DEF Stage
      <4> QED
        BY <3>1, <4>1, <4>2
    <3>4. LoneOK'
      BY <3>3 DEF LoneOK
    <3>5. CalmOK'
      <4>1. Governed => Governed'
        BY <3>1, GovernedKept DEF decision
      <4>2. Kept => Kept'
        BY <3>1, DeterminationKept DEF decision, Kept
      <4> QED
        BY <3>1, <4>1, <4>2 DEF CalmOK
    <3> QED
      BY <1>t, <2>2, <3>4, <3>5
  <2>4. CASE ~ \A u \in Threads : pc[u] = "idle"
    BY <1>1, <1>t, <2>2, <2>4, Disturbed DEF Fetch
  <2> QED
    BY <2>3, <2>4
<1>2. ASSUME NEW t \in Runners, Upsert(t) PROVE QInv'
  <2>1. t \in Threads
    BY DEF Threads
  <2>2. DriftOK'
    BY <1>2 DEF Upsert, decision, DriftOK
  <2>3. Goto(t, "tags", Nothing) /\ Quietly(t)
    BY <1>2 DEF Upsert
  <2>4. pc'[t] = "tags"
    BY <2>1, <2>3 DEF TInv, TypeOK, Goto
  <2>5. lone = t => row' = arr /\ arr' = arr
    BY <1>2 DEF LoneOK, Stage, Upsert
  <2>6. lone = t => Stage(t)'
    BY <2>4, <2>5 DEF Stage
  <2>7. lone = t /\ calm => row' = arr' /\ Governed' /\ Kept'
    <3> SUFFICES ASSUME lone = t, calm PROVE row' = arr' /\ Governed' /\ Kept'
      OBVIOUS
    <3>1. row' = row /\ row = arr /\ Governed /\ Kept
      BY <2>5 DEF CalmOK
    <3>2. UNCHANGED <<cfg, row, title, pol, own, ph, det>>
      BY <1>2, <3>1 DEF Upsert, decision
    <3> QED
      BY <2>5, <3>1, <3>2, GovernedKept, DeterminationKept DEF Kept
  <2> QED
    BY <1>t, <2>1, <2>2, <2>3, <2>6, <2>7, QuietStep
<1>3. ASSUME NEW t \in Threads, ReadTags(t) PROVE QInv'
  <2>1. PICK listed \in BOOLEAN :
          LET want == IF listed THEN Desired(row.tags) ELSE "auto" IN
          /\ ~listed => faults < MaxFaults
          /\ faults' = IF listed THEN faults ELSE faults + 1
          /\ IF row.file # "gone" /\ NeedsTagApply(pol, want)
             THEN Goto(t, "apply", [flags |-> pol, want |-> want])
             ELSE Goto(t, AfterTags(t), Nothing)
          /\ IF listed THEN Quietly(t) ELSE Disturb
    BY <1>3 DEF ReadTags
  <2>2. UNCHANGED <<cfg, arr, row, title, pol, own, ph, det>>
    BY <1>3 DEF ReadTags, decision
  <2>3. DriftOK'
    BY <2>2 DEF DriftOK
  <2>4. CASE ~listed
    BY <1>t, <2>1, <2>3, <2>4, Disturbed
  <2>5. CASE listed
    <3> DEFINE want == Desired(row.tags)
               apply == row.file # "gone" /\ NeedsTagApply(pol, want)
    <3>1. Quietly(t)
      BY <2>1, <2>5
    <3>2. lone = t => t \in Runners /\ row = arr
      BY <1>3, DeterminerAssumption
      DEF ReadTags, TInv, TypeOK, LoneOK, Stage, Threads
    <3>3. lone = t /\ calm => Governed /\ Kept
      BY DEF CalmOK
    <3>4. lone = t /\ calm => row' = arr' /\ Governed' /\ Kept'
      BY <2>2, <3>2, <3>3, GovernedKept, DeterminationKept DEF Kept
    <3>5. CASE apply
      <4>1. Goto(t, "apply", [flags |-> pol, want |-> want])
        BY <2>1, <2>5, <3>5
      <4>2. pc'[t] = "apply" /\ mem'[t] = [flags |-> pol, want |-> want]
        BY <4>1 DEF TInv, TypeOK, Goto
      <4>3. NeedsTagApply(pol, mem[t].want)' /\ Desired(row.tags)' = want
        BY <2>2, <3>5, <4>2 DEF NeedsTagApply, PolicyOf, Desired
      <4>4. lone = t => Stage(t)'
        BY <2>2, <3>2, <3>5, <4>2, <4>3 DEF Stage
      <4>5. ~(lone = t /\ calm)
        BY <3>3, <3>5 DEF Governed
      <4> QED
        BY <1>t, <2>3, <3>1, <4>1, <4>4, <4>5, QuietStep
    <3>6. CASE ~apply
      <4>1. Goto(t, AfterTags(t), Nothing)
        BY <2>1, <2>5, <3>6
      <4>2. pc'[t] = AfterTags(t) /\ AfterTags(t) \in {"determine", "idle"}
        BY <4>1 DEF TInv, TypeOK, Goto, AfterTags
      <4>3. Governed'
        BY <2>2, <3>6, GovernedKept DEF Governed
      <4>4. lone = t => Stage(t)'
        BY <2>2, <3>2, <4>2, <4>3 DEF Stage
      <4> QED
        BY <1>t, <2>3, <3>1, <3>4, <4>1, <4>2, <4>4, QuietStep
    <3> QED
      BY <3>5, <3>6
  <2> QED
    BY <2>4, <2>5
<1>4. ASSUME NEW t \in Threads, WriteTags(t) PROVE QInv'
  <2> DEFINE was == mem[t].flags
             want == mem[t].want
             point == IF want = "auto" THEN "determine" ELSE "fast"
  <2>1. Goto(t, point, Nothing) /\ Quietly(t)
    BY <1>4 DEF WriteTags
  <2>2. pc'[t] = point
    BY <2>1 DEF TInv, TypeOK, Goto
  <2>3. UNCHANGED <<cfg, arr, row, title, own, ph, det>>
    BY <1>4 DEF WriteTags
  <2>4. lone = t => t \in Runners /\ Stage(t)
    BY <1>4, DeterminerAssumption DEF TInv, TypeOK, LoneOK, Threads
  <2>5. lone = t => Stage(t)'
    <3> SUFFICES ASSUME lone = t PROVE Stage(t)'
      OBVIOUS
    <3>1. /\ row = arr /\ was = pol /\ want = Desired(row.tags)
          /\ want \in Policies /\ pol \in Flags
      BY <1>4, <2>4, DesiredType DEF Stage, WriteTags, TInv, TypeOK
    <3>2. pol' = WithPolicy(pol, want, "tag")
      <4>1. pol' = Merged(pol, pol, WithPolicy(pol, want, "tag"))
        BY <1>4, <3>1 DEF WriteTags
      <4>2. WithPolicy(pol, want, "tag") \in Flags
        BY <3>1, WithPolicyType
      <4> QED
        BY <3>1, <4>1, <4>2 DEF Merged, Flags
    <3>3. Desired(row.tags)' = want
      BY <2>3, <3>1 DEF Desired
    <3>4. ~NeedsTagApply(pol', want)
      BY <3>1, <3>2 DEF NeedsTagApply, WithPolicy, PolicyOf, Policies
    <3>5. Governed'
      BY <3>3, <3>4 DEF Governed, NeedsTagApply, PolicyOf
    <3> QED
      BY <2>2, <2>3, <3>1, <3>5 DEF Stage
  <2>6. ~(lone = t /\ calm)
    BY <1>4 DEF CalmOK, WriteTags
  <2>7. DriftOK'
    BY <2>3 DEF DriftOK
  <2> QED
    BY <1>t, <2>1, <2>5, <2>6, <2>7, QuietStep
<1>5. ASSUME NEW t \in Threads, ApplyPolicyFast(t) PROVE QInv'
  <2>1. Goto(t, AfterTags(t), Nothing) /\ Quietly(t)
    BY <1>5 DEF ApplyPolicyFast
  <2>2. pc'[t] \in {"determine", "idle"}
    BY <2>1 DEF TInv, TypeOK, Goto, AfterTags
  <2>3. UNCHANGED <<cfg, arr, row, pol, own>>
    BY <1>5 DEF ApplyPolicyFast
  <2>4. lone = t => row = arr /\ Governed
    BY <1>5, DeterminerAssumption
    DEF ApplyPolicyFast, TInv, TypeOK, LoneOK, Stage, Threads
  <2>5. lone = t => Stage(t)'
    BY <2>2, <2>3, <2>4, GovernedKept DEF Stage
  <2>6. ~(lone = t /\ calm)
    BY <1>5 DEF CalmOK, ApplyPolicyFast
  <2>7. DriftOK'
    BY <1>5 DEF ApplyPolicyFast, Record, Applied, Created, Removed, Outcome,
                DriftOK, TInv, TypeOK, Titles
  <2> QED
    BY <1>t, <2>1, <2>5, <2>6, <2>7, QuietStep
<1>6. ASSUME NEW t \in Threads, Determine(t) PROVE QInv'
  <2> DEFINE m == [det |-> det, value |-> Determination(ph)]
  <2>1. Goto(t, "write", m) /\ Quietly(t)
    BY <1>6 DEF Determine
  <2>2. pc'[t] = "write" /\ mem'[t] = m
    BY <2>1 DEF TInv, TypeOK, Goto
  <2>3. UNCHANGED <<cfg, arr, row, title, pol, own, ph, det>>
    BY <1>6 DEF Determine, decision
  <2>4. lone = t => row = arr /\ Governed
    BY <1>6, DeterminerAssumption
    DEF Determine, TInv, TypeOK, LoneOK, Stage, Threads
  <2>5. Determination(ph)' = Determination(ph)
    BY <2>3, DeterminationKept
  <2>6. lone = t => Stage(t)'
    BY <2>2, <2>3, <2>4, <2>5, GovernedKept DEF Stage
  <2>7. lone = t /\ calm => Kept'
    BY <2>3, <2>5 DEF CalmOK, Kept
  <2>8. DriftOK'
    BY <2>3 DEF DriftOK
  <2> QED
    BY <1>t, <2>1, <2>3, <2>4, <2>6, <2>7, <2>8, GovernedKept, QuietStep
<1>7. ASSUME NEW t \in Threads, WriteDetermination(t) PROVE QInv'
  <2>1. Goto(t, "materialize", Nothing) /\ Quietly(t)
    BY <1>7 DEF WriteDetermination
  <2>2. pc'[t] = "materialize"
    BY <2>1 DEF TInv, TypeOK, Goto
  <2>3. UNCHANGED <<cfg, arr, row, title, pol, own, ph>>
    BY <1>7 DEF WriteDetermination
  <2>4. lone = t => /\ row = arr /\ Governed /\ mem[t].det = det
                    /\ mem[t].value = Determination(ph)
    BY <1>7, DeterminerAssumption
    DEF WriteDetermination, TInv, TypeOK, LoneOK, Stage, Threads
  <2>5. Determination(ph)' = Determination(ph)
    BY <2>3, DeterminationKept
  <2>6. lone = t => det' = Determination(ph)
    BY <1>7, <2>4 DEF WriteDetermination
  <2>7. lone = t => Stage(t)'
    BY <2>2, <2>3, <2>4, <2>5, <2>6, GovernedKept DEF Stage
  <2>8. lone = t /\ calm => Kept'
    BY <2>5, <2>6 DEF CalmOK, Kept
  <2>9. DriftOK'
    BY <2>3 DEF DriftOK
  <2> QED
    BY <1>t, <2>1, <2>3, <2>4, <2>7, <2>8, <2>9, GovernedKept, QuietStep
<1>8. ASSUME NEW t \in Threads, Materialize(t) PROVE QInv'
  <2> DEFINE point == IF left[t] > 1 THEN "determine" ELSE "idle"
  <2>1. Goto(t, point, Nothing) /\ Record(Materialized(det))
    BY <1>8 DEF Materialize
  <2>2. pc'[t] = point
    BY <2>1 DEF TInv, TypeOK, Goto
  <2>3. UNCHANGED <<cfg, arr, row, pol, own>>
    BY <1>8 DEF Materialize
  <2>4. DriftOK'
    BY <2>1 DEF Record, Materialized, Applied, Created, Removed, Outcome,
                DriftOK, TInv, TypeOK, Titles
  <2>5. CASE lone = t
    <3>1. t \in Runners /\ row = arr /\ Governed /\ det = Determination(ph)
      BY <1>8, <2>5, DeterminerAssumption
      DEF Materialize, TInv, TypeOK, LoneOK, Stage, Threads
    <3>2. Kept'
      BY <2>1, <2>3, <3>1, MaterializedKept
    <3>3. Governed'
      BY <2>3, <3>1, GovernedKept
    <3>4. Stage(t)'
      BY <2>2, <2>3, <3>1, <3>3 DEF Stage
    <3>5. lone' = t
      BY <1>8, <2>5 DEF Materialize
    <3>6. LoneOK'
      BY <2>1, <2>5, <3>4, <3>5, LoneStep
    <3>7. CalmOK'
      BY <2>2, <2>3, <3>1, <3>2, <3>3, <3>5 DEF CalmOK
    <3> QED
      BY <1>t, <2>4, <3>6, <3>7
  <2>6. CASE lone # t
    BY <1>8, <1>t, <2>4, <2>6, Disturbed DEF Materialize
  <2> QED
    BY <2>5, <2>6
<1>9. ASSUME NEW policy \in Policies, Chip(policy) \/ EpisodeChip(policy)
      PROVE QInv'
  BY <1>9, <1>t, Disturbed DEF Chip, EpisodeChip, decision, DriftOK
<1>10. ASSUME CommitChip \/ ClearTags \/ ArrChange PROVE QInv'
  BY <1>10, <1>t, Disturbed DEF CommitChip, ClearTags, ArrChange, decision,
                                DriftOK
<1>11. ASSUME TitleChange PROVE QInv'
  <2>1. DriftOK'
    BY <1>11 DEF TitleChange, decision, DriftOK, TInv, TypeOK, Titles
  <2> QED
    BY <1>11, <1>t, <2>1, Disturbed DEF TitleChange
<1>12. ASSUME UNCHANGED vars PROVE QInv'
  <2>1. UNCHANGED <<cfg, arr, row, title, pol, own, ph, det, pc, mem, lone,
                    calm>>
    BY <1>12 DEF vars, decision, thread
  <2>2. Determination(ph)' = Determination(ph)
    BY <2>1, DeterminationKept
  <2>3. Governed' <=> Governed
    BY <2>1 DEF Governed, NeedsTagApply, PolicyOf, Desired
  <2>4. LoneOK'
    BY <2>1, <2>2, <2>3 DEF LoneOK, Stage, NeedsTagApply, PolicyOf, Desired
  <2>5. CalmOK' /\ DriftOK'
    BY <2>1, <2>2, <2>3 DEF CalmOK, Kept, DriftOK
  <2> QED
    BY <1>t, <2>4, <2>5
<1> QED
  BY <1>1, <1>2, <1>3, <1>4, <1>5, <1>6, <1>7, <1>8, <1>9, <1>10, <1>11,
     <1>12
  DEF Next, RunnerStep, ThreadStep

-----------------------------------------------------------------------------
LEMMA Inductive == Spec => []QInv
BY InitQInv, NextQInv, PTL DEF Spec

\* An undisturbed sync or reconcile, from whatever state, ends with the row
\* of Radarr and with a placeholder exactly if the precedence of the rules
\* wants one (run_determination, materialize_movies).
THEOREM RoundDecides == Spec => []QuietRoundDecides
<1>1. QInv => QuietRoundDecides
  BY CalmDecides DEF QInv
<1> QED
  BY <1>1, Inductive, PTL

\* It ends with the policy that the tags ask for, and with no policy of a tag
\* that is gone (apply_arr_tag_placeholder_policies).
THEOREM TagsDecide == Spec => []TagsGovern
<1>1. QInv => TagsGovern
  BY CalmDecides DEF QInv
<1> QED
  BY <1>1, Inductive, PTL

\* During a calm only the lone runner steps, and it finds nothing to change.
LEMMA CalmKeeps ==
  ASSUME QInv, [Next]_vars, calm, calm' PROVE UNCHANGED <<ph, det, pol>>
<1> USE DEF QInv
<1>1. /\ det = Determination(ph) /\ det \in {"exists", "not_needed"}
      /\ lone \in Runners /\ pc[lone] \notin {"apply", "fast"}
  BY DEF CalmOK, Kept
<1>2. ASSUME NEW t \in Runners, RunnerStep(t)
      PROVE  UNCHANGED <<ph, det, pol>>
  BY <1>2 DEF RunnerStep, Fetch, Upsert, decision
<1>3. ASSUME NEW t \in Threads, ReadTags(t) \/ Determine(t)
      PROVE  UNCHANGED <<ph, det, pol>>
  BY <1>3 DEF ReadTags, Determine, decision
<1>4. ASSUME NEW t \in Threads, WriteTags(t) \/ ApplyPolicyFast(t) PROVE FALSE
  BY <1>1, <1>4 DEF WriteTags, ApplyPolicyFast, Quietly, Disturb
<1>5. ASSUME NEW t \in Threads, WriteDetermination(t)
      PROVE  UNCHANGED <<ph, det, pol>>
  <2>1. lone = t
    BY <1>5 DEF WriteDetermination, Quietly, Disturb
  <2>2. mem[t].value = det
    BY <1>1, <1>5, <2>1 DEF LoneOK, Stage, WriteDetermination
  <2> QED
    BY <1>5, <2>2 DEF WriteDetermination
<1>6. ASSUME NEW t \in Threads, Materialize(t)
      PROVE  UNCHANGED <<ph, det, pol>>
  BY <1>1, <1>6 DEF Materialize, Record, Materialized, Applied, Outcome
<1>7. ASSUME NEW policy \in Policies, Chip(policy) \/ EpisodeChip(policy)
      PROVE  FALSE
  BY <1>7 DEF Chip, EpisodeChip, Disturb
<1>8. ASSUME CommitChip \/ ClearTags \/ ArrChange \/ TitleChange PROVE FALSE
  BY <1>8 DEF CommitChip, ClearTags, ArrChange, TitleChange, Disturb
<1>9. ASSUME UNCHANGED vars PROVE UNCHANGED <<ph, det, pol>>
  BY <1>9 DEF vars, decision
<1> QED
  BY <1>2, <1>3, <1>4, <1>5, <1>6, <1>7, <1>8, <1>9 DEF Next, ThreadStep

\* After such a round no later one changes the title: nothing flips between
\* needs and obsolete from one pass to the next (_compute_determination and
\* the re-determination of obsolete titles agree).
THEOREM Settled == Spec => NoFlipFlop
<1>1. QInv /\ [Next]_vars => [calm /\ calm' => UNCHANGED <<ph, det, pol>>]_vars
  BY CalmKeeps
<1> QED
  BY <1>1, Inductive, PTL DEF Spec, NoFlipFlop

-----------------------------------------------------------------------------
\* The first of a set of steps is one of them.
LEMMA FirstStepIn ==
  ASSUME NEW S \in SUBSET (1 .. 8), S # {} PROVE FirstOf(S) \in S
<1>1. \E i \in S : \A j \in S : i <= j
  <2>1. CASE 1 \in S
    BY <2>1
  <2>2. CASE 1 \notin S /\ 2 \in S
    BY <2>2
  <2>3. CASE 1 \notin S /\ 2 \notin S /\ 3 \in S
    BY <2>3
  <2>4. CASE 1 \notin S /\ 2 \notin S /\ 3 \notin S /\ 4 \in S
    BY <2>4
  <2>5. CASE 1 \notin S /\ 2 \notin S /\ 3 \notin S /\ 4 \notin S
    <3>1. \A j \in S : j \in 5 .. 8
      BY <2>5
    <3>2. CASE 5 \in S
      BY <3>1, <3>2
    <3>3. CASE 5 \notin S /\ 6 \in S
      BY <3>1, <3>3
    <3>4. CASE 5 \notin S /\ 6 \notin S /\ 7 \in S
      BY <3>1, <3>4
    <3>5. CASE 5 \notin S /\ 6 \notin S /\ 7 \notin S
      <4>1. \A j \in S : j = 8
        BY <3>1, <3>5
      <4>2. 8 \in S
        BY <4>1
      <4> QED
        BY <4>1, <4>2
    <3> QED
      BY <3>2, <3>3, <3>4, <3>5
  <2> QED
    BY <2>1, <2>2, <2>3, <2>4, <2>5
<1> QED
  BY <1>1 DEF FirstOf

\* Without a drift that the pass handles, the explanation's outcomes are
\* those of the pass, rule by rule.
LEMMA ExplainedOutcome ==
  ASSUME TypeOK, NEW has \in BOOLEAN,
         ~(has /\ title.drift /\ Missing) \/ HiddenSpecial
  PROVE  Explained(has).final = Determination(has)
<1>1. CASE HiddenSpecial
  BY <1>1 DEF Explained, Determination
<1>2. CASE ~HiddenSpecial
  <2>1. FileStep(has).outcome = BaseDetermination(has)
    BY DEF FileStep, CalendarStep, Step, BaseDetermination, OutsideHorizon,
           Suppressed, Ordinary, Missing
  <2>2. DriftStep(has).status # "fail"
    BY <1>2 DEF DriftStep, Step
  <2>3. Outcomes(has).final = Determination(has)
    BY <1>2, <2>1, <2>2 DEF Outcomes, Determination
  <2> QED
    BY <1>2, <2>3 DEF Explained
<1> QED
  BY <1>1, <1>2

\* The eight steps of an explanation.
LEMMA EightSteps ==
  ASSUME NEW has \in BOOLEAN, ~HiddenSpecial
  PROVE  LET o == Outcomes(has)
             s == Explained(has).steps
         IN  /\ Len(s) = 8 /\ DOMAIN s = 1 .. 8
             /\ Explained(has).final = o.final
             /\ s[1] = SpecialsStep /\ s[2] = InferenceStep
             /\ s[3] = CalendarStep(has) /\ s[4] = FileStep(has)
             /\ s[5] = DriftStep(has)
             /\ s[6] = ModifierStep("monitored", o.base, o.mon,
                         cfg.skip = "no" \/ ~Missing \/ ~Monitored)
             /\ s[7] = ModifierStep("sibling", o.mon, o.sib, ~SiblingSuppresses)
             /\ s[8] = PolicyStep(o.sib, o.final)
<1> DEFINE o == Outcomes(has)
           m == ModifierStep("monitored", o.base, o.mon,
                         cfg.skip = "no" \/ ~Missing \/ ~Monitored)
           b == ModifierStep("sibling", o.mon, o.sib, ~SiblingSuppresses)
           p == PolicyStep(o.sib, o.final)
           e == [final |-> o.final, steps |-> Opening(has) \o <<m, b, p>>]
<1>1. Explained(has) = e
  BY DEF Explained
<1>2. ASSUME NEW s1, NEW s2, NEW s3, NEW s4, NEW s5, NEW s6, NEW s7, NEW s8,
             NEW s, s = <<s1, s2, s3, s4, s5>> \o <<s6, s7, s8>>
      PROVE  /\ Len(s) = 8 /\ DOMAIN s = 1 .. 8
             /\ s[1] = s1 /\ s[2] = s2 /\ s[3] = s3 /\ s[4] = s4
             /\ s[5] = s5 /\ s[6] = s6 /\ s[7] = s7 /\ s[8] = s8
  BY <1>2
<1>3. Opening(has) = <<SpecialsStep, InferenceStep, CalendarStep(has),
                       FileStep(has), DriftStep(has)>>
  BY DEF Opening
<1> HIDE DEF o, m, b, p
<1>4. /\ e.final = o.final
      /\ e.steps = <<SpecialsStep, InferenceStep, CalendarStep(has),
                     FileStep(has), DriftStep(has)>> \o <<m, b, p>>
  BY <1>3
<1> QED
  BY <1>1, <1>2, <1>4 DEF o, m, b, p

\* If some step of an explanation failed the title, a step that failed it or
\* was applied carries the outcome of the explanation.
LEMMA FailedIsDecided ==
  ASSUME TypeOK, NEW has \in BOOLEAN, ~HiddenSpecial,
         NEW i \in 1 .. 8, Explained(has).steps[i].status = "fail"
  PROVE  \E j \in 1 .. 8 :
           /\ Explained(has).steps[j].outcome = Explained(has).final
           /\ Explained(has).steps[j].status \in {"fail", "applied"}
<1> DEFINE o == Outcomes(has)
           s == Explained(has).steps
<1>1. /\ Explained(has).final = o.final
      /\ s[1] = SpecialsStep /\ s[2] = InferenceStep
      /\ s[3] = CalendarStep(has) /\ s[4] = FileStep(has)
      /\ s[5] = DriftStep(has)
      /\ s[6] = ModifierStep("monitored", o.base, o.mon,
                  cfg.skip = "no" \/ ~Missing \/ ~Monitored)
      /\ s[7] = ModifierStep("sibling", o.mon, o.sib, ~SiblingSuppresses)
      /\ s[8] = PolicyStep(o.sib, o.final)
  BY EightSteps
<1>2. o.base = IF DriftStep(has).status = "fail" THEN "obsolete"
               ELSE FileStep(has).outcome
  BY DEF Outcomes
<1>3. o.final = ForcePlaceholder(BlockPlaceholder(o.sib, has), has)
  BY DEF Outcomes
<1> HIDE DEF o, s
<1>4. s[i].status = "fail"
  BY DEF s
<1> SUFFICES \E j \in 1 .. 8 : /\ s[j].outcome = o.final
                              /\ s[j].status \in {"fail", "applied"}
  BY <1>1 DEF s
<1>5. CASE o.sib # o.final
  <2>1. /\ Effective # "auto" /\ Missing
        /\ ~(Effective = "pinned" /\ SiblingSuppresses)
    BY <1>3, <1>5, EffectiveType DEF BlockPlaceholder, ForcePlaceholder
  <2>2. PolicyStep(o.sib, o.final) = Step("policy", "applied", o.final)
    BY <1>5, <2>1 DEF PolicyStep
  <2> QED
    BY <1>1, <2>2 DEF Step
<1>6. CASE o.sib = o.final /\ o.mon # o.sib
  BY <1>1, <1>6 DEF ModifierStep, Step
<1>7. CASE o.sib = o.final /\ o.mon = o.sib /\ o.base # o.mon
  BY <1>1, <1>7 DEF ModifierStep, Step
<1>8. CASE o.base = o.final /\ o.mon = o.final /\ o.sib = o.final
  <2>1. i \in {3, 4, 5}
    <3>1. SpecialsStep.status # "fail" /\ InferenceStep.status # "fail"
      BY DEF SpecialsStep, InferenceStep, Step
    <3>2. s[6].status # "fail" /\ s[7].status # "fail"
      BY <1>1 DEF ModifierStep, Step
    <3>3. s[8].status # "fail"
      <4>1. CASE Effective = "auto"
        BY <1>1, <4>1 DEF PolicyStep, Step
      <4>2. CASE Effective # "auto" /\ ~Missing
        BY <1>1, <4>2 DEF PolicyStep, Step
      <4>3. CASE Effective = "pinned" /\ Missing /\ SiblingSuppresses
        BY <1>1, <4>3 DEF PolicyStep, Step
      <4>4. CASE Effective # "auto" /\ Missing /\ ~(Effective = "pinned" /\ SiblingSuppresses)
        BY <1>1, <4>4 DEF PolicyStep, Step
      <4> QED
        BY <4>1, <4>2, <4>3, <4>4
    <3> QED
      BY <1>1, <1>4, <3>1, <3>2, <3>3
  <2>2. CASE DriftStep(has).status = "fail"
    BY <1>1, <1>2, <1>8, <2>2 DEF DriftStep, Step
  <2>3. CASE DriftStep(has).status # "fail"
    <3>1. FileStep(has).outcome = o.final
      BY <1>2, <1>8, <2>3
    <3>2. CASE s[4].status = "fail"
      BY <1>1, <3>1, <3>2
    <3>3. CASE s[3].status = "fail"
      <4>1. FileStep(has).outcome = CalendarStep(has).outcome
        BY <1>1, <3>3 DEF FileStep, CalendarStep, Step, Suppressed
      <4> QED
        BY <1>1, <3>1, <3>3, <4>1
    <3> QED
      BY <1>1, <1>4, <2>1, <2>3, <3>2, <3>3
  <2> QED
    BY <2>2, <2>3
<1> QED
  BY <1>5, <1>6, <1>7, <1>8

\* Where the policy is named, it carries the outcome.
LEMMA PolicyNamed ==
  ASSUME TypeOK, NEW has \in BOOLEAN, ~HiddenSpecial,
         \/ /\ Effective = "pinned" \/ pol.block \/ Effective = "never"
            /\ ~Missing
         \/ /\ IF cfg.kind = "movie" THEN pol.block ELSE Effective = "never"
            /\ Outcomes(has).final \in {"not_needed", "obsolete"}
  PROVE  PolicyStep(Outcomes(has).sib, Outcomes(has).final).outcome
           = Outcomes(has).final
<1> DEFINE o == Outcomes(has)
<1>1. o.final = ForcePlaceholder(BlockPlaceholder(o.sib, has), has)
  BY DEF Outcomes
<1> HIDE DEF o
<1>2. CASE ~Missing
  <2>1. o.final = o.sib
    BY <1>1, <1>2 DEF BlockPlaceholder, ForcePlaceholder
  <2>2. Effective # "auto"
    BY DEF Effective, PolicyOf, TypeOK
  <2>3. PolicyStep(o.sib, o.final).outcome = o.sib
    BY <1>2, <2>2 DEF PolicyStep, Step
  <2> QED
    BY <2>1, <2>3 DEF o
<1>3. CASE Missing
  <2>1. Effective \in {"never", "pinned"}
    BY <1>3, EffectiveType DEF Effective, PolicyOf, TypeOK, Policies
  <2>2. CASE Effective = "pinned" /\ SiblingSuppresses
    <3>1. o.final = o.sib
      BY <1>1, <2>2 DEF BlockPlaceholder, ForcePlaceholder
    <3>2. PolicyStep(o.sib, o.final).outcome = o.sib
      BY <1>3, <2>2 DEF PolicyStep, Step
    <3> QED
      BY <3>1, <3>2 DEF o
  <2>3. CASE ~(Effective = "pinned" /\ SiblingSuppresses)
    BY <1>3, <2>1, <2>3 DEF PolicyStep, Step, o
  <2> QED
    BY <2>2, <2>3
<1> QED
  BY <1>2, <1>3

LEMMA Explains == ASSUME TypeOK PROVE ExplanationAgrees
<1> DEFINE e == Explained(ph)
           named == e.steps[ExplainedStep(ph)]
<1>1. \/ ph /\ title.drift /\ Missing /\ ~HiddenSpecial
      \/ e.final = Determination(ph)
  BY ExplainedOutcome DEF TypeOK
<1>2. CASE HiddenSpecial
  <2>1. e = [final |-> "not_needed", steps |-> <<SpecialsStep>>]
    BY <1>2 DEF Explained
  <2>2. SpecialsStep = [key |-> "specials", status |-> "fail", outcome |-> "not_needed"]
    BY <1>2 DEF SpecialsStep, Step
  <2> HIDE DEF e
  <2>3. /\ e.final = "not_needed" /\ e.steps = <<SpecialsStep>>
        /\ DOMAIN e.steps = {1} /\ e.steps[1] = SpecialsStep
    BY <2>1
  <2>4. ExplainedStep(ph) = DecidingStep(e.steps, e.final)
    BY <1>2 DEF ExplainedStep, e
  <2>5. {i \in DOMAIN e.steps : /\ e.steps[i].outcome = e.final
                                /\ e.steps[i].status \in {"fail", "applied"}} = {1}
    BY <2>2, <2>3
  <2>6. DecidingStep(e.steps, e.final) = FirstOf({1})
    BY <2>5 DEF DecidingStep
  <2>7. FirstOf({1}) = 1
    BY FirstStepIn
  <2>8. named.outcome = e.final
    BY <2>2, <2>3, <2>4, <2>6, <2>7
  <2> QED
    BY <1>1, <2>8 DEF ExplanationAgrees, e
<1>3. CASE ~HiddenSpecial
  <2> DEFINE blocked == IF cfg.kind = "movie" THEN pol.block ELSE Effective = "never"
             named1 == \/ (Effective = "pinned" \/ blocked) /\ ~Missing
                            /\ e.final = "not_needed"
                       \/ blocked /\ e.final \in {"not_needed", "obsolete"}
  <2>1. /\ Len(e.steps) = 8 /\ DOMAIN e.steps = 1 .. 8
        /\ e.final = Outcomes(ph).final
        /\ e.steps[8] = PolicyStep(Outcomes(ph).sib, Outcomes(ph).final)
    BY <1>3, EightSteps DEF TypeOK
  <2>2. CASE named1
    <3>1. ExplainedStep(ph) = 8
      BY <1>3, <2>1, <2>2 DEF ExplainedStep
    <3>2. named.outcome = e.final
      BY <1>3, <2>1, <2>2, <3>1, PolicyNamed DEF TypeOK
    <3> QED
      BY <1>1, <3>2 DEF ExplanationAgrees
  <2>3. CASE ~named1
    <3>1. ExplainedStep(ph) = DecidingStep(e.steps, e.final)
      BY <1>3, <2>3 DEF ExplainedStep
    <3>2. SUFFICES ASSUME NEW i \in DOMAIN e.steps, e.steps[i].status = "fail"
                   PROVE  named.outcome = e.final
      BY <1>1 DEF ExplanationAgrees
    <3> DEFINE D == {j \in DOMAIN e.steps : /\ e.steps[j].outcome = e.final
                                  /\ e.steps[j].status \in {"fail", "applied"}}
    <3>3. D # {}
      BY <1>3, <2>1, <3>2, FailedIsDecided DEF TypeOK
    <3>4. DecidingStep(e.steps, e.final) = FirstOf(D)
      BY <3>3 DEF DecidingStep
    <3>5. FirstOf(D) \in D
      BY <2>1, <3>3, FirstStepIn
    <3> QED
      BY <3>1, <3>4, <3>5
  <2> QED
    BY <2>2, <2>3
<1> QED
  BY <1>2, <1>3

\* The library page explains every title by the outcome that the next pass
\* will reach, but for a placeholder whose path is to change, and the step it
\* names carries that outcome (explain_movie_determination and
\* explain_episode_determination against _resolve_*_determination).
THEOREM Explanations == Spec => []ExplanationAgrees
BY Explains, Typed, PTL
=============================================================================
