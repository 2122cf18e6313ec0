----------------------------- MODULE Determiner -----------------------------
(***************************************************************************)
(* Whether one title should have a placeholder, and who decides: the       *)
(* determination pass, which reads the row, the settings, the calendar,    *)
(* the sibling instances and the Never/Pinned policies; materialization,   *)
(* which carries the decision out; the policy chips of the library page,   *)
(* which act at once; and the Never/Pinned tags of Radarr and Sonarr,      *)
(* which a sync applies to the policies.                                   *)
(*                                                                         *)
(* A runner is a scheduled sync or the worker's reconcile job.  Desk is    *)
(* the web request.  Every step below is one transaction, or the part of   *)
(* one before or after it waits for Radarr or commits.  Radarr stands for  *)
(* Sonarr too.                                                             *)
(***************************************************************************)
EXTENDS Naturals, FiniteSets, Sequences

CONSTANTS Settings,     \* the settings and kinds of title considered
          Sync, Worker, Desk,
          MaxChanges,   \* changes in Radarr, in the calendar, and of chips
          MaxFaults     \* tag lists that Radarr fails to deliver

Kinds == {"movie", "episode", "special"}
SettingRows == [kind: Kinds, look: {"off", "days", "all"},
                skip: {"no", "monitored", "series"},
                any: BOOLEAN, specials: BOOLEAN]

Runners == {Sync, Worker}
NoOne == "no one"

ASSUME DeterminerAssumption ==
  /\ Settings \subseteq SettingRows
  /\ Sync # Worker /\ Desk \notin Runners
  /\ NoOne \notin Runners \cup {Desk}
  /\ MaxChanges \in Nat /\ MaxFaults \in Nat

VARIABLES cfg,      \* the settings and the kind of the title
          arr,      \* what Radarr says of it
          row,      \* what the catalog row says of it
          title,    \* dates, the sibling, the download, the stored path
          pol, own, \* policy of the movie or series; of the episode
          ph, det,  \* has_placeholder and determination
          job,      \* a reconcile job is pending
          pc, mem, left,    \* the threads, what each has read, passes left
          lone, calm,       \* who runs undisturbed; did such a round end?
          changes, faults

decision == <<pol, own, ph, det>>
thread == <<pc, mem, left>>
vars == <<cfg, arr, row, title, decision, job, thread, lone, calm, changes,
          faults>>

Threads == Runners \cup {Desk}
Policies == {"auto", "pinned", "never"}
Dets == {"needs", "exists", "obsolete", "not_needed"}
Rows == [file: {"missing", "file", "gone"}, mon: BOOLEAN, smon: BOOLEAN,
         tags: SUBSET {"never", "pinned"}]
\* inferred: no date, but released, or a later episode's date is known.
Dates == {"unknown", "inferred", "past", "near", "far"}
Titles == [date: Dates, sib: BOOLEAN, acq: BOOLEAN, drift: BOOLEAN]
Flags == [force: BOOLEAN, block: BOOLEAN, src: {"none", "manual", "tag"}]
Nothing == [read |-> "nothing"]
Memories ==
  {Nothing} \cup [snap: Rows] \cup [flags: Flags, want: Policies]
  \cup [det: Dets, value: Dets]
  \cup [chip: Policies, flags: Flags] \cup [chip: Policies]

TypeOK ==
  /\ cfg \in Settings
  /\ arr \in Rows /\ row \in Rows /\ title \in Titles
  /\ pol \in Flags /\ own \in Policies
  /\ ph \in BOOLEAN /\ det \in Dets /\ job \in BOOLEAN
  /\ pc \in [Threads -> {"idle", "upsert", "tags", "apply", "chip", "fast",
                         "determine", "write", "materialize"}]
  /\ mem \in [Threads -> Memories]
  /\ left \in [Threads -> 0 .. 2]
  /\ lone \in Runners \cup {NoOne} /\ calm \in BOOLEAN
  /\ changes \in 0 .. MaxChanges /\ faults \in 0 .. MaxFaults

(***************************************************************************)
(* Policies                                                                *)
(***************************************************************************)
PolicyOf(p) ==
  IF p.force THEN "pinned" ELSE IF p.block THEN "never" ELSE "auto"

WithPolicy(p, policy, source) ==
  [force |-> policy = "pinned", block |-> policy = "never",
   src |-> IF policy = "auto" /\ source = "tag" THEN "none" ELSE source]

\* The series' policy is a gate: Never vetoes, Pinned honours an own Never.
Effective ==
  LET gate == PolicyOf(pol) IN
  IF cfg.kind = "movie" \/ gate = "never" THEN gate
  ELSE IF gate = "pinned" /\ own # "never" THEN gate
  ELSE own

Desired(tags) ==
  IF "never" \in tags THEN "never"
  ELSE IF "pinned" \in tags THEN "pinned"
  ELSE "auto"

NeedsTagApply(p, want) ==
  IF want # "auto" THEN ~(want = PolicyOf(p) /\ p.src = "tag")
  ELSE p.src # "manual" /\ PolicyOf(p) # "auto"

\* A session writes only the columns it has changed.
Merged(now, was, new) ==
  [c \in DOMAIN now |-> IF new[c] # was[c] THEN new[c] ELSE now[c]]

(***************************************************************************)
(* Determination, as the chain of rules of the code.  has: is there a      *)
(* placeholder?  base: the outcome of the rules before.                    *)
(***************************************************************************)
Missing == row.file = "missing"
Suppressed(has) == IF has THEN "obsolete" ELSE "not_needed"
Ordinary(has) == IF has THEN "exists" ELSE "needs"

\* A lookahead of 0 is read as 30, and then the guard is off anyway.
OutsideHorizon == cfg.look = "days" /\ title.date \in {"unknown", "far"}

BaseDetermination(has) ==
  IF ~Missing \/ OutsideHorizon THEN Suppressed(has) ELSE Ordinary(has)

Monitored ==
  row.mon \/ (cfg.skip = "series" /\ cfg.kind # "movie" /\ row.smon)

\* Mutant: only placeholders that exist are suppressed.
RemovesOnly(base, has) ==
  IF cfg.skip = "no" \/ ~Missing \/ ~Monitored THEN base
  ELSE IF has /\ title.acq THEN "exists"
  ELSE IF has THEN "obsolete" ELSE base

MonitoredSuppression(base, has) ==
  IF cfg.skip = "no" \/ ~Missing \/ ~Monitored THEN base
  ELSE IF has /\ title.acq THEN "exists"
  ELSE Suppressed(has)

SiblingSuppresses == cfg.any /\ Missing /\ title.sib
SiblingSuppression(base, has) ==
  IF SiblingSuppresses THEN Suppressed(has) ELSE base

BlockPlaceholder(base, has) ==
  IF Effective = "never" /\ Missing THEN Suppressed(has) ELSE base

ForcePlaceholder(base, has) ==
  IF Effective = "pinned" /\ Missing /\ ~SiblingSuppresses THEN Ordinary(has)
  ELSE base

HiddenSpecial ==
  cfg.kind = "special" /\ ~cfg.specials /\ Effective # "pinned"

Determination(has) ==
  IF HiddenSpecial THEN "not_needed"
  ELSE IF has /\ title.drift /\ Missing THEN "obsolete"
  ELSE LET base == BaseDetermination(has)
           mon  == MonitoredSuppression(base, has)
           sib  == SiblingSuppression(mon, has)
       IN  ForcePlaceholder(BlockPlaceholder(sib, has), has)

(***************************************************************************)
(* The explanation the library page shows of a determination: the same     *)
(* rules once more, as steps with a status and, where a step has one, the  *)
(* outcome, and the step that is named as the one that decided.            *)
(***************************************************************************)
Step(key, status, outcome) ==
  [key |-> key, status |-> status, outcome |-> outcome]

SpecialsStep ==
  Step("specials",
       IF HiddenSpecial THEN "fail"
       ELSE IF cfg.kind = "special" /\ ~cfg.specials THEN "applied" ELSE "skip",
       IF HiddenSpecial THEN "not_needed" ELSE "none")

InferenceStep ==
  Step("inference",
       IF cfg.kind # "movie" /\ title.date = "inferred" /\ cfg.look = "days"
       THEN "applied" ELSE "skip",
       "none")

CalendarStep(has) ==
  IF cfg.look = "off" \/ ~Missing THEN Step("calendar", "skip", "none")
  ELSE IF OutsideHorizon THEN Step("calendar", "fail", Suppressed(has))
  ELSE Step("calendar", "pass", "none")

FileStep(has) ==
  LET calendar == CalendarStep(has) IN
  IF calendar.outcome # "none" THEN Step("file", "skip", calendar.outcome)
  ELSE IF ~Missing THEN Step("file", "fail", Suppressed(has))
  ELSE Step("file", "pass", Ordinary(has))

DriftStep(has) ==
  IF has /\ title.drift /\ Missing THEN Step("drift", "fail", "obsolete")
  ELSE Step("drift", "skip", "none")

\* idle: the rule does not apply to this title.
ModifierStep(key, before, after, idle) ==
  IF before # after THEN Step(key, "applied", after)
  ELSE Step(key, IF idle THEN "skip" ELSE "pass", "none")

PolicyStep(before, after) ==
  CASE Effective = "auto" -> Step("policy", "skip", "none")
    [] Effective # "auto" /\ ~Missing -> Step("policy", "applied", before)
    [] Effective = "pinned" /\ Missing /\ SiblingSuppresses ->
         Step("policy", "skip", before)
    [] OTHER -> Step("policy", IF before # after THEN "applied" ELSE "pass", after)

\* The outcome after each of the rules.
Outcomes(has) ==
  LET base == IF DriftStep(has).status = "fail" THEN "obsolete"
              ELSE FileStep(has).outcome
      mon  == MonitoredSuppression(base, has)
      sib  == SiblingSuppression(mon, has)
  IN  [base |-> base, mon |-> mon, sib |-> sib,
       final |-> ForcePlaceholder(BlockPlaceholder(sib, has), has)]

Opening(has) ==
  <<SpecialsStep, InferenceStep, CalendarStep(has), FileStep(has), DriftStep(has)>>

\* Mutant: the policy's step is left out of the explanation's outcome.
ExplainedBeforePolicy(has) ==
  IF HiddenSpecial THEN [final |-> "not_needed", steps |-> <<SpecialsStep>>]
  ELSE [final |-> Outcomes(has).sib, steps |-> Opening(has)]

Explained(has) ==
  LET o == Outcomes(has) IN
  IF HiddenSpecial THEN [final |-> "not_needed", steps |-> <<SpecialsStep>>]
  ELSE [final |-> o.final,
        steps |-> Opening(has) \o
          <<ModifierStep("monitored", o.base, o.mon,
                         cfg.skip = "no" \/ ~Missing \/ ~Monitored),
            ModifierStep("sibling", o.mon, o.sib, ~SiblingSuppresses),
            PolicyStep(o.sib, o.final)>>]

FirstOf(S) == CHOOSE i \in S : \A j \in S : i <= j

\* The first step with the final outcome that failed or was applied, or else
\* the first that failed, or else the last.
DecidingStep(steps, final) ==
  LET decided == {i \in DOMAIN steps : /\ steps[i].outcome = final
                                       /\ steps[i].status \in {"fail", "applied"}}
      failed  == {i \in DOMAIN steps : steps[i].status = "fail"}
  IN  IF decided # {} THEN FirstOf(decided)
      ELSE IF failed # {} THEN FirstOf(failed)
      ELSE Len(steps)

\* The policy comes first where it would say the same.
ExplainedStep(has) ==
  LET e       == Explained(has)
      pinned  == Effective = "pinned"
      blocked == IF cfg.kind = "movie" THEN pol.block ELSE Effective = "never"
  IN  IF /\ ~HiddenSpecial
         /\ \/ (pinned \/ blocked) /\ ~Missing /\ e.final = "not_needed"
            \/ blocked /\ e.final \in {"not_needed", "obsolete"}
      THEN Len(e.steps)
      ELSE DecidingStep(e.steps, e.final)

(***************************************************************************)
(* Carrying a determination out                                            *)
(***************************************************************************)
Outcome(has, d, drift) == [ph |-> has, det |-> d, drift |-> drift]
Created ==
  Outcome(TRUE, IF Missing THEN "exists" ELSE "not_needed", title.drift)
Removed == Outcome(FALSE, "not_needed", FALSE)

Applied(d) ==
  IF d = "needs" THEN Created
  ELSE IF d = "obsolete" THEN Removed
  ELSE Outcome(ph, d, title.drift)

\* Mutant: a title that loses its placeholder is not looked at again.
MaterializedOnce(d) == Applied(d)

\* Obsolete titles go first, are determined again, and may come back.
Materialized(d) ==
  LET again == Determination(FALSE) IN
  IF d # "obsolete" THEN Applied(d)
  ELSE IF again = "needs" THEN [Created EXCEPT !.drift = FALSE]
  ELSE Outcome(FALSE, again, FALSE)

Record(o) ==
  /\ ph' = o.ph
  /\ det' = o.det
  /\ title' = [title EXCEPT !.drift = o.drift]

\* Mutant: the sibling is not asked.
PinnedTarget(policy) ==
  IF policy = "auto" THEN IF Missing /\ ph THEN "exists" ELSE "not_needed"
  ELSE IF ~Missing THEN "not_needed"
  ELSE IF policy = "never" THEN Suppressed(ph)
  ELSE Ordinary(ph)

\* What a chip or a tag asks for at once, without the calendar's rules.
PolicyTarget(policy) ==
  IF policy = "auto" THEN IF Missing /\ ph THEN "exists" ELSE "not_needed"
  ELSE IF ~Missing THEN "not_needed"
  ELSE IF policy = "never" \/ SiblingSuppresses THEN Suppressed(ph)
  ELSE Ordinary(ph)

(***************************************************************************)
(* The threads                                                             *)
(***************************************************************************)
Goto(t, point, m) ==
  /\ pc' = [pc EXCEPT ![t] = point]
  /\ mem' = [mem EXCEPT ![t] = m]

Disturb == lone' = NoOne /\ calm' = FALSE
Quietly(t) == IF lone = t THEN UNCHANGED <<lone, calm>> ELSE Disturb

\* A sync at its time, or the worker with the reconcile job, asks Radarr.
Fetch(t) ==
  /\ pc[t] = "idle"
  /\ t = Worker => job
  /\ job' = (job /\ t # Worker)
  /\ Goto(t, "upsert", [snap |-> arr])
  /\ left' = [left EXCEPT ![t] = 1]
  /\ IF \A u \in Threads : pc[u] = "idle" THEN lone' = t /\ calm' = calm
     ELSE Disturb
  /\ UNCHANGED <<cfg, arr, row, title, decision, changes, faults>>

Upsert(t) ==
  /\ pc[t] = "upsert"
  /\ row' = mem[t].snap
  /\ Goto(t, "tags", Nothing)
  /\ Quietly(t)
  /\ UNCHANGED <<cfg, arr, title, decision, job, left, changes, faults>>

AfterTags(t) == IF left[t] > 0 THEN "determine" ELSE "idle"

\* The tag list of Radarr names the tags; without it no tag matches.
ReadTags(t) ==
  /\ pc[t] = "tags"
  /\ \E listed \in BOOLEAN :
       LET want == IF listed THEN Desired(row.tags) ELSE "auto" IN
       /\ ~listed => faults < MaxFaults
       /\ faults' = IF listed THEN faults ELSE faults + 1
       /\ IF row.file # "gone" /\ NeedsTagApply(pol, want)
          THEN Goto(t, "apply", [flags |-> pol, want |-> want])
          ELSE Goto(t, AfterTags(t), Nothing)
       /\ IF listed THEN Quietly(t) ELSE Disturb
  /\ UNCHANGED <<cfg, arr, row, title, decision, job, left, changes>>

WriteTags(t) ==
  /\ pc[t] = "apply"
  /\ LET was == mem[t].flags
         want == mem[t].want
     IN  /\ pol' = Merged(pol, was, WithPolicy(was, want, "tag"))
         /\ IF want = "auto"
            THEN /\ left' = [left EXCEPT ![t] = @ + 1]
                 /\ Goto(t, "determine", Nothing)
            ELSE Goto(t, "fast", Nothing) /\ UNCHANGED left
  /\ Quietly(t)
  /\ UNCHANGED <<cfg, arr, row, title, own, ph, det, job, changes, faults>>

\* Never or Pinned, at once; an episode whose policy is Auto is left alone.
ApplyPolicyFast(t) ==
  /\ pc[t] = "fast"
  /\ IF cfg.kind # "movie" /\ Effective = "auto"
     THEN UNCHANGED <<ph, det, title>>
     ELSE Record(Applied(PolicyTarget(Effective)))
  /\ Goto(t, AfterTags(t), Nothing)
  /\ Quietly(t)
  /\ UNCHANGED <<cfg, arr, row, pol, own, job, left, changes, faults>>

Determine(t) ==
  /\ pc[t] = "determine"
  /\ Goto(t, "write", [det |-> det, value |-> Determination(ph)])
  /\ Quietly(t)
  /\ UNCHANGED <<cfg, arr, row, title, decision, job, left, changes, faults>>

WriteDetermination(t) ==
  /\ pc[t] = "write"
  /\ det' = IF mem[t].value # mem[t].det THEN mem[t].value ELSE det
  /\ Goto(t, "materialize", Nothing)
  /\ Quietly(t)
  /\ UNCHANGED <<cfg, arr, row, title, pol, own, ph, job, left, changes,
                 faults>>

Materialize(t) ==
  /\ pc[t] = "materialize"
  /\ Record(Materialized(det))
  /\ left' = [left EXCEPT ![t] = @ - 1]
  /\ Goto(t, IF left[t] > 1 THEN "determine" ELSE "idle", Nothing)
  /\ IF lone = t THEN lone' = t /\ calm' = (calm \/ left[t] = 1)
     ELSE Disturb
  /\ UNCHANGED <<cfg, arr, row, pol, own, job, changes, faults>>

(***************************************************************************)
(* The library page                                                        *)
(***************************************************************************)
Change == changes < MaxChanges /\ changes' = changes + 1

\* A chip of the movie or series.
Chip(policy) ==
  /\ pc[Desk] = "idle" /\ row.file # "gone"
  /\ Change
  /\ Goto(Desk, "chip", [chip |-> policy, flags |-> pol])
  /\ Disturb
  /\ UNCHANGED <<cfg, arr, row, title, decision, job, left, faults>>

\* A chip of the episode, which the series' policy locks.
EpisodeChip(policy) ==
  /\ pc[Desk] = "idle" /\ row.file # "gone"
  /\ cfg.kind # "movie" /\ PolicyOf(pol) = "auto"
  /\ Change
  /\ Goto(Desk, "chip", [chip |-> policy])
  /\ Disturb
  /\ UNCHANGED <<cfg, arr, row, title, decision, job, left, faults>>

\* Auto asks for a reconcile, or for one more if one is running.
CommitChip ==
  /\ pc[Desk] = "chip"
  /\ LET m == mem[Desk] IN
       /\ IF "flags" \in DOMAIN m
          THEN /\ pol' = Merged(pol, m.flags, WithPolicy(m.flags, m.chip, "manual"))
               /\ UNCHANGED own
          ELSE own' = m.chip /\ UNCHANGED pol
       /\ job' = (job \/ m.chip = "auto")
       /\ Goto(Desk, IF m.chip = "auto" THEN "idle" ELSE "fast", Nothing)
  /\ Disturb
  /\ UNCHANGED <<cfg, arr, row, title, ph, det, left, changes, faults>>

\* Radarr gets the stored list without the tags to clear, as a full list.
ClearTags ==
  /\ pc[Desk] = "idle" /\ row.file # "gone"
  /\ Change
  /\ \E cleared \in (SUBSET row.tags) \ {{}} :
       /\ arr' = [arr EXCEPT !.tags = row.tags \ cleared]
       /\ row' = [row EXCEPT !.tags = row.tags \ cleared]
  /\ Goto(Desk, "tags", Nothing)
  /\ Disturb
  /\ UNCHANGED <<cfg, title, decision, job, left, faults>>

(***************************************************************************)
(* The world                                                               *)
(***************************************************************************)
ArrChange ==
  /\ Change
  /\ \/ \E f \in {"missing", "file", "gone"} \ {arr.file} :
          arr' = [arr EXCEPT !.file = f]
     \/ arr' = [arr EXCEPT !.mon = ~@]
     \/ cfg.kind # "movie" /\ arr' = [arr EXCEPT !.smon = ~@]
     \/ \E tags \in (SUBSET {"never", "pinned"}) \ {arr.tags} :
          arr' = [arr EXCEPT !.tags = tags]
  /\ Disturb
  /\ UNCHANGED <<cfg, row, title, decision, job, thread, faults>>

NextDates(date) ==
  CASE date = "unknown" -> {"inferred", "near", "far"}
    [] date = "far" -> {"near"}
    [] date \in {"near", "inferred"} -> {"past"}
    [] date = "past" -> {}

\* Days pass, a sibling or a download changes, a rename moves the path.
TitleChange ==
  /\ Change
  /\ \/ \E date \in NextDates(title.date) :
          title' = [title EXCEPT !.date = date]
     \/ title' = [title EXCEPT !.sib = ~@]
     \/ title' = [title EXCEPT !.acq = ~@]
     \/ ph /\ ~title.drift /\ title' = [title EXCEPT !.drift = TRUE]
  /\ Disturb
  /\ UNCHANGED <<cfg, arr, row, decision, job, thread, faults>>

Init ==
  /\ cfg \in Settings
  /\ arr = [file |-> "missing", mon |-> FALSE, smon |-> FALSE, tags |-> {}]
  /\ row = arr
  /\ \E date \in Dates, sib \in {FALSE, cfg.any} :
       title = [date |-> date, sib |-> sib, acq |-> FALSE, drift |-> FALSE]
  /\ pol = [force |-> FALSE, block |-> FALSE, src |-> "none"]
  /\ own = "auto" /\ ph = FALSE /\ det = "not_needed" /\ job = FALSE
  /\ pc = [t \in Threads |-> "idle"]
  /\ mem = [t \in Threads |-> Nothing]
  /\ left = [t \in Threads |-> 0]
  /\ lone = NoOne /\ calm = FALSE /\ changes = 0 /\ faults = 0

RunnerStep(t) == Fetch(t) \/ Upsert(t)
ThreadStep(t) ==
  \/ ReadTags(t) \/ WriteTags(t) \/ ApplyPolicyFast(t)
  \/ Determine(t) \/ WriteDetermination(t) \/ Materialize(t)

Next ==
  \/ \E t \in Runners : RunnerStep(t)
  \/ \E t \in Threads : ThreadStep(t)
  \/ \E policy \in Policies : Chip(policy) \/ EpisodeChip(policy)
  \/ CommitChip \/ ClearTags
  \/ ArrChange \/ TitleChange

Spec == Init /\ [][Next]_vars

(***************************************************************************)
(* Properties                                                              *)
(***************************************************************************)

\* What the rules add up to, by precedence: a file or a removal, a Never, a
\* sibling's file, a Pinned, monitoring, the calendar.
Wanted ==
  /\ Missing /\ Effective # "never" /\ ~SiblingSuppresses
  /\ \/ Effective = "pinned"
     \/ /\ ~HiddenSpecial
        /\ cfg.skip = "no" \/ ~Monitored
        /\ cfg.look # "days" \/ title.date \notin {"unknown", "far"}

\* Two cases keep a placeholder that exists and create none: a special while
\* specials are hidden, and a monitored title that is being downloaded.
KeepsWhatIs ==
  \/ HiddenSpecial
  \/ /\ Missing /\ Effective = "auto" /\ ~SiblingSuppresses
     /\ cfg.skip # "no" /\ Monitored /\ title.acq

\* A sync or a reconcile nobody disturbs ends with the row of Radarr and with
\* a placeholder exactly if the rules, by their precedence, want one,
\* whatever state the title was in before (determiner, materializer).
QuietRoundDecides ==
  calm => /\ row = arr
          /\ IF KeepsWhatIs THEN ph => Missing \/ HiddenSpecial ELSE ph = Wanted

\* It also ends with the policy the tags ask for, chip or no chip; a policy
\* from a tag that is gone is unwound (apply_arr_tag_placeholder_policies).
TagsGovern ==
  calm /\ row.file # "gone" =>
    /\ row.tags # {} => PolicyOf(pol) = Desired(row.tags)
    /\ row.tags = {} => pol.src # "tag" \/ PolicyOf(pol) = "auto"

\* After one such round the next ones change nothing: no title flips between
\* needs and obsolete from one pass to the next (_compute_determination and
\* the re-determination of obsolete titles agree).
NoFlipFlop == [][calm /\ calm' => UNCHANGED <<ph, det, pol>>]_vars

\* What a chip or a tag does at once is what the rules want, so the next pass
\* does not undo it (apply_movie_placeholder_policy_fast).
FastAgreesWithPass ==
  [][\A t \in Threads :
       pc[t] = "fast" /\ pc'[t] # "fast" /\ Missing /\ Effective # "auto"
         => ph' = Wanted]_vars

\* The library page explains a title by the outcome that the next pass will
\* reach, whatever was set, synced or decided meanwhile, a placeholder whose
\* path is to change excepted; and the step it names as deciding carries that
\* outcome, unless no step failed the title (explain_movie_determination and
\* explain_episode_determination against _resolve_*_determination).
ExplanationAgrees ==
  LET e == Explained(ph)
      named == e.steps[ExplainedStep(ph)]
  IN  /\ \/ ph /\ title.drift /\ Missing /\ ~HiddenSpecial
         \/ e.final = Determination(ph)
      /\ \/ named.outcome = e.final
         \/ \A i \in DOMAIN e.steps : e.steps[i].status # "fail"

\* Documented, not so: with a lookahead of 0 a title that is not out yet, and
\* that nobody pinned, gets no placeholder.
OffMeansNoFuture ==
  calm /\ cfg.look = "off" /\ Effective = "auto" /\ title.date = "far"
    => ~ph

\* Three more that one would expect and the code does not have.  While Radarr
\* cannot list its tags, a policy that its tags ask for stays.
OutageKeepsPolicy ==
  [][\A t \in Threads :
       pc[t] = "apply" /\ pc'[t] # "apply" /\ Desired(row.tags) = PolicyOf(pol)
         => PolicyOf(pol') = PolicyOf(pol)]_vars

\* Never and Pinned are never both set.
FlagsExclusive == ~(pol.force /\ pol.block)

\* Clearing tags takes no other tag from the title in Radarr.
ClearTakesOnlyCleared ==
  [][pc[Desk] = "idle" /\ pc'[Desk] = "tags"
       => arr.tags \ row.tags \subseteq arr'.tags]_vars
=============================================================================
