----------------------------- MODULE MCKeyedJobs -----------------------------
(***************************************************************************)
(* The two kinds of jobs that take a processed_job_key, media_refresh and  *)
(* nfo_refresh.  They share no row and no key, so that a behavior has jobs *)
(* of one kind only.  A placeholder is named by its path.                 *)
(***************************************************************************)
EXTENDS MediaRefresh, TLC

CONSTANTS Batch,        \* how many placeholders an nfo_refresh row takes
          BatchJobs,    \* bound: rows of nfo_refresh
          BatchFaults   \* bound: faults among them

VARIABLES kind,         \* the kind of jobs of this behavior
          batchRow, batchKey, batchRun, wrote, current, crossed, lost, batchFaults

batchVars == <<batchRow, batchKey, batchRun, wrote, current, crossed, lost, batchFaults>>

N == INSTANCE NfoBatch WITH
       Id <- Path, MaxJob <- BatchJobs, MaxFaults <- BatchFaults,
       row <- batchRow, key <- batchKey, run <- batchRun, faults <- batchFaults

InitKeyed == kind \in {"media_refresh", "nfo_refresh"} /\ Init /\ N!Init

NextKeyed ==
  \/ kind = "media_refresh" /\ Next /\ UNCHANGED <<kind, batchVars>>
  \/ kind = "nfo_refresh" /\ N!Next /\ UNCHANGED <<kind, vars>>

SpecKeyed == InitKeyed /\ [][NextKeyed]_<<kind, vars, batchVars>>

\* Two runs of the same nfo_refresh row never write at the same time, although
\* the reaper may have given the row to a second one.
OneWriter == N!OneWriter

\* A request for a sidecar is never lost between merges, locks, claims, sweeps,
\* retries and restarts: one that is not current is due, but for those written
\* from an outdated read or skipped for a key that an earlier run left behind.
CurrentOrDue == N!CurrentOrDue

Symmetry == Permutations(Path) \union Permutations(Thread)
=============================================================================
