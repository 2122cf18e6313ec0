----------------------------- MODULE MCPlayback -----------------------------
(* Instances of Playback for TLC. *)
EXTENDS Playback
CONSTANTS hd, uhd

S(present, prefer, calendar, plays, grabs_, imports_, restarts_) ==
  [present |-> present, prefer |-> prefer, calendar |-> calendar,
   plays |-> plays, grabs |-> grabs_, imports |-> imports_,
   restarts |-> restarts_]

\* The hazards one by one: an import and a grab while the calendar phase works,
\* a grab that is imported, two playbacks, a crash, a fallback search, two
\* instances at once.
Watched == {S({hd}, "primary", "COMING_SOON", 1, 0, 1, 0),
            S({hd}, "primary", "COMING_SOON", 1, 1, 0, 0),
            S({hd}, "primary", "outside", 1, 1, 1, 0),
            S({hd}, "primary", "outside", 2, 0, 0, 0),
            S({hd}, "primary", "REQUEST", 1, 0, 0, 1),
            S({hd, uhd}, "primary", "outside", 1, 0, 0, 0),
            S({hd, uhd}, "both", "outside", 1, 0, 0, 0)}
=============================================================================
