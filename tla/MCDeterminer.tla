---------------------------- MODULE MCDeterminer ----------------------------
EXTENDS Determiner

Setting(kind, look, skip, any, specials) ==
  [kind |-> kind, look |-> look, skip |-> skip, any |-> any,
   specials |-> specials]

\* The calendar's settings are combined with the others for movies, and what
\* only Sonarr's titles have for episodes and specials.  "off" and "all" ask
\* for no date, so one combination of each is enough.
AllSettings ==
  {Setting("movie", "days", s, a, FALSE) : s \in {"no", "monitored"}, a \in BOOLEAN}
  \cup {Setting("movie", "off", "monitored", TRUE, FALSE),
        Setting("movie", "all", "no", TRUE, FALSE)}
  \cup
  {Setting("episode", "days", s, a, FALSE) :
     s \in {"no", "monitored", "series"}, a \in BOOLEAN}
  \cup
  {Setting("special", "days", "series", FALSE, p) : p \in BOOLEAN}
=============================================================================
