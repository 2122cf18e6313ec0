--------------------------- MODULE MCCatalogSync ---------------------------
(* Instances of CatalogSync for TLC. *)
EXTENDS CatalogSync

Radarr(skip_, titles_, changes_, fails_, crashes_, jobs_) ==
  [kind |-> "radarr", skip |-> skip_, titles |-> titles_, episodes |-> {},
   changes |-> changes_, fails |-> fails_, crashes |-> crashes_,
   jobs |-> jobs_, toggles |-> 0]

Sonarr(skip_, titles_, episodes_, changes_, fails_, crashes_, jobs_, toggles_) ==
  [kind |-> "sonarr", skip |-> skip_, titles |-> titles_, episodes |-> episodes_,
   changes |-> changes_, fails |-> fails_, crashes |-> crashes_,
   jobs |-> jobs_, toggles |-> toggles_]

\* A failure or a crash between two movies; swaps of episodes; monitoring compared
\* by signatures; specials with failures and a crash; a job beside a lite sync; two
\* series with an episode each.
Checked == {
  Radarr(TRUE, {1, 2}, 1, 1, 0, 1),
  Radarr(FALSE, {1, 2}, 1, 1, 1, 0),
  Sonarr(FALSE, {1}, {2, 3}, 2, 0, 0, 0, 0),
  Sonarr(TRUE, {1}, {2, 3}, 1, 1, 0, 0, 0),
  Sonarr(FALSE, {1}, {1, 2}, 1, 1, 1, 0, 1),
  Sonarr(FALSE, {1}, {2, 3}, 1, 1, 0, 1, 0),
  Sonarr(FALSE, {1, 2}, {2}, 1, 1, 0, 0, 0)}
=============================================================================
