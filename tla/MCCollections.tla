--------------------------- MODULE MCCollections ---------------------------
(* Instances of Collections for TLC. *)
EXTENDS Collections

R(mode, window, adopt, list, include, exclude, limit, catalogs, left_) ==
  [mode |-> mode, window |-> window, adopt |-> adopt, list |-> list,
   include |-> include, exclude |-> exclude, limit |-> limit,
   catalogs |-> catalogs, left |-> left_]

May(catalog_, season_, user, fail, edit, manual, crash) ==
  [catalog |-> catalog_, season |-> season_, user |-> user, fail |-> fail,
   edit |-> edit, manual |-> manual, crash |-> crash]

Any == [Items -> {{Main}, {}, Untracked}]
Both == {[i \in Items |-> IF i = 1 THEN Values ELSE {Main}]}

\* The hazards one by one: pins and a failing library call, a recipe without a
\* limit and one whose limit is above the cap, failures in a set whose catalog
\* and season change, a user in Plex, a renamed recipe, a second run, a crash, a
\* recipe that keeps its shelf.
Checked == {
  R("single", "delete", FALSE, {1, 2}, {3}, {2, 3}, 2, Any, May(0, 1, 1, 1, 0, 0, 0)),
  R("single", "none", FALSE, Items, {}, {2}, None, Any, May(1, 0, 0, 0, 0, 0, 0)),
  R("single", "none", FALSE, Items, {2}, {}, 3, Any, May(1, 0, 0, 0, 0, 0, 0)),
  R("set", "delete", FALSE, Items, {}, {}, None, Both, May(1, 2, 0, 1, 0, 0, 0)),
  R("set", "clear", FALSE, Items, {}, {}, 1, Both, May(0, 1, 2, 1, 0, 0, 0)),
  R("set", "clear", TRUE, Items, {}, {}, 1, Both, May(1, 1, 1, 0, 1, 0, 0)),
  R("set", "delete", FALSE, Items, {}, {}, 2, Both, May(0, 1, 0, 0, 0, 1, 0)),
  R("single", "delete", FALSE, Items, {}, {}, 1, Both, May(0, 1, 0, 0, 0, 2, 1)),
  R("single", "keep", FALSE, Items, {}, {}, 1, Both, May(1, 1, 0, 0, 0, 1, 0))}
=============================================================================
