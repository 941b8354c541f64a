----------------------------- MODULE MCMigrate -----------------------------
(* Directories of migrations for TLC. *)
EXTENDS Migrate

CONSTANTS p1, p2, t, u, tracking

S(op, obj) == [op |-> op, obj |-> obj]

\* Drop a table, then create it again if missing (and the tracking table);
\* change it; and a script that rolls itself back.
ReviewScripts ==
  << <<S("drop", t)>>,
     <<S("create_missing", tracking), S("create_missing", t)>>,
     <<S("create", u), S("rollback", u), S("change", t)>> >>
ReviewDatabases == {{}, {t}, {t, tracking}}
ReviewSelections == {1..3, {1, 3}}

\* Two files that lock two tables in opposite orders, one with its own COMMIT.
OverlapScripts ==
  << <<S("drop", t), S("create_missing", u)>>,
     <<S("create", u), S("drop", t), S("commit", t), S("create_missing", t)>> >>
OverlapDatabases == {{tracking}, {t, tracking}}
OverlapSelections == {1..2, {2}}
=============================================================================
