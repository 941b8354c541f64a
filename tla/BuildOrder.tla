----------------------------- MODULE BuildOrder -----------------------------
(***************************************************************************)
(* What _iter_sql_files promises (testdb/schema.py): "dependency-safe      *)
(* execution order".  A call takes each file of its scope at most once, no *)
(* file before one that declares what it depends on, when the scope has    *)
(* one, and permissions files after all the others.                        *)
(***************************************************************************)
CONSTANTS File, Permission

VARIABLES
  scope,     \* files of the call
  names,     \* what each file declares
  deps,      \* what each file depends on
  yielded    \* files taken so far

vars == <<scope, names, deps, yielded>>

Ready(f) ==
  IF f \in Permission
  THEN scope \ Permission \subseteq yielded
  ELSE \A g \in scope \ Permission :
         names[g] \in deps[f] => \E h \in yielded : names[h] = names[g]

Init == scope = {} /\ yielded = {}

Start == yielded' = {}

Take(f) ==
  /\ f \in scope \ yielded /\ Ready(f)
  /\ yielded' = yielded \cup {f}
  /\ UNCHANGED <<scope, names, deps>>

Next == Start \/ \E f \in File : Take(f)

Spec == Init /\ [][Next]_vars
=============================================================================
