-------------------------- MODULE MigrationLedger --------------------------
(***************************************************************************)
(* What migrate.py promises of the tracking table, one file at a time:     *)
(* a file is recorded once its script has run, or once somebody says it    *)
(* needs no run; a recorded file stays recorded and does not run again.    *)
(* Nothing is promised of a file that ran and is not recorded: a crash in  *)
(* between, or a tracking table that does not exist yet, runs it again.    *)
(***************************************************************************)
EXTENDS Naturals

CONSTANTS
  File,    \* the migration files
  Forced   \* those a user applies by name, recorded or not

VARIABLES
  execs,     \* times each file's script has run to its commit
  vouched,   \* files taken as already done
  recorded   \* files in the tracking table

vars == <<execs, vouched, recorded>>

Pending(f) == f \notin recorded \/ f \in Forced

Init == execs = [f \in File |-> 0] /\ vouched = {} /\ recorded = {}

Execute(f) ==
  /\ Pending(f)
  /\ execs' = [execs EXCEPT ![f] = @ + 1]
  /\ UNCHANGED <<vouched, recorded>>

Vouch(f) ==
  /\ Pending(f)
  /\ vouched' = vouched \cup {f}
  /\ UNCHANGED <<execs, recorded>>

Record(f) ==
  /\ execs[f] > 0 \/ f \in vouched
  /\ recorded' = recorded \cup {f}
  /\ UNCHANGED <<execs, vouched>>

Next == \E f \in File : Execute(f) \/ Vouch(f) \/ Record(f)

Spec == Init /\ [][Next]_vars
=============================================================================
