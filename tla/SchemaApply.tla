---------------------------- MODULE SchemaApply ----------------------------
(***************************************************************************)
(* Building a test database (testdb/schema.py): apply_schema pulls files   *)
(* out of the generator _iter_sql_files and executes each as it comes, its *)
(* fixture rows after it; the ones that failed are retried in whole passes *)
(* until a pass gains nothing.  Files are numbered in the order of         *)
(* (_get_type_order, name).  Every statement commits by itself.            *)
(***************************************************************************)
EXTENDS Naturals, Sequences, FiniteSets

CONSTANTS
  NumFiles,     \* .sql files under the database directory
  Name,         \* schema-qualified names files declare
  NoName,       \* of a file that declares none
  Permission,   \* the permissions files
  Version,      \* states of the directory
  Content,      \* what its files contain in each
  Edits,        \* what each may be edited into between two calls
  Scopes,       \* files the env, area and schema filters may leave
  MaxCalls,     \* bound: calls of apply_schema
  MaxFaults     \* bound: statements failing for no reason of theirs, crashes

File == 1..NumFiles
NoFile == NumFiles + 1

Directory ==
  [names : [File -> Name \cup {NoName}],  \* full_name
   deps  : [File -> SUBSET Name],         \* _get_sql_deps, own name discarded
   needs : [File -> SUBSET Name],         \* what must exist for it to execute
   refs  : [File -> SUBSET Name],         \* tables its rows point into
   seed  : [File -> Nat]]                 \* rows of its .test_data.json

ASSUME FileAssumption == NumFiles \in Nat /\ Permission \subseteq File
ASSUME NameAssumption == NoName \notin Name
\* A foreign key names a table that has to exist when it is declared; only
\* what a file declares itself is seeded.
ASSUME DirectoryAssumption ==
  /\ Content \in [Version -> Directory]
  /\ \A v \in Version : \A f \in File :
       /\ Content[v].refs[f] \subseteq Content[v].needs[f]
       /\ Content[v].names[f] \notin Content[v].deps[f]
       /\ Content[v].names[f] = NoName => Content[v].seed[f] = 0
       /\ f \in Permission => Content[v].names[f] = NoName
ASSUME EditAssumption == Edits \in [Version -> SUBSET Version]
ASSUME ScopeAssumption == Scopes \subseteq SUBSET File
ASSUME BoundAssumption == MaxCalls \in Nat /\ MaxFaults \in Nat

VARIABLES
  \* the database
  made,        \* names that exist
  rows,        \* rows of each
  granted,     \* names a schema-wide GRANT has covered
  \* the call
  dir, scope, reset,   \* directory, files left by the filters, force_reset
  phase,       \* where it is
  \* _iter_sql_files
  todo,        \* files the first loop has not come to
  delivered,   \* names of delivered files
  declared,    \* all_declared
  delayed,     \* files waiting; the list is always in file order
  i,           \* the delayed loop has looked at the files from i on
  progressed,
  held,        \* permissions_files not yet yielded
  \* apply_schema
  cur, at,     \* the file _apply works on, and how far it is
  failures, still_failing,
  k,           \* next of failures in this pass
  \* history and bounds
  yielded,     \* files the generator has yielded in this call
  fresh,       \* the database was empty when the call began
  calls, faults

dbVars    == <<made, rows, granted>>
callVars  == <<dir, scope, reset, fresh, calls>>
genVars   == <<todo, delivered, declared, delayed, i, progressed, held, yielded>>
retryVars == <<failures, still_failing, k>>
vars == <<dbVars, callVars, phase, genVars, cur, at, retryVars, faults>>
-----------------------------------------------------------------------------
First(S, f) == f \in S /\ \A g \in S : f <= g
Latest(S, f) == f \in S /\ \A g \in S : g <= f

names == Content[dir].names
deps  == Content[dir].deps
needs == Content[dir].needs
refs  == Content[dir].refs
seed  == Content[dir].seed
Declares(f) == {names[f]} \cap Name

Generating == {"first", "delayed", "permissions"}
Ended == {"off", "done", "circular", "stuck"}

TypeOK ==
  /\ made \subseteq Name /\ rows \in [Name -> Nat] /\ granted \subseteq Name
  /\ dir \in Version /\ scope \subseteq File /\ reset \in BOOLEAN
  /\ phase \in Generating \cup {"retry"} \cup Ended
  /\ todo \subseteq File /\ delivered \subseteq Name /\ declared \subseteq Name
  /\ delayed \subseteq File /\ i \in 1..NoFile /\ progressed \in BOOLEAN
  /\ held \subseteq Permission
  /\ cur \in 1..NoFile /\ at \in {"exec", "seed", "copy"}
  /\ failures \in Seq(File) /\ still_failing \in Seq(File) /\ k \in Nat \ {0}
  /\ yielded \subseteq File /\ fresh \in BOOLEAN
  /\ calls \in Nat /\ faults \in Nat

Init ==
  /\ made = {} /\ rows = [n \in Name |-> 0] /\ granted = {}
  /\ dir \in Version /\ scope = {} /\ reset = FALSE
  /\ phase = "off"
  /\ todo = {} /\ delivered = {} /\ declared = {} /\ delayed = {}
  /\ i = NoFile /\ progressed = FALSE /\ held = {}
  /\ cur = NoFile /\ at = "exec"
  /\ failures = <<>> /\ still_failing = <<>> /\ k = 1
  /\ yielded = {} /\ fresh = FALSE /\ calls = 0 /\ faults = 0
-----------------------------------------------------------------------------
\* A call; force_reset drops the database and creates it anew.
Call(S, force) ==
  /\ phase \in Ended /\ calls < MaxCalls
  /\ calls' = calls + 1
  /\ dir' \in IF calls = 0 THEN {dir} ELSE Edits[dir]
  /\ scope' = S /\ reset' = force
  /\ made' = IF force THEN {} ELSE made
  /\ rows' = IF force THEN [n \in Name |-> 0] ELSE rows
  /\ granted' = IF force THEN {} ELSE granted
  /\ fresh' = (made' = {})
  /\ phase' = "first"
  /\ todo' = S /\ yielded' = {}
  /\ delivered' = {} /\ declared' = {} /\ delayed' = {} /\ held' = {}
  /\ i' = NoFile /\ progressed' = FALSE
  /\ cur' = NoFile /\ at' = "exec"
  /\ failures' = <<>> /\ still_failing' = <<>> /\ k' = 1
  /\ UNCHANGED faults
-----------------------------------------------------------------------------
(* _iter_sql_files; it runs while no yielded file is being applied. *)

Resume(ph) == phase = ph /\ cur = NoFile

Yield(f) ==
  /\ cur' = f /\ at' = "exec"
  /\ yielded' = yielded \cup {f}

Looks(f) ==
  /\ Resume("first") /\ First(todo, f)
  /\ todo' = todo \ {f}
  /\ UNCHANGED <<dbVars, callVars, phase, i, progressed, retryVars, faults>>

Hold(f) ==
  /\ Looks(f) /\ f \in Permission
  /\ held' = held \cup {f}
  /\ UNCHANGED <<delivered, declared, delayed, yielded, cur, at>>

Deliver(f) ==
  /\ Looks(f) /\ f \notin Permission /\ deps[f] \subseteq delivered
  /\ declared' = declared \cup Declares(f)
  /\ delivered' = delivered \cup Declares(f)
  /\ Yield(f) /\ UNCHANGED <<delayed, held>>

Delay(f) ==
  /\ Looks(f) /\ f \notin Permission /\ ~(deps[f] \subseteq delivered)
  /\ declared' = declared \cup Declares(f)
  /\ delayed' = delayed \cup {f}
  /\ UNCHANGED <<delivered, held, yielded, cur, at>>

\* Mutant: the permissions files do not wait for the delayed ones.
EndFirst_SkipsDelayed ==
  /\ Resume("first") /\ todo = {}
  /\ phase' = "permissions"
  /\ UNCHANGED <<dbVars, callVars, genVars, cur, at, retryVars, faults>>

EndFirst ==
  /\ Resume("first") /\ todo = {}
  /\ phase' = IF delayed = {} THEN "permissions" ELSE "delayed"
  /\ UNCHANGED <<dbVars, callVars, genVars, cur, at, retryVars, faults>>

\* Mutant: steps over the next file to look at.
Reconsiders_Skips(f) ==
  /\ Resume("delayed") /\ Latest({g \in delayed : g < i}, f)
  /\ i' = f - 1
  /\ UNCHANGED <<dbVars, callVars, phase, todo, declared, held, retryVars, faults>>

\* The delayed loop goes through the list from its end.
Reconsiders(f) ==
  /\ Resume("delayed") /\ Latest({g \in delayed : g < i}, f)
  /\ i' = f
  /\ UNCHANGED <<dbVars, callVars, phase, todo, declared, held, retryVars, faults>>

\* Mutants: a name nobody declares is waited for; any one dependency will do.
Resolved_Missing(f) == deps[f] \subseteq delivered
Resolved_Any(f) == deps[f] = {} \/ deps[f] \cap delivered # {}

Resolved(f) == \A d \in deps[f] : d \in delivered \/ d \notin declared

Release(f) ==
  /\ Reconsiders(f) /\ Resolved(f)
  /\ delivered' = delivered \cup Declares(f)
  /\ delayed' = delayed \ {f} /\ progressed' = TRUE
  /\ Yield(f)

Leave(f) ==
  /\ Reconsiders(f) /\ ~Resolved(f)
  /\ UNCHANGED <<delivered, delayed, progressed, yielded, cur, at>>

\* Mutant: goes round once more whether anything was released or not.
EndPass_Again ==
  /\ Resume("delayed") /\ \A f \in delayed : f >= i
  /\ phase' = IF delayed = {} THEN "permissions" ELSE "delayed"
  /\ i' = NoFile /\ progressed' = FALSE
  /\ UNCHANGED <<dbVars, callVars, todo, delivered, declared, delayed, held, yielded,
                 cur, at, retryVars, faults>>

EndPass ==
  /\ Resume("delayed") /\ \A f \in delayed : f >= i
  /\ phase' = IF ~progressed THEN "circular"
              ELSE IF delayed = {} THEN "permissions" ELSE "delayed"
  /\ i' = NoFile /\ progressed' = FALSE
  /\ UNCHANGED <<dbVars, callVars, todo, delivered, declared, delayed, held, yielded,
                 cur, at, retryVars, faults>>

YieldPermission(f) ==
  /\ Resume("permissions") /\ First(held, f)
  /\ held' = held \ {f}
  /\ Yield(f)
  /\ UNCHANGED <<dbVars, callVars, phase, todo, delivered, declared, delayed, i, progressed,
                 retryVars, faults>>

EndGenerator ==
  /\ Resume("permissions") /\ held = {}
  /\ phase' = "retry"
  /\ UNCHANGED <<dbVars, callVars, genVars, cur, at, retryVars, faults>>
-----------------------------------------------------------------------------
(* apply_schema: _apply executes the file and seeds its table. *)

\* The file is done with: applied, or noted as failed.
Settle(ok) ==
  /\ cur' = NoFile /\ at' = "exec"
  /\ IF phase = "retry"
     THEN /\ still_failing' = IF ok THEN still_failing ELSE Append(still_failing, cur)
          /\ k' = k + 1 /\ UNCHANGED failures
     ELSE /\ failures' = IF ok THEN failures ELSE Append(failures, cur)
          /\ UNCHANGED <<still_failing, k>>
  /\ UNCHANGED <<callVars, phase, genVars>>

Continue(step) == at' = step /\ UNCHANGED <<callVars, phase, genVars, cur, retryVars>>

Executes(f) == cur = f /\ at = "exec" /\ needs[f] \subseteq made

ExecFile(f) ==
  /\ Executes(f) /\ f \notin Permission
  /\ made' = made \cup Declares(f)
  /\ IF seed[f] > 0 THEN Continue("seed") ELSE Settle(TRUE)
  /\ UNCHANGED <<rows, granted, faults>>

\* GRANT ... ON ALL TABLES covers what exists now.
ExecPermission(f) ==
  /\ Executes(f) /\ f \in Permission
  /\ granted' = granted \cup made
  /\ Settle(TRUE)
  /\ UNCHANGED <<made, rows, faults>>

\* _insert_test_data: the count says the rows are there.
Seeded(f) == ~reset /\ rows[names[f]] = seed[f]

\* Rows of another table point at this one's.
Referenced(f) ==
  \E g \in File : /\ names[f] \in refs[g]
                  /\ names[g] # NoName /\ rows[names[g]] > 0

\* Mutant: any row will do.
SeedPresent_Any(f) ==
  /\ cur = f /\ at = "seed" /\ ~reset /\ rows[names[f]] > 0
  /\ Settle(TRUE)
  /\ UNCHANGED <<dbVars, faults>>

SeedPresent(f) ==
  /\ cur = f /\ at = "seed" /\ Seeded(f)
  /\ Settle(TRUE)
  /\ UNCHANGED <<dbVars, faults>>

SeedDelete(f) ==
  /\ cur = f /\ at = "seed" /\ ~Seeded(f) /\ ~Referenced(f)
  /\ rows' = [rows EXCEPT ![names[f]] = 0]
  /\ Continue("copy")
  /\ UNCHANGED <<made, granted, faults>>

CanCopy(f) == \A n \in refs[f] : rows[n] > 0

SeedCopy(f) ==
  /\ cur = f /\ at = "copy" /\ CanCopy(f)
  /\ rows' = [rows EXCEPT ![names[f]] = seed[f]]
  /\ Settle(TRUE)
  /\ UNCHANGED <<made, granted, faults>>

Fails(f) ==
  /\ cur = f
  /\ \/ at = "exec" /\ ~(needs[f] \subseteq made)
     \/ at = "seed" /\ ~Seeded(f) /\ Referenced(f)
     \/ at = "copy" /\ ~CanCopy(f)

\* Mutant: the failure is logged and forgotten.
ApplyFails_Forgotten(f) == Fails(f) /\ Settle(TRUE) /\ UNCHANGED <<dbVars, faults>>

ApplyFails(f) == Fails(f) /\ Settle(FALSE) /\ UNCHANGED <<dbVars, faults>>

\* The retry loop: one pass over the failed files, in the order they failed.
Retry ==
  /\ Resume("retry") /\ k <= Len(failures)
  /\ cur' = failures[k]
  /\ UNCHANGED <<dbVars, callVars, phase, genVars, at, retryVars, faults>>

\* Mutants: a single retry; a pass without gain is followed by another.
EndRetry_Once ==
  /\ Resume("retry") /\ k > Len(failures)
  /\ phase' = IF still_failing = <<>> THEN "done" ELSE "stuck"
  /\ failures' = still_failing /\ still_failing' = <<>> /\ k' = 1
  /\ UNCHANGED <<dbVars, callVars, genVars, cur, at, faults>>

EndRetry_Again ==
  /\ Resume("retry") /\ k > Len(failures)
  /\ phase' = IF failures = <<>> THEN "done" ELSE "retry"
  /\ failures' = still_failing /\ still_failing' = <<>> /\ k' = 1
  /\ UNCHANGED <<dbVars, callVars, genVars, cur, at, faults>>

EndRetry ==
  /\ Resume("retry") /\ k > Len(failures)
  /\ phase' = IF failures = <<>> THEN "done"
              ELSE IF Len(still_failing) = Len(failures) THEN "stuck" ELSE "retry"
  /\ failures' = still_failing /\ still_failing' = <<>> /\ k' = 1
  /\ UNCHANGED <<dbVars, callVars, genVars, cur, at, faults>>
-----------------------------------------------------------------------------
(* Faults *)

Fault == faults < MaxFaults /\ faults' = faults + 1

\* A statement fails though nothing is wrong with it: a lock timeout, a
\* deadlock with a test that is still running.
Hiccup == cur # NoFile /\ Fault /\ Settle(FALSE) /\ UNCHANGED dbVars

\* The process dies between two statements.
Crash ==
  /\ phase \notin Ended /\ Fault
  /\ phase' = "off" /\ cur' = NoFile
  /\ UNCHANGED <<dbVars, callVars, genVars, at, retryVars>>
-----------------------------------------------------------------------------
Generate ==
  \/ EndFirst \/ EndPass \/ EndGenerator
  \/ \E f \in File : \/ Hold(f) \/ Deliver(f) \/ Delay(f)
                     \/ Release(f) \/ Leave(f) \/ YieldPermission(f)

Apply ==
  \/ Retry \/ EndRetry
  \/ \E f \in File : \/ ExecFile(f) \/ ExecPermission(f) \/ SeedPresent(f)
                     \/ SeedDelete(f) \/ SeedCopy(f) \/ ApplyFails(f)

Next ==
  \/ \E S \in Scopes, force \in BOOLEAN : Call(S, force)
  \/ Generate \/ Apply \/ Hiccup \/ Crash

Spec == Init /\ [][Next]_vars

\* apply_schema is one coroutine, and the server answers its statements.
FairSpec == Spec /\ WF_vars(Generate \/ Apply)
-----------------------------------------------------------------------------
(* Properties *)

\* The generator implements the build order: no file twice, none before what
\* it depends on, permissions files after everything else -- whichever files
\* went to the delayed list and in which order its loop released them.
Order == INSTANCE BuildOrder WITH scope <- scope, names <- names, deps <- deps, yielded <- yielded
KeepsOrder == Order!Spec

\* It yields the whole scope before the retries begin.
YieldsAll == phase \in {"retry", "done", "stuck"} => yielded = scope

\* It gives up only on a real cycle: every file left waits for a name that
\* only the files left declare.  A name nobody declares stops nothing.
OnlyCyclesStop ==
  phase = "circular" =>
    /\ delayed # {} /\ yielded \cap delayed = {}
    /\ \A f \in delayed : \E n \in deps[f] :
         /\ \E g \in delayed : names[g] = n
         /\ \A g \in scope : names[g] = n => g \in delayed

\* A call that returns has built everything: every file's name exists and
\* every fixture's rows are there, after failures, retries, edited fixtures
\* and earlier calls that died between any two statements.
DoneIsBuilt ==
  phase = "done" => \A f \in scope :
    /\ Declares(f) \subseteq made
    /\ seed[f] > 0 => rows[names[f]] = seed[f]

\* Whether any order of execution builds the scope from an empty database:
\* the n-th round adds what the rounds before it have made possible.
Ready(f, before) ==
  /\ needs[f] \subseteq {names[g] : g \in before}
  /\ seed[f] > 0 => refs[f] \subseteq {names[g] : g \in {h \in before : seed[h] > 0}}
Round[n \in 0..NumFiles] ==
  IF n = 0 THEN {} ELSE {f \in scope : Ready(f, Round[n - 1])}
Buildable == Round[NumFiles] = scope

\* "Looping until a full pass makes no progress converges on any resolvable
\* ordering": on an empty database the retries give up only when no order of
\* the files would have worked.
RetriesConverge == phase = "stuck" /\ fresh /\ faults = 0 => ~Buildable

\* Every call comes to an end: neither the delayed loop nor the retries spin.
CallEnds == phase = "first" ~> phase \in Ended
-----------------------------------------------------------------------------
(* Inductive invariant of the generator *)

NamesOf(S) == {names[f] : f \in S} \cap Name

\* Every file of the scope is in one place; what is delivered and declared
\* follows from it.
Placed ==
  /\ scope = todo \cup delayed \cup held \cup yielded
  /\ yielded \cap (todo \cup delayed \cup held) = {}
  /\ delayed \cap Permission = {} /\ delayed \cap todo = {}
  /\ held \subseteq Permission
  /\ delivered = NamesOf(yielded)
  /\ declared = NamesOf(yielded \cup delayed)

\* Which of the places are empty by now.
Emptied ==
  /\ phase \in {"delayed", "permissions", "retry", "done", "circular", "stuck"} => todo = {}
  /\ phase \in {"permissions", "retry", "done", "stuck"} => delayed = {}
  /\ phase \in {"retry", "done", "stuck"} => held = {}
  /\ phase = "first" => yielded \cap Permission = {} /\ ~progressed /\ i = NoFile
  /\ phase = "delayed" => yielded \cap Permission = {} /\ (delayed # {} \/ progressed)
  /\ phase = "circular" => delayed # {}

\* A pass that has released nothing found every file it looked at waiting.
Waiting ==
  /\ phase = "delayed" /\ ~progressed => \A f \in delayed : f >= i => ~Resolved(f)
  /\ phase = "circular" => \A f \in delayed : ~Resolved(f)

GenInv == Placed /\ Emptied /\ Waiting
-----------------------------------------------------------------------------
\* What docstrings say of it.

\* apply_schema: permissions files are "guaranteed to apply after every
\* table/view [they are] meant to cover, including anything resolved via
\* delayed-retry", so one covers all that a finished call has built.
PermissionsCover ==
  phase = "done" /\ scope \cap Permission # {} => made \subseteq granted

\* apply_schema: "Safe to call repeatedly", so a call on a database an earlier
\* one has built fails only if the directory cannot be built at all.
SafeToRepeat == phase = "stuck" /\ faults = 0 => ~Buildable
=============================================================================
