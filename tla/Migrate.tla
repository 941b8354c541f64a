------------------------------ MODULE Migrate ------------------------------
(***************************************************************************)
(* `pgdb migrate apply` (cli.py, migrate.py, migrate_mssql.py).            *)
(*                                                                         *)
(* A run lists the files the tracking table does not name, in name order.  *)
(* Its main thread walks them, asking about each with --ask, and puts the  *)
(* ones to handle on work_q; a daemon thread takes them off, executes the  *)
(* script in a transaction of its own, records the file in a second one    *)
(* and then checks that the tables the script creates exist.  Runs crash,  *)
(* are started again, and may overlap: the code takes no lock on the       *)
(* database.                                                               *)
(***************************************************************************)
EXTENDS Naturals, Sequences, FiniteSets

CONSTANTS
  Proc,           \* the `pgdb migrate apply` processes that may overlap
  NumFiles,       \* files of the directory; file i is the i-th by name
  Object,         \* relations, schemas and columns the scripts are about
  Table,          \* those of them a CREATE TABLE creates
  TrackingTable,  \* the table applied files are recorded in
  Script,         \* each file's statements, as _split_sql returns them
  Selections,     \* what the area, schema and env filters may leave
  Forced,         \* files a user may name with --file
  AskModes,       \* whether runs are made with --ask
  Databases,      \* objects the database may hold before the first run
  MaxRuns,        \* bound: runs started
  MaxFaults       \* bound: crashes and lost connections

File == 1..NumFiles
EndFile == NumFiles + 1   \* in a queue item: no file, the poison

Stmt == [op  : {"create", "create_missing", "drop", "change", "commit", "rollback"},
         obj : Object]

ASSUME ProcAssumption == IsFiniteSet(Proc)
ASSUME FileAssumption == NumFiles \in Nat
ASSUME ObjectAssumption == Table \subseteq Object /\ TrackingTable \in Object
\* No script drops the tracking table.
ASSUME ScriptAssumption ==
  /\ Script \in [File -> Seq(Stmt)]
  /\ \A f \in File : \A i \in DOMAIN Script[f] :
       Script[f][i].op = "drop" => Script[f][i].obj # TrackingTable
ASSUME OptionAssumption ==
  /\ Selections \subseteq SUBSET File
  /\ Forced \subseteq File
  /\ AskModes \subseteq BOOLEAN
  /\ Databases \subseteq SUBSET Object
ASSUME BoundAssumption == MaxRuns \in Nat /\ MaxFaults \in Nat

VARIABLES
  \* the database
  objs,       \* committed objects
  recorded,   \* rows of the tracking table
  \* the main thread of each process
  pc,         \* where it is in migrate_apply
  ask,        \* --ask was given
  byFile,     \* --file was given
  targets,    \* the files of this run
  todo,       \* those its loop has not finished with
  chk,        \* next target already_fully_applied looks up
  quit,       \* quit_requested
  outcomes,   \* what is reported of each file, "none" while nothing is
  \* shared by its two threads
  work_q,     \* the FIFO queue of (path, already_done)
  stop,       \* the stop event; set exactly when `failure` is
  \* the worker thread of each process
  wpc,        \* where it is in worker / apply_migration
  job,        \* the item it took
  at,         \* next statement of the script
  adds, dels, \* objects its open transaction created and dropped
  result,     \* what it is about to report
  \* history and bounds
  execs,      \* how often each file's script has run to its commit
  vouched,    \* files --ask took as already done
  ran,        \* files this run executed to the commit
  runs, faults

dbVars   == <<objs, recorded>>
runVars  == <<ask, byFile, targets>>
mainVars == <<pc, todo, chk, quit>>
jobVars  == <<wpc, job, at, adds, dels, result>>
histVars == <<execs, vouched, ran, runs, faults>>
vars == <<dbVars, runVars, mainVars, outcomes, work_q, stop, jobVars, histVars>>
-----------------------------------------------------------------------------
\* What an item says of already_done, and who decided it.
Done == {"run", "auto", "user"}
Poison == [file |-> EndFile, done |-> "none"]
Item == [file : File, done : Done] \cup {Poison}
NoOutcome == [f \in File |-> "none"]
Settled == {"applied", "recorded", "skipped"}
Outcome == Settled \cup {"none", "failed", "not run"}

First(S, f) == f \in S /\ \A g \in S : f <= g

\* _idempotent_target: the statement is a CREATE (not OR REPLACE) or ADD COLUMN.
Idempotent(s) == s.op \in {"create", "create_missing"}
Statements(f) == {Script[f][i] : i \in DOMAIN Script[f]}

\* already_fully_applied answers False without a look at the database.
NeedsReview(f) == Script[f] = <<>> \/ \E s \in Statements(f) : ~Idempotent(s)

\* created_table_names, and the ones verify_created_tables does not find.
Created(f) == {s.obj : s \in {x \in Statements(f) : Idempotent(x) /\ x.obj \in Table}}
Missing(f) == Created(f) \ objs

\* What p's open transaction sees, and the statement it is at.
Visible(p) == (objs \ dels[p]) \cup adds[p]
Executing(p, f) == wpc[p] = "exec" /\ job[p].file = f
AtStatement(p, f) == Executing(p, f) /\ at[p] <= Len(Script[f])
Current(p, f) == Script[f][at[p]]

\* A statement that fails whatever happens around it.
Errs(p, s) == \/ s.op = "create" /\ s.obj \in Visible(p)
              \/ s.op = "change" /\ s.obj \notin Visible(p)

\* Another open transaction has created or dropped the relation s needs.
NeedsLock(p, s) == \/ Idempotent(s) /\ s.obj \notin Visible(p)
                   \/ s.op \in {"drop", "change"} /\ s.obj \in Visible(p)
Blocks(q, p, s) == q # p /\ NeedsLock(p, s) /\ s.obj \in adds[q] \cup dels[q]
Blocked(p, s) == \E q \in Proc : Blocks(q, p, s)

TypeOK ==
  /\ objs \subseteq Object /\ recorded \subseteq File
  /\ pc \in [Proc -> {"idle", "loop", "check", "prompt", "join", "done"}]
  /\ ask \in [Proc -> BOOLEAN] /\ byFile \in [Proc -> BOOLEAN]
  /\ targets \in [Proc -> SUBSET File] /\ todo \in [Proc -> SUBSET File]
  /\ chk \in [Proc -> Nat \ {0}] /\ quit \in [Proc -> BOOLEAN]
  /\ outcomes \in [Proc -> [File -> Outcome]]
  /\ work_q \in [Proc -> Seq(Item)] /\ stop \in [Proc -> BOOLEAN]
  /\ wpc \in [Proc -> {"off", "get", "exec", "record", "verify", "report"}]
  /\ job \in [Proc -> Item] /\ at \in [Proc -> Nat \ {0}]
  /\ adds \in [Proc -> SUBSET Object] /\ dels \in [Proc -> SUBSET Object]
  /\ result \in [Proc -> Outcome]
  /\ execs \in [File -> Nat] /\ vouched \subseteq File
  /\ ran \in [Proc -> SUBSET File]
  /\ runs \in Nat /\ faults \in Nat

Init ==
  /\ objs \in Databases /\ recorded = {}
  /\ pc = [p \in Proc |-> "idle"]
  /\ ask = [p \in Proc |-> FALSE] /\ byFile = [p \in Proc |-> FALSE]
  /\ targets = [p \in Proc |-> {}] /\ todo = [p \in Proc |-> {}]
  /\ chk = [p \in Proc |-> 1] /\ quit = [p \in Proc |-> FALSE]
  /\ outcomes = [p \in Proc |-> NoOutcome]
  /\ work_q = [p \in Proc |-> <<>>] /\ stop = [p \in Proc |-> FALSE]
  /\ wpc = [p \in Proc |-> "off"]
  /\ job = [p \in Proc |-> Poison] /\ at = [p \in Proc |-> 1]
  /\ adds = [p \in Proc |-> {}] /\ dels = [p \in Proc |-> {}]
  /\ result = [p \in Proc |-> "none"]
  /\ execs = [f \in File |-> 0] /\ vouched = {}
  /\ ran = [p \in Proc |-> {}]
  /\ runs = 0 /\ faults = 0
-----------------------------------------------------------------------------
(* Starting a run *)

\* The state a run begins with once its targets T are known; with none it
\* says so and returns.
Begin(p, T, file) ==
  /\ pc[p] \in {"idle", "done"} /\ runs < MaxRuns
  /\ T # {}
  /\ pc' = [pc EXCEPT ![p] = "loop"]
  /\ \E a \in AskModes : ask' = [ask EXCEPT ![p] = a]
  /\ byFile' = [byFile EXCEPT ![p] = file]
  /\ targets' = [targets EXCEPT ![p] = T] /\ todo' = [todo EXCEPT ![p] = T]
  /\ quit' = [quit EXCEPT ![p] = FALSE]
  /\ outcomes' = [outcomes EXCEPT ![p] = NoOutcome]
  /\ work_q' = [work_q EXCEPT ![p] = <<>>] /\ stop' = [stop EXCEPT ![p] = FALSE]
  /\ wpc' = [wpc EXCEPT ![p] = "get"]
  /\ ran' = [ran EXCEPT ![p] = {}]
  /\ runs' = runs + 1
  /\ UNCHANGED <<dbVars, chk, job, at, adds, dels, result, execs, vouched, faults>>

\* Mutant: lists every file, recorded or not.
StartPending_Everything(p) == \E S \in Selections : Begin(p, S, FALSE)

\* pending_migrations; without a tracking table every listed file is pending.
StartPending(p) ==
  \E S \in Selections :
    Begin(p, IF TrackingTable \in objs THEN S \ recorded ELSE S, FALSE)

StartFile(p) == \E f \in Forced : Begin(p, {f}, TRUE)
-----------------------------------------------------------------------------
(* The main thread *)

\* Mutant: leaves the loop at the stop event without the poison.
EndLoop_NoPoison(p) ==
  /\ pc[p] = "loop" /\ (todo[p] = {} \/ stop[p])
  /\ pc' = [pc EXCEPT ![p] = "join"]
  /\ work_q' = [work_q EXCEPT ![p] = IF stop[p] THEN @ ELSE Append(@, Poison)]
  /\ UNCHANGED <<dbVars, runVars, todo, chk, quit, outcomes, stop, jobVars, histVars>>

\* The loop is over, or sees the stop event: work_q.put(None).
EndLoop(p) ==
  /\ pc[p] = "loop" /\ (todo[p] = {} \/ stop[p])
  /\ pc' = [pc EXCEPT ![p] = "join"]
  /\ work_q' = [work_q EXCEPT ![p] = Append(@, Poison)]
  /\ UNCHANGED <<dbVars, runVars, todo, chk, quit, outcomes, stop, jobVars, histVars>>

\* work_q.put((path, already_done)) and on to the next file.
Put(p, f, done) ==
  /\ work_q' = [work_q EXCEPT ![p] = Append(@, [file |-> f, done |-> done])]
  /\ todo' = [todo EXCEPT ![p] = @ \ {f}]
  /\ pc' = [pc EXCEPT ![p] = "loop"]
  /\ vouched' = IF done = "run" THEN vouched ELSE vouched \cup {f}
  /\ UNCHANGED <<dbVars, runVars, quit, outcomes, stop, jobVars,
                 execs, ran, runs, faults>>

Enqueue(p, f) ==
  /\ pc[p] = "loop" /\ ~stop[p] /\ ~ask[p] /\ First(todo[p], f)
  /\ Put(p, f, "run")
  /\ UNCHANGED chk

\* --ask: look the file over, then either check its targets or ask.
Review(p, f) ==
  /\ pc[p] = "loop" /\ ~stop[p] /\ ask[p] /\ First(todo[p], f)
  /\ pc' = [pc EXCEPT ![p] = IF NeedsReview(f) THEN "prompt" ELSE "check"]
  /\ chk' = [chk EXCEPT ![p] = 1]
  /\ UNCHANGED <<dbVars, runVars, todo, quit, outcomes, work_q, stop, jobVars, histVars>>

\* One lookup of already_fully_applied, each a statement of its own.
TargetFound(p, f) ==
  /\ pc[p] = "check" /\ First(todo[p], f)
  /\ Script[f][chk[p]].obj \in objs
  /\ IF chk[p] < Len(Script[f])
     THEN /\ chk' = [chk EXCEPT ![p] = @ + 1]
          /\ UNCHANGED <<dbVars, runVars, pc, todo, quit, outcomes, work_q, stop,
                         jobVars, histVars>>
     ELSE Put(p, f, "auto") /\ UNCHANGED chk

TargetMissing(p, f) ==
  /\ pc[p] = "check" /\ First(todo[p], f)
  /\ Script[f][chk[p]].obj \notin objs
  /\ pc' = [pc EXCEPT ![p] = "prompt"]
  /\ UNCHANGED <<dbVars, runVars, todo, chk, quit, outcomes, work_q, stop,
                 jobVars, histVars>>

\* The prompt, asked with bar_lock held.
AnswerYes(p, f) ==
  pc[p] = "prompt" /\ First(todo[p], f) /\ Put(p, f, "run") /\ UNCHANGED chk

AnswerAlready(p, f) ==
  pc[p] = "prompt" /\ First(todo[p], f) /\ Put(p, f, "user") /\ UNCHANGED chk

\* "no", and any answer that is none of the others.
AnswerNo(p, f) ==
  /\ pc[p] = "prompt" /\ First(todo[p], f)
  /\ outcomes' = [outcomes EXCEPT ![p][f] = "skipped"]
  /\ todo' = [todo EXCEPT ![p] = @ \ {f}]
  /\ pc' = [pc EXCEPT ![p] = "loop"]
  /\ UNCHANGED <<dbVars, runVars, chk, quit, work_q, stop, jobVars, histVars>>

AnswerQuit(p) ==
  /\ pc[p] = "prompt"
  /\ quit' = [quit EXCEPT ![p] = TRUE]
  /\ pc' = [pc EXCEPT ![p] = "join"]
  /\ work_q' = [work_q EXCEPT ![p] = Append(@, Poison)]
  /\ UNCHANGED <<dbVars, runVars, todo, chk, outcomes, stop, jobVars, histVars>>

\* Mutant: after a failure every target is "not run".
Finish_AllNotRun(p) ==
  /\ pc[p] = "join" /\ wpc[p] = "off"
  /\ outcomes' = [outcomes EXCEPT ![p] =
       [f \in File |-> IF stop[p] /\ f \in targets[p] THEN "not run" ELSE @[f]]]
  /\ pc' = [pc EXCEPT ![p] = "done"]
  /\ UNCHANGED <<dbVars, runVars, todo, chk, quit, work_q, stop, jobVars, histVars>>

\* thread.join() returned: after a failure the files nothing was reported of
\* are "not run"; the table is printed and the process exits.
Finish(p) ==
  /\ pc[p] = "join" /\ wpc[p] = "off"
  /\ outcomes' = [outcomes EXCEPT ![p] =
       [f \in File |-> IF stop[p] /\ f \in targets[p] /\ @[f] = "none"
                       THEN "not run" ELSE @[f]]]
  /\ pc' = [pc EXCEPT ![p] = "done"]
  /\ UNCHANGED <<dbVars, runVars, todo, chk, quit, work_q, stop, jobVars, histVars>>

\* Exit status 0.
ExitsZero(p) == pc[p] = "done" /\ ~quit[p] /\ ~stop[p]
-----------------------------------------------------------------------------
(* The worker thread *)

\* bar_write and bar_step wait while the main thread holds bar_lock.
BarFree(p) == pc[p] # "prompt"

NextItem(p) ==
  /\ wpc[p] = "get" /\ work_q[p] # <<>>
  /\ work_q' = [work_q EXCEPT ![p] = Tail(@)]
  /\ UNCHANGED <<dbVars, runVars, mainVars, outcomes, stop>>

TakePoison(p) ==
  /\ NextItem(p) /\ Head(work_q[p]) = Poison
  /\ wpc' = [wpc EXCEPT ![p] = "off"]
  /\ UNCHANGED <<job, at, adds, dels, result, histVars>>

\* After a failure the queue is drained and nothing is executed.
Discard(p) ==
  /\ NextItem(p) /\ Head(work_q[p]) # Poison /\ stop[p] /\ BarFree(p)
  /\ UNCHANGED <<jobVars, histVars>>

\* Mutant: goes on after a failure.
TakeJob_AfterStop(p) ==
  /\ NextItem(p) /\ Head(work_q[p]) # Poison
  /\ job' = [job EXCEPT ![p] = Head(work_q[p])]
  /\ wpc' = [wpc EXCEPT ![p] = IF Head(work_q[p]).done = "run" THEN "exec" ELSE "record"]
  /\ at' = [at EXCEPT ![p] = 1]
  /\ UNCHANGED <<adds, dels, result, histVars>>

\* apply_migration: an item marked already done is only recorded.
TakeJob(p) ==
  /\ NextItem(p) /\ Head(work_q[p]) # Poison /\ ~stop[p]
  /\ job' = [job EXCEPT ![p] = Head(work_q[p])]
  /\ wpc' = [wpc EXCEPT ![p] = IF Head(work_q[p]).done = "run" THEN "exec" ELSE "record"]
  /\ at' = [at EXCEPT ![p] = 1]
  /\ UNCHANGED <<adds, dels, result, histVars>>

Advance(p) ==
  /\ at' = [at EXCEPT ![p] = @ + 1]
  /\ UNCHANGED <<runVars, mainVars, outcomes, work_q, stop, wpc, job, result, histVars>>

\* The statements that take effect when nothing blocks them or goes wrong.
Runs(p, f, ops) ==
  /\ AtStatement(p, f) /\ Current(p, f).op \in ops
  /\ ~Blocked(p, Current(p, f)) /\ ~Errs(p, Current(p, f))

\* CREATE, with or without IF NOT EXISTS.
ExecCreate(p, f) ==
  /\ Runs(p, f, {"create", "create_missing"})
  /\ adds' = [adds EXCEPT ![p] = @ \cup ({Current(p, f).obj} \ Visible(p))]
  /\ Advance(p) /\ UNCHANGED <<dbVars, dels>>

\* DROP ... IF EXISTS.
ExecDrop(p, f) ==
  /\ Runs(p, f, {"drop"})
  /\ adds' = [adds EXCEPT ![p] = @ \ {Current(p, f).obj}]
  /\ dels' = [dels EXCEPT ![p] = @ \cup ({Current(p, f).obj} \cap objs)]
  /\ Advance(p) /\ UNCHANGED dbVars

\* A statement that changes data or a definition, and needs its relation.
ExecChange(p, f) ==
  /\ Runs(p, f, {"change"})
  /\ Advance(p) /\ UNCHANGED <<dbVars, adds, dels>>

EndTransaction(p) ==
  /\ adds' = [adds EXCEPT ![p] = {}]
  /\ dels' = [dels EXCEPT ![p] = {}]

\* A script's own COMMIT or ROLLBACK; what follows runs in a new transaction.
ExecCommit(p, f) ==
  /\ AtStatement(p, f) /\ Current(p, f).op = "commit"
  /\ objs' = Visible(p)
  /\ EndTransaction(p) /\ Advance(p) /\ UNCHANGED recorded

ExecRollback(p, f) ==
  /\ AtStatement(p, f) /\ Current(p, f).op = "rollback"
  /\ EndTransaction(p) /\ Advance(p) /\ UNCHANGED dbVars

\* con.commit() at the end of _execute_stmts: the server's side of it.
ServerCommit(p, f) ==
  /\ Executing(p, f) /\ at[p] > Len(Script[f])
  /\ objs' = Visible(p) /\ UNCHANGED recorded
  /\ EndTransaction(p)
  /\ execs' = [execs EXCEPT ![f] = @ + 1]
  /\ ran' = [ran EXCEPT ![p] = @ \cup {f}]

Commit(p, f) ==
  /\ ServerCommit(p, f)
  /\ wpc' = [wpc EXCEPT ![p] = "record"]
  /\ UNCHANGED <<runVars, mainVars, outcomes, work_q, stop, job, at, result,
                 vouched, runs, faults>>

\* Mutant: does not record the file that creates the tracking table.
Record_NoBootstrap(p, f) ==
  /\ wpc[p] = "record" /\ job[p].file = f
  /\ recorded' = IF TrackingTable \in objs \ Created(f) THEN recorded \cup {f} ELSE recorded
  /\ IF job[p].done = "run"
     THEN wpc' = [wpc EXCEPT ![p] = "verify"] /\ UNCHANGED result
     ELSE wpc' = [wpc EXCEPT ![p] = "report"] /\ result' = [result EXCEPT ![p] = "recorded"]
  /\ UNCHANGED <<objs, runVars, mainVars, outcomes, work_q, stop, job, at, adds, dels,
                 histVars>>

\* record_applied: false, and no error, without a tracking table.
Record(p, f) ==
  /\ wpc[p] = "record" /\ job[p].file = f
  /\ recorded' = IF TrackingTable \in objs THEN recorded \cup {f} ELSE recorded
  /\ IF job[p].done = "run"
     THEN wpc' = [wpc EXCEPT ![p] = "verify"] /\ UNCHANGED result
     ELSE wpc' = [wpc EXCEPT ![p] = "report"] /\ result' = [result EXCEPT ![p] = "recorded"]
  /\ UNCHANGED <<objs, runVars, mainVars, outcomes, work_q, stop, job, at, adds, dels,
                 histVars>>

Verify(p, f) ==
  /\ wpc[p] = "verify" /\ job[p].file = f /\ Missing(f) = {}
  /\ wpc' = [wpc EXCEPT ![p] = "report"]
  /\ result' = [result EXCEPT ![p] = "applied"]
  /\ UNCHANGED <<dbVars, runVars, mainVars, outcomes, work_q, stop, job, at, adds, dels,
                 histVars>>

\* Mutant: reports the failure but does not set the event.
Except_NoStop(p) ==
  /\ wpc' = [wpc EXCEPT ![p] = "report"]
  /\ result' = [result EXCEPT ![p] = "failed"]
  /\ UNCHANGED <<runVars, mainVars, outcomes, work_q, stop, job, at, vouched, runs>>

\* The worker's except clause: the event is set before anything is printed.
Except(p) ==
  /\ stop' = [stop EXCEPT ![p] = TRUE]
  /\ wpc' = [wpc EXCEPT ![p] = "report"]
  /\ result' = [result EXCEPT ![p] = "failed"]
  /\ UNCHANGED <<runVars, mainVars, outcomes, work_q, job, at, vouched, runs>>

\* Mutant: the script's error is swallowed and the file recorded.
ExecError_Swallowed(p, f) ==
  /\ AtStatement(p, f)
  /\ Errs(p, Current(p, f)) /\ ~Blocked(p, Current(p, f))
  /\ EndTransaction(p)
  /\ wpc' = [wpc EXCEPT ![p] = "record"]
  /\ UNCHANGED <<dbVars, runVars, mainVars, outcomes, work_q, stop, job, at, result,
                 histVars>>

\* The connection closes without a commit, so the transaction is rolled back.
ExecError(p, f) ==
  /\ AtStatement(p, f)
  /\ Errs(p, Current(p, f)) /\ ~Blocked(p, Current(p, f))
  /\ EndTransaction(p) /\ Except(p)
  /\ UNCHANGED <<dbVars, execs, ran, faults>>

VerifyError(p, f) ==
  /\ wpc[p] = "verify" /\ job[p].file = f /\ Missing(f) # {}
  /\ Except(p) /\ UNCHANGED <<dbVars, adds, dels, execs, ran, faults>>

\* IF NOT EXISTS found nothing, but another transaction is creating the same
\* name: the catalog's unique index fails the statement.
DuplicateKey(p, f) ==
  /\ AtStatement(p, f) /\ Idempotent(Current(p, f)) /\ Blocked(p, Current(p, f))
  /\ EndTransaction(p) /\ Except(p)
  /\ UNCHANGED <<dbVars, execs, ran, faults>>

\* p waits for a transaction that waits for p; the server breaks the cycle.
WaitsFor(p, q) == \E f \in File : AtStatement(p, f) /\ Blocks(q, p, Current(p, f))

Deadlocked(p) ==
  /\ \E C \in SUBSET Proc : p \in C /\ \A q \in C : \E r \in C : WaitsFor(q, r)
  /\ EndTransaction(p) /\ Except(p)
  /\ UNCHANGED <<dbVars, execs, ran, faults>>

\* Mutant: appends the item's flag in place of the outcome.
Report_Flag(p, f) ==
  /\ wpc[p] = "report" /\ job[p].file = f /\ BarFree(p)
  /\ outcomes' = [outcomes EXCEPT ![p][f] = job[p].done]
  /\ wpc' = [wpc EXCEPT ![p] = "get"]
  /\ UNCHANGED <<dbVars, runVars, mainVars, work_q, stop, job, at, adds, dels, result,
                 histVars>>

Report(p, f) ==
  /\ wpc[p] = "report" /\ job[p].file = f /\ BarFree(p)
  /\ outcomes' = [outcomes EXCEPT ![p][f] = result[p]]
  /\ wpc' = [wpc EXCEPT ![p] = "get"]
  /\ UNCHANGED <<dbVars, runVars, mainVars, work_q, stop, job, at, adds, dels, result,
                 histVars>>
-----------------------------------------------------------------------------
(* Faults *)

Fault == faults < MaxFaults /\ faults' = faults + 1

\* The server or the network drops the worker's connection ...
ConnectionLost(p) ==
  /\ wpc[p] \in {"exec", "record", "verify"}
  /\ Fault /\ EndTransaction(p) /\ Except(p)
  /\ UNCHANGED <<dbVars, execs, ran>>

\* ... or loses the answer to a COMMIT it has carried out ...
CommitAnswerLost(p, f) ==
  /\ ServerCommit(p, f)
  /\ Fault /\ Except(p)

\* ... or to the tracking insert.
RecordAnswerLost(p, f) ==
  /\ wpc[p] = "record" /\ job[p].file = f /\ TrackingTable \in objs
  /\ recorded' = recorded \cup {f}
  /\ Fault /\ Except(p)
  /\ UNCHANGED <<objs, adds, dels, execs, ran>>

\* The process is killed, interrupted at a prompt, or main raises: the daemon
\* thread dies with it.
Crash(p) ==
  /\ pc[p] \notin {"idle", "done"}
  /\ Fault /\ EndTransaction(p)
  /\ pc' = [pc EXCEPT ![p] = "idle"] /\ wpc' = [wpc EXCEPT ![p] = "off"]
  /\ work_q' = [work_q EXCEPT ![p] = <<>>] /\ todo' = [todo EXCEPT ![p] = {}]
  /\ UNCHANGED <<dbVars, runVars, chk, quit, outcomes, stop, job, at, result,
                 execs, vouched, ran, runs>>
-----------------------------------------------------------------------------
Answer(p) == \/ \E f \in File : AnswerYes(p, f) \/ AnswerNo(p, f) \/ AnswerAlready(p, f)
             \/ AnswerQuit(p)

MainStep(p) ==
  \/ EndLoop(p) \/ Finish(p)
  \/ \E f \in File : Enqueue(p, f) \/ Review(p, f) \/ TargetFound(p, f) \/ TargetMissing(p, f)

ExecStep(p, f) ==
  \/ ExecCreate(p, f) \/ ExecDrop(p, f) \/ ExecChange(p, f)
  \/ ExecCommit(p, f) \/ ExecRollback(p, f) \/ Commit(p, f)
  \/ ExecError(p, f) \/ DuplicateKey(p, f)

WorkerStep(p) ==
  \/ TakePoison(p) \/ Discard(p) \/ TakeJob(p) \/ Deadlocked(p)
  \/ \E f \in File : \/ ExecStep(p, f)
                     \/ Record(p, f) \/ Verify(p, f) \/ VerifyError(p, f) \/ Report(p, f)

FaultStep(p) ==
  \/ ConnectionLost(p) \/ Crash(p)
  \/ \E f \in File : CommitAnswerLost(p, f) \/ RecordAnswerLost(p, f)

Step(p) ==
  \/ StartPending(p) \/ StartFile(p)
  \/ Answer(p) \/ MainStep(p) \/ WorkerStep(p) \/ FaultStep(p)

Next == \E p \in Proc : Step(p)

Spec == Init /\ [][Next]_vars

\* The user answers every prompt; both threads and the server keep running.
\* Nobody has to start a run, and faults need not happen.
Fairness == \A p \in Proc :
  WF_vars(Answer(p)) /\ WF_vars(MainStep(p)) /\ WF_vars(WorkerStep(p))

FairSpec == Spec /\ Fairness
-----------------------------------------------------------------------------
(* Properties *)

Busy == {"exec", "record", "verify"}

\* Files are handled in name order and nothing follows a failure: while the
\* worker handles a file, every earlier target of the run has been applied,
\* recorded or skipped (the queue, the stop event and the prompt together).
InOrder ==
  \A p \in Proc : wpc[p] \in Busy =>
    \A f \in targets[p] : f < job[p].file => outcomes[p][f] \in Settled

\* A file is in the tracking table only if some run executed its script up to
\* the commit, or --ask (the user or the look-up) took it as already done.
RecordedJustified == \A f \in recorded : execs[f] > 0 \/ f \in vouched

\* "Re-runs only apply what's pending": a run that is alone on the database
\* never executes a file that is recorded, unless --file names it.  In between
\* other runs may have crashed or lost their connection at any step.
OnlyPending ==
  \A p \in Proc : wpc[p] = "exec" /\ ~byFile[p] /\ Cardinality(Proc) = 1
                    => job[p].file \notin recorded

\* The table printed at the end tells the truth about this run: an "applied"
\* file was executed to its commit, and one reported as skipped, recorded, not
\* run, or not reported at all was not executed.
ReportIsTrue ==
  \A p \in Proc : pc[p] = "done" => \A f \in targets[p] :
    /\ outcomes[p][f] = "applied" => f \in ran[p]
    /\ f \in ran[p] => outcomes[p][f] \in {"applied", "failed"}

\* Exit status 0 means every target was applied, recorded or skipped; unless
\* the user quits, every target is reported whatever happened.
ExitIsTrue ==
  \A p \in Proc : pc[p] = "done" => \A f \in targets[p] :
    /\ ExitsZero(p) => outcomes[p][f] \in Settled
    /\ ~quit[p] => outcomes[p][f] # "none"

\* A migration that creates the tracking table bootstraps it: it and the files
\* a run handles after it end up recorded.
Bootstraps ==
  \A p \in Proc : pc[p] = "done" => \A g, f \in targets[p] :
    /\ outcomes[p][g] = "applied" /\ TrackingTable \in Created(g) /\ g <= f
    /\ outcomes[p][f] \in {"applied", "recorded"}
    => f \in recorded

\* A lone process implements the ledger of MigrationLedger, crashes, lost
\* answers and re-runs included.
Ledger == INSTANCE MigrationLedger WITH execs <- execs, vouched <- vouched, recorded <- recorded
KeepsLedger == Ledger!Spec

\* Every run that is not killed comes to its end: neither thread is left
\* waiting for the other, for bar_lock or for a lock of the database.
RunEnds == \A p \in Proc : pc[p] = "loop" ~> pc[p] \in {"done", "idle"}

-----------------------------------------------------------------------------
(* Inductive invariants *)

Handling == Busy \cup {"report"}
Active == {"loop", "check", "prompt"}
FilesOf(q) == {q[i].file : i \in DOMAIN q}
Ascending(q) == \A i, j \in DOMAIN q : i < j => q[i].file < q[j].file
QueueFiles(p) == FilesOf(work_q[p])

\* What makes a record justified travels with the item and the job.
Carried(p) ==
  /\ wpc[p] \in {"exec", "verify"} => job[p].done = "run"
  /\ wpc[p] \in {"record", "verify"} =>
       IF job[p].done = "run" THEN execs[job[p].file] > 0 ELSE job[p].file \in vouched
  /\ \A i \in DOMAIN work_q[p] :
       work_q[p][i].done \in {"auto", "user"} => work_q[p][i].file \in vouched

JustifiedInv == RecordedJustified /\ \A p \in Proc : Carried(p)

\* The job, the queue and the files still to be looked at are in name order ...
Sorted(p) ==
  /\ Ascending(work_q[p])
  /\ \A f \in QueueFiles(p) \cap File : \A g \in todo[p] : f < g
  /\ pc[p] \in Active => EndFile \notin QueueFiles(p)
  /\ wpc[p] \in Handling => /\ job[p].file \in File
                            /\ \A f \in QueueFiles(p) \cup todo[p] : job[p].file < f

\* ... and with the settled ones they are all the targets, until a failure.
Accounted(p) ==
  /\ pc[p] \in {"idle", "done"} => wpc[p] = "off"
  /\ wpc[p] \in Busy => ~stop[p]
  /\ wpc[p] = "report" => IF stop[p] THEN result[p] = "failed"
                                      ELSE result[p] \in {"applied", "recorded"}
  /\ pc[p] # "idle" /\ ~stop[p] => \A f \in targets[p] :
       \/ f \in todo[p] \/ f \in QueueFiles(p) \/ outcomes[p][f] \in Settled
       \/ wpc[p] \in Handling /\ job[p].file = f

OrderInv == \A p \in Proc : Sorted(p) /\ Accounted(p)

\* With one process, nothing it still has to execute has been recorded.
PendingInv ==
  /\ recorded # {} => TrackingTable \in objs
  /\ \A p \in Proc :
       /\ TrackingTable \notin dels[p]
       /\ ~byFile[p] =>
            /\ (todo[p] \cup QueueFiles(p)) \cap recorded = {}
            /\ wpc[p] \in {"exec", "record"} => job[p].file \notin recorded
-----------------------------------------------------------------------------
\* What docs and docstrings say of it.
\* README: apply "re-checks that every CREATE TABLE statement's target
\* actually exists before recording the file as applied".
VerifiedBeforeRecorded ==
  \A p \in Proc, f \in File :
    wpc[p] = "verify" /\ job[p].file = f /\ Missing(f) # {} => f \notin recorded

\* already_fully_applied's docstring: it is True when "re-running the migration
\* would do nothing", so a file recorded on its word has all its targets.
AutoDoneIsNoop ==
  \A p \in Proc, f \in File :
    wpc[p] = "record" /\ job[p] = [file |-> f, done |-> "auto"] =>
      {s.obj : s \in Statements(f)} \subseteq objs
=============================================================================
