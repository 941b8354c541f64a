----------------------------- MODULE TestDatabase -----------------------------
(***************************************************************************)
(* pgdb testdb on a server shared by the worktrees of several projects     *)
(* (testdb/api.py, testdb/mssql/api.py), on Postgres or SQL Server, and    *)
(* pgdb migrate on such a database of SQL Server (migrate_mssql.py).       *)
(* Commands run concurrently, can die at any step, and share the           *)
(* databases with clients that connect and leave.                          *)
(***************************************************************************)
EXTENDS TestNames, Container

CONSTANTS
  Setups,      \* engine, whether the container is taken as running, workspaces, faults
  MaxCommands, \* bound: commands given in all
  Fixture      \* rows of the test data

ASSUME RowsAssumption == Fixture \in Nat \ {0}
ASSUME VisitorAssumption == "visitor" \notin Proc

\* The names of a workspace are texts, and a digest is a character of a slug.
ASSUME TextAssumption ==
  \A S \in Setups, p \in Proc : \A v \in {S.ws[p].project, S.ws[p].branch, S.ws[p].override} :
    v \in Seq(Range(v)) /\ Digest(Normalize(v)) \notin Invalid \cup {"_"}
\* The names of databases that share a server have different digests, also from the
\* slugs of the projects.
ASSUME DigestAssumption ==
  \A S \in Setups, p, q \in Proc :
    LET Names(r) == {Joined(S.ws[r].project, b) : b \in {S.ws[r].branch, S.ws[r].override}} IN
    \A s \in Names(p) :
      /\ \A t \in Names(q) : Digest(s) = Digest(t) => s = t
      /\ Len(Normalize(S.ws[p].project)) > MaxSlugLen => Digest(Normalize(S.ws[q].project)) # Digest(s)

VARIABLES
  setup,    \* [engine, skip, ws : Proc -> [project, branch, override], faults], the
            \* last a bound on deaths, stops, visits and changes of worktrees
  worktree, \* each workspace's: "here", "locked" (and away), "missing" or "gone"
  dbs,      \* database name -> [built, rows, effect, row, mode, users]
  snaps,    \* <<database name, snapshot name>> -> what it holds
  cmd,      \* each process's command: <<what, how>>
  todo,     \* databases it has still to drop
  cur,      \* the database it works on
  seen,     \* the snapshots it has found
  batch,    \* batches of its open transaction
  issued, faults,
  excuse,   \* history: others have given it a reason to fail
  alone,    \* history: no other command has touched a database since it began
  unowned,  \* history: databases that had no owner at some moment since it listed them
  crossed,  \* history: databases reverted or dropped between a script and its row
  stuck     \* history: databases a death, a visitor or a failed DROP left in SINGLE_USER

procVars == <<cmd, todo, cur, seen>>
history == <<excuse, alone, unowned, crossed, stuck>>
vars == <<setup, worktree, container, pc, dbs, snaps, procVars, batch, issued, faults, history>>

mssql == setup.engine = "mssql"
Project(p) == setup.ws[p].project

\* current_branch: PGDEVKIT_TESTDB_BRANCH, or what git has checked out.
CurrentBranch(p) ==
  IF setup.ws[p].override # <<>> THEN setup.ws[p].override ELSE setup.ws[p].branch
OwnDb(p) == WorkspaceDbName(Project(p), CurrentBranch(p))

\* Mutant: a worktree that is away is not live, locked or not.
LiveBranches_Here(project) ==
  {setup.ws[p].branch : p \in {q \in Proc : Project(q) = project /\ worktree[q] = "here"}}

\* live_worktree_branches: the path exists, or the worktree is locked.
LiveBranches(project) ==
  {setup.ws[p].branch : p \in {q \in Proc : Project(q) = project /\ worktree[q] \in {"here", "locked"}}}
Expected(project) == ExpectedDbNames(project, LiveBranches(project))

\* Batches of the migration.
Batches == 2

\* What is in a database.
Empty == [built |-> FALSE, rows |-> 0, effect |-> 0, row |-> FALSE]
Database(content, mode, users) == [content |-> content, mode |-> mode, users |-> users]
Exists(d) == d \in DOMAIN dbs
Reachable(d) == Exists(d) /\ (dbs[d].mode = "multi" \/ dbs[d].users = {})
Snapshots(d) == {s \in DOMAIN snaps : s[1] = d}
With(f, x, v) == [y \in DOMAIN f \cup {x} |-> IF y = x THEN v ELSE f[y]]
Except(f, x) == [y \in DOMAIN f \ {x} |-> f[y]]
-----------------------------------------------------------------------------
(* History *)

\* A database is owned in a project when it is the one of a worktree that git
\* knows and that is there or locked, or an extra one of it.
Owned(d, project, trees) == \E p \in Proc :
  /\ Project(p) = project /\ trees[p] \in {"here", "locked"}
  /\ LET own == WorkspaceDbName(project, setup.ws[p].branch)
     IN d = own \/ \E s \in Extras : d = own \o s
Unowned(p, names, trees) == {d \in names : ~Owned(d, Project(p), trees)}

Touched(p) == alone' = [q \in Proc |-> alone[q] /\ q = p]
Crossed(d) == crossed' =
  IF \E q \in Proc : cur[q] = d /\ pc[q] \in {"record", "insert_row"} THEN crossed \cup {d} ELSE crossed
Hindered(p) == excuse' = [q \in Proc |-> excuse[q] \/ q # p]
\* Only those hindered that have found no such database and are about to create it.
Outruns(p) == excuse' = [q \in Proc |-> excuse[q] \/ (q # p /\ pc[q] = "create" /\ cur[q] = cur[p])]
-----------------------------------------------------------------------------
Caller == CHOOSE p \in Proc : TRUE

Init ==
  /\ setup \in Setups
  /\ worktree \in [Proc -> {"here", "locked", "gone"}]
  /\ worktree[Caller] = "here"
  /\ container \in {"absent", "ready"}
  /\ LET own == {OwnDb(p) : p \in Proc}
         extra == {OwnDb(Caller) \o s : s \in Extras}
         full == [Empty EXCEPT !.built = TRUE, !.rows = Fixture]
     IN \E old \in (SUBSET own) \cup {extra}, effect \in {0, Batches} :
          /\ container = "absent" => old = {}
          /\ effect # 0 => mssql /\ old = own /\ own = {OwnDb(Caller)}
          /\ dbs = [d \in old |-> Database([full EXCEPT !.effect = effect], "multi", {})]
          /\ \E taken \in IF mssql THEN SUBSET ((old \cap {OwnDb(Caller)}) \X {"s"}) ELSE {{}} :
               snaps = [s \in taken |-> full]
  /\ pc = [p \in Proc |-> "idle"]
  /\ cmd = [p \in Proc |-> <<"none", "">>]
  /\ todo = [p \in Proc |-> {}] /\ cur = [p \in Proc |-> <<>>] /\ seen = [p \in Proc |-> {}]
  /\ batch = [p \in Proc |-> 0]
  /\ issued = 0 /\ faults = 0
  /\ excuse = [p \in Proc |-> FALSE] /\ alone = [p \in Proc |-> TRUE]
  /\ unowned = [p \in Proc |-> {}] /\ crossed = {} /\ stuck = {}

Commands ==
  ({"ensure"} \X {"", "force"}) \cup ({"clean"} \X {"own", "all", "orphaned"})
  \cup (IF mssql THEN ({"snapshot", "restore"} \X {"s", "r"}) \cup ({"migrate"} \X {"plain", "ask"}) ELSE {})

Entry(c) ==
  CASE c[1] = "ensure" -> "probe"
    [] c[1] = "clean" -> IF c[2] = "own" THEN "next" ELSE "list"
    [] OTHER -> c[1]

Ended(p) == pc[p] \in {"idle", "done", "failed"}

Begin(p) ==
  /\ Ended(p) /\ worktree[p] = "here" /\ issued < MaxCommands
  /\ \E c \in Commands :
       /\ cmd' = [cmd EXCEPT ![p] = c]
       /\ Goto(p, Entry(c))
       /\ todo' = [todo EXCEPT ![p] = IF c \in {<<"ensure", "force">>, <<"clean", "own">>}
                                      THEN {OwnDb(p)} ELSE {}]
  /\ cur' = [cur EXCEPT ![p] = OwnDb(p)]
  /\ seen' = [seen EXCEPT ![p] = {}]
  /\ issued' = issued + 1
  /\ excuse' = [excuse EXCEPT ![p] = \E d \in DOMAIN dbs : ~Reachable(d)]
  /\ alone' = [q \in Proc |-> IF q = p THEN \A o \in Proc \ {p} : Ended(o) ELSE alone[q]]
  /\ UNCHANGED <<setup, worktree, container, dbs, snaps, batch, faults, unowned, crossed, stuck>>

\* ensure_container, or the MSSQL one.
ContainerStep(p) ==
  /\ Available(p, setup.skip) \/ GetContainer(p) \/ CreateContainer(p) \/ WaitReady(p)
  /\ UNCHANGED <<setup, worktree, dbs, snaps, procVars, batch, issued, faults, history>>

TimeOut(p) ==
  /\ pc[p] = "wait" /\ container # "ready" /\ Goto(p, "failed")
  /\ excuse' = [excuse EXCEPT ![p] = TRUE]
  /\ UNCHANGED <<setup, worktree, container, dbs, snaps, procVars, batch, issued, faults, alone, unowned, crossed, stuck>>

ContainerBoots ==
  /\ Boot
  /\ UNCHANGED <<setup, worktree, dbs, snaps, procVars, batch, issued, faults, history>>
-----------------------------------------------------------------------------
(* What the steps on databases have in common *)

Frame == UNCHANGED <<setup, worktree, container, issued, faults>>
Up(p, label) == pc[p] = label /\ container = "ready"
NoHistory == UNCHANGED history

\* A command ends, and so does its session.
WithoutSession(p) == [d \in DOMAIN dbs |-> [dbs[d] EXCEPT !.users = @ \ {p}]]
Finish(p, outcome) ==
  /\ Goto(p, outcome) /\ dbs' = WithoutSession(p) /\ batch' = [batch EXCEPT ![p] = 0]

Kicked(d) == [q \in Proc |-> IF q \in dbs[d].users THEN 0 ELSE batch[q]]
-----------------------------------------------------------------------------
(* Which databases to drop *)

\* _dbs_with_prefix; snapshots are not listed.
ListDbs(p) ==
  /\ Up(p, "list")
  /\ todo' = [todo EXCEPT ![p] = {d \in DOMAIN dbs : Like(ProjectPrefix(Project(p)), d)}]
  /\ unowned' = [unowned EXCEPT ![p] = Unowned(p, todo'[p], worktree)]
  /\ Goto(p, IF cmd[p][2] = "orphaned" THEN "trees" ELSE "next")
  /\ Frame /\ UNCHANGED <<dbs, snaps, cmd, cur, seen, batch, excuse, alone, crossed, stuck>>

\* git worktree list
ListTrees(p) ==
  /\ pc[p] = "trees"
  /\ todo' = [todo EXCEPT ![p] = @ \ Expected(Project(p))]
  /\ Goto(p, "next")
  /\ Frame /\ NoHistory /\ UNCHANGED <<dbs, snaps, cmd, cur, seen, batch>>

NextDb(p) ==
  /\ pc[p] = "next"
  /\ IF todo[p] = {}
     THEN /\ Goto(p, IF cmd[p][1] = "ensure" THEN "check" ELSE "done")
          /\ cur' = [cur EXCEPT ![p] = OwnDb(p)] /\ UNCHANGED todo
     ELSE \E d \in todo[p] :
          /\ cur' = [cur EXCEPT ![p] = d] /\ todo' = [todo EXCEPT ![p] = @ \ {d}]
          /\ Goto(p, "drop")
  /\ Frame /\ NoHistory /\ UNCHANGED <<dbs, snaps, cmd, seen, batch>>
-----------------------------------------------------------------------------
(* _drop_database *)

Removed(d) ==
  /\ dbs' = Except(dbs, d) /\ stuck' = stuck \ {d} /\ Crossed(d)

\* Postgres: other sessions are terminated, and then the database is dropped.
Terminate(p) ==
  /\ Up(p, "drop") /\ ~mssql
  /\ IF Exists(cur[p]) THEN /\ dbs' = [dbs EXCEPT ![cur[p]].users = {}]
                            /\ batch' = Kicked(cur[p]) /\ Touched(p) /\ Hindered(p)
     ELSE UNCHANGED <<dbs, batch, alone, excuse>>
  /\ Goto(p, "dropping")
  /\ Frame /\ UNCHANGED <<snaps, procVars, unowned, crossed, stuck>>

\* SQL Server: the snapshots of a database have to go first.
LookForDb(p) ==
  /\ Up(p, "drop") /\ mssql
  /\ seen' = [seen EXCEPT ![p] = Snapshots(cur[p])]
  /\ Goto(p, IF Exists(cur[p]) THEN "snapshots" ELSE "next")
  /\ Frame /\ NoHistory /\ UNCHANGED <<dbs, snaps, cmd, todo, cur, batch>>

DropSnapshots(p) ==
  /\ Up(p, "snapshots")
  /\ IF seen[p] = {} THEN Goto(p, "single") /\ UNCHANGED <<snaps, seen, alone, excuse>>
     ELSE \E s \in seen[p] :
       /\ snaps' = Except(snaps, s) /\ seen' = [seen EXCEPT ![p] = @ \ {s}]
       /\ Touched(p) /\ Hindered(p) /\ UNCHANGED pc
  /\ Frame /\ UNCHANGED <<dbs, cmd, todo, cur, batch, unowned, crossed, stuck>>

\* SET SINGLE_USER WITH ROLLBACK IMMEDIATE, from a session in master: the one
\* seat stays free.  It cannot be set while somebody sits there.
SingleUser(p) ==
  /\ Up(p, "single")
  /\ IF Reachable(cur[p])
     THEN /\ dbs' = [dbs EXCEPT ![cur[p]].users = {}, ![cur[p]].mode = "single"]
          /\ batch' = Kicked(cur[p]) /\ Touched(p) /\ Hindered(p)
          /\ Goto(p, IF cmd[p][1] = "restore" THEN "revert" ELSE "dropping")
     ELSE Finish(p, "failed") /\ UNCHANGED <<alone, excuse>>
  /\ Frame /\ UNCHANGED <<snaps, procVars, unowned, crossed, stuck>>

\* DROP DATABASE IF EXISTS, refused while somebody is connected and, by SQL
\* Server, while there are snapshots.
DropDatabase(p) ==
  /\ Up(p, "dropping")
  /\ LET d == cur[p] IN
     \/ /\ ~Exists(d) /\ Goto(p, "next")
        /\ UNCHANGED <<dbs, batch, alone, excuse, crossed, stuck>>
     \/ /\ Exists(d) /\ dbs[d].users = {} /\ Snapshots(d) = {}
        /\ Removed(d) /\ Goto(p, "next")
        /\ Touched(p) /\ Hindered(p) /\ UNCHANGED batch
     \/ /\ Exists(d) /\ (dbs[d].users # {} \/ Snapshots(d) # {})
        /\ Finish(p, "failed")
        /\ stuck' = IF dbs[d].mode = "single" THEN stuck \cup {d} ELSE stuck
        /\ UNCHANGED <<alone, excuse, crossed>>
  /\ Frame /\ UNCHANGED <<snaps, procVars, unowned>>
-----------------------------------------------------------------------------
(* _ensure_database, _apply *)

CheckDatabase(p) ==
  /\ Up(p, "check")
  /\ Goto(p, IF Exists(cur[p]) THEN "open" ELSE "create")
  /\ Frame /\ NoHistory /\ UNCHANGED <<dbs, snaps, procVars, batch>>

\* Another process has created it since the look.  Postgres answers DuplicateDatabase,
\* which is no error, or, when the two CREATEs overlap, UniqueViolation, which is one
\* as anything is on SQL Server.
Outrun(p) ==
  \/ ~mssql /\ Goto(p, "open") /\ UNCHANGED <<dbs, batch>>
  \/ Finish(p, "failed")

CreateDatabase(p) ==
  /\ Up(p, "create")
  /\ IF Exists(cur[p]) THEN Outrun(p) /\ UNCHANGED <<excuse, alone>>
     ELSE /\ dbs' = With(dbs, cur[p], Database(Empty, "multi", {}))
          /\ Outruns(p) /\ Goto(p, "open") /\ Touched(p) /\ UNCHANGED batch
  /\ Frame /\ UNCHANGED <<snaps, procVars, unowned, crossed, stuck>>

\* A session in the database; it takes the seat of a SINGLE_USER one.
Open(p, label) ==
  IF Reachable(cur[p])
  THEN /\ dbs' = [dbs EXCEPT ![cur[p]].users = @ \cup {p}]
       /\ stuck' = IF dbs[cur[p]].mode = "single" THEN stuck \cup {cur[p]} ELSE stuck
       /\ Goto(p, label) /\ Touched(p) /\ Hindered(p) /\ UNCHANGED batch
  ELSE Finish(p, "failed") /\ UNCHANGED <<stuck, alone, excuse>>

Session(p, label) ==
  Up(p, label) /\ Exists(cur[p]) /\ p \in dbs[cur[p]].users

Connect(p) ==
  /\ Up(p, "open") /\ Open(p, "build")
  /\ Frame /\ UNCHANGED <<snaps, procVars, unowned, crossed>>

\* The script files, each in its own transaction, as often as wanted.
Build(p) ==
  /\ Session(p, "build")
  /\ dbs' = [dbs EXCEPT ![cur[p]].content.built = TRUE]
  /\ Goto(p, "rows") /\ Touched(p)
  /\ Frame /\ UNCHANGED <<snaps, procVars, batch, excuse, unowned, crossed, stuck>>

\* Mutant: a table that has rows is taken for seeded.
DeleteRows_Any(p) ==
  /\ Session(p, "rows")
  /\ IF cmd[p][2] # "force" /\ dbs[cur[p]].content.rows # 0
     THEN Finish(p, "done") /\ UNCHANGED alone
     ELSE /\ dbs' = [dbs EXCEPT ![cur[p]].content.rows = 0]
          /\ Goto(p, "insert") /\ Touched(p) /\ UNCHANGED batch
  /\ Frame /\ UNCHANGED <<snaps, procVars, excuse, unowned, crossed, stuck>>

\* _insert_test_data: as many rows as there should be are left alone.
DeleteRows(p) ==
  /\ Session(p, "rows")
  /\ IF cmd[p][2] # "force" /\ dbs[cur[p]].content.rows = Fixture
     THEN Finish(p, "done") /\ UNCHANGED alone
     ELSE /\ dbs' = [dbs EXCEPT ![cur[p]].content.rows = 0]
          /\ Goto(p, "insert") /\ Touched(p) /\ UNCHANGED batch
  /\ Frame /\ UNCHANGED <<snaps, procVars, excuse, unowned, crossed, stuck>>

\* Postgres takes all rows or none; SQL Server one after the other.
InsertRows(p) ==
  /\ Session(p, "insert")
  /\ IF mssql
     THEN /\ dbs' = [dbs EXCEPT ![cur[p]].content.rows = @ + 1]
          /\ Goto(p, IF Fixture = 1 THEN "close" ELSE "insert_rest")
     ELSE /\ dbs' = [dbs EXCEPT ![cur[p]].content.rows = @ + Fixture]
          /\ Goto(p, "close")
  /\ Touched(p)
  /\ Frame /\ UNCHANGED <<snaps, procVars, batch, excuse, unowned, crossed, stuck>>

InsertRest(p) ==
  /\ Session(p, "insert_rest")
  /\ dbs' = [dbs EXCEPT ![cur[p]].content.rows = @ + Fixture - 1]
  /\ Goto(p, "close") /\ Touched(p)
  /\ Frame /\ UNCHANGED <<snaps, procVars, batch, excuse, unowned, crossed, stuck>>

Close(p) ==
  /\ Session(p, "close") /\ Finish(p, "done")
  /\ Frame /\ NoHistory /\ UNCHANGED <<snaps, procVars>>
-----------------------------------------------------------------------------
(* snapshot_testdb, restore_testdb *)

Snapshot(p) == <<cur[p], cmd[p][2]>>

\* An earlier one of that name is replaced.
DropOldSnapshot(p) ==
  /\ Up(p, "snapshot")
  /\ IF Exists(cur[p])
     THEN /\ snaps' = Except(snaps, Snapshot(p))
          /\ Goto(p, "create_snapshot") /\ UNCHANGED <<dbs, batch>>
     ELSE Finish(p, "failed") /\ UNCHANGED snaps
  /\ Touched(p) /\ Hindered(p)
  /\ Frame /\ UNCHANGED <<procVars, unowned, crossed, stuck>>

\* What has been committed.
CreateSnapshot(p) ==
  /\ Up(p, "create_snapshot")
  /\ IF Reachable(cur[p]) /\ Snapshot(p) \notin DOMAIN snaps
     THEN /\ snaps' = With(snaps, Snapshot(p), dbs[cur[p]].content)
          /\ Finish(p, "done")
     ELSE Finish(p, "failed") /\ UNCHANGED snaps
  /\ Touched(p) /\ Hindered(p)
  /\ Frame /\ UNCHANGED <<procVars, unowned, crossed, stuck>>

\* Nothing is reverted but from the only snapshot.
CheckSnapshots(p) ==
  /\ Up(p, "restore")
  /\ IF Snapshots(cur[p]) = {Snapshot(p)}
     THEN Goto(p, "single") /\ UNCHANGED <<dbs, batch>>
     ELSE Finish(p, "failed")
  /\ Frame /\ NoHistory /\ UNCHANGED <<snaps, procVars>>

\* Mutant: a RESTORE that fails ends the command.
Revert_Bare(p) ==
  /\ Up(p, "revert")
  /\ IF Exists(cur[p]) /\ dbs[cur[p]].users = {} /\ Snapshots(cur[p]) = {Snapshot(p)}
     THEN dbs' = [dbs EXCEPT ![cur[p]].content = snaps[Snapshot(p)]]
          /\ Goto(p, "multi") /\ UNCHANGED batch
     ELSE Finish(p, "failed")
  /\ Touched(p) /\ Crossed(cur[p])
  /\ Frame /\ UNCHANGED <<snaps, procVars, excuse, unowned, stuck>>

\* Somebody may have come in or taken another snapshot; MULTI_USER comes next
\* either way.
Revert(p) ==
  /\ Up(p, "revert")
  /\ IF Exists(cur[p]) /\ dbs[cur[p]].users = {} /\ Snapshots(cur[p]) = {Snapshot(p)}
     THEN dbs' = [dbs EXCEPT ![cur[p]].content = snaps[Snapshot(p)]] /\ Goto(p, "multi")
     ELSE Goto(p, "multi_failed") /\ UNCHANGED dbs
  /\ Touched(p) /\ Crossed(cur[p])
  /\ Frame /\ UNCHANGED <<snaps, procVars, batch, excuse, unowned, stuck>>

MultiUser(p) ==
  /\ Up(p, "multi") \/ Up(p, "multi_failed")
  /\ IF Reachable(cur[p])
     THEN /\ dbs' = [dbs EXCEPT ![cur[p]].mode = "multi"]
          /\ stuck' = stuck \ {cur[p]}
          /\ Goto(p, IF pc[p] = "multi" THEN "done" ELSE "failed") /\ UNCHANGED batch
     ELSE Finish(p, "failed") /\ UNCHANGED stuck
  /\ Touched(p)
  /\ Frame /\ UNCHANGED <<snaps, procVars, excuse, unowned, crossed>>
-----------------------------------------------------------------------------
(* pgdb migrate apply --dialect mssql, with one script of Batches batches *)

\* applied_migrations: what is recorded is not pending.  With --ask a script whose
\* targets all exist is only recorded; the others, which the user confirms, and all
\* without --ask get a session.
ListPending(p) ==
  /\ Up(p, "migrate")
  /\ LET there == Exists(cur[p]) IN
     IF there /\ dbs[cur[p]].content.row THEN Finish(p, "done") /\ UNCHANGED <<cmd, stuck, alone, excuse>>
     ELSE IF cmd[p][2] = "ask" /\ there /\ dbs[cur[p]].content.effect = Batches
     THEN /\ cmd' = [cmd EXCEPT ![p] = <<"migrate", "mark">>]
          /\ Goto(p, "record") /\ UNCHANGED <<dbs, batch, stuck, alone, excuse>>
     ELSE Open(p, "batch") /\ UNCHANGED cmd
  /\ Frame /\ UNCHANGED <<snaps, todo, cur, seen, unowned, crossed>>

\* Another's open transaction is waited for.
Unlocked(p) == \A q \in Proc \ {p} : batch[q] = 0 \/ cur[q] # cur[p]

\* Mutant: a connection that commits every batch.
ExecuteBatch_Commits(p) ==
  /\ Session(p, "batch") /\ Unlocked(p)
  /\ LET n == batch[p] + 1 IN
     IF batch[p] = 0 /\ dbs[cur[p]].content.effect # 0 THEN Finish(p, "failed")
     ELSE /\ batch' = [batch EXCEPT ![p] = n]
          /\ dbs' = [dbs EXCEPT ![cur[p]].content.effect = n]
          /\ Goto(p, IF n = Batches THEN "commit" ELSE "batch")
  /\ Touched(p)
  /\ Frame /\ UNCHANGED <<snaps, procVars, excuse, unowned, crossed, stuck>>

\* A script that has been executed fails, and its transaction is rolled back.
ExecuteBatch(p) ==
  /\ Session(p, "batch") /\ Unlocked(p)
  /\ IF dbs[cur[p]].content.effect # 0 THEN Finish(p, "failed")
     ELSE /\ batch' = [batch EXCEPT ![p] = @ + 1]
          /\ Goto(p, IF batch[p] + 1 = Batches THEN "commit" ELSE "batch") /\ UNCHANGED dbs
  /\ Touched(p)
  /\ Frame /\ UNCHANGED <<snaps, procVars, excuse, unowned, crossed, stuck>>

Commit(p) ==
  /\ Session(p, "commit")
  /\ dbs' = [dbs EXCEPT ![cur[p]].content.effect = Batches, ![cur[p]].users = @ \ {p}]
  /\ batch' = [batch EXCEPT ![p] = 0]
  /\ Goto(p, "record") /\ Touched(p)
  /\ Frame /\ UNCHANGED <<snaps, procVars, excuse, unowned, crossed, stuck>>

\* record_applied, in a session of its own: nothing without a tracking table or
\* when the row is there.
Recorded(p) == Goto(p, IF cmd[p][2] = "mark" THEN "done" ELSE "verify")

CheckRow(p) ==
  /\ Up(p, "record")
  /\ IF Reachable(cur[p]) /\ (dbs[cur[p]].content.row \/ ~dbs[cur[p]].content.built)
     THEN Recorded(p) /\ UNCHANGED <<dbs, batch, stuck, alone, excuse>>
     ELSE Open(p, "insert_row")
  /\ Frame /\ UNCHANGED <<snaps, procVars, unowned, crossed>>

\* The row is the key: somebody else's since the check is an error.
InsertRow(p) ==
  /\ Session(p, "insert_row")
  /\ IF dbs[cur[p]].content.row THEN Finish(p, "failed")
     ELSE /\ dbs' = [dbs EXCEPT ![cur[p]].content.row = TRUE, ![cur[p]].users = @ \ {p}]
          /\ Recorded(p) /\ UNCHANGED batch
  /\ Touched(p)
  /\ Frame /\ UNCHANGED <<snaps, procVars, excuse, unowned, crossed, stuck>>

\* verify_created_tables
Verify(p) ==
  /\ Up(p, "verify")
  /\ Finish(p, IF Reachable(cur[p]) /\ dbs[cur[p]].content.effect = Batches THEN "done" ELSE "failed")
  /\ Frame /\ NoHistory /\ UNCHANGED <<snaps, procVars>>
-----------------------------------------------------------------------------
(* Failures, visitors, worktrees *)

\* A command between SINGLE_USER and MULTI_USER or DROP that does not go on.
LeftSingle(p) ==
  stuck' = IF pc[p] \in {"dropping", "revert", "multi", "multi_failed"} /\ Exists(cur[p])
              /\ dbs[cur[p]].mode = "single"
           THEN stuck \cup {cur[p]} ELSE stuck

SessionLost(p) ==
  /\ pc[p] \in {"build", "rows", "insert", "insert_rest", "close", "batch", "commit", "insert_row"}
  /\ container = "ready"
  /\ Exists(cur[p]) => p \notin dbs[cur[p]].users
  /\ Finish(p, "failed")
  /\ Frame /\ NoHistory /\ UNCHANGED <<snaps, procVars>>

\* Every step but these needs the server.
ServerLost(p) ==
  /\ ~Ended(p) /\ pc[p] \notin {"probe", "get", "run", "wait", "trees", "next"}
  /\ container # "ready"
  /\ Finish(p, "failed") /\ LeftSingle(p)
  /\ excuse' = [excuse EXCEPT ![p] = TRUE]
  /\ Frame /\ UNCHANGED <<snaps, procVars, alone, unowned, crossed>>

Fault == faults < setup.faults /\ faults' = faults + 1

Die(p) ==
  /\ Fault /\ ~Ended(p)
  /\ Finish(p, "idle") /\ LeftSingle(p)
  /\ UNCHANGED <<setup, worktree, container, issued, snaps, procVars, excuse, alone, unowned, crossed>>

StopContainer ==
  /\ Fault /\ container = "ready" /\ container' = "stopped"
  /\ dbs' = [d \in DOMAIN dbs |-> [dbs[d] EXCEPT !.users = {}]]
  /\ batch' = [p \in Proc |-> 0]
  /\ excuse' = [p \in Proc |-> TRUE]
  /\ UNCHANGED <<setup, worktree, issued, pc, snaps, procVars, alone, unowned, crossed, stuck>>

Visit(d) ==
  /\ Fault /\ container = "ready" /\ Reachable(d)
  /\ dbs' = [dbs EXCEPT ![d].users = @ \cup {"visitor"}]
  /\ stuck' = IF dbs[d].mode = "single" THEN stuck \cup {d} ELSE stuck
  /\ excuse' = [p \in Proc |-> TRUE]
  /\ UNCHANGED <<setup, worktree, container, issued, pc, snaps, procVars, batch, alone, unowned, crossed>>

VisitorLeaves(d) ==
  /\ "visitor" \in dbs[d].users
  /\ dbs' = [dbs EXCEPT ![d].users = @ \ {"visitor"}]
  /\ Frame /\ NoHistory /\ UNCHANGED <<pc, snaps, procVars, batch>>

\* Worktrees are added, removed, locked, or just deleted.
ChangeWorktree(p) ==
  /\ Fault
  /\ \E now \in {"here", "locked", "missing", "gone"} :
       now # worktree[p] /\ worktree' = [worktree EXCEPT ![p] = now]
  /\ unowned' = [q \in Proc |-> unowned[q] \cup Unowned(q, todo[q], worktree')]
  /\ UNCHANGED <<setup, container, issued, pc, dbs, snaps, procVars, batch, excuse, alone, crossed, stuck>>

Step(p) ==
  \/ Begin(p) \/ ContainerStep(p) \/ TimeOut(p)
  \/ ListDbs(p) \/ ListTrees(p) \/ NextDb(p)
  \/ Terminate(p) \/ LookForDb(p) \/ DropSnapshots(p) \/ SingleUser(p) \/ DropDatabase(p)
  \/ CheckDatabase(p) \/ CreateDatabase(p) \/ Connect(p) \/ Build(p)
  \/ DeleteRows(p) \/ InsertRows(p) \/ InsertRest(p) \/ Close(p)
  \/ DropOldSnapshot(p) \/ CreateSnapshot(p) \/ CheckSnapshots(p) \/ Revert(p) \/ MultiUser(p)
  \/ ListPending(p) \/ ExecuteBatch(p) \/ Commit(p) \/ CheckRow(p) \/ InsertRow(p) \/ Verify(p)
  \/ SessionLost(p) \/ ServerLost(p) \/ Die(p) \/ ChangeWorktree(p)

Next ==
  \/ \E p \in Proc : Step(p)
  \/ ContainerBoots \/ StopContainer
  \/ \E d \in DOMAIN dbs : Visit(d) \/ VisitorLeaves(d)

Spec == Init /\ [][Next]_vars
-----------------------------------------------------------------------------
(* Properties *)

Dropping(p) == pc[p] \in {"drop", "snapshots", "single", "dropping"}

\* clean --orphaned drops no database that has belonged to a worktree of the
\* project ever since the sweep listed it: locked worktrees count, and so do extra
\* databases; as the databases are listed before the worktrees, one that comes up
\* meanwhile together with its worktree is not taken for an orphan.
SweepSparesOwned ==
  \A p \in Proc : Dropping(p) /\ cmd[p] = <<"clean", "orphaned">> => cur[p] \in unowned[p]

\* A sweep takes no database of a project unless one project's slug goes on from
\* the other's ("a" and "a_b"), whatever a LIKE pattern makes of "_"; and it takes
\* all the databases of its own project when that one's slug is not cut off.
Nested(a, b) ==
  \/ Slugify(a) = Slugify(b)
  \/ IsPrefix(ProjectPrefix(a), ProjectPrefix(b)) \/ IsPrefix(ProjectPrefix(b), ProjectPrefix(a))

ProjectSwept ==
  \A p, q \in Proc :
    LET theirs == ExpectedDbNames(Project(q), {setup.ws[q].branch, CurrentBranch(q)}) IN
    /\ Dropping(p) /\ cmd[p][1] = "clean" /\ cur[p] \in theirs => Nested(Project(p), Project(q))
    /\ /\ cmd[p] = <<"clean", "all">> /\ pc[p] = "done" /\ alone[p]
       /\ Project(q) = Project(p) /\ Len(Normalize(Project(p))) <= MaxSlugLen
       => theirs \cap DOMAIN dbs = {}

\* ensure_testdb and reset_testdb fail only if somebody or something got in their
\* way: a client or another command in a database, a stopped container, or, on either
\* engine, a process that created the same database between their look and their CREATE.
\* One that nobody interferes with leaves everything built and every row there,
\* at whatever step an earlier command died; a reset leaves nothing else.
EnsureDelivers ==
  \A p \in Proc : cmd[p][1] = "ensure" =>
    /\ pc[p] = "failed" => excuse[p]
    /\ pc[p] = "done" /\ alone[p] =>
         /\ Exists(OwnDb(p))
         /\ LET is == dbs[OwnDb(p)].content IN
            /\ is.built /\ is.rows = Fixture
            /\ cmd[p][2] = "force" => is.effect = 0 /\ ~is.row

\* A database is in SINGLE_USER mode only while a command reverts or drops it,
\* unless that one died, somebody else took the seat, or the DROP was refused.
ModeRestored ==
  \A d \in DOMAIN dbs : dbs[d].mode = "single" =>
    \/ d \in stuck
    \/ \E p \in Proc : cur[p] = d /\ pc[p] \in {"dropping", "revert", "multi", "multi_failed"}

\* All batches of a migration have taken effect or none has, also in a snapshot,
\* whoever else migrates, takes snapshots, reverts or drops the database; and what
\* is recorded has taken effect, unless the database was reverted or dropped
\* between a script's commit and its row, which are two sessions'.
MigrationAtomic ==
  LET Sound(d, content) ==
        /\ content.effect \in {0, Batches}
        /\ content.row /\ d \notin crossed => content.effect = Batches
  IN /\ \A d \in DOMAIN dbs : Sound(d, dbs[d].content)
     /\ \A s \in DOMAIN snaps : Sound(s[1], snaps[s])
================================================================================
