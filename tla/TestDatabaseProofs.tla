--------------------------- MODULE TestDatabaseProofs ---------------------------
(***************************************************************************)
(* What TLAPS proves of TestDatabase, for any number of processes,         *)
(* projects and worktrees, commands and faults.                            *)
(***************************************************************************)
EXTENDS TestDatabase, WellFoundedInduction, TLAPS

\* Types.
Content == [built : BOOLEAN, rows : Nat, effect : Nat, row : BOOLEAN]
DatabaseType == [content : Content, mode : {"multi", "single"}, users : SUBSET (Proc \cup {"visitor"})]
DbTypes ==
  /\ \A d \in DOMAIN dbs : dbs[d] \in DatabaseType
  /\ \A s \in DOMAIN snaps : snaps[s] \in Content
ProcTypes ==
  /\ DOMAIN pc = Proc /\ DOMAIN cmd = Proc /\ DOMAIN todo = Proc
  /\ DOMAIN cur = Proc /\ DOMAIN seen = Proc /\ DOMAIN unowned = Proc
  /\ DOMAIN excuse = Proc /\ DOMAIN alone = Proc
TypeOK == DbTypes /\ ProcTypes

\* Where a command has set SINGLE_USER and not yet MULTI_USER.
Held == {"dropping", "revert", "multi", "multi_failed"}

\* A database in SINGLE_USER mode whose seat is taken is stuck.
ModeInv ==
  \A d \in DOMAIN dbs : dbs[d].mode = "single" =>
    \/ d \in stuck
    \/ /\ dbs[d].users = {}
       /\ \E p \in Proc : cur[p] = d /\ pc[p] \in Held

\* A script whose row is still to come has taken effect, or somebody crossed it.
RecordInv ==
  \A p \in Proc : pc[p] \in {"record", "insert_row"} =>
    \/ cur[p] \in crossed
    \/ Exists(cur[p]) /\ dbs[cur[p]].content.effect = Batches

\* What MigrationAtomic says of one database, or of a snapshot of it.
Sound(d, content) ==
  /\ content.effect \in {0, Batches}
  /\ content.row /\ d \notin crossed => content.effect = Batches
SoundInv ==
  /\ \A d \in DOMAIN dbs : Sound(d, dbs[d].content)
  /\ \A s \in DOMAIN snaps : Sound(s[1], snaps[s])

\* The labels a command can be at.
FlowInv ==
  \A p \in Proc :
    /\ pc[p] \in {"probe", "get", "run", "wait"} => cmd[p][1] = "ensure"
    /\ pc[p] \in {"restore", "revert", "multi", "multi_failed"} => cmd[p][1] = "restore"
    /\ pc[p] \in {"list", "trees"} => cmd[p][1] = "clean"
    /\ pc[p] \in {"check", "create", "open", "build", "rows", "insert", "insert_rest", "close"} =>
         cmd[p][1] = "ensure"
    /\ cmd[p][1] = "ensure" => pc[p] \in {"probe", "get", "run", "wait", "next", "drop", "snapshots", "single",
         "dropping", "check", "create", "open", "build", "rows", "insert", "insert_rest", "close", 
         "idle", "done", "failed"}

\* What an orphaned sweep still goes through has been without an owner.
SweepInv ==
  \A p \in Proc : cmd[p] = <<"clean", "orphaned">> =>
    /\ pc[p] = "trees" => Unowned(p, todo[p], worktree) \subseteq unowned[p]
    /\ pc[p] = "next" \/ Dropping(p) => todo[p] \subseteq unowned[p]
    /\ Dropping(p) => cur[p] \in unowned[p]

\* Postgres has no snapshots.
EngineInv ==
  ~mssql => DOMAIN snaps = {} /\ \A p \in Proc : pc[p] \notin {"snapshot", "create_snapshot"}

\* What a command that makes a database has found out of the way, as long as nobody
\* gives it a reason to fail.
Working == {"build", "rows", "insert", "insert_rest", "close"}
Unhindered(p) ==
  /\ pc[p] \notin Working \cup {"done", "idle"} => \A d \in DOMAIN dbs : Reachable(d)
  /\ pc[p] = "snapshots" => Exists(cur[p]) /\ Snapshots(cur[p]) \subseteq seen[p]
  /\ pc[p] = "single" => Exists(cur[p]) /\ Snapshots(cur[p]) = {}
  /\ pc[p] = "dropping" => Snapshots(cur[p]) = {} /\ (Exists(cur[p]) => dbs[cur[p]].users = {})
  /\ pc[p] = "create" => ~Exists(cur[p])
  /\ pc[p] = "open" => Exists(cur[p])
  /\ pc[p] \in Working => Exists(cur[p]) /\ p \in dbs[cur[p]].users
  /\ pc[p] # "failed"
ExcuseInv == \A p \in Proc : cmd[p][1] = "ensure" => excuse[p] \/ Unhindered(p)

\* What it has done so far, as long as nobody else touches a database.
Making == {"check", "create", "open"} \cup Working
Undisturbed(p) ==
  LET is == dbs[OwnDb(p)].content IN
  /\ pc[p] \in Making => cur[p] = OwnDb(p)
  /\ pc[p] \in Working \cup {"open", "done"} => Exists(OwnDb(p))
  /\ pc[p] \in {"rows", "insert", "insert_rest", "close", "done"} => is.built
  /\ pc[p] = "insert" => is.rows = 0
  /\ pc[p] = "insert_rest" => is.rows = 1
  /\ pc[p] \in {"close", "done"} => is.rows = Fixture
  /\ cmd[p][2] = "force" =>
       /\ pc[p] \in {"probe", "get", "run", "wait", "next"} => todo[p] \subseteq {OwnDb(p)}
       /\ pc[p] \in {"probe", "get", "run", "wait"} => OwnDb(p) \in todo[p]
       /\ pc[p] = "next" => OwnDb(p) \in todo[p] \/ ~Exists(OwnDb(p))
       /\ Dropping(p) => cur[p] = OwnDb(p) /\ todo[p] = {}
       /\ pc[p] \in {"check", "create"} => ~Exists(OwnDb(p))
       /\ pc[p] \in Working \cup {"open", "done"} => is.effect = 0 /\ ~is.row
AloneInv == \A p \in Proc : cmd[p][1] = "ensure" /\ alone[p] => Undisturbed(p)
-----------------------------------------------------------------------------
(* Types *)

\* A new database is empty.
LEMMA EmptyType == Empty \in Content
  BY DEF Empty, Content

\* What the databases and snapshots hold at the start.
Full == [Empty EXCEPT !.built = TRUE, !.rows = Fixture]
\* A database of an earlier command is of the type of databases, and nothing is recorded in it.
LEMMA FullType == /\ Full \in Content
                  /\ \A effect \in {0, Batches} : /\ [Full EXCEPT !.effect = effect] \in Content
                                                  /\ [Full EXCEPT !.effect = effect].effect = effect
                                                  /\ [Full EXCEPT !.effect = effect].row = FALSE
                  /\ Full.effect = 0 /\ Full.row = FALSE
  <1>1. /\ Full \in Content /\ Full.effect = 0 /\ Full.row = FALSE
    BY RowsAssumption DEF Full, Empty, Content
  <1> QED
    BY <1>1 DEF Content, Batches

\* What there is at the start: such databases, and on SQL Server snapshots of some.
LEMMA InitDbs ==
  ASSUME Init
  PROVE  \E old, taken : \E effect \in {0, Batches} :
           /\ dbs = [d \in old |-> Database([Full EXCEPT !.effect = effect], "multi", {})]
           /\ snaps = [s \in taken |-> Full]
           /\ ~mssql => taken = {}
  <1> DEFINE Dbs(old, effect) == dbs = [d \in old |-> Database([Full EXCEPT !.effect = effect], "multi", {})]
             Snaps(taken) == snaps = [s \in taken |-> Full]
             own == {OwnDb(p) : p \in Proc}
             extra == {OwnDb(Caller) \o s : s \in Extras}
             Taken(old) == IF mssql THEN SUBSET ((old \cap {OwnDb(Caller)}) \X {"s"}) ELSE {{}}
  <1>1. \E old \in (SUBSET own) \cup {extra}, effect \in {0, Batches} :
          /\ container = "absent" => old = {}
          /\ effect # 0 => mssql /\ old = own /\ own = {OwnDb(Caller)}
          /\ Dbs(old, effect)
          /\ \E taken \in Taken(old) : Snaps(taken)
    BY Zenon DEF Init, Full
  <1>2. \A old : \A taken \in Taken(old) : ~mssql => taken = {}
    OBVIOUS
  <1> HIDE DEF own, extra, Taken, Dbs, Snaps
  <1>3. \E old, taken : \E effect \in {0, Batches} :
          Dbs(old, effect) /\ Snaps(taken) /\ (~mssql => taken = {})
    <2>1. PICK old : \E effect \in {0, Batches} : Dbs(old, effect) /\ \E taken \in Taken(old) : Snaps(taken)
      BY <1>1, Zenon
    <2>2. PICK taken \in Taken(old) : Snaps(taken)
      BY <2>1, Zenon
    <2>3. ~mssql => taken = {}
      BY <1>2, <2>2, Zenon
    <2> QED
      BY <2>1, <2>2, <2>3, Zenon
  <1> QED
    BY <1>3, Zenon DEF Dbs, Snaps

\* The types hold initially.
THEOREM InitTypes == Init => TypeOK
  <1> SUFFICES ASSUME Init PROVE TypeOK
    OBVIOUS
  <1>1. ProcTypes
    BY DEF Init, ProcTypes
  <1>2. DbTypes
    BY InitDbs, FullType DEF DbTypes, DatabaseType, Database
  <1> QED
    BY <1>1, <1>2 DEF TypeOK

-----------------------------------------------------------------------------
(* What the steps do, value by value *)

\* A process goes on.
Moves(p, label) ==
  DOMAIN pc' = Proc /\ pc'[p] = label /\ \A q \in Proc : q # p => pc'[q] = pc[q]

\* A command ends: its session is gone, and everything else stays.
Finished(p, outcome) ==
  /\ Moves(p, outcome)
  /\ DOMAIN dbs' = DOMAIN dbs
  /\ \A d \in DOMAIN dbs :
       /\ dbs'[d] \in DatabaseType /\ dbs'[d].users = dbs[d].users \ {p}
       /\ dbs'[d].content = dbs[d].content /\ dbs'[d].mode = dbs[d].mode

\* One database becomes another; the rest stay.
Becomes(c, content, mode, users) ==
  /\ c \in DOMAIN dbs /\ DOMAIN dbs' = DOMAIN dbs
  /\ \A d \in DOMAIN dbs : d # c => dbs'[d] = dbs[d]
  /\ dbs'[c] \in DatabaseType
  /\ dbs'[c].content = content /\ dbs'[c].mode = mode /\ dbs'[c].users = users

\* Going on changes the place of one process.
LEMMA GotoEffect ==
  ASSUME TypeOK, NEW p \in Proc, NEW label, Goto(p, label)
  PROVE  Moves(p, label)
  BY DEF TypeOK, ProcTypes, Goto, Moves

\* Finishing takes a process out of every database, and changes nothing else in them.
LEMMA FinishEffect ==
  ASSUME TypeOK, NEW p \in Proc, NEW outcome, Finish(p, outcome)
  PROVE  Finished(p, outcome)
  <1>1. Goto(p, outcome) /\ dbs' = WithoutSession(p)
    BY DEF Finish
  <1> QED
    BY <1>1, GotoEffect DEF TypeOK, DbTypes, DatabaseType, Finished, WithoutSession

\* The shapes that a change of a database has.
LEMMA UsersEffect ==
  ASSUME TypeOK, NEW c \in DOMAIN dbs, NEW users \in SUBSET (Proc \cup {"visitor"}),
         dbs' = [dbs EXCEPT ![c].users = users]
  PROVE  Becomes(c, dbs[c].content, dbs[c].mode, users)
  BY DEF TypeOK, DbTypes, DatabaseType, Becomes

\* SET SINGLE_USER throws everybody out.
LEMMA SingleEffect ==
  ASSUME TypeOK, NEW c \in DOMAIN dbs,
         dbs' = [dbs EXCEPT ![c].users = {}, ![c].mode = "single"]
  PROVE  Becomes(c, dbs[c].content, "single", {})
  BY DEF TypeOK, DbTypes, DatabaseType, Becomes

\* SET MULTI_USER throws nobody out.
LEMMA MultiEffect ==
  ASSUME TypeOK, NEW c \in DOMAIN dbs, dbs' = [dbs EXCEPT ![c].mode = "multi"]
  PROVE  Becomes(c, dbs[c].content, "multi", dbs[c].users)
  BY DEF TypeOK, DbTypes, DatabaseType, Becomes

\* A database gets another content.
LEMMA ContentEffect ==
  ASSUME TypeOK, NEW c \in DOMAIN dbs, NEW content \in Content,
         dbs' = [dbs EXCEPT ![c].content = content]
  PROVE  Becomes(c, content, dbs[c].mode, dbs[c].users)
  BY DEF TypeOK, DbTypes, DatabaseType, Becomes

\* It is built.
LEMMA BuiltEffect ==
  ASSUME TypeOK, NEW c \in DOMAIN dbs, dbs' = [dbs EXCEPT ![c].content.built = TRUE]
  PROVE  Becomes(c, [dbs[c].content EXCEPT !.built = TRUE], dbs[c].mode, dbs[c].users)
  <1> DEFINE content == [dbs[c].content EXCEPT !.built = TRUE]
  <1>1. content \in Content
    BY DEF TypeOK, DbTypes, DatabaseType, Content
  <1>2. dbs' = [dbs EXCEPT ![c].content = content]
    OBVIOUS
  <1> QED
    BY <1>1, <1>2, ContentEffect

\* It has other rows.
LEMMA RowsEffect ==
  ASSUME TypeOK, NEW c \in DOMAIN dbs, NEW n \in Nat, dbs' = [dbs EXCEPT ![c].content.rows = n]
  PROVE  Becomes(c, [dbs[c].content EXCEPT !.rows = n], dbs[c].mode, dbs[c].users)
  BY DEF TypeOK, DbTypes, DatabaseType, Content, Becomes

\* The same, and a session on it ends.
LEMMA SessionEffect ==
  ASSUME TypeOK, NEW c \in DOMAIN dbs, NEW p, NEW content \in Content,
         dbs' = [dbs EXCEPT ![c].content = content, ![c].users = @ \ {p}]
  PROVE  Becomes(c, content, dbs[c].mode, dbs[c].users \ {p})
  BY DEF TypeOK, DbTypes, DatabaseType, Becomes

\* A migration takes effect in it, and its session ends.
LEMMA CommitEffect ==
  ASSUME TypeOK, NEW c \in DOMAIN dbs, NEW p \in Proc,
         dbs' = [dbs EXCEPT ![c].content.effect = Batches, ![c].users = @ \ {p}]
  PROVE  Becomes(c, [dbs[c].content EXCEPT !.effect = Batches], dbs[c].mode, dbs[c].users \ {p})
  <1> DEFINE content == [dbs[c].content EXCEPT !.effect = Batches]
  <1>1. content \in Content
    BY DEF TypeOK, DbTypes, DatabaseType, Content, Batches
  <1>2. dbs' = [dbs EXCEPT ![c].content = content, ![c].users = @ \ {p}]
    OBVIOUS
  <1> HIDE DEF content
  <1>3. Becomes(c, content, dbs[c].mode, dbs[c].users \ {p})
    BY <1>1, <1>2, SessionEffect
  <1> QED
    BY <1>3 DEF content

\* A migration is recorded in it, and the session that did it ends.
LEMMA RowEffect ==
  ASSUME TypeOK, NEW c \in DOMAIN dbs, NEW p \in Proc,
         dbs' = [dbs EXCEPT ![c].content.row = TRUE, ![c].users = @ \ {p}]
  PROVE  Becomes(c, [dbs[c].content EXCEPT !.row = TRUE], dbs[c].mode, dbs[c].users \ {p})
  <1> DEFINE content == [dbs[c].content EXCEPT !.row = TRUE]
  <1>1. content \in Content
    BY DEF TypeOK, DbTypes, DatabaseType, Content
  <1>2. dbs' = [dbs EXCEPT ![c].content = content, ![c].users = @ \ {p}]
    OBVIOUS
  <1> HIDE DEF content
  <1>3. Becomes(c, content, dbs[c].mode, dbs[c].users \ {p})
    BY <1>1, <1>2, SessionEffect
  <1> QED
    BY <1>3 DEF content

\* A database is added; the others stay.
LEMMA CreateEffect ==
  ASSUME TypeOK, NEW c, dbs' = With(dbs, c, Database(Empty, "multi", {}))
  PROVE  /\ DOMAIN dbs' = DOMAIN dbs \cup {c}
         /\ \A d \in DOMAIN dbs : d # c => dbs'[d] = dbs[d]
         /\ dbs'[c] \in DatabaseType /\ dbs'[c].mode = "multi" /\ dbs'[c].users = {}
         /\ dbs'[c].content = Empty
  BY EmptyType DEF With, DatabaseType, Database

\* A session is opened, if there is a seat.
Opened(p, label) ==
  LET c == cur[p] IN
  \/ /\ Reachable(c) /\ Moves(p, label) /\ Touched(p) /\ Hindered(p)
     /\ Becomes(c, dbs[c].content, dbs[c].mode, dbs[c].users \cup {p})
     /\ stuck' = IF dbs[c].mode = "single" THEN stuck \cup {c} ELSE stuck
  \/ ~Reachable(c) /\ Finished(p, "failed") /\ UNCHANGED <<stuck, alone, excuse>>

\* Opening a session takes a seat, or fails.
LEMMA OpenEffect ==
  ASSUME TypeOK, NEW p \in Proc, NEW label, Open(p, label)
  PROVE  Opened(p, label)
  <1>1. CASE Reachable(cur[p])
    <2>1. cur[p] \in DOMAIN dbs /\ dbs[cur[p]].users \cup {p} \in SUBSET (Proc \cup {"visitor"})
      BY <1>1 DEF Reachable, Exists, TypeOK, DbTypes, DatabaseType
    <2>2. dbs' = [dbs EXCEPT ![cur[p]].users = dbs[cur[p]].users \cup {p}] /\ Goto(p, label)
      BY <1>1 DEF Open
    <2>3. Becomes(cur[p], dbs[cur[p]].content, dbs[cur[p]].mode, dbs[cur[p]].users \cup {p})
      BY <2>1, <2>2, UsersEffect
    <2>4. Moves(p, label)
      BY <2>2, GotoEffect
    <2> QED
      BY <1>1, <2>3, <2>4 DEF Open, Opened
  <1>2. CASE ~Reachable(cur[p])
    BY <1>2, FinishEffect DEF Open, Opened
  <1> QED
    BY <1>1, <1>2

\* The sessions of a database to drop are terminated.
TerminateDoes(p) ==
  /\ Up(p, "drop") /\ ~mssql /\ Moves(p, "dropping")
  /\ IF Exists(cur[p])
     THEN Becomes(cur[p], dbs[cur[p]].content, dbs[cur[p]].mode, {}) /\ Touched(p) /\ Hindered(p)
     ELSE UNCHANGED <<dbs, alone, excuse>>
  /\ UNCHANGED <<setup, worktree, container, snaps, cmd, todo, cur, seen, unowned, crossed, stuck>>

\* That is what Terminate does.
LEMMA TerminateStep == ASSUME TypeOK, NEW p \in Proc, Terminate(p) PROVE TerminateDoes(p)
  <1>1. CASE Exists(cur[p])
    <2>1. cur[p] \in DOMAIN dbs /\ dbs' = [dbs EXCEPT ![cur[p]].users = {}]
      BY <1>1 DEF Terminate, Reachable, Exists, Session
    <2>2. Moves(p, "dropping")
      BY <1>1, GotoEffect DEF Terminate
    <2> QED
      BY <1>1, <2>1, <2>2, UsersEffect DEF Terminate, TerminateDoes, Frame, procVars
  <1>2. CASE ~(Exists(cur[p]))
    <2>1. Moves(p, "dropping")
      BY <1>2, GotoEffect, FinishEffect DEF Terminate
    <2> QED
      BY <1>2, <2>1 DEF Terminate, TerminateDoes, Frame, procVars
  <1> QED
    BY <1>1, <1>2

\* The mode is set, and with it everybody is thrown out.
SingleUserDoes(p) ==
  /\ Up(p, "single")
  /\ IF Reachable(cur[p])
     THEN /\ Becomes(cur[p], dbs[cur[p]].content, "single", {}) /\ Touched(p) /\ Hindered(p)
          /\ Moves(p, IF cmd[p][1] = "restore" THEN "revert" ELSE "dropping")
     ELSE Finished(p, "failed") /\ UNCHANGED <<alone, excuse>>
  /\ UNCHANGED <<setup, worktree, container, snaps, cmd, todo, cur, seen, unowned, crossed, stuck>>

\* That is what SingleUser does.
LEMMA SingleUserStep == ASSUME TypeOK, NEW p \in Proc, SingleUser(p) PROVE SingleUserDoes(p)
  <1>1. CASE Reachable(cur[p])
    <2>1. cur[p] \in DOMAIN dbs /\ dbs' = [dbs EXCEPT ![cur[p]].users = {}, ![cur[p]].mode = "single"]
      BY <1>1 DEF SingleUser, Reachable, Exists, Session
    <2>2. Moves(p, IF cmd[p][1] = "restore" THEN "revert" ELSE "dropping")
      BY <1>1, GotoEffect DEF SingleUser
    <2> QED
      BY <1>1, <2>1, <2>2, SingleEffect DEF SingleUser, SingleUserDoes, Frame, procVars
  <1>2. CASE ~(Reachable(cur[p]))
    <2>1. Finished(p, "failed")
      BY <1>2, GotoEffect, FinishEffect DEF SingleUser
    <2> QED
      BY <1>2, <2>1 DEF SingleUser, SingleUserDoes, Frame, procVars
  <1> QED
    BY <1>1, <1>2

\* DROP DATABASE.
DropDatabaseDoes(p) ==
  /\ Up(p, "dropping")
  /\ \/ ~Exists(cur[p]) /\ Moves(p, "next") /\ UNCHANGED <<dbs, alone, excuse, crossed, stuck>>
     \/ /\ Exists(cur[p]) /\ dbs[cur[p]].users = {} /\ Snapshots(cur[p]) = {}
        /\ DOMAIN dbs' = DOMAIN dbs \ {cur[p]}
        /\ \A d \in DOMAIN dbs : d # cur[p] => dbs'[d] = dbs[d]
        /\ stuck' = stuck \ {cur[p]} /\ Crossed(cur[p])
        /\ Moves(p, "next") /\ Touched(p) /\ Hindered(p)
     \/ /\ Exists(cur[p]) /\ (dbs[cur[p]].users # {} \/ Snapshots(cur[p]) # {})
        /\ Finished(p, "failed")
        /\ stuck' = IF dbs[cur[p]].mode = "single" THEN stuck \cup {cur[p]} ELSE stuck
        /\ UNCHANGED <<alone, excuse, crossed>>
  /\ UNCHANGED <<setup, worktree, container, snaps, cmd, todo, cur, seen, unowned>>

\* That is what DropDatabase does.
LEMMA DropDatabaseStep == ASSUME TypeOK, NEW p \in Proc, DropDatabase(p) PROVE DropDatabaseDoes(p)
  <1>1. CASE ~Exists(cur[p])
    BY <1>1, GotoEffect DEF DropDatabase, DropDatabaseDoes, Frame, procVars
  <1>2. CASE Exists(cur[p]) /\ dbs[cur[p]].users = {} /\ Snapshots(cur[p]) = {}
    <2>1. Moves(p, "next")
      BY <1>2, GotoEffect DEF DropDatabase
    <2> QED
      BY <1>2, <2>1 DEF DropDatabase, DropDatabaseDoes, Removed, Except, Frame, procVars
  <1>3. CASE Exists(cur[p]) /\ ~(dbs[cur[p]].users = {} /\ Snapshots(cur[p]) = {})
    BY <1>3, FinishEffect DEF DropDatabase, DropDatabaseDoes, Frame, procVars
  <1> QED
    BY <1>1, <1>2, <1>3

\* CREATE DATABASE.
CreateDatabaseDoes(p) ==
  /\ Up(p, "create")
  /\ IF Exists(cur[p])
     THEN /\ Finished(p, "failed") \/ (Moves(p, "open") /\ UNCHANGED dbs)
          /\ UNCHANGED <<excuse, alone>>
     ELSE /\ DOMAIN dbs' = DOMAIN dbs \cup {cur[p]}
          /\ \A d \in DOMAIN dbs : d # cur[p] => dbs'[d] = dbs[d]
          /\ dbs'[cur[p]] \in DatabaseType /\ dbs'[cur[p]].content = Empty
          /\ dbs'[cur[p]].mode = "multi" /\ dbs'[cur[p]].users = {}
          /\ Outruns(p) /\ Moves(p, "open") /\ Touched(p)
  /\ UNCHANGED <<setup, worktree, container, snaps, cmd, todo, cur, seen, unowned, crossed, stuck>>

\* That is what CreateDatabase does.
LEMMA CreateDatabaseStep == ASSUME TypeOK, NEW p \in Proc, CreateDatabase(p) PROVE CreateDatabaseDoes(p)
  <1>1. CASE ~Exists(cur[p])
    <2>1. dbs' = With(dbs, cur[p], Database(Empty, "multi", {}))
      BY <1>1 DEF CreateDatabase
    <2>2. Moves(p, "open")
      BY <1>1, GotoEffect DEF CreateDatabase
    <2> QED
      BY <1>1, <2>1, <2>2, CreateEffect DEF CreateDatabase, CreateDatabaseDoes, Frame, procVars
  <1>2. CASE Exists(cur[p])
    <2>1. Finished(p, "failed") \/ (Moves(p, "open") /\ UNCHANGED dbs)
      BY <1>2, GotoEffect, FinishEffect DEF CreateDatabase, Outrun
    <2> QED
      BY <1>2, <2>1 DEF CreateDatabase, CreateDatabaseDoes, Frame, procVars
  <1> QED
    BY <1>1, <1>2

\* A session to build in.
ConnectDoes(p) ==
  /\ Up(p, "open") /\ Opened(p, "build")
  /\ UNCHANGED <<setup, worktree, container, snaps, cmd, todo, cur, seen, unowned, crossed>>

\* That is what Connect does.
LEMMA ConnectStep == ASSUME TypeOK, NEW p \in Proc, Connect(p) PROVE ConnectDoes(p)
  BY OpenEffect DEF Connect, ConnectDoes, Frame, procVars

\* The script files.
BuildDoes(p) ==
  /\ Session(p, "build") /\ Moves(p, "rows") /\ Touched(p)
  /\ Becomes(cur[p], [dbs[cur[p]].content EXCEPT !.built = TRUE], dbs[cur[p]].mode, dbs[cur[p]].users)
  /\ UNCHANGED <<setup, worktree, container, snaps, cmd, todo, cur, seen, excuse, unowned, crossed, stuck>>

\* That is what Build does.
LEMMA BuildStep == ASSUME TypeOK, NEW p \in Proc, Build(p) PROVE BuildDoes(p)
  <1>1. cur[p] \in DOMAIN dbs /\ dbs' = [dbs EXCEPT ![cur[p]].content.built = TRUE]
    BY DEF Build, Exists, Session
  <1>2. Moves(p, "rows")
    BY GotoEffect DEF Build
  <1> QED
    BY <1>1, <1>2, BuiltEffect DEF Build, BuildDoes, Frame, procVars

\* The rows, if there are not as many as there should be.
DeleteRowsDoes(p) ==
  /\ Session(p, "rows")
  /\ IF cmd[p][2] = "force" \/ dbs[cur[p]].content.rows # Fixture
     THEN /\ Becomes(cur[p], [dbs[cur[p]].content EXCEPT !.rows = 0], dbs[cur[p]].mode, dbs[cur[p]].users)
          /\ Moves(p, "insert") /\ Touched(p)
     ELSE Finished(p, "done") /\ UNCHANGED alone
  /\ UNCHANGED <<setup, worktree, container, snaps, cmd, todo, cur, seen, excuse, unowned, crossed, stuck>>

\* That is what DeleteRows does.
LEMMA DeleteRowsStep == ASSUME TypeOK, NEW p \in Proc, DeleteRows(p) PROVE DeleteRowsDoes(p)
  <1>1. CASE cmd[p][2] = "force" \/ dbs[cur[p]].content.rows # Fixture
    <2>1. cur[p] \in DOMAIN dbs /\ dbs' = [dbs EXCEPT ![cur[p]].content.rows = 0]
      BY <1>1 DEF DeleteRows, Reachable, Exists, Session
    <2>2. Moves(p, "insert")
      BY <1>1, GotoEffect DEF DeleteRows
    <2> QED
      BY <1>1, <2>1, <2>2, RowsEffect DEF DeleteRows, DeleteRowsDoes, Frame, procVars
  <1>2. CASE ~(cmd[p][2] = "force" \/ dbs[cur[p]].content.rows # Fixture)
    <2>1. Finished(p, "done")
      BY <1>2, GotoEffect, FinishEffect DEF DeleteRows
    <2> QED
      BY <1>2, <2>1 DEF DeleteRows, DeleteRowsDoes, Frame, procVars
  <1> QED
    BY <1>1, <1>2

\* All rows at once, or the first of them.
InsertRowsDoes(p) ==
  /\ Session(p, "insert") /\ Touched(p)
  /\ LET more == IF mssql THEN 1 ELSE Fixture IN
       /\ dbs[cur[p]].content.rows + more \in Nat
       /\ Becomes(cur[p], [dbs[cur[p]].content EXCEPT !.rows = dbs[cur[p]].content.rows + more], dbs[cur[p]].mode, dbs[cur[p]].users)
  /\ Moves(p, IF mssql /\ Fixture # 1 THEN "insert_rest" ELSE "close")
  /\ UNCHANGED <<setup, worktree, container, snaps, cmd, todo, cur, seen, excuse, unowned, crossed, stuck>>

\* That is what InsertRows does.
LEMMA InsertRowsStep == ASSUME TypeOK, NEW p \in Proc, InsertRows(p) PROVE InsertRowsDoes(p)
  <1> DEFINE n == dbs[cur[p]].content.rows
             more == IF mssql THEN 1 ELSE Fixture
  <1>1. cur[p] \in DOMAIN dbs /\ dbs[cur[p]] \in DatabaseType
    BY DEF InsertRows, Session, Exists, TypeOK, DbTypes
  <1>2. n + more \in Nat
    BY <1>1, RowsAssumption DEF DatabaseType, Content
  <1>3. dbs' = [dbs EXCEPT ![cur[p]].content.rows = n + more]
    BY DEF InsertRows
  <1>4. Becomes(cur[p], [dbs[cur[p]].content EXCEPT !.rows = n + more], dbs[cur[p]].mode, dbs[cur[p]].users)
    BY <1>1, <1>2, <1>3, RowsEffect
  <1>5. Goto(p, IF mssql /\ Fixture # 1 THEN "insert_rest" ELSE "close")
    BY DEF InsertRows
  <1>6. Moves(p, IF mssql /\ Fixture # 1 THEN "insert_rest" ELSE "close")
    BY <1>5, GotoEffect
  <1> QED
    BY <1>2, <1>4, <1>6 DEF InsertRows, InsertRowsDoes, Frame, procVars

\* The other rows.
InsertRestDoes(p) ==
  /\ Session(p, "insert_rest") /\ Moves(p, "close") /\ Touched(p)
  /\ dbs[cur[p]].content.rows + Fixture - 1 \in Nat
  /\ Becomes(cur[p], [dbs[cur[p]].content EXCEPT !.rows = dbs[cur[p]].content.rows + Fixture - 1], dbs[cur[p]].mode, dbs[cur[p]].users)
  /\ UNCHANGED <<setup, worktree, container, snaps, cmd, todo, cur, seen, excuse, unowned, crossed, stuck>>

\* That is what InsertRest does.
LEMMA InsertRestStep == ASSUME TypeOK, NEW p \in Proc, InsertRest(p) PROVE InsertRestDoes(p)
  <1> DEFINE n == dbs[cur[p]].content.rows
  <1>1. cur[p] \in DOMAIN dbs /\ dbs[cur[p]] \in DatabaseType
    BY DEF InsertRest, Session, Exists, TypeOK, DbTypes
  <1>2. n + Fixture - 1 \in Nat
    BY <1>1, RowsAssumption DEF DatabaseType, Content
  <1>3. dbs' = [dbs EXCEPT ![cur[p]].content.rows = n + Fixture - 1]
    BY DEF InsertRest
  <1>4. Becomes(cur[p], [dbs[cur[p]].content EXCEPT !.rows = n + Fixture - 1], dbs[cur[p]].mode, dbs[cur[p]].users)
    BY <1>1, <1>2, <1>3, RowsEffect
  <1>5. Moves(p, "close")
    BY GotoEffect DEF InsertRest
  <1> QED
    BY <1>2, <1>4, <1>5 DEF InsertRest, InsertRestDoes, Frame, procVars

\* The session is closed.
CloseDoes(p) ==
  /\ Session(p, "close") /\ Finished(p, "done")
  /\ UNCHANGED <<setup, worktree, container, snaps, cmd, todo, cur, seen, excuse, alone, unowned, crossed, stuck>>

\* That is what Close does.
LEMMA CloseStep == ASSUME TypeOK, NEW p \in Proc, Close(p) PROVE CloseDoes(p)
  BY GotoEffect, FinishEffect DEF Close, CloseDoes, Frame, NoHistory, history, procVars

\* A snapshot of that name goes.
DropOldSnapshotDoes(p) ==
  /\ Up(p, "snapshot") /\ Touched(p) /\ Hindered(p)
  /\ IF Exists(cur[p])
     THEN /\ DOMAIN snaps' = DOMAIN snaps \ {Snapshot(p)}
          /\ \A s \in DOMAIN snaps : s # Snapshot(p) => snaps'[s] = snaps[s]
          /\ Moves(p, "create_snapshot") /\ UNCHANGED dbs
     ELSE Finished(p, "failed") /\ UNCHANGED snaps
  /\ UNCHANGED <<setup, worktree, container, cmd, todo, cur, seen, unowned, crossed, stuck>>

\* That is what DropOldSnapshot does.
LEMMA DropOldSnapshotStep == ASSUME TypeOK, NEW p \in Proc, DropOldSnapshot(p) PROVE DropOldSnapshotDoes(p)
  <1>1. CASE Exists(cur[p])
    <2>1. Moves(p, "create_snapshot")
      BY <1>1, GotoEffect DEF DropOldSnapshot
    <2> QED
      BY <1>1, <2>1 DEF DropOldSnapshot, DropOldSnapshotDoes, Except, Frame, procVars
  <1>2. CASE ~Exists(cur[p])
    BY <1>2, FinishEffect DEF DropOldSnapshot, DropOldSnapshotDoes, Frame, procVars
  <1> QED
    BY <1>1, <1>2

\* The snapshots found go, one after the other.
DropSnapshotsDoes(p) ==
  /\ Up(p, "snapshots")
  /\ IF seen[p] = {} THEN Moves(p, "single") /\ UNCHANGED <<snaps, seen, alone, excuse>>
     ELSE \E s \in seen[p] :
       /\ DOMAIN snaps' = DOMAIN snaps \ {s}
       /\ \A t \in DOMAIN snaps : t # s => snaps'[t] = snaps[t]
       /\ DOMAIN seen' = Proc /\ seen'[p] = seen[p] \ {s}
       /\ \A q \in Proc : q # p => seen'[q] = seen[q]
       /\ Touched(p) /\ Hindered(p) /\ UNCHANGED pc
  /\ UNCHANGED <<setup, worktree, container, dbs, cmd, todo, cur, unowned, crossed, stuck>>

\* That is what DropSnapshots does.
LEMMA DropSnapshotsStep == ASSUME TypeOK, NEW p \in Proc, DropSnapshots(p) PROVE DropSnapshotsDoes(p)
  <1>1. CASE seen[p] = {}
    BY <1>1, GotoEffect DEF DropSnapshots, DropSnapshotsDoes, Frame
  <1>2. CASE seen[p] # {}
    <2>1. PICK s \in seen[p] : snaps' = Except(snaps, s) /\ seen' = [seen EXCEPT ![p] = @ \ {s}]
      BY <1>2 DEF DropSnapshots
    <2>2. /\ DOMAIN snaps' = DOMAIN snaps \ {s}
          /\ \A t \in DOMAIN snaps : t # s => snaps'[t] = snaps[t]
      BY <2>1 DEF Except
    <2>3. /\ DOMAIN seen' = Proc /\ seen'[p] = seen[p] \ {s}
          /\ \A q \in Proc : q # p => seen'[q] = seen[q]
      BY <2>1 DEF TypeOK, ProcTypes
    <2> QED
      BY <1>2, <2>2, <2>3 DEF DropSnapshots, DropSnapshotsDoes, Frame
  <1> QED
    BY <1>1, <1>2

\* What has been committed is kept.
CreateSnapshotDoes(p) ==
  /\ Up(p, "create_snapshot") /\ Touched(p) /\ Hindered(p)
  /\ IF Reachable(cur[p]) /\ Snapshot(p) \notin DOMAIN snaps
     THEN /\ DOMAIN snaps' = DOMAIN snaps \cup {Snapshot(p)}
          /\ \A s \in DOMAIN snaps : snaps'[s] = snaps[s]
          /\ cur[p] \in DOMAIN dbs /\ snaps'[Snapshot(p)] = dbs[cur[p]].content
          /\ Finished(p, "done")
     ELSE Finished(p, "failed") /\ UNCHANGED snaps
  /\ UNCHANGED <<setup, worktree, container, cmd, todo, cur, seen, unowned, crossed, stuck>>

\* That is what CreateSnapshot does.
LEMMA CreateSnapshotStep == ASSUME TypeOK, NEW p \in Proc, CreateSnapshot(p) PROVE CreateSnapshotDoes(p)
  <1>1. CASE Reachable(cur[p]) /\ Snapshot(p) \notin DOMAIN snaps
    <2>1. Finished(p, "done")
      BY <1>1, FinishEffect DEF CreateSnapshot
    <2> QED
      BY <1>1, <2>1 DEF CreateSnapshot, CreateSnapshotDoes, With, Frame, Reachable, Exists, procVars
  <1>2. CASE ~(Reachable(cur[p]) /\ Snapshot(p) \notin DOMAIN snaps)
    BY <1>2, FinishEffect DEF CreateSnapshot, CreateSnapshotDoes, Frame, procVars
  <1> QED
    BY <1>1, <1>2

\* Nothing is reverted but from the only snapshot.
CheckSnapshotsDoes(p) ==
  /\ Up(p, "restore")
  /\ IF Snapshots(cur[p]) = {Snapshot(p)} THEN Moves(p, "single") /\ UNCHANGED dbs
     ELSE Finished(p, "failed")
  /\ UNCHANGED <<setup, worktree, container, snaps, cmd, todo, cur, seen, excuse, alone, unowned, crossed, stuck>>

\* That is what CheckSnapshots does.
LEMMA CheckSnapshotsStep == ASSUME TypeOK, NEW p \in Proc, CheckSnapshots(p) PROVE CheckSnapshotsDoes(p)
  BY GotoEffect, FinishEffect DEF CheckSnapshots, CheckSnapshotsDoes, Frame, NoHistory, history, procVars

\* RESTORE.
RevertDoes(p) ==
  /\ Up(p, "revert") /\ Touched(p) /\ Crossed(cur[p])
  /\ \/ /\ Snapshot(p) \in DOMAIN snaps
        /\ Becomes(cur[p], snaps[Snapshot(p)], dbs[cur[p]].mode, dbs[cur[p]].users) /\ Moves(p, "multi")
     \/ Moves(p, "multi_failed") /\ UNCHANGED dbs
  /\ UNCHANGED <<setup, worktree, container, snaps, cmd, todo, cur, seen, excuse, unowned, stuck>>

\* That is what Revert does.
LEMMA RevertStep == ASSUME TypeOK, NEW p \in Proc, Revert(p) PROVE RevertDoes(p)
  <1>1. CASE Exists(cur[p]) /\ dbs[cur[p]].users = {} /\ Snapshots(cur[p]) = {Snapshot(p)}
    <2>1. cur[p] \in DOMAIN dbs /\ Snapshot(p) \in DOMAIN snaps
      BY <1>1 DEF Exists, Snapshots
    <2>2. dbs' = [dbs EXCEPT ![cur[p]].content = snaps[Snapshot(p)]] /\ Goto(p, "multi")
      BY <1>1 DEF Revert
    <2>3. snaps[Snapshot(p)] \in Content
      BY <2>1 DEF TypeOK, DbTypes
    <2>4. Becomes(cur[p], snaps[Snapshot(p)], dbs[cur[p]].mode, dbs[cur[p]].users) /\ Moves(p, "multi")
      BY <2>1, <2>2, <2>3, ContentEffect, GotoEffect
    <2> QED
      BY <2>1, <2>4 DEF Revert, RevertDoes, Frame, procVars
  <1>2. CASE ~(Exists(cur[p]) /\ dbs[cur[p]].users = {} /\ Snapshots(cur[p]) = {Snapshot(p)})
    BY <1>2, GotoEffect DEF Revert, RevertDoes, Frame, procVars
  <1> QED
    BY <1>1, <1>2

\* MULTI_USER, whether or not the RESTORE succeeded.
MultiUserDoes(p) ==
  /\ Up(p, "multi") \/ Up(p, "multi_failed")
  /\ Touched(p)
  /\ IF Reachable(cur[p])
     THEN /\ Becomes(cur[p], dbs[cur[p]].content, "multi", dbs[cur[p]].users)
          /\ stuck' = stuck \ {cur[p]}
          /\ Moves(p, IF pc[p] = "multi" THEN "done" ELSE "failed")
     ELSE Finished(p, "failed") /\ UNCHANGED stuck
  /\ UNCHANGED <<setup, worktree, container, snaps, cmd, todo, cur, seen, excuse, unowned, crossed>>

\* That is what MultiUser does.
LEMMA MultiUserStep == ASSUME TypeOK, NEW p \in Proc, MultiUser(p) PROVE MultiUserDoes(p)
  <1>1. CASE Reachable(cur[p])
    <2>1. cur[p] \in DOMAIN dbs /\ dbs' = [dbs EXCEPT ![cur[p]].mode = "multi"]
      BY <1>1 DEF MultiUser, Reachable, Exists, Session
    <2>2. Moves(p, IF pc[p] = "multi" THEN "done" ELSE "failed")
      BY <1>1, GotoEffect DEF MultiUser
    <2> QED
      BY <1>1, <2>1, <2>2, MultiEffect DEF MultiUser, MultiUserDoes, Frame, procVars
  <1>2. CASE ~(Reachable(cur[p]))
    <2>1. Finished(p, "failed")
      BY <1>2, GotoEffect, FinishEffect DEF MultiUser
    <2> QED
      BY <1>2, <2>1 DEF MultiUser, MultiUserDoes, Frame, procVars
  <1> QED
    BY <1>1, <1>2

\* The script is pending, or only to be recorded, or neither.
ListPendingDoes(p) ==
  /\ Up(p, "migrate")
  /\ \/ Finished(p, "done") /\ UNCHANGED <<cmd, stuck, alone, excuse>>
     \/ /\ Exists(cur[p]) /\ dbs[cur[p]].content.effect = Batches
        /\ cmd' = [cmd EXCEPT ![p] = <<"migrate", "mark">>] /\ Moves(p, "record")
        /\ UNCHANGED <<dbs, stuck, alone, excuse>>
     \/ Opened(p, "batch") /\ UNCHANGED cmd
  /\ UNCHANGED <<setup, worktree, container, snaps, todo, cur, seen, unowned, crossed>>

\* That is what ListPending does.
LEMMA ListPendingStep == ASSUME TypeOK, NEW p \in Proc, ListPending(p) PROVE ListPendingDoes(p)
  <1>1. CASE Exists(cur[p]) /\ dbs[cur[p]].content.row
    BY <1>1, FinishEffect DEF ListPending, ListPendingDoes, Frame
  <1>2. CASE /\ ~(Exists(cur[p]) /\ dbs[cur[p]].content.row)
             /\ cmd[p][2] = "ask" /\ Exists(cur[p]) /\ dbs[cur[p]].content.effect = Batches
    BY <1>2, GotoEffect DEF ListPending, ListPendingDoes, Frame
  <1>3. CASE /\ ~(Exists(cur[p]) /\ dbs[cur[p]].content.row)
             /\ ~(cmd[p][2] = "ask" /\ Exists(cur[p]) /\ dbs[cur[p]].content.effect = Batches)
    BY <1>3, OpenEffect DEF ListPending, ListPendingDoes, Frame
  <1> QED
    BY <1>1, <1>2, <1>3

\* A batch.
ExecuteBatchDoes(p) ==
  /\ Session(p, "batch") /\ Touched(p)
  /\ \/ Finished(p, "failed")
     \/ UNCHANGED dbs /\ (Moves(p, "commit") \/ Moves(p, "batch"))
  /\ UNCHANGED <<setup, worktree, container, snaps, cmd, todo, cur, seen, excuse, unowned, crossed, stuck>>

\* That is what ExecuteBatch does.
LEMMA ExecuteBatchStep == ASSUME TypeOK, NEW p \in Proc, ExecuteBatch(p) PROVE ExecuteBatchDoes(p)
  <1>1. CASE dbs[cur[p]].content.effect # 0
    BY <1>1, FinishEffect DEF ExecuteBatch, ExecuteBatchDoes, Frame, procVars
  <1>2. CASE dbs[cur[p]].content.effect = 0
    <2>1. Moves(p, "commit") \/ Moves(p, "batch")
      BY <1>2, GotoEffect DEF ExecuteBatch
    <2> QED
      BY <1>2, <2>1 DEF ExecuteBatch, ExecuteBatchDoes, Frame, procVars
  <1> QED
    BY <1>1, <1>2

\* The script takes effect.
CommitDoes(p) ==
  /\ Session(p, "commit") /\ Moves(p, "record") /\ Touched(p)
  /\ Becomes(cur[p], [dbs[cur[p]].content EXCEPT !.effect = Batches], dbs[cur[p]].mode, dbs[cur[p]].users \ {p})
  /\ UNCHANGED <<setup, worktree, container, snaps, cmd, todo, cur, seen, excuse, unowned, crossed, stuck>>

\* That is what Commit does.
LEMMA CommitStep == ASSUME TypeOK, NEW p \in Proc, Commit(p) PROVE CommitDoes(p)
  <1>1. cur[p] \in DOMAIN dbs /\ dbs' = [dbs EXCEPT ![cur[p]].content.effect = Batches, ![cur[p]].users = @ \ {p}]
    BY DEF Commit, Exists, Session
  <1>2. Moves(p, "record")
    BY GotoEffect DEF Commit
  <1> QED
    BY <1>1, <1>2, CommitEffect DEF Commit, CommitDoes, Frame, procVars

\* Whether its row is there.
CheckRowDoes(p) ==
  /\ Up(p, "record")
  /\ \/ /\ Moves(p, IF cmd[p][2] = "mark" THEN "done" ELSE "verify")
        /\ UNCHANGED <<dbs, stuck, alone, excuse>>
     \/ Opened(p, "insert_row")
  /\ UNCHANGED <<setup, worktree, container, snaps, cmd, todo, cur, seen, unowned, crossed>>

\* That is what CheckRow does.
LEMMA CheckRowStep == ASSUME TypeOK, NEW p \in Proc, CheckRow(p) PROVE CheckRowDoes(p)
  <1>1. CASE Reachable(cur[p]) /\ (dbs[cur[p]].content.row \/ ~dbs[cur[p]].content.built)
    <2>1. Moves(p, IF cmd[p][2] = "mark" THEN "done" ELSE "verify")
      BY <1>1, GotoEffect DEF CheckRow, Recorded
    <2> QED
      BY <1>1, <2>1 DEF CheckRow, CheckRowDoes, Frame, procVars
  <1>2. CASE ~(Reachable(cur[p]) /\ (dbs[cur[p]].content.row \/ ~dbs[cur[p]].content.built))
    BY <1>2, OpenEffect DEF CheckRow, CheckRowDoes, Frame, procVars
  <1> QED
    BY <1>1, <1>2

\* The row of the script.
InsertRowDoes(p) ==
  /\ Session(p, "insert_row") /\ Touched(p)
  /\ IF ~dbs[cur[p]].content.row
     THEN /\ Becomes(cur[p], [dbs[cur[p]].content EXCEPT !.row = TRUE], dbs[cur[p]].mode, dbs[cur[p]].users \ {p})
          /\ Moves(p, IF cmd[p][2] = "mark" THEN "done" ELSE "verify")
     ELSE Finished(p, "failed")
  /\ UNCHANGED <<setup, worktree, container, snaps, cmd, todo, cur, seen, excuse, unowned, crossed, stuck>>

\* That is what InsertRow does.
LEMMA InsertRowStep == ASSUME TypeOK, NEW p \in Proc, InsertRow(p) PROVE InsertRowDoes(p)
  <1>1. CASE ~dbs[cur[p]].content.row
    <2>1. cur[p] \in DOMAIN dbs /\ dbs' = [dbs EXCEPT ![cur[p]].content.row = TRUE, ![cur[p]].users = @ \ {p}]
      BY <1>1 DEF InsertRow, Reachable, Exists, Session
    <2>2. Moves(p, IF cmd[p][2] = "mark" THEN "done" ELSE "verify")
      BY <1>1, GotoEffect DEF InsertRow, Recorded
    <2> QED
      BY <1>1, <2>1, <2>2, RowEffect DEF InsertRow, InsertRowDoes, Frame, procVars
  <1>2. CASE ~(~dbs[cur[p]].content.row)
    <2>1. Finished(p, "failed")
      BY <1>2, GotoEffect, FinishEffect DEF InsertRow
    <2> QED
      BY <1>2, <2>1 DEF InsertRow, InsertRowDoes, Frame, procVars
  <1> QED
    BY <1>1, <1>2

\* The tables are looked for.
VerifyDoes(p) ==
  /\ Up(p, "verify") /\ (Finished(p, "done") \/ Finished(p, "failed"))
  /\ UNCHANGED <<setup, worktree, container, snaps, cmd, todo, cur, seen, excuse, alone, unowned, crossed, stuck>>

\* That is what Verify does.
LEMMA VerifyStep == ASSUME TypeOK, NEW p \in Proc, Verify(p) PROVE VerifyDoes(p)
  BY GotoEffect, FinishEffect DEF Verify, VerifyDoes, Frame, NoHistory, history, procVars

\* The session is gone.
SessionLostDoes(p) ==
  /\ pc[p] \in Working \cup {"batch", "commit", "insert_row"} /\ (Exists(cur[p]) => p \notin dbs[cur[p]].users)
  /\ Finished(p, "failed")
  /\ UNCHANGED <<setup, worktree, container, snaps, cmd, todo, cur, seen, excuse, alone, unowned, crossed, stuck>>

\* That is what SessionLost does.
LEMMA SessionLostStep == ASSUME TypeOK, NEW p \in Proc, SessionLost(p) PROVE SessionLostDoes(p)
  BY FinishEffect DEF SessionLost, SessionLostDoes, Frame, NoHistory, history, procVars, Working

\* The server is gone.
ServerLostDoes(p) ==
  /\ ~Ended(p) /\ pc[p] \notin {"probe", "get", "run", "wait", "trees", "next"}
  /\ Finished(p, "failed") /\ LeftSingle(p)
  /\ DOMAIN excuse' = Proc /\ excuse'[p] /\ \A q \in Proc : q # p => excuse'[q] = excuse[q]
  /\ UNCHANGED <<setup, worktree, container, snaps, cmd, todo, cur, seen, alone, unowned, crossed>>

\* That is what ServerLost does.
LEMMA ServerLostStep == ASSUME TypeOK, NEW p \in Proc, ServerLost(p) PROVE ServerLostDoes(p)
  <1>1. Finished(p, "failed")
    BY FinishEffect DEF ServerLost
  <1>2. DOMAIN excuse' = Proc /\ excuse'[p] /\ \A q \in Proc : q # p => excuse'[q] = excuse[q]
    BY DEF ServerLost, TypeOK, ProcTypes
  <1> QED
    BY <1>1, <1>2 DEF ServerLost, ServerLostDoes, Frame, procVars

\* The process dies.
DieDoes(p) ==
  /\ ~Ended(p) /\ Finished(p, "idle") /\ LeftSingle(p)
  /\ UNCHANGED <<setup, worktree, container, snaps, cmd, todo, cur, seen, excuse, alone, unowned, crossed>>

\* That is what Die does.
LEMMA DieStep == ASSUME TypeOK, NEW p \in Proc, Die(p) PROVE DieDoes(p)
  BY FinishEffect DEF Die, DieDoes, procVars

\* Where a command starts.
LEMMA EntryLabel ==
  ASSUME NEW c \in Commands
  PROVE  \/ c[1] = "ensure" /\ (c[2] = "force" => c = <<"ensure", "force">>) /\ Entry(c) = "probe"
         \/ c[1] = "clean" /\ c[2] = "own" /\ Entry(c) = "next"
         \/ c[1] = "clean" /\ c[2] \in {"all", "orphaned"} /\ Entry(c) = "list"
         \/ mssql /\ c[1] \in {"snapshot", "restore", "migrate"} /\ Entry(c) = c[1]
  <1>1. CASE c \in {"ensure"} \X {"", "force"}
    <2>1. c = <<"ensure", "">> \/ c = <<"ensure", "force">>
      <3> DEFINE none == ""
      <3>1. c \in {"ensure"} \X {none, "force"}
        BY <1>1
      <3>2. c = <<"ensure", none>> \/ c = <<"ensure", "force">>
        <4> HIDE DEF none
        <4> QED
          BY <3>1
      <3> QED
        BY <3>2
    <2>2. CASE c = <<"ensure", "">>
      BY <2>2, c[1] = "ensure", c[2] # "force" DEF Entry
    <2>3. CASE c = <<"ensure", "force">>
      BY <2>3, c[1] = "ensure" DEF Entry
    <2> QED
      BY <2>1, <2>2, <2>3
  <1>2. CASE c \in {"clean"} \X {"own", "all", "orphaned"}
    BY <1>2 DEF Entry
  <1>3. CASE mssql /\ c \in {"snapshot", "restore"} \X {"s", "r"}
    BY <1>3 DEF Entry
  <1>4. CASE mssql /\ c \in {"migrate"} \X {"plain", "ask"}
    BY <1>4 DEF Entry
  <1> QED
    BY <1>1, <1>2, <1>3, <1>4 DEF Commands

\* What a command begins with.
BeginDoes(p) ==
  \E c \in Commands :
    /\ Ended(p) /\ Moves(p, Entry(c))
    /\ DOMAIN cmd' = Proc /\ cmd'[p] = c /\ \A q \in Proc : q # p => cmd'[q] = cmd[q]
    /\ DOMAIN todo' = Proc /\ \A q \in Proc : q # p => todo'[q] = todo[q]
    /\ todo'[p] = IF c \in {<<"ensure", "force">>, <<"clean", "own">>} THEN {OwnDb(p)} ELSE {}
    /\ DOMAIN cur' = Proc /\ cur'[p] = OwnDb(p) /\ \A q \in Proc : q # p => cur'[q] = cur[q]
    /\ DOMAIN seen' = Proc /\ \A q \in Proc : q # p => seen'[q] = seen[q]
    /\ DOMAIN excuse' = Proc /\ \A q \in Proc : q # p => excuse'[q] = excuse[q]
    /\ excuse'[p] = \E d \in DOMAIN dbs : ~Reachable(d)
    /\ \A q \in Proc : q # p => alone'[q] = alone[q]
    /\ UNCHANGED <<setup, worktree, container, dbs, snaps, unowned, crossed, stuck>>

\* That is what Begin does.
LEMMA BeginStep == ASSUME TypeOK, NEW p \in Proc, Begin(p) PROVE BeginDoes(p)
  <1>1. PICK c \in Commands :
          /\ cmd' = [cmd EXCEPT ![p] = c] /\ Goto(p, Entry(c))
          /\ todo' = [todo EXCEPT ![p] = IF c \in {<<"ensure", "force">>, <<"clean", "own">>}
                                         THEN {OwnDb(p)} ELSE {}]
    BY DEF Begin
  <1>2. Moves(p, Entry(c))
    BY <1>1, GotoEffect
  <1> QED
    BY <1>1, <1>2 DEF Begin, BeginDoes, TypeOK, ProcTypes

\* A visitor comes.
LEMMA VisitStep ==
  ASSUME TypeOK, NEW d \in DOMAIN dbs, Visit(d)
  PROVE  /\ Reachable(d) /\ excuse' = [p \in Proc |-> TRUE]
         /\ Becomes(d, dbs[d].content, dbs[d].mode, dbs[d].users \cup {"visitor"})
         /\ stuck' = IF dbs[d].mode = "single" THEN stuck \cup {d} ELSE stuck
         /\ UNCHANGED <<setup, worktree, container, pc, snaps, cmd, todo, cur, seen, alone, unowned, crossed>>
  <1>1. dbs[d].users \cup {"visitor"} \in SUBSET (Proc \cup {"visitor"})
    BY DEF TypeOK, DbTypes, DatabaseType
  <1>2. dbs' = [dbs EXCEPT ![d].users = dbs[d].users \cup {"visitor"}]
    BY DEF Visit
  <1>3. Becomes(d, dbs[d].content, dbs[d].mode, dbs[d].users \cup {"visitor"})
    BY <1>1, <1>2, UsersEffect
  <1> QED
    BY <1>3 DEF Visit, procVars

\* And leaves.
LEMMA LeaveStep ==
  ASSUME TypeOK, NEW d \in DOMAIN dbs, VisitorLeaves(d)
  PROVE  /\ Becomes(d, dbs[d].content, dbs[d].mode, dbs[d].users \ {"visitor"})
         /\ UNCHANGED <<setup, worktree, container, pc, snaps, cmd, todo, cur, seen, excuse, alone, unowned, crossed, stuck>>
  <1>1. dbs[d].users \ {"visitor"} \in SUBSET (Proc \cup {"visitor"})
    BY DEF TypeOK, DbTypes, DatabaseType
  <1>2. dbs' = [dbs EXCEPT ![d].users = dbs[d].users \ {"visitor"}]
    BY DEF VisitorLeaves
  <1>3. Becomes(d, dbs[d].content, dbs[d].mode, dbs[d].users \ {"visitor"})
    BY <1>1, <1>2, UsersEffect
  <1> QED
    BY <1>3 DEF VisitorLeaves, Frame, NoHistory, history, procVars

\* The server stops: nobody is connected any more.
LEMMA StopStep ==
  ASSUME TypeOK, StopContainer
  PROVE  /\ DOMAIN dbs' = DOMAIN dbs /\ excuse' = [p \in Proc |-> TRUE]
         /\ \A d \in DOMAIN dbs : /\ dbs'[d] \in DatabaseType /\ dbs'[d].users = {}
                                  /\ dbs'[d].content = dbs[d].content
                                  /\ dbs'[d].mode = dbs[d].mode
         /\ UNCHANGED <<setup, worktree, pc, snaps, cmd, todo, cur, seen, alone, unowned, crossed, stuck>>
  BY DEF TypeOK, DbTypes, DatabaseType, StopContainer, procVars

-----------------------------------------------------------------------------
(* The types stay *)

\* Every step of a command keeps the types.
LEMMA StepTypes ==
  ASSUME TypeOK, NEW p \in Proc, Step(p)
  PROVE  TypeOK'
  <1> SUFFICES (DbTypes /\ ProcTypes)'
    BY DEF TypeOK
  <1> DbTypes /\ ProcTypes
    BY DEF TypeOK
  <1> USE DEF DbTypes, ProcTypes
  <1>1. CASE Begin(p)
    BY <1>1 DEF Begin, Frame, NoHistory, history, procVars, Goto, Touched, Hindered, Ended
  <1>2. CASE ContainerStep(p)
    BY <1>2 DEF ContainerStep, Frame, NoHistory, history, procVars, Goto, Touched, Hindered, Available, GetContainer, CreateContainer, WaitReady
  <1>3. CASE TimeOut(p)
    BY <1>3 DEF TimeOut, Frame, NoHistory, history, procVars, Goto, Touched, Hindered
  <1>4. CASE ListDbs(p)
    BY <1>4 DEF ListDbs, Frame, NoHistory, history, procVars, Goto, Touched, Hindered
  <1>5. CASE ListTrees(p)
    BY <1>5 DEF ListTrees, Frame, NoHistory, history, procVars, Goto, Touched, Hindered
  <1>6. CASE NextDb(p)
    BY <1>6 DEF NextDb, Frame, NoHistory, history, procVars, Goto, Touched, Hindered
  <1>7. CASE Terminate(p)
    <2>1. TerminateDoes(p)
      BY <1>7, TerminateStep
    <2> QED
      BY <2>1 DEF TerminateDoes, Moves, Becomes, Touched, Hindered
  <1>8. CASE LookForDb(p)
    BY <1>8 DEF LookForDb, Frame, NoHistory, history, procVars, Goto, Touched, Hindered
  <1>9. CASE DropSnapshots(p)
    <2>1. DropSnapshotsDoes(p)
      BY <1>9, DropSnapshotsStep
    <2> QED
      BY <2>1 DEF DropSnapshotsDoes, Moves, Finished, Touched, Hindered
  <1>10. CASE SingleUser(p)
    <2>1. SingleUserDoes(p)
      BY <1>10, SingleUserStep
    <2> QED
      BY <2>1 DEF SingleUserDoes, Moves, Finished, Becomes, Touched, Hindered
  <1>11. CASE DropDatabase(p)
    <2>1. DropDatabaseDoes(p)
      BY <1>11, DropDatabaseStep
    <2> QED
      BY <2>1 DEF DropDatabaseDoes, Moves, Finished, Touched, Hindered
  <1>12. CASE CheckDatabase(p)
    BY <1>12 DEF CheckDatabase, Frame, NoHistory, history, procVars, Goto, Touched, Hindered
  <1>13. CASE CreateDatabase(p)
    <2>1. CreateDatabaseDoes(p)
      BY <1>13, CreateDatabaseStep
    <2> QED
      BY <2>1 DEF CreateDatabaseDoes, Moves, Finished, Touched, Outruns
  <1>14. CASE Connect(p)
    <2>1. ConnectDoes(p)
      BY <1>14, ConnectStep
    <2> QED
      BY <2>1 DEF ConnectDoes, Moves, Finished, Becomes, Opened, Touched, Hindered
  <1>15. CASE Build(p)
    <2>1. BuildDoes(p)
      BY <1>15, BuildStep
    <2> QED
      BY <2>1 DEF BuildDoes, Moves, Becomes, Touched, Hindered
  <1>16. CASE DeleteRows(p)
    <2>1. DeleteRowsDoes(p)
      BY <1>16, DeleteRowsStep
    <2> QED
      BY <2>1 DEF DeleteRowsDoes, Moves, Finished, Becomes, Touched, Hindered
  <1>17. CASE InsertRows(p)
    <2>1. InsertRowsDoes(p)
      BY <1>17, InsertRowsStep
    <2> QED
      BY <2>1 DEF InsertRowsDoes, Moves, Becomes, Touched, Hindered
  <1>18. CASE InsertRest(p)
    <2>1. InsertRestDoes(p)
      BY <1>18, InsertRestStep
    <2> QED
      BY <2>1 DEF InsertRestDoes, Moves, Becomes, Touched, Hindered
  <1>19. CASE Close(p)
    <2>1. CloseDoes(p)
      BY <1>19, CloseStep
    <2> QED
      BY <2>1 DEF CloseDoes, Moves, Finished, Touched, Hindered
  <1>20. CASE DropOldSnapshot(p)
    <2>1. DropOldSnapshotDoes(p)
      BY <1>20, DropOldSnapshotStep
    <2> QED
      BY <2>1 DEF DropOldSnapshotDoes, Moves, Finished, Touched, Hindered
  <1>21. CASE CreateSnapshot(p)
    <2>1. CreateSnapshotDoes(p)
      BY <1>21, CreateSnapshotStep
    <2>2. \A d \in DOMAIN dbs : dbs[d].content \in Content
      BY DEF DatabaseType
    <2>3. \A d \in DOMAIN dbs' : dbs'[d] \in DatabaseType
      BY <2>1 DEF CreateSnapshotDoes, Finished
    <2>4. \A s \in DOMAIN snaps' : snaps'[s] \in Content
      BY <2>1, <2>2 DEF CreateSnapshotDoes
    <2>5. ProcTypes'
      BY <2>1 DEF CreateSnapshotDoes, Finished, Moves, Touched, Hindered
    <2> QED
      BY <2>3, <2>4, <2>5
  <1>22. CASE CheckSnapshots(p)
    <2>1. CheckSnapshotsDoes(p)
      BY <1>22, CheckSnapshotsStep
    <2> QED
      BY <2>1 DEF CheckSnapshotsDoes, Moves, Finished, Touched, Hindered
  <1>23. CASE Revert(p)
    <2>1. RevertDoes(p)
      BY <1>23, RevertStep
    <2> QED
      BY <2>1 DEF RevertDoes, Moves, Becomes, Touched, Hindered
  <1>24. CASE MultiUser(p)
    <2>1. MultiUserDoes(p)
      BY <1>24, MultiUserStep
    <2> QED
      BY <2>1 DEF MultiUserDoes, Moves, Finished, Becomes, Touched, Hindered
  <1>25. CASE ListPending(p)
    <2>1. ListPendingDoes(p)
      BY <1>25, ListPendingStep
    <2> QED
      BY <2>1 DEF ListPendingDoes, Moves, Finished, Becomes, Opened, Touched, Hindered
  <1>26. CASE ExecuteBatch(p)
    <2>1. ExecuteBatchDoes(p)
      BY <1>26, ExecuteBatchStep
    <2> QED
      BY <2>1 DEF ExecuteBatchDoes, Moves, Finished, Touched, Hindered
  <1>27. CASE Commit(p)
    <2>1. CommitDoes(p)
      BY <1>27, CommitStep
    <2> QED
      BY <2>1 DEF CommitDoes, Moves, Becomes, Touched, Hindered
  <1>28. CASE CheckRow(p)
    <2>1. CheckRowDoes(p)
      BY <1>28, CheckRowStep
    <2> QED
      BY <2>1 DEF CheckRowDoes, Moves, Finished, Becomes, Opened, Touched, Hindered
  <1>29. CASE InsertRow(p)
    <2>1. InsertRowDoes(p)
      BY <1>29, InsertRowStep
    <2> QED
      BY <2>1 DEF InsertRowDoes, Moves, Finished, Becomes, Touched, Hindered
  <1>30. CASE Verify(p)
    <2>1. VerifyDoes(p)
      BY <1>30, VerifyStep
    <2> QED
      BY <2>1 DEF VerifyDoes, Moves, Finished, Touched, Hindered
  <1>31. CASE SessionLost(p)
    <2>1. SessionLostDoes(p)
      BY <1>31, SessionLostStep
    <2> QED
      BY <2>1 DEF SessionLostDoes, Moves, Finished, Touched, Hindered
  <1>32. CASE ServerLost(p)
    <2>1. ServerLostDoes(p)
      BY <1>32, ServerLostStep
    <2> QED
      BY <2>1 DEF ServerLostDoes, Moves, Finished, Touched, Hindered, LeftSingle
  <1>33. CASE Die(p)
    <2>1. DieDoes(p)
      BY <1>33, DieStep
    <2> QED
      BY <2>1 DEF DieDoes, Moves, Finished, Touched, Hindered, LeftSingle
  <1>34. CASE ChangeWorktree(p)
    BY <1>34 DEF ChangeWorktree, Frame, NoHistory, history, procVars, Goto, Touched, Hindered, Fault
  <1> QED
    BY <1>1, <1>2, <1>3, <1>4, <1>5, <1>6, <1>7, <1>8, <1>9, <1>10, <1>11, <1>12, <1>13, <1>14, <1>15, <1>16, <1>17, <1>18, <1>19, <1>20, <1>21, <1>22, <1>23, <1>24, <1>25, <1>26, <1>27, <1>28, <1>29, <1>30, <1>31, <1>32, <1>33, <1>34 DEF Step

\* Every step keeps the types.
THEOREM NextTypes == TypeOK /\ [Next]_vars => TypeOK'
  <1> SUFFICES ASSUME TypeOK, [Next]_vars PROVE TypeOK'
    OBVIOUS
  <1> DbTypes /\ ProcTypes
    BY DEF TypeOK
  <1>1. ASSUME NEW p \in Proc, Step(p) PROVE TypeOK'
    BY <1>1, StepTypes
  <1>2. CASE ContainerBoots
    BY <1>2 DEF ContainerBoots, Boot, history, procVars, TypeOK, DbTypes, ProcTypes
  <1>3. CASE StopContainer
    BY <1>3 DEF StopContainer, procVars, TypeOK, DbTypes, ProcTypes, DatabaseType
  <1>4. ASSUME NEW d \in DOMAIN dbs, Visit(d) PROVE TypeOK'
    BY <1>4, VisitStep DEF TypeOK, DbTypes, ProcTypes, Becomes
  <1>5. ASSUME NEW d \in DOMAIN dbs, VisitorLeaves(d) PROVE TypeOK'
    BY <1>5, LeaveStep DEF TypeOK, DbTypes, ProcTypes, Becomes
  <1>6. CASE UNCHANGED vars
    BY <1>6 DEF vars, history, procVars, TypeOK, DbTypes, ProcTypes
  <1> QED
    BY <1>1, <1>2, <1>3, <1>4, <1>5, <1>6 DEF Next

-----------------------------------------------------------------------------
(* ModeRestored *)

\* A step of a command leaves a database in SINGLE_USER mode to itself, to MULTI_USER or DROP, or
\* to those who are stuck with it.
LEMMA StepMode ==
  ASSUME TypeOK, ModeInv, NEW p \in Proc, Step(p)
  PROVE  ModeInv'
  <1> ProcTypes /\ \A d \in DOMAIN dbs : dbs[d] \in DatabaseType
    BY DEF TypeOK, DbTypes
  <1> USE DEF ModeInv
  <1>1. CASE Begin(p)
    BY <1>1 DEF Begin, Frame, NoHistory, history, procVars, Goto, Up, Session, Held, Exists, Reachable, Ended, ProcTypes
  <1>2. CASE ContainerStep(p)
    BY <1>2 DEF ContainerStep, Frame, NoHistory, history, procVars, Goto, Up, Session, Held, Exists, Reachable, Available, GetContainer, CreateContainer, WaitReady, ProcTypes
  <1>3. CASE TimeOut(p)
    BY <1>3 DEF TimeOut, Frame, NoHistory, history, procVars, Goto, Up, Session, Held, Exists, Reachable, ProcTypes
  <1>4. CASE ListDbs(p)
    BY <1>4 DEF ListDbs, Frame, NoHistory, history, procVars, Goto, Up, Session, Held, Exists, Reachable, ProcTypes
  <1>5. CASE ListTrees(p)
    BY <1>5 DEF ListTrees, Frame, NoHistory, history, procVars, Goto, Up, Session, Held, Exists, Reachable, ProcTypes
  <1>6. CASE NextDb(p)
    BY <1>6 DEF NextDb, Frame, NoHistory, history, procVars, Goto, Up, Session, Held, Exists, Reachable, ProcTypes
  <1>7. CASE Terminate(p)
    <2>1. TerminateDoes(p)
      BY <1>7, TerminateStep
    <2> QED
      BY <2>1 DEF TerminateDoes, Moves, Becomes, Up, Session, Held, Exists, Reachable
  <1>8. CASE LookForDb(p)
    BY <1>8 DEF LookForDb, Frame, NoHistory, history, procVars, Goto, Up, Session, Held, Exists, Reachable, ProcTypes
  <1>9. CASE DropSnapshots(p)
    <2>1. DropSnapshotsDoes(p)
      BY <1>9, DropSnapshotsStep
    <2>2. \A q \in Proc : pc'[q] \in Held <=> pc[q] \in Held
      BY <2>1 DEF DropSnapshotsDoes, Moves, Up, Held
    <2>3. dbs' = dbs /\ stuck' = stuck /\ cur' = cur
      BY <2>1 DEF DropSnapshotsDoes
    <2> QED
      BY <2>2, <2>3
  <1>10. CASE SingleUser(p)
    <2>1. SingleUserDoes(p)
      BY <1>10, SingleUserStep
    <2> QED
      BY <2>1 DEF SingleUserDoes, Moves, Finished, Becomes, Up, Session, Held, Exists, Reachable
  <1>11. CASE DropDatabase(p)
    <2>1. DropDatabaseDoes(p)
      BY <1>11, DropDatabaseStep
    <2> QED
      BY <2>1 DEF DropDatabaseDoes, Moves, Finished, Up, Session, Held, Exists, Reachable
  <1>12. CASE CheckDatabase(p)
    BY <1>12 DEF CheckDatabase, Frame, NoHistory, history, procVars, Goto, Up, Session, Held, Exists, Reachable, ProcTypes
  <1>13. CASE CreateDatabase(p)
    <2>1. CreateDatabaseDoes(p)
      BY <1>13, CreateDatabaseStep
    <2> QED
      BY <2>1 DEF CreateDatabaseDoes, Moves, Finished, Up, Session, Held, Exists, Reachable
  <1>14. CASE Connect(p)
    <2>1. ConnectDoes(p)
      BY <1>14, ConnectStep
    <2> QED
      BY <2>1 DEF ConnectDoes, Moves, Finished, Becomes, Opened, Up, Session, Held, Exists, Reachable
  <1>15. CASE Build(p)
    <2>1. BuildDoes(p)
      BY <1>15, BuildStep
    <2> QED
      BY <2>1 DEF BuildDoes, Moves, Becomes, Up, Session, Held, Exists, Reachable
  <1>16. CASE DeleteRows(p)
    <2>1. DeleteRowsDoes(p)
      BY <1>16, DeleteRowsStep
    <2> QED
      BY <2>1 DEF DeleteRowsDoes, Moves, Finished, Becomes, Up, Session, Held, Exists, Reachable
  <1>17. CASE InsertRows(p)
    <2>1. InsertRowsDoes(p)
      BY <1>17, InsertRowsStep
    <2> QED
      BY <2>1 DEF InsertRowsDoes, Moves, Becomes, Up, Session, Held, Exists, Reachable
  <1>18. CASE InsertRest(p)
    <2>1. InsertRestDoes(p)
      BY <1>18, InsertRestStep
    <2> QED
      BY <2>1 DEF InsertRestDoes, Moves, Becomes, Up, Session, Held, Exists, Reachable
  <1>19. CASE Close(p)
    <2>1. CloseDoes(p)
      BY <1>19, CloseStep
    <2> QED
      BY <2>1 DEF CloseDoes, Moves, Finished, Up, Session, Held, Exists, Reachable
  <1>20. CASE DropOldSnapshot(p)
    <2>1. DropOldSnapshotDoes(p)
      BY <1>20, DropOldSnapshotStep
    <2> QED
      BY <2>1 DEF DropOldSnapshotDoes, Moves, Finished, Up, Session, Held, Exists, Reachable
  <1>21. CASE CreateSnapshot(p)
    <2>1. CreateSnapshotDoes(p)
      BY <1>21, CreateSnapshotStep
    <2> QED
      BY <2>1 DEF CreateSnapshotDoes, Moves, Finished, Up, Session, Held, Exists, Reachable
  <1>22. CASE CheckSnapshots(p)
    <2>1. CheckSnapshotsDoes(p)
      BY <1>22, CheckSnapshotsStep
    <2> QED
      BY <2>1 DEF CheckSnapshotsDoes, Moves, Finished, Up, Session, Held, Exists, Reachable
  <1>23. CASE Revert(p)
    <2>1. RevertDoes(p)
      BY <1>23, RevertStep
    <2> QED
      BY <2>1 DEF RevertDoes, Moves, Becomes, Up, Session, Held, Exists, Reachable
  <1>24. CASE MultiUser(p)
    <2>1. MultiUserDoes(p)
      BY <1>24, MultiUserStep
    <2> QED
      BY <2>1 DEF MultiUserDoes, Moves, Finished, Becomes, Up, Session, Held, Exists, Reachable
  <1>25. CASE ListPending(p)
    <2>1. ListPendingDoes(p)
      BY <1>25, ListPendingStep
    <2> QED
      BY <2>1 DEF ListPendingDoes, Moves, Finished, Becomes, Opened, Up, Session, Held, Exists, Reachable
  <1>26. CASE ExecuteBatch(p)
    <2>1. ExecuteBatchDoes(p)
      BY <1>26, ExecuteBatchStep
    <2> QED
      BY <2>1 DEF ExecuteBatchDoes, Moves, Finished, Up, Session, Held, Exists, Reachable
  <1>27. CASE Commit(p)
    <2>1. CommitDoes(p)
      BY <1>27, CommitStep
    <2> QED
      BY <2>1 DEF CommitDoes, Moves, Becomes, Up, Session, Held, Exists, Reachable
  <1>28. CASE CheckRow(p)
    <2>1. CheckRowDoes(p)
      BY <1>28, CheckRowStep
    <2> QED
      BY <2>1 DEF CheckRowDoes, Moves, Finished, Becomes, Opened, Up, Session, Held, Exists, Reachable
  <1>29. CASE InsertRow(p)
    <2>1. InsertRowDoes(p)
      BY <1>29, InsertRowStep
    <2> QED
      BY <2>1 DEF InsertRowDoes, Moves, Finished, Becomes, Up, Session, Held, Exists, Reachable
  <1>30. CASE Verify(p)
    <2>1. VerifyDoes(p)
      BY <1>30, VerifyStep
    <2> QED
      BY <2>1 DEF VerifyDoes, Moves, Finished, Up, Session, Held, Exists, Reachable
  <1>31. CASE SessionLost(p)
    <2>1. SessionLostDoes(p)
      BY <1>31, SessionLostStep
    <2> QED
      BY <2>1 DEF SessionLostDoes, Moves, Finished, Up, Session, Held, Exists, Reachable, Working
  <1>32. CASE ServerLost(p)
    <2>1. ServerLostDoes(p)
      BY <1>32, ServerLostStep
    <2> QED
      BY <2>1 DEF ServerLostDoes, Moves, Finished, Up, Session, Held, Exists, Reachable, LeftSingle
  <1>33. CASE Die(p)
    <2>1. DieDoes(p)
      BY <1>33, DieStep
    <2> QED
      BY <2>1 DEF DieDoes, Moves, Finished, Up, Session, Held, Exists, Reachable, LeftSingle
  <1>34. CASE ChangeWorktree(p)
    BY <1>34 DEF ChangeWorktree, Frame, NoHistory, history, procVars, Goto, Up, Session, Held, Exists, Reachable, Fault, ProcTypes
  <1> QED
    BY <1>1, <1>2, <1>3, <1>4, <1>5, <1>6, <1>7, <1>8, <1>9, <1>10, <1>11, <1>12, <1>13, <1>14, <1>15, <1>16, <1>17, <1>18, <1>19, <1>20, <1>21, <1>22, <1>23, <1>24, <1>25, <1>26, <1>27, <1>28, <1>29, <1>30, <1>31, <1>32, <1>33, <1>34 DEF Step

\* ModeInv holds throughout.
LEMMA ModeKept == TypeOK /\ ModeInv /\ [Next]_vars => ModeInv'
  <1> SUFFICES ASSUME TypeOK, ModeInv, [Next]_vars PROVE ModeInv'
    OBVIOUS
  <1>1. ASSUME NEW p \in Proc, Step(p) PROVE ModeInv'
    BY <1>1, StepMode
  <1>2. CASE ContainerBoots
    BY <1>2 DEF ContainerBoots, Boot, history, procVars, ModeInv
  <1>3. CASE StopContainer
    BY <1>3, StopStep DEF ModeInv
  <1>4. ASSUME NEW d \in DOMAIN dbs, Visit(d) PROVE ModeInv'
    BY <1>4, VisitStep DEF ModeInv, Becomes
  <1>5. ASSUME NEW d \in DOMAIN dbs, VisitorLeaves(d) PROVE ModeInv'
    BY <1>5, LeaveStep DEF ModeInv, Becomes
  <1>6. CASE UNCHANGED vars
    BY <1>6 DEF vars, history, procVars, ModeInv
  <1> QED
    BY <1>1, <1>2, <1>3, <1>4, <1>5, <1>6 DEF Next

\* At the start every database is in MULTI_USER mode, with nobody connected.
LEMMA InitMode == Init => \A d \in DOMAIN dbs : dbs[d].mode = "multi" /\ dbs[d].users = {}
  BY InitDbs DEF Database

\* A database is in SINGLE_USER mode only while a command reverts or drops it, unless that
\* one died, its seat was taken, or the DROP was refused (ModeRestored; restore_testdb and
\* _drop_database in testdb/mssql/api.py).
THEOREM ModeCorrect == Spec => []ModeRestored
  <1>1. Init => TypeOK /\ ModeInv
    BY InitTypes, InitMode DEF ModeInv
  <1>2. TypeOK /\ ModeInv /\ [Next]_vars => (TypeOK /\ ModeInv)'
    BY NextTypes, ModeKept
  <1>3. ModeInv => ModeRestored
    BY DEF ModeInv, ModeRestored, Held
  <1> QED
    BY <1>1, <1>2, <1>3, PTL DEF Spec


-----------------------------------------------------------------------------
(* MigrationAtomic *)

\* A step of a command keeps what is said of scripts whose row is still to come.
LEMMA StepRecord ==
  ASSUME TypeOK, RecordInv, NEW p \in Proc, Step(p)
  PROVE  RecordInv'
  <1> ProcTypes /\ \A d \in DOMAIN dbs : dbs[d] \in DatabaseType
    BY DEF TypeOK, DbTypes
  <1> USE DEF RecordInv
  <1>1. CASE Begin(p)
    <2>1. PICK c \in Commands : Moves(p, Entry(c)) /\ UNCHANGED <<dbs, crossed>>
                                /\ \A q \in Proc : q # p => cur'[q] = cur[q]
      BY <1>1, BeginStep DEF BeginDoes
    <2>2. Entry(c) \notin {"record", "insert_row"}
      BY EntryLabel
    <2> QED
      BY <2>1, <2>2 DEF Moves, Exists
  <1>2. CASE ContainerStep(p)
    BY <1>2 DEF ContainerStep, Frame, NoHistory, history, procVars, Goto, Up, Session, Exists, Crossed, Available, GetContainer, CreateContainer, WaitReady, ProcTypes
  <1>3. CASE TimeOut(p)
    BY <1>3 DEF TimeOut, Frame, NoHistory, history, procVars, Goto, Up, Session, Exists, Crossed, ProcTypes
  <1>4. CASE ListDbs(p)
    BY <1>4 DEF ListDbs, Frame, NoHistory, history, procVars, Goto, Up, Session, Exists, Crossed, ProcTypes
  <1>5. CASE ListTrees(p)
    BY <1>5 DEF ListTrees, Frame, NoHistory, history, procVars, Goto, Up, Session, Exists, Crossed, ProcTypes
  <1>6. CASE NextDb(p)
    BY <1>6 DEF NextDb, Frame, NoHistory, history, procVars, Goto, Up, Session, Exists, Crossed, ProcTypes
  <1>7. CASE Terminate(p)
    <2>1. TerminateDoes(p)
      BY <1>7, TerminateStep
    <2> QED
      BY <2>1 DEF TerminateDoes, Moves, Becomes, Up, Session, Exists, Crossed
  <1>8. CASE LookForDb(p)
    BY <1>8 DEF LookForDb, Frame, NoHistory, history, procVars, Goto, Up, Session, Exists, Crossed, ProcTypes
  <1>9. CASE DropSnapshots(p)
    <2>1. DropSnapshotsDoes(p)
      BY <1>9, DropSnapshotsStep
    <2> QED
      BY <2>1 DEF DropSnapshotsDoes, Moves, Finished, Up, Session, Exists, Crossed
  <1>10. CASE SingleUser(p)
    <2>1. SingleUserDoes(p)
      BY <1>10, SingleUserStep
    <2> QED
      BY <2>1 DEF SingleUserDoes, Moves, Finished, Becomes, Up, Session, Exists, Crossed
  <1>11. CASE DropDatabase(p)
    <2>1. DropDatabaseDoes(p)
      BY <1>11, DropDatabaseStep
    <2> QED
      BY <2>1 DEF DropDatabaseDoes, Moves, Finished, Up, Session, Exists, Crossed
  <1>12. CASE CheckDatabase(p)
    BY <1>12 DEF CheckDatabase, Frame, NoHistory, history, procVars, Goto, Up, Session, Exists, Crossed, ProcTypes
  <1>13. CASE CreateDatabase(p)
    <2>1. CreateDatabaseDoes(p)
      BY <1>13, CreateDatabaseStep
    <2> QED
      BY <2>1 DEF CreateDatabaseDoes, Moves, Finished, Up, Session, Exists, Crossed
  <1>14. CASE Connect(p)
    <2>1. ConnectDoes(p)
      BY <1>14, ConnectStep
    <2> QED
      BY <2>1 DEF ConnectDoes, Moves, Finished, Becomes, Opened, Up, Session, Exists, Crossed
  <1>15. CASE Build(p)
    <2>1. BuildDoes(p)
      BY <1>15, BuildStep
    <2> QED
      BY <2>1 DEF BuildDoes, Moves, Becomes, Up, Session, Exists, Crossed, DatabaseType, Content
  <1>16. CASE DeleteRows(p)
    <2>1. DeleteRowsDoes(p)
      BY <1>16, DeleteRowsStep
    <2> QED
      BY <2>1 DEF DeleteRowsDoes, Moves, Finished, Becomes, Up, Session, Exists, Crossed, DatabaseType, Content
  <1>17. CASE InsertRows(p)
    <2>1. InsertRowsDoes(p)
      BY <1>17, InsertRowsStep
    <2> QED
      BY <2>1 DEF InsertRowsDoes, Moves, Becomes, Up, Session, Exists, Crossed, DatabaseType, Content
  <1>18. CASE InsertRest(p)
    <2>1. InsertRestDoes(p)
      BY <1>18, InsertRestStep
    <2> QED
      BY <2>1 DEF InsertRestDoes, Moves, Becomes, Up, Session, Exists, Crossed, DatabaseType, Content
  <1>19. CASE Close(p)
    <2>1. CloseDoes(p)
      BY <1>19, CloseStep
    <2> QED
      BY <2>1 DEF CloseDoes, Moves, Finished, Up, Session, Exists, Crossed
  <1>20. CASE DropOldSnapshot(p)
    <2>1. DropOldSnapshotDoes(p)
      BY <1>20, DropOldSnapshotStep
    <2> QED
      BY <2>1 DEF DropOldSnapshotDoes, Moves, Finished, Up, Session, Exists, Crossed
  <1>21. CASE CreateSnapshot(p)
    <2>1. CreateSnapshotDoes(p)
      BY <1>21, CreateSnapshotStep
    <2> QED
      BY <2>1 DEF CreateSnapshotDoes, Moves, Finished, Up, Session, Exists, Crossed
  <1>22. CASE CheckSnapshots(p)
    <2>1. CheckSnapshotsDoes(p)
      BY <1>22, CheckSnapshotsStep
    <2> QED
      BY <2>1 DEF CheckSnapshotsDoes, Moves, Finished, Up, Session, Exists, Crossed
  <1>23. CASE Revert(p)
    <2>1. RevertDoes(p)
      BY <1>23, RevertStep
    <2> QED
      BY <2>1 DEF RevertDoes, Moves, Becomes, Up, Session, Exists, Crossed, DatabaseType, Content
  <1>24. CASE MultiUser(p)
    <2>1. MultiUserDoes(p)
      BY <1>24, MultiUserStep
    <2> QED
      BY <2>1 DEF MultiUserDoes, Moves, Finished, Becomes, Up, Session, Exists, Crossed
  <1>25. CASE ListPending(p)
    <2>1. ListPendingDoes(p)
      BY <1>25, ListPendingStep
    <2> QED
      BY <2>1 DEF ListPendingDoes, Moves, Finished, Becomes, Opened, Up, Session, Exists, Crossed
  <1>26. CASE ExecuteBatch(p)
    <2>1. ExecuteBatchDoes(p)
      BY <1>26, ExecuteBatchStep
    <2> QED
      BY <2>1 DEF ExecuteBatchDoes, Moves, Finished, Up, Session, Exists, Crossed
  <1>27. CASE Commit(p)
    <2>1. CommitDoes(p)
      BY <1>27, CommitStep
    <2> QED
      BY <2>1 DEF CommitDoes, Moves, Becomes, Up, Session, Exists, Crossed, DatabaseType, Content
  <1>28. CASE CheckRow(p)
    <2>1. CheckRowDoes(p)
      BY <1>28, CheckRowStep
    <2> QED
      BY <2>1 DEF CheckRowDoes, Moves, Finished, Becomes, Opened, Up, Session, Exists, Crossed
  <1>29. CASE InsertRow(p)
    <2>1. InsertRowDoes(p)
      BY <1>29, InsertRowStep
    <2> QED
      BY <2>1 DEF InsertRowDoes, Moves, Finished, Becomes, Up, Session, Exists, Crossed, DatabaseType, Content
  <1>30. CASE Verify(p)
    <2>1. VerifyDoes(p)
      BY <1>30, VerifyStep
    <2> QED
      BY <2>1 DEF VerifyDoes, Moves, Finished, Up, Session, Exists, Crossed
  <1>31. CASE SessionLost(p)
    <2>1. SessionLostDoes(p)
      BY <1>31, SessionLostStep
    <2> QED
      BY <2>1 DEF SessionLostDoes, Moves, Finished, Up, Session, Exists, Crossed
  <1>32. CASE ServerLost(p)
    <2>1. ServerLostDoes(p)
      BY <1>32, ServerLostStep
    <2> QED
      BY <2>1 DEF ServerLostDoes, Moves, Finished, Up, Session, Exists, Crossed, LeftSingle
  <1>33. CASE Die(p)
    <2>1. DieDoes(p)
      BY <1>33, DieStep
    <2> QED
      BY <2>1 DEF DieDoes, Moves, Finished, Up, Session, Exists, Crossed, LeftSingle
  <1>34. CASE ChangeWorktree(p)
    BY <1>34 DEF ChangeWorktree, Frame, NoHistory, history, procVars, Goto, Up, Session, Exists, Crossed, Fault, ProcTypes
  <1> QED
    BY <1>1, <1>2, <1>3, <1>4, <1>5, <1>6, <1>7, <1>8, <1>9, <1>10, <1>11, <1>12, <1>13, <1>14, <1>15, <1>16, <1>17, <1>18, <1>19, <1>20, <1>21, <1>22, <1>23, <1>24, <1>25, <1>26, <1>27, <1>28, <1>29, <1>30, <1>31, <1>32, <1>33, <1>34 DEF Step

\* A step of a command keeps every database, and every snapshot, all or nothing.
LEMMA StepSound ==
  ASSUME TypeOK, RecordInv, SoundInv, NEW p \in Proc, Step(p)
  PROVE  SoundInv'
  <1> ProcTypes /\ \A d \in DOMAIN dbs : dbs[d] \in DatabaseType
    BY DEF TypeOK, DbTypes
  <1> USE DEF SoundInv, Sound
  <1>1. CASE Begin(p)
    <2>1. BeginDoes(p)
      BY <1>1, BeginStep
    <2> QED
      BY <2>1 DEF BeginDoes, Moves, Up, Session, Exists, Crossed, DatabaseType, Content, Ended
  <1>2. CASE ContainerStep(p)
    BY <1>2 DEF ContainerStep, Frame, NoHistory, history, procVars, Goto, Up, Session, Exists, Crossed, DatabaseType, Content, Available, GetContainer, CreateContainer, WaitReady, ProcTypes
  <1>3. CASE TimeOut(p)
    BY <1>3 DEF TimeOut, Frame, NoHistory, history, procVars, Goto, Up, Session, Exists, Crossed, DatabaseType, Content, ProcTypes
  <1>4. CASE ListDbs(p)
    BY <1>4 DEF ListDbs, Frame, NoHistory, history, procVars, Goto, Up, Session, Exists, Crossed, DatabaseType, Content, ProcTypes
  <1>5. CASE ListTrees(p)
    BY <1>5 DEF ListTrees, Frame, NoHistory, history, procVars, Goto, Up, Session, Exists, Crossed, DatabaseType, Content, ProcTypes
  <1>6. CASE NextDb(p)
    BY <1>6 DEF NextDb, Frame, NoHistory, history, procVars, Goto, Up, Session, Exists, Crossed, DatabaseType, Content, ProcTypes
  <1>7. CASE Terminate(p)
    <2>1. TerminateDoes(p)
      BY <1>7, TerminateStep
    <2> QED
      BY <2>1 DEF TerminateDoes, Moves, Becomes, Up, Session, Exists, Crossed, DatabaseType, Content
  <1>8. CASE LookForDb(p)
    BY <1>8 DEF LookForDb, Frame, NoHistory, history, procVars, Goto, Up, Session, Exists, Crossed, DatabaseType, Content, ProcTypes
  <1>9. CASE DropSnapshots(p)
    <2>1. DropSnapshotsDoes(p)
      BY <1>9, DropSnapshotsStep
    <2>2. \A s \in DOMAIN snaps' : s \in DOMAIN snaps /\ snaps'[s] = snaps[s]
      BY <2>1 DEF DropSnapshotsDoes
    <2>3. dbs' = dbs /\ crossed' = crossed
      BY <2>1 DEF DropSnapshotsDoes
    <2> QED
      BY <2>2, <2>3
  <1>10. CASE SingleUser(p)
    <2>1. SingleUserDoes(p)
      BY <1>10, SingleUserStep
    <2> QED
      BY <2>1 DEF SingleUserDoes, Moves, Finished, Becomes, Up, Session, Exists, Crossed, DatabaseType, Content
  <1>11. CASE DropDatabase(p)
    <2>1. DropDatabaseDoes(p)
      BY <1>11, DropDatabaseStep
    <2> QED
      BY <2>1 DEF DropDatabaseDoes, Moves, Finished, Up, Session, Exists, Crossed, DatabaseType, Content
  <1>12. CASE CheckDatabase(p)
    BY <1>12 DEF CheckDatabase, Frame, NoHistory, history, procVars, Goto, Up, Session, Exists, Crossed, DatabaseType, Content, ProcTypes
  <1>13. CASE CreateDatabase(p)
    <2>1. CreateDatabaseDoes(p)
      BY <1>13, CreateDatabaseStep
    <2> QED
      BY <2>1 DEF CreateDatabaseDoes, Moves, Finished, Up, Session, Exists, Crossed, DatabaseType, Content, Empty
  <1>14. CASE Connect(p)
    <2>1. ConnectDoes(p)
      BY <1>14, ConnectStep
    <2> QED
      BY <2>1 DEF ConnectDoes, Moves, Finished, Becomes, Opened, Up, Session, Exists, Crossed, DatabaseType, Content
  <1>15. CASE Build(p)
    <2>1. BuildDoes(p)
      BY <1>15, BuildStep
    <2> QED
      BY <2>1 DEF BuildDoes, Moves, Becomes, Up, Session, Exists, Crossed, DatabaseType, Content
  <1>16. CASE DeleteRows(p)
    <2>1. DeleteRowsDoes(p)
      BY <1>16, DeleteRowsStep
    <2> QED
      BY <2>1 DEF DeleteRowsDoes, Moves, Finished, Becomes, Up, Session, Exists, Crossed, DatabaseType, Content
  <1>17. CASE InsertRows(p)
    <2>1. InsertRowsDoes(p)
      BY <1>17, InsertRowsStep
    <2> QED
      BY <2>1 DEF InsertRowsDoes, Moves, Becomes, Up, Session, Exists, Crossed, DatabaseType, Content
  <1>18. CASE InsertRest(p)
    <2>1. InsertRestDoes(p)
      BY <1>18, InsertRestStep
    <2> QED
      BY <2>1 DEF InsertRestDoes, Moves, Becomes, Up, Session, Exists, Crossed, DatabaseType, Content
  <1>19. CASE Close(p)
    <2>1. CloseDoes(p)
      BY <1>19, CloseStep
    <2> QED
      BY <2>1 DEF CloseDoes, Moves, Finished, Up, Session, Exists, Crossed, DatabaseType, Content
  <1>20. CASE DropOldSnapshot(p)
    <2>1. DropOldSnapshotDoes(p)
      BY <1>20, DropOldSnapshotStep
    <2> QED
      BY <2>1 DEF DropOldSnapshotDoes, Moves, Finished, Up, Session, Exists, Crossed, DatabaseType, Content
  <1>21. CASE CreateSnapshot(p)
    <2>1. CreateSnapshotDoes(p)
      BY <1>21, CreateSnapshotStep
    <2> QED
      BY <2>1 DEF CreateSnapshotDoes, Moves, Finished, Up, Session, Exists, Crossed, DatabaseType, Content, Snapshot
  <1>22. CASE CheckSnapshots(p)
    <2>1. CheckSnapshotsDoes(p)
      BY <1>22, CheckSnapshotsStep
    <2> QED
      BY <2>1 DEF CheckSnapshotsDoes, Moves, Finished, Up, Session, Exists, Crossed, DatabaseType, Content
  <1>23. CASE Revert(p)
    <2>1. RevertDoes(p)
      BY <1>23, RevertStep
    <2> QED
      BY <2>1 DEF RevertDoes, Moves, Becomes, Up, Session, Exists, Crossed, DatabaseType, Content, Snapshot
  <1>24. CASE MultiUser(p)
    <2>1. MultiUserDoes(p)
      BY <1>24, MultiUserStep
    <2> QED
      BY <2>1 DEF MultiUserDoes, Moves, Finished, Becomes, Up, Session, Exists, Crossed, DatabaseType, Content
  <1>25. CASE ListPending(p)
    <2>1. ListPendingDoes(p)
      BY <1>25, ListPendingStep
    <2> QED
      BY <2>1 DEF ListPendingDoes, Moves, Finished, Becomes, Opened, Up, Session, Exists, Crossed, DatabaseType, Content
  <1>26. CASE ExecuteBatch(p)
    <2>1. ExecuteBatchDoes(p)
      BY <1>26, ExecuteBatchStep
    <2> QED
      BY <2>1 DEF ExecuteBatchDoes, Moves, Finished, Up, Session, Exists, Crossed, DatabaseType, Content
  <1>27. CASE Commit(p)
    <2>1. CommitDoes(p)
      BY <1>27, CommitStep
    <2> QED
      BY <2>1 DEF CommitDoes, Moves, Becomes, Up, Session, Exists, Crossed, DatabaseType, Content
  <1>28. CASE CheckRow(p)
    <2>1. CheckRowDoes(p)
      BY <1>28, CheckRowStep
    <2> QED
      BY <2>1 DEF CheckRowDoes, Moves, Finished, Becomes, Opened, Up, Session, Exists, Crossed, DatabaseType, Content
  <1>29. CASE InsertRow(p)
    <2>1. InsertRowDoes(p)
      BY <1>29, InsertRowStep
    <2> QED
      BY <2>1 DEF InsertRowDoes, Moves, Finished, Becomes, Up, Session, Exists, Crossed, DatabaseType, Content, RecordInv
  <1>30. CASE Verify(p)
    <2>1. VerifyDoes(p)
      BY <1>30, VerifyStep
    <2> QED
      BY <2>1 DEF VerifyDoes, Moves, Finished, Up, Session, Exists, Crossed, DatabaseType, Content
  <1>31. CASE SessionLost(p)
    <2>1. SessionLostDoes(p)
      BY <1>31, SessionLostStep
    <2> QED
      BY <2>1 DEF SessionLostDoes, Moves, Finished, Up, Session, Exists, Crossed, DatabaseType, Content
  <1>32. CASE ServerLost(p)
    <2>1. ServerLostDoes(p)
      BY <1>32, ServerLostStep
    <2> QED
      BY <2>1 DEF ServerLostDoes, Moves, Finished, Up, Session, Exists, Crossed, DatabaseType, Content, LeftSingle
  <1>33. CASE Die(p)
    <2>1. DieDoes(p)
      BY <1>33, DieStep
    <2> QED
      BY <2>1 DEF DieDoes, Moves, Finished, Up, Session, Exists, Crossed, DatabaseType, Content, LeftSingle
  <1>34. CASE ChangeWorktree(p)
    BY <1>34 DEF ChangeWorktree, Frame, NoHistory, history, procVars, Goto, Up, Session, Exists, Crossed, DatabaseType, Content, Fault, ProcTypes
  <1> QED
    BY <1>1, <1>2, <1>3, <1>4, <1>5, <1>6, <1>7, <1>8, <1>9, <1>10, <1>11, <1>12, <1>13, <1>14, <1>15, <1>16, <1>17, <1>18, <1>19, <1>20, <1>21, <1>22, <1>23, <1>24, <1>25, <1>26, <1>27, <1>28, <1>29, <1>30, <1>31, <1>32, <1>33, <1>34 DEF Step

\* Both invariants hold throughout.
LEMMA SoundKept ==
  TypeOK /\ RecordInv /\ SoundInv /\ [Next]_vars => RecordInv' /\ SoundInv'
  <1> SUFFICES ASSUME TypeOK, RecordInv, SoundInv, [Next]_vars PROVE RecordInv' /\ SoundInv'
    OBVIOUS
  <1>1. ASSUME NEW p \in Proc, Step(p) PROVE RecordInv' /\ SoundInv'
    BY <1>1, StepRecord, StepSound
  <1> USE DEF RecordInv, SoundInv, Sound, Exists
  <1>2. CASE ContainerBoots
    BY <1>2 DEF ContainerBoots, Boot, history, procVars
  <1>3. CASE StopContainer
    BY <1>3, StopStep
  <1>4. ASSUME NEW d \in DOMAIN dbs, Visit(d) PROVE RecordInv' /\ SoundInv'
    BY <1>4, VisitStep DEF Becomes
  <1>5. ASSUME NEW d \in DOMAIN dbs, VisitorLeaves(d) PROVE RecordInv' /\ SoundInv'
    BY <1>5, LeaveStep DEF Becomes
  <1>6. CASE UNCHANGED vars
    BY <1>6 DEF vars, history, procVars
  <1> QED
    BY <1>1, <1>2, <1>3, <1>4, <1>5, <1>6 DEF Next

\* All batches of a migration have taken effect or none has, also in snapshots, and what is
\* recorded has taken effect unless the database was reverted or dropped in between
\* (MigrationAtomic; execute_batches and record_applied in migrate_mssql.py with the commands
\* of testdb/mssql/api.py).
THEOREM AtomicCorrect == Spec => []MigrationAtomic
  <1>1. Init => TypeOK /\ RecordInv /\ SoundInv
    <2> SUFFICES ASSUME Init PROVE TypeOK /\ RecordInv /\ SoundInv
      OBVIOUS
    <2>1. RecordInv
      BY DEF Init, RecordInv
    <2>2. SoundInv
      <3>1. PICK old, taken : \E effect \in {0, Batches} :
              /\ dbs = [d \in old |-> Database([Full EXCEPT !.effect = effect], "multi", {})]
              /\ snaps = [s \in taken |-> Full]
        BY InitDbs
      <3>2. \A s \in DOMAIN snaps : Sound(s[1], snaps[s])
        BY <3>1, FullType DEF Sound
      <3>3. \A d \in DOMAIN dbs : \E effect \in {0, Batches} :
              dbs[d].content = [Full EXCEPT !.effect = effect]
        BY <3>1 DEF Database
      <3>4. \A d \in DOMAIN dbs : Sound(d, dbs[d].content)
        BY <3>3, FullType DEF Sound
      <3> QED
        BY <3>2, <3>4 DEF SoundInv
    <2> QED
      BY <2>1, <2>2, InitTypes
  <1>2. TypeOK /\ RecordInv /\ SoundInv /\ [Next]_vars => (TypeOK /\ RecordInv /\ SoundInv)'
    BY NextTypes, SoundKept
  <1>3. SoundInv => MigrationAtomic
    BY DEF SoundInv, Sound, MigrationAtomic
  <1> QED
    BY <1>1, <1>2, <1>3, PTL DEF Spec

-----------------------------------------------------------------------------
(* Labels *)

\* A step of a command takes it to a label of its kind.
LEMMA StepFlow ==
  ASSUME TypeOK, FlowInv, NEW p \in Proc, Step(p)
  PROVE  FlowInv'
  <1> ProcTypes
    BY DEF TypeOK
  <1> USE DEF FlowInv
  <1>1. CASE Begin(p)
    <2>1. PICK c \in Commands : /\ Moves(p, Entry(c)) /\ cmd'[p] = c
                                /\ \A q \in Proc : q # p => cmd'[q] = cmd[q]
      BY <1>1, BeginStep DEF BeginDoes
    <2>2. \/ c[1] = "ensure" /\ Entry(c) = "probe"
          \/ c[1] = "clean" /\ Entry(c) \in {"next", "list"}
          \/ c[1] \in {"snapshot", "restore", "migrate"} /\ Entry(c) = c[1]
      BY EntryLabel
    <2>3. \A q \in Proc : q # p => pc'[q] = pc[q] /\ cmd'[q] = cmd[q]
      BY <2>1 DEF Moves
    <2>4. pc'[p] = Entry(c) /\ cmd'[p] = c
      BY <2>1 DEF Moves
    <2> QED
      BY <2>2, <2>3, <2>4
  <1>2. CASE ContainerStep(p)
    BY <1>2 DEF ContainerStep, Frame, NoHistory, history, procVars, Goto, Up, Session, Available, GetContainer, CreateContainer, WaitReady, ProcTypes
  <1>3. CASE TimeOut(p)
    BY <1>3 DEF TimeOut, Frame, NoHistory, history, procVars, Goto, Up, Session, ProcTypes
  <1>4. CASE ListDbs(p)
    BY <1>4 DEF ListDbs, Frame, NoHistory, history, procVars, Goto, Up, Session, ProcTypes
  <1>5. CASE ListTrees(p)
    BY <1>5 DEF ListTrees, Frame, NoHistory, history, procVars, Goto, Up, Session, ProcTypes
  <1>6. CASE NextDb(p)
    BY <1>6 DEF NextDb, Frame, NoHistory, history, procVars, Goto, Up, Session, ProcTypes
  <1>7. CASE Terminate(p)
    <2>1. TerminateDoes(p)
      BY <1>7, TerminateStep
    <2> QED
      BY <2>1 DEF TerminateDoes, Moves, Up, Session
  <1>8. CASE LookForDb(p)
    BY <1>8 DEF LookForDb, Frame, NoHistory, history, procVars, Goto, Up, Session, ProcTypes
  <1>9. CASE DropSnapshots(p)
    <2>1. DropSnapshotsDoes(p)
      BY <1>9, DropSnapshotsStep
    <2>2. cmd' = cmd /\ (pc' = pc \/ (pc[p] = "snapshots" /\ Moves(p, "single")))
      BY <2>1 DEF DropSnapshotsDoes, Up
    <2> QED
      BY <2>2 DEF Moves
  <1>10. CASE SingleUser(p)
    <2>1. SingleUserDoes(p)
      BY <1>10, SingleUserStep
    <2> QED
      BY <2>1 DEF SingleUserDoes, Moves, Finished, Up, Session
  <1>11. CASE DropDatabase(p)
    <2>1. DropDatabaseDoes(p)
      BY <1>11, DropDatabaseStep
    <2> QED
      BY <2>1 DEF DropDatabaseDoes, Moves, Finished, Up, Session
  <1>12. CASE CheckDatabase(p)
    BY <1>12 DEF CheckDatabase, Frame, NoHistory, history, procVars, Goto, Up, Session, ProcTypes
  <1>13. CASE CreateDatabase(p)
    <2>1. CreateDatabaseDoes(p)
      BY <1>13, CreateDatabaseStep
    <2> QED
      BY <2>1 DEF CreateDatabaseDoes, Moves, Finished, Up, Session
  <1>14. CASE Connect(p)
    <2>1. ConnectDoes(p)
      BY <1>14, ConnectStep
    <2> QED
      BY <2>1 DEF ConnectDoes, Moves, Finished, Opened, Up, Session
  <1>15. CASE Build(p)
    <2>1. BuildDoes(p)
      BY <1>15, BuildStep
    <2> QED
      BY <2>1 DEF BuildDoes, Moves, Up, Session
  <1>16. CASE DeleteRows(p)
    <2>1. DeleteRowsDoes(p)
      BY <1>16, DeleteRowsStep
    <2> QED
      BY <2>1 DEF DeleteRowsDoes, Moves, Finished, Up, Session
  <1>17. CASE InsertRows(p)
    <2>1. InsertRowsDoes(p)
      BY <1>17, InsertRowsStep
    <2> QED
      BY <2>1 DEF InsertRowsDoes, Moves, Up, Session
  <1>18. CASE InsertRest(p)
    <2>1. InsertRestDoes(p)
      BY <1>18, InsertRestStep
    <2> QED
      BY <2>1 DEF InsertRestDoes, Moves, Up, Session
  <1>19. CASE Close(p)
    <2>1. CloseDoes(p)
      BY <1>19, CloseStep
    <2> QED
      BY <2>1 DEF CloseDoes, Moves, Finished, Up, Session
  <1>20. CASE DropOldSnapshot(p)
    <2>1. DropOldSnapshotDoes(p)
      BY <1>20, DropOldSnapshotStep
    <2> QED
      BY <2>1 DEF DropOldSnapshotDoes, Moves, Finished, Up, Session
  <1>21. CASE CreateSnapshot(p)
    <2>1. CreateSnapshotDoes(p)
      BY <1>21, CreateSnapshotStep
    <2> QED
      BY <2>1 DEF CreateSnapshotDoes, Moves, Finished, Up, Session
  <1>22. CASE CheckSnapshots(p)
    <2>1. CheckSnapshotsDoes(p)
      BY <1>22, CheckSnapshotsStep
    <2> QED
      BY <2>1 DEF CheckSnapshotsDoes, Moves, Finished, Up, Session
  <1>23. CASE Revert(p)
    <2>1. RevertDoes(p)
      BY <1>23, RevertStep
    <2> QED
      BY <2>1 DEF RevertDoes, Moves, Up, Session
  <1>24. CASE MultiUser(p)
    <2>1. MultiUserDoes(p)
      BY <1>24, MultiUserStep
    <2> QED
      BY <2>1 DEF MultiUserDoes, Moves, Finished, Up, Session
  <1>25. CASE ListPending(p)
    <2>1. ListPendingDoes(p)
      BY <1>25, ListPendingStep
    <2>2. cmd[p][1] # "ensure"
      BY <2>1 DEF ListPendingDoes, Up
    <2>3. cmd' = cmd \/ cmd' = [cmd EXCEPT ![p] = <<"migrate", "mark">>]
      BY <2>1 DEF ListPendingDoes
    <2>4. (\A q \in Proc : q # p => cmd'[q] = cmd[q]) /\ cmd'[p][1] # "ensure"
      BY <2>2, <2>3 DEF ProcTypes
    <2>5. (\A q \in Proc : q # p => pc'[q] = pc[q]) /\ pc'[p] \in {"batch", "record", "done", "failed"}
      BY <2>1 DEF ListPendingDoes, Opened, Moves, Finished
    <2> QED
      BY <2>4, <2>5
  <1>26. CASE ExecuteBatch(p)
    <2>1. ExecuteBatchDoes(p)
      BY <1>26, ExecuteBatchStep
    <2> QED
      BY <2>1 DEF ExecuteBatchDoes, Moves, Finished, Up, Session
  <1>27. CASE Commit(p)
    <2>1. CommitDoes(p)
      BY <1>27, CommitStep
    <2> QED
      BY <2>1 DEF CommitDoes, Moves, Up, Session
  <1>28. CASE CheckRow(p)
    <2>1. CheckRowDoes(p)
      BY <1>28, CheckRowStep
    <2> QED
      BY <2>1 DEF CheckRowDoes, Moves, Finished, Opened, Up, Session
  <1>29. CASE InsertRow(p)
    <2>1. InsertRowDoes(p)
      BY <1>29, InsertRowStep
    <2> QED
      BY <2>1 DEF InsertRowDoes, Moves, Finished, Up, Session
  <1>30. CASE Verify(p)
    <2>1. VerifyDoes(p)
      BY <1>30, VerifyStep
    <2> QED
      BY <2>1 DEF VerifyDoes, Moves, Finished, Up, Session
  <1>31. CASE SessionLost(p)
    <2>1. SessionLostDoes(p)
      BY <1>31, SessionLostStep
    <2> QED
      BY <2>1 DEF SessionLostDoes, Moves, Finished, Up, Session, Working
  <1>32. CASE ServerLost(p)
    <2>1. ServerLostDoes(p)
      BY <1>32, ServerLostStep
    <2> QED
      BY <2>1 DEF ServerLostDoes, Moves, Finished, Up, Session, Ended, LeftSingle
  <1>33. CASE Die(p)
    <2>1. DieDoes(p)
      BY <1>33, DieStep
    <2> QED
      BY <2>1 DEF DieDoes, Moves, Finished, Up, Session, Ended, LeftSingle
  <1>34. CASE ChangeWorktree(p)
    BY <1>34 DEF ChangeWorktree, Frame, NoHistory, history, procVars, Goto, Up, Session, Fault, ProcTypes
  <1> QED
    BY <1>1, <1>2, <1>3, <1>4, <1>5, <1>6, <1>7, <1>8, <1>9, <1>10, <1>11, <1>12, <1>13, <1>14, <1>15, <1>16, <1>17, <1>18, <1>19, <1>20, <1>21, <1>22, <1>23, <1>24, <1>25, <1>26, <1>27, <1>28, <1>29, <1>30, <1>31, <1>32, <1>33, <1>34 DEF Step

\* Every step keeps commands at the labels of their kind.
LEMMA FlowKept == TypeOK /\ FlowInv /\ [Next]_vars => FlowInv'
  <1> SUFFICES ASSUME TypeOK, FlowInv, [Next]_vars PROVE FlowInv'
    OBVIOUS
  <1>1. ASSUME NEW p \in Proc, Step(p) PROVE FlowInv'
    BY <1>1, StepFlow
  <1>2. CASE ContainerBoots
    BY <1>2 DEF ContainerBoots, Boot, history, procVars, FlowInv
  <1>3. CASE StopContainer
    BY <1>3, StopStep DEF FlowInv
  <1>4. ASSUME NEW d \in DOMAIN dbs, Visit(d) PROVE FlowInv'
    BY <1>4, VisitStep DEF FlowInv
  <1>5. ASSUME NEW d \in DOMAIN dbs, VisitorLeaves(d) PROVE FlowInv'
    BY <1>5, LeaveStep DEF FlowInv
  <1>6. CASE UNCHANGED vars
    BY <1>6 DEF vars, history, procVars, FlowInv
  <1> QED
    BY <1>1, <1>2, <1>3, <1>4, <1>5, <1>6 DEF Next

\* No command has begun at the start.
LEMMA InitLabels == Init => \A p \in Proc : pc[p] = "idle"
  <1> SUFFICES ASSUME Init PROVE \A p \in Proc : pc[p] = "idle"
    OBVIOUS
  <1>1. pc = [p \in Proc |-> "idle"]
    BY Zenon DEF Init
  <1> QED
    BY <1>1

\* So they are at labels they can be at.
LEMMA InitFlow == Init => FlowInv
  BY InitLabels DEF FlowInv
-----------------------------------------------------------------------------
(* SweepSparesOwned *)

\* What belongs to a worktree that is there or locked is what the sweep expects.
LEMMA OwnedExpected ==
  ASSUME NEW d, NEW project, Owned(d, project, worktree)
  PROVE  d \in Expected(project)
  <1>1. PICK q \in Proc :
          /\ Project(q) = project /\ worktree[q] \in {"here", "locked"}
          /\ LET own == WorkspaceDbName(project, setup.ws[q].branch)
             IN d = own \/ \E s \in Extras : d = own \o s
    BY DEF Owned
  <1>2. setup.ws[q].branch \in LiveBranches(project)
    BY <1>1 DEF LiveBranches
  <1> DEFINE main == {WorkspaceDbName(project, b) : b \in LiveBranches(project)}
             own == WorkspaceDbName(project, setup.ws[q].branch)
  <1>3. own \in main
    BY <1>2
  <1>4. Expected(project) = main \cup {e \o s : e \in main, s \in Extras}
    BY DEF Expected, ExpectedDbNames
  <1>5. d = own \/ \E s \in Extras : d = own \o s
    BY <1>1
  <1> HIDE DEF main, own
  <1>6. ASSUME NEW s \in Extras, d = own \o s PROVE d \in {e \o t : e \in main, t \in Extras}
    BY <1>3, <1>6
  <1> QED
    BY <1>3, <1>4, <1>5, <1>6

\* A step of p that leaves what sweeps go through.
Quiet(p) ==
  /\ UNCHANGED <<setup, worktree, cmd, todo, cur, unowned>>
  /\ \A q \in Proc : q # p => pc'[q] = pc[q]
  /\ cmd[p] = <<"clean", "orphaned">> =>
       /\ pc'[p] = "trees" => pc[p] = "trees"
       /\ Dropping(p)' => Dropping(p)
       /\ pc'[p] = "next" => pc[p] = "next" \/ Dropping(p)

\* Such a step keeps the invariant of sweeps.
LEMMA SweepQuiet ==
  ASSUME SweepInv, NEW p \in Proc, Quiet(p)
  PROVE  SweepInv'
  <1> USE DEF Quiet
  <1> SUFFICES ASSUME NEW q \in Proc, cmd[q] = <<"clean", "orphaned">>
               PROVE  /\ pc'[q] = "trees" => Unowned(q, todo[q], worktree)' \subseteq unowned[q]
                      /\ pc'[q] = "next" \/ Dropping(q)' => todo[q] \subseteq unowned[q]
                      /\ Dropping(q)' => cur[q] \in unowned[q]
    BY DEF SweepInv
  <1>1. Unowned(q, todo[q], worktree)' = Unowned(q, todo[q], worktree)
    BY DEF Unowned, Owned, Project
  <1>2. CASE q = p
    BY <1>1, <1>2 DEF SweepInv
  <1>3. CASE q # p
    BY <1>1, <1>3 DEF SweepInv, Dropping
  <1> QED
    BY <1>2, <1>3

\* A step of a command keeps it: a sweep drops what it listed, less what the worktrees expect.
LEMMA StepSweep ==
  ASSUME TypeOK, FlowInv, SweepInv, NEW p \in Proc, Step(p)
  PROVE  SweepInv'
  <1> ProcTypes
    BY DEF TypeOK
  <1>1. CASE Begin(p)
    <2>0. BeginDoes(p)
      BY <1>1, BeginStep
    <2>1. /\ UNCHANGED <<setup, worktree, unowned>>
          /\ \A q \in Proc : q # p => pc'[q] = pc[q] /\ cmd'[q] = cmd[q] /\ todo'[q] = todo[q] /\ cur'[q] = cur[q]
      BY <2>0, Zenon DEF BeginDoes, Moves
    <2>2. cmd'[p] = <<"clean", "orphaned">> => pc'[p] \notin {"trees", "next"} /\ ~Dropping(p)'
      <3>1. PICK c \in Commands : pc'[p] = Entry(c) /\ cmd'[p] = c
        BY <1>1, BeginStep DEF BeginDoes, Moves
      <3>2. c = <<"clean", "orphaned">> => c[1] = "clean" /\ c[2] = "orphaned"
        OBVIOUS
      <3>3. c = <<"clean", "orphaned">> => Entry(c) = "list"
        BY <3>2, EntryLabel
      <3> QED
        BY <3>1, <3>3 DEF Dropping
    <2>8. \A q \in Proc : q # p => Unowned(q, todo[q], worktree)' = Unowned(q, todo[q], worktree)
      BY <2>1 DEF Unowned, Owned, Project
    <2> QED
      BY <2>1, <2>2, <2>8 DEF SweepInv, Dropping
  <1>2. CASE ContainerStep(p)
    <2>1. Quiet(p)
      BY <1>2 DEF ContainerStep, Frame, NoHistory, history, procVars, Goto, ProcTypes, Up, Available, GetContainer, CreateContainer, WaitReady, FlowInv, Dropping, Quiet
    <2> QED
      BY <2>1, SweepQuiet
  <1>3. CASE TimeOut(p)
    <2>1. Quiet(p)
      BY <1>3 DEF TimeOut, Frame, NoHistory, history, procVars, Goto, ProcTypes, Up, FlowInv, Dropping, Quiet
    <2> QED
      BY <2>1, SweepQuiet
  <1>4. CASE ListDbs(p)
    <2>1. /\ UNCHANGED <<setup, worktree, cmd, cur>>
          /\ \A q \in Proc : q # p => pc'[q] = pc[q] /\ todo'[q] = todo[q] /\ unowned'[q] = unowned[q]
      BY <1>4 DEF ListDbs, Frame, Goto, ProcTypes
    <2>2. unowned'[p] = Unowned(p, todo'[p], worktree)
      BY <1>4 DEF ListDbs, ProcTypes
    <2>3. Unowned(p, todo[p], worktree)' = Unowned(p, todo'[p], worktree)
      BY <2>1 DEF Unowned, Owned, Project
    <2>4. cmd[p] = <<"clean", "orphaned">> => pc'[p] = "trees"
      BY <1>4 DEF ListDbs, Goto, ProcTypes
    <2>8. \A q \in Proc : q # p => Unowned(q, todo[q], worktree)' = Unowned(q, todo[q], worktree)
      BY <2>1 DEF Unowned, Owned, Project
    <2> QED
      BY <2>1, <2>2, <2>3, <2>4, <2>8 DEF SweepInv, Dropping
  <1>5. CASE ListTrees(p)
    <2>1. /\ UNCHANGED <<setup, worktree, cmd, cur, unowned>>
          /\ \A q \in Proc : q # p => pc'[q] = pc[q] /\ todo'[q] = todo[q]
          /\ pc[p] = "trees" /\ pc'[p] = "next"
      BY <1>5 DEF ListTrees, Frame, Goto, NoHistory, history, ProcTypes
    <2>2. todo'[p] = todo[p] \ Expected(Project(p))
      BY <1>5 DEF ListTrees, ProcTypes
    <2>3. todo'[p] \subseteq Unowned(p, todo[p], worktree)
      BY <2>2, OwnedExpected DEF Unowned
    <2>8. \A q \in Proc : q # p => Unowned(q, todo[q], worktree)' = Unowned(q, todo[q], worktree)
      BY <2>1 DEF Unowned, Owned, Project
    <2> QED
      BY <2>1, <2>3, <2>8 DEF SweepInv, Dropping
  <1>6. CASE NextDb(p)
    <2>1. /\ UNCHANGED <<setup, worktree, cmd, unowned>>
          /\ \A q \in Proc : q # p => pc'[q] = pc[q] /\ todo'[q] = todo[q] /\ cur'[q] = cur[q]
          /\ pc[p] = "next"
      BY <1>6 DEF NextDb, Frame, Goto, NoHistory, history, ProcTypes
    <2>2. \/ pc'[p] \in {"check", "done"}
          \/ pc'[p] = "drop" /\ cur'[p] \in todo[p] /\ todo'[p] \subseteq todo[p]
      BY <1>6 DEF NextDb, Goto, ProcTypes
    <2>8. \A q \in Proc : q # p => Unowned(q, todo[q], worktree)' = Unowned(q, todo[q], worktree)
      <3> SUFFICES ASSUME NEW q \in Proc, q # p
                   PROVE  Unowned(q, todo[q], worktree)' = Unowned(q, todo[q], worktree)
        OBVIOUS
      <3>1. todo'[q] = todo[q] /\ setup' = setup /\ worktree' = worktree
        BY <2>1
      <3> QED
        BY <3>1 DEF Unowned, Owned, Project
    <2> QED
      BY <2>1, <2>2, <2>8 DEF SweepInv, Dropping
  <1>7. CASE Terminate(p)
    <2>1. TerminateDoes(p)
      BY <1>7, TerminateStep
    <2>2. Quiet(p)
      BY <2>1 DEF TerminateDoes, Moves, Up, Session, FlowInv, Dropping, Quiet
    <2> QED
      BY <2>2, SweepQuiet
  <1>8. CASE LookForDb(p)
    <2>1. Quiet(p)
      BY <1>8 DEF LookForDb, Frame, NoHistory, history, procVars, Goto, ProcTypes, Up, FlowInv, Dropping, Quiet
    <2> QED
      BY <2>1, SweepQuiet
  <1>9. CASE DropSnapshots(p)
    <2>1. DropSnapshotsDoes(p)
      BY <1>9, DropSnapshotsStep
    <2>2. Quiet(p)
      BY <2>1 DEF DropSnapshotsDoes, Moves, Up, Session, Finished, FlowInv, Dropping, Quiet
    <2> QED
      BY <2>2, SweepQuiet
  <1>10. CASE SingleUser(p)
    <2>1. SingleUserDoes(p)
      BY <1>10, SingleUserStep
    <2>2. Quiet(p)
      BY <2>1 DEF SingleUserDoes, Moves, Up, Session, Finished, FlowInv, Dropping, Quiet
    <2> QED
      BY <2>2, SweepQuiet
  <1>11. CASE DropDatabase(p)
    <2>1. DropDatabaseDoes(p)
      BY <1>11, DropDatabaseStep
    <2>2. Quiet(p)
      BY <2>1 DEF DropDatabaseDoes, Moves, Up, Session, Finished, FlowInv, Dropping, Quiet
    <2> QED
      BY <2>2, SweepQuiet
  <1>12. CASE CheckDatabase(p)
    <2>1. Quiet(p)
      BY <1>12 DEF CheckDatabase, Frame, NoHistory, history, procVars, Goto, ProcTypes, Up, FlowInv, Dropping, Quiet
    <2> QED
      BY <2>1, SweepQuiet
  <1>13. CASE CreateDatabase(p)
    <2>1. CreateDatabaseDoes(p)
      BY <1>13, CreateDatabaseStep
    <2>2. Quiet(p)
      BY <2>1 DEF CreateDatabaseDoes, Moves, Up, Session, Finished, FlowInv, Dropping, Quiet
    <2> QED
      BY <2>2, SweepQuiet
  <1>14. CASE Connect(p)
    <2>1. ConnectDoes(p)
      BY <1>14, ConnectStep
    <2>2. Quiet(p)
      BY <2>1 DEF ConnectDoes, Moves, Up, Session, Finished, Opened, FlowInv, Dropping, Quiet
    <2> QED
      BY <2>2, SweepQuiet
  <1>15. CASE Build(p)
    <2>1. BuildDoes(p)
      BY <1>15, BuildStep
    <2>2. Quiet(p)
      BY <2>1 DEF BuildDoes, Moves, Up, Session, FlowInv, Dropping, Quiet
    <2> QED
      BY <2>2, SweepQuiet
  <1>16. CASE DeleteRows(p)
    <2>1. DeleteRowsDoes(p)
      BY <1>16, DeleteRowsStep
    <2>2. Quiet(p)
      BY <2>1 DEF DeleteRowsDoes, Moves, Up, Session, Finished, FlowInv, Dropping, Quiet
    <2> QED
      BY <2>2, SweepQuiet
  <1>17. CASE InsertRows(p)
    <2>1. InsertRowsDoes(p)
      BY <1>17, InsertRowsStep
    <2>2. Quiet(p)
      BY <2>1 DEF InsertRowsDoes, Moves, Up, Session, FlowInv, Dropping, Quiet
    <2> QED
      BY <2>2, SweepQuiet
  <1>18. CASE InsertRest(p)
    <2>1. InsertRestDoes(p)
      BY <1>18, InsertRestStep
    <2>2. Quiet(p)
      BY <2>1 DEF InsertRestDoes, Moves, Up, Session, FlowInv, Dropping, Quiet
    <2> QED
      BY <2>2, SweepQuiet
  <1>19. CASE Close(p)
    <2>1. CloseDoes(p)
      BY <1>19, CloseStep
    <2>2. Quiet(p)
      BY <2>1 DEF CloseDoes, Moves, Up, Session, Finished, FlowInv, Dropping, Quiet
    <2> QED
      BY <2>2, SweepQuiet
  <1>20. CASE DropOldSnapshot(p)
    <2>1. DropOldSnapshotDoes(p)
      BY <1>20, DropOldSnapshotStep
    <2>2. Quiet(p)
      BY <2>1 DEF DropOldSnapshotDoes, Moves, Up, Session, Finished, FlowInv, Dropping, Quiet
    <2> QED
      BY <2>2, SweepQuiet
  <1>21. CASE CreateSnapshot(p)
    <2>1. CreateSnapshotDoes(p)
      BY <1>21, CreateSnapshotStep
    <2>2. Quiet(p)
      BY <2>1 DEF CreateSnapshotDoes, Moves, Up, Session, Finished, FlowInv, Dropping, Quiet
    <2> QED
      BY <2>2, SweepQuiet
  <1>22. CASE CheckSnapshots(p)
    <2>1. CheckSnapshotsDoes(p)
      BY <1>22, CheckSnapshotsStep
    <2>2. Quiet(p)
      BY <2>1 DEF CheckSnapshotsDoes, Moves, Up, Session, Finished, FlowInv, Dropping, Quiet
    <2> QED
      BY <2>2, SweepQuiet
  <1>23. CASE Revert(p)
    <2>1. RevertDoes(p)
      BY <1>23, RevertStep
    <2>2. Quiet(p)
      BY <2>1 DEF RevertDoes, Moves, Up, Session, FlowInv, Dropping, Quiet
    <2> QED
      BY <2>2, SweepQuiet
  <1>24. CASE MultiUser(p)
    <2>1. MultiUserDoes(p)
      BY <1>24, MultiUserStep
    <2>2. Quiet(p)
      BY <2>1 DEF MultiUserDoes, Moves, Up, Session, Finished, FlowInv, Dropping, Quiet
    <2> QED
      BY <2>2, SweepQuiet
  <1>25. CASE ListPending(p)
    <2>1. /\ UNCHANGED <<setup, worktree, todo, cur, unowned>>
          /\ \A q \in Proc : q # p => pc'[q] = pc[q] /\ cmd'[q] = cmd[q]
      BY <1>25, ListPendingStep DEF ListPendingDoes, Opened, Finished, Moves, ProcTypes
    <2>2. pc'[p] \notin {"trees", "next"} /\ ~Dropping(p)'
      BY <1>25, ListPendingStep DEF ListPendingDoes, Opened, Finished, Moves, Dropping
    <2>8. \A q \in Proc : q # p => Unowned(q, todo[q], worktree)' = Unowned(q, todo[q], worktree)
      BY <2>1 DEF Unowned, Owned, Project
    <2> QED
      BY <2>1, <2>2, <2>8 DEF SweepInv, Dropping
  <1>26. CASE ExecuteBatch(p)
    <2>1. ExecuteBatchDoes(p)
      BY <1>26, ExecuteBatchStep
    <2>2. Quiet(p)
      BY <2>1 DEF ExecuteBatchDoes, Moves, Up, Session, Finished, FlowInv, Dropping, Quiet
    <2> QED
      BY <2>2, SweepQuiet
  <1>27. CASE Commit(p)
    <2>1. CommitDoes(p)
      BY <1>27, CommitStep
    <2>2. Quiet(p)
      BY <2>1 DEF CommitDoes, Moves, Up, Session, FlowInv, Dropping, Quiet
    <2> QED
      BY <2>2, SweepQuiet
  <1>28. CASE CheckRow(p)
    <2>1. CheckRowDoes(p)
      BY <1>28, CheckRowStep
    <2>2. Quiet(p)
      BY <2>1 DEF CheckRowDoes, Moves, Up, Session, Finished, Opened, FlowInv, Dropping, Quiet
    <2> QED
      BY <2>2, SweepQuiet
  <1>29. CASE InsertRow(p)
    <2>1. InsertRowDoes(p)
      BY <1>29, InsertRowStep
    <2>2. Quiet(p)
      BY <2>1 DEF InsertRowDoes, Moves, Up, Session, Finished, FlowInv, Dropping, Quiet
    <2> QED
      BY <2>2, SweepQuiet
  <1>30. CASE Verify(p)
    <2>1. VerifyDoes(p)
      BY <1>30, VerifyStep
    <2>2. Quiet(p)
      BY <2>1 DEF VerifyDoes, Moves, Up, Session, Finished, FlowInv, Dropping, Quiet
    <2> QED
      BY <2>2, SweepQuiet
  <1>31. CASE SessionLost(p)
    <2>1. SessionLostDoes(p)
      BY <1>31, SessionLostStep
    <2>2. Quiet(p)
      BY <2>1 DEF SessionLostDoes, Moves, Up, Session, Finished, Working, FlowInv, Dropping, Quiet
    <2> QED
      BY <2>2, SweepQuiet
  <1>32. CASE ServerLost(p)
    <2>1. ServerLostDoes(p)
      BY <1>32, ServerLostStep
    <2>2. Quiet(p)
      BY <2>1 DEF ServerLostDoes, Moves, Up, Session, Finished, Ended, FlowInv, Dropping, Quiet
    <2> QED
      BY <2>2, SweepQuiet
  <1>33. CASE Die(p)
    <2>1. DieDoes(p)
      BY <1>33, DieStep
    <2>2. Quiet(p)
      BY <2>1 DEF DieDoes, Moves, Up, Session, Finished, Ended, FlowInv, Dropping, Quiet
    <2> QED
      BY <2>2, SweepQuiet
  <1>34. CASE ChangeWorktree(p)
    <2>1. /\ UNCHANGED <<setup, pc, cmd, todo, cur>>
          /\ unowned' = [q \in Proc |-> unowned[q] \cup Unowned(q, todo[q], worktree')]
      BY <1>34 DEF ChangeWorktree, procVars
    <2>2. \A q \in Proc : Unowned(q, todo[q], worktree)' = Unowned(q, todo[q], worktree')
      BY <2>1 DEF Unowned, Owned, Project
    <2> QED
      BY <2>1, <2>2 DEF SweepInv, Dropping
  <1> QED
    BY <1>1, <1>2, <1>3, <1>4, <1>5, <1>6, <1>7, <1>8, <1>9, <1>10, <1>11, <1>12, <1>13, <1>14, <1>15, <1>16, <1>17, <1>18, <1>19, <1>20, <1>21, <1>22, <1>23, <1>24, <1>25, <1>26, <1>27, <1>28, <1>29, <1>30, <1>31, <1>32, <1>33, <1>34 DEF Step

\* Every step keeps it.
LEMMA SweepKept == TypeOK /\ FlowInv /\ SweepInv /\ [Next]_vars => SweepInv'
  <1> SUFFICES ASSUME TypeOK, FlowInv, SweepInv, [Next]_vars PROVE SweepInv'
    OBVIOUS
  <1>1. ASSUME NEW p \in Proc, Step(p) PROVE SweepInv'
    BY <1>1, StepSweep
  <1>2. ASSUME UNCHANGED <<setup, worktree, pc, cmd, todo, cur, unowned>> PROVE SweepInv'
    <2>1. \A q \in Proc : Unowned(q, todo[q], worktree)' = Unowned(q, todo[q], worktree)
      BY <1>2 DEF Unowned, Owned, Project
    <2> QED
      BY <1>2, <2>1 DEF SweepInv, Dropping
  <1>3. CASE ContainerBoots
    BY <1>2, <1>3 DEF ContainerBoots, Boot, history, procVars
  <1>4. CASE StopContainer
    BY <1>2, <1>4, StopStep
  <1>5. ASSUME NEW d \in DOMAIN dbs, Visit(d) PROVE SweepInv'
    BY <1>2, <1>5, VisitStep
  <1>6. ASSUME NEW d \in DOMAIN dbs, VisitorLeaves(d) PROVE SweepInv'
    BY <1>2, <1>6, LeaveStep
  <1>7. CASE UNCHANGED vars
    BY <1>2, <1>7 DEF vars, history, procVars
  <1> QED
    BY <1>1, <1>3, <1>4, <1>5, <1>6, <1>7 DEF Next

\* clean --orphaned drops only databases that had no owner at some moment since it listed them
\* (SweepSparesOwned; clean_testdb in testdb/api.py and testdb/mssql/api.py).
THEOREM SweepCorrect == Spec => []SweepSparesOwned
  <1>1. Init => TypeOK /\ FlowInv /\ SweepInv
    <2>1. Init => SweepInv
      BY DEF Init, SweepInv, Dropping
    <2> QED
      BY <2>1, InitTypes, InitFlow
  <1>2. TypeOK /\ FlowInv /\ SweepInv /\ [Next]_vars => (TypeOK /\ FlowInv /\ SweepInv)'
    BY NextTypes, FlowKept, SweepKept
  <1>3. SweepInv => SweepSparesOwned
    BY DEF SweepInv, SweepSparesOwned
  <1> QED
    BY <1>1, <1>2, <1>3, PTL DEF Spec

-----------------------------------------------------------------------------
(* EnsureDelivers *)

\* A step of a command makes no snapshot on Postgres.
LEMMA StepEngine ==
  ASSUME TypeOK, EngineInv, NEW p \in Proc, Step(p)
  PROVE  EngineInv'
  <1> ProcTypes
    BY DEF TypeOK
  <1> USE DEF EngineInv, mssql
  <1>1. CASE Begin(p)
    <2>1. PICK c \in Commands : Moves(p, Entry(c)) /\ UNCHANGED <<setup, snaps>>
      BY <1>1, BeginStep DEF BeginDoes
    <2>2. mssql \/ Entry(c) \notin {"snapshot", "create_snapshot"}
      BY EntryLabel
    <2> HIDE DEF EngineInv, mssql
    <2>3. mssql' = mssql
      BY <2>1 DEF mssql
    <2> QED
      BY <2>1, <2>2, <2>3 DEF Moves, EngineInv
  <1>2. CASE ContainerStep(p)
    BY <1>2 DEF ContainerStep, Frame, NoHistory, history, procVars, Goto, Up, Session, Available, GetContainer, CreateContainer, WaitReady, ProcTypes
  <1>3. CASE TimeOut(p)
    BY <1>3 DEF TimeOut, Frame, NoHistory, history, procVars, Goto, Up, Session, ProcTypes
  <1>4. CASE ListDbs(p)
    BY <1>4 DEF ListDbs, Frame, NoHistory, history, procVars, Goto, Up, Session, ProcTypes
  <1>5. CASE ListTrees(p)
    BY <1>5 DEF ListTrees, Frame, NoHistory, history, procVars, Goto, Up, Session, ProcTypes
  <1>6. CASE NextDb(p)
    BY <1>6 DEF NextDb, Frame, NoHistory, history, procVars, Goto, Up, Session, ProcTypes
  <1>7. CASE Terminate(p)
    <2>1. TerminateDoes(p)
      BY <1>7, TerminateStep
    <2> QED
      BY <2>1 DEF TerminateDoes, Moves, Up, Session
  <1>8. CASE LookForDb(p)
    BY <1>8 DEF LookForDb, Frame, NoHistory, history, procVars, Goto, Up, Session, ProcTypes
  <1>9. CASE DropSnapshots(p)
    <2>1. DropSnapshotsDoes(p)
      BY <1>9, DropSnapshotsStep
    <2> QED
      BY <2>1 DEF DropSnapshotsDoes, Moves, Finished, Up, Session
  <1>10. CASE SingleUser(p)
    <2>1. SingleUserDoes(p)
      BY <1>10, SingleUserStep
    <2> QED
      BY <2>1 DEF SingleUserDoes, Moves, Finished, Up, Session
  <1>11. CASE DropDatabase(p)
    <2>1. DropDatabaseDoes(p)
      BY <1>11, DropDatabaseStep
    <2> QED
      BY <2>1 DEF DropDatabaseDoes, Moves, Finished, Up, Session
  <1>12. CASE CheckDatabase(p)
    BY <1>12 DEF CheckDatabase, Frame, NoHistory, history, procVars, Goto, Up, Session, ProcTypes
  <1>13. CASE CreateDatabase(p)
    <2>1. CreateDatabaseDoes(p)
      BY <1>13, CreateDatabaseStep
    <2> QED
      BY <2>1 DEF CreateDatabaseDoes, Moves, Finished, Up, Session
  <1>14. CASE Connect(p)
    <2>1. ConnectDoes(p)
      BY <1>14, ConnectStep
    <2> QED
      BY <2>1 DEF ConnectDoes, Moves, Finished, Opened, Up, Session
  <1>15. CASE Build(p)
    <2>1. BuildDoes(p)
      BY <1>15, BuildStep
    <2> QED
      BY <2>1 DEF BuildDoes, Moves, Up, Session
  <1>16. CASE DeleteRows(p)
    <2>1. DeleteRowsDoes(p)
      BY <1>16, DeleteRowsStep
    <2> QED
      BY <2>1 DEF DeleteRowsDoes, Moves, Finished, Up, Session
  <1>17. CASE InsertRows(p)
    <2>1. InsertRowsDoes(p)
      BY <1>17, InsertRowsStep
    <2> QED
      BY <2>1 DEF InsertRowsDoes, Moves, Up, Session
  <1>18. CASE InsertRest(p)
    <2>1. InsertRestDoes(p)
      BY <1>18, InsertRestStep
    <2> QED
      BY <2>1 DEF InsertRestDoes, Moves, Up, Session
  <1>19. CASE Close(p)
    <2>1. CloseDoes(p)
      BY <1>19, CloseStep
    <2> QED
      BY <2>1 DEF CloseDoes, Moves, Finished, Up, Session
  <1>20. CASE DropOldSnapshot(p)
    <2>1. DropOldSnapshotDoes(p)
      BY <1>20, DropOldSnapshotStep
    <2> QED
      BY <2>1 DEF DropOldSnapshotDoes, Moves, Finished, Up, Session
  <1>21. CASE CreateSnapshot(p)
    <2>1. CreateSnapshotDoes(p)
      BY <1>21, CreateSnapshotStep
    <2> QED
      BY <2>1 DEF CreateSnapshotDoes, Moves, Finished, Up, Session
  <1>22. CASE CheckSnapshots(p)
    <2>1. CheckSnapshotsDoes(p)
      BY <1>22, CheckSnapshotsStep
    <2> QED
      BY <2>1 DEF CheckSnapshotsDoes, Moves, Finished, Up, Session
  <1>23. CASE Revert(p)
    <2>1. RevertDoes(p)
      BY <1>23, RevertStep
    <2> QED
      BY <2>1 DEF RevertDoes, Moves, Up, Session
  <1>24. CASE MultiUser(p)
    <2>1. MultiUserDoes(p)
      BY <1>24, MultiUserStep
    <2> QED
      BY <2>1 DEF MultiUserDoes, Moves, Finished, Up, Session
  <1>25. CASE ListPending(p)
    <2>1. ListPendingDoes(p)
      BY <1>25, ListPendingStep
    <2> QED
      BY <2>1 DEF ListPendingDoes, Moves, Finished, Opened, Up, Session
  <1>26. CASE ExecuteBatch(p)
    <2>1. ExecuteBatchDoes(p)
      BY <1>26, ExecuteBatchStep
    <2> QED
      BY <2>1 DEF ExecuteBatchDoes, Moves, Finished, Up, Session
  <1>27. CASE Commit(p)
    <2>1. CommitDoes(p)
      BY <1>27, CommitStep
    <2> QED
      BY <2>1 DEF CommitDoes, Moves, Up, Session
  <1>28. CASE CheckRow(p)
    <2>1. CheckRowDoes(p)
      BY <1>28, CheckRowStep
    <2> QED
      BY <2>1 DEF CheckRowDoes, Moves, Finished, Opened, Up, Session
  <1>29. CASE InsertRow(p)
    <2>1. InsertRowDoes(p)
      BY <1>29, InsertRowStep
    <2> QED
      BY <2>1 DEF InsertRowDoes, Moves, Finished, Up, Session
  <1>30. CASE Verify(p)
    <2>1. VerifyDoes(p)
      BY <1>30, VerifyStep
    <2> QED
      BY <2>1 DEF VerifyDoes, Moves, Finished, Up, Session
  <1>31. CASE SessionLost(p)
    <2>1. SessionLostDoes(p)
      BY <1>31, SessionLostStep
    <2> QED
      BY <2>1 DEF SessionLostDoes, Moves, Finished, Up, Session, Working
  <1>32. CASE ServerLost(p)
    <2>1. ServerLostDoes(p)
      BY <1>32, ServerLostStep
    <2> QED
      BY <2>1 DEF ServerLostDoes, Moves, Finished, Up, Session, Ended, LeftSingle
  <1>33. CASE Die(p)
    <2>1. DieDoes(p)
      BY <1>33, DieStep
    <2> QED
      BY <2>1 DEF DieDoes, Moves, Finished, Up, Session, Ended, LeftSingle
  <1>34. CASE ChangeWorktree(p)
    BY <1>34 DEF ChangeWorktree, Frame, NoHistory, history, procVars, Goto, Up, Session, Fault, ProcTypes
  <1> QED
    BY <1>1, <1>2, <1>3, <1>4, <1>5, <1>6, <1>7, <1>8, <1>9, <1>10, <1>11, <1>12, <1>13, <1>14, <1>15, <1>16, <1>17, <1>18, <1>19, <1>20, <1>21, <1>22, <1>23, <1>24, <1>25, <1>26, <1>27, <1>28, <1>29, <1>30, <1>31, <1>32, <1>33, <1>34 DEF Step

\* Nor does any other step.
LEMMA EngineKept == TypeOK /\ EngineInv /\ [Next]_vars => EngineInv'
  <1> SUFFICES ASSUME TypeOK, EngineInv, [Next]_vars PROVE EngineInv'
    OBVIOUS
  <1> USE DEF EngineInv, mssql
  <1>1. ASSUME NEW p \in Proc, Step(p) PROVE EngineInv'
    BY <1>1, StepEngine
  <1>2. CASE ContainerBoots
    BY <1>2 DEF ContainerBoots, Boot
  <1>3. CASE StopContainer
    BY <1>3, StopStep
  <1>4. ASSUME NEW d \in DOMAIN dbs, Visit(d) PROVE EngineInv'
    BY <1>4, VisitStep
  <1>5. ASSUME NEW d \in DOMAIN dbs, VisitorLeaves(d) PROVE EngineInv'
    BY <1>5, LeaveStep
  <1>6. CASE UNCHANGED vars
    BY <1>6 DEF vars
  <1> QED
    BY <1>1, <1>2, <1>3, <1>4, <1>5, <1>6 DEF Next

\* Nor are there any at the start.
LEMMA InitEngine == Init => EngineInv
  <1>1. Init => \A p \in Proc : pc[p] = "idle"
    BY InitLabels
  <1>2. ASSUME Init, ~mssql PROVE DOMAIN snaps = {}
    <2>1. PICK taken : snaps = [s \in taken |-> Full] /\ taken = {}
      BY <1>2, InitDbs
    <2> QED
      BY <2>1
  <1> QED
    BY <1>1, <1>2 DEF EngineInv

\* Who hinders or touches something does it to everybody else.
LEMMA OthersFeel ==
  ASSUME NEW q \in Proc, NEW p \in Proc, p # q
  PROVE  (Hindered(q) => excuse'[p]) /\ (Touched(q) => ~alone'[p])
  BY Zenon DEF Hindered, Touched

\* A step of one process leaves the commands of the others, who never forget an excuse.
LEMMA StepOthers ==
  ASSUME TypeOK, NEW q \in Proc, Step(q), NEW p \in Proc, p # q
  PROVE  /\ pc'[p] = pc[p] /\ cmd'[p] = cmd[p] /\ todo'[p] = todo[p] /\ cur'[p] = cur[p]
         /\ setup' = setup /\ (excuse[p] => excuse'[p]) /\ (alone'[p] => alone[p])
  <1> TypeOK
    OBVIOUS
  <1> USE DEF TypeOK, ProcTypes
  <1>1. CASE Begin(q)
    <2>1. BeginDoes(q)
      BY <1>1, BeginStep
    <2>2. pc'[p] = pc[p] /\ cmd'[p] = cmd[p] /\ todo'[p] = todo[p] /\ cur'[p] = cur[p]
      BY <2>1 DEF BeginDoes, Moves
    <2>3. excuse'[p] = excuse[p] /\ alone'[p] = alone[p]
      BY <2>1, Zenon DEF BeginDoes
    <2> QED
      BY <2>2, <2>3, <1>1 DEF Begin
  <1>2. CASE ContainerStep(q)
    BY <1>2 DEF ContainerStep, Frame, NoHistory, history, procVars, Goto, Available, GetContainer, CreateContainer, WaitReady
  <1>3. CASE TimeOut(q)
    BY <1>3 DEF TimeOut, Frame, NoHistory, history, procVars, Goto
  <1>4. CASE ListDbs(q)
    BY <1>4 DEF ListDbs, Frame, NoHistory, history, procVars, Goto
  <1>5. CASE ListTrees(q)
    BY <1>5 DEF ListTrees, Frame, NoHistory, history, procVars, Goto
  <1>6. CASE NextDb(q)
    BY <1>6 DEF NextDb, Frame, NoHistory, history, procVars, Goto
  <1>7. CASE Terminate(q)
    <2>1. TerminateDoes(q)
      BY <1>7, TerminateStep
    <2> QED
      BY <2>1, OthersFeel DEF TerminateDoes, Moves
  <1>8. CASE LookForDb(q)
    BY <1>8 DEF LookForDb, Frame, NoHistory, history, procVars, Goto
  <1>9. CASE DropSnapshots(q)
    <2>1. DropSnapshotsDoes(q)
      BY <1>9, DropSnapshotsStep
    <2> QED
      BY <2>1, OthersFeel DEF DropSnapshotsDoes, Moves, Finished
  <1>10. CASE SingleUser(q)
    <2>1. SingleUserDoes(q)
      BY <1>10, SingleUserStep
    <2> QED
      BY <2>1, OthersFeel DEF SingleUserDoes, Moves, Finished
  <1>11. CASE DropDatabase(q)
    <2>1. DropDatabaseDoes(q)
      BY <1>11, DropDatabaseStep
    <2> QED
      BY <2>1, OthersFeel DEF DropDatabaseDoes, Moves, Finished
  <1>12. CASE CheckDatabase(q)
    BY <1>12 DEF CheckDatabase, Frame, NoHistory, history, procVars, Goto
  <1>13. CASE CreateDatabase(q)
    <2>1. CreateDatabaseDoes(q)
      BY <1>13, CreateDatabaseStep
    <2> QED
      BY <2>1, OthersFeel DEF CreateDatabaseDoes, Moves, Finished, Outruns
  <1>14. CASE Connect(q)
    <2>1. ConnectDoes(q)
      BY <1>14, ConnectStep
    <2> QED
      BY <2>1, OthersFeel DEF ConnectDoes, Moves, Finished, Opened
  <1>15. CASE Build(q)
    <2>1. BuildDoes(q)
      BY <1>15, BuildStep
    <2> QED
      BY <2>1, OthersFeel DEF BuildDoes, Moves
  <1>16. CASE DeleteRows(q)
    <2>1. DeleteRowsDoes(q)
      BY <1>16, DeleteRowsStep
    <2> QED
      BY <2>1, OthersFeel DEF DeleteRowsDoes, Moves, Finished
  <1>17. CASE InsertRows(q)
    <2>1. InsertRowsDoes(q)
      BY <1>17, InsertRowsStep
    <2> QED
      BY <2>1, OthersFeel DEF InsertRowsDoes, Moves
  <1>18. CASE InsertRest(q)
    <2>1. InsertRestDoes(q)
      BY <1>18, InsertRestStep
    <2> QED
      BY <2>1, OthersFeel DEF InsertRestDoes, Moves
  <1>19. CASE Close(q)
    <2>1. CloseDoes(q)
      BY <1>19, CloseStep
    <2> QED
      BY <2>1, OthersFeel DEF CloseDoes, Moves, Finished
  <1>20. CASE DropOldSnapshot(q)
    <2>1. DropOldSnapshotDoes(q)
      BY <1>20, DropOldSnapshotStep
    <2> QED
      BY <2>1, OthersFeel DEF DropOldSnapshotDoes, Moves, Finished
  <1>21. CASE CreateSnapshot(q)
    <2>1. CreateSnapshotDoes(q)
      BY <1>21, CreateSnapshotStep
    <2> QED
      BY <2>1, OthersFeel DEF CreateSnapshotDoes, Moves, Finished
  <1>22. CASE CheckSnapshots(q)
    <2>1. CheckSnapshotsDoes(q)
      BY <1>22, CheckSnapshotsStep
    <2> QED
      BY <2>1, OthersFeel DEF CheckSnapshotsDoes, Moves, Finished
  <1>23. CASE Revert(q)
    <2>1. RevertDoes(q)
      BY <1>23, RevertStep
    <2> QED
      BY <2>1, OthersFeel DEF RevertDoes, Moves
  <1>24. CASE MultiUser(q)
    <2>1. MultiUserDoes(q)
      BY <1>24, MultiUserStep
    <2> QED
      BY <2>1, OthersFeel DEF MultiUserDoes, Moves, Finished
  <1>25. CASE ListPending(q)
    <2>1. ListPendingDoes(q)
      BY <1>25, ListPendingStep
    <2> QED
      BY <2>1, OthersFeel DEF ListPendingDoes, Moves, Finished, Opened
  <1>26. CASE ExecuteBatch(q)
    <2>1. ExecuteBatchDoes(q)
      BY <1>26, ExecuteBatchStep
    <2> QED
      BY <2>1, OthersFeel DEF ExecuteBatchDoes, Moves, Finished
  <1>27. CASE Commit(q)
    <2>1. CommitDoes(q)
      BY <1>27, CommitStep
    <2> QED
      BY <2>1, OthersFeel DEF CommitDoes, Moves
  <1>28. CASE CheckRow(q)
    <2>1. CheckRowDoes(q)
      BY <1>28, CheckRowStep
    <2> QED
      BY <2>1, OthersFeel DEF CheckRowDoes, Moves, Finished, Opened
  <1>29. CASE InsertRow(q)
    <2>1. InsertRowDoes(q)
      BY <1>29, InsertRowStep
    <2> QED
      BY <2>1, OthersFeel DEF InsertRowDoes, Moves, Finished
  <1>30. CASE Verify(q)
    <2>1. VerifyDoes(q)
      BY <1>30, VerifyStep
    <2> QED
      BY <2>1, OthersFeel DEF VerifyDoes, Moves, Finished
  <1>31. CASE SessionLost(q)
    <2>1. SessionLostDoes(q)
      BY <1>31, SessionLostStep
    <2> QED
      BY <2>1, OthersFeel DEF SessionLostDoes, Moves, Finished
  <1>32. CASE ServerLost(q)
    <2>1. ServerLostDoes(q)
      BY <1>32, ServerLostStep
    <2> QED
      BY <2>1, OthersFeel DEF ServerLostDoes, Moves, Finished, LeftSingle
  <1>33. CASE Die(q)
    <2>1. DieDoes(q)
      BY <1>33, DieStep
    <2> QED
      BY <2>1, OthersFeel DEF DieDoes, Moves, Finished, LeftSingle
  <1>34. CASE ChangeWorktree(q)
    BY <1>34 DEF ChangeWorktree, Frame, NoHistory, history, procVars, Goto, Fault
  <1> QED
    BY <1>1, <1>2, <1>3, <1>4, <1>5, <1>6, <1>7, <1>8, <1>9, <1>10, <1>11, <1>12, <1>13, <1>14, <1>15, <1>16, <1>17, <1>18, <1>19, <1>20, <1>21, <1>22, <1>23, <1>24, <1>25, <1>26, <1>27, <1>28, <1>29, <1>30, <1>31, <1>32, <1>33, <1>34 DEF Step

\* What a step of x does to the databases when it does not stand in p's way.
Gentle(x, p) ==
  /\ UNCHANGED <<setup, snaps>>
  /\ \A d \in DOMAIN dbs :
       /\ d \in DOMAIN dbs' /\ dbs'[d].mode \in {dbs[d].mode, "multi"}
       /\ dbs'[d].users \in {dbs[d].users, dbs[d].users \ {x}}
  /\ \A d \in DOMAIN dbs' \ DOMAIN dbs :
       /\ dbs'[d].mode = "multi" /\ dbs'[d].users = {}
       /\ ~(pc[p] = "create" /\ cur[p] = d)

\* A step of one process gives another an excuse, or does not stand in its way.
LEMMA StepGentle ==
  ASSUME TypeOK, NEW q \in Proc, Step(q), NEW p \in Proc, p # q, ~excuse'[p]
  PROVE  Gentle(q, p) /\ seen'[p] = seen[p]
  <1> TypeOK
    OBVIOUS
  <1> USE DEF TypeOK, ProcTypes
  <1> USE DEF Gentle
  <1>1. CASE Begin(q)
    <2>1. seen'[p] = seen[p] /\ UNCHANGED <<setup, snaps, dbs>>
      BY <1>1, BeginStep DEF BeginDoes, Moves
    <2> QED
      BY <2>1, <1>1 DEF Begin
  <1>2. CASE ContainerStep(q)
    BY <1>2 DEF ContainerStep, Frame, NoHistory, history, procVars, Goto, Up, Session, Available, GetContainer, CreateContainer, WaitReady
  <1>3. CASE TimeOut(q)
    BY <1>3 DEF TimeOut, Frame, NoHistory, history, procVars, Goto, Up, Session
  <1>4. CASE ListDbs(q)
    BY <1>4 DEF ListDbs, Frame, NoHistory, history, procVars, Goto, Up, Session
  <1>5. CASE ListTrees(q)
    BY <1>5 DEF ListTrees, Frame, NoHistory, history, procVars, Goto, Up, Session
  <1>6. CASE NextDb(q)
    BY <1>6 DEF NextDb, Frame, NoHistory, history, procVars, Goto, Up, Session
  <1>7. CASE Terminate(q)
    <2>1. TerminateDoes(q)
      BY <1>7, TerminateStep
    <2> QED
      BY <2>1, OthersFeel DEF TerminateDoes, Moves, Becomes, Up, Session
  <1>8. CASE LookForDb(q)
    BY <1>8 DEF LookForDb, Frame, NoHistory, history, procVars, Goto, Up, Session
  <1>9. CASE DropSnapshots(q)
    <2>1. DropSnapshotsDoes(q)
      BY <1>9, DropSnapshotsStep
    <2> QED
      BY <2>1, OthersFeel DEF DropSnapshotsDoes, Moves, Finished, Up, Session
  <1>10. CASE SingleUser(q)
    <2>1. SingleUserDoes(q)
      BY <1>10, SingleUserStep
    <2> QED
      BY <2>1, OthersFeel DEF SingleUserDoes, Moves, Finished, Becomes, Up, Session
  <1>11. CASE DropDatabase(q)
    <2>1. DropDatabaseDoes(q)
      BY <1>11, DropDatabaseStep
    <2> QED
      BY <2>1, OthersFeel DEF DropDatabaseDoes, Moves, Finished, Up, Session
  <1>12. CASE CheckDatabase(q)
    BY <1>12 DEF CheckDatabase, Frame, NoHistory, history, procVars, Goto, Up, Session
  <1>13. CASE CreateDatabase(q)
    <2>1. CreateDatabaseDoes(q)
      BY <1>13, CreateDatabaseStep
    <2>2. CASE Exists(cur[q])
      BY <2>1, <2>2 DEF CreateDatabaseDoes, Finished
    <2>3. CASE ~Exists(cur[q])
      <3>1. ~(pc[p] = "create" /\ cur[p] = cur[q])
        BY <2>1, <2>3 DEF CreateDatabaseDoes, Outruns
      <3>2. /\ DOMAIN dbs' = DOMAIN dbs \cup {cur[q]}
            /\ \A d \in DOMAIN dbs : dbs'[d] = dbs[d]
            /\ dbs'[cur[q]].mode = "multi" /\ dbs'[cur[q]].users = {}
        BY <2>1, <2>3 DEF CreateDatabaseDoes, Exists
      <3>3. UNCHANGED <<setup, snaps>> /\ seen'[p] = seen[p]
        BY <2>1 DEF CreateDatabaseDoes
      <3> QED
        BY <3>1, <3>2, <3>3
    <2> QED
      BY <2>2, <2>3
  <1>14. CASE Connect(q)
    <2>1. ConnectDoes(q)
      BY <1>14, ConnectStep
    <2> QED
      BY <2>1, OthersFeel DEF ConnectDoes, Moves, Finished, Becomes, Opened, Up, Session
  <1>15. CASE Build(q)
    <2>1. BuildDoes(q)
      BY <1>15, BuildStep
    <2> QED
      BY <2>1, OthersFeel DEF BuildDoes, Moves, Becomes, Up, Session
  <1>16. CASE DeleteRows(q)
    <2>1. DeleteRowsDoes(q)
      BY <1>16, DeleteRowsStep
    <2> QED
      BY <2>1, OthersFeel DEF DeleteRowsDoes, Moves, Finished, Becomes, Up, Session
  <1>17. CASE InsertRows(q)
    <2>1. InsertRowsDoes(q)
      BY <1>17, InsertRowsStep
    <2> QED
      BY <2>1, OthersFeel DEF InsertRowsDoes, Moves, Becomes, Up, Session
  <1>18. CASE InsertRest(q)
    <2>1. InsertRestDoes(q)
      BY <1>18, InsertRestStep
    <2> QED
      BY <2>1, OthersFeel DEF InsertRestDoes, Moves, Becomes, Up, Session
  <1>19. CASE Close(q)
    <2>1. CloseDoes(q)
      BY <1>19, CloseStep
    <2> QED
      BY <2>1, OthersFeel DEF CloseDoes, Moves, Finished, Up, Session
  <1>20. CASE DropOldSnapshot(q)
    <2>1. DropOldSnapshotDoes(q)
      BY <1>20, DropOldSnapshotStep
    <2> QED
      BY <2>1, OthersFeel DEF DropOldSnapshotDoes, Moves, Finished, Up, Session
  <1>21. CASE CreateSnapshot(q)
    <2>1. CreateSnapshotDoes(q)
      BY <1>21, CreateSnapshotStep
    <2> QED
      BY <2>1, OthersFeel DEF CreateSnapshotDoes, Moves, Finished, Up, Session
  <1>22. CASE CheckSnapshots(q)
    <2>1. CheckSnapshotsDoes(q)
      BY <1>22, CheckSnapshotsStep
    <2> QED
      BY <2>1, OthersFeel DEF CheckSnapshotsDoes, Moves, Finished, Up, Session
  <1>23. CASE Revert(q)
    <2>1. RevertDoes(q)
      BY <1>23, RevertStep
    <2> QED
      BY <2>1, OthersFeel DEF RevertDoes, Moves, Becomes, Up, Session
  <1>24. CASE MultiUser(q)
    <2>1. MultiUserDoes(q)
      BY <1>24, MultiUserStep
    <2> QED
      BY <2>1, OthersFeel DEF MultiUserDoes, Moves, Finished, Becomes, Up, Session
  <1>25. CASE ListPending(q)
    <2>1. ListPendingDoes(q)
      BY <1>25, ListPendingStep
    <2> QED
      BY <2>1, OthersFeel DEF ListPendingDoes, Moves, Finished, Becomes, Opened, Up, Session
  <1>26. CASE ExecuteBatch(q)
    <2>1. ExecuteBatchDoes(q)
      BY <1>26, ExecuteBatchStep
    <2> QED
      BY <2>1, OthersFeel DEF ExecuteBatchDoes, Moves, Finished, Up, Session
  <1>27. CASE Commit(q)
    <2>1. CommitDoes(q)
      BY <1>27, CommitStep
    <2> QED
      BY <2>1, OthersFeel DEF CommitDoes, Moves, Becomes, Up, Session
  <1>28. CASE CheckRow(q)
    <2>1. CheckRowDoes(q)
      BY <1>28, CheckRowStep
    <2> QED
      BY <2>1, OthersFeel DEF CheckRowDoes, Moves, Finished, Becomes, Opened, Up, Session
  <1>29. CASE InsertRow(q)
    <2>1. InsertRowDoes(q)
      BY <1>29, InsertRowStep
    <2> QED
      BY <2>1, OthersFeel DEF InsertRowDoes, Moves, Finished, Becomes, Up, Session
  <1>30. CASE Verify(q)
    <2>1. VerifyDoes(q)
      BY <1>30, VerifyStep
    <2> QED
      BY <2>1, OthersFeel DEF VerifyDoes, Moves, Finished, Up, Session
  <1>31. CASE SessionLost(q)
    <2>1. SessionLostDoes(q)
      BY <1>31, SessionLostStep
    <2> QED
      BY <2>1, OthersFeel DEF SessionLostDoes, Moves, Finished, Up, Session
  <1>32. CASE ServerLost(q)
    <2>1. ServerLostDoes(q)
      BY <1>32, ServerLostStep
    <2> QED
      BY <2>1, OthersFeel DEF ServerLostDoes, Moves, Finished, Up, Session, LeftSingle
  <1>33. CASE Die(q)
    <2>1. DieDoes(q)
      BY <1>33, DieStep
    <2> QED
      BY <2>1, OthersFeel DEF DieDoes, Moves, Finished, Up, Session, LeftSingle
  <1>34. CASE ChangeWorktree(q)
    BY <1>34 DEF ChangeWorktree, Frame, NoHistory, history, procVars, Goto, Up, Session, Fault
  <1> QED
    BY <1>1, <1>2, <1>3, <1>4, <1>5, <1>6, <1>7, <1>8, <1>9, <1>10, <1>11, <1>12, <1>13, <1>14, <1>15, <1>16, <1>17, <1>18, <1>19, <1>20, <1>21, <1>22, <1>23, <1>24, <1>25, <1>26, <1>27, <1>28, <1>29, <1>30, <1>31, <1>32, <1>33, <1>34 DEF Step

\* What does not stand in the way of a command keeps it unhindered.
LEMMA UnhinderedKept ==
  ASSUME TypeOK, NEW p \in Proc, Unhindered(p), NEW x, x # p, Gentle(x, p),
         pc'[p] = pc[p], cur'[p] = cur[p], seen'[p] = seen[p]
  PROVE  Unhindered(p)'
  <1>1. \A d \in DOMAIN dbs : Reachable(d) => Reachable(d)'
    BY DEF Gentle, Reachable, Exists
  <1>2. \A d \in DOMAIN dbs' \ DOMAIN dbs : Reachable(d)' /\ dbs'[d].users = {}
    BY DEF Gentle, Reachable, Exists
  <1>3. \A d : Exists(d) => Exists(d)'
    BY DEF Gentle, Exists
  <1>4. pc[p] = "create" /\ ~Exists(cur[p]) => ~Exists(cur[p])'
    BY DEF Gentle, Exists
  <1>5. \A d : Snapshots(d)' = Snapshots(d)
    BY DEF Gentle, Snapshots
  <1>6. \A d \in DOMAIN dbs : (dbs[d].users = {} => dbs'[d].users = {}) /\ (p \in dbs[d].users => p \in dbs'[d].users)
    BY DEF Gentle
  <1> QED
    BY <1>1, <1>2, <1>3, <1>4, <1>5, <1>6 DEF Unhindered, Exists


\* Who hinders others gets no excuse of it.
LEMMA HinderedSelf ==
  ASSUME NEW p \in Proc, Hindered(p)
  PROVE  excuse[p] => excuse'[p]
  BY Zenon DEF Hindered

\* A command that nobody hinders stays so by its own steps, up to its end.
LEMMA StepUnhindered ==
  ASSUME TypeOK, FlowInv, EngineInv, NEW p \in Proc, Step(p), ~excuse'[p], cmd'[p][1] = "ensure",
         cmd[p][1] = "ensure" /\ ~excuse[p] => Unhindered(p)
  PROVE  Unhindered(p)'
  <1> USE DEF TypeOK, ProcTypes, FlowInv
  <1>1. CASE Begin(p)
    <2>1. PICK c \in Commands :
            /\ Moves(p, Entry(c)) /\ cmd'[p] = c
            /\ excuse'[p] = \E d \in DOMAIN dbs : ~Reachable(d)
            /\ UNCHANGED dbs
      BY <1>1, BeginStep, Zenon DEF BeginDoes
    <2>2. \A d \in DOMAIN dbs' : Reachable(d)'
      BY <2>1, Zenon DEF Reachable, Exists
    <2>3. pc'[p] = "probe"
      BY <2>1, EntryLabel DEF Moves
    <2> QED
      BY <2>2, <2>3 DEF Unhindered, Working
  <1>2. CASE ContainerStep(p)
    BY <1>2 DEF ContainerStep, Frame, NoHistory, history, procVars, Goto, Up, Session, Unhindered, Exists, Reachable, Snapshots, Working, mssql, Available, GetContainer, CreateContainer, WaitReady
  <1>3. CASE TimeOut(p)
    BY <1>3 DEF TimeOut, Frame, NoHistory, history, procVars, Goto, Up, Session, Unhindered, Exists, Reachable, Snapshots, Working, mssql
  <1>4. CASE ListDbs(p)
    BY <1>4 DEF ListDbs, Frame, NoHistory, history, procVars, Goto, Up, Session, Unhindered, Exists, Reachable, Snapshots, Working, mssql
  <1>5. CASE ListTrees(p)
    BY <1>5 DEF ListTrees, Frame, NoHistory, history, procVars, Goto, Up, Session, Unhindered, Exists, Reachable, Snapshots, Working, mssql
  <1>6. CASE NextDb(p)
    BY <1>6 DEF NextDb, Frame, NoHistory, history, procVars, Goto, Up, Session, Unhindered, Exists, Reachable, Snapshots, Working, mssql
  <1>7. CASE Terminate(p)
    <2>1. TerminateDoes(p)
      BY <1>7, TerminateStep
    <2>2. \A d : Snapshots(d)' = {}
      BY <2>1 DEF TerminateDoes, EngineInv, Snapshots
    <2>3. Unhindered(p) /\ pc[p] = "drop" /\ pc'[p] = "dropping" /\ UNCHANGED cur
      BY <2>1, HinderedSelf DEF TerminateDoes, Moves, Up
    <2>4. \A d \in DOMAIN dbs' : Reachable(d)' /\ (d = cur[p] => dbs'[d].users = {})
      BY <2>1, <2>3 DEF TerminateDoes, Becomes, Unhindered, Reachable, Exists, Working
    <2> QED
      BY <2>2, <2>3, <2>4 DEF Unhindered, Exists, Working
  <1>8. CASE LookForDb(p)
    BY <1>8 DEF LookForDb, Frame, NoHistory, history, procVars, Goto, Up, Session, Unhindered, Exists, Reachable, Snapshots, Working, mssql
  <1>9. CASE DropSnapshots(p)
    <2>1. DropSnapshotsDoes(p)
      BY <1>9, DropSnapshotsStep
    <2> QED
      BY <2>1, HinderedSelf DEF DropSnapshotsDoes, Moves, Finished, Up, Session, Unhindered, Exists, Reachable, Snapshots, Working, mssql
  <1>10. CASE SingleUser(p)
    <2>1. SingleUserDoes(p)
      BY <1>10, SingleUserStep
    <2> QED
      BY <2>1, HinderedSelf DEF SingleUserDoes, Moves, Finished, Becomes, Up, Session, Unhindered, Exists, Reachable, Snapshots, Working, mssql
  <1>11. CASE DropDatabase(p)
    <2>1. DropDatabaseDoes(p)
      BY <1>11, DropDatabaseStep
    <2> QED
      BY <2>1, HinderedSelf DEF DropDatabaseDoes, Moves, Finished, Up, Session, Unhindered, Exists, Reachable, Snapshots, Working, mssql
  <1>12. CASE CheckDatabase(p)
    BY <1>12 DEF CheckDatabase, Frame, NoHistory, history, procVars, Goto, Up, Session, Unhindered, Exists, Reachable, Snapshots, Working, mssql
  <1>13. CASE CreateDatabase(p)
    <2>1. CreateDatabaseDoes(p)
      BY <1>13, CreateDatabaseStep
    <2>2. pc[p] = "create" /\ cmd'[p] = cmd[p] /\ UNCHANGED <<cur, setup>>
      BY <2>1 DEF CreateDatabaseDoes, Up
    <2>3. ~excuse[p]
      <3>1. excuse' = excuse \/ Outruns(p)
        BY <2>1 DEF CreateDatabaseDoes
      <3> QED
        BY <3>1, Zenon DEF Outruns
    <2>4. Unhindered(p)
      BY <2>2, <2>3
    <2>5. ~Exists(cur[p]) /\ \A d \in DOMAIN dbs : Reachable(d)
      BY <2>2, <2>4 DEF Unhindered, Working
    <2>6. pc'[p] = "open" /\ Exists(cur[p])' /\ \A d \in DOMAIN dbs' : Reachable(d)'
      BY <2>1, <2>2, <2>5 DEF CreateDatabaseDoes, Moves, Exists, Reachable
    <2> QED
      BY <2>6 DEF Unhindered, Working
  <1>14. CASE Connect(p)
    <2>1. ConnectDoes(p)
      BY <1>14, ConnectStep
    <2> QED
      BY <2>1, HinderedSelf DEF ConnectDoes, Moves, Finished, Becomes, Opened, Up, Session, Unhindered, Exists, Reachable, Snapshots, Working, mssql
  <1>15. CASE Build(p)
    <2>1. BuildDoes(p)
      BY <1>15, BuildStep
    <2> QED
      BY <2>1, HinderedSelf DEF BuildDoes, Moves, Becomes, Up, Session, Unhindered, Exists, Reachable, Snapshots, Working, mssql
  <1>16. CASE DeleteRows(p)
    <2>1. DeleteRowsDoes(p)
      BY <1>16, DeleteRowsStep
    <2> QED
      BY <2>1, HinderedSelf DEF DeleteRowsDoes, Moves, Finished, Becomes, Up, Session, Unhindered, Exists, Reachable, Snapshots, Working, mssql
  <1>17. CASE InsertRows(p)
    <2>1. InsertRowsDoes(p)
      BY <1>17, InsertRowsStep
    <2> QED
      BY <2>1, HinderedSelf DEF InsertRowsDoes, Moves, Becomes, Up, Session, Unhindered, Exists, Reachable, Snapshots, Working, mssql
  <1>18. CASE InsertRest(p)
    <2>1. InsertRestDoes(p)
      BY <1>18, InsertRestStep
    <2> QED
      BY <2>1, HinderedSelf DEF InsertRestDoes, Moves, Becomes, Up, Session, Unhindered, Exists, Reachable, Snapshots, Working, mssql
  <1>19. CASE Close(p)
    <2>1. CloseDoes(p)
      BY <1>19, CloseStep
    <2> QED
      BY <2>1, HinderedSelf DEF CloseDoes, Moves, Finished, Up, Session, Unhindered, Exists, Reachable, Snapshots, Working, mssql
  <1>20. CASE DropOldSnapshot(p)
    <2>1. DropOldSnapshotDoes(p)
      BY <1>20, DropOldSnapshotStep
    <2> QED
      BY <2>1, HinderedSelf DEF DropOldSnapshotDoes, Moves, Finished, Up, Session, Unhindered, Exists, Reachable, Snapshots, Working, mssql
  <1>21. CASE CreateSnapshot(p)
    <2>1. CreateSnapshotDoes(p)
      BY <1>21, CreateSnapshotStep
    <2> QED
      BY <2>1, HinderedSelf DEF CreateSnapshotDoes, Moves, Finished, Up, Session, Unhindered, Exists, Reachable, Snapshots, Working, mssql
  <1>22. CASE CheckSnapshots(p)
    <2>1. CheckSnapshotsDoes(p)
      BY <1>22, CheckSnapshotsStep
    <2> QED
      BY <2>1, HinderedSelf DEF CheckSnapshotsDoes, Moves, Finished, Up, Session, Unhindered, Exists, Reachable, Snapshots, Working, mssql
  <1>23. CASE Revert(p)
    <2>1. RevertDoes(p)
      BY <1>23, RevertStep
    <2> QED
      BY <2>1, HinderedSelf DEF RevertDoes, Moves, Becomes, Up, Session, Unhindered, Exists, Reachable, Snapshots, Working, mssql
  <1>24. CASE MultiUser(p)
    <2>1. MultiUserDoes(p)
      BY <1>24, MultiUserStep
    <2> QED
      BY <2>1, HinderedSelf DEF MultiUserDoes, Moves, Finished, Becomes, Up, Session, Unhindered, Exists, Reachable, Snapshots, Working, mssql
  <1>25. CASE ListPending(p)
    <2>1. ListPendingDoes(p)
      BY <1>25, ListPendingStep
    <2> QED
      BY <2>1, HinderedSelf DEF ListPendingDoes, Moves, Finished, Becomes, Opened, Up, Session, Unhindered, Exists, Reachable, Snapshots, Working, mssql
  <1>26. CASE ExecuteBatch(p)
    <2>1. ExecuteBatchDoes(p)
      BY <1>26, ExecuteBatchStep
    <2> QED
      BY <2>1, HinderedSelf DEF ExecuteBatchDoes, Moves, Finished, Up, Session, Unhindered, Exists, Reachable, Snapshots, Working, mssql
  <1>27. CASE Commit(p)
    <2>1. CommitDoes(p)
      BY <1>27, CommitStep
    <2> QED
      BY <2>1, HinderedSelf DEF CommitDoes, Moves, Becomes, Up, Session, Unhindered, Exists, Reachable, Snapshots, Working, mssql
  <1>28. CASE CheckRow(p)
    <2>1. CheckRowDoes(p)
      BY <1>28, CheckRowStep
    <2> QED
      BY <2>1, HinderedSelf DEF CheckRowDoes, Moves, Finished, Becomes, Opened, Up, Session, Unhindered, Exists, Reachable, Snapshots, Working, mssql
  <1>29. CASE InsertRow(p)
    <2>1. InsertRowDoes(p)
      BY <1>29, InsertRowStep
    <2> QED
      BY <2>1, HinderedSelf DEF InsertRowDoes, Moves, Finished, Becomes, Up, Session, Unhindered, Exists, Reachable, Snapshots, Working, mssql
  <1>30. CASE Verify(p)
    <2>1. VerifyDoes(p)
      BY <1>30, VerifyStep
    <2> QED
      BY <2>1, HinderedSelf DEF VerifyDoes, Moves, Finished, Up, Session, Unhindered, Exists, Reachable, Snapshots, Working, mssql
  <1>31. CASE SessionLost(p)
    <2>1. SessionLostDoes(p)
      BY <1>31, SessionLostStep
    <2> QED
      BY <2>1, HinderedSelf DEF SessionLostDoes, Moves, Finished, Up, Session, Unhindered, Exists, Reachable, Snapshots, Working, mssql
  <1>32. CASE ServerLost(p)
    <2>1. ServerLostDoes(p)
      BY <1>32, ServerLostStep
    <2> QED
      BY <2>1, HinderedSelf DEF ServerLostDoes, Moves, Finished, Up, Session, Unhindered, Exists, Reachable, Snapshots, Working, mssql, Ended, LeftSingle
  <1>33. CASE Die(p)
    <2>1. DieDoes(p)
      BY <1>33, DieStep
    <2> QED
      BY <2>1, HinderedSelf DEF DieDoes, Moves, Finished, Up, Session, Unhindered, Exists, Reachable, Snapshots, Working, mssql, Ended, LeftSingle
  <1>34. CASE ChangeWorktree(p)
    BY <1>34 DEF ChangeWorktree, Frame, NoHistory, history, procVars, Goto, Up, Session, Unhindered, Exists, Reachable, Snapshots, Working, mssql, Fault
  <1> QED
    BY <1>1, <1>2, <1>3, <1>4, <1>5, <1>6, <1>7, <1>8, <1>9, <1>10, <1>11, <1>12, <1>13, <1>14, <1>15, <1>16, <1>17, <1>18, <1>19, <1>20, <1>21, <1>22, <1>23, <1>24, <1>25, <1>26, <1>27, <1>28, <1>29, <1>30, <1>31, <1>32, <1>33, <1>34 DEF Step

\* Every step keeps the commands that have no excuse unhindered.
LEMMA ExcuseKept == TypeOK /\ FlowInv /\ EngineInv /\ ExcuseInv /\ [Next]_vars => ExcuseInv'
  <1> SUFFICES ASSUME TypeOK, FlowInv, EngineInv, ExcuseInv, [Next]_vars,
                      NEW p \in Proc, cmd'[p][1] = "ensure", ~excuse'[p]
               PROVE  Unhindered(p)'
    BY DEF ExcuseInv
  <1>1. cmd[p][1] = "ensure" /\ ~excuse[p] => Unhindered(p)
    BY DEF ExcuseInv
  <1>2. ASSUME NEW x, x # p, Gentle(x, p), ~excuse[p], cmd'[p] = cmd[p],
               pc'[p] = pc[p], cur'[p] = cur[p], seen'[p] = seen[p]
        PROVE  Unhindered(p)'
    <2>1. Unhindered(p)
      BY <1>1, <1>2
    <2> QED
      BY <1>2, <2>1, UnhinderedKept
  <1>3. CASE Step(p)
    BY <1>1, <1>3, StepUnhindered
  <1>4. ASSUME NEW q \in Proc, Step(q), p # q PROVE Unhindered(p)'
    <2>1. /\ pc'[p] = pc[p] /\ cmd'[p] = cmd[p] /\ cur'[p] = cur[p] /\ (excuse[p] => excuse'[p])
          /\ Gentle(q, p) /\ seen'[p] = seen[p]
      BY <1>4, StepOthers, StepGentle
    <2> QED
      BY <1>2, <1>4, <2>1
  <1>5. ASSUME UNCHANGED <<setup, pc, dbs, snaps, cmd, cur, seen, excuse>> PROVE Unhindered(p)'
    <2>1. p # "visitor"
      BY VisitorAssumption
    <2>2. Gentle("visitor", p)
      BY <1>5 DEF Gentle
    <2> QED
      BY <1>2, <1>5, <2>1, <2>2
  <1>6. CASE ContainerBoots
    BY <1>5, <1>6 DEF ContainerBoots, Boot, history, procVars
  <1>7. ~StopContainer
    BY StopStep
  <1>8. ASSUME NEW d \in DOMAIN dbs PROVE ~Visit(d)
    BY <1>8, VisitStep
  <1>9. ASSUME NEW d \in DOMAIN dbs, VisitorLeaves(d) PROVE Unhindered(p)'
    <2>1. Gentle("visitor", p) /\ UNCHANGED <<pc, cmd, cur, seen, excuse>>
      BY <1>9, LeaveStep DEF Becomes, Gentle
    <2>2. p # "visitor"
      BY VisitorAssumption
    <2> QED
      BY <1>2, <2>1, <2>2
  <1>10. CASE UNCHANGED vars
    BY <1>5, <1>10 DEF vars, history, procVars
  <1> QED
    BY <1>3, <1>4, <1>6, <1>7, <1>8, <1>9, <1>10 DEF Next


\* The database of a workspace stays the same.
LEMMA OwnKept ==
  ASSUME NEW p \in Proc, setup' = setup
  PROVE  OwnDb(p)' = OwnDb(p)
  BY DEF OwnDb, Project, CurrentBranch

\* What is in the databases stays.
ContentsStay ==
  /\ DOMAIN dbs' = DOMAIN dbs
  /\ \A d \in DOMAIN dbs : dbs'[d].content = dbs[d].content

\* A step of one process leaves the databases as they are, or another is no longer alone.
LEMMA StepApart ==
  ASSUME TypeOK, NEW q \in Proc, Step(q), NEW p \in Proc, p # q, alone'[p]
  PROVE  ContentsStay
  <1> TypeOK
    OBVIOUS
  <1> USE DEF TypeOK, ProcTypes, ContentsStay
  <1>1. CASE Begin(q)
    BY <1>1 DEF Begin
  <1>2. CASE ContainerStep(q)
    BY <1>2 DEF ContainerStep, Frame, NoHistory, history, procVars, Goto, Up, Session, Available, GetContainer, CreateContainer, WaitReady
  <1>3. CASE TimeOut(q)
    BY <1>3 DEF TimeOut, Frame, NoHistory, history, procVars, Goto, Up, Session
  <1>4. CASE ListDbs(q)
    BY <1>4 DEF ListDbs, Frame, NoHistory, history, procVars, Goto, Up, Session
  <1>5. CASE ListTrees(q)
    BY <1>5 DEF ListTrees, Frame, NoHistory, history, procVars, Goto, Up, Session
  <1>6. CASE NextDb(q)
    BY <1>6 DEF NextDb, Frame, NoHistory, history, procVars, Goto, Up, Session
  <1>7. CASE Terminate(q)
    <2>1. TerminateDoes(q)
      BY <1>7, TerminateStep
    <2> QED
      BY <2>1, OthersFeel DEF TerminateDoes, Becomes, Up, Session
  <1>8. CASE LookForDb(q)
    BY <1>8 DEF LookForDb, Frame, NoHistory, history, procVars, Goto, Up, Session
  <1>9. CASE DropSnapshots(q)
    <2>1. DropSnapshotsDoes(q)
      BY <1>9, DropSnapshotsStep
    <2> QED
      BY <2>1, OthersFeel DEF DropSnapshotsDoes, Finished, Up, Session
  <1>10. CASE SingleUser(q)
    <2>1. SingleUserDoes(q)
      BY <1>10, SingleUserStep
    <2> QED
      BY <2>1, OthersFeel DEF SingleUserDoes, Finished, Becomes, Up, Session
  <1>11. CASE DropDatabase(q)
    <2>1. DropDatabaseDoes(q)
      BY <1>11, DropDatabaseStep
    <2> QED
      BY <2>1, OthersFeel DEF DropDatabaseDoes, Finished, Up, Session
  <1>12. CASE CheckDatabase(q)
    BY <1>12 DEF CheckDatabase, Frame, NoHistory, history, procVars, Goto, Up, Session
  <1>13. CASE CreateDatabase(q)
    <2>1. CreateDatabaseDoes(q)
      BY <1>13, CreateDatabaseStep
    <2> QED
      BY <2>1, OthersFeel DEF CreateDatabaseDoes, Finished, Up, Session
  <1>14. CASE Connect(q)
    <2>1. ConnectDoes(q)
      BY <1>14, ConnectStep
    <2> QED
      BY <2>1, OthersFeel DEF ConnectDoes, Finished, Becomes, Opened, Up, Session
  <1>15. CASE Build(q)
    <2>1. BuildDoes(q)
      BY <1>15, BuildStep
    <2> QED
      BY <2>1, OthersFeel DEF BuildDoes, Becomes, Up, Session
  <1>16. CASE DeleteRows(q)
    <2>1. DeleteRowsDoes(q)
      BY <1>16, DeleteRowsStep
    <2> QED
      BY <2>1, OthersFeel DEF DeleteRowsDoes, Finished, Becomes, Up, Session
  <1>17. CASE InsertRows(q)
    <2>1. InsertRowsDoes(q)
      BY <1>17, InsertRowsStep
    <2> QED
      BY <2>1, OthersFeel DEF InsertRowsDoes, Becomes, Up, Session
  <1>18. CASE InsertRest(q)
    <2>1. InsertRestDoes(q)
      BY <1>18, InsertRestStep
    <2> QED
      BY <2>1, OthersFeel DEF InsertRestDoes, Becomes, Up, Session
  <1>19. CASE Close(q)
    <2>1. CloseDoes(q)
      BY <1>19, CloseStep
    <2> QED
      BY <2>1, OthersFeel DEF CloseDoes, Finished, Up, Session
  <1>20. CASE DropOldSnapshot(q)
    <2>1. DropOldSnapshotDoes(q)
      BY <1>20, DropOldSnapshotStep
    <2> QED
      BY <2>1, OthersFeel DEF DropOldSnapshotDoes, Finished, Up, Session
  <1>21. CASE CreateSnapshot(q)
    <2>1. CreateSnapshotDoes(q)
      BY <1>21, CreateSnapshotStep
    <2> QED
      BY <2>1, OthersFeel DEF CreateSnapshotDoes, Finished, Up, Session
  <1>22. CASE CheckSnapshots(q)
    <2>1. CheckSnapshotsDoes(q)
      BY <1>22, CheckSnapshotsStep
    <2> QED
      BY <2>1, OthersFeel DEF CheckSnapshotsDoes, Finished, Up, Session
  <1>23. CASE Revert(q)
    <2>1. RevertDoes(q)
      BY <1>23, RevertStep
    <2> QED
      BY <2>1, OthersFeel DEF RevertDoes, Becomes, Up, Session
  <1>24. CASE MultiUser(q)
    <2>1. MultiUserDoes(q)
      BY <1>24, MultiUserStep
    <2> QED
      BY <2>1, OthersFeel DEF MultiUserDoes, Finished, Becomes, Up, Session
  <1>25. CASE ListPending(q)
    <2>1. ListPendingDoes(q)
      BY <1>25, ListPendingStep
    <2> QED
      BY <2>1, OthersFeel DEF ListPendingDoes, Finished, Becomes, Opened, Up, Session
  <1>26. CASE ExecuteBatch(q)
    <2>1. ExecuteBatchDoes(q)
      BY <1>26, ExecuteBatchStep
    <2> QED
      BY <2>1, OthersFeel DEF ExecuteBatchDoes, Finished, Up, Session
  <1>27. CASE Commit(q)
    <2>1. CommitDoes(q)
      BY <1>27, CommitStep
    <2> QED
      BY <2>1, OthersFeel DEF CommitDoes, Becomes, Up, Session
  <1>28. CASE CheckRow(q)
    <2>1. CheckRowDoes(q)
      BY <1>28, CheckRowStep
    <2> QED
      BY <2>1, OthersFeel DEF CheckRowDoes, Finished, Becomes, Opened, Up, Session
  <1>29. CASE InsertRow(q)
    <2>1. InsertRowDoes(q)
      BY <1>29, InsertRowStep
    <2> QED
      BY <2>1, OthersFeel DEF InsertRowDoes, Finished, Becomes, Up, Session
  <1>30. CASE Verify(q)
    <2>1. VerifyDoes(q)
      BY <1>30, VerifyStep
    <2> QED
      BY <2>1, OthersFeel DEF VerifyDoes, Finished, Up, Session
  <1>31. CASE SessionLost(q)
    <2>1. SessionLostDoes(q)
      BY <1>31, SessionLostStep
    <2> QED
      BY <2>1, OthersFeel DEF SessionLostDoes, Finished, Up, Session
  <1>32. CASE ServerLost(q)
    <2>1. ServerLostDoes(q)
      BY <1>32, ServerLostStep
    <2> QED
      BY <2>1, OthersFeel DEF ServerLostDoes, Finished, Up, Session, LeftSingle
  <1>33. CASE Die(q)
    <2>1. DieDoes(q)
      BY <1>33, DieStep
    <2> QED
      BY <2>1, OthersFeel DEF DieDoes, Finished, Up, Session, LeftSingle
  <1>34. CASE ChangeWorktree(q)
    BY <1>34 DEF ChangeWorktree, Frame, NoHistory, history, procVars, Goto, Up, Session, Fault
  <1> QED
    BY <1>1, <1>2, <1>3, <1>4, <1>5, <1>6, <1>7, <1>8, <1>9, <1>10, <1>11, <1>12, <1>13, <1>14, <1>15, <1>16, <1>17, <1>18, <1>19, <1>20, <1>21, <1>22, <1>23, <1>24, <1>25, <1>26, <1>27, <1>28, <1>29, <1>30, <1>31, <1>32, <1>33, <1>34 DEF Step

\* Who touches a database stays as alone as before.
LEMMA TouchedSelf ==
  ASSUME NEW p \in Proc, Touched(p)
  PROVE  alone'[p] => alone[p]
  BY Zenon DEF Touched

\* A command that is alone does by each of its steps what it has to.
LEMMA StepUndisturbed ==
  ASSUME TypeOK, FlowInv, NEW p \in Proc, Step(p), alone'[p], cmd'[p][1] = "ensure",
         cmd[p][1] = "ensure" /\ alone[p] => Undisturbed(p)
  PROVE  Undisturbed(p)'
  <1> USE DEF TypeOK, ProcTypes, FlowInv
  <1> OwnDb(p)' = OwnDb(p)
    <2>1. setup' = setup
      BY BeginStep, ListPendingStep DEF Step, BeginDoes, Begin, ContainerStep, TimeOut, ListDbs, ListTrees, NextDb, Terminate, LookForDb, DropSnapshots,
         SingleUser, DropDatabase, CheckDatabase, CreateDatabase, Connect, Build, DeleteRows, InsertRows, InsertRest, Close,
         DropOldSnapshot, CreateSnapshot, CheckSnapshots, Revert, MultiUser, ListPending, ExecuteBatch, Commit, CheckRow,
         InsertRow, Verify, SessionLost, ServerLost, Die, ChangeWorktree, Frame
    <2> QED
      BY <2>1, OwnKept
  <1> \A d \in DOMAIN dbs : dbs[d].content \in Content
    BY DEF DbTypes, DatabaseType
  <1>1. CASE Begin(p)
    <2>1. PICK c \in Commands :
            /\ Moves(p, Entry(c)) /\ cmd'[p] = c
            /\ todo'[p] = IF c \in {<<"ensure", "force">>, <<"clean", "own">>} THEN {OwnDb(p)} ELSE {}
      BY <1>1, BeginStep, Zenon DEF BeginDoes
    <2>2. pc'[p] = "probe" /\ (cmd'[p][2] = "force" => todo'[p] = {OwnDb(p)})
      BY <2>1, EntryLabel DEF Moves
    <2> QED
      BY <2>2 DEF Undisturbed, Making, Working, Dropping
  <1>2. CASE ContainerStep(p)
    BY <1>2 DEF ContainerStep, Frame, NoHistory, history, procVars, Goto, Up, Session, Undisturbed, Exists, Making, Working, Dropping, Available, GetContainer, CreateContainer, WaitReady
  <1>3. CASE TimeOut(p)
    BY <1>3 DEF TimeOut, Frame, NoHistory, history, procVars, Goto, Up, Session, Undisturbed, Exists, Making, Working, Dropping
  <1>4. CASE ListDbs(p)
    BY <1>4 DEF ListDbs, Frame, NoHistory, history, procVars, Goto, Up, Session, Undisturbed, Exists, Making, Working, Dropping
  <1>5. CASE ListTrees(p)
    BY <1>5 DEF ListTrees, Frame, NoHistory, history, procVars, Goto, Up, Session, Undisturbed, Exists, Making, Working, Dropping
  <1>6. CASE NextDb(p)
    BY <1>6 DEF NextDb, Frame, NoHistory, history, procVars, Goto, Up, Session, Undisturbed, Exists, Making, Working, Dropping
  <1>7. CASE Terminate(p)
    <2>1. TerminateDoes(p)
      BY <1>7, TerminateStep
    <2> QED
      BY <2>1, TouchedSelf DEF TerminateDoes, Moves, Becomes, Up, Session, Undisturbed, Exists, Making, Working, Dropping
  <1>8. CASE LookForDb(p)
    BY <1>8 DEF LookForDb, Frame, NoHistory, history, procVars, Goto, Up, Session, Undisturbed, Exists, Making, Working, Dropping
  <1>9. CASE DropSnapshots(p)
    <2>1. DropSnapshotsDoes(p)
      BY <1>9, DropSnapshotsStep
    <2> QED
      BY <2>1, TouchedSelf DEF DropSnapshotsDoes, Moves, Finished, Up, Session, Undisturbed, Exists, Making, Working, Dropping
  <1>10. CASE SingleUser(p)
    <2>1. SingleUserDoes(p)
      BY <1>10, SingleUserStep
    <2> QED
      BY <2>1, TouchedSelf DEF SingleUserDoes, Moves, Finished, Becomes, Up, Session, Undisturbed, Exists, Making, Working, Dropping
  <1>11. CASE DropDatabase(p)
    <2>1. DropDatabaseDoes(p)
      BY <1>11, DropDatabaseStep
    <2> QED
      BY <2>1, TouchedSelf DEF DropDatabaseDoes, Moves, Finished, Up, Session, Undisturbed, Exists, Making, Working, Dropping
  <1>12. CASE CheckDatabase(p)
    BY <1>12 DEF CheckDatabase, Frame, NoHistory, history, procVars, Goto, Up, Session, Undisturbed, Exists, Making, Working, Dropping
  <1>13. CASE CreateDatabase(p)
    <2>1. CreateDatabaseDoes(p)
      BY <1>13, CreateDatabaseStep
    <2> QED
      BY <2>1, TouchedSelf DEF CreateDatabaseDoes, Moves, Finished, Up, Session, Undisturbed, Exists, Making, Working, Dropping, Empty
  <1>14. CASE Connect(p)
    <2>1. ConnectDoes(p)
      BY <1>14, ConnectStep
    <2> QED
      BY <2>1, TouchedSelf DEF ConnectDoes, Moves, Finished, Becomes, Opened, Up, Session, Undisturbed, Exists, Making, Working, Dropping
  <1>15. CASE Build(p)
    <2>1. BuildDoes(p)
      BY <1>15, BuildStep
    <2> QED
      BY <2>1, TouchedSelf DEF BuildDoes, Moves, Becomes, Up, Session, Undisturbed, Exists, Making, Working, Dropping, Content
  <1>16. CASE DeleteRows(p)
    <2>1. DeleteRowsDoes(p)
      BY <1>16, DeleteRowsStep
    <2> QED
      BY <2>1, TouchedSelf DEF DeleteRowsDoes, Moves, Finished, Becomes, Up, Session, Undisturbed, Exists, Making, Working, Dropping, Content
  <1>17. CASE InsertRows(p)
    <2>1. InsertRowsDoes(p)
      BY <1>17, InsertRowsStep
    <2>2. /\ Undisturbed(p) /\ pc[p] = "insert" /\ cur[p] = OwnDb(p) /\ Exists(cur[p])
          /\ dbs[cur[p]].content.built /\ dbs[cur[p]].content.rows = 0
          /\ cmd[p][2] = "force" => dbs[cur[p]].content.effect = 0 /\ ~dbs[cur[p]].content.row
          /\ UNCHANGED <<cmd, cur>>
      BY <2>1, TouchedSelf DEF InsertRowsDoes, Up, Session, Undisturbed, Making, Working
    <2>3. /\ Exists(cur[p])' /\ dbs'[cur[p]].content.built
          /\ cmd[p][2] = "force" => dbs'[cur[p]].content.effect = 0 /\ ~dbs'[cur[p]].content.row
      BY <2>1, <2>2 DEF InsertRowsDoes, Becomes, Exists, Content
    <2>4. \/ pc'[p] = "insert_rest" /\ dbs'[cur[p]].content.rows = 1
          \/ pc'[p] = "close" /\ dbs'[cur[p]].content.rows = Fixture
      BY <2>1, <2>2, RowsAssumption DEF InsertRowsDoes, Moves, Becomes, Session, Exists, Content
    <2> QED
      BY <2>2, <2>3, <2>4 DEF Undisturbed, Exists, Making, Working, Dropping
  <1>18. CASE InsertRest(p)
    <2>1. InsertRestDoes(p)
      BY <1>18, InsertRestStep
    <2>2. /\ Undisturbed(p) /\ pc[p] = "insert_rest" /\ cur[p] = OwnDb(p) /\ Exists(cur[p])
          /\ dbs[cur[p]].content.built /\ dbs[cur[p]].content.rows = 1
          /\ cmd[p][2] = "force" => dbs[cur[p]].content.effect = 0 /\ ~dbs[cur[p]].content.row
          /\ UNCHANGED <<cmd, cur>>
      BY <2>1, TouchedSelf DEF InsertRestDoes, Up, Session, Undisturbed, Making, Working
    <2>3. /\ Exists(cur[p])' /\ dbs'[cur[p]].content.built
          /\ cmd[p][2] = "force" => dbs'[cur[p]].content.effect = 0 /\ ~dbs'[cur[p]].content.row
      BY <2>1, <2>2 DEF InsertRestDoes, Becomes, Exists, Content
    <2>4. pc'[p] = "close" /\ dbs'[cur[p]].content.rows = Fixture
      BY <2>1, <2>2, RowsAssumption DEF InsertRestDoes, Moves, Becomes, Session, Exists, Content
    <2> QED
      BY <2>2, <2>3, <2>4 DEF Undisturbed, Exists, Making, Working, Dropping
  <1>19. CASE Close(p)
    <2>1. CloseDoes(p)
      BY <1>19, CloseStep
    <2> QED
      BY <2>1, TouchedSelf DEF CloseDoes, Moves, Finished, Up, Session, Undisturbed, Exists, Making, Working, Dropping
  <1>20. CASE DropOldSnapshot(p)
    <2>1. DropOldSnapshotDoes(p)
      BY <1>20, DropOldSnapshotStep
    <2> QED
      BY <2>1, TouchedSelf DEF DropOldSnapshotDoes, Moves, Finished, Up, Session, Undisturbed, Exists, Making, Working, Dropping
  <1>21. CASE CreateSnapshot(p)
    <2>1. CreateSnapshotDoes(p)
      BY <1>21, CreateSnapshotStep
    <2> QED
      BY <2>1, TouchedSelf DEF CreateSnapshotDoes, Moves, Finished, Up, Session, Undisturbed, Exists, Making, Working, Dropping
  <1>22. CASE CheckSnapshots(p)
    <2>1. CheckSnapshotsDoes(p)
      BY <1>22, CheckSnapshotsStep
    <2> QED
      BY <2>1, TouchedSelf DEF CheckSnapshotsDoes, Moves, Finished, Up, Session, Undisturbed, Exists, Making, Working, Dropping
  <1>23. CASE Revert(p)
    <2>1. RevertDoes(p)
      BY <1>23, RevertStep
    <2> QED
      BY <2>1, TouchedSelf DEF RevertDoes, Moves, Becomes, Up, Session, Undisturbed, Exists, Making, Working, Dropping
  <1>24. CASE MultiUser(p)
    <2>1. MultiUserDoes(p)
      BY <1>24, MultiUserStep
    <2> QED
      BY <2>1, TouchedSelf DEF MultiUserDoes, Moves, Finished, Becomes, Up, Session, Undisturbed, Exists, Making, Working, Dropping
  <1>25. CASE ListPending(p)
    <2>1. ListPendingDoes(p)
      BY <1>25, ListPendingStep
    <2> QED
      BY <2>1, TouchedSelf DEF ListPendingDoes, Moves, Finished, Becomes, Opened, Up, Session, Undisturbed, Exists, Making, Working, Dropping
  <1>26. CASE ExecuteBatch(p)
    <2>1. ExecuteBatchDoes(p)
      BY <1>26, ExecuteBatchStep
    <2> QED
      BY <2>1, TouchedSelf DEF ExecuteBatchDoes, Moves, Finished, Up, Session, Undisturbed, Exists, Making, Working, Dropping
  <1>27. CASE Commit(p)
    <2>1. CommitDoes(p)
      BY <1>27, CommitStep
    <2> QED
      BY <2>1, TouchedSelf DEF CommitDoes, Moves, Becomes, Up, Session, Undisturbed, Exists, Making, Working, Dropping
  <1>28. CASE CheckRow(p)
    <2>1. CheckRowDoes(p)
      BY <1>28, CheckRowStep
    <2> QED
      BY <2>1, TouchedSelf DEF CheckRowDoes, Moves, Finished, Becomes, Opened, Up, Session, Undisturbed, Exists, Making, Working, Dropping
  <1>29. CASE InsertRow(p)
    <2>1. InsertRowDoes(p)
      BY <1>29, InsertRowStep
    <2> QED
      BY <2>1, TouchedSelf DEF InsertRowDoes, Moves, Finished, Becomes, Up, Session, Undisturbed, Exists, Making, Working, Dropping
  <1>30. CASE Verify(p)
    <2>1. VerifyDoes(p)
      BY <1>30, VerifyStep
    <2> QED
      BY <2>1, TouchedSelf DEF VerifyDoes, Moves, Finished, Up, Session, Undisturbed, Exists, Making, Working, Dropping
  <1>31. CASE SessionLost(p)
    <2>1. SessionLostDoes(p)
      BY <1>31, SessionLostStep
    <2> QED
      BY <2>1, TouchedSelf DEF SessionLostDoes, Moves, Finished, Up, Session, Undisturbed, Exists, Making, Working, Dropping
  <1>32. CASE ServerLost(p)
    <2>1. ServerLostDoes(p)
      BY <1>32, ServerLostStep
    <2> QED
      BY <2>1, TouchedSelf DEF ServerLostDoes, Moves, Finished, Up, Session, Undisturbed, Exists, Making, Working, Dropping, Ended, LeftSingle
  <1>33. CASE Die(p)
    <2>1. DieDoes(p)
      BY <1>33, DieStep
    <2> QED
      BY <2>1, TouchedSelf DEF DieDoes, Moves, Finished, Up, Session, Undisturbed, Exists, Making, Working, Dropping, Ended, LeftSingle
  <1>34. CASE ChangeWorktree(p)
    BY <1>34 DEF ChangeWorktree, Frame, NoHistory, history, procVars, Goto, Up, Session, Undisturbed, Exists, Making, Working, Dropping, Fault
  <1> QED
    BY <1>1, <1>2, <1>3, <1>4, <1>5, <1>6, <1>7, <1>8, <1>9, <1>10, <1>11, <1>12, <1>13, <1>14, <1>15, <1>16, <1>17, <1>18, <1>19, <1>20, <1>21, <1>22, <1>23, <1>24, <1>25, <1>26, <1>27, <1>28, <1>29, <1>30, <1>31, <1>32, <1>33, <1>34 DEF Step

\* Steps that leave the databases do not disturb it.
LEMMA UndisturbedKept ==
  ASSUME NEW p \in Proc, Undisturbed(p), ContentsStay, setup' = setup,
         pc'[p] = pc[p], cmd'[p] = cmd[p], cur'[p] = cur[p], todo'[p] = todo[p]
  PROVE  Undisturbed(p)'
  <1>1. OwnDb(p)' = OwnDb(p)
    BY OwnKept
  <1>2. \A d : Exists(d)' = Exists(d)
    BY DEF ContentsStay, Exists
  <1>3. Exists(OwnDb(p)) => dbs'[OwnDb(p)].content = dbs[OwnDb(p)].content
    BY DEF ContentsStay, Exists
  <1> QED
    BY <1>1, <1>2, <1>3 DEF Undisturbed, Making, Working, Dropping

\* Every step keeps commands that are alone undisturbed.
LEMMA AloneKept == TypeOK /\ FlowInv /\ AloneInv /\ [Next]_vars => AloneInv'
  <1> SUFFICES ASSUME TypeOK, FlowInv, AloneInv, [Next]_vars,
                      NEW p \in Proc, cmd'[p][1] = "ensure", alone'[p]
               PROVE  Undisturbed(p)'
    BY DEF AloneInv
  <1>1. cmd[p][1] = "ensure" /\ alone[p] => Undisturbed(p)
    BY DEF AloneInv
  <1>2. CASE Step(p)
    BY <1>1, <1>2, StepUndisturbed
  <1>3. ASSUME NEW q \in Proc, Step(q), p # q PROVE Undisturbed(p)'
    <2>1. /\ pc'[p] = pc[p] /\ cmd'[p] = cmd[p] /\ todo'[p] = todo[p] /\ cur'[p] = cur[p]
          /\ setup' = setup /\ alone[p] /\ ContentsStay
      BY <1>3, StepOthers, StepApart
    <2> QED
      BY <1>1, <2>1, UndisturbedKept
  <1>4. ASSUME ContentsStay, UNCHANGED <<setup, pc, cmd, todo, cur, alone>> PROVE Undisturbed(p)'
    BY <1>1, <1>4, UndisturbedKept
  <1>5. CASE ContainerBoots
    BY <1>4, <1>5 DEF ContainerBoots, Boot, history, procVars, ContentsStay
  <1>6. CASE StopContainer
    BY <1>4, <1>6, StopStep DEF ContentsStay
  <1>7. ASSUME NEW d \in DOMAIN dbs, Visit(d) PROVE Undisturbed(p)'
    BY <1>4, <1>7, VisitStep DEF Becomes, ContentsStay
  <1>8. ASSUME NEW d \in DOMAIN dbs, VisitorLeaves(d) PROVE Undisturbed(p)'
    BY <1>4, <1>8, LeaveStep DEF Becomes, ContentsStay
  <1>9. CASE UNCHANGED vars
    BY <1>4, <1>9 DEF vars, history, procVars, ContentsStay
  <1> QED
    BY <1>2, <1>3, <1>5, <1>6, <1>7, <1>8, <1>9 DEF Next

\* ensure_testdb and reset_testdb fail only if somebody or something got in their way, and
\* one that nobody interferes with leaves everything built and every row there, a reset
\* nothing else (EnsureDelivers; _ensure_database, _apply and _drop_database in
\* testdb/api.py and testdb/mssql/api.py).
THEOREM EnsureCorrect == Spec => []EnsureDelivers
  <1> DEFINE Inv == TypeOK /\ FlowInv /\ EngineInv /\ ExcuseInv /\ AloneInv
  <1>1. Init => Inv
    <2>1. Init => \A p \in Proc : cmd[p][1] = "none"
      <3> DEFINE blank == ""
      <3>1. Init => cmd = [p \in Proc |-> <<"none", blank>>]
        BY DEF Init
      <3> HIDE DEF blank
      <3> QED
        BY <3>1
    <2>2. Init => ExcuseInv /\ AloneInv
      BY <2>1 DEF ExcuseInv, AloneInv
    <2> QED
      BY <2>2, InitTypes, InitFlow, InitEngine
  <1>2. Inv /\ [Next]_vars => Inv'
    BY NextTypes, FlowKept, EngineKept, ExcuseKept, AloneKept
  <1>3. Inv => EnsureDelivers
    <2> SUFFICES ASSUME Inv, NEW p \in Proc, cmd[p][1] = "ensure"
                 PROVE  /\ pc[p] = "failed" => excuse[p]
                        /\ pc[p] = "done" /\ alone[p] =>
                             /\ Exists(OwnDb(p))
                             /\ LET is == dbs[OwnDb(p)].content IN
                                /\ is.built /\ is.rows = Fixture
                                /\ cmd[p][2] = "force" => is.effect = 0 /\ ~is.row
      BY DEF EnsureDelivers
    <2>1. pc[p] = "failed" => excuse[p]
      BY DEF ExcuseInv, Unhindered
    <2>2. alone[p] => Undisturbed(p)
      BY DEF AloneInv
    <2> QED
      BY <2>1, <2>2 DEF Undisturbed, Making, Working
  <1> QED
    BY <1>1, <1>2, <1>3, PTL DEF Spec

-----------------------------------------------------------------------------
(* Texts *)

Text(s) == s \in Seq(Range(s))

\* A text has so many characters.
LEMMA TextDomain ==
  ASSUME NEW s, Text(s)
  PROVE  Len(s) \in Nat /\ DOMAIN s = 1..Len(s)
  BY DEF Text

\* Texts of the same characters are the same.
LEMMA TextsEqual ==
  ASSUME NEW s, NEW t, Text(s), Text(t), Len(s) = Len(t), \A i \in 1..Len(s) : s[i] = t[i]
  PROVE  s = t
  BY DEF Text

\* A sequence is a text.
LEMMA SeqText == ASSUME NEW S, NEW s \in Seq(S) PROVE Text(s)
  <1>1. s \in [1..Len(s) -> Range(s)] /\ Len(s) \in Nat
    BY DEF Range
  <1> QED
    BY <1>1 DEF Text

\* One text after another.
LEMMA JoinedTexts ==
  ASSUME NEW s, NEW t, Text(s), Text(t)
  PROVE  /\ Text(s \o t) /\ Len(s \o t) = Len(s) + Len(t)
         /\ \A i \in 1..Len(s) : (s \o t)[i] = s[i]
         /\ \A i \in 1..Len(t) : (s \o t)[Len(s) + i] = t[i]
  <1> DEFINE S == Range(s) \cup Range(t)
  <1>1. s \in Seq(S) /\ t \in Seq(S)
    BY DEF Text
  <1> HIDE DEF S
  <1>2. s \o t \in Seq(S) /\ Len(s \o t) = Len(s) + Len(t)
    BY <1>1
  <1>3. \A i \in 1..Len(s) : (s \o t)[i] = s[i]
    BY <1>1
  <1>4. \A i \in 1..Len(t) : (s \o t)[Len(s) + i] = t[i]
    BY <1>1
  <1>5. Text(s \o t)
    BY <1>2, SeqText
  <1> QED
    BY <1>2, <1>3, <1>4, <1>5

\* A part of a text.
LEMMA PartOfText ==
  ASSUME NEW s, Text(s), NEW m \in 1..Len(s), NEW n \in m..Len(s)
  PROVE  /\ Text(SubSeq(s, m, n)) /\ Len(SubSeq(s, m, n)) = n - m + 1
         /\ \A i \in 1..(n - m + 1) : SubSeq(s, m, n)[i] = s[m + i - 1]
  <1> DEFINE S == Range(s)
  <1>1. s \in Seq(S)
    BY DEF Text
  <1> HIDE DEF S
  <1>2. SubSeq(s, m, n) \in Seq(S) /\ Len(SubSeq(s, m, n)) = n - m + 1
    BY <1>1
  <1>3. \A i \in 1..(n - m + 1) : SubSeq(s, m, n)[i] = s[m + i - 1]
    BY <1>1
  <1>4. Text(SubSeq(s, m, n))
    BY <1>2, SeqText
  <1> QED
    BY <1>2, <1>3, <1>4

\* A text of one character, or of two.
LEMMA ShortTexts ==
  ASSUME NEW a, NEW b
  PROVE  /\ Text(<<a>>) /\ Len(<<a>>) = 1 /\ <<a>>[1] = a
         /\ Text(<<a, b>>) /\ Len(<<a, b>>) = 2 /\ <<a, b>>[1] = a /\ <<a, b>>[2] = b
  <1>1. <<a>> \in Seq({a}) /\ <<a, b>> \in Seq({a, b})
    OBVIOUS
  <1> QED
    BY <1>1, SeqText

\* What a prefix is.
LEMMA PrefixOfText ==
  ASSUME NEW s, NEW t, Text(s), Text(t)
  PROVE  IsPrefix(s, t) <=> Len(s) <= Len(t) /\ \A i \in 1..Len(s) : s[i] = t[i]
  <1>1. SubSeq(s, 1, Len(s)) = s
    BY DEF Text
  <1>2. ASSUME Len(s) <= Len(t)
        PROVE  SubSeq(t, 1, Len(s)) = s <=> \A i \in 1..Len(s) : s[i] = t[i]
    <2>1. Text(SubSeq(t, 1, Len(s))) /\ Len(SubSeq(t, 1, Len(s))) = Len(s)
          /\ \A i \in 1..Len(s) : SubSeq(t, 1, Len(s))[i] = t[i]
      <3>1. CASE Len(s) = 0
        <4>1. SubSeq(t, 1, 0) = <<>>
          BY DEF Text
        <4> QED
          BY <3>1, <4>1 DEF Text
      <3>2. CASE Len(s) # 0
        <4>1. 1 \in 1..Len(t) /\ Len(s) \in 1..Len(t) /\ Len(s) \in Nat
          BY <1>2, <3>2, TextDomain
        <4> QED
          BY <4>1, PartOfText
      <3> QED
        BY <3>1, <3>2
    <2> QED
      BY <2>1, TextsEqual
  <1> QED
    BY <1>1, <1>2 DEF IsPrefix

\* Two prefixes of one text: one is a prefix of the other.
LEMMA PrefixesNest ==
  ASSUME NEW s, NEW t, NEW u, Text(s), Text(t), Text(u), IsPrefix(s, u), IsPrefix(t, u)
  PROVE  IsPrefix(s, t) \/ IsPrefix(t, s)
  BY PrefixOfText, TextDomain
-----------------------------------------------------------------------------
(* What slugify does *)

\* A set of numbers has a least one: what an induction here rests on.
LEMMA Least ==
  ASSUME NEW T, T \subseteq Nat, T # {}
  PROVE  \E x \in T : \A y \in T : x <= y
  <1>1. \A x, y \in Nat : <<y, x>> \in OpToRel(<, Nat) <=> y < x
    BY DEF OpToRel
  <1>2. IsWellFoundedOn(OpToRel(<, Nat), Nat)
    BY NatLessThanWellFounded
  <1> DEFINE R == OpToRel(<, Nat)
  <1> HIDE DEF R
  <1>3. IsWellFoundedOn(R, Nat) /\ \A x, y \in Nat : <<y, x>> \in R <=> y < x
    BY <1>1, <1>2 DEF R
  <1>4. PICK x \in T : \A y \in T : ~ (<<y, x>> \in R)
    BY <1>3, WFMin
  <1>5. ASSUME NEW y \in T
        PROVE  x <= y
    <2>1. ~(y < x)
      BY <1>3, <1>4
    <2>2. x \in Nat /\ y \in Nat
      OBVIOUS
    <2> QED
      BY <2>1, <2>2
  <1> QED
    BY <1>5

\* Induction over the first numbers.
LEMMA Induction ==
  ASSUME NEW L \in Nat, NEW T, 0 \in T, \A n \in 1..L : n - 1 \in T => n \in T
  PROVE  0..L \subseteq T
  <1> DEFINE F == {n \in 0..L : n \notin T}
  <1> SUFFICES ASSUME F # {} PROVE FALSE
    OBVIOUS
  <1>1. F \subseteq Nat
    OBVIOUS
  <1>2. PICK x \in F : \A y \in F : x <= y
    <2> HIDE DEF F
    <2> QED
      BY <1>1, Least
  <1>3. x \in 1..L
    OBVIOUS
  <1>4. x - 1 \in 0..L /\ ~(x <= x - 1)
    BY <1>3
  <1>5. x - 1 \in T
    BY <1>2, <1>4
  <1> QED
    BY <1>3, <1>5

\* The least and the greatest of some of the first numbers.
LEMMA Ends ==
  ASSUME NEW L \in Nat, NEW S \in SUBSET (1..L), S # {}
  PROVE  /\ Min(S) \in S /\ \A y \in S : Min(S) <= y
         /\ Max(S) \in S /\ \A y \in S : Max(S) >= y
  <1>0. S \subseteq Nat
    OBVIOUS
  <1>1. \E x \in S : \A y \in S : x <= y
    BY <1>0, Least
  <1>2. \E x \in S : \A y \in S : x >= y
    <2> DEFINE T == {L - x : x \in S}
    <2>1. T \subseteq Nat /\ T # {}
      <3>1. \A x \in S : L - x \in Nat
        OBVIOUS
      <3> QED
        BY <3>1
    <2>2. PICK z \in T : \A y \in T : z <= y
      <3> HIDE DEF T
      <3> QED
        BY <2>1, Least
    <2>3. PICK x \in S : z = L - x
      OBVIOUS
    <2>4. \A y \in S : x >= y
      <3> SUFFICES ASSUME NEW y \in S PROVE x >= y
        OBVIOUS
      <3>1. L - x <= L - y
        BY <2>2, <2>3
      <3> QED
        BY <3>1
    <2> QED
      BY <2>4
  <1> QED
    BY <1>1, <1>2 DEF Min, Max

\* What a character adds, and what stripping leaves.
Dash == "_"
SubNext(sub, value, n) ==
  IF value[n] \notin Invalid THEN Append(sub, value[n])
  ELSE IF n > 1 /\ value[n - 1] \in Invalid THEN sub
  ELSE Append(sub, Dash)
Used(slug) == {k \in DOMAIN slug : slug[k] # Dash}
Strip(slug) == IF Used(slug) = {} THEN <<"x">> ELSE SubSeq(slug, Min(Used(slug)), Max(Used(slug)))

\* A text is normalized character by character.
LEMMA NormalizeSteps ==
  ASSUME NEW value, Text(value)
  PROVE  \E g : /\ g[0] = <<>> /\ Normalize(value) = Strip(g[Len(value)])
                /\ \A n \in 1..Len(value) : g[n] = SubNext(g[n - 1], value, n)
  <1> DEFINE L == Len(value)
             Body(g, m) == [n \in 0..m |-> IF n = 0 THEN <<>> ELSE SubNext(g[n - 1], value, n)]
             Has(m) == \E g : g = Body(g, m)
  <1>0. L \in Nat
    BY TextDomain
  <1>1. Has(0)
    <2> DEFINE g == [n \in 0..0 |-> <<>>]
    <2>1. g = Body(g, 0)
      OBVIOUS
    <2> QED
      BY <2>1
  <1>2. ASSUME NEW m \in Nat, Has(m)
        PROVE  Has(m + 1)
    <2>1. PICK g : g = Body(g, m)
      BY <1>2
    <2> DEFINE h == [n \in 0..(m + 1) |-> IF n = m + 1 THEN SubNext(g[m], value, n) ELSE g[n]]
    <2>2. ASSUME NEW n \in 0..(m + 1)
          PROVE  h[n] = IF n = 0 THEN <<>> ELSE SubNext(h[n - 1], value, n)
      <3>1. CASE n = m + 1
        <4>1. h[n] = SubNext(g[m], value, n) /\ h[n - 1] = g[m] /\ n # 0
          BY <3>1
        <4> QED
          BY <4>1
      <3>2. CASE n # m + 1
        <4>1. n \in 0..m /\ h[n] = g[n]
          BY <3>2
        <4>2. g[n] = IF n = 0 THEN <<>> ELSE SubNext(g[n - 1], value, n)
          BY <2>1, <4>1
        <4>3. n # 0 => h[n - 1] = g[n - 1]
          BY <4>1
        <4> QED
          BY <4>1, <4>2, <4>3
      <3> QED
        BY <3>1, <3>2
    <2> HIDE DEF h
    <2>3. h = [n \in 0..(m + 1) |-> h[n]]
      BY DEF h
    <2>4. h = Body(h, m + 1)
      BY <2>2, <2>3
    <2> QED
      BY <2>4
  <1>3. Has(L)
    <2> HIDE DEF Has
    <2> DEFINE T == {n \in Nat : Has(n)}
    <2>1. ASSUME NEW n \in 1..L, n - 1 \in T
          PROVE  n \in T
      BY <1>2, <2>1, n - 1 \in Nat, (n - 1) + 1 = n, n \in Nat
    <2>2. 0 \in T
      BY <1>1
    <2>3. 0..L \subseteq T
      <3> HIDE DEF T
      <3> QED
        BY <1>0, <2>1, <2>2, Induction
    <2> QED
      BY <1>0, <2>3
  <1> DEFINE g == CHOOSE f : f = Body(f, L)
  <1>4. g = Body(g, L)
    BY <1>3
  <1>5. Normalize(value) = Strip(g[L])
    BY DEF Normalize, SubNext, Strip, Used, Dash
  <1> HIDE DEF g
  <1>6. /\ g[0] = <<>> /\ Normalize(value) = Strip(g[L])
        /\ \A n \in 1..L : g[n] = SubNext(g[n - 1], value, n)
    BY <1>0, <1>4, <1>5
  <1> QED
    BY <1>6

\* What a slug is: no character that is to be replaced, and no "_" at its ends.
Valid(s) == Text(s) /\ \A i \in 1..Len(s) : s[i] \notin Invalid
Slug(s) == Valid(s) /\ Len(s) > 0 /\ s[1] # Dash /\ s[Len(s)] # Dash

\* A text with one more character.
LEMMA LongerText ==
  ASSUME NEW s, NEW c, Text(s)
  PROVE  /\ Text(Append(s, c)) /\ Len(Append(s, c)) = Len(s) + 1
         /\ \A i \in 1..Len(s) : Append(s, c)[i] = s[i]
         /\ Append(s, c)[Len(s) + 1] = c
  <1> DEFINE S == Range(s) \cup {c}
  <1>1. s \in Seq(S) /\ c \in S
    BY DEF Text
  <1> HIDE DEF S
  <1>2. Append(s, c) \in Seq(S)
    BY <1>1
  <1>3. Text(Append(s, c))
    BY <1>2, SeqText
  <1>4. Len(Append(s, c)) = Len(s) + 1 /\ Append(s, c)[Len(s) + 1] = c
    BY <1>1
  <1>5. \A i \in 1..Len(s) : Append(s, c)[i] = s[i]
    BY <1>1
  <1> QED
    BY <1>3, <1>4, <1>5

\* Stripping makes a slug.
LEMMA StripSlug ==
  ASSUME NEW s, Valid(s)
  PROVE  Slug(Strip(s))
  <1>1. DOMAIN s = 1..Len(s) /\ Len(s) \in Nat /\ Text(s)
    BY TextDomain DEF Valid
  <1>2. CASE Used(s) = {}
    <2>1. Strip(s) = <<"x">>
      BY <1>2 DEF Strip
    <2>2. "x" # Dash
      BY DEF Dash
    <2> DEFINE x == "x"
    <2>3. x \notin Invalid /\ x # Dash /\ Strip(s) = <<x>>
      BY <2>1, <2>2, SlugAssumption
    <2> HIDE DEF x
    <2>4. Text(<<x>>) /\ Len(<<x>>) = 1 /\ <<x>>[1] = x
      BY ShortTexts
    <2>5. Valid(<<x>>) /\ Len(<<x>>) > 0 /\ <<x>>[1] # Dash /\ <<x>>[Len(<<x>>)] # Dash
      BY <2>3, <2>4 DEF Valid
    <2> QED
      BY <2>3, <2>5 DEF Slug
  <1>3. CASE Used(s) # {}
    <2> DEFINE m == Min(Used(s))
               n == Max(Used(s))
    <2>0. Used(s) \in SUBSET (1..Len(s))
      BY <1>1 DEF Used
    <2>1. m \in Used(s) /\ n \in Used(s) /\ m <= n
      BY <1>1, <1>3, <2>0, Ends
    <2>3. Strip(s) = SubSeq(s, m, n)
      BY <1>3 DEF Strip
    <2> HIDE DEF m, n
    <2>2. m \in 1..Len(s) /\ n \in m..Len(s) /\ s[m] # Dash /\ s[n] # Dash
      <3>1. m \in 1..Len(s) /\ n \in 1..Len(s)
        BY <2>0, <2>1
      <3>2. n \in m..Len(s)
        BY <1>1, <2>1, <3>1
      <3>3. s[m] # Dash /\ s[n] # Dash
        BY <2>1 DEF Used
      <3> QED
        BY <3>1, <3>2, <3>3
    <2>4. /\ Text(Strip(s)) /\ Len(Strip(s)) = n - m + 1
          /\ \A i \in 1..(n - m + 1) : Strip(s)[i] = s[m + i - 1]
      BY <1>1, <2>2, <2>3, PartOfText
    <2>5. Valid(Strip(s))
      <3> SUFFICES ASSUME NEW i \in 1..Len(Strip(s)) PROVE Strip(s)[i] \notin Invalid
        BY <2>4 DEF Valid
      <3>1. i \in 1..(n - m + 1)
        BY <2>4
      <3>2. m + i - 1 \in 1..Len(s)
        BY <1>1, <2>2, <3>1
      <3>3. Strip(s)[i] = s[m + i - 1]
        BY <2>4, <3>1
      <3> QED
        BY <3>2, <3>3 DEF Valid
    <2>6. 1 \in 1..(n - m + 1) /\ n - m + 1 \in 1..(n - m + 1) /\ m + 1 - 1 = m /\ m + (n - m + 1) - 1 = n
      BY <1>1, <2>2
    <2>7. Strip(s)[1] = s[m] /\ Strip(s)[Len(Strip(s))] = s[n]
      BY <2>4, <2>6
    <2> QED
      BY <2>2, <2>4, <2>5, <2>6, <2>7 DEF Slug
  <1> QED
    BY <1>2, <1>3

\* Whatever is normalized becomes a slug.
LEMMA NormalizeSlug ==
  ASSUME NEW value, Text(value)
  PROVE  Slug(Normalize(value))
  <1> DEFINE L == Len(value)
  <1>1. PICK g : /\ g[0] = <<>> /\ Normalize(value) = Strip(g[L])
                 /\ \A n \in 1..L : g[n] = SubNext(g[n - 1], value, n)
    BY NormalizeSteps
  <1>2. L \in Nat
    BY TextDomain
  <1> DEFINE T == {n \in 0..L : Valid(g[n])}
  <1>3. 0 \in T
    <2>1. <<>> \in Seq({}) /\ 1..Len(<<>>) = {}
      OBVIOUS
    <2>2. Valid(<<>>)
      BY <2>1, SeqText DEF Valid
    <2> QED
      BY <1>1, <1>2, <2>2
  <1>4. ASSUME NEW n \in 1..L, n - 1 \in T
        PROVE  n \in T
    <2>1. Valid(g[n - 1]) /\ g[n] = SubNext(g[n - 1], value, n)
      BY <1>1, <1>4
    <2>2. ASSUME NEW c, c \notin Invalid
          PROVE  Valid(Append(g[n - 1], c))
      <3> DEFINE s == g[n - 1]
      <3>1. Text(s) /\ Len(s) \in Nat /\ \A i \in 1..Len(s) : s[i] \notin Invalid
        BY <2>1, TextDomain DEF Valid
      <3> HIDE DEF s
      <3>2. /\ Text(Append(s, c)) /\ Len(Append(s, c)) = Len(s) + 1
            /\ \A i \in 1..Len(s) : Append(s, c)[i] = s[i]
            /\ Append(s, c)[Len(s) + 1] = c
        BY <3>1, LongerText
      <3>3. ASSUME NEW i \in 1..(Len(s) + 1)
            PROVE  Append(s, c)[i] \notin Invalid
        BY <2>2, <3>1, <3>2
      <3>4. Valid(Append(s, c))
        BY <3>2, <3>3 DEF Valid
      <3> QED
        BY <3>4 DEF s
    <2>3. Dash \notin Invalid
      BY SlugAssumption DEF Dash
    <2>4. Valid(g[n])
      BY <2>1, <2>2, <2>3 DEF SubNext
    <2> QED
      BY <2>4
  <1>5. L \in T
    <2> HIDE DEF T, L
    <2>1. 0..L \subseteq T
      BY <1>2, <1>3, <1>4, Induction
    <2> QED
      BY <1>2, <2>1
  <1>6. Valid(g[L])
    BY <1>5
  <1> QED
    BY <1>1, <1>6, StripSlug

\* A slug stays what it is.
LEMMA NormalizeSame ==
  ASSUME NEW value, Slug(value)
  PROVE  Normalize(value) = value
  <1> DEFINE L == Len(value)
  <1>0. Text(value) /\ L \in Nat /\ L > 0 /\ DOMAIN value = 1..L
        /\ \A i \in 1..L : value[i] \notin Invalid
    BY TextDomain DEF Slug, Valid
  <1>1. PICK g : /\ g[0] = <<>> /\ Normalize(value) = Strip(g[L])
                 /\ \A n \in 1..L : g[n] = SubNext(g[n - 1], value, n)
    BY <1>0, NormalizeSteps
  <1> DEFINE Same(s, n) == Text(s) /\ Len(s) = n /\ \A i \in 1..n : s[i] = value[i]
             T == {n \in 0..L : Same(g[n], n)}
  <1>3. 0 \in T
    <2>1. <<>> \in Seq({}) /\ Len(<<>>) = 0 /\ 1..0 = {}
      OBVIOUS
    <2>2. Same(<<>>, 0)
      BY <2>1, SeqText
    <2> QED
      BY <1>0, <1>1, <2>2
  <1>4. ASSUME NEW n \in 1..L, n - 1 \in T
        PROVE  n \in T
    <2> DEFINE s == g[n - 1]
               c == value[n]
    <2>1. Same(s, n - 1) /\ g[n] = Append(s, c)
      BY <1>0, <1>1, <1>4 DEF SubNext
    <2> HIDE DEF s, c
    <2>2. /\ Text(Append(s, c)) /\ Len(Append(s, c)) = Len(s) + 1
          /\ \A i \in 1..Len(s) : Append(s, c)[i] = s[i]
          /\ Append(s, c)[Len(s) + 1] = c
      BY <2>1, LongerText
    <2>3. ASSUME NEW i \in 1..n
          PROVE  g[n][i] = value[i]
      BY <2>1, <2>2 DEF c
    <2>4. Same(g[n], n)
      BY <2>1, <2>2, <2>3
    <2> QED
      BY <2>4
  <1>5. L \in T
    <2> HIDE DEF T, L
    <2>1. 0..L \subseteq T
      BY <1>0, <1>3, <1>4, Induction
    <2> QED
      BY <1>0, <2>1
  <1>6. g[L] = value
    BY <1>0, <1>5, TextsEqual
  <1>7. 1 \in Used(value) /\ L \in Used(value) /\ Used(value) \in SUBSET (1..L)
    <2>1. 1 \in DOMAIN value /\ L \in DOMAIN value /\ value[1] # Dash /\ value[L] # Dash
      BY <1>0 DEF Slug
    <2>2. Used(value) \subseteq DOMAIN value
      BY DEF Used
    <2> QED
      BY <1>0, <2>1, <2>2 DEF Used
  <1>8. Min(Used(value)) = 1 /\ Max(Used(value)) = L
    <2> DEFINE S == Used(value)
    <2> HIDE DEF S
    <2>1. 1 \in S /\ L \in S /\ S \in SUBSET (1..L) /\ S # {}
      BY <1>7 DEF S
    <2>2. Min(S) \in S /\ (\A y \in S : Min(S) <= y) /\ Max(S) \in S /\ (\A y \in S : Max(S) >= y)
      BY <1>0, <2>1, Ends
    <2>3. Min(S) \in 1..L /\ Max(S) \in 1..L /\ Min(S) <= 1 /\ Max(S) >= L
      BY <2>1, <2>2
    <2>4. Min(S) = 1 /\ Max(S) = L
      BY <1>0, <2>3
    <2> QED
      BY <2>4 DEF S
  <1>9. SubSeq(value, 1, L) = value
    BY <1>0 DEF Text
  <1> QED
    BY <1>1, <1>6, <1>7, <1>8, <1>9 DEF Strip

\* A slug that is too long.
Cut(slug) == SubSeq(slug, 1, MaxSlugLen) \o <<Dash, Digest(slug)>>

\* What is assumed of slugs.
LEMMA SlugBounds == MaxSlugLen \in Nat /\ MaxSlugLen > 0 /\ Dash \notin Invalid
  <1>1. MaxSlugLen \in Nat \ {0} /\ Dash \notin Invalid
    BY Zenon, SlugAssumption DEF Dash
  <1> QED
    BY <1>1

\* What a slug that is cut off looks like.
LEMMA CutText ==
  ASSUME NEW s, Text(s), Len(s) > MaxSlugLen
  PROVE  /\ Text(Cut(s)) /\ Len(Cut(s)) = MaxSlugLen + 2
         /\ \A i \in 1..MaxSlugLen : Cut(s)[i] = s[i]
         /\ Cut(s)[MaxSlugLen + 1] = Dash /\ Cut(s)[MaxSlugLen + 2] = Digest(s)
  <1> DEFINE front == SubSeq(s, 1, MaxSlugLen)
             c == Digest(s)
             rear == <<Dash, c>>
  <1>1. MaxSlugLen \in Nat /\ MaxSlugLen > 0 /\ Len(s) \in Nat
    BY SlugBounds, TextDomain
  <1>2. 1 \in 1..Len(s) /\ MaxSlugLen \in 1..Len(s) /\ MaxSlugLen - 1 + 1 = MaxSlugLen
    BY <1>1
  <1>3. Text(front) /\ Len(front) = MaxSlugLen /\ \A i \in 1..MaxSlugLen : front[i] = s[1 + i - 1]
    BY <1>2, PartOfText
  <1>4. Cut(s) = front \o rear
    BY DEF Cut
  <1> HIDE DEF c
  <1>5. Text(rear) /\ Len(rear) = 2 /\ rear[1] = Dash /\ rear[2] = c
    BY ShortTexts
  <1> HIDE DEF front, rear
  <1>6. /\ Text(front \o rear) /\ Len(front \o rear) = Len(front) + Len(rear)
        /\ \A i \in 1..Len(front) : (front \o rear)[i] = front[i]
        /\ \A i \in 1..Len(rear) : (front \o rear)[Len(front) + i] = rear[i]
    <2>1. Text(front) /\ Text(rear)
      BY <1>3, <1>5
    <2> QED
      BY <2>1, JoinedTexts
  <1>7. \A i \in 1..MaxSlugLen : front[i] = s[i]
    BY <1>1, <1>3
  <1>8. (front \o rear)[MaxSlugLen + 1] = Dash /\ (front \o rear)[MaxSlugLen + 2] = c
    BY <1>3, <1>5, <1>6
  <1> QED
    BY <1>3, <1>4, <1>5, <1>6, <1>7, <1>8 DEF c

\* A slug is left alone or cut off.
LEMMA SlugifyCases ==
  ASSUME NEW value
  PROVE  Slugify(value) = IF Len(Normalize(value)) <= MaxSlugLen THEN Normalize(value)
                          ELSE Cut(Normalize(value))
  BY Zenon DEF Slugify, Cut, Dash

\* What slugify returns is a slug.
LEMMA SlugifySlug ==
  ASSUME NEW value, Text(value), Digest(Normalize(value)) \notin Invalid \cup {Dash}
  PROVE  Slug(Slugify(value))
  <1> DEFINE s == Normalize(value)
             c == Digest(s)
  <1>1. Slug(s) /\ c \notin Invalid /\ c # Dash
    BY NormalizeSlug
  <1>2. Slugify(value) = IF Len(s) <= MaxSlugLen THEN s ELSE Cut(s)
    BY SlugifyCases
  <1>3. Dash \notin Invalid /\ MaxSlugLen \in Nat /\ MaxSlugLen > 0
    BY SlugBounds
  <1>4. ASSUME Len(s) > MaxSlugLen
        PROVE  Slug(Cut(s))
    <2>1. /\ Text(Cut(s)) /\ Len(Cut(s)) = MaxSlugLen + 2
          /\ \A i \in 1..MaxSlugLen : Cut(s)[i] = s[i]
          /\ Cut(s)[MaxSlugLen + 1] = Dash /\ Cut(s)[MaxSlugLen + 2] = c
      <3> HIDE DEF s
      <3> QED
        BY <1>1, <1>4, CutText DEF Slug, Valid
    <2>2. Len(s) \in Nat /\ s[1] # Dash /\ \A i \in 1..Len(s) : s[i] \notin Invalid
      BY <1>1, TextDomain DEF Slug, Valid
    <2> DEFINE t == Cut(s)
    <2> HIDE DEF s, c, t
    <2>3. ASSUME NEW i \in 1..(MaxSlugLen + 2)
          PROVE  t[i] \notin Invalid
      <3>1. CASE i \in 1..MaxSlugLen
        <4>1. i \in 1..Len(s) /\ t[i] = s[i]
          BY <1>3, <1>4, <2>1, <2>2, <3>1 DEF t
        <4> QED
          BY <2>2, <4>1
      <3>2. CASE i = MaxSlugLen + 1
        BY <1>3, <2>1, <3>2 DEF t
      <3>3. CASE i = MaxSlugLen + 2
        BY <1>1, <2>1, <3>3 DEF t
      <3> QED
        BY <1>3, <3>1, <3>2, <3>3
    <2>4. Text(t) /\ Len(t) = MaxSlugLen + 2 /\ t[1] = s[1] /\ t[MaxSlugLen + 2] = c
      BY <1>3, <2>1 DEF t
    <2>5. Slug(t)
      BY <1>1, <1>3, <2>2, <2>3, <2>4 DEF Slug, Valid
    <2> QED
      BY <2>5 DEF t
  <1>5. Len(s) \in Nat
    BY <1>1, TextDomain DEF Slug, Valid
  <1> QED
    BY <1>1, <1>2, <1>3, <1>4, <1>5

\* Two slugs with a "_" between them are a slug.
LEMMA JoinedSlug ==
  ASSUME NEW s, NEW t, Slug(s), Slug(t)
  PROVE  /\ Slug(s \o <<Dash>> \o t) /\ Len(s \o <<Dash>> \o t) = Len(s) + 1 + Len(t)
         /\ Text(s \o <<Dash>>) /\ Len(s \o <<Dash>>) = Len(s) + 1
         /\ \A i \in 1..Len(s) : (s \o <<Dash>>)[i] = s[i] /\ (s \o <<Dash>> \o t)[i] = s[i]
         /\ (s \o <<Dash>>)[Len(s) + 1] = Dash /\ (s \o <<Dash>> \o t)[Len(s) + 1] = Dash
  <1> DEFINE u == s \o <<Dash>>
             v == u \o t
  <1>1. Text(s) /\ Text(t) /\ Len(s) \in Nat /\ Len(t) \in Nat /\ Len(s) > 0 /\ Len(t) > 0
    BY TextDomain DEF Slug, Valid
  <1>2. Text(<<Dash>>) /\ Len(<<Dash>>) = 1 /\ <<Dash>>[1] = Dash
    BY ShortTexts
  <1>3. /\ Text(u) /\ Len(u) = Len(s) + 1
        /\ \A i \in 1..Len(s) : u[i] = s[i]
        /\ u[Len(s) + 1] = Dash
    <2> DEFINE d == <<Dash>>
    <2>1. Text(d) /\ Len(d) = 1 /\ d[1] = Dash
      BY <1>2
    <2> HIDE DEF d
    <2>2. /\ Text(s \o d) /\ Len(s \o d) = Len(s) + Len(d) /\ \A i \in 1..Len(s) : (s \o d)[i] = s[i]
          /\ \A i \in 1..Len(d) : (s \o d)[Len(s) + i] = d[i]
      <3>1. Text(d)
        BY <2>1
      <3> QED
        BY <1>1, <3>1, JoinedTexts
    <2>3. /\ Text(s \o d) /\ Len(s \o d) = Len(s) + 1 /\ \A i \in 1..Len(s) : (s \o d)[i] = s[i]
          /\ (s \o d)[Len(s) + 1] = Dash
      BY <2>1, <2>2
    <2> QED
      BY <2>3 DEF d
  <1> HIDE DEF u
  <1>4. /\ Text(v) /\ Len(v) = Len(u) + Len(t)
        /\ \A i \in 1..Len(u) : v[i] = u[i]
        /\ \A i \in 1..Len(t) : v[Len(u) + i] = t[i]
    BY <1>1, <1>3, JoinedTexts
  <1> HIDE DEF v
  <1>5. Len(v) = Len(s) + 1 + Len(t) /\ v[Len(s) + 1] = Dash /\ \A i \in 1..Len(s) : v[i] = s[i]
    BY <1>1, <1>3, <1>4
  <1>6. /\ \A i \in 1..Len(s) : s[i] \notin Invalid
        /\ \A i \in 1..Len(t) : t[i] \notin Invalid
        /\ s[1] # Dash /\ t[Len(t)] # Dash /\ Dash \notin Invalid
    BY SlugBounds DEF Slug, Valid
  <1>7. ASSUME NEW i \in 1..Len(v)
        PROVE  v[i] \notin Invalid
    <2>1. CASE i <= Len(s)
      BY <1>1, <1>5, <1>6, <2>1
    <2>2. CASE i = Len(s) + 1
      BY <1>5, <1>6, <2>2
    <2>3. CASE i > Len(s) + 1
      <3>1. i - (Len(s) + 1) \in 1..Len(t) /\ Len(u) + (i - (Len(s) + 1)) = i
        BY <1>1, <1>3, <1>5, <2>3
      <3>2. v[Len(u) + (i - (Len(s) + 1))] = t[i - (Len(s) + 1)]
        BY <1>4, <3>1
      <3>3. v[i] = t[i - (Len(s) + 1)]
        BY <3>1, <3>2
      <3> QED
        BY <1>6, <3>1, <3>3
    <2> QED
      BY <1>1, <1>5, <2>1, <2>2, <2>3
  <1>8. v[1] = s[1] /\ v[Len(v)] = t[Len(t)]
    <2>1. 1 \in 1..Len(s) /\ Len(t) \in 1..Len(t) /\ Len(u) + Len(t) = Len(v)
      BY <1>1, <1>4
    <2>2. v[Len(u) + Len(t)] = t[Len(t)]
      BY <1>4, <2>1
    <2> QED
      BY <1>5, <2>1, <2>2
  <1>9. Slug(v)
    BY <1>1, <1>4, <1>5, <1>6, <1>7, <1>8 DEF Slug, Valid
  <1> QED
    BY <1>1, <1>3, <1>5, <1>9 DEF u, v
-----------------------------------------------------------------------------
(* Whose a name can be *)

\* A text that slugify makes a slug of.
Named(value) == Text(value) /\ Digest(Normalize(value)) \notin Invalid \cup {Dash}

\* A name that begins with the cut slug of a project, and has the digest of a database's.
CutAt(project, branch, name) ==
  /\ Len(Normalize(project)) > MaxSlugLen /\ Len(name) >= MaxSlugLen + 2
  /\ \A i \in 1..MaxSlugLen : name[i] = Normalize(project)[i]
  /\ name[MaxSlugLen + 1] = Dash /\ name[MaxSlugLen + 2] = Digest(Joined(project, branch))

\* A name that a project can have given a branch's database.
Begins(project, branch, name) ==
  /\ Text(name)
  /\ Like(ProjectPrefix(project), name) \/ CutAt(project, branch, name)

\* What the two slugs and the name before it is cut off look like.
LEMMA JoinedNames ==
  ASSUME NEW project, NEW branch, Named(project), Named(branch)
  PROVE  LET x == Slugify(project)
             J == Joined(project, branch)
         IN /\ Slug(x) /\ Slug(J) /\ Len(J) > Len(x) /\ Len(x) \in Nat /\ Len(J) \in Nat
            /\ Text(ProjectPrefix(project)) /\ Len(ProjectPrefix(project)) = Len(x) + 1
            /\ \A i \in 1..Len(x) : ProjectPrefix(project)[i] = x[i] /\ J[i] = x[i]
            /\ ProjectPrefix(project)[Len(x) + 1] = Dash /\ J[Len(x) + 1] = Dash
            /\ WorkspaceDbName(project, branch) = IF Len(J) <= MaxSlugLen THEN J ELSE Cut(J)
  <1> DEFINE x == Slugify(project)
             y == Slugify(branch)
             J == Joined(project, branch)
  <1>1. Slug(x) /\ Slug(y)
    BY SlugifySlug DEF Named
  <1>2. J = x \o <<Dash>> \o y /\ ProjectPrefix(project) = x \o <<Dash>>
    BY Zenon DEF Joined, ProjectPrefix, Dash
  <1>3. WorkspaceDbName(project, branch) = Slugify(J)
    BY DEF WorkspaceDbName
  <1> HIDE DEF x, y, J
  <1>4. /\ Slug(J) /\ Len(J) = Len(x) + 1 + Len(y)
        /\ Text(ProjectPrefix(project)) /\ Len(ProjectPrefix(project)) = Len(x) + 1
        /\ \A i \in 1..Len(x) : ProjectPrefix(project)[i] = x[i] /\ J[i] = x[i]
        /\ ProjectPrefix(project)[Len(x) + 1] = Dash /\ J[Len(x) + 1] = Dash
    BY <1>1, <1>2, JoinedSlug, Zenon
  <1>5. Len(x) \in Nat /\ Len(y) \in Nat /\ Len(J) \in Nat
    BY <1>1, <1>4, TextDomain DEF Slug, Valid
  <1>6. Normalize(J) = J
    BY <1>4, NormalizeSame
  <1>7. Slugify(J) = IF Len(J) <= MaxSlugLen THEN J ELSE Cut(J)
    BY <1>6, SlugifyCases
  <1>8. Len(J) > Len(x)
    BY <1>4, <1>5
  <1> QED
    BY <1>1, <1>3, <1>4, <1>5, <1>7, <1>8 DEF x, J

\* A database has a name that its project can have given it.
LEMMA NameBegins ==
  ASSUME NEW project, NEW branch, Named(project), Named(branch)
  PROVE  Begins(project, branch, WorkspaceDbName(project, branch))
  <1> DEFINE x == Slugify(project)
             P == ProjectPrefix(project)
             J == Joined(project, branch)
             N == Normalize(project)
             D == WorkspaceDbName(project, branch)
  <1>1. /\ Slug(x) /\ Slug(J) /\ Len(J) > Len(x) /\ Len(x) \in Nat /\ Len(J) \in Nat
        /\ Text(P) /\ Len(P) = Len(x) + 1
        /\ \A i \in 1..Len(x) : P[i] = x[i] /\ J[i] = x[i]
        /\ P[Len(x) + 1] = Dash /\ J[Len(x) + 1] = Dash
        /\ D = IF Len(J) <= MaxSlugLen THEN J ELSE Cut(J)
    BY JoinedNames
  <1>2. Slug(N) /\ Text(N) /\ Len(N) \in Nat
    BY NormalizeSlug, TextDomain DEF Named, Slug, Valid
  <1>3. x = IF Len(N) <= MaxSlugLen THEN N ELSE Cut(N)
    BY SlugifyCases
  <1>4. Begins(project, branch, D) <=>
          Text(D) /\ (IsPrefix(P, D) \/
            /\ Len(N) > MaxSlugLen /\ Len(D) >= MaxSlugLen + 2
            /\ \A i \in 1..MaxSlugLen : D[i] = N[i]
            /\ D[MaxSlugLen + 1] = Dash /\ D[MaxSlugLen + 2] = Digest(J))
    BY Zenon DEF Begins, Like, CutAt
  <1> SUFFICES Begins(project, branch, D)
    OBVIOUS
  <1> HIDE DEF x, P, J, N, D
  <1>5. MaxSlugLen \in Nat /\ Text(J)
    BY <1>1, SlugBounds DEF Slug, Valid
  <1>6. \A i \in 1..Len(P) : P[i] = J[i]
    BY <1>1
  <1>7. CASE Len(J) <= MaxSlugLen
    <2>1. D = J
      BY <1>1, <1>7
    <2>2. IsPrefix(P, J)
      BY <1>1, <1>5, <1>6, PrefixOfText
    <2> QED
      BY <1>4, <1>5, <2>1, <2>2
  <1>8. CASE Len(J) > MaxSlugLen
    <2>1. D = Cut(J)
      BY <1>1, <1>5, <1>8
    <2>2. /\ Text(D) /\ Len(D) = MaxSlugLen + 2
          /\ \A i \in 1..MaxSlugLen : D[i] = J[i]
          /\ D[MaxSlugLen + 1] = Dash /\ D[MaxSlugLen + 2] = Digest(J)
      BY <1>5, <1>8, <2>1, CutText
    <2>3. CASE Len(x) <= MaxSlugLen
      <3>1. ASSUME NEW i \in 1..Len(P) PROVE P[i] = D[i]
        <4>1. CASE i <= MaxSlugLen
          BY <1>1, <1>5, <1>6, <2>2, <4>1
        <4>2. CASE i > MaxSlugLen
          <5>1. i = MaxSlugLen + 1 /\ Len(x) = MaxSlugLen
            BY <1>1, <1>5, <2>3, <4>2
          <5> QED
            BY <1>1, <2>2, <5>1
        <4> QED
          BY <1>5, <4>1, <4>2
      <3>2. Len(P) <= Len(D)
        BY <1>1, <1>5, <2>2, <2>3
      <3>3. IsPrefix(P, D)
        BY <1>1, <2>2, <3>1, <3>2, PrefixOfText
      <3> QED
        BY <1>4, <2>2, <3>3
    <2>4. CASE Len(x) > MaxSlugLen
      <3>1. Len(N) > MaxSlugLen /\ x = Cut(N)
        BY <1>2, <1>3, <1>5, <2>4
      <3>2. Len(x) = MaxSlugLen + 2 /\ \A i \in 1..MaxSlugLen : x[i] = N[i]
        BY <1>2, <3>1, CutText
      <3>3. \A i \in 1..MaxSlugLen : D[i] = N[i]
        <4>1. ASSUME NEW i \in 1..MaxSlugLen PROVE D[i] = N[i]
          <5>1. i \in 1..Len(x)
            BY <1>5, <3>2
          <5> QED
            BY <1>1, <2>2, <3>2, <5>1
        <4> QED
          BY <4>1
      <3> QED
        BY <1>4, <1>5, <2>2, <3>1, <3>3
    <2> QED
      BY <1>1, <1>5, <2>3, <2>4
  <1> QED
    BY <1>1, <1>5, <1>7, <1>8

\* So has an extra one.
LEMMA ExtraBegins ==
  ASSUME NEW project, NEW branch, NEW name, NEW tail, Named(project), Named(branch),
         Begins(project, branch, name), Text(tail)
  PROVE  Begins(project, branch, name \o tail)
  <1> DEFINE D == name \o tail
             P == ProjectPrefix(project)
  <1>1. Text(name) /\ (IsPrefix(P, name) \/ CutAt(project, branch, name))
    BY DEF Begins, Like
  <1>2. /\ Text(D) /\ Len(D) = Len(name) + Len(tail)
        /\ \A i \in 1..Len(name) : D[i] = name[i]
    BY <1>1, JoinedTexts
  <1>3. Text(P)
    BY JoinedNames
  <1>4. Begins(project, branch, D) <=> Text(D) /\ (IsPrefix(P, D) \/ CutAt(project, branch, D))
    BY DEF Begins, Like
  <1> SUFFICES Begins(project, branch, D)
    OBVIOUS
  <1> HIDE DEF D, P
  <1>5. Len(name) \in Nat /\ Len(tail) \in Nat /\ Len(P) \in Nat /\ MaxSlugLen \in Nat
    BY <1>1, <1>3, TextDomain, SlugBounds
  <1>6. CASE IsPrefix(P, name)
    <2>1. Len(P) <= Len(name) /\ \A i \in 1..Len(P) : P[i] = name[i]
      BY <1>1, <1>3, <1>6, PrefixOfText
    <2>2. Len(P) <= Len(D) /\ \A i \in 1..Len(P) : P[i] = D[i]
      BY <1>2, <1>5, <2>1
    <2>3. IsPrefix(P, D)
      BY <1>2, <1>3, <2>2, PrefixOfText
    <2> QED
      BY <1>2, <1>4, <2>3
  <1>7. CASE CutAt(project, branch, name)
    <2>1. Len(name) >= MaxSlugLen + 2
      BY <1>7 DEF CutAt
    <2>2. /\ Len(D) >= MaxSlugLen + 2
          /\ \A i \in 1..(MaxSlugLen + 2) : D[i] = name[i]
      BY <1>2, <1>5, <2>1
    <2>3. CutAt(project, branch, D)
      BY <1>5, <1>7, <2>2 DEF CutAt
    <2> QED
      BY <1>2, <1>4, <2>3
  <1> QED
    BY <1>1, <1>6, <1>7

\* The beginning of a project's names is that of a name that is cut off, and not its digest:
\* it begins the names of the project of that one.
LEMMA CutPrefix ==
  ASSUME NEW mine, NEW theirs, NEW branch, NEW name,
         Named(mine), Named(theirs), Named(branch), Text(name),
         IsPrefix(ProjectPrefix(mine), name), CutAt(theirs, branch, name),
         Digest(Normalize(mine)) # Digest(Joined(theirs, branch))
  PROVE  IsPrefix(ProjectPrefix(mine), ProjectPrefix(theirs))
  <1> DEFINE P == ProjectPrefix(mine)
             Q == ProjectPrefix(theirs)
             x == Slugify(mine)
             y == Slugify(theirs)
             M == Normalize(mine)
             N == Normalize(theirs)
             c == Digest(Joined(theirs, branch))
  <1>1. /\ Text(P) /\ Len(x) \in Nat /\ Len(P) = Len(x) + 1
        /\ \A i \in 1..Len(x) : P[i] = x[i]
        /\ P[Len(x) + 1] = Dash
    BY JoinedNames
  <1>2. /\ Text(Q) /\ Len(y) \in Nat /\ Len(Q) = Len(y) + 1
        /\ \A i \in 1..Len(y) : Q[i] = y[i]
        /\ Q[Len(y) + 1] = Dash
    BY JoinedNames
  <1>3. Text(M) /\ Text(N) /\ Len(M) \in Nat
    BY NormalizeSlug, TextDomain DEF Named, Slug, Valid
  <1>4. x = (IF Len(M) <= MaxSlugLen THEN M ELSE Cut(M)) /\ y = IF Len(N) <= MaxSlugLen THEN N ELSE Cut(N)
    BY SlugifyCases
  <1>5. /\ Len(N) > MaxSlugLen /\ \A i \in 1..MaxSlugLen : name[i] = N[i]
        /\ name[MaxSlugLen + 1] = Dash /\ name[MaxSlugLen + 2] = c
    BY DEF CutAt
  <1>6. IsPrefix(P, name) /\ Text(name) /\ MaxSlugLen \in Nat /\ Digest(M) # c
    BY SlugBounds
  <1> SUFFICES IsPrefix(P, Q)
    OBVIOUS
  <1> HIDE DEF P, Q, x, y, M, N, c
  <1>7. Len(P) <= Len(name) /\ \A i \in 1..Len(P) : P[i] = name[i]
    BY <1>1, <1>6, PrefixOfText
  <1>8. y = Cut(N)
    BY <1>3, <1>4, <1>5, <1>6, TextDomain
  <1>9. /\ Len(y) = MaxSlugLen + 2 /\ \A i \in 1..MaxSlugLen : y[i] = N[i]
        /\ y[MaxSlugLen + 1] = Dash
    BY <1>3, <1>5, <1>8, CutText
  <1>10. Len(M) <= MaxSlugLen
    <2> SUFFICES ASSUME Len(M) > MaxSlugLen PROVE FALSE
      BY <1>3, <1>6
    <2>1. x = Cut(M)
      BY <1>3, <1>4, <1>6
    <2>2. Len(x) = MaxSlugLen + 2 /\ x[MaxSlugLen + 2] = Digest(M)
      BY <1>3, <2>1, CutText
    <2>3. MaxSlugLen + 2 \in 1..Len(x) /\ MaxSlugLen + 2 \in 1..Len(P)
      BY <1>1, <1>6, <2>2
    <2>4. P[MaxSlugLen + 2] = x[MaxSlugLen + 2] /\ P[MaxSlugLen + 2] = name[MaxSlugLen + 2]
      BY <1>1, <1>7, <2>3
    <2> QED
      BY <1>5, <1>6, <2>2, <2>4
  <1>11. Len(x) <= MaxSlugLen
    BY <1>4, <1>10
  <1>12. \A i \in 1..(MaxSlugLen + 1) : Q[i] = name[i]
    <2> SUFFICES ASSUME NEW i \in 1..(MaxSlugLen + 1) PROVE Q[i] = name[i]
      OBVIOUS
    <2>1. Q[i] = y[i]
      BY <1>2, <1>6, <1>9
    <2>2. y[i] = name[i]
      BY <1>5, <1>6, <1>9
    <2> QED
      BY <2>1, <2>2
  <1>13. \A i \in 1..Len(P) : P[i] = Q[i]
    BY <1>1, <1>6, <1>7, <1>11, <1>12
  <1>14. Len(P) <= Len(Q)
    BY <1>1, <1>2, <1>6, <1>9, <1>11
  <1> QED
    BY <1>1, <1>2, <1>13, <1>14, PrefixOfText

\* What the workspaces are called can be made slugs of.
LEMMA SetupNamed ==
  ASSUME NEW S \in Setups, NEW p \in Proc
  PROVE  /\ Named(S.ws[p].project)
         /\ \A v \in {S.ws[p].branch, S.ws[p].override} : Named(v)
  BY Zenon, TextAssumption DEF Named, Text, Dash

\* Projects that can have given the same name are nested.
LEMMA BeginsNested ==
  ASSUME NEW S \in Setups, NEW p \in Proc, NEW q \in Proc, NEW name,
         NEW a \in {S.ws[p].branch, S.ws[p].override}, NEW b \in {S.ws[q].branch, S.ws[q].override},
         Begins(S.ws[p].project, a, name), Begins(S.ws[q].project, b, name)
  PROVE  Nested(S.ws[p].project, S.ws[q].project)
  <1> DEFINE mine == S.ws[p].project
             theirs == S.ws[q].project
             P == ProjectPrefix(mine)
             Q == ProjectPrefix(theirs)
             J == Joined(mine, a)
             K == Joined(theirs, b)
  <1>1. Named(mine) /\ Named(theirs) /\ Named(a) /\ Named(b)
    BY SetupNamed
  <1>2. /\ Digest(J) = Digest(K) => J = K
        /\ Len(Normalize(mine)) > MaxSlugLen => Digest(Normalize(theirs)) # Digest(J)
        /\ Len(Normalize(theirs)) > MaxSlugLen => Digest(Normalize(mine)) # Digest(K)
    <2> DEFINE Names(r) == {Joined(S.ws[r].project, v) : v \in {S.ws[r].branch, S.ws[r].override}}
    <2>1. J \in Names(p) /\ K \in Names(q)
      BY Zenon
    <2>2. \A r, t \in Proc : \A s \in Names(r) :
            /\ \A u \in Names(t) : Digest(s) = Digest(u) => s = u
            /\ Len(Normalize(S.ws[r].project)) > MaxSlugLen => Digest(Normalize(S.ws[t].project)) # Digest(s)
      BY Zenon, DigestAssumption
    <2> HIDE DEF Names, J, K
    <2> QED
      BY <2>1, <2>2, Zenon
  <1>3. /\ Text(name) /\ Text(P) /\ Text(Q)
        /\ IsPrefix(P, name) \/ CutAt(mine, a, name)
        /\ IsPrefix(Q, name) \/ CutAt(theirs, b, name)
    BY <1>1, JoinedNames DEF Begins, Like
  <1>4. Nested(mine, theirs) <=> Slugify(mine) = Slugify(theirs) \/ IsPrefix(P, Q) \/ IsPrefix(Q, P)
    BY DEF Nested
  <1> SUFFICES Nested(mine, theirs)
    OBVIOUS
  <1>5. CASE IsPrefix(P, name) /\ IsPrefix(Q, name)
    <2> HIDE DEF P, Q
    <2> QED
      BY <1>3, <1>4, <1>5, PrefixesNest
  <1>6. CASE IsPrefix(P, name) /\ CutAt(theirs, b, name)
    <2>1. Digest(Normalize(mine)) # Digest(K)
      BY <1>2, <1>6 DEF CutAt
    <2>2. IsPrefix(P, Q)
      <3> HIDE DEF mine, theirs
      <3> QED
        BY <1>1, <1>3, <1>6, <2>1, CutPrefix
    <2> QED
      BY <1>4, <2>2
  <1>7. CASE CutAt(mine, a, name) /\ IsPrefix(Q, name)
    <2>1. Digest(Normalize(theirs)) # Digest(J)
      BY <1>2, <1>7 DEF CutAt
    <2>2. IsPrefix(Q, P)
      <3> HIDE DEF mine, theirs
      <3> QED
        BY <1>1, <1>3, <1>7, <2>1, CutPrefix
    <2> QED
      BY <1>4, <2>2
  <1>8. CASE CutAt(mine, a, name) /\ CutAt(theirs, b, name)
    <2>1. J = K
      BY <1>2, <1>8 DEF CutAt
    <2>2. \A v, w : Named(v) /\ Named(w) => IsPrefix(ProjectPrefix(v), Joined(v, w)) /\ Text(Joined(v, w))
      <3> SUFFICES ASSUME NEW v, NEW w, Named(v), Named(w)
                   PROVE  IsPrefix(ProjectPrefix(v), Joined(v, w)) /\ Text(Joined(v, w))
        OBVIOUS
      <3> DEFINE R == ProjectPrefix(v)
                 L == Joined(v, w)
                 x == Slugify(v)
      <3>1. /\ Slug(L) /\ Len(L) > Len(x) /\ Len(x) \in Nat /\ Len(L) \in Nat
            /\ Text(R) /\ Len(R) = Len(x) + 1
            /\ \A i \in 1..Len(x) : R[i] = x[i] /\ L[i] = x[i]
            /\ R[Len(x) + 1] = Dash /\ L[Len(x) + 1] = Dash
        BY JoinedNames
      <3> SUFFICES IsPrefix(R, L) /\ Text(L)
        OBVIOUS
      <3> HIDE DEF R, L, x
      <3>2. Text(L) /\ Len(R) <= Len(L) /\ \A i \in 1..Len(R) : R[i] = L[i]
        BY <3>1 DEF Slug, Valid
      <3> QED
        BY <3>1, <3>2, PrefixOfText
    <2>3. IsPrefix(P, J) /\ IsPrefix(Q, J) /\ Text(J)
      <3> HIDE DEF mine, theirs
      <3> QED
        BY <1>1, <2>1, <2>2
    <2> HIDE DEF P, Q, J, K
    <2> QED
      BY <1>3, <1>4, <2>3, PrefixesNest
  <1> QED
    BY <1>3, <1>5, <1>6, <1>7, <1>8
-----------------------------------------------------------------------------
(* ProjectSwept *)

\* What a command to clean goes through: databases that are its own or begin like its
\* project's.  A sweep of all has found every one of these, as long as nobody else
\* touches a database.
Matched(p, d) == Like(ProjectPrefix(Project(p)), d)
Mine(p, d) == d = OwnDb(p) \/ Matched(p, d)
Matches(p) == {d \in DOMAIN dbs : Matched(p, d)}
Sweeping(p) ==
  /\ pc[p] \in {"list", "trees", "next", "drop", "snapshots", "single", "dropping", "idle", "done", "failed"}
  /\ pc[p] = "trees" => cmd[p][2] = "orphaned"
  /\ pc[p] \in {"trees", "next"} \/ Dropping(p) => \A d \in todo[p] : Mine(p, d)
  /\ Dropping(p) => Mine(p, cur[p])
Complete(p) ==
  /\ pc[p] = "next" => Matches(p) \subseteq todo[p]
  /\ Dropping(p) => Matches(p) \subseteq todo[p] \cup {cur[p]}
  /\ pc[p] = "done" => Matches(p) = {}
Swept(p) == Sweeping(p) /\ (cmd[p][2] = "all" /\ alone[p] => Complete(p))
CleanInv == \A p \in Proc : cmd[p][1] = "clean" => Swept(p)
SetupInv == setup \in Setups

\* The database of a branch has a name that its project can have given it.
LEMMA TheirsBegin ==
  ASSUME SetupInv, NEW q \in Proc,
         NEW d \in ExpectedDbNames(Project(q), {setup.ws[q].branch, CurrentBranch(q)})
  PROVE  \E b \in {setup.ws[q].branch, setup.ws[q].override} : Begins(Project(q), b, d)
  <1> DEFINE heads == {setup.ws[q].branch, setup.ws[q].override}
             main == {WorkspaceDbName(Project(q), b) : b \in {setup.ws[q].branch, CurrentBranch(q)}}
  <1>1. Named(Project(q)) /\ \A b \in heads : Named(b)
    BY SetupNamed DEF SetupInv, Project
  <1>2. \A b \in heads : Begins(Project(q), b, WorkspaceDbName(Project(q), b))
    BY <1>1, NameBegins
  <1>3. CurrentBranch(q) \in heads
    BY DEF CurrentBranch
  <1>4. \A e \in main : \E b \in heads : Begins(Project(q), b, e)
    <2> SUFFICES ASSUME NEW b \in {setup.ws[q].branch, CurrentBranch(q)}
                 PROVE  \E a \in heads : Begins(Project(q), a, WorkspaceDbName(Project(q), b))
      OBVIOUS
    <2>1. b \in heads
      BY <1>3
    <2> QED
      BY <1>2, <2>1
  <1>5. \A s \in Extras : Text(s)
    BY Zenon, SlugAssumption DEF Text
  <1>6. d \in main \cup {e \o s : e \in main, s \in Extras}
    BY DEF ExpectedDbNames
  <1> HIDE DEF main
  <1>7. ASSUME d \in main
        PROVE  \E b \in heads : Begins(Project(q), b, d)
    BY <1>4, <1>7
  <1>8. ASSUME NEW e \in main, NEW s \in Extras, d = e \o s
        PROVE  \E b \in heads : Begins(Project(q), b, d)
    <2>1. PICK b \in heads : Begins(Project(q), b, e)
      BY <1>4, <1>8
    <2>2. Begins(Project(q), b, e \o s)
      <3> HIDE DEF heads
      <3> QED
        BY <1>1, <1>5, <1>8, <2>1, ExtraBegins
    <2> QED
      BY <1>8, <2>2
  <1>9. d \in main \/ \E e \in main, s \in Extras : d = e \o s
    BY <1>6
  <1> HIDE DEF heads
  <1>10. \E b \in heads : Begins(Project(q), b, d)
    BY <1>7, <1>8, <1>9, Zenon
  <1> QED
    BY <1>10 DEF heads

\* So has what a command to clean may drop, if it is a name at all.
LEMMA MineBegins ==
  ASSUME SetupInv, NEW p \in Proc, NEW d, Text(d), Mine(p, d)
  PROVE  \E a \in {setup.ws[p].branch, setup.ws[p].override} : Begins(Project(p), a, d)
  <1>1. CASE d = OwnDb(p)
    <2>1. CurrentBranch(p) \in {setup.ws[p].branch, setup.ws[p].override}
      BY DEF CurrentBranch
    <2>2. Named(Project(p)) /\ Named(CurrentBranch(p))
      BY <2>1, SetupNamed DEF SetupInv, Project
    <2> QED
      BY <1>1, <2>1, <2>2, NameBegins DEF OwnDb
  <1>2. CASE Matched(p, d)
    BY <1>2 DEF Matched, Begins
  <1> QED
    BY <1>1, <1>2 DEF Mine

\* A step changes neither the workspaces nor what they are called.
LEMMA SetupKept == SetupInv /\ TypeOK /\ [Next]_vars => SetupInv' /\ setup' = setup
  <1> SUFFICES ASSUME SetupInv, TypeOK, [Next]_vars PROVE setup' = setup
    BY DEF SetupInv
  <1>1. ASSUME NEW p \in Proc, Step(p) PROVE setup' = setup
    BY <1>1, ListPendingStep DEF Step, Begin, ContainerStep, TimeOut, ListDbs, ListTrees, NextDb, Terminate, LookForDb, DropSnapshots,
       SingleUser, DropDatabase, CheckDatabase, CreateDatabase, Connect, Build, DeleteRows, InsertRows, InsertRest, Close,
       DropOldSnapshot, CreateSnapshot, CheckSnapshots, Revert, MultiUser, ListPending, ExecuteBatch, Commit, CheckRow,
       InsertRow, Verify, SessionLost, ServerLost, Die, ChangeWorktree, Frame
  <1> QED
    BY <1>1, StopStep, VisitStep, LeaveStep DEF Next, ContainerBoots, vars

\* Nor what a project's databases begin with.
LEMMA MatchedKept ==
  ASSUME NEW p \in Proc, setup' = setup
  PROVE  \A d : (Matched(p, d)' <=> Matched(p, d)) /\ (Mine(p, d)' <=> Mine(p, d))
  BY OwnKept DEF Matched, Mine, Project

\* A step that leaves the databases and what a command goes through leaves it what it is.
LEMMA SweptKept ==
  ASSUME NEW p \in Proc, Swept(p), setup' = setup, DOMAIN dbs' = DOMAIN dbs, alone'[p] => alone[p],
         pc'[p] = pc[p] \/ pc'[p] \in {"idle", "failed"} \/ (Dropping(p) /\ Dropping(p)'),
         cmd'[p] = cmd[p], cur'[p] = cur[p], todo'[p] = todo[p]
  PROVE  Swept(p)'
  <1>1. \A d : (Matched(p, d)' <=> Matched(p, d)) /\ (Mine(p, d)' <=> Mine(p, d))
    BY MatchedKept
  <1>2. Matches(p)' = Matches(p)
    BY <1>1 DEF Matches
  <1>3. Sweeping(p)'
    BY <1>1 DEF Swept, Sweeping, Dropping
  <1>4. cmd[p][2] = "all" /\ alone'[p] => Complete(p)'
    BY <1>2 DEF Swept, Complete, Dropping
  <1> QED
    BY <1>3, <1>4 DEF Swept

\* A command to clean goes on as it has to.
LEMMA StepSwept ==
  ASSUME TypeOK, SetupInv, setup' = setup, NEW p \in Proc, Step(p), cmd'[p][1] = "clean",
         cmd[p][1] = "clean" => Swept(p)
  PROVE  Swept(p)'
  <1> USE DEF TypeOK, ProcTypes
  <1>0. \A d : (Matched(p, d)' <=> Matched(p, d)) /\ (Mine(p, d)' <=> Mine(p, d))
    BY MatchedKept
  <1>1. CASE Begin(p)
    <2>1. PICK c \in Commands :
            /\ Moves(p, Entry(c)) /\ cmd'[p] = c
            /\ todo'[p] = IF c \in {<<"ensure", "force">>, <<"clean", "own">>} THEN {OwnDb(p)} ELSE {}
      BY <1>1, BeginStep, Zenon DEF BeginDoes
    <2>2. /\ pc'[p] \in {"next", "list"} /\ (pc'[p] = "next" => cmd'[p][2] = "own")
          /\ \A d \in todo'[p] : d = OwnDb(p)
      BY <2>1, EntryLabel DEF Moves
    <2> QED
      BY <1>0, <2>2 DEF Swept, Sweeping, Complete, Dropping, Mine
  <1>2. CASE ContainerStep(p)
    BY <1>2 DEF ContainerStep, Frame, procVars, Up, Session, Swept, Sweeping, Available, GetContainer, CreateContainer, WaitReady
  <1>3. CASE TimeOut(p)
    BY <1>3 DEF TimeOut, Frame, procVars, Up, Session, Swept, Sweeping
  <1>4. CASE ListDbs(p)
    <2>1. /\ pc'[p] = (IF cmd[p][2] = "orphaned" THEN "trees" ELSE "next") /\ cmd' = cmd
          /\ todo'[p] = Matches(p) /\ dbs' = dbs
      BY <1>4 DEF ListDbs, Frame, Goto, Matches, Matched
    <2>2. Matches(p)' = Matches(p) /\ \A d \in todo'[p] : Mine(p, d)'
      BY <1>0, <2>1 DEF Matches, Mine
    <2> QED
      BY <2>1, <2>2 DEF Swept, Sweeping, Complete, Dropping
  <1>5. CASE ListTrees(p)
    <2>1. /\ pc[p] = "trees" /\ pc'[p] = "next" /\ cmd' = cmd /\ todo'[p] \subseteq todo[p]
      BY <1>5 DEF ListTrees, Frame, Goto
    <2>2. cmd[p][2] = "orphaned" /\ \A d \in todo'[p] : Mine(p, d)'
      BY <1>0, <2>1 DEF Swept, Sweeping
    <2> QED
      BY <2>1, <2>2 DEF Swept, Sweeping, Complete, Dropping
  <1>6. CASE NextDb(p)
    <2>1. /\ pc[p] = "next" /\ UNCHANGED <<cmd, dbs, alone>>
          /\ \/ pc'[p] = "done" /\ todo[p] = {}
             \/ \E d \in todo[p] : cur'[p] = d /\ todo'[p] = todo[p] \ {d} /\ pc'[p] = "drop"
      BY <1>6 DEF NextDb, Frame, NoHistory, history, Goto
    <2>2. Swept(p) /\ Matches(p)' = Matches(p)
      BY <1>0, <2>1 DEF Matches
    <2>3. Sweeping(p)'
      BY <1>0, <2>1, <2>2 DEF Swept, Sweeping, Dropping
    <2>4. cmd[p][2] = "all" /\ alone[p] => Complete(p)'
      BY <2>1, <2>2 DEF Swept, Complete, Dropping
    <2> QED
      BY <2>1, <2>3, <2>4 DEF Swept
  <1>7. CASE Terminate(p)
    <2>1. TerminateDoes(p)
      BY <1>7, TerminateStep
    <2> QED
      BY <2>1, TouchedSelf, SweptKept DEF TerminateDoes, Moves, Becomes, Exists, Up, Dropping
  <1>8. CASE LookForDb(p)
    <2>1. /\ pc[p] = "drop" /\ UNCHANGED <<cmd, todo, cur, dbs, alone>>
          /\ pc'[p] = IF Exists(cur[p]) THEN "snapshots" ELSE "next"
      BY <1>8 DEF LookForDb, Frame, NoHistory, history, Goto, Up
    <2>2. Swept(p)
      BY <2>1
    <2>3. CASE Exists(cur[p])
      BY <2>1, <2>2, <2>3, SweptKept DEF Dropping
    <2>4. CASE ~Exists(cur[p])
      <3>1. Matches(p)' = Matches(p) /\ cur[p] \notin Matches(p)
        BY <1>0, <2>1, <2>4 DEF Matches, Exists
      <3>2. Sweeping(p)'
        BY <1>0, <2>1, <2>2, <2>4 DEF Swept, Sweeping, Dropping
      <3>3. cmd[p][2] = "all" /\ alone[p] => Complete(p)'
        BY <2>1, <2>2, <2>4, <3>1 DEF Swept, Complete, Dropping
      <3> QED
        BY <2>1, <3>2, <3>3 DEF Swept
    <2> QED
      BY <2>3, <2>4
  <1>9. CASE DropSnapshots(p)
    <2>1. DropSnapshotsDoes(p)
      BY <1>9, DropSnapshotsStep
    <2> QED
      BY <2>1, TouchedSelf, SweptKept DEF DropSnapshotsDoes, Moves, Up, Dropping
  <1>10. CASE SingleUser(p)
    <2>1. SingleUserDoes(p)
      BY <1>10, SingleUserStep
    <2>2. Moves(p, "dropping") \/ Moves(p, "failed")
      BY <2>1 DEF SingleUserDoes, Finished
    <2> QED
      BY <2>1, <2>2, TouchedSelf, SweptKept DEF SingleUserDoes, Moves, Becomes, Finished, Up, Dropping
  <1>11. CASE DropDatabase(p)
    <2>1. DropDatabaseDoes(p)
      BY <1>11, DropDatabaseStep
    <2>2. Swept(p) /\ pc[p] = "dropping" /\ UNCHANGED <<cmd, todo, cur>> /\ (alone'[p] => alone[p])
      BY <2>1, TouchedSelf DEF DropDatabaseDoes, Up
    <2>3. CASE Finished(p, "failed")
      BY <2>2, <2>3, SweptKept DEF Finished, Moves
    <2>4. CASE Moves(p, "next") /\ DOMAIN dbs' = DOMAIN dbs \ {cur[p]}
      <3>1. Matches(p)' = Matches(p) \ {cur[p]} /\ pc'[p] = "next"
        BY <1>0, <2>4 DEF Matches, Moves
      <3>2. Sweeping(p)'
        BY <1>0, <2>2, <3>1 DEF Swept, Sweeping, Dropping
      <3>3. cmd[p][2] = "all" /\ alone'[p] => Complete(p)'
        BY <2>2, <3>1 DEF Swept, Complete, Dropping
      <3> QED
        BY <2>2, <3>2, <3>3 DEF Swept
    <2> QED
      BY <2>1, <2>3, <2>4 DEF DropDatabaseDoes, Exists
  <1>12. CASE CheckDatabase(p)
    BY <1>12 DEF CheckDatabase, Frame, procVars, Up, Session, Swept, Sweeping
  <1>13. CASE CreateDatabase(p)
    BY <1>13 DEF CreateDatabase, Frame, procVars, Up, Session, Swept, Sweeping
  <1>14. CASE Connect(p)
    BY <1>14 DEF Connect, Frame, procVars, Up, Session, Swept, Sweeping
  <1>15. CASE Build(p)
    BY <1>15 DEF Build, Frame, procVars, Up, Session, Swept, Sweeping
  <1>16. CASE DeleteRows(p)
    BY <1>16 DEF DeleteRows, Frame, procVars, Up, Session, Swept, Sweeping
  <1>17. CASE InsertRows(p)
    BY <1>17 DEF InsertRows, Frame, procVars, Up, Session, Swept, Sweeping
  <1>18. CASE InsertRest(p)
    BY <1>18 DEF InsertRest, Frame, procVars, Up, Session, Swept, Sweeping
  <1>19. CASE Close(p)
    BY <1>19 DEF Close, Frame, procVars, Up, Session, Swept, Sweeping
  <1>20. CASE DropOldSnapshot(p)
    BY <1>20 DEF DropOldSnapshot, Frame, procVars, Up, Session, Swept, Sweeping
  <1>21. CASE CreateSnapshot(p)
    BY <1>21 DEF CreateSnapshot, Frame, procVars, Up, Session, Swept, Sweeping
  <1>22. CASE CheckSnapshots(p)
    BY <1>22 DEF CheckSnapshots, Frame, procVars, Up, Session, Swept, Sweeping
  <1>23. CASE Revert(p)
    BY <1>23 DEF Revert, Frame, procVars, Up, Session, Swept, Sweeping
  <1>24. CASE MultiUser(p)
    BY <1>24 DEF MultiUser, Frame, procVars, Up, Session, Swept, Sweeping
  <1>25. CASE ListPending(p)
    <2>1. ListPendingDoes(p)
      BY <1>25, ListPendingStep
    <2>2. pc[p] = "migrate" /\ (cmd'[p] = cmd[p] \/ cmd'[p][1] = "migrate")
      BY <2>1 DEF ListPendingDoes, Up
    <2> QED
      BY <2>2 DEF Swept, Sweeping
  <1>26. CASE ExecuteBatch(p)
    BY <1>26 DEF ExecuteBatch, Frame, procVars, Up, Session, Swept, Sweeping
  <1>27. CASE Commit(p)
    BY <1>27 DEF Commit, Frame, procVars, Up, Session, Swept, Sweeping
  <1>28. CASE CheckRow(p)
    BY <1>28 DEF CheckRow, Frame, procVars, Up, Session, Swept, Sweeping
  <1>29. CASE InsertRow(p)
    BY <1>29 DEF InsertRow, Frame, procVars, Up, Session, Swept, Sweeping
  <1>30. CASE Verify(p)
    BY <1>30 DEF Verify, Frame, procVars, Up, Session, Swept, Sweeping
  <1>31. CASE SessionLost(p)
    BY <1>31 DEF SessionLost, Frame, procVars, Up, Session, Swept, Sweeping
  <1>32. CASE ServerLost(p)
    <2>1. ServerLostDoes(p)
      BY <1>32, ServerLostStep
    <2> QED
      BY <2>1, TouchedSelf, SweptKept DEF ServerLostDoes, Moves, Finished, Up, Dropping
  <1>33. CASE Die(p)
    <2>1. DieDoes(p)
      BY <1>33, DieStep
    <2> QED
      BY <2>1, TouchedSelf, SweptKept DEF DieDoes, Moves, Finished, Up, Dropping
  <1>34. CASE ChangeWorktree(p)
    BY <1>34, SweptKept DEF ChangeWorktree, procVars
  <1> QED
    BY <1>1, <1>2, <1>3, <1>4, <1>5, <1>6, <1>7, <1>8, <1>9, <1>10, <1>11, <1>12, <1>13, <1>14, <1>15, <1>16, <1>17, <1>18, <1>19, <1>20, <1>21, <1>22, <1>23, <1>24, <1>25, <1>26, <1>27, <1>28, <1>29, <1>30, <1>31, <1>32, <1>33, <1>34 DEF Step

\* Every step keeps what sweeps have to do.
LEMMA CleanKept == TypeOK /\ SetupInv /\ CleanInv /\ [Next]_vars => CleanInv'
  <1> SUFFICES ASSUME TypeOK, SetupInv, CleanInv, [Next]_vars, NEW p \in Proc, cmd'[p][1] = "clean"
               PROVE  Swept(p)'
    BY DEF CleanInv
  <1>0. setup' = setup
    BY SetupKept
  <1>1. cmd[p][1] = "clean" => Swept(p)
    BY DEF CleanInv
  <1>2. CASE Step(p)
    BY <1>0, <1>1, <1>2, StepSwept
  <1>3. ASSUME UNCHANGED <<pc, cmd, todo, cur, alone>>, DOMAIN dbs' = DOMAIN dbs PROVE Swept(p)'
    BY <1>0, <1>1, <1>3, SweptKept
  <1>4. ASSUME NEW q \in Proc, Step(q), p # q PROVE Swept(p)'
    <2>1. /\ pc'[p] = pc[p] /\ cmd'[p] = cmd[p] /\ todo'[p] = todo[p] /\ cur'[p] = cur[p]
          /\ alone'[p] => alone[p]
      BY <1>4, StepOthers
    <2>2. Swept(p)
      BY <1>1, <2>1
    <2>3. CASE alone'[p]
      <3>1. DOMAIN dbs' = DOMAIN dbs
        BY <1>4, <2>3, StepApart DEF ContentsStay
      <3> QED
        BY <1>0, <2>1, <2>2, <3>1, SweptKept
    <2>4. CASE ~alone'[p]
      <3>1. \A d : Mine(p, d)' <=> Mine(p, d)
        BY <1>0, MatchedKept
      <3> QED
        BY <2>1, <2>2, <2>4, <3>1 DEF Swept, Sweeping, Dropping
    <2> QED
      BY <2>3, <2>4
  <1>5. CASE ContainerBoots
    BY <1>3, <1>5 DEF ContainerBoots, Boot, history, procVars
  <1>6. CASE StopContainer
    BY <1>3, <1>6, StopStep
  <1>7. ASSUME NEW d \in DOMAIN dbs, Visit(d) PROVE Swept(p)'
    BY <1>3, <1>7, VisitStep DEF Becomes
  <1>8. ASSUME NEW d \in DOMAIN dbs, VisitorLeaves(d) PROVE Swept(p)'
    BY <1>3, <1>8, LeaveStep DEF Becomes
  <1>9. CASE UNCHANGED vars
    BY <1>3, <1>9 DEF vars, history, procVars
  <1> QED
    BY <1>2, <1>4, <1>5, <1>6, <1>7, <1>8, <1>9 DEF Next

\* clean takes no database of another project unless one slug goes on from the other's, and
\* clean --all, undisturbed, leaves none of its own project's when its slug is not cut off
\* (ProjectSwept; clean_testdb and _dbs_with_prefix in testdb/api.py and testdb/mssql/api.py,
\* slugify and workspace_db_name in testdb/naming.py).
THEOREM SweptCorrect == Spec => []ProjectSwept
  <1> DEFINE Inv == TypeOK /\ SetupInv /\ CleanInv
  <1>1. Init => Inv
    <2>1. Init => \A p \in Proc : cmd[p][1] = "none"
      <3> DEFINE blank == ""
      <3>1. Init => cmd = [p \in Proc |-> <<"none", blank>>]
        BY DEF Init
      <3> HIDE DEF blank
      <3> QED
        BY <3>1
    <2>2. Init => CleanInv
      BY <2>1 DEF CleanInv
    <2>3. Init => SetupInv
      BY DEF Init, SetupInv
    <2> QED
      BY <2>2, <2>3, InitTypes
  <1>2. Inv /\ [Next]_vars => Inv'
    BY NextTypes, SetupKept, CleanKept
  <1>3. Inv => ProjectSwept
    <2> SUFFICES ASSUME Inv, NEW p \in Proc, NEW q \in Proc
                 PROVE  LET theirs == ExpectedDbNames(Project(q), {setup.ws[q].branch, CurrentBranch(q)}) IN
                        /\ Dropping(p) /\ cmd[p][1] = "clean" /\ cur[p] \in theirs => Nested(Project(p), Project(q))
                        /\ /\ cmd[p] = <<"clean", "all">> /\ pc[p] = "done" /\ alone[p]
                           /\ Project(q) = Project(p) /\ Len(Normalize(Project(p))) <= MaxSlugLen
                           => theirs \cap DOMAIN dbs = {}
      BY DEF ProjectSwept
    <2> DEFINE theirs == ExpectedDbNames(Project(q), {setup.ws[q].branch, CurrentBranch(q)})
    <2>1. \A d \in theirs : \E b \in {setup.ws[q].branch, setup.ws[q].override} : Begins(Project(q), b, d)
      BY TheirsBegin
    <2>2. cmd[p][1] = "clean" => Swept(p)
      BY DEF CleanInv
    <2> HIDE DEF theirs
    <2>3. ASSUME Dropping(p), cmd[p][1] = "clean", cur[p] \in theirs
          PROVE  Nested(Project(p), Project(q))
      <3>1. PICK b \in {setup.ws[q].branch, setup.ws[q].override} : Begins(Project(q), b, cur[p])
        BY <2>1, <2>3
      <3>2. Mine(p, cur[p]) /\ Text(cur[p])
        BY <2>2, <2>3, <3>1 DEF Swept, Sweeping, Begins
      <3>3. PICK a \in {setup.ws[p].branch, setup.ws[p].override} : Begins(Project(p), a, cur[p])
        BY <3>2, MineBegins
      <3> QED
        BY <3>1, <3>3, BeginsNested DEF SetupInv, Project
    <2>4. ASSUME cmd[p] = <<"clean", "all">>, pc[p] = "done", alone[p],
                 Project(q) = Project(p), Len(Normalize(Project(p))) <= MaxSlugLen
          PROVE  theirs \cap DOMAIN dbs = {}
      <3>1. Matches(p) = {}
        BY <2>2, <2>4 DEF Swept, Complete
      <3>2. ~(Len(Normalize(Project(p))) > MaxSlugLen)
        <4>1. Len(Normalize(Project(p))) \in Nat /\ MaxSlugLen \in Nat
          BY SetupNamed, NormalizeSlug, TextDomain, SlugBounds DEF SetupInv, Project, Named, Slug, Valid
        <4> QED
          BY <2>4, <4>1
      <3>3. ASSUME NEW d \in theirs PROVE Matched(p, d)
        BY <2>1, <2>4, <3>2 DEF Begins, CutAt, Matched
      <3> QED
        BY <3>1, <3>3 DEF Matches
    <2> QED
      BY <2>3, <2>4 DEF theirs
  <1> QED
    BY <1>1, <1>2, <1>3, PTL DEF Spec
=============================================================================
