------------------------ MODULE MigrateLedgerProofs ------------------------
(***************************************************************************)
(* Proofs about Migrate when one process is alone on the database: it runs *)
(* only what is pending, bootstraps the tracking table and implements the  *)
(* ledger of MigrationLedger, whatever crashed or lost its connection      *)
(* before.                                                                 *)
(***************************************************************************)
EXTENDS MigrateProofs, FiniteSetTheorems

\* Everything a run handles is one of its targets, and --file's is forced.
TargetInv(p) ==
  /\ byFile[p] => targets[p] \subseteq Forced
  /\ todo[p] \subseteq targets[p] /\ QueueFiles(p) \subseteq targets[p] \cup {EndFile}
  /\ wpc[p] \in Handling => job[p].file \in targets[p]

Kept(p, f) == outcomes[p][f] \in {"applied", "recorded"}

\* What is kept precedes what is to come; from the file on that created the
\* tracking table, what is kept is recorded.
BootInv(p) ==
  /\ \A f \in targets[p] : Kept(p, f) =>
       /\ \A g \in QueueFiles(p) \cup todo[p] : f < g
       /\ wpc[p] \in Handling => f < job[p].file
  /\ wpc[p] = "verify" \/ (wpc[p] = "report" /\ result[p] # "failed") =>
       (TrackingTable \in objs => job[p].file \in recorded)
  /\ wpc[p] = "report" /\ result[p] = "applied" =>
       (TrackingTable \in Created(job[p].file) => TrackingTable \in objs)
  /\ \A g \in targets[p] : outcomes[p][g] = "applied" /\ TrackingTable \in Created(g) =>
       /\ TrackingTable \in objs
       /\ \A f \in targets[p] : g <= f /\ Kept(p, f) => f \in recorded

Alone == Cardinality(Proc) = 1

LoneInv == Alone => PendingInv /\ \A p \in Proc : TargetInv(p) /\ BootInv(p)

\* One process means the same one takes every step.
LEMMA AloneFact == Alone => \E p \in Proc : Proc = {p}
BY ProcAssumption, FS_Singleton DEF Alone

\* Only a commit changes the committed objects, and it makes p's view of them
\* the committed one.
LEMMA OnlyCommits ==
  ASSUME TypeOK, NEW p \in Proc, Step(p)
  PROVE  objs' = objs \/ (wpc[p] = "exec" /\ objs' = Visible(p))
BY DEF Step, StartPending, StartFile, Begin, Answer, AnswerYes, AnswerNo, AnswerAlready,
       AnswerQuit, MainStep, EndLoop, Finish, Enqueue, Review, TargetFound, TargetMissing,
       Put, WorkerStep, TakePoison, Discard, TakeJob, NextItem, Deadlocked, ExecStep, ExecCreate,
       ExecDrop, ExecChange, ExecCommit, ExecRollback, Advance, Commit, ServerCommit, Executing,
       AtStatement,
       ExecError, DuplicateKey, Record, Verify, VerifyError, Report, FaultStep,
       ConnectionLost, Crash, CommitAnswerLost, RecordAnswerLost, dbVars

\* No transaction of p ever drops the tracking table.
LEMMA TrackingUndropped ==
  ASSUME TypeOK, NEW p \in Proc, Step(p), TrackingTable \notin dels[p]
  PROVE  TrackingTable \notin dels'[p]
<1> USE DEF dbVars, runVars, mainVars, jobVars, histVars
<1>1. CASE dels'[p] = dels[p] \/ EndTransaction(p)
  BY <1>1 DEF EndTransaction, TypeOK
<1>2. ASSUME NEW f \in File, ExecDrop(p, f)
      PROVE  TrackingTable \notin dels'[p]
  <2>1. at[p] \in DOMAIN Script[f] /\ Script[f][at[p]].op = "drop"
    <3>1. Script[f] \in Seq(Stmt) /\ at[p] \in Nat \ {0} /\ at[p] <= Len(Script[f])
      BY <1>2, ScriptAssumption DEF ExecDrop, Runs, AtStatement, TypeOK
    <3> QED
      BY <1>2, <3>1 DEF ExecDrop, Runs, Current
  <2>2. Script[f][at[p]].obj # TrackingTable
    BY <2>1, ScriptAssumption
  <2>3. dels'[p] = dels[p] \cup ({Script[f][at[p]].obj} \cap objs)
    BY <1>2 DEF ExecDrop, Current, TypeOK
  <2> QED
    BY <2>2, <2>3
<1>3. ASSUME NEW f \in File, ExecCreate(p, f)
      PROVE  TrackingTable \notin dels'[p]
  BY <1>3 DEF ExecCreate, TypeOK
<1> QED
  BY <1>1, <1>2, <1>3
     DEF Step, StartPending, StartFile, Begin, Answer, AnswerYes, AnswerNo, AnswerAlready,
         AnswerQuit, MainStep, EndLoop, Finish, Enqueue, Review, TargetFound, TargetMissing,
         Put, WorkerStep, TakePoison, Discard, TakeJob, NextItem, Deadlocked, ExecStep,
         ExecChange, ExecCommit, ExecRollback, Commit, ServerCommit,
         ExecError, DuplicateKey, Record, Verify, VerifyError, Report, FaultStep,
         ConnectionLost, Crash, CommitAnswerLost, RecordAnswerLost
\* The steps of a run under way: the main thread's, the worker's, the faults.
RunStep(p) == Answer(p) \/ MainStep(p) \/ WorkerStep(p) \/ FaultStep(p)

\* A run only hands on what it has: from todo to the queue to the job.
LEMMA FlowStep ==
  ASSUME TypeOK, NEW p \in Proc, RunStep(p)
  PROVE  /\ byFile'[p] = byFile[p] /\ targets'[p] = targets[p]
         /\ todo'[p] \cup QueueFiles(p)' \subseteq todo[p] \cup QueueFiles(p) \cup {EndFile}
         /\ wpc'[p] \in Handling => \/ wpc[p] \in Handling /\ job'[p] = job[p]
                                    \/ job'[p].file \in QueueFiles(p) \cap File
         /\ wpc'[p] \in {"exec", "record"} =>
              \/ wpc[p] \in {"exec", "record"} /\ job'[p] = job[p]
              \/ job'[p].file \in QueueFiles(p) \cap File
<1> USE DEF dbVars, runVars, mainVars, jobVars, histVars
<1> DEFINE Flow ==
         /\ byFile'[p] = byFile[p] /\ targets'[p] = targets[p]
         /\ todo'[p] \cup QueueFiles(p)' \subseteq todo[p] \cup QueueFiles(p) \cup {EndFile}
         /\ wpc'[p] \in Handling => \/ wpc[p] \in Handling /\ job'[p] = job[p]
                                    \/ job'[p].file \in QueueFiles(p) \cap File
         /\ wpc'[p] \in {"exec", "record"} =>
              \/ wpc[p] \in {"exec", "record"} /\ job'[p] = job[p]
              \/ job'[p].file \in QueueFiles(p) \cap File
<1>q. work_q[p] \in Seq(Item)
  BY DEF TypeOK
<1>1. ASSUME NEW x \in Item, work_q'[p] = Append(work_q[p], x), todo'[p] \subseteq todo[p],
             x.file \in todo[p] \cup {EndFile}, UNCHANGED <<runVars, jobVars>>
      PROVE  Flow
  <2>1. QueueFiles(p)' = QueueFiles(p) \cup {x.file}
    BY <1>q, <1>1, AppendFiles DEF QueueFiles
  <2> QED
    BY <1>1, <2>1
<1>2. CASE EndLoop(p) \/ AnswerQuit(p)
  <2>1. /\ work_q'[p] = Append(work_q[p], Poison) /\ todo'[p] = todo[p]
        /\ UNCHANGED <<runVars, jobVars>>
    BY <1>2 DEF EndLoop, AnswerQuit, TypeOK
  <2> QED
    BY <1>1, <2>1, ItemFacts
<1>3. ASSUME NEW f \in File, NEW d \in Done, Put(p, f, d), First(todo[p], f)
      PROVE  Flow
  <2>1. /\ work_q'[p] = Append(work_q[p], [file |-> f, done |-> d])
        /\ todo'[p] \subseteq todo[p] /\ f \in todo[p] /\ UNCHANGED <<runVars, jobVars>>
    BY <1>3 DEF Put, First, TypeOK
  <2>2. [file |-> f, done |-> d] \in Item
    BY ItemFacts
  <2> QED
    BY <1>1, <2>1, <2>2
<1>4. ASSUME UNCHANGED <<byFile[p], targets[p], work_q[p], job[p]>>, todo'[p] \subseteq todo[p],
             wpc'[p] \in Handling => wpc[p] \in Handling,
             wpc'[p] \in {"exec", "record"} => wpc[p] \in {"exec", "record"}
      PROVE  Flow
  BY <1>4 DEF QueueFiles
<1>5. ASSUME NEW f \in File, TargetFound(p, f)
      PROVE  Flow
  <2>1. CASE Put(p, f, "auto")
    BY <1>3, <1>5, <2>1 DEF TargetFound, Done
  <2>2. CASE UNCHANGED <<dbVars, runVars, pc, todo, quit, outcomes, work_q, stop, jobVars, histVars>>
    BY <1>4, <2>2
  <2> QED
    BY <1>5, <2>1, <2>2 DEF TargetFound
<1>6. ASSUME NEW f \in File, Review(p, f) \/ TargetMissing(p, f) \/ AnswerNo(p, f)
      PROVE  Flow
  <2>1. UNCHANGED <<byFile[p], targets[p], work_q[p], job[p], wpc[p]>>
    BY <1>6 DEF Review, TargetMissing, AnswerNo
  <2>2. todo'[p] = todo[p] \/ todo'[p] = todo[p] \ {f}
    BY <1>6 DEF Review, TargetMissing, AnswerNo, TypeOK
  <2> QED
    BY <1>4, <2>1, <2>2
<1>m. CASE MainStep(p) \/ Answer(p)
  <2>1. CASE Finish(p)
    <3>1. /\ UNCHANGED <<byFile[p], targets[p], work_q[p], job[p], wpc[p]>>
          /\ todo'[p] \subseteq todo[p]
      BY <2>1 DEF Finish, TypeOK
    <3> QED
      BY <1>4, <3>1
  <2> QED
    BY <1>m, <2>1, <1>2, <1>3, <1>5, <1>6
       DEF MainStep, Answer, Enqueue, AnswerYes, AnswerAlready, Done
<1>r. ASSUME NextItem(p)
      PROVE  /\ QueueFiles(p) = QueueFiles(p)' \cup {Head(work_q[p]).file}
             /\ wpc[p] = "get" /\ Head(work_q[p]) \in Item
             /\ UNCHANGED <<byFile[p], targets[p], todo[p]>>
  BY <1>r, <1>q, TailFiles DEF NextItem, QueueFiles, TypeOK
<1>7. CASE TakePoison(p) \/ Discard(p)
  <2>1. wpc'[p] \in {"off", "get"} /\ NextItem(p)
    BY <1>7 DEF TakePoison, Discard, NextItem, TypeOK
  <2> QED
    BY <1>r, <2>1 DEF Handling, Busy
<1>8. CASE TakeJob(p)
  <2>1. NextItem(p) /\ job'[p] = Head(work_q[p]) /\ Head(work_q[p]) # Poison
    BY <1>8 DEF TakeJob, TypeOK
  <2>2. job'[p].file \in QueueFiles(p) \cap File
    BY <1>r, <2>1, ItemFile
  <2> QED
    BY <1>r, <2>1, <2>2
<1>9. ASSUME Except(p), wpc[p] \in Busy
      PROVE  Flow
  BY <1>4, <1>9 DEF Except, Handling, Busy, TypeOK
<1>10. ASSUME Advance(p)
       PROVE  Flow
  BY <1>4, <1>10 DEF Advance
<1>11. ASSUME NEW f \in File, Commit(p, f) \/ Record(p, f) \/ Verify(p, f) \/ Report(p, f)
       PROVE  Flow
  <2>1. /\ UNCHANGED <<byFile[p], targets[p], work_q[p], job[p], todo[p]>>
        /\ \/ wpc[p] = "exec" /\ wpc'[p] = "record"
           \/ wpc[p] \in {"record", "verify"} /\ wpc'[p] \in {"verify", "report"}
           \/ wpc'[p] = "get"
    BY <1>11 DEF Commit, ServerCommit, Executing, Record, Verify, Report, TypeOK
  <2> QED
    BY <1>4, <2>1 DEF Handling, Busy
<1>12. CASE Crash(p)
  <2>1. /\ UNCHANGED <<byFile[p], targets[p]>> /\ wpc'[p] = "off" /\ todo'[p] = {}
        /\ work_q'[p] = <<>>
    BY <1>12 DEF Crash, TypeOK
  <2> QED
    BY <2>1 DEF QueueFiles, FilesOf, Handling, Busy
<1>13. ASSUME Deadlocked(p)
       PROVE  wpc[p] \in Busy
  BY <1>13 DEF Deadlocked, WaitsFor, AtStatement, Executing, Busy
<1>w. CASE WorkerStep(p) \/ FaultStep(p)
  BY <1>w, <1>7, <1>8, <1>9, <1>10, <1>11, <1>12, <1>13
     DEF WorkerStep, FaultStep, ExecStep, ExecCreate, ExecDrop, ExecChange, ExecCommit,
         ExecRollback, ExecError, DuplicateKey, Deadlocked, VerifyError, ConnectionLost,
         CommitAnswerLost, RecordAnswerLost, ServerCommit, AtStatement, Executing, Busy
<1> QED
  BY <1>m, <1>w DEF RunStep

\* An outcome "applied" or "recorded" is the worker's report of its job.
LEMMA KeptStep ==
  ASSUME TypeOK, NEW p \in Proc, RunStep(p), NEW f \in File, Kept(p, f)'
  PROVE  \/ outcomes'[p][f] = outcomes[p][f]
         \/ /\ wpc[p] = "report" /\ job[p].file = f /\ outcomes'[p][f] = result[p]
            /\ wpc'[p] = "get" /\ UNCHANGED <<job[p], dbVars, todo[p], work_q[p]>>
            /\ \A g \in File \ {f} : outcomes'[p][g] = outcomes[p][g]
<1> USE DEF dbVars, runVars, mainVars, jobVars, histVars
<1>1. CASE outcomes' = outcomes
  BY <1>1
<1>2. ASSUME NEW g \in File, AnswerNo(p, g)
      PROVE  outcomes'[p][f] = outcomes[p][f]
  BY <1>2 DEF AnswerNo, Kept, TypeOK
<1>3. CASE Finish(p)
  BY <1>3 DEF Finish, Kept, TypeOK
<1>4. ASSUME NEW g \in File, Report(p, g)
      PROVE  \/ outcomes'[p][f] = outcomes[p][f]
             \/ /\ wpc[p] = "report" /\ job[p].file = f /\ outcomes'[p][f] = result[p]
                /\ wpc'[p] = "get" /\ UNCHANGED <<job[p], dbVars, todo[p], work_q[p]>>
                /\ \A h \in File \ {f} : outcomes'[p][h] = outcomes[p][h]
  BY <1>4 DEF Report, TypeOK
<1>5. CASE Answer(p) \/ MainStep(p)
  BY <1>1, <1>2, <1>3, <1>5
     DEF Answer, AnswerYes, AnswerAlready, AnswerQuit, MainStep, EndLoop, Enqueue, Review,
         TargetFound, TargetMissing, Put
<1>6. CASE WorkerStep(p) \/ FaultStep(p)
  BY <1>1, <1>4, <1>6
     DEF WorkerStep, TakePoison, Discard, TakeJob, NextItem, Deadlocked, ExecStep, ExecCreate,
         ExecDrop, ExecChange, ExecCommit, ExecRollback, Advance, Commit, Except,
         ExecError, DuplicateKey, Record, Verify, VerifyError, FaultStep,
         ConnectionLost, Crash, CommitAnswerLost, RecordAnswerLost
<1> QED
  BY <1>5, <1>6 DEF RunStep

\* What the worker has found out when it verifies or reports anything but a
\* failure: it has tried to record its file, and looked for the tables.
LEMMA FoundStep ==
  ASSUME TypeOK, NEW p \in Proc, RunStep(p),
         wpc'[p] = "verify" \/ (wpc'[p] = "report" /\ result'[p] # "failed")
  PROVE  /\ job'[p] = job[p] /\ objs' = objs
         /\ \/ wpc'[p] = wpc[p] /\ result'[p] = result[p] /\ recorded \subseteq recorded'
            \/ /\ wpc[p] = "record" /\ (wpc'[p] = "report" => result'[p] = "recorded")
               /\ recorded' = IF TrackingTable \in objs THEN recorded \cup {job[p].file}
                                                         ELSE recorded
            \/ /\ wpc[p] = "verify" /\ wpc'[p] = "report" /\ recorded' = recorded
               /\ Missing(job[p].file) = {}
<1> USE DEF dbVars, runVars, mainVars, jobVars, histVars
<1>1. CASE Answer(p) \/ MainStep(p)
  BY <1>1
     DEF Answer, AnswerYes, AnswerAlready, AnswerNo, AnswerQuit, MainStep, EndLoop, Finish,
         Enqueue, Review, TargetFound, TargetMissing, Put
<1>2. ASSUME NEW f \in File, Record(p, f) \/ Verify(p, f)
      PROVE  /\ job'[p] = job[p] /\ objs' = objs
             /\ \/ /\ wpc[p] = "record" /\ (wpc'[p] = "report" => result'[p] = "recorded")
                   /\ recorded' = IF TrackingTable \in objs THEN recorded \cup {job[p].file}
                                                             ELSE recorded
                \/ /\ wpc[p] = "verify" /\ wpc'[p] = "report" /\ recorded' = recorded
                   /\ Missing(job[p].file) = {}
  BY <1>2 DEF Record, Verify, TypeOK
<1>3. ASSUME Except(p)
      PROVE  FALSE
  BY <1>3 DEF Except, TypeOK
<1>4. ASSUME Advance(p), Executing(p, job[p].file)
      PROVE  FALSE
  BY <1>4 DEF Advance, Executing
<1>5. CASE TakePoison(p) \/ TakeJob(p) \/ Discard(p) \/ Crash(p)
  BY <1>5 DEF TakePoison, TakeJob, Discard, NextItem, Crash, TypeOK
<1>6. ASSUME NEW f \in File, Commit(p, f) \/ Report(p, f)
      PROVE  FALSE
  BY <1>6 DEF Commit, Report, TypeOK
<1> QED
  BY <1>1, <1>2, <1>3, <1>4, <1>5, <1>6
     DEF RunStep, WorkerStep, FaultStep, ExecStep, ExecCreate, ExecDrop, ExecChange, ExecCommit,
         ExecRollback, ExecError, DuplicateKey, Deadlocked, VerifyError, ConnectionLost,
         CommitAnswerLost, RecordAnswerLost, Runs, AtStatement, Executing
\* A record is made of the worker's job, in an existing tracking table.
LEMMA RecordStep ==
  ASSUME TypeOK, NEW p \in Proc, RunStep(p)
  PROVE  \/ recorded' = recorded
         \/ /\ wpc[p] = "record" /\ TrackingTable \in objs /\ objs' = objs
            /\ recorded' = recorded \cup {job[p].file}
            /\ wpc'[p] \in {"verify", "report"}
            /\ UNCHANGED <<todo[p], work_q[p], job[p], byFile[p]>>
<1> USE DEF dbVars, runVars, mainVars, jobVars, histVars
<1>1. CASE Answer(p) \/ MainStep(p)
  BY <1>1
     DEF Answer, AnswerYes, AnswerAlready, AnswerNo, AnswerQuit, MainStep, EndLoop, Finish,
         Enqueue, Review, TargetFound, TargetMissing, Put
<1>2. ASSUME NEW f \in File, Record(p, f) \/ RecordAnswerLost(p, f)
      PROVE  \/ recorded' = recorded
             \/ /\ wpc[p] = "record" /\ TrackingTable \in objs /\ objs' = objs
                /\ recorded' = recorded \cup {job[p].file}
                /\ wpc'[p] \in {"verify", "report"}
                /\ UNCHANGED <<todo[p], work_q[p], job[p], byFile[p]>>
  BY <1>2 DEF Record, RecordAnswerLost, Except, TypeOK
<1>3. CASE WorkerStep(p) \/ FaultStep(p)
  BY <1>2, <1>3
     DEF WorkerStep, TakePoison, Discard, TakeJob, NextItem, Deadlocked, ExecStep, ExecCreate,
         ExecDrop, ExecChange, ExecCommit, ExecRollback, Commit, ServerCommit,
         ExecError, DuplicateKey, Verify, VerifyError, Report, FaultStep,
         ConnectionLost, Crash, CommitAnswerLost
<1> QED
  BY <1>1, <1>3 DEF RunStep

\* Once committed, the tracking table stays.
LEMMA TrackingStays ==
  ASSUME TypeOK, NEW p \in Proc, Step(p), TrackingTable \notin dels[p], TrackingTable \in objs
  PROVE  TrackingTable \in objs'
BY OnlyCommits DEF Visible

\* A run under way handles its targets only.
LEMMA TargetStep ==
  ASSUME TypeOK, NEW p \in Proc, TargetInv(p), RunStep(p)
  PROVE  TargetInv(p)'
<1>1. /\ byFile'[p] = byFile[p] /\ targets'[p] = targets[p]
      /\ todo'[p] \subseteq todo[p] \cup QueueFiles(p) \cup {EndFile}
      /\ QueueFiles(p)' \subseteq todo[p] \cup QueueFiles(p) \cup {EndFile}
      /\ wpc'[p] \in Handling => \/ wpc[p] \in Handling /\ job'[p] = job[p]
                                 \/ job'[p].file \in QueueFiles(p) \cap File
  BY FlowStep
<1>2. todo'[p] \subseteq File /\ EndFile \notin File
  BY NextTypeOK, ItemFacts DEF Next, RunStep, Step, TypeOK
<1>3. targets[p] \subseteq File
  BY DEF TypeOK
<1> QED
  BY <1>1, <1>2, <1>3 DEF TargetInv

\* Alone, a run under way records only what it no longer has before it.
LEMMA PendingStep ==
  ASSUME TypeOK, NEW p \in Proc, Proc = {p}, Sorted(p), PendingInv, RunStep(p)
  PROVE  PendingInv'
<1>s. Step(p)
  BY DEF RunStep, Step
<1>1. TrackingTable \notin dels[p] /\ TrackingTable \notin dels'[p]
  BY <1>s, TrackingUndropped DEF PendingInv
<1>2. recorded' # {} => TrackingTable \in objs'
  BY <1>s, <1>1, RecordStep, TrackingStays DEF PendingInv
<1>3. ASSUME ~byFile'[p]
      PROVE  /\ (todo'[p] \cup QueueFiles(p)') \cap recorded' = {}
             /\ wpc'[p] \in {"exec", "record"} => job'[p].file \notin recorded'
  <2>0. ~byFile[p] /\ (todo[p] \cup QueueFiles(p)) \cap recorded = {}
    BY <1>3, FlowStep DEF PendingInv
  <2>1. CASE recorded' = recorded
    <3>1. recorded \subseteq File /\ EndFile \notin File
      BY ItemFacts DEF TypeOK
    <3>2. todo'[p] \cup QueueFiles(p)' \subseteq todo[p] \cup QueueFiles(p) \cup {EndFile}
      BY FlowStep
    <3>3. wpc'[p] \in {"exec", "record"} =>
            \/ wpc[p] \in {"exec", "record"} /\ job'[p] = job[p]
            \/ job'[p].file \in QueueFiles(p)
      BY FlowStep
    <3>4. wpc[p] \in {"exec", "record"} => job[p].file \notin recorded
      BY <2>0 DEF PendingInv
    <3> QED
      BY <2>0, <2>1, <3>1, <3>2, <3>3, <3>4
  <2>2. CASE recorded' # recorded
    <3>1. /\ wpc[p] = "record" /\ recorded' = recorded \cup {job[p].file}
          /\ wpc'[p] \in {"verify", "report"}
          /\ UNCHANGED <<todo[p], work_q[p], job[p]>>
      BY <2>2, RecordStep
    <3>2. job[p].file \in File /\ \A f \in QueueFiles(p) \cup todo[p] : job[p].file < f
      BY <3>1 DEF Sorted, Handling, Busy
    <3>3. job[p].file \notin QueueFiles(p) \cup todo[p]
      BY <3>2, FileOrder
    <3> QED
      BY <2>0, <3>1, <3>3 DEF QueueFiles
  <2> QED
    BY <2>1, <2>2
<1> QED
  BY <1>1, <1>2, <1>3 DEF PendingInv

\* Alone, a run under way keeps what is kept recorded from the bootstrap on.
LEMMA BootStep ==
  ASSUME TypeOK, NEW p \in Proc, Sorted(p), TargetInv(p), BootInv(p), RunStep(p),
         TrackingTable \notin dels[p]
  PROVE  BootInv(p)'
<1>s. Step(p)
  BY DEF RunStep, Step
<1>t. /\ targets'[p] = targets[p] /\ targets[p] \subseteq File
      /\ todo'[p] \cup QueueFiles(p)' \subseteq todo[p] \cup QueueFiles(p) \cup {EndFile}
      /\ wpc'[p] \in Handling => \/ wpc[p] \in Handling /\ job'[p] = job[p]
                                 \/ job'[p].file \in QueueFiles(p)
  BY FlowStep DEF TypeOK
<1>r. recorded \subseteq recorded'
  BY RecordStep
<1>o. TrackingTable \in objs => TrackingTable \in objs'
  BY <1>s, TrackingStays
<1>k. ASSUME NEW f \in targets[p], Kept(p, f)', ~Kept(p, f) \/ outcomes'[p][f] # outcomes[p][f]
      PROVE  /\ wpc[p] = "report" /\ job[p].file = f /\ outcomes'[p][f] = result[p]
             /\ wpc'[p] = "get" /\ UNCHANGED <<job[p], dbVars, todo[p], work_q[p]>>
             /\ \A g \in File \ {f} : outcomes'[p][g] = outcomes[p][g]
  BY <1>k, <1>t, KeptStep DEF Kept
<1>1. ASSUME NEW f \in targets[p], Kept(p, f)'
      PROVE  /\ \A g \in QueueFiles(p)' \cup todo'[p] : f < g
             /\ wpc'[p] \in Handling => f < job'[p].file
  <2>1. f < EndFile
    BY <1>t, FileOrder
  <2>2. CASE Kept(p, f)
    <3>1. /\ \A g \in QueueFiles(p) \cup todo[p] : f < g
          /\ wpc[p] \in Handling => f < job[p].file
      BY <2>2 DEF BootInv
    <3> QED
      BY <1>t, <2>1, <3>1
  <2>3. CASE ~Kept(p, f)
    <3>1. /\ wpc[p] = "report" /\ job[p].file = f /\ wpc'[p] = "get"
          /\ UNCHANGED <<todo[p], work_q[p]>>
      BY <1>1, <1>k, <2>3
    <3> QED
      BY <3>1 DEF Sorted, Handling, Busy, QueueFiles
  <2> QED
    BY <2>2, <2>3
<1>2. ASSUME wpc'[p] = "verify" \/ (wpc'[p] = "report" /\ result'[p] # "failed"),
             TrackingTable \in objs'
      PROVE  job'[p].file \in recorded'
  <2>1. /\ job'[p] = job[p] /\ objs' = objs
        /\ \/ wpc'[p] = wpc[p] /\ result'[p] = result[p]
           \/ wpc[p] = "record" /\ recorded' = IF TrackingTable \in objs
                                               THEN recorded \cup {job[p].file} ELSE recorded
           \/ wpc[p] = "verify"
    BY <1>2, FoundStep
  <2>2. CASE wpc[p] = "record" /\ recorded' = IF TrackingTable \in objs
                                              THEN recorded \cup {job[p].file} ELSE recorded
    BY <1>2, <2>1, <2>2
  <2>3. CASE wpc[p] = "verify" \/ (wpc'[p] = wpc[p] /\ result'[p] = result[p])
    BY <1>2, <1>r, <2>1, <2>3 DEF BootInv
  <2> QED
    BY <2>1, <2>2, <2>3
<1>3. ASSUME wpc'[p] = "report" /\ result'[p] = "applied", TrackingTable \in Created(job'[p].file)
      PROVE  TrackingTable \in objs'
  <2>1. /\ job'[p] = job[p] /\ objs' = objs
        /\ \/ wpc'[p] = wpc[p] /\ result'[p] = result[p]
           \/ Missing(job[p].file) = {}
    BY <1>3, FoundStep
  <2> QED
    BY <1>3, <2>1 DEF BootInv, Missing
<1>4. ASSUME NEW g \in targets[p], outcomes'[p][g] = "applied", TrackingTable \in Created(g)
      PROVE  TrackingTable \in objs'
  <2>1. CASE outcomes'[p][g] = outcomes[p][g]
    BY <1>4, <1>o, <2>1 DEF BootInv
  <2>2. CASE outcomes'[p][g] # outcomes[p][g]
    <3>1. wpc[p] = "report" /\ job[p].file = g /\ result[p] = "applied"
      BY <1>4, <1>k, <2>2 DEF Kept
    <3> QED
      BY <1>4, <1>o, <3>1 DEF BootInv
  <2> QED
    BY <2>1, <2>2
<1>5. ASSUME NEW g \in targets[p], outcomes'[p][g] = "applied", TrackingTable \in Created(g),
             NEW f \in targets[p], g <= f, Kept(p, f)'
      PROVE  f \in recorded'
  <2>1. CASE outcomes'[p][f] # outcomes[p][f]
    <3>1. /\ wpc[p] = "report" /\ job[p].file = f /\ outcomes'[p][f] = result[p]
          /\ UNCHANGED dbVars
      BY <1>5, <1>k, <2>1
    <3>2. result[p] # "failed"
      BY <1>5, <3>1 DEF Kept
    <3>3. TrackingTable \in objs
      BY <1>4, <1>5, <3>1 DEF dbVars
    <3> QED
      BY <1>r, <3>1, <3>2, <3>3 DEF BootInv
  <2>2. CASE outcomes'[p][f] = outcomes[p][f] /\ outcomes'[p][g] = outcomes[p][g]
    <3>1. outcomes[p][g] = "applied" /\ Kept(p, f)
      BY <1>5, <2>2 DEF Kept
    <3> QED
      BY <1>5, <1>r, <3>1 DEF BootInv
  <2>3. CASE outcomes'[p][f] = outcomes[p][f] /\ outcomes'[p][g] # outcomes[p][g]
    <3>1. wpc[p] = "report" /\ job[p].file = g /\ Kept(p, f)
      BY <1>5, <1>k, <2>3 DEF Kept
    <3>2. f < g
      BY <3>1 DEF BootInv, Handling
    <3> QED
      BY <1>5, <1>t, <3>2, FileOrder
  <2> QED
    BY <2>1, <2>2, <2>3
<1> QED
  BY <1>t, <1>1, <1>2, <1>3, <1>4, <1>5 DEF BootInv
\* Alone, a run starts with targets that are not recorded, or with --file's.
LEMMA BeginLone ==
  ASSUME TypeOK, NEW p \in Proc, Proc = {p}, PendingInv, StartPending(p) \/ StartFile(p)
  PROVE  PendingInv' /\ TargetInv(p)' /\ BootInv(p)'
<1>1. ASSUME NEW T \in SUBSET File, NEW b \in BOOLEAN, Begin(p, T, b),
             IF b THEN T \subseteq Forced ELSE T \cap recorded = {}
      PROVE  PendingInv' /\ TargetInv(p)' /\ BootInv(p)'
  <2>1. /\ wpc'[p] = "get" /\ work_q'[p] = <<>> /\ todo'[p] = T /\ targets'[p] = T
        /\ byFile'[p] = b /\ outcomes'[p] = NoOutcome
        /\ UNCHANGED <<objs, recorded, dels>>
    BY <1>1 DEF Begin, TypeOK, dbVars
  <2>2. QueueFiles(p)' = {} /\ \A f \in T : ~Kept(p, f)' /\ outcomes'[p][f] # "applied"
    BY <2>1 DEF QueueFiles, FilesOf, Kept, NoOutcome
  <2>3. TargetInv(p)'
    BY <1>1, <2>1, <2>2 DEF TargetInv, Handling, Busy
  <2>4. BootInv(p)'
    BY <2>1, <2>2 DEF BootInv
  <2>5. PendingInv'
    BY <1>1, <2>1, <2>2 DEF PendingInv
  <2> QED
    BY <2>3, <2>4, <2>5
<1>2. CASE StartPending(p)
  <2>1. PICK S \in Selections :
          Begin(p, IF TrackingTable \in objs THEN S \ recorded ELSE S, FALSE)
    BY <1>2 DEF StartPending
  <2> DEFINE T == IF TrackingTable \in objs THEN S \ recorded ELSE S
  <2>2. T \in SUBSET File
    BY OptionAssumption
  <2>3. T \cap recorded = {}
    BY DEF PendingInv
  <2>4. Begin(p, T, FALSE)
    BY <2>1
  <2> HIDE DEF T
  <2> QED
    BY <1>1, <2>2, <2>3, <2>4
<1>3. CASE StartFile(p)
  <2>1. PICK f \in Forced : Begin(p, {f}, TRUE)
    BY <1>3 DEF StartFile
  <2>2. {f} \in SUBSET File /\ {f} \subseteq Forced
    BY OptionAssumption
  <2> QED
    BY <1>1, <2>1, <2>2
<1> QED
  BY <1>2, <1>3

\* LoneInv holds initially ...
LEMMA InitLone == Init => LoneInv
<1> SUFFICES ASSUME Init PROVE LoneInv
  OBVIOUS
<1>1. PendingInv
  BY DEF Init, PendingInv, QueueFiles, FilesOf
<1>2. ASSUME NEW p \in Proc
      PROVE  TargetInv(p) /\ BootInv(p)
  BY DEF Init, TargetInv, BootInv, QueueFiles, FilesOf, Handling, Busy, Kept, NoOutcome
<1> QED
  BY <1>1, <1>2 DEF LoneInv

\* ... and every step keeps it.
LEMMA NextLone == TypeOK /\ OrderInv /\ LoneInv /\ [Next]_vars => LoneInv'
<1> SUFFICES ASSUME TypeOK, OrderInv, LoneInv, Next \/ UNCHANGED vars, Alone
             PROVE  PendingInv' /\ \A p \in Proc : TargetInv(p)' /\ BootInv(p)'
  BY DEF LoneInv
<1>p. PICK p \in Proc : Proc = {p}
  BY AloneFact
<1>i. PendingInv /\ TargetInv(p) /\ BootInv(p)
  BY DEF LoneInv
<1>1. CASE UNCHANGED vars
  BY <1>1, <1>i, <1>p DEF vars, dbVars, runVars, mainVars, jobVars, histVars, PendingInv, TargetInv,
     BootInv, QueueFiles, Kept, Missing
<1>2. CASE StartPending(p) \/ StartFile(p)
  BY <1>2, <1>i, <1>p, BeginLone
<1>3. CASE RunStep(p)
  <2>1. Sorted(p) /\ TrackingTable \notin dels[p]
    BY <1>i DEF OrderInv, PendingInv
  <2> QED
    BY <1>3, <1>i, <1>p, <2>1, PendingStep, TargetStep, BootStep
<1>4. Next => StartPending(p) \/ StartFile(p) \/ RunStep(p)
  BY <1>p DEF Next, Step, RunStep
<1> QED
  BY <1>1, <1>2, <1>3, <1>4

\* "Re-runs only apply what's pending": a run alone on the database executes
\* no recorded file unless --file names it, after any crashes and lost answers
\* of the runs before it.
THEOREM PendingCorrect == Spec => []OnlyPending
<1>1. LoneInv => OnlyPending
  BY DEF LoneInv, Alone, PendingInv, OnlyPending
<1> QED
  BY <1>1, InitTypeOK, NextTypeOK, InitOrder, NextOrder, InitLone, NextLone, PTL DEF Spec

\* Alone on the database, a migration that creates the tracking table gets
\* recorded in it, and so does every file its run keeps after it.
THEOREM BootstrapCorrect == Spec => [](Cardinality(Proc) = 1 => Bootstraps)
<1>1. TypeOK /\ LoneInv => (Cardinality(Proc) = 1 => Bootstraps)
  <2> SUFFICES ASSUME LoneInv, Alone, NEW p \in Proc, NEW g \in targets[p], NEW f \in targets[p],
                      outcomes[p][g] = "applied", TrackingTable \in Created(g), g <= f,
                      outcomes[p][f] \in {"applied", "recorded"}
               PROVE  f \in recorded
    BY DEF Bootstraps, Alone
  <2> QED
    BY DEF LoneInv, BootInv, Kept
<1> QED
  BY <1>1, InitTypeOK, NextTypeOK, InitOrder, NextOrder, InitLone, NextLone, PTL DEF Spec
\* A run vouches for a file only when it takes it off todo, and a script runs
\* to its commit only as the worker's job.
LEMMA HistoryStep ==
  ASSUME TypeOK, NEW p \in Proc, Step(p)
  PROVE  \/ UNCHANGED <<execs, vouched>>
         \/ \E f \in todo[p] : vouched' = vouched \cup {f} /\ UNCHANGED <<execs, recorded>>
         \/ /\ wpc[p] = "exec" /\ execs' = [execs EXCEPT ![job[p].file] = @ + 1]
            /\ UNCHANGED <<vouched, recorded>>
<1> USE DEF dbVars, runVars, mainVars, jobVars, histVars
<1> DEFINE Effect ==
         \/ UNCHANGED <<execs, vouched>>
         \/ \E f \in todo[p] : vouched' = vouched \cup {f} /\ UNCHANGED <<execs, recorded>>
         \/ /\ wpc[p] = "exec" /\ execs' = [execs EXCEPT ![job[p].file] = @ + 1]
            /\ UNCHANGED <<vouched, recorded>>
<1>1. ASSUME NEW f \in File, NEW d, Put(p, f, d), First(todo[p], f)
      PROVE  Effect
  BY <1>1 DEF Put, First
<1>2. CASE Answer(p) \/ MainStep(p)
  BY <1>1, <1>2
     DEF Answer, AnswerYes, AnswerAlready, AnswerNo, AnswerQuit, MainStep, EndLoop, Finish,
         Enqueue, Review, TargetFound, TargetMissing
<1>3. ASSUME NEW f \in File, ServerCommit(p, f), UNCHANGED vouched
      PROVE  Effect
  BY <1>3 DEF ServerCommit, Executing
<1>4. CASE WorkerStep(p) \/ FaultStep(p)
  BY <1>3, <1>4
     DEF WorkerStep, TakePoison, Discard, TakeJob, NextItem, Deadlocked, ExecStep, ExecCreate,
         ExecDrop, ExecChange, ExecCommit, ExecRollback, Advance, Commit, Except,
         ExecError, DuplicateKey, Record, Verify, VerifyError, Report, FaultStep,
         ConnectionLost, Crash, CommitAnswerLost, RecordAnswerLost
<1>5. CASE StartPending(p) \/ StartFile(p)
  BY <1>5 DEF StartPending, StartFile, Begin
<1> QED
  BY <1>2, <1>4, <1>5 DEF Step

\* Every step of a lone process is a step of the ledger, or none.
LEMMA LedgerStep ==
  ASSUME TypeOK, OrderInv, JustifiedInv, LoneInv, Alone, Next
  PROVE  Ledger!Next \/ UNCHANGED <<execs, vouched, recorded>>
<1>p. PICK p \in Proc : Proc = {p} /\ Step(p)
  BY AloneFact DEF Next
<1>i. PendingInv /\ TargetInv(p)
  BY DEF LoneInv
<1>1. ASSUME NEW f \in targets[p], ~byFile[p] => f \notin recorded
      PROVE  f \in File /\ Ledger!Pending(f)
  <2>1. f \in File
    BY DEF TypeOK
  <2> QED
    BY <1>1, <1>i, <2>1 DEF TargetInv, Ledger!Pending
<1>2. ASSUME NEW f \in todo[p], vouched' = vouched \cup {f}, UNCHANGED <<execs, recorded>>
      PROVE  Ledger!Next
  <2>1. f \in targets[p] /\ (~byFile[p] => f \notin recorded)
    BY <1>i DEF TargetInv, PendingInv
  <2> QED
    BY <1>1, <1>2, <2>1 DEF Ledger!Next, Ledger!Vouch
<1>3. CASE /\ wpc[p] = "exec" /\ execs' = [execs EXCEPT ![job[p].file] = @ + 1]
           /\ UNCHANGED <<vouched, recorded>>
  <2>1. job[p].file \in targets[p] /\ (~byFile[p] => job[p].file \notin recorded)
    BY <1>i, <1>3 DEF TargetInv, PendingInv, Handling, Busy
  <2> QED
    BY <1>1, <1>3, <2>1 DEF Ledger!Next, Ledger!Execute
<1>4. CASE UNCHANGED <<execs, vouched>>
  <2>1. CASE recorded' = recorded
    BY <1>4, <2>1
  <2>2. CASE wpc[p] = "record" /\ recorded' = recorded \cup {job[p].file}
    <3>1. job[p].file \in File /\ (execs[job[p].file] > 0 \/ job[p].file \in vouched)
      BY <2>2 DEF OrderInv, Sorted, Handling, Busy, JustifiedInv, Carried
    <3> QED
      BY <1>4, <2>2, <3>1 DEF Ledger!Next, Ledger!Record
  <2> QED
    BY <1>p, <2>1, <2>2, OnlyRecords
<1> QED
  BY <1>p, <1>2, <1>3, <1>4, HistoryStep

\* A lone process implements the ledger: a file is recorded only after its
\* script ran or somebody vouched for it, is never taken back, and does not run
\* again unless --file names it; crashes, lost answers and re-runs included.
THEOREM LedgerKept == Cardinality(Proc) = 1 => (Spec => KeepsLedger)
<1> SUFFICES ASSUME Alone
             PROVE  Spec => KeepsLedger
  BY DEF Alone
<1>1. Init => Ledger!Init
  BY DEF Init, Ledger!Init
<1>2. TypeOK /\ OrderInv /\ JustifiedInv /\ LoneInv /\ [Next]_vars => [Ledger!Next]_(Ledger!vars)
  <2>1. CASE UNCHANGED vars
    BY <2>1 DEF vars, dbVars, histVars, Ledger!vars
  <2> QED
    BY <2>1, LedgerStep DEF Ledger!vars
<1> QED
  BY <1>1, <1>2, InitTypeOK, NextTypeOK, InitOrder, NextOrder, InitJustified, NextJustified,
     InitLone, NextLone, PTL DEF Spec, KeepsLedger, Ledger!Spec
=============================================================================
