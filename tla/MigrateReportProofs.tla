------------------------ MODULE MigrateReportProofs ------------------------
(***************************************************************************)
(* Proofs about what a run of Migrate reports in the end: the outcomes it  *)
(* prints and its exit status, for any number of processes and faults.     *)
(***************************************************************************)
EXTENDS MigrateProofs

\* The worker is gone only after the poison, and the poison is the last item;
\* without a failure or a "quit" every file has been looked at by then.
EndInv(p) ==
  /\ wpc[p] = "off" /\ pc[p] # "idle" => pc[p] \in {"join", "done"} /\ QueueFiles(p) = {}
  /\ pc[p] \in {"join", "done"} /\ ~stop[p] /\ ~quit[p] => todo[p] = {}
  /\ pc[p] = "done" /\ stop[p] => \A f \in targets[p] : outcomes[p][f] # "none"

\* The files a run has executed are the ones reported so, or the worker's job
\* between the commit and the report; none of them is still to come.
RanInv(p) ==
  pc[p] # "idle" =>
    /\ (todo[p] \cup QueueFiles(p)) \cap ran[p] = {}
    /\ \A f \in targets[p] : outcomes[p][f] = "applied" => f \in ran[p]
    /\ \A f \in ran[p] : \/ outcomes[p][f] \in {"applied", "failed"}
                         \/ wpc[p] \in {"record", "verify", "report"} /\ job[p].file = f
    /\ wpc[p] = "exec" => job[p].file \notin ran[p]
    /\ wpc[p] \in {"record", "verify"} => (job[p].file \in ran[p] <=> job[p].done = "run")
    /\ wpc[p] = "report" => /\ result[p] = "applied" => job[p].file \in ran[p]
                            /\ job[p].file \in ran[p] => result[p] \in {"applied", "failed"}

ReportInv == \A p \in Proc : EndInv(p) /\ RanInv(p)

\* What ReportInv is about of one process, besides Local.
RunLocal(q) == <<quit[q], ran[q]>>

\* Another process's step leaves them alone.
LEMMA OtherRunLocal ==
  ASSUME TypeOK, NEW p \in Proc, NEW q \in Proc \ {p}, Step(p)
  PROVE  UNCHANGED RunLocal(q)
<1> USE DEF dbVars, runVars, mainVars, jobVars, histVars, RunLocal
<1>1. ASSUME NEW T, NEW b, Begin(p, T, b)
      PROVE  UNCHANGED RunLocal(q)
  BY <1>1 DEF Begin, TypeOK
<1>2. CASE MainStep(p) \/ Answer(p)
  BY <1>2 DEF Answer, AnswerYes, AnswerNo, AnswerAlready, AnswerQuit, MainStep, EndLoop,
     Finish, Enqueue, Review, TargetFound, TargetMissing, Put, TypeOK
<1>3. CASE WorkerStep(p) \/ FaultStep(p)
  <2>1. CASE TakePoison(p) \/ Discard(p) \/ TakeJob(p) \/ Crash(p)
    BY <2>1 DEF TakePoison, Discard, TakeJob, NextItem, Crash
  <2>2. ASSUME NEW f, Advance(p) \/ Record(p, f) \/ Verify(p, f) \/ Report(p, f)
        PROVE  UNCHANGED RunLocal(q)
    BY <2>2 DEF Advance, Record, Verify, Report
  <2>3. ASSUME NEW f \in File, ServerCommit(p, f), UNCHANGED quit
        PROVE  UNCHANGED RunLocal(q)
    BY <2>3 DEF ServerCommit, TypeOK
  <2>4. CASE Except(p) /\ UNCHANGED ran
    BY <2>4 DEF Except
  <2> QED
    BY <1>3, <2>1, <2>2, <2>3, <2>4
       DEF WorkerStep, FaultStep, ExecStep, ExecCreate, ExecDrop, ExecChange, ExecCommit,
           ExecRollback, ExecError, DuplicateKey, Deadlocked, VerifyError, ConnectionLost,
           Commit, CommitAnswerLost, RecordAnswerLost, Except
<1> QED
  BY <1>1, <1>2, <1>3 DEF Step, StartPending, StartFile

\* A run starts with nothing executed and nothing reported.
LEMMA BeginReport ==
  ASSUME TypeOK, NEW p \in Proc, NEW T \in SUBSET File, NEW b, Begin(p, T, b)
  PROVE  EndInv(p)' /\ RanInv(p)'
<1>1. /\ pc'[p] = "loop" /\ wpc'[p] = "get" /\ work_q'[p] = <<>> /\ ran'[p] = {}
      /\ outcomes'[p] = NoOutcome /\ targets'[p] = T
  BY DEF Begin, TypeOK
<1> QED
  BY <1>1 DEF EndInv, RanInv, QueueFiles, FilesOf, NoOutcome

\* The main thread: what it queues or skips has not been executed.
LEMMA MainReport ==
  ASSUME TypeOK, NEW p \in Proc, Sorted(p), Accounted(p), EndInv(p), RanInv(p),
         MainStep(p) \/ Answer(p)
  PROVE  EndInv(p)' /\ RanInv(p)'
<1> USE DEF dbVars, runVars, jobVars, histVars
<1>q. /\ work_q[p] \in Seq(Item) /\ todo[p] \subseteq File /\ ran[p] \subseteq File
      /\ outcomes[p] \in [File -> Outcome] /\ targets[p] \subseteq File
  BY DEF TypeOK
<1>1. CASE EndLoop(p) \/ AnswerQuit(p)
  <2>1. /\ pc[p] \in {"loop", "prompt"} /\ pc'[p] = "join"
        /\ work_q'[p] = Append(work_q[p], Poison)
        /\ UNCHANGED <<todo[p], ran[p], wpc[p], job[p], stop[p], result[p], outcomes[p],
                       targets[p]>>
        /\ quit'[p] \/ stop'[p] \/ todo'[p] = {}
    BY <1>1 DEF EndLoop, AnswerQuit, TypeOK
  <2>2. QueueFiles(p)' = QueueFiles(p) \cup {EndFile}
    BY <1>q, <2>1, ItemFacts, AppendFiles DEF QueueFiles
  <2>3. wpc[p] # "off"
    BY <2>1 DEF EndInv
  <2>4. EndInv(p)'
    BY <2>1, <2>3 DEF EndInv
  <2>5. RanInv(p)'
    BY <1>q, <2>1, <2>2, ItemFacts DEF RanInv
  <2> QED
    BY <2>4, <2>5
<1>2. CASE Finish(p)
  <2>1. /\ pc[p] = "join" /\ pc'[p] = "done" /\ wpc[p] = "off"
        /\ UNCHANGED <<todo[p], ran[p], quit[p], work_q[p], wpc[p], job[p], stop[p], result[p],
                       targets[p]>>
        /\ outcomes'[p] = [f \in File |-> IF stop[p] /\ f \in targets[p] /\ outcomes[p][f] = "none"
                                          THEN "not run" ELSE outcomes[p][f]]
    BY <1>2 DEF Finish, TypeOK
  <2>2. \A f \in File : \/ outcomes'[p][f] = outcomes[p][f]
                        \/ outcomes[p][f] = "none" /\ outcomes'[p][f] = "not run"
    BY <2>1
  <2>3. ASSUME stop[p], NEW f \in targets[p]
        PROVE  outcomes'[p][f] # "none"
    <3>1. f \in File
      BY <1>q
    <3>2. outcomes'[p][f] = IF outcomes[p][f] = "none" THEN "not run" ELSE outcomes[p][f]
      BY <2>1, <2>3, <3>1
    <3> QED
      BY <3>2
  <2>4. EndInv(p)'
    BY <2>1, <2>3 DEF EndInv, QueueFiles
  <2>5. \A f \in ran[p] : outcomes[p][f] \in {"applied", "failed"}
    BY <2>1 DEF RanInv
  <2>6. RanInv(p)'
    BY <1>q, <2>1, <2>2, <2>5 DEF RanInv, QueueFiles
  <2> QED
    BY <2>4, <2>6
<1>3. ASSUME NEW f \in File, NEW d \in Done, Put(p, f, d), First(todo[p], f), pc[p] \in Active
      PROVE  EndInv(p)' /\ RanInv(p)'
  <2>1. /\ pc'[p] = "loop" /\ work_q'[p] = Append(work_q[p], [file |-> f, done |-> d])
        /\ todo'[p] = todo[p] \ {f}
        /\ UNCHANGED <<ran[p], wpc[p], job[p], stop[p], result[p], outcomes[p], targets[p]>>
    BY <1>3 DEF Put, TypeOK
  <2>2. QueueFiles(p)' = QueueFiles(p) \cup {f}
    BY <1>q, <2>1, ItemFacts, AppendFiles DEF QueueFiles
  <2>3. wpc[p] # "off" /\ pc[p] # "idle" /\ f \in todo[p]
    BY <1>3 DEF EndInv, Active, First
  <2>4. EndInv(p)'
    BY <2>1, <2>3 DEF EndInv
  <2>5. RanInv(p)'
    BY <2>1, <2>2, <2>3 DEF RanInv
  <2> QED
    BY <2>4, <2>5
<1>4. ASSUME pc[p] \in Active, pc'[p] \in Active,
             UNCHANGED <<todo[p], ran[p], quit[p], work_q[p], wpc[p], job[p], stop[p], result[p],
                         outcomes[p], targets[p]>>
      PROVE  EndInv(p)' /\ RanInv(p)'
  BY <1>4 DEF EndInv, RanInv, Active, QueueFiles
<1>5. ASSUME NEW f \in File, Review(p, f) \/ TargetMissing(p, f)
      PROVE  EndInv(p)' /\ RanInv(p)'
  <2>1. /\ pc[p] \in Active /\ pc'[p] \in Active
        /\ UNCHANGED <<todo[p], ran[p], quit[p], work_q[p], wpc[p], job[p], stop[p], result[p],
                       outcomes[p], targets[p]>>
    BY <1>5 DEF Review, TargetMissing, TypeOK, Active
  <2> QED
    BY <1>4, <2>1
<1>6. ASSUME NEW f \in File, TargetFound(p, f)
      PROVE  EndInv(p)' /\ RanInv(p)'
  <2>1. CASE Put(p, f, "auto")
    BY <1>3, <1>6, <2>1 DEF TargetFound, Active, Done
  <2>2. CASE UNCHANGED <<dbVars, runVars, pc, todo, quit, outcomes, work_q, stop, jobVars, histVars>>
    BY <1>4, <1>6, <2>2 DEF TargetFound, Active
  <2> QED
    BY <1>6, <2>1, <2>2 DEF TargetFound
<1>7. ASSUME NEW f \in File, AnswerNo(p, f)
      PROVE  EndInv(p)' /\ RanInv(p)'
  <2>1. /\ pc[p] \in Active /\ pc'[p] = "loop" /\ todo'[p] = todo[p] \ {f} /\ f \in todo[p]
        /\ outcomes'[p] = [outcomes[p] EXCEPT ![f] = "skipped"]
        /\ UNCHANGED <<ran[p], work_q[p], wpc[p], job[p], stop[p], result[p], targets[p]>>
    BY <1>7 DEF AnswerNo, TypeOK, Active, First
  <2>2. f \notin ran[p] /\ wpc[p] # "off" /\ pc[p] # "idle"
    BY <2>1 DEF RanInv, EndInv, Active
  <2>3. EndInv(p)'
    BY <2>1, <2>2 DEF EndInv
  <2>4. RanInv(p)'
    BY <1>q, <2>1, <2>2 DEF RanInv, QueueFiles
  <2> QED
    BY <2>3, <2>4
<1> QED
  BY <1>1, <1>2, <1>3, <1>5, <1>6, <1>7
     DEF MainStep, Answer, Enqueue, AnswerYes, AnswerAlready, Active, Done
\* The worker: a script's commit puts its file among the executed ones, and
\* what is reported of it then is "applied" or "failed".
LEMMA WorkerReport ==
  ASSUME TypeOK, NEW p \in Proc, Sorted(p), Accounted(p), Carried(p), EndInv(p), RanInv(p),
         WorkerStep(p) \/ FaultStep(p)
  PROVE  EndInv(p)' /\ RanInv(p)'
<1> USE FileOrder DEF dbVars, runVars, mainVars, jobVars, histVars
<1>q. /\ work_q[p] \in Seq(Item) /\ todo[p] \subseteq File /\ ran[p] \subseteq File
      /\ outcomes[p] \in [File -> Outcome] /\ targets[p] \subseteq File
  BY DEF TypeOK
<1>r. ASSUME NextItem(p)
      PROVE  /\ wpc[p] = "get" /\ work_q'[p] = Tail(work_q[p]) /\ Head(work_q[p]) \in Item
             /\ UNCHANGED <<pc[p], quit[p], todo[p], stop[p], outcomes[p], targets[p]>>
             /\ QueueFiles(p) = QueueFiles(p)' \cup {Head(work_q[p]).file}
             /\ \A f \in QueueFiles(p)' : Head(work_q[p]).file < f
             /\ QueueFiles(p) \subseteq File \cup {EndFile}
  <2>1. QueueFiles(p) \subseteq File \cup {EndFile}
    BY <1>q, ItemFile, ItemFacts DEF QueueFiles, FilesOf
  <2> QED
    BY <1>r, <1>q, <2>1, TailFiles DEF NextItem, TypeOK, QueueFiles, Sorted
<1>a. wpc[p] # "off" => pc[p] \notin {"idle", "done"}
  BY DEF Accounted
<1>1. CASE TakePoison(p)
  <2>1. /\ wpc'[p] = "off" /\ NextItem(p) /\ Head(work_q[p]).file = EndFile
        /\ UNCHANGED <<job[p], result[p], ran[p]>>
    BY <1>1, ItemFacts DEF TakePoison, TypeOK
  <2>2. EndFile \in QueueFiles(p)
    BY <1>r, <2>1
  <2>3. pc[p] \in {"join", "done"}
    BY <1>r, <1>a, <2>1, <2>2 DEF Sorted, Active, TypeOK
  <2>4. QueueFiles(p)' = {}
    <3> SUFFICES ASSUME NEW f \in QueueFiles(p)' PROVE FALSE
      OBVIOUS
    <3>1. f \in File \cup {EndFile} /\ EndFile < f
      BY <1>r, <2>1
    <3> QED
      BY <3>1, ItemFacts
  <2>5. EndInv(p)'
    BY <1>r, <2>1, <2>3, <2>4 DEF EndInv
  <2>6. RanInv(p)'
    BY <1>r, <2>1, <2>4 DEF RanInv
  <2> QED
    BY <2>5, <2>6
<1>2. CASE Discard(p)
  <2>1. NextItem(p) /\ UNCHANGED <<wpc[p], job[p], result[p], ran[p]>>
    BY <1>2 DEF Discard
  <2>2. EndInv(p)'
    BY <1>r, <1>a, <2>1 DEF EndInv
  <2>3. RanInv(p)'
    BY <1>r, <2>1 DEF RanInv
  <2> QED
    BY <2>2, <2>3
<1>3. CASE TakeJob(p)
  <2>1. /\ wpc'[p] = (IF job'[p].done = "run" THEN "exec" ELSE "record") /\ NextItem(p)
        /\ job'[p] = Head(work_q[p]) /\ UNCHANGED <<result[p], ran[p]>>
    BY <1>3 DEF TakeJob, TypeOK
  <2>2. job'[p].file \in QueueFiles(p) /\ pc[p] # "idle"
    BY <1>r, <1>a, <2>1
  <2>3. job'[p].file \notin ran[p]
    BY <2>2 DEF RanInv
  <2>4. EndInv(p)'
    BY <1>r, <1>a, <2>1 DEF EndInv
  <2>5. RanInv(p)'
    BY <1>r, <2>1, <2>2, <2>3 DEF RanInv
  <2> QED
    BY <2>4, <2>5
<1>4. ASSUME Except(p), wpc[p] \in Busy, ran'[p] = ran[p] \/ ran'[p] = ran[p] \cup {job[p].file}
      PROVE  EndInv(p)' /\ RanInv(p)'
  <2>1. /\ wpc'[p] = "report" /\ result'[p] = "failed" /\ stop'[p]
        /\ UNCHANGED <<pc[p], quit[p], todo[p], work_q[p], job[p], outcomes[p], targets[p]>>
    BY <1>4 DEF Except, TypeOK
  <2>2. pc[p] \notin {"idle", "done"} /\ \A f \in QueueFiles(p) \cup todo[p] : job[p].file < f
    BY <1>4, <1>a DEF Sorted, Busy, Handling
  <2>3. job[p].file \in File
    BY <1>4 DEF Sorted, Busy, Handling
  <2>4. EndInv(p)'
    BY <2>1, <2>2 DEF EndInv
  <2>5. job[p].file \notin QueueFiles(p) \cup todo[p]
    BY <2>2, <2>3
  <2>6. RanInv(p)'
    BY <1>4, <2>1, <2>2, <2>5 DEF RanInv, QueueFiles, Busy
  <2> QED
    BY <2>4, <2>6
<1>5. ASSUME Advance(p)
      PROVE  EndInv(p)' /\ RanInv(p)'
  BY <1>5 DEF Advance, EndInv, RanInv, QueueFiles
<1>6. ASSUME NEW f \in File, ServerCommit(p, f)
      PROVE  wpc[p] = "exec" /\ job[p].file = f /\ ran'[p] = ran[p] \cup {f}
  BY <1>6 DEF ServerCommit, Executing, TypeOK
<1>7. ASSUME NEW f \in File, Commit(p, f)
      PROVE  EndInv(p)' /\ RanInv(p)'
  <2>1. /\ wpc[p] = "exec" /\ job[p].file = f /\ ran'[p] = ran[p] \cup {f} /\ wpc'[p] = "record"
        /\ UNCHANGED <<pc[p], quit[p], todo[p], work_q[p], job[p], outcomes[p], targets[p], stop[p],
                       result[p]>>
    BY <1>6, <1>7 DEF Commit, TypeOK
  <2>2. f \notin QueueFiles(p) \cup todo[p]
    BY <1>7, <2>1 DEF Sorted, Handling, Busy
  <2>3. job[p].done = "run"
    BY <2>1 DEF Carried
  <2>4. EndInv(p)'
    BY <2>1, <1>a DEF EndInv
  <2>5. RanInv(p)'
    BY <2>1, <2>2, <2>3 DEF RanInv, QueueFiles
  <2> QED
    BY <2>4, <2>5
<1>8. ASSUME NEW f \in File, Record(p, f) \/ Verify(p, f)
      PROVE  EndInv(p)' /\ RanInv(p)'
  <2>1. /\ \/ wpc[p] = "record" /\ job[p].done = "run" /\ wpc'[p] = "verify" /\ result'[p] = result[p]
           \/ wpc[p] = "record" /\ job[p].done # "run" /\ wpc'[p] = "report" /\ result'[p] = "recorded"
           \/ wpc[p] = "verify" /\ wpc'[p] = "report" /\ result'[p] = "applied"
        /\ UNCHANGED <<pc[p], quit[p], todo[p], work_q[p], job[p], outcomes[p], targets[p], stop[p],
                       ran[p]>>
    BY <1>8 DEF Record, Verify, TypeOK
  <2>2. wpc[p] = "verify" => job[p].done = "run"
    BY DEF Carried
  <2>3. EndInv(p)'
    BY <2>1, <1>a DEF EndInv
  <2>4. RanInv(p)'
    BY <2>1, <2>2 DEF RanInv, QueueFiles
  <2> QED
    BY <2>3, <2>4
<1>9. ASSUME NEW f \in File, Report(p, f)
      PROVE  EndInv(p)' /\ RanInv(p)'
  <2>1. /\ wpc[p] = "report" /\ job[p].file = f /\ wpc'[p] = "get"
        /\ outcomes'[p] = [outcomes[p] EXCEPT ![f] = result[p]]
        /\ UNCHANGED <<pc[p], quit[p], todo[p], work_q[p], job[p], targets[p], stop[p], result[p],
                       ran[p]>>
    BY <1>9 DEF Report, TypeOK
  <2>2. EndInv(p)'
    BY <2>1, <1>a DEF EndInv
  <2>3. RanInv(p)'
    BY <1>q, <2>1 DEF RanInv, QueueFiles
  <2> QED
    BY <2>2, <2>3
<1>10. CASE Crash(p)
  <2>1. pc'[p] = "idle"
    BY <1>10 DEF Crash, TypeOK
  <2> QED
    BY <2>1 DEF EndInv, RanInv
<1>11. ASSUME Deadlocked(p)
       PROVE  wpc[p] \in Busy
  BY <1>11 DEF Deadlocked, WaitsFor, AtStatement, Executing, Busy
<1> QED
  BY <1>1, <1>2, <1>3, <1>4, <1>5, <1>6, <1>7, <1>8, <1>9, <1>10, <1>11
     DEF WorkerStep, FaultStep, ExecStep, ExecCreate, ExecDrop, ExecChange, ExecCommit,
         ExecRollback, ExecError, DuplicateKey, Deadlocked, VerifyError, ConnectionLost,
         CommitAnswerLost, RecordAnswerLost, AtStatement, Executing, Busy

\* ReportInv holds initially ...
LEMMA InitReport == Init => ReportInv
BY DEF Init, ReportInv, EndInv, RanInv

\* ... and every step keeps it, another process's included.
LEMMA NextReport == TypeOK /\ OrderInv /\ JustifiedInv /\ ReportInv /\ [Next]_vars => ReportInv'
<1>1. ASSUME TypeOK, OrderInv, JustifiedInv, ReportInv, NEW p \in Proc, Step(p), NEW q \in Proc
      PROVE  EndInv(q)' /\ RanInv(q)'
  <2>1. CASE q # p
    <3>1. UNCHANGED <<Local(q), RunLocal(q)>>
      BY <1>1, <2>1, OtherLocal, OtherRunLocal
    <3>2. EndInv(q) /\ RanInv(q)
      BY <1>1 DEF ReportInv
    <3>3. EndInv(q)'
      BY <3>1, <3>2 DEF Local, RunLocal, EndInv, QueueFiles
    <3>4. RanInv(q)'
      BY <3>1, <3>2 DEF Local, RunLocal, RanInv, QueueFiles
    <3> QED
      BY <3>3, <3>4
  <2>2. CASE q = p
    <3> USE DEF ReportInv, OrderInv, JustifiedInv
    <3>1. CASE MainStep(p) \/ Answer(p)
      BY <1>1, <2>2, <3>1, MainReport
    <3>2. CASE WorkerStep(p) \/ FaultStep(p)
      BY <1>1, <2>2, <3>2, WorkerReport
    <3>3. CASE StartPending(p)
      <4>1. PICK S \in Selections :
              Begin(p, IF TrackingTable \in objs THEN S \ recorded ELSE S, FALSE)
        BY <3>3 DEF StartPending
      <4>2. (IF TrackingTable \in objs THEN S \ recorded ELSE S) \in SUBSET File
        BY OptionAssumption
      <4> QED
        BY <1>1, <2>2, <4>1, <4>2, BeginReport
    <3>4. CASE StartFile(p)
      <4>1. PICK f \in Forced : Begin(p, {f}, TRUE)
        BY <3>4 DEF StartFile
      <4>2. {f} \in SUBSET File
        BY OptionAssumption
      <4> QED
        BY <1>1, <2>2, <4>1, <4>2, BeginReport
    <3> QED
      BY <1>1, <3>1, <3>2, <3>3, <3>4 DEF Step
  <2> QED
    BY <2>1, <2>2
<1>2. ASSUME ReportInv, UNCHANGED vars
      PROVE  ReportInv'
  BY <1>2 DEF vars, dbVars, runVars, mainVars, jobVars, histVars, ReportInv, EndInv, RanInv,
     QueueFiles
<1> QED
  BY <1>1, <1>2 DEF Next, ReportInv

\* The table a run prints tells the truth: an "applied" file was executed to
\* its commit by this run, and a file it executed is never reported as
\* skipped, recorded, not run, or not at all; crashes of other runs, failures,
\* lost answers and prompts included.
THEOREM ReportCorrect == Spec => []ReportIsTrue
<1>1. TypeOK /\ OrderInv /\ ReportInv => ReportIsTrue
  <2> SUFFICES ASSUME TypeOK, OrderInv, ReportInv, NEW p \in Proc, pc[p] = "done",
                      NEW f \in targets[p]
               PROVE  /\ outcomes[p][f] = "applied" => f \in ran[p]
                      /\ f \in ran[p] => outcomes[p][f] \in {"applied", "failed"}
    BY DEF ReportIsTrue
  <2>1. wpc[p] = "off"
    BY DEF OrderInv, Accounted
  <2> QED
    BY <2>1 DEF ReportInv, RanInv
<1> QED
  BY <1>1, InitTypeOK, NextTypeOK, InitOrder, NextOrder, InitJustified, NextJustified,
     InitReport, NextReport, PTL DEF Spec

\* A run that exits with status 0 has applied, recorded or skipped every
\* target, and one the user did not quit reports every target: nothing is lost
\* between the loop, the queue, the stop event and the join.
THEOREM ExitCorrect == Spec => []ExitIsTrue
<1>1. TypeOK /\ OrderInv /\ ReportInv => ExitIsTrue
  <2> SUFFICES ASSUME TypeOK, OrderInv, ReportInv, NEW p \in Proc, pc[p] = "done",
                      NEW f \in targets[p]
               PROVE  /\ ~quit[p] /\ ~stop[p] => outcomes[p][f] \in Settled
                      /\ ~quit[p] => outcomes[p][f] # "none"
    BY DEF ExitIsTrue, ExitsZero
  <2>1. wpc[p] = "off"
    BY DEF OrderInv, Accounted
  <2>2. QueueFiles(p) = {} /\ (~stop[p] /\ ~quit[p] => todo[p] = {})
    BY <2>1 DEF ReportInv, EndInv
  <2>3. ~quit[p] /\ ~stop[p] => outcomes[p][f] \in Settled
    BY <2>1, <2>2 DEF OrderInv, Accounted, Handling, Busy
  <2>4. stop[p] => outcomes[p][f] # "none"
    BY DEF ReportInv, EndInv
  <2> QED
    BY <2>3, <2>4 DEF Settled
<1> QED
  BY <1>1, InitTypeOK, NextTypeOK, InitOrder, NextOrder, InitJustified, NextJustified,
     InitReport, NextReport, PTL DEF Spec
=============================================================================
