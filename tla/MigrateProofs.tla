--------------------------- MODULE MigrateProofs ---------------------------
(***************************************************************************)
(* Proofs about Migrate, for any number of processes, files and faults.    *)
(***************************************************************************)
EXTENDS Migrate, SequenceTheorems, TLAPS

\* Poison and the files' items are items; the queue operations keep their type.
LEMMA ItemFacts ==
  /\ EndFile \in Nat \ {0} /\ EndFile \notin File
  /\ Poison \in Item /\ Poison.file = EndFile
  /\ \A f \in File, d \in Done : [file |-> f, done |-> d] \in Item
  /\ NoOutcome \in [File -> Outcome]
BY FileAssumption DEF EndFile, File, Poison, Item, Done, NoOutcome, Outcome, Settled

\* Appending an item and taking the first one off keep a queue of items.
LEMMA QueueFacts ==
  ASSUME NEW q \in Seq(Item)
  PROVE  /\ \A x \in Item : Append(q, x) \in Seq(Item)
         /\ q # <<>> => Head(q) \in Item /\ Tail(q) \in Seq(Item)
OBVIOUS

\* The type invariant holds initially.
LEMMA InitTypeOK == Init => TypeOK
<1> SUFFICES ASSUME Init PROVE TypeOK
  OBVIOUS
<1>1. objs \subseteq Object
  BY OptionAssumption DEF Init
<1>2. work_q \in [Proc -> Seq(Item)]
  BY DEF Init
<1>3. job \in [Proc -> Item] /\ outcomes \in [Proc -> [File -> Outcome]]
  BY ItemFacts DEF Init
<1>4. result \in [Proc -> Outcome]
  BY DEF Init, Outcome
<1> QED
  BY <1>1, <1>2, <1>3, <1>4 DEF Init, TypeOK

\* Starting a run keeps the types.
LEMMA BeginTypeOK ==
  ASSUME TypeOK, NEW p \in Proc, NEW T \in SUBSET File, NEW b \in BOOLEAN, Begin(p, T, b)
  PROVE  TypeOK'
BY ItemFacts, OptionAssumption DEF TypeOK, Begin, dbVars

\* The main thread's steps keep the types.
LEMMA MainTypeOK ==
  ASSUME TypeOK, NEW p \in Proc, MainStep(p) \/ Answer(p)
  PROVE  TypeOK'
<1> USE DEF dbVars, runVars, jobVars, histVars
<1>1. CASE EndLoop(p)
  BY <1>1, ItemFacts, QueueFacts DEF TypeOK, EndLoop
<1>2. CASE Finish(p)
  <2> DEFINE report == [f \in File |-> IF stop[p] /\ f \in targets[p] /\ outcomes[p][f] = "none"
                                       THEN "not run" ELSE outcomes[p][f]]
  <2>1. report \in [File -> Outcome]
    <3>1. outcomes[p] \in [File -> Outcome] /\ "not run" \in Outcome
      BY DEF TypeOK, Outcome
    <3> QED
      BY <3>1
  <2>2. outcomes' = [outcomes EXCEPT ![p] = report]
    BY <1>2 DEF Finish
  <2>3. outcomes' \in [Proc -> [File -> Outcome]]
    BY <2>1, <2>2 DEF TypeOK
  <2> QED
    BY <1>2, <2>3 DEF TypeOK, Finish
<1>3. ASSUME NEW f \in File, NEW d \in {"run", "auto", "user"}, Put(p, f, d), UNCHANGED chk
      PROVE  TypeOK'
  BY <1>3, ItemFacts, QueueFacts DEF TypeOK, Put, Done
<1>4. ASSUME NEW f \in File, Review(p, f)
      PROVE  TypeOK'
  BY <1>4 DEF TypeOK, Review
<1>5. ASSUME NEW f \in File, TargetFound(p, f)
      PROVE  TypeOK'
  <2>1. CASE chk[p] < Len(Script[f])
    <3>1. chk' = [chk EXCEPT ![p] = @ + 1] /\ chk' \in [Proc -> Nat \ {0}]
      BY <1>5, <2>1 DEF TypeOK, TargetFound
    <3>2. UNCHANGED <<dbVars, runVars, pc, todo, quit, outcomes, work_q, stop, jobVars, histVars>>
      BY <1>5, <2>1 DEF TargetFound
    <3> QED
      BY <3>1, <3>2 DEF TypeOK
  <2>2. CASE ~(chk[p] < Len(Script[f]))
    BY <1>3, <1>5, <2>2 DEF TargetFound
  <2> QED
    BY <2>1, <2>2
<1>6. ASSUME NEW f \in File, TargetMissing(p, f)
      PROVE  TypeOK'
  BY <1>6 DEF TypeOK, TargetMissing
<1>7. ASSUME NEW f \in File, AnswerNo(p, f)
      PROVE  TypeOK'
  BY <1>7 DEF TypeOK, AnswerNo, Outcome, Settled
<1>8. CASE AnswerQuit(p)
  BY <1>8, ItemFacts, QueueFacts DEF TypeOK, AnswerQuit
<1> QED
  BY <1>1, <1>2, <1>3, <1>4, <1>5, <1>6, <1>7, <1>8
     DEF MainStep, Answer, Enqueue, AnswerYes, AnswerAlready

\* The worker's steps keep the types.
LEMMA WorkerTypeOK ==
  ASSUME TypeOK, NEW p \in Proc, WorkerStep(p) \/ FaultStep(p)
  PROVE  TypeOK'
<1> USE DEF dbVars, runVars, mainVars, jobVars, histVars
<1>a. ASSUME NEW f \in File
      PROVE  \A i \in 1..Len(Script[f]) : Script[f][i] \in Stmt
  BY ScriptAssumption
<1>b. Visible(p) \in SUBSET Object
  BY DEF Visible, TypeOK
<1>1. CASE TakePoison(p)
  BY QueueFacts, <1>1 DEF TypeOK, TakePoison, NextItem
<1>2. CASE Discard(p)
  BY QueueFacts, <1>2 DEF TypeOK, Discard, NextItem
<1>3. CASE TakeJob(p)
  BY QueueFacts, <1>3 DEF TypeOK, TakeJob, NextItem
<1>c. ASSUME EndTransaction(p)
      PROVE  adds' \in [Proc -> SUBSET Object] /\ dels' \in [Proc -> SUBSET Object]
  BY <1>c DEF TypeOK, EndTransaction
<1>d. ASSUME Except(p)
      PROVE  /\ stop' \in [Proc -> BOOLEAN] /\ result' \in [Proc -> Outcome]
             /\ wpc' \in [Proc -> {"off", "get", "exec", "record", "verify", "report"}]
             /\ UNCHANGED <<runVars, mainVars, outcomes, work_q, job, at, vouched, runs>>
  BY <1>d DEF TypeOK, Except, Outcome
<1>e. faults' = faults \/ Fault => faults' \in Nat
  BY DEF TypeOK, Fault
<1>f. ASSUME Advance(p)
      PROVE  /\ at' \in [Proc -> Nat \ {0}]
             /\ UNCHANGED <<runVars, mainVars, outcomes, work_q, stop, wpc, job, result,
                           histVars>>
  BY <1>f DEF TypeOK, Advance
<1>4. ASSUME EndTransaction(p), Except(p),
             UNCHANGED <<dbVars, execs, ran>>, faults' = faults \/ Fault
      PROVE  TypeOK'
  BY <1>4, <1>c, <1>d, <1>e DEF TypeOK
<1>5. ASSUME NEW f \in File, ExecCreate(p, f)
      PROVE  TypeOK'
  <2>1. Script[f][at[p]].obj \in Object
    BY <1>a, <1>5 DEF ExecCreate, Runs, AtStatement, TypeOK, Stmt
  <2> QED
    BY <1>5, <2>1 DEF TypeOK, ExecCreate, Current, Advance
<1>6. ASSUME NEW f \in File, ExecDrop(p, f)
      PROVE  TypeOK'
  BY <1>6 DEF TypeOK, ExecDrop, Advance
<1>7. ASSUME NEW f \in File, ExecChange(p, f)
      PROVE  TypeOK'
  BY <1>7 DEF TypeOK, ExecChange, Advance
<1>8. ASSUME NEW f \in File, ExecCommit(p, f) \/ ExecRollback(p, f)
      PROVE  TypeOK'
  <2>1. objs' \subseteq Object /\ recorded' = recorded
    BY <1>b, <1>8 DEF TypeOK, ExecCommit, ExecRollback
  <2>2. EndTransaction(p) /\ Advance(p)
    BY <1>8 DEF ExecCommit, ExecRollback
  <2> QED
    BY <2>1, <2>2, <1>c, <1>f DEF TypeOK
<1>9. ASSUME NEW f \in File, ServerCommit(p, f)
      PROVE  /\ objs' \subseteq Object /\ recorded' \subseteq File
             /\ adds' \in [Proc -> SUBSET Object] /\ dels' \in [Proc -> SUBSET Object]
             /\ execs' \in [File -> Nat] /\ ran' \in [Proc -> SUBSET File]
  BY <1>b, <1>9 DEF TypeOK, ServerCommit, EndTransaction
<1>10. ASSUME NEW f \in File, Commit(p, f)
       PROVE  TypeOK'
  BY <1>9, <1>10 DEF TypeOK, Commit
<1>11. ASSUME NEW f \in File, Record(p, f)
       PROVE  TypeOK'
  BY <1>11 DEF TypeOK, Record, Outcome, Settled
<1>12. ASSUME NEW f \in File, Verify(p, f)
       PROVE  TypeOK'
  BY <1>12 DEF TypeOK, Verify, Outcome, Settled
<1>13. ASSUME NEW f \in File, VerifyError(p, f)
       PROVE  TypeOK'
  BY <1>13 DEF TypeOK, VerifyError, Except, Outcome
<1>14. ASSUME NEW f \in File, Report(p, f)
       PROVE  TypeOK'
  BY <1>14 DEF TypeOK, Report
<1>15. ASSUME NEW f \in File, CommitAnswerLost(p, f)
       PROVE  TypeOK'
  BY <1>9, <1>15, <1>d, <1>e DEF TypeOK, CommitAnswerLost
<1>16. ASSUME NEW f \in File, RecordAnswerLost(p, f)
       PROVE  TypeOK'
  BY <1>16, <1>d, <1>e DEF TypeOK, RecordAnswerLost
<1>17. CASE Crash(p)
  BY <1>17 DEF TypeOK, Crash, Fault, EndTransaction
<1> QED
  BY <1>1, <1>2, <1>3, <1>4, <1>5, <1>6, <1>7, <1>8, <1>10, <1>11, <1>12, <1>13, <1>14,
     <1>15, <1>16, <1>17
     DEF WorkerStep, FaultStep, ExecStep, ExecError, DuplicateKey, Deadlocked, ConnectionLost

\* Every step keeps the types.
LEMMA NextTypeOK == TypeOK /\ [Next]_vars => TypeOK'
<1>1. ASSUME TypeOK, UNCHANGED vars
      PROVE  TypeOK'
  BY <1>1 DEF TypeOK, vars, dbVars, runVars, mainVars, jobVars, histVars
<1>2. ASSUME TypeOK, NEW p \in Proc, StartPending(p) \/ StartFile(p)
      PROVE  TypeOK'
  <2>1. CASE StartPending(p)
    <3>1. PICK S \in Selections :
            Begin(p, IF TrackingTable \in objs THEN S \ recorded ELSE S, FALSE)
      BY <2>1 DEF StartPending
    <3>2. (IF TrackingTable \in objs THEN S \ recorded ELSE S) \in SUBSET File
      BY OptionAssumption
    <3> QED
      BY <1>2, <3>1, <3>2, BeginTypeOK
  <2>2. CASE StartFile(p)
    <3>1. PICK f \in Forced : Begin(p, {f}, TRUE)
      BY <2>2 DEF StartFile
    <3> QED
      BY <1>2, <3>1, OptionAssumption, BeginTypeOK
  <2> QED
    BY <1>2, <2>1, <2>2
<1> QED
  BY <1>1, <1>2, MainTypeOK, WorkerTypeOK DEF Next, Step

\* The variables keep their types, for any number of processes and files.
THEOREM TypeCorrect == Spec => []TypeOK
BY InitTypeOK, NextTypeOK, PTL DEF Spec
-----------------------------------------------------------------------------
(* The queue as a sequence of files *)

\* The poison's file number is above every file.
LEMMA FileOrder == \A f \in File : f \in Nat /\ f < EndFile
BY FileAssumption DEF File, EndFile

\* An item is about a file, or it is the poison.
LEMMA ItemFile == \A x \in Item : x.file \in File \/ x = Poison
BY DEF Item

\* Appending an item adds its file, and keeps the order if it comes last.
LEMMA AppendFiles ==
  ASSUME NEW q \in Seq(Item), NEW x \in Item
  PROVE  /\ FilesOf(Append(q, x)) = FilesOf(q) \cup {x.file}
         /\ Ascending(q) /\ (\A f \in FilesOf(q) : f < x.file) => Ascending(Append(q, x))
<1> DEFINE r == Append(q, x)
<1>1. /\ DOMAIN q = 1..Len(q) /\ DOMAIN r = 1..(Len(q) + 1) /\ Len(q) \in Nat
      /\ \A i \in 1..Len(q) : r[i] = q[i]
      /\ r[Len(q) + 1] = x
  OBVIOUS
<1> HIDE DEF r
<1>2. FilesOf(r) = FilesOf(q) \cup {x.file}
  BY <1>1 DEF FilesOf
<1>3. ASSUME Ascending(q), \A f \in FilesOf(q) : f < x.file
      PROVE  Ascending(r)
  BY <1>1, <1>3 DEF Ascending, FilesOf
<1> QED
  BY <1>2, <1>3 DEF r

\* Taking the head of an ordered queue leaves an ordered queue of later files.
LEMMA TailFiles ==
  ASSUME NEW q \in Seq(Item), q # <<>>
  PROVE  /\ FilesOf(q) = FilesOf(Tail(q)) \cup {Head(q).file}
         /\ Ascending(q) => /\ Ascending(Tail(q))
                            /\ \A f \in FilesOf(Tail(q)) : Head(q).file < f
<1> DEFINE r == Tail(q)
<1>1. /\ DOMAIN q = 1..Len(q) /\ DOMAIN r = 1..(Len(q) - 1) /\ Len(q) \in Nat \ {0}
      /\ \A i \in 1..(Len(q) - 1) : r[i] = q[i + 1]
      /\ Head(q) = q[1]
  OBVIOUS
<1> HIDE DEF r
<1>2. FilesOf(q) = FilesOf(r) \cup {q[1].file}
  <2>1. \A i \in 1..Len(q) : i = 1 \/ (i - 1 \in 1..(Len(q) - 1) /\ q[i] = r[i - 1])
    BY <1>1
  <2>2. ASSUME NEW i \in 1..Len(q)
        PROVE  q[i].file \in FilesOf(r) \cup {q[1].file}
    BY <1>1, <2>1 DEF FilesOf
  <2>3. ASSUME NEW i \in 1..(Len(q) - 1)
        PROVE  r[i].file \in FilesOf(q)
    <3>1. i + 1 \in 1..Len(q) /\ r[i] = q[i + 1]
      BY <1>1
    <3> QED
      BY <1>1, <3>1 DEF FilesOf
  <2>4. q[1].file \in FilesOf(q)
    BY <1>1 DEF FilesOf
  <2>5. FilesOf(q) \subseteq FilesOf(r) \cup {q[1].file}
    BY <1>1, <2>2 DEF FilesOf
  <2>6. FilesOf(r) \subseteq FilesOf(q)
    BY <1>1, <2>3 DEF FilesOf
  <2> QED
    BY <2>4, <2>5, <2>6
<1>3. ASSUME Ascending(q)
      PROVE  Ascending(r) /\ \A f \in FilesOf(r) : q[1].file < f
  <2>1. \A i \in DOMAIN r : i + 1 \in DOMAIN q /\ r[i] = q[i + 1] /\ 1 < i + 1
    BY <1>1
  <2>2. 1 \in DOMAIN q
    BY <1>1
  <2>3. \A i, j \in DOMAIN r : i < j => r[i].file < r[j].file
    <3> SUFFICES ASSUME NEW i \in DOMAIN r, NEW j \in DOMAIN r, i < j
                 PROVE  q[i + 1].file < q[j + 1].file
      BY <2>1
    <3>1. i + 1 < j + 1
      BY <1>1
    <3> QED
      BY <1>3, <2>1, <3>1 DEF Ascending
  <2>4. \A f \in FilesOf(r) : q[1].file < f
    BY <1>1, <1>3, <2>1, <2>2 DEF Ascending, FilesOf
  <2> QED
    BY <2>3, <2>4 DEF Ascending
<1> QED
  BY <1>1, <1>2, <1>3 DEF r
-----------------------------------------------------------------------------
(* Files are handled in name order *)

\* A process's step leaves what the order is about of every other one alone.
Local(q) == <<pc[q], todo[q], work_q[q], wpc[q], job[q], stop[q], result[q],
              outcomes[q], targets[q]>>

\* What belongs to one process is untouched by the step of another.
LEMMA OtherLocal ==
  ASSUME TypeOK, NEW p \in Proc, NEW q \in Proc \ {p}, Step(p)
  PROVE  UNCHANGED Local(q)
<1> USE DEF dbVars, runVars, mainVars, jobVars, histVars, Local
<1>1. ASSUME NEW T, NEW b, Begin(p, T, b)
      PROVE  UNCHANGED Local(q)
  BY <1>1 DEF Begin, TypeOK
<1>2. CASE MainStep(p) \/ Answer(p)
  <2>1. ASSUME NEW f, NEW d, Put(p, f, d)
        PROVE  UNCHANGED Local(q)
    BY <2>1 DEF Put, TypeOK
  <2>2. ASSUME NEW f, Review(p, f) \/ TargetMissing(p, f) \/ AnswerNo(p, f)
        PROVE  UNCHANGED Local(q)
    BY <2>2 DEF Review, TargetMissing, AnswerNo, TypeOK
  <2>3. CASE EndLoop(p) \/ Finish(p) \/ AnswerQuit(p)
    BY <2>3 DEF EndLoop, Finish, AnswerQuit, TypeOK
  <2> QED
    BY <1>2, <2>1, <2>2, <2>3
       DEF MainStep, Answer, Enqueue, TargetFound, AnswerYes, AnswerAlready
<1>3. CASE WorkerStep(p) \/ FaultStep(p)
  <2>1. CASE TakePoison(p) \/ Discard(p) \/ TakeJob(p) \/ Crash(p)
    BY <2>1 DEF TakePoison, Discard, TakeJob, NextItem, Crash, TypeOK
  <2>2. ASSUME NEW f, Advance(p) \/ Commit(p, f) \/ Record(p, f) \/ Verify(p, f) \/ Report(p, f)
        PROVE  UNCHANGED Local(q)
    BY <2>2 DEF Advance, Commit, Record, Verify, Report, TypeOK
  <2>3. CASE Except(p)
    BY <2>3 DEF Except, TypeOK
  <2> QED
    BY <1>3, <2>1, <2>2, <2>3
       DEF WorkerStep, FaultStep, ExecStep, ExecCreate, ExecDrop, ExecChange, ExecCommit,
           ExecRollback, ExecError, DuplicateKey, Deadlocked, VerifyError, ConnectionLost,
           CommitAnswerLost, RecordAnswerLost
<1> QED
  BY <1>1, <1>2, <1>3 DEF Step, StartPending, StartFile

\* The main thread: files move from todo to the end of the queue or to skipped.
LEMMA MainOrder ==
  ASSUME TypeOK, NEW p \in Proc, Sorted(p), Accounted(p), MainStep(p) \/ Answer(p)
  PROVE  Sorted(p)' /\ Accounted(p)'
<1> USE FileOrder DEF dbVars, runVars, mainVars, jobVars, histVars
<1>q. work_q[p] \in Seq(Item) /\ todo[p] \subseteq File
  BY DEF TypeOK
<1>1. CASE EndLoop(p)
  <2>1. /\ pc[p] = "loop" /\ pc'[p] = "join" /\ work_q'[p] = Append(work_q[p], Poison)
        /\ UNCHANGED <<todo[p], wpc[p], job[p], stop[p], result[p], outcomes[p], targets[p]>>
    BY <1>1 DEF EndLoop, TypeOK
  <2>2. QueueFiles(p)' = QueueFiles(p) \cup {EndFile}
    BY <1>q, <2>1, ItemFacts, AppendFiles DEF QueueFiles
  <2>3. QueueFiles(p) \subseteq File
    BY <1>q, <2>1, ItemFile, ItemFacts DEF Sorted, QueueFiles, FilesOf, Active
  <2>4. Ascending(work_q'[p])
    BY <1>q, <2>1, <2>3, ItemFacts, AppendFiles DEF Sorted, QueueFiles
  <2> QED
    BY <1>q, <2>1, <2>2, <2>3, <2>4, ItemFacts DEF Sorted, Accounted, Active
<1>2. CASE Finish(p)
  <2>1. /\ pc[p] = "join" /\ pc'[p] = "done" /\ wpc[p] = "off"
        /\ UNCHANGED <<todo[p], work_q[p], wpc[p], job[p], stop[p], result[p], targets[p]>>
        /\ ~stop[p] => outcomes'[p] = outcomes[p]
    BY <1>2 DEF Finish, TypeOK
  <2> QED
    BY <2>1 DEF Sorted, Accounted, Active, QueueFiles, Busy, Handling
<1>3. ASSUME NEW f \in File, NEW d \in Done, Put(p, f, d), First(todo[p], f), pc[p] \in Active
      PROVE  Sorted(p)' /\ Accounted(p)'
  <2>1. /\ pc'[p] = "loop" /\ work_q'[p] = Append(work_q[p], [file |-> f, done |-> d])
        /\ todo'[p] = todo[p] \ {f}
        /\ UNCHANGED <<wpc[p], job[p], stop[p], result[p], outcomes[p], targets[p]>>
    BY <1>3 DEF Put, TypeOK
  <2>2. QueueFiles(p)' = QueueFiles(p) \cup {f}
    BY <1>q, <2>1, ItemFacts, AppendFiles DEF QueueFiles
  <2>3. QueueFiles(p) \subseteq File /\ f \in todo[p] /\ \A g \in todo[p] \ {f} : f < g
    BY <1>3, <1>q, ItemFile, ItemFacts DEF Sorted, QueueFiles, FilesOf, First
  <2>4. \A g \in QueueFiles(p) : g < f
    BY <2>3 DEF Sorted
  <2>5. Ascending(work_q'[p])
    BY <1>q, <2>1, <2>4, ItemFacts, AppendFiles DEF Sorted, QueueFiles
  <2>6. Sorted(p)'
    BY <1>3, <1>q, <2>1, <2>2, <2>3, <2>5, ItemFacts DEF Sorted, Active
  <2>7. Accounted(p)'
    BY <1>3, <2>1, <2>2 DEF Accounted, Active
  <2> QED
    BY <2>6, <2>7
<1>4. ASSUME NEW f \in File, Review(p, f) \/ TargetMissing(p, f)
      PROVE  Sorted(p)' /\ Accounted(p)'
  <2>1. /\ pc[p] \in Active /\ pc'[p] \in Active
        /\ UNCHANGED <<todo[p], work_q[p], wpc[p], job[p], stop[p], result[p], outcomes[p],
                       targets[p]>>
    BY <1>4 DEF Review, TargetMissing, TypeOK, Active
  <2> QED
    BY <2>1 DEF Sorted, Accounted, Active, QueueFiles
<1>5. ASSUME NEW f \in File, TargetFound(p, f)
      PROVE  Sorted(p)' /\ Accounted(p)'
  <2>1. CASE Put(p, f, "auto")
    BY <1>3, <1>5, <2>1 DEF TargetFound, Active, Done
  <2>2. CASE UNCHANGED <<dbVars, runVars, pc, todo, quit, outcomes, work_q, stop, jobVars, histVars>>
    BY <2>2 DEF Sorted, Accounted, Active, QueueFiles
  <2> QED
    BY <1>5, <2>1, <2>2 DEF TargetFound
<1>6. ASSUME NEW f \in File, AnswerNo(p, f)
      PROVE  Sorted(p)' /\ Accounted(p)'
  <2>1. /\ pc[p] \in Active /\ pc'[p] = "loop" /\ todo'[p] = todo[p] \ {f}
        /\ outcomes'[p] = [outcomes[p] EXCEPT ![f] = "skipped"] /\ outcomes[p] \in [File -> Outcome]
        /\ UNCHANGED <<work_q[p], wpc[p], job[p], stop[p], result[p], targets[p]>>
    BY <1>6 DEF AnswerNo, TypeOK, Active
  <2> QED
    BY <2>1 DEF Sorted, Accounted, Active, QueueFiles, Settled, TypeOK
<1>7. CASE AnswerQuit(p)
  <2>1. /\ pc[p] = "prompt" /\ pc'[p] = "join" /\ work_q'[p] = Append(work_q[p], Poison)
        /\ UNCHANGED <<todo[p], wpc[p], job[p], stop[p], result[p], outcomes[p], targets[p]>>
    BY <1>7 DEF AnswerQuit, TypeOK
  <2>2. QueueFiles(p)' = QueueFiles(p) \cup {EndFile}
    BY <1>q, <2>1, ItemFacts, AppendFiles DEF QueueFiles
  <2>3. QueueFiles(p) \subseteq File
    BY <1>q, <2>1, ItemFile, ItemFacts DEF Sorted, QueueFiles, FilesOf, Active
  <2>4. Ascending(work_q'[p])
    BY <1>q, <2>1, <2>3, ItemFacts, AppendFiles DEF Sorted, QueueFiles
  <2> QED
    BY <1>q, <2>1, <2>2, <2>3, <2>4, ItemFacts DEF Sorted, Accounted, Active
<1> QED
  BY <1>1, <1>2, <1>3, <1>4, <1>5, <1>6, <1>7
     DEF MainStep, Answer, Enqueue, AnswerYes, AnswerAlready, Active, Done

\* The worker: the first of the queue becomes the job, the job's file settles.
LEMMA WorkerOrder ==
  ASSUME TypeOK, NEW p \in Proc, Sorted(p), Accounted(p), WorkerStep(p) \/ FaultStep(p)
  PROVE  Sorted(p)' /\ Accounted(p)'
<1> USE DEF dbVars, runVars, mainVars, jobVars, histVars
<1>q. work_q[p] \in Seq(Item) /\ todo[p] \subseteq File
  BY DEF TypeOK
<1>r. ASSUME NextItem(p)
      PROVE  /\ wpc[p] = "get" /\ work_q'[p] = Tail(work_q[p]) /\ Head(work_q[p]) \in Item
             /\ UNCHANGED <<pc[p], todo[p], stop[p], outcomes[p], targets[p]>>
             /\ QueueFiles(p) = QueueFiles(p)' \cup {Head(work_q[p]).file}
             /\ Ascending(work_q'[p])
             /\ \A f \in QueueFiles(p)' : Head(work_q[p]).file < f
  BY <1>r, <1>q, TailFiles DEF NextItem, TypeOK, QueueFiles, Sorted
<1>1. CASE TakePoison(p) \/ Discard(p)
  <2>1. wpc'[p] \in {"off", "get"} /\ NextItem(p) /\ UNCHANGED <<job[p], result[p]>>
    BY <1>1 DEF TakePoison, Discard, NextItem, TypeOK
  <2>2. stop[p] \/ Head(work_q[p]).file = EndFile
    BY <1>1, ItemFacts DEF TakePoison, Discard
  <2>3. \A f \in targets[p] : f # EndFile
    BY ItemFacts DEF TypeOK
  <2> QED
    BY <1>r, <2>1, <2>2, <2>3 DEF Sorted, Accounted, Active, Busy, Handling
<1>2. CASE TakeJob(p)
  <2>1. /\ wpc'[p] \in {"exec", "record"} /\ NextItem(p) /\ job'[p] = Head(work_q[p])
        /\ Head(work_q[p]) # Poison /\ ~stop[p] /\ UNCHANGED <<result[p]>>
    BY <1>2 DEF TakeJob, TypeOK
  <2>2. job'[p].file \in File /\ \A f \in QueueFiles(p)' : job'[p].file < f
    BY <1>r, <2>1, ItemFile
  <2>3. \A g \in todo[p] : job'[p].file < g
    BY <1>r, <2>1, <2>2 DEF Sorted
  <2>4. Sorted(p)'
    BY <1>r, <2>1, <2>2, <2>3 DEF Sorted, Active
  <2>5. Accounted(p)'
    BY <1>r, <2>1 DEF Accounted, Busy, Handling
  <2> QED
    BY <2>4, <2>5
<1>3. ASSUME Except(p), wpc[p] \in Busy
      PROVE  Sorted(p)' /\ Accounted(p)'
  <2>1. /\ wpc'[p] = "report" /\ result'[p] = "failed" /\ stop'[p]
        /\ UNCHANGED <<pc[p], todo[p], work_q[p], job[p], outcomes[p], targets[p]>>
    BY <1>3 DEF Except, TypeOK
  <2> QED
    BY <1>3, <2>1 DEF Sorted, Accounted, Active, Busy, Handling, QueueFiles
<1>4. ASSUME Advance(p)
      PROVE  Sorted(p)' /\ Accounted(p)'
  BY <1>4 DEF Advance, Sorted, Accounted, Active, QueueFiles
<1>5. ASSUME NEW f \in File, Commit(p, f) \/ Record(p, f) \/ Verify(p, f)
      PROVE  Sorted(p)' /\ Accounted(p)'
  <2>1. /\ wpc[p] \in Busy /\ ~stop[p]
        /\ \/ wpc'[p] \in Busy /\ result'[p] = result[p]
           \/ wpc'[p] = "report" /\ result'[p] \in {"applied", "recorded"}
        /\ UNCHANGED <<pc[p], todo[p], work_q[p], job[p], outcomes[p], targets[p], stop[p]>>
    BY <1>5 DEF Commit, ServerCommit, Executing, Record, Verify, TypeOK, Busy, Accounted
  <2> QED
    BY <2>1 DEF Sorted, Accounted, Active, Busy, Handling, QueueFiles
<1>6. ASSUME NEW f \in File, Report(p, f)
      PROVE  Sorted(p)' /\ Accounted(p)'
  <2>1. /\ wpc[p] = "report" /\ job[p].file = f /\ wpc'[p] = "get"
        /\ outcomes'[p] = [outcomes[p] EXCEPT ![f] = result[p]] /\ outcomes[p] \in [File -> Outcome]
        /\ UNCHANGED <<pc[p], todo[p], work_q[p], job[p], targets[p], stop[p], result[p]>>
    BY <1>6 DEF Report, TypeOK
  <2> QED
    BY <2>1 DEF Sorted, Accounted, Active, Busy, Handling, QueueFiles, Settled, TypeOK
<1>7. CASE Crash(p)
  <2>1. /\ pc'[p] = "idle" /\ wpc'[p] = "off" /\ work_q'[p] = <<>> /\ todo'[p] = {}
    BY <1>7 DEF Crash, TypeOK
  <2> QED
    BY <2>1 DEF Sorted, Accounted, Active, Busy, Handling, QueueFiles, FilesOf, Ascending
<1>8. ASSUME Deadlocked(p)
      PROVE  wpc[p] \in Busy
  BY <1>8 DEF Deadlocked, WaitsFor, AtStatement, Executing, Busy
<1> QED
  BY <1>1, <1>2, <1>3, <1>4, <1>5, <1>6, <1>7, <1>8
     DEF WorkerStep, FaultStep, ExecStep, ExecCreate, ExecDrop, ExecChange, ExecCommit,
         ExecRollback, ExecError, DuplicateKey, Deadlocked, VerifyError, ConnectionLost,
         CommitAnswerLost, RecordAnswerLost, ServerCommit, AtStatement, Executing, Busy

\* A run starts with an empty queue and every target still to be looked at.
LEMMA BeginOrder ==
  ASSUME TypeOK, NEW p \in Proc, NEW T, NEW b, Begin(p, T, b),
         Sorted(p), Accounted(p)
  PROVE  Sorted(p)' /\ Accounted(p)'
<1>1. /\ pc'[p] = "loop" /\ wpc'[p] = "get" /\ work_q'[p] = <<>>
      /\ todo'[p] = T /\ targets'[p] = T
  BY DEF Begin, TypeOK
<1> QED
  BY <1>1 DEF Sorted, Accounted, Active, Busy, Handling, QueueFiles, FilesOf, Ascending

\* The order invariant holds initially ...
LEMMA InitOrder == Init => OrderInv
BY DEF Init, OrderInv, Sorted, Accounted, Active, Busy, Handling, QueueFiles, FilesOf, Ascending

\* ... and every step keeps it.
LEMMA NextOrder == TypeOK /\ OrderInv /\ [Next]_vars => OrderInv'
<1>1. ASSUME TypeOK, OrderInv, NEW p \in Proc, Step(p), NEW q \in Proc
      PROVE  Sorted(q)' /\ Accounted(q)'
  <2>1. CASE q # p
    <3>1. UNCHANGED Local(q)
      BY <1>1, <2>1, OtherLocal
    <3> QED
      BY <1>1, <3>1 DEF OrderInv, Local, Sorted, Accounted, QueueFiles
  <2>2. CASE q = p
    BY <1>1, <2>2, MainOrder, WorkerOrder, BeginOrder
       DEF OrderInv, Step, StartPending, StartFile
  <2> QED
    BY <2>1, <2>2
<1>2. ASSUME OrderInv, UNCHANGED vars
      PROVE  OrderInv'
  BY <1>2 DEF vars, dbVars, runVars, mainVars, jobVars, histVars, OrderInv, Sorted, Accounted,
     QueueFiles
<1> QED
  BY <1>1, <1>2 DEF Next, OrderInv

\* A file is handled only when every earlier target of its run has been
\* applied, recorded or skipped: no file overtakes another, and none follows
\* a failure, whatever the two threads, other runs and faults do.
THEOREM OrderCorrect == Spec => []InOrder
<1>1. TypeOK /\ OrderInv => InOrder
  <2> SUFFICES ASSUME TypeOK, OrderInv, NEW p \in Proc, wpc[p] \in Busy,
                      NEW f \in targets[p], f < job[p].file
               PROVE  outcomes[p][f] \in Settled
    BY DEF InOrder
  <2>1. pc[p] # "idle" /\ ~stop[p] /\ job[p].file \in File /\ f \in File
    BY DEF OrderInv, Accounted, Sorted, Handling, Busy, TypeOK
  <2>2. \A g \in QueueFiles(p) \cup todo[p] : job[p].file < g
    BY DEF OrderInv, Sorted, Handling
  <2>3. f \notin todo[p] /\ f \notin QueueFiles(p) /\ f # job[p].file
    BY <2>1, <2>2, FileOrder
  <2> QED
    BY <2>1, <2>3 DEF OrderInv, Accounted
<1> QED
  BY <1>1, InitTypeOK, NextTypeOK, InitOrder, NextOrder, PTL DEF Spec

\* What has run stays run, and what was vouched for stays so.
LEMMA Monotone ==
  ASSUME TypeOK, NEW p \in Proc, Step(p), NEW f \in File
  PROVE  /\ execs[f] > 0 => execs'[f] > 0
         /\ f \in vouched => f \in vouched'
<1>1. \/ execs' = execs
      \/ \E g \in File : execs' = [execs EXCEPT ![g] = @ + 1]
  BY DEF Step, StartPending, StartFile, Begin, Answer, AnswerYes, AnswerNo, AnswerAlready,
         AnswerQuit, MainStep, EndLoop, Finish, Enqueue, Review, TargetFound, TargetMissing,
         Put, WorkerStep, TakePoison, Discard, TakeJob, Deadlocked, ExecStep, ExecCreate,
         ExecDrop, ExecChange, ExecCommit, ExecRollback, Advance, Commit, ServerCommit,
         ExecError, DuplicateKey, Record, Verify, VerifyError, Report, FaultStep,
         ConnectionLost, Crash, CommitAnswerLost, RecordAnswerLost, histVars
<1>2. vouched \subseteq vouched'
  BY DEF Step, StartPending, StartFile, Begin, Answer, AnswerYes, AnswerNo, AnswerAlready,
         AnswerQuit, MainStep, EndLoop, Finish, Enqueue, Review, TargetFound, TargetMissing,
         Put, WorkerStep, TakePoison, Discard, TakeJob, Deadlocked, ExecStep, ExecCreate,
         ExecDrop, ExecChange, ExecCommit, ExecRollback, Advance, Commit, ServerCommit,
         ExecError, DuplicateKey, Record, Verify, VerifyError, Report, FaultStep,
         ConnectionLost, Crash, CommitAnswerLost, RecordAnswerLost, Except, histVars
<1>3. execs \in [File -> Nat]
  BY DEF TypeOK
<1> QED
  BY <1>1, <1>2, <1>3

\* Only the worker's tracking insert adds a record, of its job's file.
LEMMA OnlyRecords ==
  ASSUME TypeOK, NEW p \in Proc, Step(p)
  PROVE  \/ recorded' = recorded
         \/ wpc[p] = "record" /\ recorded' = recorded \cup {job[p].file}
BY DEF Step, StartPending, StartFile, Begin, Answer, AnswerYes, AnswerNo, AnswerAlready,
       AnswerQuit, MainStep, EndLoop, Finish, Enqueue, Review, TargetFound, TargetMissing,
       Put, WorkerStep, TakePoison, Discard, TakeJob, NextItem, Deadlocked, ExecStep, ExecCreate,
       ExecDrop, ExecChange, ExecCommit, ExecRollback, Advance, Commit, ServerCommit,
       ExecError, DuplicateKey, Record, Verify, VerifyError, Report, FaultStep,
       ConnectionLost, Crash, CommitAnswerLost, RecordAnswerLost, dbVars

\* A step of p keeps what p's queue and job carry: an item is put with its file
\* vouched for, and a job is recorded after its script's commit.
LEMMA CarriedStep ==
  ASSUME TypeOK, NEW p \in Proc, Carried(p), Step(p)
  PROVE  Carried(p)'
<1> USE DEF dbVars, runVars, mainVars, jobVars, histVars
<1>q. /\ work_q[p] \in Seq(Item) /\ execs \in [File -> Nat]
      /\ wpc \in [Proc -> {"off", "get", "exec", "record", "verify", "report"}]
  BY DEF TypeOK
<1>1. ASSUME NEW T, NEW b, Begin(p, T, b)
      PROVE  Carried(p)'
  <2>1. wpc'[p] = "get" /\ work_q'[p] = <<>>
    BY <1>1 DEF Begin, TypeOK
  <2> QED
    BY <2>1 DEF Carried
<1>2. ASSUME NEW x \in Item, work_q'[p] = Append(work_q[p], x),
             x.done \in {"auto", "user"} => x.file \in vouched',
             vouched \subseteq vouched', UNCHANGED <<wpc, job, execs>>
      PROVE  Carried(p)'
  BY <1>2, <1>q DEF Carried
<1>3. ASSUME NEW f \in File, NEW d \in Done, Put(p, f, d)
      PROVE  Carried(p)'
  <2>1. /\ work_q'[p] = Append(work_q[p], [file |-> f, done |-> d])
        /\ vouched \subseteq vouched' /\ (d # "run" => f \in vouched')
        /\ UNCHANGED <<wpc, job, execs>>
    BY <1>3 DEF Put, TypeOK
  <2> QED
    BY <1>2, <2>1, ItemFacts
<1>4. CASE EndLoop(p) \/ AnswerQuit(p)
  <2>1. work_q'[p] = Append(work_q[p], Poison) /\ UNCHANGED <<wpc, job, execs, vouched>>
    BY <1>4 DEF EndLoop, AnswerQuit, TypeOK
  <2> QED
    BY <1>2, <2>1, ItemFacts DEF Poison
<1>5. ASSUME NEW f, Review(p, f) \/ TargetMissing(p, f) \/ AnswerNo(p, f) \/ Finish(p)
      PROVE  Carried(p)'
  BY <1>5 DEF Review, TargetMissing, AnswerNo, Finish, Carried
<1>6. ASSUME NEW f \in File, TargetFound(p, f)
      PROVE  Carried(p)'
  <2>1. CASE Put(p, f, "auto")
    BY <1>3, <2>1 DEF Done
  <2>2. CASE UNCHANGED <<wpc, job, work_q, execs, vouched>>
    BY <2>2 DEF Carried
  <2> QED
    BY <1>6, <2>1, <2>2 DEF TargetFound
<1>7. CASE MainStep(p) \/ Answer(p)
  BY <1>3, <1>4, <1>5, <1>6, <1>7
     DEF MainStep, Answer, Enqueue, AnswerYes, AnswerAlready, Done
<1>8. ASSUME NextItem(p)
      PROVE  /\ wpc[p] = "get" /\ work_q[p] # <<>> /\ Head(work_q[p]) = work_q[p][1]
             /\ work_q'[p] = Tail(work_q[p])
             /\ \A i \in DOMAIN work_q'[p] :
                  i + 1 \in DOMAIN work_q[p] /\ work_q'[p][i] = work_q[p][i + 1]
  BY <1>8, <1>q DEF NextItem, TypeOK
<1>9. CASE TakePoison(p) \/ Discard(p)
  <2>1. wpc'[p] \in {"get", "off"} /\ UNCHANGED <<job, execs, vouched>>
    BY <1>9, <1>8 DEF TakePoison, Discard, TypeOK
  <2> QED
    BY <1>8, <1>9, <2>1 DEF Carried, TakePoison, Discard
<1>10. CASE TakeJob(p)
  <2>1. /\ Head(work_q[p]) \in Item \ {Poison} /\ job'[p] = Head(work_q[p])
        /\ wpc'[p] = IF Head(work_q[p]).done = "run" THEN "exec" ELSE "record"
        /\ UNCHANGED <<execs, vouched>>
    BY <1>10, <1>8, <1>q, QueueFacts DEF TakeJob, TypeOK
  <2>2. Head(work_q[p]).done \in Done
    BY <2>1 DEF Item
  <2>3. wpc'[p] = "record" => job'[p].done # "run" /\ job'[p].file \in vouched
    <3>1. 1 \in DOMAIN work_q[p]
      BY <1>8, <1>10, <1>q DEF TakeJob
    <3> QED
      BY <1>8, <1>10, <2>1, <2>2, <3>1 DEF Carried, Done, TakeJob
  <2>4. wpc'[p] # "verify"
    BY <2>1
  <2> QED
    BY <1>8, <1>10, <2>1, <2>3, <2>4 DEF Carried, TakeJob
<1>11. CASE Except(p)
  BY <1>11, <1>q DEF Except, Carried
<1>12. ASSUME Advance(p)
       PROVE  Carried(p)'
  BY <1>12 DEF Advance, Carried
<1>13. ASSUME NEW f \in File, Commit(p, f) \/ CommitAnswerLost(p, f)
       PROVE  Carried(p)'
  <2>1. wpc[p] = "exec" /\ job[p].file = f /\ execs' = [execs EXCEPT ![f] = @ + 1]
    BY <1>13 DEF Commit, CommitAnswerLost, ServerCommit, Executing
  <2>2. execs'[f] > 0
    BY <2>1, <1>q
  <2>3. UNCHANGED <<vouched, work_q, job>> /\ wpc'[p] \in {"record", "report"}
    BY <1>13, <1>q DEF Commit, CommitAnswerLost, Except
  <2> QED
    BY <2>1, <2>2, <2>3 DEF Carried
<1>14. ASSUME NEW f \in File, Record(p, f) \/ Verify(p, f) \/ Report(p, f)
       PROVE  Carried(p)'
  BY <1>14, <1>q DEF Record, Verify, Report, Carried
<1>15. CASE Crash(p)
  <2>1. wpc'[p] = "off" /\ work_q'[p] = <<>>
    BY <1>15, <1>q DEF Crash, TypeOK
  <2> QED
    BY <2>1 DEF Carried
<1>16. ASSUME NEW f, UNCHANGED <<execs, ran>>, Except(p)
       PROVE  Carried(p)'
  BY <1>16, <1>q DEF Except, Carried
<1>17. CASE WorkerStep(p) \/ FaultStep(p)
  BY <1>9, <1>10, <1>12, <1>13, <1>14, <1>15, <1>16, <1>17
     DEF WorkerStep, FaultStep, ExecStep, ExecCreate, ExecDrop, ExecChange, ExecCommit,
         ExecRollback, ExecError, DuplicateKey, Deadlocked, VerifyError, ConnectionLost,
         RecordAnswerLost
<1> QED
  BY <1>1, <1>7, <1>17 DEF Step, StartPending, StartFile

\* The initial states carry nothing.
LEMMA InitJustified == Init => JustifiedInv
BY DEF Init, JustifiedInv, RecordedJustified, Carried

\* Every step keeps the records justified, those of other runs included.
LEMMA NextJustified ==
  TypeOK /\ OrderInv /\ JustifiedInv /\ [Next]_vars => JustifiedInv'
<1>1. ASSUME TypeOK, OrderInv, JustifiedInv, NEW p \in Proc, Step(p), NEW q \in Proc
      PROVE  Carried(q)'
  <2>1. CASE q = p
    BY <1>1, <2>1, CarriedStep DEF JustifiedInv
  <2>2. CASE q # p
    <3>1. wpc'[q] = wpc[q] /\ job'[q] = job[q] /\ work_q'[q] = work_q[q]
      BY <1>1, <2>2, OtherLocal DEF Local
    <3>2. wpc[q] \in {"record", "verify"} => job[q].file \in File
      BY <1>1 DEF OrderInv, Sorted, Handling, Busy
    <3>3. \A i \in DOMAIN work_q[q] :
            work_q[q][i].done \in {"auto", "user"} => work_q[q][i].file \in File
      BY <1>1 DEF TypeOK, Item, Poison
    <3> QED
      BY <1>1, <3>1, <3>2, <3>3, Monotone DEF JustifiedInv, Carried
  <2> QED
    BY <2>1, <2>2
<1>2. ASSUME TypeOK, OrderInv, JustifiedInv, NEW p \in Proc, Step(p)
      PROVE  RecordedJustified'
  <2>1. \A f \in recorded : f \in File
    BY <1>2 DEF TypeOK
  <2>2. wpc[p] = "record" =>
          job[p].file \in File /\ (execs[job[p].file] > 0 \/ job[p].file \in vouched)
    BY <1>2 DEF OrderInv, Sorted, Handling, Busy, JustifiedInv, Carried
  <2> QED
    BY <1>2, <2>1, <2>2, Monotone, OnlyRecords DEF JustifiedInv, RecordedJustified
<1>3. ASSUME JustifiedInv, UNCHANGED vars
      PROVE  JustifiedInv'
  BY <1>3 DEF vars, dbVars, mainVars, jobVars, histVars, JustifiedInv, RecordedJustified, Carried
<1> QED
  BY <1>1, <1>2, <1>3 DEF Next, JustifiedInv

\* No file gets into the tracking table unless some run executed its script to
\* the commit, or --ask took it as already done; overlapping runs, crashes and
\* lost answers included.
THEOREM RecordedCorrect == Spec => []RecordedJustified
<1>1. JustifiedInv => RecordedJustified
  BY DEF JustifiedInv
<1> QED
  BY <1>1, InitTypeOK, NextTypeOK, InitOrder, NextOrder, InitJustified, NextJustified, PTL
     DEF Spec
=============================================================================
