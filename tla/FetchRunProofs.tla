---------------------------- MODULE FetchRunProofs ----------------------------
(***************************************************************************)
(* Proofs about FetchRun, for any number of calls and connections, any     *)
(* shape of the calls, any number of cancellations and faults.             *)
(***************************************************************************)
EXTENDS FetchRun, TLAPS

\* A connection has at most one user, and a call that holds one awaits.
Exclusive ==
  /\ \A p, q \in Call : con[p] = con[q] /\ con[p] # NoCon => p = q
  /\ \A p \in Call : con[p] # NoCon <=> pc[p] \in Awaiting

\* What a connection nobody holds looks like.
FreeClean == \A c \in Con : Free(c) => open[c] /\ server[c] = "idle" /\ reply[c] = "none"

\* While a statement is awaited, the server either works on it or has answered.
Pending(c) == (server[c] = "running") <=> (reply[c] = "none")
Quiet(c) == server[c] = "idle" /\ reply[c] = "none"

\* What the work says of the connection, and its only user of the work: once the
\* block is left, of the COMMIT or ROLLBACK.
WorkInv(p) ==
  /\ pc[p] \in {"wait", "shield"} =>
       /\ wpc[p] = "send" => open[con[p]] /\ Quiet(con[p])
       /\ wpc[p] = "await" => open[con[p]] /\ Pending(con[p])
       /\ wpc[p] = "done" => Quiet(con[p])
  /\ pc[p] = "ending" => open[con[p]] /\ Pending(con[p])

\* Which tasks there are at each await.
TasksInv(p) ==
  /\ pc[p] \in {"start", "acquire"} => wpc[p] = "off"
  /\ pc[p] \in {"wait", "shield"} => wpc[p] # "off"
  /\ pc[p] = "ending" => wpc[p] = "done"
  /\ pc[p] = "done" => wpc[p] \in {"off", "done"}
  /\ pc[p] \in {"start", "acquire", "wait"} => apc[p] = "off"
  /\ pc[p] = "shield" => apc[p] # "off"
  /\ pc[p] \in {"ending", "done"} => apc[p] \in {"off", "done"}
  /\ apc[p] = "done" => wpc[p] = "done"

\* A cancel request is out only while the abort task waits for it, and it is for
\* the connection that the call still holds.
RequestInv(p) ==
  /\ req[p] # "none" <=> apc[p] = "cancelling"
  /\ req[p] # "none" => target[p] = con[p]

\* A statement is ended by the request of its own call; what has struck the task
\* is known to the abort it awaits, or is what the call will raise.
CauseInv(p) ==
  /\ pc[p] \in {"start", "acquire", "wait"} => p \notin struck
  /\ pc[p] = "acquire" => wres[p] = "none"
  /\ pc[p] = "start" => wres[p] = "none"
  /\ pc[p] = "wait" => wres[p] \notin {"canceled", "cancelled"} /\ reply[con[p]] # "canceled"
  /\ pc[p] = "ending" => reply[con[p]] # "canceled"
  /\ pc[p] = "shield" /\ path[p] = "event" => p \in event /\ (p \in struck => interrupted[p])
  /\ pc[p] \in {"ending", "done"} =>
       /\ outcome[p] = "canceled" => p \in event
       /\ p \in struck => outcome[p] = "cancelled"

CallInv(p) == WorkInv(p) /\ TasksInv(p) /\ RequestInv(p) /\ CauseInv(p)
FetchInv == TypeOK /\ Exclusive /\ FreeClean /\ \A p \in Call : CallInv(p)
-----------------------------------------------------------------------------
(* Types *)

\* A call has a first statement, a query and a last one, in this order.
LEMMA ShapeFacts ==
  ASSUME NEW p \in Call
  PROVE  /\ Query(p) \in Nat /\ Last(p) \in Nat /\ Rollback(p) \in Nat
         /\ 1 <= Query(p) /\ Query(p) <= Last(p) /\ Rollback(p) = Last(p) + 1
         /\ shape[p].rollback \in BOOLEAN /\ shape[p].ends \in BOOLEAN
BY ShapeAssumption DEF Shape, Query, Last, Rollback

\* The type invariant holds initially.
LEMMA InitTypeOK == Init => TypeOK
<1> SUFFICES ASSUME Init PROVE TypeOK
  OBVIOUS
<1>1. ASSUME NEW p \in Call
      PROVE  at[p] \in 1..(IF shape[p].rollback THEN Rollback(p) ELSE Last(p))
  <2>1. at[p] = 1
    BY DEF Init
  <2> QED
    BY <2>1, ShapeFacts
<1> QED
  BY <1>1 DEF Init, TypeOK, Replies

\* A call whose tasks are at work holds a connection.
Holding == TypeOK /\ Exclusive /\ \A p \in Call : TasksInv(p)

\* So what such a call holds is a connection.
LEMMA Held ==
  ASSUME Holding, NEW p \in Call, pc[p] \in Awaiting \/ wpc[p] \in {"send", "await"} \/ apc[p] \in {"start", "cancelling", "gather"}
  PROVE  con[p] \in Con
<1>1. pc[p] \in Awaiting
  BY DEF Holding, TypeOK, TasksInv, Awaiting
<1> QED
  BY <1>1 DEF Holding, TypeOK, Exclusive

\* Leaving _run, giving the connection back and aborting keep the types of what
\* they change.
LEMMA LeaveTypes ==
  ASSUME TypeOK, NEW p \in Call, pc[p] \in Awaiting, NEW result \in Replies \cup {"none", "cancelled"},
         Leave(p, result)
  PROVE  /\ pc' \in [Call -> {"start", "acquire", "done"} \cup Awaiting]
         /\ con' \in [Call -> Con \cup {NoCon}]
         /\ outcome' \in [Call -> Replies \cup {"none", "cancelled"}]
         /\ server' \in [Con -> {"idle", "running"}]
         /\ open' \in [Con -> BOOLEAN]
<1>1. CASE shape[p].ends /\ at[p] > 1 /\ open[con[p]]
  BY <1>1 DEF TypeOK, Leave, Awaiting
<1>2. CASE ~(shape[p].ends /\ at[p] > 1 /\ open[con[p]])
  <2>1. /\ outcome' = [outcome EXCEPT ![p] = result] /\ pc' = [pc EXCEPT ![p] = "done"]
        /\ con' = [con EXCEPT ![p] = NoCon] /\ open' = [open EXCEPT ![con[p]] = TRUE]
        /\ server' = server
    BY <1>2 DEF Leave, GiveBack
  <2> QED
    BY <2>1 DEF TypeOK
<1> QED
  BY <1>1, <1>2

\* The awaiting task's steps keep the types.
LEMMA OwnTypeOK ==
  ASSUME Holding, NEW p \in Call, OwnStep(p)
  PROVE  TypeOK'
<1> USE DEF Awaiting, Replies, ownVars, workVars, abortVars, conVars, boundVars
<1>a. TypeOK
  BY DEF Holding
<1>1. CASE Refuse(p)
  BY <1>a, <1>1 DEF TypeOK, Refuse, Raise
<1>2. CASE Start(p)
  BY <1>a, <1>2 DEF TypeOK, Start
<1>3. ASSUME NEW c \in Con, Acquire(p, c)
      PROVE  TypeOK'
  BY <1>a, <1>3 DEF TypeOK, Acquire
<1>4. CASE AcquireCancelled(p)
  BY <1>a, <1>4 DEF TypeOK, AcquireCancelled, Raise
<1>5. ASSUME NEW why \in {"event", "except"}, Abort(p, why),
             hit' \in [Call -> BOOLEAN], struck' \subseteq Call
      PROVE  TypeOK'
  BY <1>a, <1>5 DEF TypeOK, Abort
<1>6. CASE EventSet(p) \/ WaitCancelled(p) \/ AbortedAgain(p)
  <2>1. PICK why \in {"event", "except"} : Abort(p, why)
    BY <1>6 DEF EventSet, WaitCancelled, AbortedAgain
  <2>2. hit' \in [Call -> BOOLEAN] /\ struck' \subseteq Call
    <3>1. UNCHANGED <<hit, struck>> \/ (hit' = [hit EXCEPT ![p] = FALSE] /\ struck' = struck \cup {p})
      BY <1>6 DEF EventSet, WaitCancelled, AbortedAgain
    <3>2. hit \in [Call -> BOOLEAN] /\ struck \subseteq Call
      BY <1>a DEF TypeOK
    <3> QED
      BY <3>1, <3>2
  <2> QED
    BY <1>5, <2>1, <2>2
<1>7. CASE ShieldCancelled(p)
  BY <1>a, <1>7 DEF TypeOK, ShieldCancelled
<1>8. Result(p) \in Replies \cup {"none", "cancelled"}
  BY <1>a DEF TypeOK, Result
<1>9. CASE WorkDone(p) \/ AbortedByEvent(p) \/ AbortedByCancel(p)
  <2>1. PICK result \in Replies \cup {"none", "cancelled"} :
          Leave(p, result) /\ pc[p] \in Awaiting
    BY <1>8, <1>9 DEF WorkDone, AbortedByEvent, AbortedByCancel, Aborted
  <2>2. UNCHANGED <<hit, interrupted, abortVars, struck>>
    BY <1>9 DEF WorkDone, AbortedByEvent, AbortedByCancel
  <2>3. UNCHANGED <<path, event, workVars, reply, boundVars>>
    BY <2>1 DEF Leave
  <2> QED
    BY <1>a, <2>1, <2>2, <2>3, LeaveTypes DEF TypeOK
<1>10. CASE Ended(p) \/ EndCancelled(p)
  <2>1. con[p] \in Con
    BY <1>10, Held DEF Ended, EndCancelled
  <2>2. CASE Ended(p)
    BY <1>a, <2>1, <2>2 DEF TypeOK, Ended, Raise, GiveBack
  <2>3. CASE EndCancelled(p)
    BY <1>a, <2>1, <2>3 DEF TypeOK, EndCancelled, Raise, GiveBack
  <2> QED
    BY <1>10, <2>2, <2>3
<1> QED
  BY <1>1, <1>2, <1>3, <1>4, <1>6, <1>7, <1>9, <1>10 DEF OwnStep

\* The steps of the work and of the abort task keep the types.
LEMMA TaskTypeOK ==
  ASSUME Holding, NEW p \in Call, WorkStep(p) \/ AbortStep(p) \/ CancelFailed(p)
  PROVE  TypeOK'
<1> USE DEF Awaiting, Replies, ownVars, workVars, abortVars, conVars, boundVars
<1>a. TypeOK
  BY DEF Holding
<1>1. CASE Send(p)
  BY <1>a, <1>1 DEF TypeOK, Send
<1>2. CASE Receive(p)
  <2>1. con[p] \in Con /\ reply[con[p]] \in Replies
    BY <1>a, <1>2, Held DEF TypeOK, Receive
  <2>2. UNCHANGED <<ownVars, event, abortVars, server, open, struck, boundVars>>
    BY <1>2 DEF Receive
  <2>3. reply' \in [Con -> Replies \cup {"none"}]
    BY <1>a, <1>2, <2>1 DEF TypeOK, Receive
  <2>4. /\ at[p] \in Nat /\ at[p] >= 1 /\ Last(p) \in Nat
        /\ at[p] <= Last(p) \/ (shape[p].rollback /\ at[p] = Rollback(p))
    <3>1. at[p] \in 1..(IF shape[p].rollback THEN Rollback(p) ELSE Last(p))
      BY <1>a DEF TypeOK
    <3> QED
      BY <3>1, ShapeFacts
  <2>5. ASSUME NEW n \in Nat, 1 <= n, n <= Last(p) \/ (shape[p].rollback /\ n = Rollback(p)), GoTo(p, n)
        PROVE  /\ wpc' \in [Call -> {"off", "send", "await", "done"}] /\ at' \in [Call -> Nat]
               /\ \A q \in Call : at'[q] \in 1..(IF shape[q].rollback THEN Rollback(q) ELSE Last(q))
    <3>1. n \in 1..(IF shape[p].rollback THEN Rollback(p) ELSE Last(p))
      BY <2>5, ShapeFacts
    <3> QED
      BY <1>a, <2>5, <3>1 DEF TypeOK, GoTo
  <2>6. ASSUME NEW r \in Replies \cup {"none", "cancelled"}, Finish(p, r)
        PROVE  TypeOK'
    BY <1>a, <2>2, <2>3, <2>6 DEF TypeOK, Finish
  <2>7. CASE at[p] < Last(p) /\ GoTo(p, at[p] + 1) /\ UNCHANGED wres
    <3>0. at[p] < Last(p)
      BY <2>7
    <3>1. at[p] + 1 \in Nat /\ 1 <= at[p] + 1 /\ at[p] + 1 <= Last(p)
      BY <2>4, <3>0
    <3> QED
      BY <1>a, <2>2, <2>3, <2>5, <2>7, <3>1 DEF TypeOK
  <2>8. CASE Unwind(p)
    <3>1. CASE shape[p].rollback /\ GoTo(p, Rollback(p)) /\ wres' = [wres EXCEPT ![p] = reply[con[p]]]
      BY <1>a, <2>1, <2>2, <2>3, <2>5, <3>1, ShapeFacts DEF TypeOK
    <3> QED
      BY <2>1, <2>6, <2>8, <3>1 DEF Unwind
  <2>9. wres[p] \in Replies \cup {"none", "cancelled"}
    BY <1>a DEF TypeOK
  <2> QED
    BY <1>2, <2>6, <2>7, <2>8, <2>9 DEF Receive
<1>3. CASE AbortStep(p)
  BY <1>a, <1>3 DEF TypeOK, AbortStep, AbortStart, CancelReturned, Gathered
<1>4. CASE CancelFailed(p)
  <2>1. con[p] \in Con
    BY <1>4, Held DEF CancelFailed
  <2>2. workVars' = workVars \/ Finish(p, "cancelled")
    BY <1>4 DEF CancelFailed
  <2>3. wpc' \in [Call -> {"off", "send", "await", "done"}] /\ at' = at
        /\ wres' \in [Call -> Replies \cup {"none", "cancelled"}]
    BY <1>a, <2>2 DEF TypeOK, Finish
  <2> QED
    <3>1. /\ apc' = [apc EXCEPT ![p] = "gather"] /\ req' = [req EXCEPT ![p] = "none"]
          /\ open' = [open EXCEPT ![con[p]] = FALSE]
          /\ server' = [server EXCEPT ![con[p]] = "idle"]
          /\ reply' = [reply EXCEPT ![con[p]] = "none"]
          /\ UNCHANGED <<ownVars, event, target, early, struck, cancels>> /\ faults' = faults + 1
      BY <1>4 DEF CancelFailed, Fault
    <3>2. /\ apc' \in [Call -> {"off", "start", "cancelling", "gather", "done"}]
          /\ req' \in [Call -> {"none", "sent", "handled"}]
          /\ server' \in [Con -> {"idle", "running"}]
          /\ reply' \in [Con -> Replies \cup {"none"}]
          /\ open' \in [Con -> BOOLEAN]
      BY <1>a, <3>1 DEF TypeOK
    <3> QED
      BY <1>a, <2>3, <3>1, <3>2 DEF TypeOK
<1> QED
  BY <1>1, <1>2, <1>3, <1>4 DEF WorkStep

\* So do the steps of the server and of the callers.
LEMMA WorldTypeOK ==
  ASSUME TypeOK,
         \/ \E p \in Call : CancelArrives(p) \/ SetEvent(p) \/ Cancel(p)
         \/ \E c \in Con : Executed(c) \/ ExecutionFails(c)
  PROVE  TypeOK'
<1> USE DEF Awaiting, Replies, ownVars, workVars, abortVars, conVars, boundVars
<1>1. ASSUME NEW p \in Call, CancelArrives(p)
      PROVE  TypeOK'
  BY <1>1 DEF TypeOK, CancelArrives
<1>2. ASSUME NEW p \in Call, SetEvent(p)
      PROVE  TypeOK'
  BY <1>2 DEF TypeOK, SetEvent
<1>3. ASSUME NEW p \in Call, Cancel(p)
      PROVE  TypeOK'
  BY <1>3 DEF TypeOK, Cancel
<1>4. ASSUME NEW c \in Con, Executed(c) \/ ExecutionFails(c)
      PROVE  TypeOK'
  BY <1>4 DEF TypeOK, Executed, ExecutionFails, Answer, Fault
<1> QED
  BY <1>1, <1>2, <1>3, <1>4

\* Every step keeps the types.
LEMMA NextTypeOK == Holding /\ [Next]_vars => TypeOK'
<1>1. Holding /\ UNCHANGED vars => TypeOK'
  BY DEF Holding, TypeOK, vars, ownVars, workVars, abortVars, conVars, boundVars
<1>2. Holding => TypeOK
  BY DEF Holding
<1> QED
  BY <1>1, <1>2, OwnTypeOK, TaskTypeOK, WorldTypeOK DEF Next, Step
-----------------------------------------------------------------------------
(* Steps of one call leave the others alone *)

\* Nothing that CallInv(q) speaks of changes, but that its event may be set.
Untouched(q) ==
  /\ pc'[q] = pc[q] /\ con'[q] = con[q] /\ path'[q] = path[q]
  /\ interrupted'[q] = interrupted[q] /\ outcome'[q] = outcome[q]
  /\ wpc'[q] = wpc[q] /\ wres'[q] = wres[q]
  /\ apc'[q] = apc[q] /\ req'[q] = req[q] /\ target'[q] = target[q]
  /\ q \in event => q \in event'
  /\ q \in struck' <=> q \in struck
  /\ con[q] # NoCon => /\ server'[con[q]] = server[con[q]]
                       /\ reply'[con[q]] = reply[con[q]] /\ open'[con[q]] = open[con[q]]

\* A step of another call leaves what is said of this one.
LEMMA UntouchedKeeps ==
  ASSUME FetchInv, NEW q \in Call, Untouched(q)
  PROVE  CallInv(q)'
<1>1. CallInv(q) /\ (con[q] # NoCon <=> pc[q] \in Awaiting)
  BY DEF FetchInv, Exclusive
<1>2. TasksInv(q)'
  BY <1>1 DEF CallInv, Untouched, TasksInv
<1>3. RequestInv(q)'
  BY <1>1 DEF CallInv, Untouched, RequestInv
<1>4. WorkInv(q)'
  BY <1>1 DEF CallInv, Untouched, WorkInv, Pending, Quiet, Awaiting
<1>5. CauseInv(q)'
  BY <1>1 DEF CallInv, Untouched, CauseInv, Awaiting
<1> QED
  BY <1>2, <1>3, <1>4, <1>5 DEF CallInv

\* The invariant is one for holding as well.
LEMMA InvHolding == FetchInv => Holding
BY DEF FetchInv, Holding, CallInv

\* Only the call's own connection, and only its own components.
Mine(p) ==
  /\ \A q \in Call \ {p} :
       /\ pc'[q] = pc[q] /\ con'[q] = con[q] /\ path'[q] = path[q]
       /\ interrupted'[q] = interrupted[q] /\ outcome'[q] = outcome[q]
       /\ wpc'[q] = wpc[q] /\ wres'[q] = wres[q]
       /\ apc'[q] = apc[q] /\ req'[q] = req[q] /\ target'[q] = target[q]
       /\ q \in struck' <=> q \in struck
  /\ event \subseteq event'
  /\ \A c \in Con : c # con[p] /\ c # con'[p] =>
       server'[c] = server[c] /\ reply'[c] = reply[c] /\ open'[c] = open[c]
  /\ con'[p] \in {NoCon, con[p]} \/ (con[p] = NoCon /\ Free(con'[p]))

\* With that, it is enough to look at the call and the connection it holds.
LEMMA MineKeeps ==
  ASSUME FetchInv, NEW p \in Call, Mine(p), TypeOK', CallInv(p)',
         con'[p] # NoCon <=> pc'[p] \in Awaiting,
         con[p] # NoCon /\ con'[p] = NoCon =>
           open'[con[p]] /\ server'[con[p]] = "idle" /\ reply'[con[p]] = "none"
  PROVE  FetchInv'
<1>1. TypeOK /\ Exclusive /\ FreeClean
  BY DEF FetchInv
<1>2. \A q \in Call \ {p} : con[q] # NoCon => con[q] \in Con /\ con[q] # con[p] /\ con[q] # con'[p]
  BY <1>1 DEF Mine, TypeOK, Exclusive, Free
<1>3. ASSUME NEW q \in Call \ {p}
      PROVE  CallInv(q)'
  <2>1. Untouched(q)
    BY <1>2 DEF Mine, Untouched
  <2> QED
    BY <2>1, UntouchedKeeps
<1>4. Exclusive'
  BY <1>1, <1>2 DEF Mine, Exclusive
<1>5. ASSUME NEW c \in Con, Free(c)'
      PROVE  open'[c] /\ server'[c] = "idle" /\ reply'[c] = "none"
  <2>1. con'[p] # c /\ \A q \in Call \ {p} : con[q] # c
    BY <1>5 DEF Free, Mine
  <2>2. CASE con[p] = c
    BY <1>1, <2>1, <2>2, ConAssumption DEF Mine
  <2>3. CASE con[p] # c
    <3>1. Free(c)
      BY <2>1, <2>3 DEF Free
    <3> QED
      BY <1>1, <2>1, <2>3, <3>1 DEF Mine, FreeClean
  <2> QED
    BY <2>2, <2>3
<1>6. FreeClean'
  BY <1>5 DEF FreeClean
<1> QED
  BY <1>3, <1>4, <1>6 DEF FetchInv
-----------------------------------------------------------------------------
(* The steps of one call *)

\* What MineKeeps asks for, but the types.
Kept(p) ==
  /\ Mine(p) /\ CallInv(p)'
  /\ con'[p] # NoCon <=> pc'[p] \in Awaiting
  /\ con[p] # NoCon /\ con'[p] = NoCon =>
       open'[con[p]] /\ server'[con[p]] = "idle" /\ reply'[con[p]] = "none"

\* Beginning, and waiting for a connection, keep what is said of a call.
LEMMA StartKept ==
  ASSUME FetchInv, NEW p \in Call,
         Refuse(p) \/ Start(p) \/ (\E c \in Con : Acquire(p, c)) \/ AcquireCancelled(p)
  PROVE  Kept(p)
<1> USE DEF Kept, Mine, CallInv, WorkInv, TasksInv, RequestInv, CauseInv, Pending, Quiet, Awaiting,
            FetchInv, Exclusive, TypeOK, ownVars, workVars, abortVars, conVars, boundVars
<1>1. CASE Refuse(p)
  BY <1>1 DEF Refuse, Raise
<1>2. CASE Start(p)
  BY <1>2 DEF Start
<1>3. ASSUME NEW c \in Con, Acquire(p, c)
      PROVE  Kept(p)
  BY <1>3, ConAssumption DEF Acquire, FreeClean
<1>4. CASE AcquireCancelled(p)
  BY <1>4 DEF AcquireCancelled, Raise
<1> QED
  BY <1>1, <1>2, <1>3, <1>4

\* So does leaving the block of its connection.
LEMMA EndKept ==
  ASSUME FetchInv, NEW p \in Call, Ended(p) \/ EndCancelled(p)
  PROVE  Kept(p)
<1> USE DEF Kept, Mine, CallInv, WorkInv, TasksInv, RequestInv, CauseInv, Pending, Quiet, Awaiting,
            FetchInv, Exclusive, TypeOK, ownVars, workVars, abortVars, conVars, boundVars, Raise, GiveBack
<1>1. CASE Ended(p)
  BY <1>1 DEF Ended
<1>2. CASE EndCancelled(p)
  BY <1>2 DEF EndCancelled
<1> QED
  BY <1>1, <1>2

\* So does each statement of its work, sent or answered.
LEMMA WorkKept ==
  ASSUME FetchInv, NEW p \in Call, WorkStep(p)
  PROVE  Kept(p)
<1> USE DEF Kept, Mine, CallInv, WorkInv, TasksInv, RequestInv, CauseInv, Pending, Quiet, Awaiting,
            FetchInv, Exclusive, TypeOK, ownVars, workVars, abortVars, conVars, boundVars
<1>1. CASE Send(p)
  BY <1>1 DEF Send
<1>2. CASE Receive(p)
  <2>1. /\ con[p] \in Con /\ pc[p] \in {"wait", "shield"} /\ wpc[p] = "await" /\ reply[con[p]] # "none"
        /\ reply' = [reply EXCEPT ![con[p]] = "none"]
        /\ UNCHANGED <<ownVars, event, abortVars, server, open, struck>>
    BY <1>2 DEF Receive
  <2>2. PICK w \in {"send", "done"}, r \in {wres[p], reply[con[p]], "value"} :
          wpc' = [wpc EXCEPT ![p] = w] /\ wres' = [wres EXCEPT ![p] = r]
    <3>1. wres = [wres EXCEPT ![p] = wres[p]]
      OBVIOUS
    <3> QED
      BY <1>2, <3>1 DEF Receive, Finish, GoTo, Unwind
  <2>3. Mine(p)
    BY <2>1, <2>2
  <2>4. wpc'[p] = w /\ wres'[p] = r /\ reply'[con[p]] = "none" /\ server[con[p]] = "idle"
    BY <2>1, <2>2
  <2>a. /\ reply[con[p]] \in Replies
        /\ UNCHANGED <<pc, con, path, interrupted, outcome, apc, req, target, event, struck, server, open>>
    BY <2>1
  <2>b. WorkInv(p)' /\ TasksInv(p)' /\ RequestInv(p)'
    BY <2>1, <2>4, <2>a
  <2>c. pc[p] = "wait" => r \notin {"canceled", "cancelled"}
    BY <2>1, <2>a DEF Replies
  <2>d. CauseInv(p)'
    BY <2>1, <2>4, <2>a, <2>c
  <2>5. CallInv(p)'
    BY <2>b, <2>d
  <2> QED
    BY <2>1, <2>3, <2>5
<1> QED
  BY <1>1, <1>2 DEF WorkStep

\* So do the steps of its abort and of the cancel request.
LEMMA AbortKept ==
  ASSUME FetchInv, NEW p \in Call, AbortStep(p) \/ CancelFailed(p) \/ CancelArrives(p)
  PROVE  Kept(p)
<1> USE DEF Kept, Mine, CallInv, WorkInv, TasksInv, RequestInv, CauseInv, Pending, Quiet, Awaiting,
            FetchInv, Exclusive, TypeOK, ownVars, workVars, abortVars, conVars, boundVars
<1>1. CASE AbortStep(p)
  BY <1>1 DEF AbortStep, AbortStart, CancelReturned, Gathered
<1>2. CASE CancelFailed(p)
  BY <1>2 DEF CancelFailed, Finish, Fault
<1>3. CASE CancelArrives(p)
  BY <1>3 DEF CancelArrives
<1> QED
  BY <1>1, <1>2, <1>3

\* Leaving _run: the block is left by COMMIT or ROLLBACK, or the connection is
\* given back as the work has left it.
LEMMA LeaveKept ==
  ASSUME FetchInv, NEW p \in Call, pc[p] \in {"wait", "shield"}, wpc[p] = "done",
         apc[p] \in {"off", "done"}, NEW result,
         result = "canceled" => p \in event,
         p \in struck => result = "cancelled",
         Leave(p, result), UNCHANGED <<hit, interrupted, abortVars, struck>>
  PROVE  Kept(p)
<1> USE DEF Kept, Mine, CallInv, WorkInv, TasksInv, RequestInv, CauseInv, Pending, Quiet, Awaiting,
            FetchInv, Exclusive, TypeOK, workVars, abortVars, boundVars
<1>1. CASE shape[p].ends /\ at[p] > 1 /\ open[con[p]]
  BY <1>1 DEF Leave
<1>2. CASE ~(shape[p].ends /\ at[p] > 1 /\ open[con[p]])
  BY <1>2 DEF Leave, GiveBack
<1> QED
  BY <1>1, <1>2

\* The awaits of _run and of _abort_uninterruptibly.
LEMMA WaitKept ==
  ASSUME FetchInv, NEW p \in Call,
         \/ WorkDone(p) \/ EventSet(p) \/ WaitCancelled(p) \/ ShieldCancelled(p)
         \/ AbortedByEvent(p) \/ AbortedAgain(p) \/ AbortedByCancel(p)
  PROVE  Kept(p)
<1>1. CASE WorkDone(p) \/ AbortedByEvent(p) \/ AbortedByCancel(p)
  <2>1. PICK result : Leave(p, result) /\ result = IF AbortedByCancel(p) THEN "cancelled" ELSE Result(p)
    BY <1>1 DEF WorkDone, AbortedByEvent, AbortedByCancel
  <2>2. /\ pc[p] \in {"wait", "shield"} /\ wpc[p] = "done" /\ apc[p] \in {"off", "done"}
        /\ UNCHANGED <<hit, interrupted, abortVars, struck>>
    BY <1>1 DEF WorkDone, AbortedByEvent, AbortedByCancel, Aborted, FetchInv, CallInv, TasksInv
  <2>3. /\ result = "canceled" => p \in event
        /\ p \in struck => result = "cancelled"
    BY <1>1, <2>1 DEF WorkDone, AbortedByEvent, AbortedByCancel, Aborted, Result, FetchInv, CallInv, CauseInv
  <2> QED
    BY <2>1, <2>2, <2>3, LeaveKept
<1>2. CASE EventSet(p) \/ WaitCancelled(p) \/ AbortedAgain(p)
  BY <1>2 DEF EventSet, WaitCancelled, AbortedAgain, Aborted, Abort,
       Kept, Mine, CallInv, WorkInv, TasksInv, RequestInv, CauseInv, Pending, Quiet, Awaiting,
       FetchInv, Exclusive, TypeOK, workVars, conVars, boundVars
<1>3. CASE ShieldCancelled(p)
  BY <1>3 DEF ShieldCancelled,
       Kept, Mine, CallInv, WorkInv, TasksInv, RequestInv, CauseInv, Pending, Quiet, Awaiting,
       FetchInv, Exclusive, TypeOK, workVars, abortVars, conVars, boundVars
<1> QED
  BY <1>1, <1>2, <1>3

\* So do the event its caller sets and a cancellation of its task.
LEMMA CallerKept ==
  ASSUME FetchInv, NEW p \in Call, SetEvent(p) \/ Cancel(p)
  PROVE  Kept(p)
BY DEF SetEvent, Cancel, Kept, Mine, CallInv, WorkInv, TasksInv, RequestInv, CauseInv, Pending, Quiet,
       FetchInv, Exclusive, TypeOK, ownVars, workVars, abortVars, conVars

\* An answer of the server goes to the call that holds the connection.
LEMMA AnswerKept ==
  ASSUME FetchInv, NEW c \in Con, Executed(c) \/ ExecutionFails(c)
  PROVE  \E p \in Call : Kept(p)
<1>1. PICK p \in Call : con[p] = c
  BY DEF Executed, ExecutionFails, Answer, FetchInv, FreeClean, Free
<1>2. Kept(p)
  BY <1>1 DEF Executed, ExecutionFails, Answer, Kept, Mine, CallInv, WorkInv, TasksInv, RequestInv,
       CauseInv, Pending, Quiet, Awaiting, FetchInv, Exclusive, TypeOK, ownVars, workVars, abortVars
<1> QED
  BY <1>2
-----------------------------------------------------------------------------
(* The theorems *)

\* The invariant holds initially.
LEMMA InitInv == Init => FetchInv
BY InitTypeOK DEF Init, FetchInv, Exclusive, FreeClean, CallInv, WorkInv, TasksInv, RequestInv, CauseInv,
     Awaiting

\* Every step keeps it: the step's own call by the lemmas above, the others untouched.
LEMMA NextInv == FetchInv /\ [Next]_vars => FetchInv'
<1> SUFFICES ASSUME FetchInv, [Next]_vars PROVE FetchInv'
  OBVIOUS
<1>1. TypeOK'
  BY InvHolding, NextTypeOK
<1>2. CASE UNCHANGED vars
  BY <1>2 DEF FetchInv, vars, ownVars, workVars, abortVars, conVars, boundVars, TypeOK, Exclusive, FreeClean,
       Free, CallInv, WorkInv, TasksInv, RequestInv, CauseInv, Pending, Quiet, Awaiting
<1>3. ASSUME NEW p \in Call, Kept(p)
      PROVE  FetchInv'
  BY <1>1, <1>3, MineKeeps DEF Kept
<1>4. CASE \E p \in Call : Step(p) \/ CancelFailed(p) \/ SetEvent(p) \/ Cancel(p)
  BY <1>3, <1>4, StartKept, WaitKept, EndKept, WorkKept, AbortKept, CallerKept DEF Step, OwnStep
<1>5. CASE \E c \in Con : Executed(c) \/ ExecutionFails(c)
  BY <1>3, <1>5, AnswerKept
<1> QED
  BY <1>2, <1>4, <1>5 DEF Next

\* So it is an invariant.
LEMMA InvCorrect == Spec => []FetchInv
BY InitInv, NextInv, PTL DEF Spec

\* Every variable keeps its type, as the code's tasks and the server use it
\* (db/fetch.py, _run and _abort).
THEOREM TypeCorrect == Spec => []TypeOK
<1>1. FetchInv => TypeOK
  BY DEF FetchInv
<1> QED
  BY <1>1, InvCorrect, PTL

\* A connection that _run gives back is open and idle, no cancel request is under
\* way to it, and no task of the call goes on, however a cancellation, the event
\* and a failing cancel request have met.
THEOREM BackIdle == Spec => []GivenBackIdle
<1>1. FetchInv => GivenBackIdle
  <2> SUFFICES ASSUME FetchInv PROVE GivenBackIdle
    OBVIOUS
  <2>1. ASSUME NEW c \in Con, Free(c), NEW p \in Call, req[p] # "none"
        PROVE  target[p] # c
    BY <2>1 DEF FetchInv, CallInv, RequestInv, Free
  <2>2. \A p \in Call : pc[p] = "done" => wpc[p] \in {"off", "done"} /\ apc[p] \in {"off", "done"}
    BY DEF FetchInv, CallInv, TasksInv
  <2> QED
    BY <2>1, <2>2 DEF FetchInv, FreeClean, GivenBackIdle
<1> QED
  BY <1>1, InvCorrect, PTL

\* QueryCanceled is raised by calls whose own event is set, and by no others.
THEOREM NoneStray == Spec => []NoStrayCancel
<1>1. FetchInv => NoStrayCancel
  BY DEF FetchInv, CallInv, CauseInv, NoStrayCancel
<1> QED
  BY <1>1, InvCorrect, PTL

\* A task that was cancelled while it awaited _run raises CancelledError.
THEOREM CancellationRaised == Spec => []CancellationKept
<1>1. FetchInv => CancellationKept
  BY DEF FetchInv, CallInv, CauseInv, CancellationKept
<1> QED
  BY <1>1, InvCorrect, PTL
===============================================================================
