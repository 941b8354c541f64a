----------------------------- MODULE WebAppProofs -----------------------------
(***************************************************************************)
(* Proofs about WebApp, for any number of requests and connections, any    *)
(* jobs, any size of the queue, any number of faults and cancellations.    *)
(***************************************************************************)
EXTENDS WebApp, TLAPS

-----------------------------------------------------------------------------
(* Types *)

Cause == {"scope", "ext"}
Message == {"body", "gone", "broken"}
Lookup == {"column", "columns"}
Outcomes == {"none", "value", "499", "cancelled", "gone", "error", "timeout", "limit"}
Streaming == {"rows", "head", "chunk", "cancel", "close"}
Sending == {"tail", "error_head", "error_body", "late_head", "late_body"}
Handling == {"plan", "statement", "cancelling"}
Holding == Streaming \cup Handling \cup {"ending", "leaving"}
Place == Holding \cup Sending \cup {"start", "body", "acquire", "released", "done"}
Caches == [dict : BOOLEAN, info : SUBSET Nat, column : SUBSET Nat, columns : SUBSET Nat]

TaskTypeOK ==
  /\ setup \in Setups
  /\ pc \in [Request -> Place]
  /\ exc \in [Request -> Outcomes] /\ outcome \in [Request -> Outcomes]
  /\ hit \in [Request -> SUBSET Cause] /\ ext \subseteq Request
  /\ scope \in [Request -> {"off", "entered", "due", "expired", "left"}]
  /\ watch \in [Request -> {"off", "waiting", "done"}]
  /\ client \in [Request -> {"here", "gone"}]

PoolTypeOK ==
  /\ con \in [Request -> Con \cup {NoCon}]
  /\ tx \in [Con -> {"idle", "active", "open"}]
  /\ readonly \subseteq Con /\ tainted \subseteq Con \cup {NoCon} /\ refused \subseteq Request
  /\ cache \in [Con -> Caches] /\ stale \in [Con -> SUBSET Parts] /\ type \in Nat
  /\ running \subseteq Request /\ lost \subseteq Request /\ late \subseteq Con \cup {NoCon}

StreamTypeOK ==
  /\ left \in [Request -> Nat] /\ batch \in [Request -> Nat] /\ told \in [Request -> Nat]
  /\ status \in [Request -> {0, 200, 499, 500, 504}]
  /\ body \in [Request -> {"none", "open", "whole", "message"}]
  /\ over \subseteq Request

RouteTypeOK ==
  /\ hold \in [Request -> Message]
  /\ queue \in [Request -> Seq(Message)]
  /\ disconnected \subseteq Request
  /\ stmt \in [Request -> {"none", "begin", "dict", "lookup", "info", "run"}]
  /\ todo \in [Request -> Seq(Lookup)]
  /\ found \in [Request -> SUBSET Nat]

TypeOK == TaskTypeOK /\ PoolTypeOK /\ StreamTypeOK /\ RouteTypeOK
\* The constants of a behaviour.
LEMMA SetupFacts ==
  ASSUME setup \in Setups
  PROVE  /\ \A p \in Request : Job(p) \in Jobs
         /\ setup.type \in Nat /\ setup.types \in Nat /\ setup.faults \in Nat /\ setup.cancels \in Nat
BY SetupAssumption DEF Job

\* The type invariant holds initially.
LEMMA InitTypeOK == Init => TypeOK
<1> SUFFICES ASSUME Init PROVE TypeOK
  OBVIOUS
<1>1. setup \in Setups /\ \A p \in Request : Job(p).rows \in Nat
  BY SetupFacts DEF Init, ServingInit, Jobs
<1>2. TaskTypeOK
  BY <1>1 DEF Init, ServingInit, TaskTypeOK, Place, Outcomes, Cause
<1>3. PoolTypeOK
  BY <1>1, SetupFacts DEF Init, ServingInit, PoolTypeOK, EmptyCache, Caches, Parts
<1>4. StreamTypeOK
  BY <1>1 DEF Init, StreamInit, StreamTypeOK
<1>5. RouteTypeOK
  <2>1. <<"columns">> \in Seq(Lookup) /\ <<"column", "columns">> \in Seq(Lookup)
    BY DEF Lookup
  <2>2. queue \in [Request -> Seq(Message)] /\ hold \in [Request -> Message]
    BY DEF Init, RouteInit, Message
  <2> QED
    BY <2>1, <2>2 DEF Init, RouteInit, RouteTypeOK
<1> QED
  BY <1>2, <1>3, <1>4, <1>5 DEF TypeOK

\* The cancel scope's ends keep the types.
LEMMA ExitTypes ==
  ASSUME TaskTypeOK, NEW p \in Request, Exit(p)
  PROVE  /\ hit' \in [Request -> SUBSET Cause] /\ ext' \subseteq Request
         /\ scope' \in [Request -> {"off", "entered", "due", "expired", "left"}]
         /\ watch' \in [Request -> {"off", "waiting", "done"}]
BY DEF TaskTypeOK, Exit

\* Ending a request keeps the types of what it ends with.
LEMMA DoneTypes ==
  ASSUME TaskTypeOK, NEW p \in Request, NEW r \in Outcomes, Done(p, r)
  PROVE  pc' \in [Request -> Place] /\ outcome' \in [Request -> Outcomes]
BY DEF TaskTypeOK, Done, Place, Outcomes

\* The end of a JSON response keeps the types.
LEMMA StreamExitTypes ==
  ASSUME TypeOK, NEW p \in Request, NEW r \in Outcomes, StreamExit(p, r), UNCHANGED exc,
         body' \in [Request -> {"none", "open", "whole", "message"}], over' \subseteq Request, UNCHANGED routeVars
  PROVE  TypeOK'
<1>1. TaskTypeOK /\ Exit(p)
  BY DEF TypeOK, StreamExit
<1>2. UNCHANGED <<poolVars, worldVars, left, batch, told>>
  BY DEF StreamExit
<1>3. pc' \in [Request -> Place] /\ outcome' \in [Request -> Outcomes]
      /\ status' \in [Request -> {0, 200, 499, 500, 504}]
  <2>1. CASE Expired(p, r) /\ status[p] = 0
    BY <2>1 DEF StreamExit, Goto, Start, TypeOK, TaskTypeOK, StreamTypeOK, Place, Sending
  <2>2. CASE ~(Expired(p, r) /\ status[p] = 0)
    <3>1. PICK x \in {"499", r} : Done(p, x)
      BY <2>2 DEF StreamExit
    <3>2. UNCHANGED status
      BY <2>2 DEF StreamExit
    <3> QED
      BY <1>1, <3>1, <3>2, DoneTypes DEF TypeOK, StreamTypeOK, Outcomes
  <2> QED
    BY <2>1, <2>2
<1>4. TaskTypeOK'
  BY <1>1, <1>2, <1>3, ExitTypes DEF TaskTypeOK, worldVars
<1> QED
  BY <1>2, <1>3, <1>4 DEF TypeOK, PoolTypeOK, StreamTypeOK, RouteTypeOK, poolVars, worldVars, routeVars,
     readerVars, handlerVars
\* What a connection's block and the pool do to it keeps the types.
LEMMA EndTypes ==
  ASSUME TaskTypeOK, PoolTypeOK, NEW p \in Request, NEW why \in Outcomes, EndTransaction(p, why)
  PROVE  /\ exc' \in [Request -> Outcomes] /\ pc' \in [Request -> Place]
         /\ tx' \in [Con -> {"idle", "active", "open"}] /\ running' \subseteq Request
         /\ UNCHANGED <<con, readonly, tainted, refused, cache, stale, late>>
BY DEF TaskTypeOK, PoolTypeOK, EndTransaction, Send, Status, Place, Holding

\* Replacing a connection keeps the types of the pool.
LEMMA ReplaceTypes ==
  ASSUME TaskTypeOK, PoolTypeOK, NEW p \in Request, Replace(p)
  PROVE  /\ pc' \in [Request -> Place] /\ con' \in [Request -> Con \cup {NoCon}]
         /\ tx' \in [Con -> {"idle", "active", "open"}] /\ readonly' \subseteq Con
         /\ tainted' \subseteq Con \cup {NoCon} /\ late' \subseteq Con \cup {NoCon}
         /\ cache' \in [Con -> Caches] /\ stale' \in [Con -> SUBSET Parts]
<1>1. EmptyCache \in Caches
  BY DEF EmptyCache, Caches
<1> QED
  BY <1>1 DEF TaskTypeOK, PoolTypeOK, Replace, Return, Place

\* Giving back one that is idle does.
LEMMA IdleTypes ==
  ASSUME TaskTypeOK, PoolTypeOK, NEW p \in Request, GiveBack(p), Restore(p) \/ UNCHANGED readonly
  PROVE  /\ pc' \in [Request -> Place] /\ con' \in [Request -> Con \cup {NoCon}]
         /\ tx' \in [Con -> {"idle", "active", "open"}] /\ readonly' \subseteq Con
         /\ UNCHANGED <<tainted, refused, cache, stale, late>>
BY DEF TaskTypeOK, PoolTypeOK, GiveBack, Return, Restore, Place

\* And so does a flag that cannot be put back.
LEMMA RefusedTypes ==
  ASSUME TaskTypeOK, PoolTypeOK, NEW p \in Request, NEW s \in {"active", "open"}, RestoreFails(p, s)
  PROVE  /\ pc' \in [Request -> Place] /\ exc' \in [Request -> Outcomes]
         /\ tx' \in [Con -> {"idle", "active", "open"}]
         /\ tainted' \subseteq Con \cup {NoCon} /\ refused' \subseteq Request
         /\ UNCHANGED <<con, readonly, cache, stale, late>>
<1>1. pc' \in [Request -> Place] /\ exc' \in [Request -> Outcomes]
  BY DEF TaskTypeOK, RestoreFails, Place, Holding, Outcomes
<1>2. tx' \in [Con -> {"idle", "active", "open"}]
  BY DEF PoolTypeOK, RestoreFails, Status
<1>3. tainted' \subseteq Con \cup {NoCon} /\ refused' \subseteq Request
  BY DEF PoolTypeOK, RestoreFails
<1> QED
  BY <1>1, <1>2, <1>3 DEF RestoreFails

\* The steps of a JSON response keep the types.
LEMMA StreamStepTypes ==
  ASSUME TypeOK, NEW p \in Request, StreamNext(p), UNCHANGED routeVars
  PROVE  TypeOK'
<1> USE DEF taskVars, poolVars, worldVars, streamVars, wireVars
<1>0. TaskTypeOK /\ PoolTypeOK /\ StreamTypeOK /\ RouteTypeOK /\ RouteTypeOK'
  BY DEF TypeOK, RouteTypeOK, routeVars, readerVars, handlerVars
<1>1. CASE StreamCall(p)
  BY <1>0, <1>1 DEF TypeOK, TaskTypeOK, PoolTypeOK, StreamTypeOK, StreamCall, Enter, Goto, Place
<1>2. ASSUME NEW c \in Con, StreamAcquire(p, c)
      PROVE  TypeOK'
  BY <1>0, <1>2 DEF TypeOK, TaskTypeOK, PoolTypeOK, StreamTypeOK, StreamAcquire, Goto, Place, Holding,
     Streaming
<1>3. CASE RowArrives(p)
  BY <1>0, <1>3 DEF TypeOK, TaskTypeOK, PoolTypeOK, StreamTypeOK, RowArrives, Yield, Start, Goto, Place,
     Holding, Streaming
<1>4. CASE RowsEnd(p)
  <2>1. pc' \in [Request -> Place] /\ status' \in [Request -> {0, 200, 499, 500, 504}]
    BY <1>0, <1>4 DEF TaskTypeOK, StreamTypeOK, RowsEnd, Yield, Start, Goto, Place, Holding, Streaming
  <2>2. tx' \in [Con -> {"idle", "active", "open"}] /\ running' \subseteq Request
    BY <1>0, <1>4 DEF PoolTypeOK, RowsEnd, Ends, Status
  <2> QED
    BY <1>0, <1>4, <2>1, <2>2 DEF TypeOK, TaskTypeOK, PoolTypeOK, StreamTypeOK, RowsEnd
<1>5. CASE HeadSent(p)
  BY <1>0, <1>5 DEF TypeOK, TaskTypeOK, PoolTypeOK, StreamTypeOK, HeadSent, Goto, Place, Holding,
     Streaming
<1>6. CASE ChunkSent(p)
  <2>1. StreamTypeOK' /\ UNCHANGED <<outcome, hit, ext, scope, watch, lost, worldVars>>
    BY <1>0, <1>6 DEF StreamTypeOK, ChunkSent
  <2>2. CASE QueryOver(p)
    BY <1>0, <1>6, <2>1, <2>2, EndTypes DEF ChunkSent, TypeOK, TaskTypeOK, PoolTypeOK, Outcomes
  <2>3. CASE ~QueryOver(p)
    BY <1>0, <1>6, <2>1, <2>3 DEF ChunkSent, TypeOK, TaskTypeOK, PoolTypeOK, Goto, Place, Holding,
       Streaming
  <2> QED
    BY <2>2, <2>3
<1>7. CASE QueryFails(p)
  <2>1. PICK why \in Outcomes : EndTransaction(p, why)
    BY <1>7 DEF QueryFails, Outcomes
  <2> QED
    BY <1>0, <1>7, <2>1, EndTypes DEF QueryFails, Fault, TypeOK, TaskTypeOK, PoolTypeOK, StreamTypeOK
<1>8. ASSUME NEW why \in Outcomes, Unwind(p, why), hit' \in [Request -> SUBSET Cause],
             UNCHANGED <<outcome, ext, scope, watch, lost, worldVars, streamVars>>
      PROVE  TypeOK'
  <2>1. CASE EndTransaction(p, why)
    BY <1>0, <1>8, <2>1, EndTypes DEF TypeOK, TaskTypeOK, PoolTypeOK, StreamTypeOK
  <2>2. CASE ~EndTransaction(p, why)
    BY <1>0, <1>8, <2>2 DEF Unwind, TypeOK, TaskTypeOK, PoolTypeOK, StreamTypeOK, Goto, Place, Holding,
       Streaming
  <2> QED
    BY <2>1, <2>2
<1>9. CASE Interrupted(p)
  <2>1. Unwind(p, "cancelled") /\ "cancelled" \in Outcomes /\ hit' = [hit EXCEPT ![p] = {}]
        /\ UNCHANGED <<outcome, ext, scope, watch, lost, worldVars, streamVars>>
    BY <1>9 DEF Interrupted, Outcomes
  <2> QED
    BY <1>0, <1>8, <2>1 DEF TaskTypeOK
<1>10. CASE SendFails(p)
  <2>1. Unwind(p, "gone") /\ "gone" \in Outcomes /\ hit' = hit
        /\ UNCHANGED <<outcome, ext, scope, watch, lost, worldVars, streamVars>>
    BY <1>10 DEF SendFails, Outcomes
  <2> QED
    BY <1>0, <1>8, <2>1 DEF TaskTypeOK
<1>11. CASE CancelHandled(p) \/ CancelFails(p)
  BY <1>0, <1>11 DEF TypeOK, TaskTypeOK, PoolTypeOK, StreamTypeOK, CancelHandled, CancelFails, Fault,
     Goto, Place, Holding, Streaming
<1>12. CASE CleanupInterrupted(p)
  BY <1>0, <1>12 DEF TypeOK, TaskTypeOK, PoolTypeOK, StreamTypeOK, CleanupInterrupted, Outcomes
<1>13. CASE Closed(p)
  BY <1>0, <1>13, ReplaceTypes DEF TypeOK, TaskTypeOK, PoolTypeOK, StreamTypeOK, Closed
<1>14. ASSUME NEW r \in Outcomes, StreamExit(p, r), UNCHANGED exc,
              body' \in [Request -> {"none", "open", "whole", "message"}], over' \subseteq Request
       PROVE  TypeOK'
  BY <1>14, StreamExitTypes
<1>15. ASSUME NEW x \in Place, Goto(p, x), UNCHANGED <<exc, outcome, hit, ext, scope, watch, poolVars, worldVars>>,
              StreamTypeOK'
       PROVE  TypeOK'
  BY <1>0, <1>15 DEF TypeOK, TaskTypeOK, PoolTypeOK, Goto
<1>16. CASE Released(p)
  <2>1. CASE StreamExit(p, exc[p])
    BY <1>0, <1>14, <1>16, <2>1 DEF Released, TaskTypeOK, StreamTypeOK
  <2>2. CASE ~StreamExit(p, exc[p])
    <3>1. PICK x \in Place : Goto(p, x)
      BY <1>16, <2>2 DEF Released, Place, Sending
    <3> QED
      BY <1>0, <1>15, <1>16, <2>2, <3>1 DEF Released, StreamTypeOK, Start
  <2> QED
    BY <2>1, <2>2
<1>17. CASE LastSent(p) \/ LastFails(p)
  <2>1. body' \in [Request -> {"none", "open", "whole", "message"}] /\ over' \subseteq Request /\ exc' = exc
    BY <1>0, <1>17 DEF LastSent, LastFails, StreamTypeOK
  <2>2. CASE \E r \in {"value", "cancelled", "gone"} : StreamExit(p, r)
    BY <1>14, <2>1, <2>2 DEF Outcomes
  <2>3. CASE ~\E r \in {"value", "cancelled", "gone"} : StreamExit(p, r)
    <3>1. UNCHANGED <<hit, ext, scope, watch, poolVars, worldVars, left, batch, status, told>>
          /\ (Done(p, "499") \/ ((\E x \in {"late_body", "error_body"} : Goto(p, x)) /\ UNCHANGED <<outcome, streamVars>>))
      BY <1>17, <2>3 DEF LastSent, LastFails
    <3>2. pc' \in [Request -> Place] /\ outcome' \in [Request -> Outcomes]
      <4>1. CASE Done(p, "499")
        BY <1>0, <4>1, DoneTypes DEF Outcomes
      <4>2. CASE (\E x \in {"late_body", "error_body"} : Goto(p, x)) /\ UNCHANGED <<outcome, streamVars>>
        BY <1>0, <4>2 DEF Goto, TaskTypeOK, Place, Sending
      <4> QED
        BY <3>1, <4>1, <4>2
    <3> QED
      BY <1>0, <2>1, <3>1, <3>2 DEF TypeOK, TaskTypeOK, PoolTypeOK, StreamTypeOK
  <2> QED
    BY <2>2, <2>3
<1>18. CASE Watch(p)
  BY <1>0, <1>18 DEF TypeOK, TaskTypeOK, PoolTypeOK, StreamTypeOK, Watch, Reschedule
<1> QED
  BY <1>1, <1>2, <1>3, <1>4, <1>5, <1>6, <1>7, <1>9, <1>10, <1>11, <1>12, <1>13, <1>16, <1>17, <1>18
     DEF StreamNext, StreamStep
\* So do the ends of a route's request.
LEMMA RouteExitTypes ==
  ASSUME TypeOK, NEW p \in Request, NEW r \in Outcomes, RouteExit(p, r),
         exc' \in [Request -> Outcomes], queue' \in [Request -> Seq(Message)], UNCHANGED streamVars
  PROVE  TypeOK'
<1>1. TaskTypeOK /\ Exit(p)
  BY DEF TypeOK, RouteExit
<1>2. UNCHANGED <<poolVars, worldVars, hold, disconnected, handlerVars>>
  BY DEF RouteExit
<1>3. PICK x \in Outcomes : Done(p, x)
  BY DEF RouteExit, Outcomes
<1>4. TaskTypeOK'
  BY <1>1, <1>2, <1>3, ExitTypes, DoneTypes DEF TaskTypeOK, worldVars
<1> QED
  BY <1>2, <1>4 DEF TypeOK, PoolTypeOK, StreamTypeOK, RouteTypeOK, poolVars, worldVars, streamVars,
     handlerVars

\* The steps of a cache keep it one.
LEMMA CacheTypes ==
  ASSUME NEW c \in Caches, NEW lookup \in Lookup, NEW f, NEW s, NEW t \in Nat
  PROVE  Remember(c, lookup, f) \in Caches /\ Learn(c, s, t) \in Caches /\ ClearCache(c) \in Caches
<1>1. Remember(c, lookup, f) \in Caches
  <2>1. CASE lookup = "column"
    BY <2>1 DEF Remember, NoColumn, Caches
  <2>2. CASE lookup = "columns"
    BY <2>2 DEF Remember, NoColumn, Caches
  <2> QED
    BY <2>1, <2>2 DEF Lookup
<1>2. Learn(c, s, t) \in Caches
  BY DEF Learn, Caches
<1>3. ClearCache(c) \in Caches
  BY DEF ClearCache, EmptyCache, Caches
<1> QED
  BY <1>1, <1>2, <1>3

\* The steps of a route's request keep the types.
LEMMA RouteStepTypes ==
  ASSUME TypeOK, NEW p \in Request, RouteNext(p), UNCHANGED streamVars
  PROVE  TypeOK'
<1> USE DEF taskVars, poolVars, worldVars, readerVars, handlerVars, routeVars
<1>0. TaskTypeOK /\ PoolTypeOK /\ StreamTypeOK /\ RouteTypeOK /\ StreamTypeOK'
  BY DEF TypeOK, StreamTypeOK, streamVars
<1>1. CASE RouteCall(p)
  BY <1>0, <1>1 DEF TypeOK, TaskTypeOK, PoolTypeOK, RouteTypeOK, RouteCall, Enter, Move, Place
<1>2. ASSUME NEW c \in Con, RouteAcquire(p, c)
      PROVE  TypeOK'
  <2>1. ClearCache(cache[c]) \in Caches
    BY DEF ClearCache, EmptyCache, Caches
  <2>2. cache' \in [Con -> Caches] /\ stale' \in [Con -> SUBSET Parts]
    BY <1>0, <1>2, <2>1 DEF PoolTypeOK, RouteAcquire
  <2>3. con' = [con EXCEPT ![p] = c]
        /\ UNCHANGED <<exc, outcome, hit, ext, scope, watch, tainted, refused, lost, late, worldVars,
                       readerVars, unread, todo, found>>
    BY <1>2 DEF RouteAcquire
  <2>4. con' \in [Request -> Con \cup {NoCon}]
    BY <1>0, <2>3 DEF PoolTypeOK
  <2>5. readonly' \subseteq Con /\ tx' \in [Con -> {"idle", "active", "open"}] /\ running' \subseteq Request
    BY <1>0, <1>2 DEF PoolTypeOK, RouteAcquire
  <2>6. pc' \in [Request -> Place]
    <3>1. "statement" \in Place /\ "plan" \in Place
      BY DEF Place, Holding, Handling
    <3>2. pc' = [pc EXCEPT ![p] = "statement"] \/ pc' = [pc EXCEPT ![p] = "plan"]
      BY <1>2 DEF RouteAcquire, Move
    <3> QED
      BY <1>0, <3>1, <3>2 DEF TaskTypeOK
  <2>7. stmt' \in [Request -> {"none", "begin", "dict", "lookup", "info", "run"}]
    <3>1. stmt' = [stmt EXCEPT ![p] = "begin"] \/ stmt' = stmt
      BY <1>2 DEF RouteAcquire
    <3> QED
      BY <1>0, <3>1 DEF RouteTypeOK
  <2> QED
    BY <1>0, <2>2, <2>3, <2>4, <2>5, <2>6, <2>7 DEF TypeOK, TaskTypeOK, PoolTypeOK, RouteTypeOK
<1>3. CASE Receive(p)
  <2>1. hold' \in [Request -> Message] /\ disconnected' \subseteq Request
    BY <1>0, <1>3 DEF RouteTypeOK, Receive, Message
  <2> QED
    BY <1>0, <1>3, <2>1 DEF TypeOK, TaskTypeOK, PoolTypeOK, RouteTypeOK, Receive, Fault
<1>4. CASE Put(p)
  <2>1. queue' \in [Request -> Seq(Message)]
    BY <1>0, <1>4 DEF RouteTypeOK, Put
  <2> QED
    BY <1>0, <1>4, <2>1 DEF TypeOK, TaskTypeOK, PoolTypeOK, RouteTypeOK, Put
<1>5. CASE CancelWhenGone(p)
  BY <1>0, <1>5 DEF TypeOK, TaskTypeOK, PoolTypeOK, RouteTypeOK, CancelWhenGone, Reschedule
<1>6. ASSUME NEW r \in Outcomes, RouteExit(p, r), exc' \in [Request -> Outcomes],
             queue' \in [Request -> Seq(Message)]
      PROVE  TypeOK'
  BY <1>6, RouteExitTypes
<1>7. CASE Read(p)
  <2>1. queue' \in [Request -> Seq(Message)]
    BY <1>0, <1>7 DEF RouteTypeOK, Read
  <2>2. CASE Head(queue[p]) = "body"
    <3>1. UNCHANGED <<setup, exc, outcome, hit, ext, scope, watch, poolVars, worldVars, streamVars>>
      BY <1>0, <1>7, <2>2 DEF Read, Move
    <3>2. pc' \in [Request -> Place]
      BY <1>0, <1>7, <2>2 DEF TaskTypeOK, Read, Move, Place, Holding, Handling
    <3>3. UNCHANGED <<hold, disconnected, stmt, todo, found>>
      BY <1>0, <1>7, <2>2 DEF Read, Move
    <3> QED
      BY <1>0, <2>1, <3>1, <3>2, <3>3 DEF TypeOK, TaskTypeOK, PoolTypeOK, RouteTypeOK
  <2>3. CASE Head(queue[p]) # "body"
    <3>1. PICK r \in {"gone", "error"} : exc' = [exc EXCEPT ![p] = r]
      BY <1>7, <2>3 DEF Read
    <3>2. exc' \in [Request -> Outcomes] /\ exc'[p] \in Outcomes
      BY <1>0, <3>1 DEF TaskTypeOK, Outcomes
    <3> QED
      BY <1>6, <1>7, <2>1, <2>3, <3>2 DEF Read
  <2> QED
    BY <2>2, <2>3
<1>8. CASE ReadCancelled(p)
  BY <1>0, <1>6, <1>8 DEF ReadCancelled, TaskTypeOK, RouteTypeOK, Outcomes
<1>9. CASE Plan(p)
  <2>1. CASE todo[p] = <<>>
    <3>1. Execute(p, "run") /\ UNCHANGED <<cache, todo, found>>
          /\ UNCHANGED <<exc, outcome, hit, ext, scope, watch, con, readonly, tainted, refused, stale, lost, late, worldVars,
                         readerVars, unread>>
      BY <1>9, <2>1 DEF Plan
    <3> QED
      BY <1>0, <3>1 DEF TypeOK, TaskTypeOK, PoolTypeOK, RouteTypeOK, Execute, Send, Status, Move,
         Place, Holding, Handling
  <2>2. CASE todo[p] # <<>>
    <3> DEFINE known == cache[con[p]]
               next == Ask(known, Head(todo[p]), found[p])
    <3>1. Head(todo[p]) \in Lookup /\ Tail(todo[p]) \in Seq(Lookup)
      BY <1>0, <2>2 DEF RouteTypeOK
    <3>2. next \in {"none", "dict", "lookup", "info"}
      BY DEF Ask
    <3>3. CASE next # "none"
      <4>1. Execute(p, next) /\ UNCHANGED <<cache, todo, found>>
            /\ UNCHANGED <<exc, outcome, hit, ext, scope, watch, con, readonly, tainted, refused, stale, lost, late, worldVars,
                         readerVars, unread>>
        BY <1>9, <2>2, <3>3 DEF Plan
      <4> HIDE DEF next
      <4> QED
        BY <1>0, <3>2, <4>1 DEF TypeOK, TaskTypeOK, PoolTypeOK, RouteTypeOK, Execute, Send, Status, Move,
           Place, Holding, Handling
    <3>4. CASE next = "none"
      <4>1. /\ cache' = [cache EXCEPT ![con[p]] = Remember(known, Head(todo[p]), found[p])]
            /\ todo' = [todo EXCEPT ![p] = Tail(@)] /\ found' = [found EXCEPT ![p] = {}]
            /\ UNCHANGED <<pc, stmt, tx, running>>
            /\ UNCHANGED <<exc, outcome, hit, ext, scope, watch, con, readonly, tainted, refused, stale, lost, late, worldVars,
                         readerVars, unread>>
        BY <1>9, <2>2, <3>4 DEF Plan
      <4>2. con[p] \in Con => Remember(known, Head(todo[p]), found[p]) \in Caches
        BY <1>0, <3>1, CacheTypes DEF PoolTypeOK
      <4>3. cache' \in [Con -> Caches]
        BY <1>0, <4>1, <4>2 DEF PoolTypeOK
      <4>4. todo' \in [Request -> Seq(Lookup)] /\ found' \in [Request -> SUBSET Nat]
        BY <1>0, <3>1, <4>1 DEF RouteTypeOK
      <4> QED
        BY <1>0, <4>1, <4>3, <4>4 DEF TypeOK, TaskTypeOK, PoolTypeOK, RouteTypeOK
    <3> QED
      BY <3>3, <3>4
  <2> QED
    BY <2>1, <2>2
<1>10. CASE Answered(p)
  <2>1. con[p] \in Con => Learn(cache[con[p]], stmt[p], type) \in Caches
    BY <1>0, CacheTypes DEF PoolTypeOK, Lookup
  <2>2. cache' \in [Con -> Caches]
    BY <1>0, <1>10, <2>1 DEF Answered, PoolTypeOK
  <2>3. found' \in [Request -> SUBSET Nat]
    BY <1>0, <1>10 DEF Answered, PoolTypeOK, RouteTypeOK
  <2> QED
    BY <1>0, <1>10, <2>2, <2>3 DEF TypeOK, TaskTypeOK, PoolTypeOK, RouteTypeOK, Answered, Ends, Status, Move,
       Place, Holding, Handling
<1>11. ASSUME NEW why \in Outcomes, EndTransaction(p, why), hit' \in [Request -> SUBSET Cause],
              UNCHANGED <<outcome, ext, scope, watch, lost, setup, client, type, routeVars>>
       PROVE  TypeOK'
  BY <1>0, <1>11, EndTypes DEF TypeOK, TaskTypeOK, PoolTypeOK, RouteTypeOK
<1>12. ASSUME NEW why \in Outcomes, BeginFailed(p, why),
              UNCHANGED <<hit, outcome, ext, scope, watch, lost, setup, client, type, routeVars>>
       PROVE  TypeOK'
  <2>1. GiveBack(p) /\ Restore(p) /\ exc' \in [Request -> Outcomes] /\ running' \subseteq Request
    BY <1>0, <1>12 DEF BeginFailed, TaskTypeOK, PoolTypeOK
  <2> QED
    BY <1>0, <1>12, <2>1, IdleTypes DEF TypeOK, TaskTypeOK, PoolTypeOK, RouteTypeOK
<1>13. ASSUME NEW s \in {"active", "open"}, RestoreFails(p, s), hit' \in [Request -> SUBSET Cause],
              running' \subseteq Request, lost' \subseteq Request,
              UNCHANGED <<outcome, ext, scope, watch, worldVars, routeVars>>
       PROVE  TypeOK'
  BY <1>0, <1>13, RefusedTypes DEF TypeOK, TaskTypeOK, PoolTypeOK, RouteTypeOK
<1>14. ASSUME Replace(p), exc' \in [Request -> Outcomes], hit' \in [Request -> SUBSET Cause],
              running' \subseteq Request, lost' \subseteq Request,
              UNCHANGED <<outcome, ext, scope, watch, refused, setup, client, type, routeVars>>
       PROVE  TypeOK'
  BY <1>0, <1>14, ReplaceTypes DEF TypeOK, TaskTypeOK, PoolTypeOK, RouteTypeOK
<1>15. CASE Executed(p)
  BY <1>0, <1>11, <1>15 DEF Executed, TaskTypeOK, Outcomes
<1>16. CASE HandlerFails(p)
  <2>1. UNCHANGED <<hit, outcome, ext, scope, watch, lost, setup, client, type, routeVars>>
        /\ (EndTransaction(p, "error") \/ BeginFailed(p, "error"))
    BY <1>16 DEF HandlerFails, Fault
  <2> QED
    BY <1>0, <1>11, <1>12, <2>1 DEF TaskTypeOK, Outcomes
<1>17. CASE Interrupt(p, "cancelled") \/ Interrupt(p, "timeout")
  <2>1. exc' \in [Request -> Outcomes] /\ hit' \in [Request -> SUBSET Cause] /\ pc' \in [Request -> Place]
    BY <1>0, <1>17 DEF Interrupt, Move, TaskTypeOK, Outcomes, Place, Holding, Handling
  <2> QED
    BY <1>0, <1>17, <2>1 DEF Interrupt, Fault, TypeOK, TaskTypeOK, PoolTypeOK, RouteTypeOK
<1>18. CASE StatementCancelled(p)
  <2>1. UNCHANGED <<hit, outcome, ext, scope, watch, lost, worldVars, routeVars>> /\ exc[p] \in Outcomes
    BY <1>0, <1>18 DEF StatementCancelled, TaskTypeOK
  <2>2. CASE EndTransaction(p, exc[p])
    BY <1>0, <1>11, <2>1, <2>2 DEF TaskTypeOK
  <2>3. CASE BeginFailed(p, exc[p])
    BY <1>12, <2>1, <2>3
  <2>4. CASE running' = running \ {p} /\ RestoreFails(p, "open")
    BY <1>0, <1>13, <2>1, <2>4 DEF TaskTypeOK, PoolTypeOK
  <2> QED
    BY <1>18, <2>2, <2>3, <2>4 DEF StatementCancelled
<1>19. CASE RequestFails(p)
  BY <1>0, <1>19 DEF RequestFails, Fault, TypeOK, TaskTypeOK, PoolTypeOK, RouteTypeOK
<1>20. CASE CancelledAgain(p)
  <2>1. hit' \in [Request -> SUBSET Cause] /\ running' \subseteq Request /\ lost' \subseteq Request
        /\ UNCHANGED <<outcome, ext, scope, watch, worldVars, routeVars>>
    BY <1>0, <1>20 DEF CancelledAgain, TaskTypeOK, PoolTypeOK
  <2>2. CASE RestoreFails(p, "active")
    BY <1>13, <2>1, <2>2
  <2>3. CASE exc' = [exc EXCEPT ![p] = "cancelled"] /\ Replace(p) /\ UNCHANGED refused
    BY <1>0, <1>14, <2>1, <2>3 DEF TaskTypeOK, Outcomes
  <2> QED
    BY <1>20, <2>2, <2>3 DEF CancelledAgain
<1>21. CASE Breaks(p)
  <2>1. exc' \in [Request -> Outcomes]
    BY <1>0, <1>21 DEF Breaks, TaskTypeOK, Outcomes
  <2> QED
    BY <1>0, <1>14, <1>21, <2>1 DEF Breaks, Fault, TaskTypeOK, PoolTypeOK
<1>22. CASE RouteReleased(p)
  BY <1>0, <1>6, <1>22 DEF RouteReleased, TaskTypeOK, RouteTypeOK
<1> QED
  BY <1>1, <1>2, <1>3, <1>4, <1>5, <1>7, <1>8, <1>9, <1>10, <1>15, <1>16, <1>17, <1>18, <1>19, <1>20,
     <1>21, <1>22 DEF RouteNext, RouteStep

\* And so do the steps that requests have in common.
LEMMA NextTypeOK == TypeOK /\ [Next]_vars => TypeOK'
<1> SUFFICES ASSUME TypeOK, [Next]_vars PROVE TypeOK'
  OBVIOUS
<1> USE DEF taskVars, poolVars, worldVars
<1>0. TaskTypeOK /\ PoolTypeOK /\ StreamTypeOK /\ RouteTypeOK
  BY DEF TypeOK
<1>1. (UNCHANGED streamVars => StreamTypeOK') /\ (UNCHANGED routeVars => RouteTypeOK')
  BY <1>0 DEF StreamTypeOK, streamVars, RouteTypeOK, routeVars, readerVars, handlerVars
<1>2. ASSUME NEW p \in Request, Deadline(p) \/ Cancel(p) \/ Leave(p), UNCHANGED <<streamVars, routeVars>>
      PROVE  TypeOK'
  BY <1>0, <1>1, <1>2 DEF TypeOK, TaskTypeOK, PoolTypeOK, Deadline, Cancel, Leave, Cause
<1>3. ASSUME NEW p \in Request, NoConnection(p, "error") \/ NoConnection(p, "cancelled"),
             UNCHANGED <<streamVars, routeVars>>
      PROVE  TypeOK'
  BY <1>0, <1>1, <1>3 DEF TypeOK, TaskTypeOK, PoolTypeOK, NoConnection, Fault, Outcomes, Place
<1>4. ASSUME NEW p \in Request, Ended(p), UNCHANGED <<streamVars, routeVars>>
      PROVE  TypeOK'
  <2>1. exc' \in [Request -> Outcomes] /\ hit' \in [Request -> SUBSET Cause]
    BY <1>0, <1>4 DEF Ended, TaskTypeOK, Outcomes
  <2> QED
    BY <1>0, <1>1, <1>4, <2>1, IdleTypes DEF TypeOK, TaskTypeOK, PoolTypeOK, Ended, Fault
<1>5. ASSUME NEW p \in Request, EndCancelled(p), UNCHANGED <<streamVars, routeVars>>
      PROVE  TypeOK'
  <2>1. hit' \in [Request -> SUBSET Cause] /\ running' \subseteq Request
        /\ UNCHANGED <<outcome, ext, scope, watch, lost, worldVars>>
    BY <1>0, <1>5 DEF EndCancelled, TaskTypeOK, PoolTypeOK
  <2>2. ASSUME NEW s \in {"open", "active"}, RestoreFails(p, s)
        PROVE  TypeOK'
    BY <1>0, <1>1, <1>5, <2>1, <2>2, RefusedTypes DEF TypeOK, TaskTypeOK, PoolTypeOK
  <2>3. CASE exc' = [exc EXCEPT ![p] = "cancelled"] /\ Replace(p) /\ UNCHANGED refused
    BY <1>0, <1>1, <1>5, <2>1, <2>3, ReplaceTypes DEF TypeOK, TaskTypeOK, PoolTypeOK, Outcomes
  <2> QED
    BY <1>5, <2>2, <2>3 DEF EndCancelled
<1>6. ASSUME NEW p \in Request, Left(p), UNCHANGED <<streamVars, routeVars>>
      PROVE  TypeOK'
  <2>1. exc' \in [Request -> Outcomes] /\ hit' \in [Request -> SUBSET Cause]
        /\ UNCHANGED <<outcome, ext, scope, watch, running, lost, worldVars>>
    BY <1>0, <1>6 DEF Left, TaskTypeOK, Outcomes
  <2>2. CASE GiveBack(p) /\ UNCHANGED readonly
    BY <1>0, <1>1, <1>6, <2>1, <2>2, IdleTypes DEF TypeOK, TaskTypeOK, PoolTypeOK
  <2>3. CASE Replace(p) /\ UNCHANGED refused
    BY <1>0, <1>1, <1>6, <2>1, <2>3, ReplaceTypes DEF TypeOK, TaskTypeOK, PoolTypeOK
  <2> QED
    BY <1>6, <2>2, <2>3 DEF Left
<1>7. CASE Alter /\ UNCHANGED <<streamVars, routeVars>>
  <2>1. Outdated(type) \subseteq Parts
    BY DEF Outdated, Parts
  <2> QED
    BY <1>0, <1>1, <1>7, <2>1 DEF TypeOK, TaskTypeOK, PoolTypeOK, Alter
<1>8. CASE UNCHANGED vars
  BY <1>0, <1>1, <1>8 DEF TypeOK, TaskTypeOK, PoolTypeOK, vars, servingVars
<1> QED
  BY <1>2, <1>3, <1>4, <1>5, <1>6, <1>7, <1>8, StreamStepTypes, RouteStepTypes DEF Next, Common

\* Every variable keeps its type.
LEMMA TypeCorrect == Spec => []TypeOK
BY InitTypeOK, NextTypeOK, PTL DEF Spec
-----------------------------------------------------------------------------
(* Connections *)

\* A connection has one user at most, and one that nobody has is as it came.
Exclusive == \A p, q \in Request : con[p] = con[q] /\ con[p] # NoCon => p = q
FreeClean ==
  \A c \in Con : Free(c) => tx[c] = "idle" /\ c \notin late /\ (c \in readonly => c \in tainted)

\* Where somebody waits for the server's answer, or is on the way to cancel.
Awaiting == (Streaming \ {"close"}) \cup {"statement", "cancelling", "ending"}

\* A request has a connection exactly where its code is inside the block around it.
\* Only a read has set the flag, unless it is left there; the connection that a cancel
\* request may still reach is about to be closed; and the server works for a request
\* only where it awaits the answer, or has failed to cancel.
ConInv(p) ==
  /\ con[p] # NoCon <=> pc[p] \in Holding
  /\ con[p] \in readonly \ tainted => Job(p).kind = "read"
  /\ con[p] \in late \cap Con => pc[p] = "close"
  /\ pc[p] = "leaving" => con[p] \in tainted
  /\ p \in running => p \in lost \/ pc[p] \in Awaiting

PoolInv == Exclusive /\ FreeClean /\ \A p \in Request : ConInv(p)

\* What a step of p may do to the pool: it touches its own connection only, takes a
\* free one, and gives back a clean one.
PoolStep(p) ==
  /\ setup' = setup
  /\ \A q \in Request \ {p} :
       /\ con'[q] = con[q] /\ pc'[q] = pc[q]
       /\ (q \in running' => q \in running) /\ (q \in lost => q \in lost')
  /\ \A c \in Con \ {con[p], con'[p]} :
       /\ tx'[c] = tx[c] /\ (c \in readonly' => c \in readonly)
       /\ (c \in late' => c \in late) /\ (c \in tainted => c \in tainted')
  /\ \/ con'[p] = con[p]
     \/ con[p] = NoCon /\ con'[p] \in Con /\ Free(con'[p])
     \/ /\ con'[p] = NoCon
        /\ con[p] \in Con => /\ tx'[con[p]] = "idle" /\ con[p] \notin late'
                             /\ con[p] \in readonly' => con[p] \in tainted'

\* Such a step keeps the invariant of the pool, as far as the others are concerned.
LEMMA PoolKept ==
  ASSUME TypeOK, TypeOK', PoolInv, NEW p \in Request, PoolStep(p), ConInv(p)'
  PROVE  PoolInv'
<1> USE DEF Free
<1>1. /\ con \in [Request -> Con \cup {NoCon}] /\ con' \in [Request -> Con \cup {NoCon}]
      /\ readonly \subseteq Con /\ readonly' \subseteq Con /\ NoCon \notin Con
  BY ConAssumption DEF TypeOK, PoolTypeOK
<1>2. Exclusive'
  BY <1>1 DEF PoolInv, Exclusive, PoolStep
<1>3. FreeClean'
  <2> SUFFICES ASSUME NEW c \in Con, \A q \in Request : con'[q] # c
               PROVE  tx'[c] = "idle" /\ c \notin late' /\ (c \in readonly' => c \in tainted')
    BY DEF FreeClean
  <2>1. CASE con[p] = c
    BY <1>1, <2>1 DEF PoolStep
  <2>2. CASE con[p] # c
    <3>1. \A q \in Request : con[q] # c
      BY <1>1, <2>2 DEF PoolStep
    <3>2. tx[c] = "idle" /\ c \notin late /\ (c \in readonly => c \in tainted)
      BY <3>1 DEF PoolInv, FreeClean
    <3> QED
      BY <2>2, <3>2 DEF PoolStep
  <2> QED
    BY <2>1, <2>2
<1>4. ASSUME NEW q \in Request, q # p
      PROVE  ConInv(q)'
  <2>1. con'[q] = con[q] /\ pc'[q] = pc[q] /\ setup' = setup /\ ConInv(q)
    BY <1>4 DEF PoolStep, PoolInv
  <2>2. con[q] \in Con => /\ con[q] \in readonly' => con[q] \in readonly
                          /\ con[q] \in late' => con[q] \in late
                          /\ con[q] \in tainted => con[q] \in tainted'
    <3> SUFFICES ASSUME con[q] \in Con
                 PROVE  /\ con[q] \in readonly' => con[q] \in readonly
                        /\ con[q] \in late' => con[q] \in late
                        /\ con[q] \in tainted => con[q] \in tainted'
      OBVIOUS
    <3>1. con[q] \notin {con[p], con'[p]}
      BY <1>1, <1>4, <2>1, <1>2 DEF PoolInv, Exclusive
    <3> QED
      BY <3>1 DEF PoolStep
  <2>3. pc[q] = "leaving" => con[q] \in Con
    BY <1>1, <2>1 DEF ConInv, Holding
  <2> QED
    BY <1>1, <1>4, <2>1, <2>2, <2>3 DEF ConInv, PoolStep, Job
<1> QED
  BY <1>2, <1>3, <1>4 DEF PoolInv

\* A step that leaves the pool alone, and is inside the block before and after or
\* neither.
LEMMA PoolAlone ==
  ASSUME TypeOK, PoolInv, NEW p \in Request, UNCHANGED poolVars, setup' = setup,
         \/ pc' = pc
         \/ \E x : /\ pc' = [pc EXCEPT ![p] = x] /\ (pc[p] \in Holding <=> x \in Holding)
                   /\ pc[p] \in Awaiting => x \in Awaiting
                   /\ x # "leaving" /\ pc[p] # "close"
  PROVE  PoolStep(p) /\ ConInv(p)'
BY DEF TypeOK, TaskTypeOK, PoolInv, ConInv, PoolStep, poolVars, Job

\* Leaving the block around the connection.
LEMMA EndPool ==
  ASSUME TypeOK, PoolInv, NEW p \in Request, NEW why, EndTransaction(p, why), con[p] # NoCon, pc[p] # "close",
         setup' = setup, lost' = lost
  PROVE  PoolStep(p) /\ ConInv(p)'
<1>1. pc' = [pc EXCEPT ![p] = "ending"] /\ tx' = [tx EXCEPT ![con[p]] = "active"] /\ running' = running \cup {p}
      /\ UNCHANGED <<con, readonly, tainted, late>>
  BY DEF EndTransaction, Send, Status
<1>2. "ending" \in Holding /\ "ending" \in Awaiting
  BY DEF Holding, Awaiting
<1>3. PoolStep(p)
  BY <1>1 DEF TypeOK, TaskTypeOK, PoolTypeOK, PoolStep
<1> QED
  BY <1>1, <1>2, <1>3 DEF TypeOK, TaskTypeOK, PoolTypeOK, PoolInv, ConInv, Job

\* A connection that is given back closed is replaced by a clean one.
LEMMA DeadPool ==
  ASSUME TypeOK, PoolInv, NEW p \in Request, Replace(p), con[p] # NoCon,
         setup' = setup, running' \subseteq running, lost \subseteq lost', p \in running' => p \in lost'
  PROVE  PoolStep(p) /\ ConInv(p)'
<1>1. con[p] \in Con /\ NoCon \notin Con /\ readonly \subseteq Con
  BY ConAssumption DEF TypeOK, PoolTypeOK
<1>2. /\ con' = [con EXCEPT ![p] = NoCon] /\ tx' = [tx EXCEPT ![con[p]] = "idle"]
      /\ readonly' = readonly \ {con[p]} /\ late' = late \ {con[p]} /\ tainted' = tainted \ {con[p]}
      /\ pc' = [pc EXCEPT ![p] = "released"]
  BY DEF Replace, Return
<1>3. PoolStep(p)
  BY <1>1, <1>2 DEF TypeOK, TaskTypeOK, PoolTypeOK, PoolStep
<1>4. con'[p] = NoCon /\ pc'[p] = "released"
  BY <1>2 DEF TypeOK, TaskTypeOK, PoolTypeOK
<1>5. NoCon \notin readonly'
  BY <1>1, <1>2
<1> QED
  BY <1>1, <1>3, <1>4, <1>5 DEF ConInv, Holding, Streaming, Handling

\* One that is given back idle has no flag but one that cannot be put back.
LEMMA BackPool ==
  ASSUME TypeOK, PoolInv, NEW p \in Request, GiveBack(p), con[p] # NoCon, pc[p] # "close",
         readonly' \subseteq readonly, con[p] \in readonly' => con[p] \in tainted,
         setup' = setup, running' \subseteq running, lost' = lost, p \in running' => p \in lost'
  PROVE  PoolStep(p) /\ ConInv(p)'
<1>1. con[p] \in Con /\ NoCon \notin Con /\ readonly \subseteq Con
  BY ConAssumption DEF TypeOK, PoolTypeOK
<1>2. /\ con' = [con EXCEPT ![p] = NoCon] /\ tx' = [tx EXCEPT ![con[p]] = "idle"]
      /\ pc' = [pc EXCEPT ![p] = "released"] /\ UNCHANGED <<tainted, late>>
  BY DEF GiveBack, Return
<1>3. con[p] \notin late
  BY <1>1 DEF PoolInv, ConInv
<1>4. PoolStep(p)
  BY <1>1, <1>2, <1>3 DEF TypeOK, TaskTypeOK, PoolTypeOK, PoolStep
<1>5. con'[p] = NoCon /\ pc'[p] = "released" /\ NoCon \notin readonly'
  BY <1>1, <1>2 DEF TypeOK, TaskTypeOK, PoolTypeOK
<1> QED
  BY <1>1, <1>4, <1>5 DEF ConInv, Holding, Streaming, Handling

\* Restore leaves no other.
LEMMA RestoreClears ==
  ASSUME PoolInv, NEW p \in Request, Restore(p)
  PROVE  readonly' \subseteq readonly /\ (con[p] \in readonly' => con[p] \in tainted)
BY DEF Restore, PoolInv, ConInv

\* Where it cannot be put back.
LEMMA RefusedPool ==
  ASSUME TypeOK, PoolInv, NEW p \in Request, NEW s, RestoreFails(p, s), con[p] # NoCon, pc[p] # "close",
         setup' = setup, running' \subseteq running, lost \subseteq lost', p \in running' => p \in lost'
  PROVE  PoolStep(p) /\ ConInv(p)'
<1>1. con[p] \in Con /\ NoCon \notin Con /\ readonly \subseteq Con
  BY ConAssumption DEF TypeOK, PoolTypeOK
<1>2. /\ tx' = [tx EXCEPT ![con[p]] = s] /\ pc' = [pc EXCEPT ![p] = "leaving"]
      /\ tainted' = tainted \cup {con[p]} /\ UNCHANGED <<con, readonly, late>>
  BY DEF RestoreFails, Status
<1>3. PoolStep(p)
  BY <1>1, <1>2 DEF TypeOK, TaskTypeOK, PoolTypeOK, PoolStep
<1>4. pc'[p] = "leaving" /\ "leaving" \in Holding /\ con[p] \notin late
  BY <1>1, <1>2 DEF TypeOK, TaskTypeOK, Holding, PoolInv, ConInv
<1> QED
  BY <1>1, <1>2, <1>3, <1>4 DEF ConInv

\* The steps of a JSON response.
LEMMA StreamPool ==
  ASSUME TypeOK, PoolInv, NEW p \in Request, StreamNext(p)
  PROVE  PoolStep(p) /\ ConInv(p)'
<1> USE DEF worldVars, streamVars, wireVars
<1>a. TaskTypeOK /\ PoolTypeOK /\ StreamTypeOK /\ ConInv(p)
  BY DEF TypeOK, PoolInv
<1>b. pc[p] \in Holding => con[p] # NoCon
  BY <1>a DEF ConInv
<1>1. CASE StreamCall(p) \/ HeadSent(p)
  BY <1>1, PoolAlone DEF StreamCall, HeadSent, Goto, Holding, Streaming, Handling, Awaiting
<1>2. ASSUME NEW c \in Con, StreamAcquire(p, c)
      PROVE  PoolStep(p) /\ ConInv(p)'
  <2>1. con[p] = NoCon /\ NoCon \notin Con /\ c \notin late /\ (c \in readonly => c \in tainted) /\ Free(c)
    BY <1>a, <1>2, ConAssumption DEF ConInv, StreamAcquire, Holding, Streaming, Handling, PoolInv, FreeClean
  <2> QED
    BY <1>a, <1>2, <2>1 DEF TaskTypeOK, PoolTypeOK, PoolStep, ConInv, StreamAcquire, Goto, Holding, Streaming,
       Awaiting, Job
<1>3. CASE RowArrives(p)
  <2>1. UNCHANGED poolVars /\ setup' = setup /\ pc[p] = "rows"
        /\ (pc' = pc \/ \E x \in {"head", "chunk"} : pc' = [pc EXCEPT ![p] = x])
    BY <1>3 DEF RowArrives, Yield, Goto
  <2> QED
    BY <2>1, PoolAlone DEF Holding, Streaming, Awaiting
<1>4. CASE RowsEnd(p)
  <2>1. pc[p] = "rows" /\ (\E x \in {"head", "chunk"} : pc' = [pc EXCEPT ![p] = x])
    BY <1>4 DEF RowsEnd, Yield, Goto
  <2> QED
    BY <1>a, <1>b, <1>4, <2>1 DEF TaskTypeOK, PoolTypeOK, PoolStep, ConInv, RowsEnd, Ends, Status, Holding,
       Streaming, Awaiting, Job
<1>5. CASE ChunkSent(p)
  <2>1. CASE QueryOver(p)
    BY <1>b, <1>5, <2>1, EndPool DEF ChunkSent, Holding, Streaming
  <2>2. CASE ~QueryOver(p)
    BY <1>5, <2>2, PoolAlone DEF ChunkSent, Goto, Holding, Streaming, Awaiting, poolVars
  <2> QED
    BY <2>1, <2>2
<1>6. CASE QueryFails(p)
  BY <1>b, <1>6, EndPool DEF QueryFails, Fault, Holding, Streaming
<1>7. ASSUME NEW why, Unwind(p, why), pc[p] \in {"rows", "head", "chunk"}, UNCHANGED <<lost, setup>>
      PROVE  PoolStep(p) /\ ConInv(p)'
  <2>1. CASE EndTransaction(p, why)
    BY <1>b, <1>7, <2>1, EndPool DEF Holding, Streaming
  <2>2. CASE Goto(p, "cancel") /\ UNCHANGED <<con, tx, readonly, tainted, refused, cache, stale, running, late>>
    <3>1. UNCHANGED poolVars /\ setup' = setup /\ pc' = [pc EXCEPT ![p] = "cancel"]
      BY <1>7, <2>2 DEF Goto, poolVars
    <3>2. pc[p] \in Holding /\ "cancel" \in Holding /\ "cancel" \in Awaiting /\ pc[p] # "close"
      BY <1>7 DEF Holding, Streaming, Awaiting
    <3> QED
      BY <3>1, <3>2, PoolAlone
  <2> QED
    BY <1>7, <2>1, <2>2 DEF Unwind
<1>8. CASE Interrupted(p) \/ SendFails(p)
  BY <1>7, <1>8 DEF Interrupted, SendFails
<1>9. CASE CancelHandled(p) \/ CancelFails(p)
  BY <1>a, <1>b, <1>9 DEF TaskTypeOK, PoolTypeOK, PoolStep, ConInv, CancelHandled, CancelFails, Fault, Goto,
     Holding, Streaming, Awaiting, Job
<1>10. CASE CleanupInterrupted(p) \/ Watch(p)
  BY <1>10, PoolAlone DEF CleanupInterrupted, Watch, Reschedule
<1>11. CASE Closed(p)
  <2>1. p \in running => p \in lost
    BY <1>a, <1>11 DEF Closed, ConInv, Streaming, Awaiting
  <2> QED
    BY <1>b, <1>11, <2>1, DeadPool DEF Closed, Holding, Streaming
<1>12. ASSUME NEW r, StreamExit(p, r), pc[p] \in {"released"} \cup Sending
       PROVE  PoolStep(p) /\ ConInv(p)'
  <2>1. PICK x \in {"late_head", "done"} : pc' = [pc EXCEPT ![p] = x]
    BY <1>12 DEF StreamExit, Goto, Done
  <2>2. UNCHANGED poolVars /\ setup' = setup
    BY <1>12 DEF StreamExit
  <2> QED
    BY <1>12, <2>1, <2>2, PoolAlone DEF Holding, Streaming, Handling, Sending, Awaiting
<1>13. CASE Released(p)
  <2>1. CASE StreamExit(p, exc[p])
    BY <1>12, <1>13, <2>1 DEF Released
  <2>2. CASE ~StreamExit(p, exc[p])
    <3>1. PICK x \in {"tail", "error_head"} : pc' = [pc EXCEPT ![p] = x]
      BY <1>13, <2>2 DEF Released, Goto
    <3> QED
      BY <1>13, <2>2, <3>1, PoolAlone DEF Released, Holding, Streaming, Handling, Awaiting
  <2> QED
    BY <2>1, <2>2
<1>14. CASE LastSent(p) \/ LastFails(p)
  <2>1. pc[p] \in Sending
    BY <1>14 DEF LastSent, LastFails, Sending
  <2>2. CASE \E r \in {"value", "cancelled", "gone"} : StreamExit(p, r)
    BY <1>12, <2>1, <2>2
  <2>3. CASE ~\E r \in {"value", "cancelled", "gone"} : StreamExit(p, r)
    <3>1. UNCHANGED poolVars /\ setup' = setup
          /\ \E x \in {"late_body", "error_body", "done"} : pc' = [pc EXCEPT ![p] = x]
      BY <1>14, <2>3 DEF LastSent, LastFails, Goto, Done
    <3> QED
      BY <2>1, <3>1, PoolAlone DEF Holding, Streaming, Handling, Sending, Awaiting
  <2> QED
    BY <2>2, <2>3
<1> QED
  BY <1>1, <1>2, <1>3, <1>4, <1>5, <1>6, <1>8, <1>9, <1>10, <1>11, <1>13, <1>14 DEF StreamNext, StreamStep

\* The steps of a route's request.
LEMMA RoutePool ==
  ASSUME TypeOK, PoolInv, NEW p \in Request, RouteNext(p)
  PROVE  PoolStep(p) /\ ConInv(p)'
<1> USE DEF worldVars, taskVars, readerVars, handlerVars, routeVars
<1>a. TaskTypeOK /\ PoolTypeOK /\ ConInv(p)
  BY DEF TypeOK, PoolInv
<1>b. pc[p] \in Holding => con[p] # NoCon
  BY <1>a DEF ConInv
<1>1. CASE RouteCall(p)
  <2>1. PICK x \in {"body", "acquire"} : pc' = [pc EXCEPT ![p] = x]
    BY <1>1 DEF RouteCall, Move
  <2> QED
    BY <1>1, <2>1, PoolAlone DEF RouteCall, Holding, Streaming, Handling, Awaiting
<1>2. ASSUME NEW c \in Con, RouteAcquire(p, c)
      PROVE  PoolStep(p) /\ ConInv(p)'
  <2>1. con[p] = NoCon /\ NoCon \notin Con /\ c \notin late /\ (c \in readonly => c \in tainted) /\ Free(c)
    BY <1>a, <1>2, ConAssumption DEF ConInv, RouteAcquire, Holding, Streaming, Handling, PoolInv, FreeClean
  <2>2. con' = [con EXCEPT ![p] = c] /\ UNCHANGED <<tainted, late, lost, setup>> /\ pc[p] = "acquire"
    BY <1>2 DEF RouteAcquire
  <2>3. CASE Job(p).kind = "read"
    <3>1. readonly' = readonly \cup {c} /\ tx' = [tx EXCEPT ![c] = "active"] /\ running' = running \cup {p}
          /\ pc' = [pc EXCEPT ![p] = "statement"]
      BY <1>2, <2>3 DEF RouteAcquire, Move
    <3> QED
      BY <1>a, <2>1, <2>2, <2>3, <3>1 DEF TaskTypeOK, PoolTypeOK, PoolStep, ConInv, Holding, Streaming,
         Handling, Awaiting, Job
  <2>4. CASE Job(p).kind # "read"
    <3>1. UNCHANGED <<readonly, tx, running>> /\ pc' = [pc EXCEPT ![p] = "plan"]
      BY <1>2, <2>4 DEF RouteAcquire, Move
    <3> QED
      BY <1>a, <2>1, <2>2, <2>4, <3>1 DEF TaskTypeOK, PoolTypeOK, PoolStep, ConInv, Holding, Streaming,
         Handling, Awaiting, Job
  <2> QED
    BY <2>3, <2>4
<1>3. CASE Receive(p) \/ Put(p) \/ CancelWhenGone(p)
  BY <1>3, PoolAlone DEF Receive, Put, CancelWhenGone, Reschedule, Fault
<1>4. ASSUME NEW r, RouteExit(p, r), pc[p] \in {"body", "released"}
      PROVE  PoolStep(p) /\ ConInv(p)'
  BY <1>4, PoolAlone DEF RouteExit, Done, Holding, Streaming, Handling, Awaiting
<1>5. CASE Read(p)
  <2>1. CASE Head(queue[p]) = "body"
    <3>1. UNCHANGED poolVars /\ setup' = setup /\ pc[p] = "body"
          /\ (pc' = pc \/ pc' = [pc EXCEPT ![p] = "acquire"])
      BY <1>5, <2>1 DEF Read, Move
    <3> QED
      BY <3>1, PoolAlone DEF Holding, Streaming, Handling, Awaiting
  <2>2. CASE Head(queue[p]) # "body"
    BY <1>4, <1>5, <2>2 DEF Read
  <2> QED
    BY <2>1, <2>2
<1>6. CASE ReadCancelled(p) \/ RouteReleased(p)
  BY <1>4, <1>6 DEF ReadCancelled, RouteReleased
<1>7. ASSUME NEW s, Execute(p, s), pc[p] = "plan", UNCHANGED <<con, readonly, tainted, late, lost, setup>>
      PROVE  PoolStep(p) /\ ConInv(p)'
  BY <1>a, <1>b, <1>7 DEF TaskTypeOK, PoolTypeOK, PoolStep, ConInv, Execute, Send, Status, Move, Holding,
     Streaming, Handling, Awaiting, Job
<1>8. CASE Plan(p)
  <2>1. pc[p] = "plan" /\ UNCHANGED <<con, readonly, tainted, late, lost, setup>>
        /\ ((\E s : Execute(p, s)) \/ UNCHANGED <<pc, tx, running>>)
    BY <1>8 DEF Plan
  <2>2. CASE UNCHANGED <<pc, tx, running>>
    BY <1>a, <2>1, <2>2 DEF PoolStep, ConInv, Job
  <2> QED
    BY <1>7, <2>1, <2>2
<1>9. CASE Answered(p)
  BY <1>a, <1>b, <1>9 DEF TaskTypeOK, PoolTypeOK, PoolStep, ConInv, Answered, Ends, Status, Move, Holding,
     Streaming, Handling, Awaiting, Job
<1>10. ASSUME NEW why, EndTransaction(p, why), pc[p] \in Handling, UNCHANGED <<lost, setup>>
       PROVE  PoolStep(p) /\ ConInv(p)'
  BY <1>b, <1>10, EndPool DEF Holding, Handling
<1>11. ASSUME NEW why, BeginFailed(p, why), pc[p] \in Handling, UNCHANGED <<lost, setup>>
       PROVE  PoolStep(p) /\ ConInv(p)'
  <2>1. Restore(p) /\ GiveBack(p) /\ running' = running \ {p} /\ con[p] # NoCon /\ pc[p] # "close"
    BY <1>b, <1>11 DEF BeginFailed, Holding, Handling
  <2> QED
    BY <1>11, <2>1, BackPool, RestoreClears
<1>12. CASE Executed(p)
  BY <1>10, <1>12 DEF Executed, Handling
<1>13. CASE HandlerFails(p)
  <2>1. UNCHANGED <<lost, setup>> /\ pc[p] \in Handling /\ (EndTransaction(p, "error") \/ BeginFailed(p, "error"))
    BY <1>13 DEF HandlerFails, Fault, Handling
  <2> QED
    BY <1>10, <1>11, <2>1
<1>14. CASE Interrupt(p, "cancelled") \/ Interrupt(p, "timeout")
  <2>1. UNCHANGED poolVars /\ setup' = setup /\ pc[p] = "statement" /\ pc' = [pc EXCEPT ![p] = "cancelling"]
    BY <1>14 DEF Interrupt, Fault, Move
  <2>2. {"statement", "cancelling"} \subseteq Holding /\ "cancelling" \in Awaiting
    BY DEF Holding, Handling, Awaiting
  <2> QED
    BY <2>1, <2>2, PoolAlone
<1>15. CASE StatementCancelled(p)
  <2>1. UNCHANGED <<lost, setup>> /\ pc[p] = "cancelling" /\ con[p] # NoCon
    BY <1>b, <1>15 DEF StatementCancelled, Holding, Handling
  <2>2. CASE EndTransaction(p, exc[p]) \/ BeginFailed(p, exc[p])
    BY <1>10, <1>11, <2>1, <2>2 DEF Handling
  <2>3. CASE running' = running \ {p} /\ RestoreFails(p, "open")
    BY <2>1, <2>3, RefusedPool
  <2> QED
    BY <1>15, <2>2, <2>3 DEF StatementCancelled
<1>16. CASE RequestFails(p)
  BY <1>a, <1>16 DEF RequestFails, Fault, PoolStep, ConInv, Job
<1>17. CASE CancelledAgain(p)
  <2>1. /\ setup' = setup /\ running' \subseteq running /\ lost \subseteq lost' /\ (p \in running' => p \in lost')
        /\ con[p] # NoCon /\ pc[p] # "close"
    BY <1>b, <1>17 DEF CancelledAgain, Holding, Handling
  <2>2. CASE RestoreFails(p, "active")
    BY <2>1, <2>2, RefusedPool
  <2>3. CASE Replace(p)
    BY <2>1, <2>3, DeadPool
  <2> QED
    BY <1>17, <2>2, <2>3 DEF CancelledAgain
<1>18. CASE Breaks(p)
  <2>1. /\ setup' = setup /\ running' = running /\ lost' = lost \cup {p} /\ con[p] # NoCon /\ Replace(p)
    BY <1>b, <1>18 DEF Breaks, Fault, Holding, Handling
  <2> QED
    BY <2>1, DeadPool
<1> QED
  BY <1>1, <1>2, <1>3, <1>5, <1>6, <1>8, <1>9, <1>12, <1>13, <1>14, <1>15, <1>16, <1>17, <1>18
     DEF RouteNext, RouteStep

\* The block ends, and the connection goes back as it came; or what ends it is
\* cancelled.
LEMMA EndedPool ==
  ASSUME TypeOK, PoolInv, NEW p \in Request, Ended(p) \/ EndCancelled(p) \/ Left(p)
  PROVE  PoolStep(p) /\ ConInv(p)'
<1> USE DEF worldVars
<1>1. ConInv(p) /\ (pc[p] \in {"ending", "leaving"} => con[p] # NoCon)
  BY DEF PoolInv, ConInv, Holding
<1>2. CASE Ended(p)
  <2>1. /\ Restore(p) /\ GiveBack(p) /\ running' = running \ {p} /\ UNCHANGED <<lost, setup>>
        /\ con[p] # NoCon /\ pc[p] # "close"
    BY <1>1, <1>2 DEF Ended, Fault
  <2> QED
    BY <2>1, BackPool, RestoreClears
<1>3. CASE EndCancelled(p)
  <2>1. running' = running \ {p} /\ UNCHANGED <<lost, setup>> /\ con[p] # NoCon /\ pc[p] # "close"
        /\ ((\E s : RestoreFails(p, s)) \/ Replace(p))
    BY <1>1, <1>3 DEF EndCancelled
  <2> QED
    BY <2>1, DeadPool, RefusedPool
<1>4. CASE Left(p)
  <2>1. UNCHANGED <<running, lost, setup>> /\ con[p] # NoCon /\ pc[p] = "leaving"
        /\ (Replace(p) \/ (GiveBack(p) /\ UNCHANGED readonly))
    BY <1>1, <1>4 DEF Left
  <2>2. con[p] \in tainted /\ (p \in running => p \in lost)
    BY <1>1, <2>1 DEF ConInv, Awaiting, Streaming
  <2> QED
    BY <2>1, <2>2, DeadPool, BackPool
<1> QED
  BY <1>2, <1>3, <1>4

\* So the invariant of the pool holds, and with it LeftClean.
LEMMA InitPool == Init => PoolInv
BY ConAssumption DEF Init, ServingInit, PoolInv, Exclusive, FreeClean, ConInv, Holding, Streaming, Handling

\* Every step keeps the invariant of the pool.
LEMMA NextPool == TypeOK /\ TypeOK' /\ PoolInv /\ [Next]_vars => PoolInv'
<1> SUFFICES ASSUME TypeOK, TypeOK', PoolInv, [Next]_vars PROVE PoolInv'
  OBVIOUS
<1> USE DEF worldVars, taskVars
<1>1. ASSUME NEW p \in Request, Deadline(p) \/ Cancel(p) \/ Leave(p)
      PROVE  PoolInv'
  BY <1>1, PoolAlone, PoolKept DEF Deadline, Cancel, Leave
<1>2. ASSUME NEW p \in Request, NEW why, NoConnection(p, why)
      PROVE  PoolInv'
  BY <1>2, PoolAlone, PoolKept DEF NoConnection, Fault, Holding, Streaming, Handling, Awaiting
<1>3. ASSUME NEW p \in Request, Ended(p) \/ EndCancelled(p) \/ Left(p)
      PROVE  PoolInv'
  BY <1>3, EndedPool, PoolKept
<1>4. CASE Alter \/ UNCHANGED vars
  BY <1>4 DEF Alter, vars, servingVars, poolVars, PoolInv, Exclusive, FreeClean, ConInv, Free, Job
<1> QED
  BY <1>1, <1>2, <1>3, <1>4, StreamPool, RoutePool, PoolKept DEF Next, Common

\* So it is an invariant.
LEMMA PoolCorrect == Spec => [](TypeOK /\ PoolInv)
<1>1. Init => TypeOK /\ PoolInv
  BY InitTypeOK, InitPool
<1>2. TypeOK /\ PoolInv /\ [Next]_vars => (TypeOK /\ PoolInv)'
  BY NextTypeOK, NextPool
<1> QED
  BY <1>1, <1>2, PTL DEF Spec

\* A connection that is back in the pool is idle, out of reach of any cancel request,
\* and not read-only, unless readonly_transaction could not put the flag back there;
\* and the server works for no request that is over, unless it has failed to cancel:
\* what the cleanup of PostgresJsonResponse and readonly_transaction owe the pool.
THEOREM ConnectionsLeftClean == Spec => []LeftClean
<1>1. TypeOK /\ PoolInv => LeftClean
  BY DEF PoolInv, FreeClean, ConInv, LeftClean, Streaming, Awaiting
<1> QED
  BY <1>1, PoolCorrect, PTL

-----------------------------------------------------------------------------
(* Causes *)

\* What the task believes of its client is so: a scope is due, and a 499 under way,
\* only when the client has left.  And a cancellation by somebody else is either
\* still to be thrown, or the exception that is under way, or the outcome; or a read
\* that could not put its flag back has raised an error in its place.
Remembering == {"cancelling", "cancel", "close", "ending", "leaving", "released"}
Displaced(p) == p \in refused /\ Job(p).kind = "read"
CauseInv(p) ==
  /\ client[p] # "gone" =>
       /\ scope[p] \notin {"due", "expired"} /\ exc[p] \notin {"499", "gone"}
       /\ pc[p] \notin {"late_head", "late_body"}
       /\ pc[p] = "done" => outcome[p] \notin {"499", "gone"}
  /\ p \in ext =>
       \/ pc[p] = "done" /\ (outcome[p] = "cancelled" \/ (outcome[p] = "error" /\ Displaced(p)))
       \/ pc[p] # "done" /\ "ext" \in hit[p]
       \/ exc[p] = "cancelled" /\ pc[p] \in Remembering
       \/ exc[p] = "error" /\ Displaced(p) /\ pc[p] \in {"leaving", "released"}

\* What the reader has of the disconnect comes from it.
NewsInv(p) ==
  client[p] # "gone" =>
    /\ p \notin disconnected /\ hold[p] # "gone"
    /\ \A i \in 1..Len(queue[p]) : queue[p][i] # "gone"

\* A step of p leaves the tasks of the others, and what they were told, alone.
CauseStep(p) ==
  /\ setup' = setup
  /\ \A q \in Request \ {p} :
       /\ pc'[q] = pc[q] /\ exc'[q] = exc[q] /\ outcome'[q] = outcome[q] /\ hit'[q] = hit[q]
       /\ scope'[q] = scope[q] /\ client'[q] = client[q] /\ (q \in ext' <=> q \in ext)
       /\ q \in refused => q \in refused'
NewsStep(p) ==
  \A q \in Request \ {p} :
    /\ hold'[q] = hold[q] /\ queue'[q] = queue[q] /\ client'[q] = client[q]
    /\ (q \in disconnected' <=> q \in disconnected)

\* The ends of a task.
LEMMA DoneCause ==
  ASSUME TypeOK, NEW p \in Request, CauseInv(p), NEW r, Done(p, r), Exit(p), UNCHANGED client,
         pc[p] # "done", CauseStep(p),
         client[p] # "gone" => r \notin {"499", "gone"} /\ exc'[p] \notin {"499", "gone"},
         UNCHANGED <<setup, refused>>,
         p \in ext => "ext" \in hit[p] \/ r = "cancelled" \/ (r = "error" /\ Displaced(p))
  PROVE  CauseInv(p)'
BY DEF TypeOK, TaskTypeOK, CauseInv, Done, Exit, Displaced, Job

\* At the end of a JSON response, a cause is reported only if it was there.
LEMMA StreamExitCause ==
  ASSUME TypeOK, NEW p \in Request, CauseInv(p), NEW r, StreamExit(p, r), UNCHANGED exc, pc[p] # "done",
         client[p] # "gone" => r \notin {"499", "gone"},
         p \in ext => "ext" \in hit[p] \/ r = "cancelled"
  PROVE  CauseStep(p) /\ CauseInv(p)'
<1>1. UNCHANGED <<client, exc, setup, refused>> /\ Exit(p) /\ CauseStep(p)
  BY DEF StreamExit, TypeOK, TaskTypeOK, CauseStep, Exit, Done, Goto, worldVars, poolVars
<1>2. Expired(p, r) => client[p] = "gone" /\ p \notin ext
  BY DEF Expired, CauseInv
<1>3. CASE Expired(p, r)
  BY <1>1, <1>2, <1>3 DEF StreamExit, Done, Goto, CauseInv, Exit, TypeOK, TaskTypeOK
<1>4. CASE ~Expired(p, r)
  <2>1. Done(p, r)
    BY <1>4 DEF StreamExit
  <2>2. client[p] # "gone" => exc'[p] \notin {"499", "gone"}
    BY <1>1 DEF CauseInv
  <2> QED
    BY <1>1, <2>1, <2>2, DoneCause
<1> QED
  BY <1>1, <1>3, <1>4

\* So it is at the end of a route's call.
LEMMA RouteExitCause ==
  ASSUME TypeOK, NEW p \in Request, CauseInv(p), NEW r, RouteExit(p, r), pc[p] # "done",
         \A q \in Request \ {p} : exc'[q] = exc[q],
         client[p] # "gone" => r # "gone" /\ r # "499" /\ exc'[p] \notin {"499", "gone"},
         p \in ext => "ext" \in hit[p] \/ r = "cancelled" \/ (r = "error" /\ Displaced(p))
  PROVE  CauseStep(p) /\ CauseInv(p)'
<1>1. UNCHANGED <<client, setup, refused>> /\ Exit(p) /\ CauseStep(p)
  BY DEF RouteExit, TypeOK, TaskTypeOK, CauseStep, Exit, Done, worldVars, poolVars
<1>2. client[p] # "gone" => ~Gone(p, r)
  BY DEF Gone, Expired, CauseInv
<1>3. r \in {"cancelled", "error"} /\ p \in ext => ~Gone(p, r)
  BY DEF Gone, Expired
<1>4. Done(p, IF Gone(p, r) THEN "499" ELSE IF r = "none" THEN "value" ELSE r)
  BY DEF RouteExit
<1> QED
  BY <1>1, <1>2, <1>3, <1>4, DoneCause

\* A step that throws what is to be thrown at its await, at a place that remembers.
LEMMA ThrownCause ==
  ASSUME TypeOK, NEW p \in Request, CauseInv(p), NEW x \in Remembering,
         pc' = [pc EXCEPT ![p] = x], exc' = [exc EXCEPT ![p] = "cancelled"], hit' = [hit EXCEPT ![p] = {}],
         UNCHANGED <<outcome, ext, scope, client, setup, refused>>
  PROVE  CauseStep(p) /\ CauseInv(p)'
BY DEF TypeOK, TaskTypeOK, CauseInv, CauseStep, Remembering

\* A step at an await that nothing is thrown at.
LEMMA QuietCause ==
  ASSUME TypeOK, NEW p \in Request, CauseInv(p), NEW x \in Place,
         pc' = pc \/ pc' = [pc EXCEPT ![p] = x],
         pc' = pc \/ (pc[p] \notin Remembering \cup {"done"} /\ x \notin {"done", "late_head", "late_body"})
                  \/ (pc[p] \in Remembering \ {"leaving", "released"} /\ x \in {"close", "ending", "released"}),
         UNCHANGED <<exc, outcome, hit, ext, scope, client, setup, refused>>
  PROVE  CauseStep(p) /\ CauseInv(p)'
BY DEF TypeOK, TaskTypeOK, CauseInv, CauseStep, Remembering, Displaced, Job

\* A step that raises something else than a cancellation.
LEMMA RaiseCause ==
  ASSUME TypeOK, NEW p \in Request, CauseInv(p), NEW x \in Place \ {"done", "late_head", "late_body"},
         pc[p] \notin Remembering \cup {"done"}, hit[p] = {}, NEW why \in Outcomes,
         client[p] # "gone" => why \notin {"499", "gone"},
         pc' = [pc EXCEPT ![p] = x], exc' = [exc EXCEPT ![p] = why],
         UNCHANGED <<outcome, hit, ext, scope, client, setup, refused>>
  PROVE  CauseStep(p) /\ CauseInv(p)'
BY DEF TypeOK, TaskTypeOK, CauseInv, CauseStep, Remembering

\* A step in which readonly_transaction cannot put its flag back.
LEMMA RefusedCause ==
  ASSUME TypeOK, NEW p \in Request, CauseInv(p), NEW s, RestoreFails(p, s), Job(p).kind = "read",
         \A q \in Request \ {p} : hit'[q] = hit[q], UNCHANGED <<outcome, ext, scope, client, setup>>
  PROVE  CauseStep(p) /\ CauseInv(p)'
BY DEF TypeOK, TaskTypeOK, CauseInv, CauseStep, RestoreFails, Displaced, Job

\* The steps of a JSON response.
LEMMA StreamCause ==
  ASSUME TypeOK, NEW p \in Request, CauseInv(p), StreamNext(p)
  PROVE  CauseStep(p) /\ CauseInv(p)'
<1> USE DEF worldVars, poolVars, streamVars, wireVars, Remembering
<1>1. CASE StreamCall(p)
  BY <1>1 DEF TypeOK, TaskTypeOK, CauseInv, CauseStep, StreamCall, Enter, Goto, Displaced, Job
<1>2. ASSUME NEW c \in Con, StreamAcquire(p, c)
      PROVE  CauseStep(p) /\ CauseInv(p)'
  BY <1>2, QuietCause DEF StreamAcquire, Goto, Place, Holding, Streaming
<1>3. CASE RowArrives(p) \/ RowsEnd(p) \/ HeadSent(p)
  <2>1. UNCHANGED <<exc, outcome, hit, ext, scope, client, setup, refused>> /\ pc[p] \in {"rows", "head"}
        /\ (pc' = pc \/ \E x \in {"head", "chunk"} : pc' = [pc EXCEPT ![p] = x])
    BY <1>3 DEF RowArrives, RowsEnd, HeadSent, Yield, Goto
  <2>2. "head" \in Place /\ "chunk" \in Place
    BY DEF Place, Holding, Streaming
  <2> QED
    BY <2>1, <2>2, QuietCause
<1>4. ASSUME NEW why \in Outcomes, EndTransaction(p, why), pc[p] \in {"rows", "head", "chunk"}, hit[p] = {},
             client[p] # "gone" => why \notin {"499", "gone"}, UNCHANGED <<outcome, hit, ext, scope, client, setup>>
      PROVE  CauseStep(p) /\ CauseInv(p)'
  <2>1. "ending" \in Place
    BY DEF Place, Holding
  <2> QED
    BY <1>4, <2>1, RaiseCause DEF EndTransaction
<1>5. CASE ChunkSent(p)
  <2>1. CASE QueryOver(p)
    BY <1>4, <1>5, <2>1 DEF ChunkSent, Outcomes
  <2>2. CASE ~QueryOver(p)
    BY <1>5, <2>2, QuietCause DEF ChunkSent, Goto, Place, Holding, Streaming
  <2> QED
    BY <2>1, <2>2
<1>6. CASE QueryFails(p)
  BY <1>4, <1>6 DEF QueryFails, Fault, Outcomes
<1>7. ASSUME NEW why, Unwind(p, why)
      PROVE  exc' = [exc EXCEPT ![p] = why] /\ UNCHANGED refused
             /\ \E x \in {"ending", "cancel"} : pc' = [pc EXCEPT ![p] = x]
  BY <1>7 DEF Unwind, EndTransaction, Goto
<1>8. CASE Interrupted(p)
  BY <1>7, <1>8, ThrownCause DEF Interrupted
<1>9. CASE SendFails(p)
  <2>1. "ending" \in Place /\ "cancel" \in Place /\ "gone" \in Outcomes
    BY DEF Place, Holding, Streaming, Outcomes
  <2> QED
    BY <1>7, <1>9, <2>1, RaiseCause DEF SendFails
<1>10. CASE CancelHandled(p) \/ CancelFails(p)
  BY <1>10, QuietCause DEF CancelHandled, CancelFails, Goto, Fault, Place, Holding, Streaming
<1>11. CASE CleanupInterrupted(p)
  BY <1>11 DEF TypeOK, TaskTypeOK, CauseInv, CauseStep, CleanupInterrupted
<1>12. CASE Closed(p)
  BY <1>12, QuietCause DEF Closed, Replace, Return, Place, Holding, Streaming
<1>13. CASE Released(p)
  <2>1. CASE StreamExit(p, exc[p])
    BY <1>13, <2>1, StreamExitCause DEF Released, CauseInv, Displaced
  <2>2. CASE ~StreamExit(p, exc[p])
    <3>1. pc[p] = "released" /\ exc[p] # "cancelled" /\ Job(p).kind = "stream"
          /\ UNCHANGED <<exc, outcome, hit, ext, scope, client, setup, refused>>
          /\ \E x \in {"tail", "error_head"} : pc' = [pc EXCEPT ![p] = x]
      BY <1>13, <2>2 DEF Released, Goto
    <3> QED
      BY <3>1 DEF TypeOK, TaskTypeOK, CauseInv, CauseStep, Displaced, Job
  <2> QED
    BY <2>1, <2>2
<1>14. CASE LastSent(p)
  <2>1. CASE StreamExit(p, "value")
    BY <1>14, <2>1, StreamExitCause DEF LastSent, CauseInv
  <2>2. CASE ~StreamExit(p, "value")
    <3>1. UNCHANGED <<exc, hit, ext, scope, client, setup, refused>> /\ hit[p] = {}
          /\ \/ /\ pc[p] \in {"error_head", "late_head"} /\ UNCHANGED outcome
                /\ pc' = [pc EXCEPT ![p] = IF pc[p] = "late_head" THEN "late_body" ELSE "error_body"]
             \/ pc[p] = "late_body" /\ Done(p, "499")
      BY <1>14, <2>2 DEF LastSent, Goto
    <3> QED
      BY <3>1 DEF TypeOK, TaskTypeOK, CauseInv, CauseStep, Done, Displaced, Job
  <2> QED
    BY <2>1, <2>2
<1>15. CASE LastFails(p)
  <2>1. CASE StreamExit(p, "cancelled") \/ (client[p] = "gone" /\ StreamExit(p, "gone"))
    BY <1>15, <2>1, StreamExitCause DEF LastFails, CauseInv
  <2>2. CASE pc[p] \in {"late_head", "late_body"} /\ Done(p, "499")
             /\ UNCHANGED <<exc, hit, ext, scope, client, setup, refused>>
    BY <2>2 DEF TypeOK, TaskTypeOK, CauseInv, CauseStep, Done, Displaced, Job
  <2> QED
    BY <1>15, <2>1, <2>2 DEF LastFails
<1>16. CASE Watch(p)
  BY <1>16 DEF TypeOK, TaskTypeOK, CauseInv, CauseStep, Watch, Reschedule, Displaced, Job
<1> QED
  BY <1>1, <1>2, <1>3, <1>5, <1>6, <1>8, <1>9, <1>10, <1>11, <1>12, <1>13, <1>14, <1>15, <1>16
     DEF StreamNext, StreamStep

\* The steps of a route's request; the exception of the message it reads is true if
\* the queue is.
LEMMA RouteCause ==
  ASSUME TypeOK, NEW p \in Request, CauseInv(p), NewsInv(p), RouteNext(p)
  PROVE  CauseStep(p) /\ CauseInv(p)'
<1> USE DEF worldVars, poolVars, taskVars, Remembering
<1>1. CASE RouteCall(p)
  <2>1. PICK x \in {"body", "acquire"} : pc' = [pc EXCEPT ![p] = x]
    BY <1>1 DEF RouteCall, Move
  <2> QED
    BY <1>1, <2>1 DEF TypeOK, TaskTypeOK, CauseInv, CauseStep, RouteCall, Enter, Displaced, Job
<1>2. ASSUME NEW c \in Con, RouteAcquire(p, c)
      PROVE  CauseStep(p) /\ CauseInv(p)'
  <2>1. UNCHANGED <<exc, outcome, hit, ext, scope, client, setup, refused>> /\ pc[p] = "acquire"
        /\ \E x \in {"statement", "plan"} : pc' = [pc EXCEPT ![p] = x]
    BY <1>2 DEF RouteAcquire, Move
  <2> QED
    BY <2>1, QuietCause DEF Place, Holding, Handling
<1>3. CASE Receive(p) \/ Put(p)
  BY <1>3 DEF Receive, Put, Fault, CauseInv, CauseStep, Displaced, Job
<1>4. CASE CancelWhenGone(p)
  BY <1>4 DEF TypeOK, TaskTypeOK, CauseInv, NewsInv, CauseStep, CancelWhenGone, Reschedule, Displaced, Job
<1>5. CASE Read(p)
  <2>1. CASE Head(queue[p]) = "body"
    <3>1. UNCHANGED <<exc, outcome, hit, ext, scope, client, setup, refused>> /\ pc[p] = "body"
          /\ (pc' = pc \/ pc' = [pc EXCEPT ![p] = "acquire"])
      BY <1>5, <2>1 DEF Read, Move
    <3> QED
      BY <3>1, QuietCause DEF Place
  <2>2. CASE Head(queue[p]) # "body"
    <3>1. /\ exc' = [exc EXCEPT ![p] = IF Head(queue[p]) = "gone" THEN "gone" ELSE "error"]
          /\ RouteExit(p, exc'[p]) /\ pc[p] = "body" /\ hit[p] = {} /\ queue[p] # <<>>
      BY <1>5, <2>2 DEF Read
    <3>2. Head(queue[p]) = queue[p][1] /\ 1 \in 1..Len(queue[p])
      BY <3>1 DEF TypeOK, RouteTypeOK
    <3>3. client[p] # "gone" => Head(queue[p]) # "gone"
      BY <3>2 DEF NewsInv
    <3>4. client[p] # "gone" => exc'[p] = "error"
      BY <3>1, <3>3 DEF TypeOK, TaskTypeOK
    <3>5. p \notin ext
      BY <3>1 DEF CauseInv
    <3>6. \A q \in Request \ {p} : exc'[q] = exc[q]
      BY <3>1 DEF TypeOK, TaskTypeOK
    <3> QED
      BY <3>1, <3>4, <3>5, <3>6, RouteExitCause
  <2> QED
    BY <2>1, <2>2
<1>6. CASE ReadCancelled(p)
  BY <1>6, RouteExitCause DEF ReadCancelled, CauseInv
<1>7. CASE Plan(p)
  <2>1. UNCHANGED <<exc, outcome, hit, ext, scope, client, setup, refused>> /\ pc[p] = "plan"
        /\ (pc' = pc \/ pc' = [pc EXCEPT ![p] = "statement"])
    BY <1>7 DEF Plan, Execute, Move
  <2> QED
    BY <2>1, QuietCause DEF Place, Holding, Handling
<1>8. CASE Answered(p)
  BY <1>8, QuietCause DEF Answered, Move, Place, Holding, Handling
<1>9. ASSUME NEW why \in {"none", "error"}, EndTransaction(p, why) \/ BeginFailed(p, why), pc[p] = "statement",
             hit[p] = {}, UNCHANGED <<outcome, hit, ext, scope, client, setup>>
      PROVE  CauseStep(p) /\ CauseInv(p)'
  <2>1. UNCHANGED refused /\ exc' = [exc EXCEPT ![p] = why]
        /\ \E x \in {"ending", "released"} : pc' = [pc EXCEPT ![p] = x]
    BY <1>9 DEF EndTransaction, BeginFailed, GiveBack, Return
  <2>2. "ending" \in Place /\ "released" \in Place
    BY DEF Place, Holding
  <2> QED
    BY <1>9, <2>1, <2>2, RaiseCause DEF Outcomes
<1>10. CASE Executed(p)
  BY <1>9, <1>10 DEF Executed
<1>11. CASE HandlerFails(p)
  <2>1. pc[p] = "statement" /\ hit[p] = {} /\ UNCHANGED <<outcome, hit, ext, scope, client, setup>>
        /\ (EndTransaction(p, "error") \/ BeginFailed(p, "error"))
    BY <1>11 DEF HandlerFails, Fault
  <2> QED
    BY <1>9, <2>1
<1>12. CASE Interrupt(p, "cancelled")
  BY <1>12, ThrownCause DEF Interrupt, Move
<1>13. CASE Interrupt(p, "timeout")
  <2>1. pc[p] = "statement" /\ hit[p] = {} /\ pc' = [pc EXCEPT ![p] = "cancelling"]
        /\ exc' = [exc EXCEPT ![p] = "timeout"] /\ hit' = [hit EXCEPT ![p] = {}]
        /\ UNCHANGED <<outcome, ext, scope, client, setup, refused>>
    BY <1>13 DEF Interrupt, Fault, Move
  <2>2. hit' = hit
    BY <2>1 DEF TypeOK, TaskTypeOK
  <2>3. "cancelling" \in Place /\ "timeout" \in Outcomes
    BY DEF Place, Holding, Handling, Outcomes
  <2> QED
    BY <2>1, <2>2, <2>3, RaiseCause
<1>14. CASE StatementCancelled(p)
  <2>1. pc[p] = "cancelling" /\ UNCHANGED <<outcome, hit, ext, scope, client, setup>>
    BY <1>14 DEF StatementCancelled
  <2>2. CASE EndTransaction(p, exc[p]) \/ BeginFailed(p, exc[p])
    <3>1. UNCHANGED refused /\ exc' = [exc EXCEPT ![p] = exc[p]]
          /\ \E x \in {"ending", "released"} : pc' = [pc EXCEPT ![p] = x]
      BY <2>2 DEF EndTransaction, BeginFailed, GiveBack, Return
    <3>2. exc' = exc /\ "ending" \in Place /\ "released" \in Place
      BY <3>1 DEF TypeOK, TaskTypeOK, Place, Holding
    <3> QED
      BY <2>1, <3>1, <3>2, QuietCause
  <2>3. CASE ~InBlock(p) /\ RestoreFails(p, "open")
    BY <2>1, <2>3, RefusedCause DEF InBlock
  <2> QED
    BY <1>14, <2>2, <2>3 DEF StatementCancelled
<1>15. CASE RequestFails(p)
  BY <1>15 DEF RequestFails, Fault, CauseInv, CauseStep, Displaced, Job
<1>16. CASE CancelledAgain(p)
  <2>1. hit' = [hit EXCEPT ![p] = {}] /\ UNCHANGED <<outcome, ext, scope, client, setup>>
    BY <1>16 DEF CancelledAgain
  <2>2. CASE Job(p).kind = "read"
    <3>1. RestoreFails(p, "active")
      BY <1>16, <2>2 DEF CancelledAgain
    <3>2. \A q \in Request \ {p} : hit'[q] = hit[q]
      BY <2>1 DEF TypeOK, TaskTypeOK
    <3> QED
      BY <2>1, <2>2, <3>1, <3>2, RefusedCause
  <2>3. CASE Job(p).kind # "read"
    <3>1. exc' = [exc EXCEPT ![p] = "cancelled"] /\ UNCHANGED refused /\ pc' = [pc EXCEPT ![p] = "released"]
      BY <1>16, <2>3 DEF CancelledAgain, Replace, Return
    <3> QED
      BY <2>1, <3>1, ThrownCause
  <2> QED
    BY <2>2, <2>3
<1>17. CASE Breaks(p)
  <2>1. /\ pc[p] \in {"statement", "cancelling"} /\ pc' = [pc EXCEPT ![p] = "released"]
        /\ exc' = [exc EXCEPT ![p] = IF pc[p] = "statement" THEN "error" ELSE @]
        /\ UNCHANGED <<outcome, hit, ext, scope, client, setup, refused>>
    BY <1>17 DEF Breaks, Fault, Replace, Return
  <2> QED
    BY <2>1 DEF TypeOK, TaskTypeOK, CauseInv, CauseStep, Displaced, Job
<1>18. CASE RouteReleased(p)
  BY <1>18, RouteExitCause DEF RouteReleased, CauseInv
<1> QED
  BY <1>1, <1>2, <1>3, <1>4, <1>5, <1>6, <1>7, <1>8, <1>10, <1>11, <1>12, <1>13, <1>14, <1>15, <1>16, <1>17,
     <1>18 DEF RouteNext, RouteStep

\* What the reader has been told, and has put into the queue.
LEMMA NewsKept ==
  ASSUME TypeOK, NEW p \in Request, NewsInv(p), [RouteNext(p)]_routeVars, client' = client
  PROVE  NewsStep(p) /\ NewsInv(p)'
<1> USE DEF readerVars, routeVars, handlerVars
<1>a. queue \in [Request -> Seq(Message)] /\ hold \in [Request -> Message]
  BY DEF TypeOK, RouteTypeOK
<1>1. CASE UNCHANGED <<hold, queue, disconnected>>
  BY <1>1 DEF NewsStep, NewsInv
<1>2. CASE Receive(p)
  <2>1. UNCHANGED queue
        /\ \E m \in {"body", "broken"} : \/ hold' = [hold EXCEPT ![p] = m] /\ UNCHANGED disconnected
                                         \/ client[p] = "gone" /\ hold' = [hold EXCEPT ![p] = "gone"]
                                            /\ disconnected' = disconnected \cup {p}
    BY <1>2 DEF Receive
  <2> QED
    BY <1>a, <2>1 DEF NewsStep, NewsInv
<1>3. CASE Put(p)
  <2>1. queue' = [queue EXCEPT ![p] = Append(@, hold[p])] /\ UNCHANGED <<hold, disconnected>>
    BY <1>3 DEF Put
  <2>2. NewsStep(p) /\ queue'[p] = Append(queue[p], hold[p])
    BY <1>a, <2>1 DEF NewsStep
  <2>3. ASSUME client[p] # "gone", NEW i \in 1..Len(queue'[p])
        PROVE  queue'[p][i] # "gone"
    BY <1>a, <2>2, <2>3 DEF NewsInv
  <2> QED
    BY <2>1, <2>2, <2>3 DEF NewsInv
<1>4. CASE Read(p)
  <2>1. queue' = [queue EXCEPT ![p] = Tail(@)] /\ UNCHANGED <<hold, disconnected>> /\ queue[p] # <<>>
    BY <1>4 DEF Read, RouteExit
  <2>2. NewsStep(p) /\ queue'[p] = Tail(queue[p])
    BY <1>a, <2>1 DEF NewsStep
  <2>3. ASSUME client[p] # "gone", NEW i \in 1..Len(queue'[p])
        PROVE  queue'[p][i] # "gone"
    <3>1. i + 1 \in 1..Len(queue[p]) /\ queue'[p][i] = queue[p][i + 1]
      BY <1>a, <2>1, <2>2
    <3> QED
      BY <2>3, <3>1 DEF NewsInv
  <2> QED
    BY <2>1, <2>2, <2>3 DEF NewsInv
<1> QED
  BY <1>1, <1>2, <1>3, <1>4 DEF RouteNext, RouteStep, RouteCall, RouteAcquire, CancelWhenGone, ReadCancelled,
     RouteExit, Plan, Answered, Interrupt, StatementCancelled, RequestFails, CancelledAgain, Breaks,
     RouteReleased, Executed, HandlerFails

\* The invariant of the causes, and its proof.
CausesInv == \A p \in Request : CauseInv(p) /\ NewsInv(p)

\* Nothing has happened to a request that has not begun.
LEMMA InitCauses == Init => CausesInv
<1> SUFFICES ASSUME Init, NEW p \in Request PROVE CauseInv(p) /\ NewsInv(p)
  BY DEF CausesInv
<1>1. CauseInv(p)
  BY DEF Init, ServingInit, CauseInv
<1>2. hold[p] = "body" /\ queue[p] = <<>> /\ disconnected = {}
  BY DEF Init, RouteInit
<1>3. NewsInv(p)
  BY <1>2 DEF NewsInv
<1> QED
  BY <1>1, <1>3

\* What a step of one request does keeps what is said of the causes of all.
LEMMA CausesKept ==
  ASSUME CausesInv, NEW p \in Request, CauseStep(p), CauseInv(p)', NewsStep(p), NewsInv(p)'
  PROVE  CausesInv'
BY DEF CausesInv, CauseStep, NewsStep, CauseInv, NewsInv, Displaced, Job

\* Every step keeps the invariant of the causes.
LEMMA NextCauses == TypeOK /\ CausesInv /\ [Next]_vars => CausesInv'
<1> SUFFICES ASSUME TypeOK, CausesInv, [Next]_vars PROVE CausesInv'
  OBVIOUS
<1>0. \A p \in Request : CauseInv(p) /\ NewsInv(p)
  BY DEF CausesInv
<1>1. ASSUME NEW p \in Request, StreamNext(p), UNCHANGED routeVars
      PROVE  CausesInv'
  <2>1. client' = client
    BY <1>1 DEF StreamNext, StreamStep, StreamCall, StreamAcquire, Interrupted, CancelHandled,
       CleanupInterrupted, Closed, Released, StreamExit, LastFails, Watch, Reschedule, RowArrives, RowsEnd, HeadSent,
       ChunkSent, QueryFails, SendFails, CancelFails, LastSent, Fault, worldVars
  <2> QED
    BY <1>0, <1>1, <2>1, StreamCause, NewsKept, CausesKept
<1>2. ASSUME NEW p \in Request, RouteNext(p)
      PROVE  CausesInv'
  <2>1. client' = client
    BY <1>2 DEF RouteNext, RouteStep, RouteCall, RouteAcquire, Receive, Put, CancelWhenGone, Read,
       ReadCancelled, RouteExit, Plan, Answered, Interrupt, StatementCancelled, RequestFails, CancelledAgain,
       Breaks, RouteReleased, Executed, HandlerFails, Reschedule, Fault, worldVars
  <2> QED
    BY <1>0, <1>2, <2>1, RouteCause, NewsKept, CausesKept
<1>3. ASSUME NEW p \in Request, Deadline(p) \/ Cancel(p) \/ Leave(p), UNCHANGED routeVars
      PROVE  CausesInv'
  <2>1. CauseStep(p) /\ CauseInv(p)'
    BY <1>0, <1>3 DEF Deadline, Cancel, Leave, Over, TypeOK, TaskTypeOK, CauseInv, CauseStep, worldVars,
       taskVars, poolVars, Displaced, Job
  <2>2. UNCHANGED client \/ client' = [client EXCEPT ![p] = "gone"]
    BY <1>3 DEF Deadline, Cancel, Leave, worldVars
  <2>3. NewsStep(p) /\ NewsInv(p)'
    BY <1>0, <1>3, <2>2 DEF NewsStep, NewsInv, TypeOK, TaskTypeOK, routeVars, readerVars
  <2> QED
    BY <2>1, <2>3, CausesKept
<1>4. ASSUME NEW p \in Request, NoConnection(p, "error") \/ NoConnection(p, "cancelled") \/ Ended(p),
             UNCHANGED routeVars
      PROVE  CausesInv'
  <2>1. UNCHANGED <<client, setup, refused, outcome, ext, scope>> /\ pc' = [pc EXCEPT ![p] = "released"]
        /\ \/ hit' = [hit EXCEPT ![p] = {}] /\ exc' = [exc EXCEPT ![p] = "cancelled"]
           \/ pc[p] = "acquire" /\ hit[p] = {} /\ UNCHANGED hit /\ exc' = [exc EXCEPT ![p] = "error"]
           \/ pc[p] = "ending" /\ hit[p] = {} /\ hit' = [hit EXCEPT ![p] = {}]
              /\ (UNCHANGED exc \/ (exc[p] = "none" /\ exc' = [exc EXCEPT ![p] = "error"]))
    <3>1. CASE NoConnection(p, "error") \/ NoConnection(p, "cancelled")
      BY <3>1 DEF NoConnection, Fault, worldVars, poolVars
    <3>2. CASE Ended(p)
      <4>1. pc[p] = "ending" /\ UNCHANGED <<refused, outcome, ext, scope>> /\ pc' = [pc EXCEPT ![p] = "released"]
            /\ hit' = [hit EXCEPT ![p] = {}]
        BY <3>2 DEF Ended, GiveBack, Return
      <4>2. client' = client /\ setup' = setup
        BY <3>2 DEF Ended, Fault, worldVars
      <4>3. \/ hit[p] = {} /\ exc' = exc
            \/ hit[p] = {} /\ exc[p] = "none" /\ exc' = [exc EXCEPT ![p] = "error"]
            \/ exc' = [exc EXCEPT ![p] = "cancelled"]
        BY <3>2, Zenon DEF Ended
      <4> QED
        BY <4>1, <4>2, <4>3
    <3> QED
      BY <1>4, <3>1, <3>2
  <2>2. CauseStep(p) /\ CauseInv(p)'
    BY <1>0, <2>1 DEF TypeOK, TaskTypeOK, CauseInv, CauseStep, Remembering, Displaced, Job
  <2> QED
    BY <1>0, <1>4, <2>1, <2>2, NewsKept, CausesKept
<1>5. ASSUME NEW p \in Request, EndCancelled(p), UNCHANGED routeVars
      PROVE  CausesInv'
  <2>1. hit' = [hit EXCEPT ![p] = {}] /\ UNCHANGED <<outcome, ext, scope, client, setup>>
    BY <1>5 DEF EndCancelled, worldVars
  <2>2. CASE Job(p).kind = "read"
    <3>1. PICK s \in {"open", "active"} : RestoreFails(p, s)
      BY <1>5, <2>2 DEF EndCancelled
    <3>2. \A q \in Request \ {p} : hit'[q] = hit[q]
      BY <2>1 DEF TypeOK, TaskTypeOK
    <3>3. CauseStep(p) /\ CauseInv(p)'
      BY <1>0, <2>1, <2>2, <3>1, <3>2, RefusedCause
    <3> QED
      BY <1>0, <1>5, <2>1, <3>3, NewsKept, CausesKept
  <2>3. CASE Job(p).kind # "read"
    <3>1. exc' = [exc EXCEPT ![p] = "cancelled"] /\ UNCHANGED refused /\ pc' = [pc EXCEPT ![p] = "released"]
      BY <1>5, <2>3 DEF EndCancelled, Replace, Return
    <3>2. CauseStep(p) /\ CauseInv(p)'
      BY <1>0, <2>1, <3>1, ThrownCause DEF Remembering
    <3> QED
      BY <1>0, <1>5, <2>1, <3>2, NewsKept, CausesKept
  <2> QED
    BY <2>2, <2>3
<1>6. ASSUME NEW p \in Request, Left(p), UNCHANGED routeVars
      PROVE  CausesInv'
  <2>1. /\ pc[p] = "leaving" /\ pc' = [pc EXCEPT ![p] = "released"]
        /\ exc' = [exc EXCEPT ![p] = IF hit[p] = {} THEN @ ELSE "cancelled"]
        /\ hit' = [hit EXCEPT ![p] = {}]
        /\ UNCHANGED <<outcome, ext, scope, client, setup, refused>>
    BY <1>6 DEF Left, GiveBack, Replace, Return, worldVars
  <2>2. CauseStep(p) /\ CauseInv(p)'
    BY <1>0, <2>1 DEF TypeOK, TaskTypeOK, CauseInv, CauseStep, Remembering, Displaced, Job
  <2> QED
    BY <1>0, <1>6, <2>1, <2>2, NewsKept, CausesKept
<1>7. CASE (Alter /\ UNCHANGED routeVars) \/ UNCHANGED vars
  BY <1>0, <1>7 DEF Alter, vars, servingVars, taskVars, poolVars, worldVars, routeVars, readerVars, CausesInv,
     CauseInv, NewsInv, Displaced, Job
<1> QED
  BY <1>1, <1>2, <1>3, <1>4, <1>5, <1>6, <1>7 DEF Next, Common

\* A request is answered 499, or cut as disconnected, only when its client has left,
\* and a cancellation by somebody else is never swallowed, but ends the task, or is
\* displaced by the error of a readonly_transaction that cannot put its flag back: what
\* the two cancel scopes of pgdevkit.fastapi promise, for any number of cancellations.
THEOREM CausesKeptApart == Spec => []CauseKept
<1>1. Init => TypeOK /\ CausesInv
  BY InitTypeOK, InitCauses
<1>2. TypeOK /\ CausesInv /\ [Next]_vars => (TypeOK /\ CausesInv)'
  BY NextTypeOK, NextCauses
<1>3. CausesInv => CauseKept
  BY DEF CausesInv, CauseInv, CauseKept, Displaced, Remembering
<1> QED
  BY <1>1, <1>2, <1>3, PTL DEF Spec

-----------------------------------------------------------------------------
(* Caches *)

\* What the cache of a connection says is a type, or in columns that the column was
\* missing; and it is true of the parts that are not stale.
FreshCache(c) ==
  /\ \A part \in Parts : NoTable \notin cache[c][part]
  /\ NoColumn \notin cache[c].info \cup cache[c].column
  /\ \A part \in Parts \ stale[c] : cache[c][part] \subseteq {type}
  /\ stale[c] \in {{}, {"columns"}, Parts}

\* What a lookup has found may be older than a change of the catalog, but a column that
\* was there is there; that it was missing is outdated only where the columns are stale;
\* and only a column that is there is asked for its type.
Unplanned == {"start", "body", "acquire"}
FoundInv(p) ==
  /\ \/ found[p] = {}
     \/ /\ pc[p] \notin Unplanned
        /\ \E x \in Nat : found[p] = {x} /\ x <= type
        /\ con[p] \in Con /\ found[p] = {NoColumn} => type = NoColumn \/ "columns" \in stale[con[p]]
  /\ pc[p] = "statement" /\ stmt[p] = "info" => type \notin {NoTable, NoColumn}

CacheInv == (\A c \in Con : FreshCache(c)) /\ (\A p \in Request : FoundInv(p))

\* A step that asks nothing and at most clears the cache of a connection it replaces.
LEMMA CacheKept ==
  ASSUME TypeOK, PoolInv, CacheInv, NEW p \in Request, UNCHANGED <<type, stmt, found>>,
         pc' = pc \/ \E x \in Place \ {"statement"} : pc' = [pc EXCEPT ![p] = x] /\ (x \in Unplanned => pc[p] \in Unplanned),
         \/ UNCHANGED <<cache, stale>>
            /\ \/ con' = con
               \/ \E c \in Con \cup {NoCon} : con' = [con EXCEPT ![p] = c] /\ (c = NoCon \/ pc[p] = "acquire")
         \/ Replace(p) /\ con[p] \in Con
  PROVE  CacheInv'
<1>a. /\ con \in [Request -> Con \cup {NoCon}] /\ stale \in [Con -> SUBSET Parts] /\ cache \in [Con -> Caches]
      /\ NoCon \notin Con /\ pc \in [Request -> Place]
  BY ConAssumption DEF TypeOK, TaskTypeOK, PoolTypeOK
<1>b. (\A c \in Con : FreshCache(c)) /\ (\A q \in Request : FoundInv(q))
  BY DEF CacheInv
<1>1. ASSUME NEW c \in Con
      PROVE  FreshCache(c)'
  <2>1. UNCHANGED <<cache[c], stale[c]>> \/ (cache'[c] = EmptyCache /\ stale'[c] = {})
    BY <1>a DEF Replace
  <2>2. CASE UNCHANGED <<cache[c], stale[c]>>
    BY <1>b, <2>2 DEF FreshCache
  <2>3. CASE cache'[c] = EmptyCache /\ stale'[c] = {}
    BY <2>3 DEF FreshCache, EmptyCache, Parts
  <2> QED
    BY <2>1, <2>2, <2>3
<1>2. ASSUME NEW q \in Request
      PROVE  FoundInv(q)'
  <2>1. pc'[q] = "statement" => pc[q] = "statement"
    BY <1>a
  <2>2. pc'[q] \in Unplanned => pc[q] \in Unplanned
    BY <1>a
  <2>3. pc[q] \notin Unplanned /\ con'[q] \in Con => con'[q] = con[q] /\ stale'[con[q]] = stale[con[q]]
    <3>1. CASE UNCHANGED <<cache, stale>>
      <4>1. CASE con' = con
        BY <3>1, <4>1
      <4>2. CASE \E c \in Con \cup {NoCon} : con' = [con EXCEPT ![p] = c] /\ (c = NoCon \/ pc[p] = "acquire")
        BY <1>a, <3>1, <4>2 DEF Unplanned
      <4>3. CASE Replace(p) /\ con[p] \in Con
        BY <1>a, <3>1, <4>3 DEF Replace, Return
      <4> QED
        BY <4>1, <4>2, <4>3
    <3>2. CASE Replace(p) /\ con[p] \in Con
      <4>1. q = p => con'[q] = NoCon
        BY <1>a, <3>2 DEF Replace, Return
      <4>2. q # p => con'[q] = con[q] /\ con[q] # con[p]
        BY <1>a, <3>2 DEF Replace, Return, PoolInv, Exclusive
      <4> QED
        BY <1>a, <3>2, <4>1, <4>2 DEF Replace
    <3> QED
      BY <3>1, <3>2
  <2> QED
    BY <1>b, <2>1, <2>2, <2>3 DEF FoundInv
<1> QED
  BY <1>1, <1>2 DEF CacheInv

\* A JSON response looks nothing up.
LEMMA StreamCache ==
  ASSUME TypeOK, PoolInv, CacheInv, NEW p \in Request, StreamNext(p), UNCHANGED routeVars
  PROVE  CacheInv'
<1> USE DEF worldVars, streamVars, wireVars, routeVars, handlerVars
<1>1. UNCHANGED <<stmt, found>>
  OBVIOUS
<1>2. CASE StreamCall(p) \/ HeadSent(p)
  <2>1. UNCHANGED <<type, con, cache, stale>>
        /\ \E x \in {"acquire", "chunk"} : pc' = [pc EXCEPT ![p] = x] /\ (x \in Unplanned => pc[p] \in Unplanned)
    BY <1>2 DEF StreamCall, HeadSent, Goto, poolVars, Unplanned
  <2> QED
    BY <1>1, <2>1, CacheKept DEF Place, Holding, Streaming
<1>3. ASSUME NEW c \in Con, StreamAcquire(p, c)
      PROVE  CacheInv'
  <2>1. /\ UNCHANGED <<type, cache, stale>> /\ pc' = [pc EXCEPT ![p] = "rows"]
        /\ con' = [con EXCEPT ![p] = c] /\ pc[p] = "acquire"
    BY <1>3 DEF StreamAcquire, Goto
  <2> QED
    BY <1>1, <2>1, CacheKept DEF Place, Holding, Streaming, Unplanned
<1>4. CASE RowArrives(p) \/ RowsEnd(p) \/ ChunkSent(p) \/ QueryFails(p)
  <2>1. UNCHANGED <<type, con, cache, stale>>
        /\ (pc' = pc \/ \E x \in {"rows", "head", "chunk", "ending"} : pc' = [pc EXCEPT ![p] = x])
    BY <1>4 DEF RowArrives, RowsEnd, ChunkSent, QueryFails, Yield, Goto, poolVars, EndTransaction, Fault
  <2> QED
    BY <1>1, <2>1, CacheKept DEF Place, Holding, Streaming, Unplanned
<1>5. CASE Interrupted(p) \/ SendFails(p)
  <2>1. UNCHANGED <<type, con, cache, stale>> /\ \E x \in {"ending", "cancel"} : pc' = [pc EXCEPT ![p] = x]
    BY <1>5 DEF Interrupted, SendFails, Unwind, EndTransaction, Goto
  <2> QED
    BY <1>1, <2>1, CacheKept DEF Place, Holding, Streaming, Unplanned
<1>6. CASE CancelHandled(p) \/ CancelFails(p) \/ CleanupInterrupted(p) \/ Watch(p)
  <2>1. UNCHANGED <<type, con, cache, stale>> /\ (pc' = pc \/ pc' = [pc EXCEPT ![p] = "close"])
    BY <1>6 DEF CancelHandled, CancelFails, CleanupInterrupted, Watch, Reschedule, Goto, Fault, poolVars
  <2> QED
    BY <1>1, <2>1, CacheKept DEF Place, Holding, Streaming, Unplanned
<1>7. CASE Closed(p)
  <2>1. con[p] \in Con
    BY <1>7 DEF Closed, PoolInv, ConInv, Holding, Streaming, TypeOK, PoolTypeOK
  <2>2. UNCHANGED type /\ Replace(p) /\ pc' = [pc EXCEPT ![p] = "released"]
    BY <1>7 DEF Closed, Replace, Return
  <2>3. "released" \in Place \ {"statement"} /\ "released" \notin Unplanned
    BY DEF Place, Unplanned
  <2> QED
    BY <1>1, <2>1, <2>2, <2>3, CacheKept, Zenon
<1>8. CASE Released(p) \/ LastSent(p) \/ LastFails(p)
  <2>1. UNCHANGED <<type, con, cache, stale>>
    BY <1>8 DEF Released, LastSent, LastFails, StreamExit, poolVars
  <2>2. \E x \in {"tail", "error_head", "error_body", "late_head", "late_body", "done"} : pc' = [pc EXCEPT ![p] = x]
    BY <1>8 DEF Released, LastSent, LastFails, StreamExit, Done, Goto
  <2> QED
    BY <1>1, <2>1, <2>2, CacheKept DEF Place, Sending, Unplanned
<1> QED
  BY <1>2, <1>3, <1>4, <1>5, <1>6, <1>7, <1>8 DEF StreamNext, StreamStep

\* Only the type of a column that has been found is asked for.
LEMMA AskFacts ==
  ASSUME NEW c \in Caches, NEW lookup \in Lookup, NEW f
  PROVE  Ask(c, lookup, f) = "info" => f # {} /\ ~(f \subseteq {NoTable, NoColumn})
<1>1. CASE c[lookup] # {}
  BY <1>1 DEF Ask
<1>2. CASE c[lookup] = {} /\ ~c.dict
  BY <1>2 DEF Ask
<1>3. CASE c[lookup] = {} /\ c.dict /\ f = {}
  BY <1>3 DEF Ask
<1>4. CASE c[lookup] = {} /\ c.dict /\ f # {}
  BY <1>4 DEF Ask
<1> QED
  BY <1>1, <1>2, <1>3, <1>4 DEF Caches

\* What is remembered of a lookup is a type that was known, or in columns that the
\* column was missing; the rest of the cache stays.
LEMMA RememberFacts ==
  ASSUME NEW c \in Caches, NEW lookup \in Lookup, NEW f
  PROVE  LET r == Remember(c, lookup, f)
         IN  /\ \A part \in Parts \ {lookup} : r[part] = c[part]
             /\ \/ r[lookup] = c[lookup] \/ r[lookup] = c.info
                \/ lookup = "columns" /\ f = {NoColumn} /\ r[lookup] = {NoColumn}
<1>1. CASE lookup = "column"
  BY <1>1 DEF Remember, Caches, Parts
<1>2. CASE lookup = "columns"
  BY <1>2 DEF Remember, Caches, Parts
<1> QED
  BY <1>1, <1>2 DEF Lookup

\* A route's request learns what the catalog says.
LEMMA RouteCache ==
  ASSUME TypeOK, PoolInv, CacheInv, NEW p \in Request, RouteNext(p)
  PROVE  CacheInv'
<1> USE DEF worldVars, taskVars, routeVars, handlerVars
<1>a. TaskTypeOK /\ PoolTypeOK /\ RouteTypeOK /\ (\A c \in Con : FreshCache(c)) /\ (\A q \in Request : FoundInv(q))
  BY DEF TypeOK, CacheInv
<1>b. pc[p] \in Holding => con[p] \in Con
  BY <1>a DEF PoolInv, ConInv, PoolTypeOK
<1>1. CASE RouteCall(p) \/ Receive(p) \/ Put(p) \/ CancelWhenGone(p) \/ Read(p) \/ ReadCancelled(p)
           \/ Executed(p) \/ RouteReleased(p) \/ RequestFails(p)
           \/ Interrupt(p, "cancelled") \/ Interrupt(p, "timeout")
  <2>1. UNCHANGED <<type, con, cache, stale, stmt, found>>
    BY <1>1 DEF RouteCall, Receive, Put, CancelWhenGone, Read, ReadCancelled, Executed, RouteReleased,
       RequestFails, Interrupt, RouteExit, EndTransaction, Reschedule, Fault, poolVars
  <2>2. pc' = pc \/ \E x \in {"body", "acquire", "cancelling", "ending", "done"} :
                      pc' = [pc EXCEPT ![p] = x] /\ (x \in Unplanned => pc[p] \in Unplanned)
    BY <1>1 DEF RouteCall, Receive, Put, CancelWhenGone, Read, ReadCancelled, Executed, RouteReleased,
       RequestFails, Interrupt, RouteExit, EndTransaction, Reschedule, Done, Move, Unplanned
  <2> QED
    BY <2>1, <2>2, CacheKept DEF Place, Holding, Handling
<1>2. ASSUME NEW c \in Con, RouteAcquire(p, c)
      PROVE  CacheInv'
  <2>1. UNCHANGED <<type, found>> /\ con' = [con EXCEPT ![p] = c] /\ pc[p] = "acquire" /\ Free(c)
        /\ \/ UNCHANGED <<cache, stale>>
           \/ cache' = [cache EXCEPT ![c] = EmptyCache] /\ stale' = [stale EXCEPT ![c] = {}]
    BY <1>2 DEF RouteAcquire, ClearCache
  <2>2. \/ stmt' = [stmt EXCEPT ![p] = "begin"] /\ pc' = [pc EXCEPT ![p] = "statement"]
        \/ UNCHANGED stmt /\ pc' = [pc EXCEPT ![p] = "plan"]
    BY <1>2 DEF RouteAcquire, Move
  <2>3. ASSUME NEW d \in Con
        PROVE  FreshCache(d)'
    <3>1. UNCHANGED <<cache[d], stale[d]>> \/ (cache'[d] = EmptyCache /\ stale'[d] = {})
      BY <1>a, <2>1 DEF PoolTypeOK
    <3>2. CASE UNCHANGED <<cache[d], stale[d]>>
      BY <1>a, <2>1, <3>2 DEF FreshCache
    <3>3. CASE cache'[d] = EmptyCache /\ stale'[d] = {}
      BY <3>3 DEF FreshCache, EmptyCache, Parts
    <3> QED
      BY <3>1, <3>2, <3>3
  <2>4. ASSUME NEW q \in Request
        PROVE  FoundInv(q)'
    <3>1. pc'[q] = "statement" /\ stmt'[q] = "info" => pc[q] = "statement" /\ stmt[q] = "info"
      BY <1>a, <2>2 DEF TaskTypeOK, RouteTypeOK
    <3>2. found'[q] = found[q] /\ type' = type
      BY <2>1
    <3>3. CASE q = p
      BY <1>a, <2>1, <3>1, <3>2, <3>3 DEF FoundInv, Unplanned
    <3>4. CASE q # p
      <4>1. con'[q] = con[q] /\ pc'[q] = pc[q] /\ con[q] # c
        BY <1>a, <2>1, <2>2, <3>4 DEF TaskTypeOK, PoolTypeOK, Free
      <4>2. con[q] \in Con => stale'[con[q]] = stale[con[q]]
        BY <1>a, <2>1, <4>1 DEF PoolTypeOK
      <4> QED
        BY <1>a, <3>1, <3>2, <4>1, <4>2 DEF FoundInv
    <3> QED
      BY <3>3, <3>4
  <2> QED
    BY <2>3, <2>4 DEF CacheInv
<1>3. CASE Plan(p)
  <2>1. pc[p] = "plan" /\ UNCHANGED <<con, stale, type>> /\ con[p] \in Con
    BY <1>b, <1>3 DEF Plan, Holding, Handling
  <2>2. ASSUME NEW s, Execute(p, s), UNCHANGED <<cache, found>>, s = "info" => type \notin {NoTable, NoColumn}
        PROVE  CacheInv'
    <3>1. stmt' = [stmt EXCEPT ![p] = s] /\ pc' = [pc EXCEPT ![p] = "statement"]
      BY <2>2 DEF Execute, Move
    <3>2. ASSUME NEW q \in Request
          PROVE  FoundInv(q)'
      <4>1. pc'[q] \in Unplanned => pc[q] \in Unplanned
        BY <1>a, <3>1 DEF TaskTypeOK, Unplanned
      <4>2. pc'[q] = "statement" /\ stmt'[q] = "info" => type \notin {NoTable, NoColumn}
        BY <1>a, <2>2, <3>1 DEF TaskTypeOK, RouteTypeOK, FoundInv
      <4> QED
        BY <1>a, <2>1, <2>2, <4>1, <4>2 DEF FoundInv
    <3>3. \A c \in Con : FreshCache(c)'
      BY <1>a, <2>1, <2>2 DEF FreshCache
    <3> QED
      BY <3>2, <3>3 DEF CacheInv
  <2>3. CASE todo[p] = <<>>
    BY <1>3, <2>2, <2>3 DEF Plan
  <2>4. CASE todo[p] # <<>>
    <3> DEFINE known == cache[con[p]]
               lookup == Head(todo[p])
               next == Ask(known, lookup, found[p])
               learned == Remember(known, lookup, found[p])
    <3>1. known \in Caches /\ lookup \in Lookup
      BY <1>a, <2>1, <2>4 DEF PoolTypeOK, RouteTypeOK
    <3>2. CASE next # "none"
      <4>1. Execute(p, next) /\ UNCHANGED <<cache, found>>
        BY <1>3, <2>4, <3>2 DEF Plan
      <4>2. next = "info" => type \notin {NoTable, NoColumn}
        <5> SUFFICES ASSUME next = "info" PROVE type \notin {NoTable, NoColumn}
          OBVIOUS
        <5>1. found[p] # {} /\ ~(found[p] \subseteq {NoTable, NoColumn})
          BY <3>1, AskFacts
        <5>2. PICK x \in Nat : found[p] = {x} /\ x <= type
          BY <1>a, <5>1 DEF FoundInv
        <5>3. type \in Nat /\ x \notin {0, 1}
          BY <1>a, <5>1, <5>2 DEF PoolTypeOK, NoTable, NoColumn
        <5> QED
          BY <5>2, <5>3 DEF NoTable, NoColumn
      <4> QED
        BY <2>2, <4>1, <4>2
    <3>3. CASE next = "none"
      <4>1. cache' = [cache EXCEPT ![con[p]] = learned] /\ found' = [found EXCEPT ![p] = {}] /\ UNCHANGED <<pc, stmt>>
        BY <1>3, <2>4, <3>3 DEF Plan
      <4>2. /\ \A part \in Parts \ {lookup} : learned[part] = known[part]
            /\ \/ learned[lookup] = known[lookup] \/ learned[lookup] = known.info
               \/ lookup = "columns" /\ found[p] = {NoColumn} /\ learned[lookup] = {NoColumn}
        BY <3>1, RememberFacts
      <4> HIDE DEF learned
      <4>3. FreshCache(con[p])'
        <5>1. cache'[con[p]] = learned /\ stale' = stale /\ type' = type /\ FreshCache(con[p])
          BY <1>a, <2>1, <4>1 DEF PoolTypeOK
        <5>2. found[p] = {NoColumn} => type = NoColumn \/ "columns" \in stale[con[p]]
          BY <1>a, <2>1 DEF FoundInv
        <5>3. \A part \in Parts : NoTable \notin learned[part]
          BY <4>2, <5>1 DEF FreshCache, NoTable, NoColumn, Parts
        <5>4. NoColumn \notin learned.info \cup learned.column
          BY <3>1, <4>2, <5>1 DEF FreshCache, Parts, Lookup
        <5>5. ASSUME NEW part \in Parts \ stale[con[p]]
              PROVE  learned[part] \subseteq {type}
          <6>1. CASE part # lookup
            BY <4>2, <5>1, <5>5, <6>1 DEF FreshCache
          <6>2. CASE part = lookup /\ learned[lookup] = known[lookup]
            BY <5>1, <5>5, <6>2 DEF FreshCache
          <6>3. CASE part = lookup /\ learned[lookup] = known.info
            <7>1. "info" \in Parts /\ "info" \notin stale[con[p]]
              BY <5>1, <5>5 DEF FreshCache, Parts
            <7> QED
              BY <5>1, <6>3, <7>1 DEF FreshCache
          <6>4. CASE part = "columns" /\ found[p] = {NoColumn} /\ learned[part] = {NoColumn}
            BY <5>2, <5>5, <6>4
          <6> QED
            BY <4>2, <6>1, <6>2, <6>3, <6>4
        <5> QED
          BY <2>1, <5>1, <5>3, <5>4, <5>5 DEF FreshCache
      <4>4. \A c \in Con \ {con[p]} : FreshCache(c)'
        BY <1>a, <2>1, <4>1 DEF PoolTypeOK, FreshCache
      <4>5. \A q \in Request : FoundInv(q)'
        BY <1>a, <2>1, <4>1 DEF TaskTypeOK, RouteTypeOK, FoundInv
      <4> QED
        BY <2>1, <4>3, <4>4, <4>5 DEF CacheInv
    <3> QED
      BY <3>2, <3>3
  <2> QED
    BY <2>3, <2>4
<1>4. CASE Answered(p)
  <2>1. /\ pc[p] = "statement" /\ pc' = [pc EXCEPT ![p] = "plan"] /\ UNCHANGED <<con, stale, type, stmt>>
        /\ cache' = [cache EXCEPT ![con[p]] = Learn(@, stmt[p], type)] /\ con[p] \in Con
        /\ found' = [found EXCEPT ![p] = IF stmt[p] = "lookup" THEN {type} ELSE @]
    BY <1>b, <1>4 DEF Answered, Move, Holding, Handling
  <2>2. ASSUME NEW c \in Con
        PROVE  FreshCache(c)'
    <3>1. stmt[p] = "info" => type \notin {NoTable, NoColumn}
      BY <1>a, <2>1 DEF FoundInv
    <3>2. \/ \A part \in Parts : cache'[c][part] = cache[c][part]
          \/ /\ stmt[p] = "info" /\ cache'[c].info = {type}
             /\ \A part \in Parts \ {"info"} : cache'[c][part] = cache[c][part]
      BY <1>a, <2>1 DEF PoolTypeOK, Learn, Caches, Parts
    <3>3. CASE \A part \in Parts : cache'[c][part] = cache[c][part]
      BY <1>a, <2>1, <3>3 DEF FreshCache, Parts
    <3>4. CASE /\ stmt[p] = "info" /\ cache'[c].info = {type}
               /\ \A part \in Parts \ {"info"} : cache'[c][part] = cache[c][part]
      BY <1>a, <2>1, <3>1, <3>4 DEF FreshCache, Parts
    <3> QED
      BY <3>2, <3>3, <3>4
  <2>3. ASSUME NEW q \in Request
        PROVE  FoundInv(q)'
    <3>1. type \in Nat
      BY <1>a DEF PoolTypeOK
    <3>2. CASE q = p /\ stmt[p] = "lookup"
      <4>1. found'[q] = {type} /\ type <= type /\ pc'[q] = "plan"
        BY <1>a, <2>1, <3>1, <3>2 DEF TaskTypeOK, RouteTypeOK
      <4> QED
        BY <2>1, <3>1, <4>1 DEF FoundInv, Unplanned
    <3>3. CASE ~(q = p /\ stmt[p] = "lookup")
      <4>1. found'[q] = found[q] /\ (pc'[q] = pc[q] \/ (pc[q] = "statement" /\ pc'[q] = "plan"))
        BY <1>a, <2>1, <3>3 DEF TaskTypeOK, RouteTypeOK
      <4> QED
        BY <1>a, <2>1, <4>1 DEF FoundInv, Unplanned
    <3> QED
      BY <3>2, <3>3
  <2> QED
    BY <2>2, <2>3 DEF CacheInv
<1>5. ASSUME NEW x \in {"ending", "leaving", "released"}, pc' = [pc EXCEPT ![p] = x],
             UNCHANGED <<type, stmt, found, cache, stale>>, con' = con \/ con' = [con EXCEPT ![p] = NoCon]
      PROVE  CacheInv'
  BY <1>5, CacheKept DEF Place, Holding, Unplanned
<1>6. CASE HandlerFails(p)
  <2>1. UNCHANGED <<type, stmt, found>> /\ \E why : EndTransaction(p, why) \/ BeginFailed(p, why)
    BY <1>6 DEF HandlerFails, Fault
  <2> QED
    BY <1>5, <2>1 DEF EndTransaction, BeginFailed, GiveBack, Return
<1>7. CASE StatementCancelled(p)
  <2>1. UNCHANGED <<type, stmt, found>>
        /\ ((\E why : EndTransaction(p, why) \/ BeginFailed(p, why)) \/ RestoreFails(p, "open"))
    BY <1>7 DEF StatementCancelled
  <2> QED
    BY <1>5, <2>1 DEF EndTransaction, BeginFailed, GiveBack, Return, RestoreFails
<1>8. ASSUME Replace(p), UNCHANGED <<type, stmt, found>>, con[p] \in Con
      PROVE  CacheInv'
  <2>1. pc' = [pc EXCEPT ![p] = "released"]
    BY <1>8 DEF Replace, Return
  <2>2. "released" \in Place \ {"statement"} /\ "released" \notin Unplanned
    BY DEF Place, Unplanned
  <2> QED
    BY <1>8, <2>1, <2>2, CacheKept, Zenon
<1>9. CASE CancelledAgain(p) \/ Breaks(p)
  <2>1. UNCHANGED <<type, stmt, found>> /\ con[p] \in Con /\ (RestoreFails(p, "active") \/ Replace(p))
    BY <1>b, <1>9 DEF CancelledAgain, Breaks, Fault, Holding, Handling
  <2> QED
    BY <1>5, <1>8, <2>1 DEF RestoreFails
<1> QED
  BY <1>1, <1>2, <1>3, <1>4, <1>6, <1>7, <1>9 DEF RouteNext, RouteStep

\* The common steps: the catalog changes, or a connection is given back.
LEMMA NextCache == TypeOK /\ PoolInv /\ CacheInv /\ [Next]_vars => CacheInv'
<1> SUFFICES ASSUME TypeOK, PoolInv, CacheInv, [Next]_vars PROVE CacheInv'
  OBVIOUS
<1> USE DEF routeVars, handlerVars
<1>1. ASSUME NEW p \in Request, Deadline(p) \/ Cancel(p) \/ Leave(p) \/ NoConnection(p, "error")
             \/ NoConnection(p, "cancelled"), UNCHANGED routeVars
      PROVE  CacheInv'
  <2>1. UNCHANGED <<type, con, cache, stale>> /\ (pc' = pc \/ pc' = [pc EXCEPT ![p] = "released"])
    BY <1>1 DEF Deadline, Cancel, Leave, NoConnection, Fault, poolVars, worldVars, taskVars
  <2> QED
    BY <1>1, <2>1, CacheKept DEF Place, Unplanned
<1>2. ASSUME NEW p \in Request, Ended(p) \/ EndCancelled(p) \/ Left(p), UNCHANGED routeVars
      PROVE  CacheInv'
  <2>1. con[p] \in Con
    BY <1>2 DEF Ended, EndCancelled, Left, PoolInv, ConInv, Holding, TypeOK, PoolTypeOK
  <2>2. type' = type
    BY <1>2 DEF Ended, EndCancelled, Left, Fault, worldVars
  <2>3. GiveBack(p) \/ Replace(p) \/ \E s : RestoreFails(p, s)
    BY <1>2 DEF Ended, EndCancelled, Left
  <2>4. \/ UNCHANGED <<cache, stale>> /\ con' = [con EXCEPT ![p] = NoCon] /\ pc' = [pc EXCEPT ![p] = "released"]
        \/ Replace(p) /\ pc' = [pc EXCEPT ![p] = "released"]
        \/ UNCHANGED <<con, cache, stale>> /\ pc' = [pc EXCEPT ![p] = "leaving"]
    BY <2>3 DEF GiveBack, Replace, Return, RestoreFails
  <2> QED
    BY <1>2, <2>1, <2>2, <2>4, CacheKept DEF Place, Holding, Unplanned
<1>3. CASE Alter /\ UNCHANGED routeVars
  <2>1. /\ type \in Nat /\ type' = type + 1 /\ UNCHANGED <<con, cache, pc, stmt, found>>
        /\ \A c \in Con : stale'[c] = stale[c] \cup Outdated(type) /\ stale[c] \subseteq Parts
    BY <1>3 DEF Alter, TypeOK, PoolTypeOK, taskVars
  <2>2. ASSUME NEW c \in Con
        PROVE  FreshCache(c)'
    <3>1. FreshCache(c) /\ stale'[c] = stale[c] \cup Outdated(type) /\ cache'[c] = cache[c]
      BY <2>1, <2>2 DEF CacheInv
    <3>2. CASE type = NoTable
      <4>1. stale'[c] = stale[c]
        <5>1. Outdated(NoTable) = {}
          BY DEF Outdated, NoTable, NoColumn
        <5> QED
          BY <3>1, <3>2, <5>1
      <4>2. \A part \in Parts \ stale[c] : cache[c][part] = {}
        BY <3>1, <3>2 DEF FreshCache
      <4> QED
        BY <2>1, <3>1, <4>1, <4>2 DEF FreshCache
    <3>3. CASE type = NoColumn
      <4>1. Outdated(type) = {"columns"}
        BY <3>3 DEF Outdated, NoTable, NoColumn
      <4> QED
        BY <2>1, <3>1, <3>3, <4>1 DEF FreshCache, Parts
    <3>4. CASE type \notin {NoTable, NoColumn}
      <4>1. stale'[c] = Parts
        BY <2>1, <3>1, <3>4 DEF Outdated
      <4> QED
        BY <3>1, <4>1 DEF FreshCache
    <3> QED
      BY <3>2, <3>3, <3>4
  <2>3. ASSUME NEW p \in Request
        PROVE  FoundInv(p)'
    <3>1. FoundInv(p)
      BY DEF CacheInv
    <3>2. type' \in Nat /\ type' \notin {NoTable} /\ (type' = NoColumn => type = NoTable)
      BY <2>1 DEF NoTable, NoColumn
    <3>3. pc'[p] = "statement" /\ stmt'[p] = "info" => type' \notin {NoTable, NoColumn}
      BY <2>1, <3>1, <3>2 DEF FoundInv
    <3>4. ASSUME NEW x \in Nat, found[p] = {x}, x <= type
          PROVE  x <= type' /\ (con[p] \in Con /\ found[p] = {NoColumn} => "columns" \in stale'[con[p]])
      <4>1. x <= type'
        BY <2>1, <3>4
      <4>2. CASE type = NoTable
        BY <3>4, <4>1, <4>2 DEF NoTable, NoColumn
      <4>3. CASE type = NoColumn
        <5>1. "columns" \in Outdated(type)
          BY <4>3 DEF Outdated, NoTable, NoColumn
        <5> QED
          BY <2>1, <4>1, <5>1
      <4>4. CASE type \notin {NoTable, NoColumn}
        <5>1. "columns" \in Outdated(type)
          BY <4>4 DEF Outdated, Parts
        <5> QED
          BY <2>1, <4>1, <5>1
      <4> QED
        BY <4>2, <4>3, <4>4
    <3> QED
      BY <2>1, <3>1, <3>3, <3>4 DEF FoundInv
  <2> QED
    BY <2>2, <2>3 DEF CacheInv
<1>4. CASE UNCHANGED vars
  BY <1>4 DEF vars, servingVars, taskVars, poolVars, worldVars, CacheInv, FreshCache, FoundInv
<1> QED
  BY <1>1, <1>2, <1>3, <1>4, StreamCache, RouteCache DEF Next, Common

\* What a part of a connection's cache says of the column is true, unless the catalog
\* has changed since in a way that the part does not notice: what a ComplexHelper may
\* rely on while it lives on a pooled connection, whoever fills the cache and in
\* whatever order the lookups meet the migration.
THEOREM CachesTrue == Spec => []CacheTrue
<1>1. Init => CacheInv
  BY DEF Init, ServingInit, RouteInit, CacheInv, FreshCache, FoundInv, EmptyCache, Parts
<1>2. TypeOK /\ PoolInv /\ CacheInv /\ [Next]_vars => CacheInv'
  BY NextCache
<1>3. CacheInv => CacheTrue
  BY DEF CacheInv, FreshCache, CacheTrue
<1> QED
  BY <1>1, <1>2, <1>3, PoolCorrect, PTL DEF Spec

-----------------------------------------------------------------------------
(* Responses *)

\* What is on the wire agrees with where the response stands: every row is told, in a
\* batch, or still to come; the array is whole only when the query is over, and
\* nothing but its last message is left to send.
RowsInv(p) ==
  /\ told[p] + batch[p] + left[p] = Job(p).rows
  /\ status[p] = 0 => told[p] = 0 /\ body[p] = "none"
  /\ pc[p] \in {"start", "acquire"} => status[p] = 0
  /\ pc[p] = "rows" => status[p] \in {0, 200} /\ body[p] # "whole" /\ tx[con[p]] = "active"
  /\ pc[p] \in {"head", "chunk"} =>
       status[p] = 200 /\ body[p] # "whole" /\ (tx[con[p]] = "active" \/ (tx[con[p]] = "open" /\ left[p] = 0))
  /\ pc[p] \in {"cancel", "close", "ending", "released"} =>
       status[p] \in {0, 200} /\ (exc[p] = "none" => status[p] = 200 /\ body[p] = "whole")
  /\ pc[p] = "tail" => status[p] = 200 /\ body[p] = "whole"
  /\ pc[p] \in {"error_head", "error_body", "late_head", "late_body"} => status[p] \notin {0, 200}

WireInv(p) ==
  /\ p \in over => pc[p] = "done"
  /\ pc[p] \in Streaming \cup Sending => Job(p).kind = "stream"
  /\ pc[p] \in Handling \cup {"body", "leaving"} => IsRoute(p)
  /\ Job(p).kind = "stream" => RowsInv(p)

\* A step of p is about its own response, and one that HttpExchange has, if it is
\* about the wire at all.
WireStep(p) ==
  /\ \A q \in Request \ {p} :
       /\ pc'[q] = pc[q] /\ exc'[q] = exc[q] /\ (q \in over' => q \in over)
       /\ left'[q] = left[q] /\ batch'[q] = batch[q] /\ status'[q] = status[q] /\ told'[q] = told[q]
       /\ body'[q] = body[q]
HttpStep(p) == setup' = setup /\ (UNCHANGED wireVars \/ Http!Begin(p) \/ Http!Tell(p) \/ Http!End(p))

\* A step of one request leaves what is said of the others' responses.
LEMMA WireKept ==
  ASSUME TypeOK, PoolInv, \A q \in Request : WireInv(q), NEW p \in Request, PoolStep(p), WireStep(p), WireInv(p)'
  PROVE  \A q \in Request : WireInv(q)'
<1> SUFFICES ASSUME NEW q \in Request, q # p PROVE WireInv(q)'
  OBVIOUS
<1>1. /\ setup' = setup /\ con'[q] = con[q] /\ pc'[q] = pc[q] /\ exc'[q] = exc[q] /\ (q \in over' => q \in over)
      /\ left'[q] = left[q] /\ batch'[q] = batch[q] /\ status'[q] = status[q] /\ told'[q] = told[q]
      /\ body'[q] = body[q]
  BY DEF PoolStep, WireStep
<1>2. pc[q] \in {"rows", "head", "chunk"} => tx'[con[q]] = tx[con[q]]
  <2> SUFFICES ASSUME pc[q] \in {"rows", "head", "chunk"} PROVE tx'[con[q]] = tx[con[q]]
    OBVIOUS
  <2>1. con[q] \in Con /\ con[q] # NoCon
    BY DEF PoolInv, ConInv, TypeOK, PoolTypeOK, Holding, Streaming
  <2>2. con[q] \notin {con[p], con'[p]}
    BY <2>1 DEF PoolInv, Exclusive, PoolStep, Free
  <2> QED
    BY <2>1, <2>2 DEF PoolStep
<1>3. WireInv(q)
  OBVIOUS
<1> QED
  BY <1>1, <1>2, <1>3 DEF WireInv, RowsInv, IsRoute, Job

\* A response in its block, in the middle of what it streams.
LEMMA RowsKept ==
  ASSUME TypeOK, PoolInv, NEW p \in Request, WireInv(p),
         StreamCall(p) \/ (\E c \in Con : StreamAcquire(p, c)) \/ RowArrives(p) \/ RowsEnd(p) \/ HeadSent(p) \/ ChunkSent(p)
  PROVE  WireStep(p) /\ WireInv(p)' /\ HttpStep(p)
<1> USE DEF streamVars, wireVars, worldVars
<1>a. TaskTypeOK /\ PoolTypeOK /\ StreamTypeOK /\ (pc[p] \in Holding => con[p] \in Con) /\ Job(p)' = Job(p)
  BY DEF TypeOK, PoolInv, ConInv, PoolTypeOK, StreamCall, StreamAcquire, RowArrives, RowsEnd, HeadSent, ChunkSent, Job
<1>b. Job(p) \in Jobs
  BY <1>a, SetupFacts DEF TaskTypeOK
<1>1. CASE StreamCall(p)
  BY <1>a, <1>1 DEF TaskTypeOK, StreamTypeOK, WireStep, HttpStep, WireInv, RowsInv, StreamCall, Goto, Streaming, Sending,
     Handling, IsRoute
<1>2. ASSUME NEW c \in Con, StreamAcquire(p, c)
      PROVE  WireStep(p) /\ WireInv(p)' /\ HttpStep(p)
  <2>1. pc[p] = "acquire" /\ pc' = [pc EXCEPT ![p] = "rows"] /\ con' = [con EXCEPT ![p] = c] /\ tx' = [tx EXCEPT ![c] = "active"]
        /\ Job(p).kind = "stream" /\ UNCHANGED <<exc, streamVars, setup>>
    BY <1>2 DEF StreamAcquire, Goto
  <2> QED
    BY <1>a, <2>1 DEF TaskTypeOK, PoolTypeOK, StreamTypeOK, WireStep, HttpStep, WireInv, RowsInv, Streaming, Sending,
       Handling
<1>3. CASE RowArrives(p)
  <2>1. pc[p] = "rows" /\ Job(p).kind = "stream" /\ RowsInv(p) /\ p \notin over
    BY <1>3 DEF RowArrives, WireInv, Streaming
  <2>2. /\ left' = [left EXCEPT ![p] = @ - 1] /\ batch' = [batch EXCEPT ![p] = @ + 1] /\ left[p] > 0
        /\ UNCHANGED <<exc, con, tx, setup, told, body, over>>
    BY <1>3 DEF RowArrives, poolVars
  <2>3. \/ UNCHANGED <<pc, status>>
        \/ status[p] = 0 /\ status' = [status EXCEPT ![p] = 200] /\ pc' = [pc EXCEPT ![p] = "head"]
        \/ UNCHANGED status /\ status[p] # 0 /\ pc' = [pc EXCEPT ![p] = "chunk"]
    BY <1>3 DEF RowArrives, Yield, Start, Goto
  <2>4. WireStep(p)
    BY <1>a, <2>2, <2>3 DEF TaskTypeOK, StreamTypeOK, WireStep
  <2>5. told'[p] + batch'[p] + left'[p] = Job(p)'.rows
    BY <1>a, <1>b, <2>1, <2>2 DEF StreamTypeOK, RowsInv, Jobs
  <2>6. RowsInv(p)'
    BY <1>a, <2>1, <2>2, <2>3, <2>5 DEF TaskTypeOK, StreamTypeOK, RowsInv
  <2>7. HttpStep(p)
    BY <2>2, <2>3 DEF HttpStep, Http!Begin, Job
  <2> QED
    BY <1>a, <2>1, <2>2, <2>3, <2>4, <2>6, <2>7 DEF TaskTypeOK, WireInv, Streaming, Sending, Handling
<1>4. CASE RowsEnd(p)
  <2>1. pc[p] = "rows" /\ Job(p).kind = "stream" /\ RowsInv(p) /\ p \notin over /\ con[p] \in Con
    BY <1>a, <1>4 DEF RowsEnd, WireInv, Streaming, Holding
  <2>2. /\ left[p] = 0 /\ tx' = [tx EXCEPT ![con[p]] = "open"]
        /\ UNCHANGED <<exc, con, setup, left, batch, told, body, over>>
    BY <1>4 DEF RowsEnd, Ends, Status
  <2>3. \/ status[p] = 0 /\ status' = [status EXCEPT ![p] = 200] /\ pc' = [pc EXCEPT ![p] = "head"]
        \/ UNCHANGED status /\ status[p] # 0 /\ pc' = [pc EXCEPT ![p] = "chunk"]
    BY <1>4 DEF RowsEnd, Yield, Start, Goto
  <2>4. WireStep(p) /\ HttpStep(p)
    BY <1>a, <2>2, <2>3 DEF TaskTypeOK, StreamTypeOK, WireStep, HttpStep, Http!Begin, Job
  <2>5. RowsInv(p)'
    BY <1>a, <2>1, <2>2, <2>3 DEF TaskTypeOK, PoolTypeOK, StreamTypeOK, RowsInv
  <2> QED
    BY <1>a, <2>1, <2>2, <2>3, <2>4, <2>5 DEF TaskTypeOK, WireInv, Streaming, Sending, Handling
<1>5. CASE HeadSent(p)
  <2>1. pc[p] = "head" /\ pc' = [pc EXCEPT ![p] = "chunk"] /\ UNCHANGED <<exc, con, tx, setup, streamVars>>
    BY <1>5 DEF HeadSent, Goto, poolVars
  <2> QED
    BY <1>a, <2>1 DEF TaskTypeOK, StreamTypeOK, WireStep, HttpStep, WireInv, RowsInv, Streaming, Sending, Handling
<1>6. CASE ChunkSent(p)
  <2>1. pc[p] = "chunk" /\ Job(p).kind = "stream" /\ RowsInv(p) /\ p \notin over /\ con[p] \in Con
    BY <1>a, <1>6 DEF ChunkSent, WireInv, Streaming, Holding
  <2>2. /\ told' = [told EXCEPT ![p] = @ + batch[p]] /\ batch' = [batch EXCEPT ![p] = 0]
        /\ body' = [body EXCEPT ![p] = IF QueryOver(p) THEN "whole" ELSE "open"]
        /\ UNCHANGED <<setup, left, status, over>>
    BY <1>6 DEF ChunkSent
  <2>3. \/ QueryOver(p) /\ exc' = [exc EXCEPT ![p] = "none"] /\ pc' = [pc EXCEPT ![p] = "ending"]
        \/ ~QueryOver(p) /\ UNCHANGED <<exc, con, tx>> /\ pc' = [pc EXCEPT ![p] = "rows"]
    BY <1>6 DEF ChunkSent, EndTransaction, Goto
  <2>4. WireStep(p)
    BY <1>a, <2>2, <2>3 DEF TaskTypeOK, StreamTypeOK, WireStep
  <2>5. told'[p] = told[p] + batch[p] /\ batch'[p] = 0 /\ told'[p] + batch'[p] + left'[p] = Job(p).rows
        /\ (QueryOver(p) => told'[p] = Job(p).rows) /\ told'[p] \in told[p]..Job(p).rows
    BY <1>a, <1>b, <2>1, <2>2 DEF StreamTypeOK, RowsInv, QueryOver, Jobs
  <2>6. RowsInv(p)'
    BY <1>a, <2>1, <2>2, <2>3, <2>5 DEF TaskTypeOK, StreamTypeOK, RowsInv, QueryOver
  <2>7. HttpStep(p)
    <3>1. status[p] = 200 /\ body[p] # "whole"
      BY <2>1 DEF RowsInv
    <3>2. told' = [told EXCEPT ![p] = told'[p]]
      BY <1>a, <2>2 DEF StreamTypeOK
    <3>3. body' = [body EXCEPT ![p] = "open"] \/ (told'[p] = Job(p).rows /\ body' = [body EXCEPT ![p] = "whole"])
      BY <2>2, <2>5
    <3>4. UNCHANGED <<[q \in Request |-> Job(q).rows], status, over>> /\ setup' = setup
      BY <2>2 DEF Job
    <3>5. [q \in Request |-> Job(q).rows][p] = Job(p).rows
      OBVIOUS
    <3>6. Http!Tell(p)
      BY <2>1, <2>5, <3>1, <3>2, <3>3, <3>4, <3>5 DEF Http!Tell
    <3> QED
      BY <3>4, <3>6 DEF HttpStep
  <2> QED
    BY <1>a, <2>1, <2>2, <2>3, <2>4, <2>6, <2>7 DEF TaskTypeOK, WireInv, Streaming, Sending, Handling
<1> QED
  BY <1>1, <1>2, <1>3, <1>4, <1>5, <1>6

\* A response on its way out of the block, which sends nothing.
LEMMA CleanupKept ==
  ASSUME TypeOK, NEW p \in Request, WireInv(p), UNCHANGED <<setup, streamVars>>,
         NEW x \in {"cancel", "close", "ending", "released"}, NEW why, why # "none",
         pc[p] \in {"acquire", "rows", "head", "chunk", "cancel", "close", "ending", "statement"},
         pc' = pc \/ pc' = [pc EXCEPT ![p] = x],
         \/ pc[p] \in {"cancel", "close", "ending"} /\ exc' = exc
         \/ exc' = [exc EXCEPT ![p] = why],
         pc' = pc => pc[p] \in {"cancel", "close", "ending"},
         pc[p] \in {"acquire", "statement"} => x \in {"released", "ending"},
         x \in {"cancel", "close"} => Job(p).kind = "stream"
  PROVE  WireStep(p) /\ WireInv(p)' /\ HttpStep(p)
<1> USE DEF streamVars, wireVars
<1>1. WireStep(p) /\ HttpStep(p)
  BY DEF TypeOK, TaskTypeOK, WireStep, HttpStep
<1>2. Job(p)' = Job(p) /\ IsRoute(p)' = IsRoute(p)
  BY DEF Job, IsRoute
<1>3. pc'[p] \in {"cancel", "close", "ending", "released"} /\ (exc'[p] = "none" => exc[p] = "none" /\ pc[p] \in {"cancel", "close", "ending"})
  BY DEF TypeOK, TaskTypeOK
<1>4. pc'[p] \in Streaming => Job(p).kind = "stream"
  BY DEF TypeOK, TaskTypeOK, WireInv, Streaming
<1>5. Job(p).kind = "stream" => RowsInv(p)'
  BY <1>2, <1>3 DEF WireInv, RowsInv, IsRoute, Handling, StreamTypeOK
<1> QED
  BY <1>1, <1>2, <1>3, <1>4, <1>5 DEF WireInv, Sending, Handling, Streaming

\* The same for the steps that raise.
LEMMA RaiseWire ==
  ASSUME TypeOK, NEW p \in Request, WireInv(p), UNCHANGED <<setup, streamVars>>,
         NEW x \in {"cancel", "ending", "released"}, NEW why \in Outcomes \ {"none"},
         pc[p] \in {"acquire", "rows", "head", "chunk"},
         pc' = [pc EXCEPT ![p] = x], exc' = [exc EXCEPT ![p] = why],
         pc[p] = "acquire" => x = "released"
  PROVE  WireStep(p) /\ WireInv(p)' /\ HttpStep(p)
<1>1. pc[p] # "acquire" => Job(p).kind = "stream"
  BY DEF WireInv, Streaming
<1>2. why # "none" /\ x \in {"cancel", "close", "ending", "released"}
  OBVIOUS
<1>3. x = "cancel" => Job(p).kind = "stream"
  BY <1>1
<1>4. pc' # pc
  BY DEF TypeOK, TaskTypeOK
<1> QED
  BY <1>2, <1>3, <1>4, CleanupKept

\* The end of a response.
LEMMA ExitWire ==
  ASSUME TypeOK, NEW p \in Request, NEW r, StreamExit(p, r), WireInv(p), Job(p).kind = "stream",
         UNCHANGED exc, pc[p] \in {"released"} \cup Sending,
         \/ UNCHANGED <<body, over>>
         \/ r = "value" /\ over' = over \cup {p} /\ pc[p] = "tail" /\ body' = body
         \/ r = "value" /\ over' = over \cup {p} /\ pc[p] = "error_body" /\ body' = [body EXCEPT ![p] = "message"]
  PROVE  WireStep(p) /\ WireInv(p)' /\ HttpStep(p)
<1> USE DEF wireVars, worldVars
<1>a. TaskTypeOK /\ StreamTypeOK /\ RowsInv(p) /\ p \notin over
  BY DEF TypeOK, WireInv, Sending
<1>b. UNCHANGED <<setup, left, batch, told>> /\ Job(p)' = Job(p) /\ IsRoute(p)' = IsRoute(p)
  BY DEF StreamExit, Job, IsRoute
<1>1. CASE Expired(p, r) /\ status[p] = 0
  <2>1. status' = [status EXCEPT ![p] = 499] /\ pc' = [pc EXCEPT ![p] = "late_head"] /\ UNCHANGED <<body, over>>
    BY <1>1 DEF StreamExit, Start, Goto, Expired
  <2>2. WireStep(p)
    BY <1>a, <1>b, <2>1 DEF TaskTypeOK, StreamTypeOK, WireStep
  <2>3. HttpStep(p)
    BY <1>1, <1>b, <2>1 DEF HttpStep, Http!Begin, Job
  <2>4. RowsInv(p)'
    BY <1>a, <1>b, <2>1 DEF TaskTypeOK, StreamTypeOK, RowsInv
  <2> QED
    BY <1>a, <1>b, <2>1, <2>2, <2>3, <2>4 DEF TaskTypeOK, WireInv, Handling, Streaming, Sending
<1>2. CASE ~(Expired(p, r) /\ status[p] = 0)
  <2>1. pc' = [pc EXCEPT ![p] = "done"] /\ UNCHANGED status
    BY <1>2 DEF StreamExit, Done
  <2>2. WireStep(p)
    BY <1>a, <1>b, <2>1 DEF TaskTypeOK, StreamTypeOK, WireStep
  <2>3. HttpStep(p)
    BY <1>a, <1>b, <2>1 DEF HttpStep, Http!End, Job, RowsInv
  <2>4. body'[p] = body[p] \/ (body'[p] = "message" /\ status[p] # 0)
    BY <1>a DEF StreamTypeOK, RowsInv
  <2>5. RowsInv(p)'
    BY <1>a, <1>b, <2>1, <2>4 DEF TaskTypeOK, RowsInv
  <2> QED
    BY <1>a, <1>b, <2>1, <2>2, <2>3, <2>5 DEF TaskTypeOK, WireInv, Handling, Streaming, Sending
<1> QED
  BY <1>1, <1>2

\* A late response's send fails, or is its last.
LEMMA LateWire ==
  ASSUME TypeOK, NEW p \in Request, WireInv(p), Job(p).kind = "stream",
         UNCHANGED <<exc, setup, left, batch, status, told>>, pc[p] \in {"late_head", "late_body"},
         Done(p, "499"),
         \/ UNCHANGED <<body, over>>
         \/ over' = over \cup {p} /\ body' = [body EXCEPT ![p] = "message"]
  PROVE  WireStep(p) /\ WireInv(p)' /\ HttpStep(p)
<1> USE DEF wireVars
<1>1. TaskTypeOK /\ StreamTypeOK /\ RowsInv(p) /\ p \notin over /\ Job(p)' = Job(p) /\ IsRoute(p)' = IsRoute(p)
  BY DEF TypeOK, WireInv, Job, IsRoute
<1>2. pc' = [pc EXCEPT ![p] = "done"]
  BY DEF Done
<1>3. WireStep(p)
  BY <1>1, <1>2 DEF TaskTypeOK, StreamTypeOK, WireStep
<1>4. HttpStep(p)
  BY <1>1 DEF HttpStep, Http!End, Job, RowsInv
<1>5. RowsInv(p)'
  BY <1>1, <1>2 DEF TaskTypeOK, StreamTypeOK, RowsInv
<1> QED
  BY <1>1, <1>2, <1>3, <1>4, <1>5 DEF TaskTypeOK, WireInv, Handling, Streaming, Sending

\* A step of a JSON response is one of the abstract exchange, or shows nothing of it.
LEMMA StreamWire ==
  ASSUME TypeOK, PoolInv, NEW p \in Request, WireInv(p), StreamNext(p)
  PROVE  WireStep(p) /\ WireInv(p)' /\ HttpStep(p)
<1> USE DEF streamVars, wireVars, worldVars
<1>a. TaskTypeOK /\ StreamTypeOK
  BY DEF TypeOK
<1>1. CASE StreamCall(p) \/ (\E c \in Con : StreamAcquire(p, c)) \/ RowArrives(p) \/ RowsEnd(p) \/ HeadSent(p) \/ ChunkSent(p)
  BY <1>1, RowsKept
<1>2. CASE QueryFails(p)
  <2>1. UNCHANGED <<setup, streamVars>> /\ pc[p] = "rows" /\ pc' = [pc EXCEPT ![p] = "ending"]
        /\ \E why \in {"error", "limit"} : exc' = [exc EXCEPT ![p] = why]
    BY <1>2 DEF QueryFails, Fault, EndTransaction
  <2>2. PICK why \in {"error", "limit"} : exc' = [exc EXCEPT ![p] = why]
    BY <2>1
  <2> QED
    BY <2>1, <2>2, RaiseWire DEF Outcomes
<1>3. CASE Interrupted(p) \/ SendFails(p)
  <2>1. UNCHANGED <<setup, streamVars>> /\ pc[p] \in {"rows", "head", "chunk"}
        /\ (\E why \in {"cancelled", "gone"} : exc' = [exc EXCEPT ![p] = why])
        /\ \E x \in {"ending", "cancel"} : pc' = [pc EXCEPT ![p] = x]
    BY <1>3 DEF Interrupted, SendFails, Unwind, EndTransaction, Goto
  <2>2. PICK why \in {"cancelled", "gone"}, x \in {"ending", "cancel"} :
          exc' = [exc EXCEPT ![p] = why] /\ pc' = [pc EXCEPT ![p] = x]
    BY <2>1
  <2> QED
    BY <2>1, <2>2, RaiseWire DEF Outcomes
<1>4. CASE CancelHandled(p) \/ CancelFails(p) \/ Closed(p)
  <2>1. UNCHANGED <<setup, streamVars>> /\ pc[p] \in {"cancel", "close"} /\ exc' = exc
        /\ \E x \in {"close", "released"} : pc' = [pc EXCEPT ![p] = x]
    BY <1>4 DEF CancelHandled, CancelFails, Closed, Fault, Goto, Replace, Return
  <2>2. Job(p).kind = "stream" /\ "error" # "none"
    BY <2>1 DEF WireInv, Streaming
  <2> QED
    BY <2>1, <2>2, CleanupKept
<1>5. CASE CleanupInterrupted(p)
  <2>1. UNCHANGED <<setup, streamVars>> /\ pc[p] \in {"cancel", "close"} /\ exc' = [exc EXCEPT ![p] = "cancelled"]
        /\ pc' = pc
    BY <1>5 DEF CleanupInterrupted
  <2> QED
    BY <2>1, CleanupKept
<1>6. CASE Watch(p)
  <2>1. UNCHANGED <<setup, streamVars, pc, exc, con, tx>>
    BY <1>6 DEF Watch, Reschedule, poolVars
  <2> QED
    BY <2>1 DEF WireStep, WireInv, HttpStep, RowsInv, IsRoute, Job
<1>7. CASE Released(p)
  <2>1. pc[p] = "released" /\ Job(p).kind = "stream" /\ UNCHANGED <<exc, body, over>> /\ RowsInv(p) /\ p \notin over
    BY <1>7 DEF Released, WireInv
  <2>2. CASE StreamExit(p, exc[p])
    BY <2>1, <2>2, ExitWire
  <2>3. CASE ~StreamExit(p, exc[p])
    <3>1. /\ UNCHANGED <<setup, left, batch, told>>
          /\ \/ exc[p] = "none" /\ pc' = [pc EXCEPT ![p] = "tail"] /\ UNCHANGED status
             \/ /\ exc[p] # "none" /\ status[p] = 0 /\ pc' = [pc EXCEPT ![p] = "error_head"]
                /\ \E s \in {500, 504} : status' = [status EXCEPT ![p] = s]
      BY <1>7, <2>3 DEF Released, Goto, Start
    <3>2. WireStep(p)
      BY <1>a, <2>1, <3>1 DEF TaskTypeOK, StreamTypeOK, WireStep
    <3>3. HttpStep(p)
      BY <2>1, <3>1 DEF HttpStep, Http!Begin, Job
    <3>4. RowsInv(p)' /\ Job(p)' = Job(p)
      BY <1>a, <2>1, <3>1 DEF TaskTypeOK, StreamTypeOK, RowsInv, Job
    <3> QED
      BY <1>a, <2>1, <3>1, <3>2, <3>3, <3>4 DEF TaskTypeOK, WireInv, Streaming, Sending, Handling
  <2> QED
    BY <2>2, <2>3
<1>8. CASE LastSent(p) \/ LastFails(p)
  <2>1. pc[p] \in Sending /\ UNCHANGED exc
    BY <1>8 DEF LastSent, LastFails, Sending
  <2>2. Job(p).kind = "stream" /\ RowsInv(p) /\ p \notin over
    BY <2>1 DEF WireInv, Sending
  <2>3. CASE LastFails(p)
    <3>1. CASE \E r \in {"cancelled", "gone"} : StreamExit(p, r)
      BY <2>1, <2>2, <2>3, <3>1, ExitWire DEF LastFails
    <3>2. CASE ~\E r \in {"cancelled", "gone"} : StreamExit(p, r)
      <4>1. pc[p] \in {"late_head", "late_body"} /\ Done(p, "499")
            /\ UNCHANGED <<setup, left, batch, status, told, body, over>>
        BY <2>3, <3>2 DEF LastFails
      <4> QED
        BY <2>1, <2>2, <4>1, LateWire
    <3> QED
      BY <3>1, <3>2
  <2>4. CASE LastSent(p)
    <3>1. CASE pc[p] \in {"tail", "error_body"}
      <4>1. over' = over \cup {p} /\ body' = [body EXCEPT ![p] = IF pc[p] = "tail" THEN @ ELSE "message"]
            /\ StreamExit(p, "value")
        BY <2>4, <3>1 DEF LastSent
      <4>2. pc[p] = "tail" => body' = body
        BY <1>a, <4>1 DEF StreamTypeOK
      <4> QED
        BY <2>1, <2>2, <3>1, <4>1, <4>2, ExitWire
    <3>2. CASE pc[p] = "late_body"
      <4>1. over' = over \cup {p} /\ body' = [body EXCEPT ![p] = "message"] /\ Done(p, "499")
            /\ UNCHANGED <<setup, left, batch, status, told>>
        BY <2>4, <3>2 DEF LastSent
      <4> QED
        BY <2>1, <2>2, <3>2, <4>1, LateWire
    <3>3. CASE pc[p] \in {"error_head", "late_head"}
      <4>1. pc' = [pc EXCEPT ![p] = IF pc[p] = "late_head" THEN "late_body" ELSE "error_body"]
            /\ UNCHANGED <<setup, streamVars>>
        BY <2>4, <3>3 DEF LastSent, Goto
      <4> QED
        BY <1>a, <2>1, <2>2, <3>3, <4>1 DEF TaskTypeOK, WireStep, HttpStep, WireInv, RowsInv, Streaming, Sending,
           Handling, Job
    <3> QED
      BY <2>4, <3>1, <3>2, <3>3 DEF LastSent
  <2> QED
    BY <1>8, <2>3, <2>4
<1> QED
  BY <1>1, <1>2, <1>3, <1>4, <1>5, <1>6, <1>7, <1>8 DEF StreamNext, StreamStep

\* A route's request has nothing on this wire.
LEMMA RouteWire ==
  ASSUME TypeOK, NEW p \in Request, WireInv(p), RouteNext(p), UNCHANGED streamVars
  PROVE  WireStep(p) /\ WireInv(p)' /\ HttpStep(p)
<1> USE DEF streamVars, wireVars, worldVars, taskVars
<1>a. setup' = setup /\ Job(p)' = Job(p) /\ IsRoute(p)' = IsRoute(p)
  BY DEF RouteNext, RouteStep, RouteCall, RouteAcquire, Receive, Put, CancelWhenGone, Reschedule, Read, ReadCancelled,
     RouteExit, Plan, Answered, Interrupt, StatementCancelled, RequestFails, CancelledAgain, Breaks, RouteReleased,
     Executed, HandlerFails, Fault, Job, IsRoute
<1>b. HttpStep(p)
  BY <1>a DEF HttpStep
<1>1. CASE UNCHANGED <<pc, exc, con, tx>>
  BY <1>a, <1>b, <1>1 DEF WireStep, WireInv, RowsInv
<1>2. ASSUME NEW x \in {"body", "acquire", "plan", "statement", "cancelling", "ending", "leaving", "released", "done"},
             pc' = pc \/ pc' = [pc EXCEPT ![p] = x], pc[p] # "done", IsRoute(p),
             \A q \in Request \ {p} : exc'[q] = exc[q]
      PROVE  WireStep(p) /\ WireInv(p)'
  <2>1. Job(p).kind # "stream"
    BY <1>2 DEF IsRoute
  <2>2. p \notin over
    BY <1>2 DEF WireInv
  <2>3. WireStep(p)
    BY <1>2 DEF TypeOK, TaskTypeOK, WireStep
  <2> QED
    BY <1>a, <1>2, <2>1, <2>2, <2>3 DEF TypeOK, TaskTypeOK, WireInv, Streaming, Sending
<1>3. CASE RouteCall(p) \/ (\E c \in Con : RouteAcquire(p, c)) \/ RouteReleased(p)
  BY <1>2, <1>b, <1>3 DEF RouteCall, RouteAcquire, RouteReleased, RouteExit, Move, Done
<1>4. CASE Receive(p) \/ Put(p) \/ CancelWhenGone(p)
  BY <1>1, <1>b, <1>4 DEF Receive, Put, CancelWhenGone, Reschedule, poolVars
<1>5. CASE Read(p) \/ ReadCancelled(p)
  <2>1. pc[p] = "body" /\ IsRoute(p)
    BY <1>5 DEF Read, ReadCancelled, WireInv
  <2>2. pc' = pc \/ \E x \in {"acquire", "done"} : pc' = [pc EXCEPT ![p] = x]
    BY <1>5 DEF Read, ReadCancelled, RouteExit, Done, Move
  <2>3. \A q \in Request \ {p} : exc'[q] = exc[q]
    BY <1>5 DEF Read, ReadCancelled, TypeOK, TaskTypeOK
  <2> QED
    BY <1>2, <1>b, <2>1, <2>2, <2>3
<1>6. CASE Plan(p) \/ Answered(p)
  <2>1. pc[p] \in {"plan", "statement"} /\ IsRoute(p) /\ UNCHANGED exc
    BY <1>6 DEF Plan, Answered, WireInv, Handling
  <2>2. pc' = pc \/ \E x \in {"statement", "plan"} : pc' = [pc EXCEPT ![p] = x]
    BY <1>6 DEF Plan, Answered, Execute, Move
  <2> QED
    BY <1>2, <1>b, <2>1, <2>2
<1>7. ASSUME NEW x \in {"cancelling", "ending", "leaving", "released"}, pc' = [pc EXCEPT ![p] = x],
             \E why : exc' = [exc EXCEPT ![p] = why], pc[p] \in {"statement", "cancelling"}
      PROVE  WireStep(p) /\ WireInv(p)' /\ HttpStep(p)
  <2>1. IsRoute(p)
    BY <1>7 DEF WireInv, Handling
  <2>2. \A q \in Request \ {p} : exc'[q] = exc[q]
    BY <1>7 DEF TypeOK, TaskTypeOK
  <2> QED
    BY <1>2, <1>b, <1>7, <2>1, <2>2
<1>8. CASE Executed(p) \/ HandlerFails(p) \/ StatementCancelled(p)
  <2>1. pc[p] \in {"statement", "cancelling"}
        /\ ((\E why : EndTransaction(p, why) \/ BeginFailed(p, why)) \/ RestoreFails(p, "open"))
    BY <1>8 DEF Executed, HandlerFails, StatementCancelled
  <2> QED
    BY <1>7, <2>1 DEF EndTransaction, BeginFailed, GiveBack, Return, RestoreFails
<1>9. CASE Interrupt(p, "cancelled") \/ Interrupt(p, "timeout")
  BY <1>7, <1>9 DEF Interrupt, Move
<1>10. CASE RequestFails(p)
  <2>1. pc[p] = "cancelling" /\ IsRoute(p) /\ UNCHANGED <<pc, exc>>
    BY <1>10 DEF RequestFails, WireInv, Handling
  <2> QED
    BY <1>2, <1>b, <2>1
<1>11. CASE CancelledAgain(p) \/ Breaks(p)
  <2>1. pc[p] \in {"statement", "cancelling"}
    BY <1>11 DEF CancelledAgain, Breaks
  <2>2. RestoreFails(p, "active") \/ (Replace(p) /\ \E why : exc' = [exc EXCEPT ![p] = why])
    BY <1>11 DEF CancelledAgain, Breaks
  <2> QED
    BY <1>7, <2>1, <2>2 DEF Replace, Return, RestoreFails
<1> QED
  BY <1>3, <1>4, <1>5, <1>6, <1>8, <1>9, <1>10, <1>11 DEF RouteNext, RouteStep

\* Every step of the application is one of HttpExchange's, or leaves the wire alone.
LEMMA NextWire ==
  ASSUME TypeOK, TypeOK', PoolInv, \A q \in Request : WireInv(q), [Next]_vars
  PROVE  (\A q \in Request : WireInv(q)') /\ (UNCHANGED <<setup, wireVars>> \/ \E p \in Request : HttpStep(p))
<1> USE DEF streamVars, wireVars, worldVars, taskVars
<1>1. ASSUME NEW p \in Request, StreamNext(p)
      PROVE  (\A q \in Request : WireInv(q)') /\ HttpStep(p)
  BY <1>1, StreamPool, StreamWire, WireKept
<1>2. ASSUME NEW p \in Request, RouteNext(p), UNCHANGED streamVars
      PROVE  (\A q \in Request : WireInv(q)') /\ HttpStep(p)
  BY <1>2, RoutePool, RouteWire, WireKept
<1>3. CASE \E p \in Request : (Deadline(p) \/ Cancel(p) \/ Leave(p)) /\ UNCHANGED streamVars
  <2>1. UNCHANGED <<setup, pc, exc, con, tx, streamVars>>
    BY <1>3 DEF Deadline, Cancel, Leave, poolVars
  <2> QED
    BY <2>1 DEF WireInv, RowsInv, IsRoute, Job
<1>4. ASSUME NEW p \in Request, NoConnection(p, "error") \/ NoConnection(p, "cancelled"), UNCHANGED streamVars
      PROVE  (\A q \in Request : WireInv(q)') /\ HttpStep(p)
  <2>1. pc[p] = "acquire" /\ pc' = [pc EXCEPT ![p] = "released"] /\ UNCHANGED <<setup, poolVars>>
        /\ \E why \in {"error", "cancelled"} : exc' = [exc EXCEPT ![p] = why]
    BY <1>4 DEF NoConnection, Fault
  <2>2. PICK why \in {"error", "cancelled"} : exc' = [exc EXCEPT ![p] = why]
    BY <2>1
  <2>3. PoolStep(p)
    BY <2>1, PoolAlone DEF Holding, Streaming, Handling, Awaiting
  <2>4. WireStep(p) /\ WireInv(p)' /\ HttpStep(p)
    BY <1>4, <2>1, <2>2, RaiseWire DEF Outcomes
  <2> QED
    BY <2>3, <2>4, WireKept
<1>5. ASSUME NEW p \in Request, Ended(p), UNCHANGED streamVars
      PROVE  (\A q \in Request : WireInv(q)') /\ HttpStep(p)
  <2>1. pc[p] = "ending" /\ pc' = [pc EXCEPT ![p] = "released"]
    BY <1>5 DEF Ended, GiveBack, Return
  <2>2. setup' = setup
    BY <1>5 DEF Ended, Fault
  <2>3. exc' = exc \/ \E why \in {"error", "cancelled"} : exc' = [exc EXCEPT ![p] = why]
    BY <1>5 DEF Ended
  <2>4. WireStep(p) /\ WireInv(p)' /\ HttpStep(p)
    <3>1. CASE exc' = exc
      <4>1. "error" # "none"
        OBVIOUS
      <4> QED
        BY <1>5, <2>1, <2>2, <3>1, <4>1, CleanupKept
    <3>2. ASSUME NEW why \in {"error", "cancelled"}, exc' = [exc EXCEPT ![p] = why]
          PROVE  WireStep(p) /\ WireInv(p)' /\ HttpStep(p)
      <4>1. why # "none"
        OBVIOUS
      <4> QED
        BY <1>5, <2>1, <2>2, <3>2, <4>1, CleanupKept
    <3> QED
      BY <2>3, <3>1, <3>2
  <2>5. PoolStep(p)
    BY <1>5, EndedPool
  <2> QED
    BY <2>4, <2>5, WireKept
<1>6. ASSUME NEW p \in Request, NEW x \in {"leaving", "released"}, pc' = [pc EXCEPT ![p] = x],
             pc[p] \in {"ending", "leaving"}, IsRoute(p), \E why : exc' = [exc EXCEPT ![p] = why],
             UNCHANGED <<setup, streamVars>>
      PROVE  WireStep(p) /\ WireInv(p)' /\ HttpStep(p)
  <2>1. WireStep(p) /\ HttpStep(p)
    BY <1>6 DEF TypeOK, TaskTypeOK, WireStep, HttpStep
  <2>2. pc'[p] = x /\ Job(p)' = Job(p) /\ IsRoute(p)' /\ Job(p).kind # "stream" /\ p \notin over
    BY <1>6 DEF TypeOK, TaskTypeOK, Job, IsRoute, WireInv
  <2> QED
    BY <1>6, <2>1, <2>2 DEF WireInv, Streaming, Sending
<1>7. ASSUME NEW p \in Request, EndCancelled(p), UNCHANGED streamVars
      PROVE  (\A q \in Request : WireInv(q)') /\ HttpStep(p)
  <2>1. pc[p] = "ending" /\ setup' = setup /\ PoolStep(p)
    BY <1>7, EndedPool DEF EndCancelled
  <2>2. CASE Job(p).kind = "read"
    <3>1. PICK s \in {"open", "active"} : RestoreFails(p, s)
      BY <1>7, <2>2 DEF EndCancelled
    <3>2. pc' = [pc EXCEPT ![p] = "leaving"] /\ exc' = [exc EXCEPT ![p] = "error"] /\ IsRoute(p)
      BY <2>2, <3>1 DEF RestoreFails, IsRoute
    <3> QED
      BY <1>6, <1>7, <2>1, <3>2, WireKept
  <2>3. CASE Job(p).kind # "read"
    <3>1. exc' = [exc EXCEPT ![p] = "cancelled"] /\ pc' = [pc EXCEPT ![p] = "released"] /\ "cancelled" # "none"
      BY <1>7, <2>3 DEF EndCancelled, Replace, Return
    <3>2. WireStep(p) /\ WireInv(p)' /\ HttpStep(p)
      BY <1>7, <2>1, <3>1, CleanupKept
    <3> QED
      BY <2>1, <3>2, WireKept
  <2> QED
    BY <2>2, <2>3
<1>8. ASSUME NEW p \in Request, Left(p), UNCHANGED streamVars
      PROVE  (\A q \in Request : WireInv(q)') /\ HttpStep(p)
  <2>1. /\ pc[p] = "leaving" /\ pc' = [pc EXCEPT ![p] = "released"] /\ setup' = setup /\ PoolStep(p)
        /\ \E why : exc' = [exc EXCEPT ![p] = why]
    BY <1>8, EndedPool DEF Left, GiveBack, Replace, Return
  <2>2. IsRoute(p)
    BY <2>1 DEF WireInv
  <2> QED
    BY <1>6, <1>8, <2>1, <2>2, WireKept
<1>9. CASE (Alter /\ UNCHANGED streamVars) \/ UNCHANGED vars
  <2>1. UNCHANGED <<setup, pc, exc, con, tx, streamVars>>
    BY <1>9 DEF Alter, vars, servingVars, poolVars
  <2> QED
    BY <2>1 DEF WireInv, RowsInv, IsRoute, Job
<1> QED
  BY <1>1, <1>2, <1>3, <1>4, <1>5, <1>7, <1>8, <1>9 DEF Next, Common

\* The responses implement HttpExchange: at most one status, an array that is closed
\* only after its last row, nothing after the last message, and no message of an
\* error in an array.  This is what PostgresJsonResponse promises its client however
\* the query, the client and the cancellations end it, up to the COMMIT that comes
\* after the array.
THEOREM ImplementsExchange == Spec => Exchange
<1>1. Init => Http!Init /\ \A p \in Request : WireInv(p)
  <2> SUFFICES ASSUME Init PROVE Http!Init /\ \A p \in Request : WireInv(p)
    OBVIOUS
  <2>1. \A p \in Request : Job(p).rows \in Nat
    BY SetupFacts DEF Init, ServingInit, Jobs
  <2>2. Http!Init
    BY <2>1 DEF Init, StreamInit, Http!Init
  <2>3. ASSUME NEW p \in Request
        PROVE  WireInv(p)
    BY <2>1 DEF Init, ServingInit, StreamInit, WireInv, RowsInv, Streaming, Sending, Handling
  <2> QED
    BY <2>2, <2>3
<1>2. TypeOK /\ PoolInv /\ (\A p \in Request : WireInv(p)) /\ [Next]_vars
        => (TypeOK /\ PoolInv /\ \A p \in Request : WireInv(p))' /\ [Http!Next]_(Http!vars)
  <2> SUFFICES ASSUME TypeOK, PoolInv, \A p \in Request : WireInv(p), [Next]_vars
               PROVE  (TypeOK /\ PoolInv /\ \A p \in Request : WireInv(p))' /\ [Http!Next]_(Http!vars)
    OBVIOUS
  <2>1. TypeOK' /\ PoolInv'
    BY NextTypeOK, NextPool
  <2>2. (\A q \in Request : WireInv(q)') /\ (UNCHANGED <<setup, wireVars>> \/ \E p \in Request : HttpStep(p))
    BY <2>1, NextWire
  <2>3. UNCHANGED <<setup, wireVars>> => UNCHANGED Http!vars
    BY DEF Http!vars, wireVars, Job
  <2>4. [Http!Next]_(Http!vars)
    BY <2>2, <2>3 DEF HttpStep, Http!Next
  <2> QED
    BY <2>1, <2>2, <2>4
<1>3. Init => TypeOK /\ PoolInv
  BY InitTypeOK, InitPool
<1> QED
  BY <1>1, <1>2, <1>3, PTL DEF Spec, Exchange, Http!Spec

===============================================================================
