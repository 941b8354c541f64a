----------------------------- MODULE CancelRoute -----------------------------
(***************************************************************************)
(* CancelOnDisconnectRoute (fastapi/cancel_on_disconnect.py) around a      *)
(* handler that reads its body and then works on the database: kind "read" *)
(* runs pg_retrieve_many inside readonly_transaction, kind "write" is      *)
(* pg_insert; both with complex_helper="auto".                             *)
(***************************************************************************)
EXTENDS Serving, Sequences

CONSTANT MaxPending  \* _MAX_PENDING_MESSAGES
ASSUME PendingAssumption == MaxPending \in Nat \ {0}

VARIABLES
  arriving,      \* body messages the server has for the request
  reader, hold,  \* the reader task and the message it has
  queue,
  disconnected,  \* requests whose event is set
  unread,        \* body messages the handler still wants
  stmt,          \* its statement
  todo, found    \* its lookups, and what the query of the first one returned
readerVars == <<arriving, reader, hold, queue, disconnected>>
handlerVars == <<unread, stmt, todo, found>>
routeVars == <<readerVars, handlerVars>>

IsRoute(p) == Job(p).kind \in {"read", "write"}

RouteInit ==
  /\ arriving = [p \in Request |-> Job(p).body]
  /\ reader = [p \in Request |-> "off"] /\ hold = [p \in Request |-> "body"]
  /\ queue = [p \in Request |-> <<>>] /\ disconnected = {}
  /\ unread = [p \in Request |-> Job(p).takes]
  /\ stmt = [p \in Request |-> "none"]
  /\ todo = [p \in Request |-> IF Job(p).kind = "read" THEN <<"columns">> ELSE <<"column", "columns">>]
  /\ found = [p \in Request |-> {}]

Move(p, where) == pc' = [pc EXCEPT ![p] = where]

RouteCall(p) ==
  /\ pc[p] = "start" /\ IsRoute(p)
  /\ Enter(p)
  /\ reader' = [reader EXCEPT ![p] = "receive"]
  /\ Move(p, IF unread[p] > 0 THEN "body" ELSE "acquire")
  /\ UNCHANGED <<exc, outcome, hit, ext, poolVars, worldVars, arriving, hold, queue,
                 disconnected, handlerVars>>

\* The client is gone: the scope's TimeoutError, or a ClientDisconnect.  A timeout of
\* the handler's own is told apart by the scope that has not expired.
Gone(p, how) == Expired(p, how) \/ how = "gone" \/ (how = "timeout" /\ scope[p] = "expired")

RouteExit(p, how) ==
  /\ Exit(p)
  /\ reader' = [reader EXCEPT ![p] = "done"]
  /\ Done(p, IF Gone(p, how) THEN "499" ELSE IF how = "none" THEN "value" ELSE how)
  /\ UNCHANGED <<poolVars, worldVars, arriving, hold, disconnected, handlerVars>>
-----------------------------------------------------------------------------
(* _Receiver *)

\* Mutant: the event is set when the message is in the queue.
Receive_QueueFirst(p) ==
  /\ reader[p] = "receive"
  /\ \/ arriving[p] > 0 /\ hold' = [hold EXCEPT ![p] = "body"]
        /\ arriving' = [arriving EXCEPT ![p] = @ - 1] /\ UNCHANGED worldVars
     \/ client[p] = "gone" /\ hold' = [hold EXCEPT ![p] = "gone"]
        /\ UNCHANGED <<arriving, worldVars>>
     \/ Fault /\ hold' = [hold EXCEPT ![p] = "broken"] /\ UNCHANGED arriving
  /\ reader' = [reader EXCEPT ![p] = "put"]
  /\ UNCHANGED <<taskVars, poolVars, disconnected, queue, handlerVars>>

\* The server's next message: of the body, the disconnect, or an exception.
Receive(p) ==
  /\ reader[p] = "receive"
  /\ \/ /\ arriving[p] > 0 /\ hold' = [hold EXCEPT ![p] = "body"]
        /\ arriving' = [arriving EXCEPT ![p] = @ - 1] /\ UNCHANGED <<disconnected, worldVars>>
     \/ /\ client[p] = "gone" /\ hold' = [hold EXCEPT ![p] = "gone"]
        /\ disconnected' = disconnected \cup {p} /\ UNCHANGED <<arriving, worldVars>>
     \/ /\ Fault /\ hold' = [hold EXCEPT ![p] = "broken"] /\ UNCHANGED <<arriving, disconnected>>
  /\ reader' = [reader EXCEPT ![p] = "put"]
  /\ UNCHANGED <<taskVars, poolVars, queue, handlerVars>>

\* Waits while the queue is full.
Put(p) ==
  /\ reader[p] = "put" /\ Len(queue[p]) < MaxPending
  /\ queue' = [queue EXCEPT ![p] = Append(@, hold[p])]
  /\ reader' = [reader EXCEPT ![p] = IF hold[p] = "body" THEN "receive" ELSE "done"]
  /\ UNCHANGED <<taskVars, poolVars, worldVars, arriving, hold, disconnected, handlerVars>>

\* cancel_when_gone
CancelWhenGone(p) == p \in disconnected /\ Reschedule(p) /\ UNCHANGED routeVars

\* The handler reads its body.
Read(p) ==
  /\ pc[p] = "body" /\ hit[p] = {} /\ queue[p] # <<>>
  /\ queue' = [queue EXCEPT ![p] = Tail(@)]
  /\ \/ /\ Head(queue[p]) = "body"
        /\ unread' = [unread EXCEPT ![p] = @ - 1]
        /\ IF unread[p] = 1 THEN Move(p, "acquire") ELSE UNCHANGED pc
        /\ UNCHANGED <<exc, outcome, hit, ext, scope, watch, poolVars, worldVars,
                       arriving, reader, hold, disconnected, stmt, todo, found>>
     \/ /\ Head(queue[p]) # "body"
        /\ exc' = [exc EXCEPT ![p] = IF Head(queue[p]) = "gone" THEN "gone" ELSE "error"]
        /\ RouteExit(p, exc'[p])

ReadCancelled(p) ==
  /\ pc[p] = "body" /\ hit[p] # {}
  /\ RouteExit(p, "cancelled") /\ UNCHANGED <<exc, queue>>
-----------------------------------------------------------------------------
(* The handler's work: readonly_transaction, ComplexHelper, the statement *)

\* With the connection comes the cache its earlier users have filled; the handler may
\* call clear_cache() when the schema has changed.
RouteAcquire(p, c) ==
  /\ pc[p] = "acquire" /\ IsRoute(p) /\ hit[p] = {} /\ Free(c)
  /\ con' = [con EXCEPT ![p] = c]
  /\ \/ UNCHANGED <<cache, stale>>
     \/ /\ stale[c] # {} /\ stale' = [stale EXCEPT ![c] = {}]
        /\ cache' = [cache EXCEPT ![c] = ClearCache(@)]
  /\ IF Job(p).kind = "read"
     THEN /\ readonly' = readonly \cup {c}
          /\ tx' = [tx EXCEPT ![c] = "active"] /\ running' = running \cup {p}
          /\ stmt' = [stmt EXCEPT ![p] = "begin"] /\ Move(p, "statement")
     ELSE Move(p, "plan") /\ UNCHANGED <<readonly, tx, running, stmt>>
  /\ UNCHANGED <<exc, outcome, hit, ext, scope, watch, tainted, refused, lost, late, worldVars,
                 readerVars, unread, todo, found>>

Execute(p, s) ==
  /\ stmt' = [stmt EXCEPT ![p] = s] /\ Send(p) /\ Move(p, "statement")

\* What is known needs no statement.
Plan(p) ==
  /\ pc[p] = "plan"
  /\ IF todo[p] = <<>>
     THEN Execute(p, "run") /\ UNCHANGED <<cache, todo, found>>
     ELSE LET known == cache[con[p]]
              next == Ask(known, Head(todo[p]), found[p])
          IN IF next # "none"
             THEN Execute(p, next) /\ UNCHANGED <<cache, todo, found>>
             ELSE /\ cache' = [cache EXCEPT ![con[p]] = Remember(known, Head(todo[p]), found[p])]
                  /\ todo' = [todo EXCEPT ![p] = Tail(@)] /\ found' = [found EXCEPT ![p] = {}]
                  /\ UNCHANGED <<pc, stmt, tx, running>>
  /\ UNCHANGED <<exc, outcome, hit, ext, scope, watch, con, readonly, tainted, refused, stale,
                 lost, late, worldVars, readerVars, unread>>

Answered(p) ==
  /\ pc[p] = "statement" /\ hit[p] = {} /\ stmt[p] # "run"
  /\ Ends(p) /\ Move(p, "plan")
  /\ cache' = [cache EXCEPT ![con[p]] = Learn(@, stmt[p], type)]
  /\ found' = [found EXCEPT ![p] = IF stmt[p] = "lookup" THEN {type} ELSE @]
  /\ UNCHANGED <<exc, outcome, hit, ext, scope, watch, con, readonly, tainted, refused, stale,
                 lost, late, worldVars, readerVars, unread, stmt, todo>>

\* The statement the handler is for needs the column, and a write a connection that
\* is not read-only.
Runs(p) == type \notin {NoTable, NoColumn} /\ (Job(p).kind = "write" => con[p] \notin readonly)

\* The handler's block ends: COMMIT.
Executed(p) ==
  /\ pc[p] = "statement" /\ hit[p] = {} /\ stmt[p] = "run" /\ Runs(p)
  /\ EndTransaction(p, "none")
  /\ UNCHANGED <<outcome, hit, ext, scope, watch, lost, worldVars, routeVars>>

\* Between BEGIN's answer and the end of its block readonly_transaction has a
\* transaction to roll back.
InBlock(p) == Job(p).kind # "read" \/ stmt[p] # "begin"

\* Nothing to roll back: the flag is put back and the connection returned.
BeginFailed(p, why) ==
  /\ exc' = [exc EXCEPT ![p] = why]
  /\ running' = running \ {p}
  /\ Restore(p) /\ GiveBack(p)

\* A statement fails: ROLLBACK.
HandlerFails(p) ==
  /\ pc[p] = "statement" /\ hit[p] = {}
  /\ \/ Fault /\ (IF InBlock(p) THEN EndTransaction(p, "error") ELSE BeginFailed(p, "error"))
     \/ stmt[p] = "run" /\ ~Runs(p) /\ EndTransaction(p, "error") /\ UNCHANGED worldVars
  /\ UNCHANGED <<outcome, hit, ext, scope, watch, lost, routeVars>>

\* A cancellation, or a timeout of the handler's own, strikes the wait for a statement:
\* the driver asks the server to cancel it, and goes on waiting for its end.
Interrupt(p, why) ==
  /\ pc[p] = "statement"
  /\ \/ hit[p] # {} /\ why = "cancelled" /\ UNCHANGED worldVars
     \/ hit[p] = {} /\ why = "timeout" /\ Fault
  /\ exc' = [exc EXCEPT ![p] = why]
  /\ hit' = [hit EXCEPT ![p] = {}]
  /\ Move(p, "cancelling")
  /\ UNCHANGED <<outcome, ext, scope, watch, poolVars, routeVars>>

\* The statement ends, cancelled or not: ROLLBACK.  But the block of a BEGIN is not
\* entered then: nothing rolls back what it has begun.
StatementCancelled(p) ==
  /\ pc[p] = "cancelling" /\ hit[p] = {}
  /\ \/ InBlock(p) /\ EndTransaction(p, exc[p])
     \/ ~InBlock(p) /\ BeginFailed(p, exc[p])
     \/ ~InBlock(p) /\ running' = running \ {p} /\ RestoreFails(p, "open")
  /\ UNCHANGED <<outcome, hit, ext, scope, watch, lost, worldVars, routeVars>>

\* The cancel request fails; the driver goes on waiting.
RequestFails(p) ==
  /\ pc[p] = "cancelling" /\ p \notin lost /\ Fault
  /\ lost' = lost \cup {p}
  /\ UNCHANGED <<taskVars, con, tx, readonly, tainted, refused, cache, stale, running, late, routeVars>>

\* A second cancellation ends the wait, if not the statement: no ROLLBACK can be sent,
\* nor can the flag be put back.
CancelledAgain(p) ==
  /\ pc[p] = "cancelling" /\ hit[p] # {}
  /\ hit' = [hit EXCEPT ![p] = {}]
  /\ \/ p \notin lost /\ running' = running \ {p} /\ UNCHANGED lost
     \/ lost' = lost \cup {p} /\ UNCHANGED running
  /\ IF Job(p).kind = "read"
     THEN RestoreFails(p, "active")
     ELSE exc' = [exc EXCEPT ![p] = "cancelled"] /\ Replace(p) /\ UNCHANGED refused
  /\ UNCHANGED <<outcome, ext, scope, watch, worldVars, routeVars>>

\* The connection breaks: nothing to roll back, and nothing to put back.
Breaks(p) ==
  /\ pc[p] \in {"statement", "cancelling"} /\ Fault
  /\ exc' = [exc EXCEPT ![p] = IF pc[p] = "statement" THEN "error" ELSE @]
  /\ lost' = lost \cup {p}
  /\ Replace(p)
  /\ UNCHANGED <<outcome, hit, ext, scope, watch, refused, running, routeVars>>

RouteReleased(p) ==
  /\ pc[p] = "released" /\ IsRoute(p)
  /\ RouteExit(p, exc[p]) /\ UNCHANGED <<exc, queue>>
-----------------------------------------------------------------------------
\* What happens without the client, the query or a fault.
RouteStep(p) ==
  \/ RouteCall(p) \/ (\E c \in Con : RouteAcquire(p, c)) \/ Receive(p) \/ Put(p)
  \/ CancelWhenGone(p) \/ Read(p) \/ ReadCancelled(p) \/ Plan(p) \/ Answered(p)
  \/ Interrupt(p, "cancelled") \/ ((p \notin lost \/ stmt[p] # "run") /\ StatementCancelled(p))
  \/ CancelledAgain(p) \/ RouteReleased(p)

RouteNext(p) ==
  \/ RouteStep(p) \/ Executed(p) \/ HandlerFails(p) \/ Interrupt(p, "timeout")
  \/ StatementCancelled(p) \/ RequestFails(p) \/ Breaks(p)
==============================================================================
