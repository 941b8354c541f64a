-------------------------------- MODULE WebApp --------------------------------
(***************************************************************************)
(* Requests with PostgresJsonResponse and requests of                      *)
(* CancelOnDisconnectRoute on the connections of one pool.                 *)
(***************************************************************************)
EXTENDS JsonResponse, CancelRoute

vars == <<servingVars, streamVars, routeVars>>

Init == ServingInit /\ StreamInit /\ RouteInit

Common(p) == Deadline(p) \/ Ended(p) \/ EndCancelled(p) \/ Left(p) \/ NoConnection(p, "cancelled")

Next ==
  \/ \E p \in Request :
       \/ StreamNext(p) /\ UNCHANGED routeVars
       \/ RouteNext(p) /\ UNCHANGED streamVars
       \/ /\ Common(p) \/ NoConnection(p, "error") \/ Cancel(p) \/ Leave(p)
          /\ UNCHANGED <<streamVars, routeVars>>
  \/ Alter /\ UNCHANGED <<streamVars, routeVars>>

\* What goes on by itself: the tasks that can, the server's messages and its answers
\* to BEGIN, COMMIT, ROLLBACK, catalog queries and cancel requests, and a send to a
\* client that has left.  A query need never end, nor a client read what it is sent.
Progress ==
  \E p \in Request :
    \/ StreamStep(p) /\ UNCHANGED routeVars
    \/ RouteStep(p) /\ UNCHANGED streamVars
    \/ Common(p) /\ UNCHANGED <<streamVars, routeVars>>

Spec == Init /\ [][Next]_vars /\ WF_vars(Progress)
-----------------------------------------------------------------------------
(* Properties *)

\* A connection that is back in the pool is idle, no cancel request can still reach it,
\* and it has not the read-only flag of a user before, unless set_read_only has failed
\* there; and a request that is over has no query running on the server, unless it
\* could not be told, or a second cancellation cut the first one short.
LeftClean ==
  /\ \A c \in Con : Free(c) =>
       tx[c] = "idle" /\ c \notin late /\ (c \in readonly => c \in tainted)
  /\ \A p \in Request : pc[p] = "done" /\ p \in running => p \in lost

\* A request is answered 499, or cut as disconnected, only when its client has left:
\* a timeout of the handler's own is reported as what it is.  A cancellation by
\* somebody else is never taken for the scope's and swallowed, however the two meet:
\* it ends the task, or the error does that readonly_transaction has put in its place.
CauseKept ==
  \A p \in Request : pc[p] = "done" =>
    /\ outcome[p] \in {"499", "gone"} => client[p] = "gone"
    /\ p \in ext => outcome[p] = "cancelled" \/ (outcome[p] = "error" /\ p \in refused)

\* What a part of a connection's cache says of the column is true of the database,
\* unless since the cache was new or cleared the type has been replaced, or, for the
\* columns of the whole table, the column been added.
CacheTrue ==
  \A c \in Con : \A part \in Parts \ stale[c] : cache[c][part] \subseteq {type}

Http == INSTANCE HttpExchange
  WITH rows <- [p \in Request |-> Job(p).rows], status <- status, told <- told,
       body <- body, over <- over

\* The responses implement HttpExchange: at most one status, and an array with its
\* closing bracket only when every row has been told.  (The transaction is committed
\* after the bracket, and the COMMIT may still fail.)
Exchange == Http!Spec

\* The disconnect is behind no more messages than the queue holds.
Noticed(p) == Job(p).body - Job(p).takes <= MaxPending

\* A request whose client leaves comes to its end, though its query would not: nothing
\* keeps its connection, unless the server's receive() has failed, the handler leaves
\* more of its body unread than the queue holds, or the driver waits for a query that
\* it has failed to cancel.
GoneEnds ==
  \A p \in Request :
    client[p] = "gone" /\ Noticed(p) ~>
      pc[p] = "done" \/ hold[p] = "broken" \/ (pc[p] = "cancelling" /\ p \in lost)
===============================================================================
