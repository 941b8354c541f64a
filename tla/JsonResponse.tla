---------------------------- MODULE JsonResponse ----------------------------
(***************************************************************************)
(* PostgresJsonResponse (fastapi/json_response.py): the rows of a query,   *)
(* streamed as a JSON array.  Its cleanup must leave neither a connection  *)
(* in the middle of a query nor a query that nobody reads.                 *)
(***************************************************************************)
EXTENDS Serving

VARIABLES
  left,    \* rows the server has not sent yet
  batch,   \* rows read and not yet sent to the client
  status,  \* what the client has been sent; see HttpExchange
  told, body, over
streamVars == <<left, batch, status, told, body, over>>
wireVars == <<status, told, body, over>>

StreamInit ==
  /\ left = [p \in Request |-> Job(p).rows] /\ batch = [p \in Request |-> 0]
  /\ status = [p \in Request |-> 0] /\ told = [p \in Request |-> 0]
  /\ body = [p \in Request |-> "none"] /\ over = {}

Goto(p, where) == pc' = [pc EXCEPT ![p] = where]
Start(p, s) == status' = [status EXCEPT ![p] = s]

StreamCall(p) ==
  /\ pc[p] = "start" /\ Job(p).kind = "stream"
  /\ Enter(p) /\ Goto(p, "acquire")
  /\ UNCHANGED <<exc, outcome, hit, ext, poolVars, worldVars, streamVars>>

\* Mutant: the late response is sent though one has started.
StreamExit_Twice(p, how) ==
  /\ Exit(p)
  /\ IF Expired(p, how)
     THEN Goto(p, "late_head") /\ Start(p, 499) /\ UNCHANGED outcome
     ELSE Done(p, how) /\ UNCHANGED status
  /\ UNCHANGED <<poolVars, worldVars, left, batch, told>>

\* A cancel scope that is left because of its own deadline: the client is gone, and
\* a middleware in front still wants a response, unless it has one.
StreamExit(p, how) ==
  /\ Exit(p)
  /\ IF Expired(p, how) /\ status[p] = 0
     THEN Goto(p, "late_head") /\ Start(p, 499) /\ UNCHANGED outcome
     ELSE Done(p, IF Expired(p, how) THEN "499" ELSE how) /\ UNCHANGED status
  /\ UNCHANGED <<poolVars, worldVars, left, batch, told>>
-----------------------------------------------------------------------------
(* The query and its rows: stream_response and _chunks *)

StreamAcquire(p, c) ==
  /\ pc[p] = "acquire" /\ Job(p).kind = "stream" /\ hit[p] = {} /\ Free(c)
  /\ con' = [con EXCEPT ![p] = c]
  /\ tx' = [tx EXCEPT ![c] = "active"] /\ running' = running \cup {p}
  /\ Goto(p, "rows")
  /\ UNCHANGED <<exc, outcome, hit, ext, scope, watch, readonly, tainted, refused, cache, stale,
                 lost, late, worldVars, streamVars>>

\* A batch that is full, or what the array ends with, is yielded.
Yield(p) == IF status[p] = 0 THEN Start(p, 200) /\ Goto(p, "head") ELSE UNCHANGED status /\ Goto(p, "chunk")

RowArrives(p) ==
  /\ pc[p] = "rows" /\ hit[p] = {} /\ left[p] > 0
  /\ left' = [left EXCEPT ![p] = @ - 1]
  /\ batch' = [batch EXCEPT ![p] = @ + 1]
  /\ IF batch'[p] >= Job(p).batch THEN Yield(p) ELSE UNCHANGED <<pc, status>>
  /\ UNCHANGED <<exc, outcome, hit, ext, scope, watch, poolVars, worldVars, told, body, over>>

RowsEnd(p) ==
  /\ pc[p] = "rows" /\ hit[p] = {} /\ left[p] = 0
  /\ Ends(p) /\ Yield(p)
  /\ UNCHANGED <<exc, outcome, hit, ext, scope, watch, con, readonly, tainted, refused, cache,
                 stale, lost, late, worldVars, left, batch, told, body, over>>

HeadSent(p) ==
  /\ pc[p] = "head" /\ hit[p] = {}
  /\ Goto(p, "chunk")
  /\ UNCHANGED <<exc, outcome, hit, ext, scope, watch, poolVars, worldVars, streamVars>>

QueryOver(p) == tx[con[p]] = "open"

ChunkSent(p) ==
  /\ pc[p] = "chunk" /\ hit[p] = {}
  /\ told' = [told EXCEPT ![p] = @ + batch[p]]
  /\ batch' = [batch EXCEPT ![p] = 0]
  /\ body' = [body EXCEPT ![p] = IF QueryOver(p) THEN "whole" ELSE "open"]
  /\ IF QueryOver(p)
     THEN EndTransaction(p, "none")
     ELSE Goto(p, "rows")
          /\ UNCHANGED <<exc, con, tx, readonly, tainted, refused, cache, stale, running, late>>
  /\ UNCHANGED <<outcome, hit, ext, scope, watch, lost, worldVars, left, status, over>>

\* An error of the query, or the server's statement_timeout.
QueryFails(p) ==
  /\ pc[p] = "rows" /\ hit[p] = {} /\ Fault
  /\ EndTransaction(p, "error") \/ (Job(p).limit /\ EndTransaction(p, "limit"))
  /\ UNCHANGED <<outcome, hit, ext, scope, watch, lost, streamVars>>
-----------------------------------------------------------------------------
(* The ways out: a disconnect, a cancellation, a send to a client that left *)

\* Mutant: the generators are closed and that is all.
Unwind_Generators(p, why) ==
  IF QueryOver(p) THEN EndTransaction(p, why)
  ELSE /\ exc' = [exc EXCEPT ![p] = why]
       /\ Replace(p) /\ UNCHANGED <<refused, running>>

\* The generators are closed, in order: the driver tries to cancel the query, and
\* may be left in the middle of it.  Then _cancel_if_running goes to work.
Unwind(p, why) ==
  \/ EndTransaction(p, why)
  \/ /\ ~QueryOver(p)
     /\ exc' = [exc EXCEPT ![p] = why] /\ Goto(p, "cancel")
     /\ UNCHANGED <<con, tx, readonly, tainted, refused, cache, stale, running, late>>

Interrupted(p) ==
  /\ pc[p] \in {"rows", "head", "chunk"} /\ Job(p).kind = "stream" /\ hit[p] # {}
  /\ Unwind(p, "cancelled")
  /\ hit' = [hit EXCEPT ![p] = {}]
  /\ UNCHANGED <<outcome, ext, scope, watch, lost, worldVars, streamVars>>

SendFails(p) ==
  /\ pc[p] \in {"head", "chunk"} /\ hit[p] = {} /\ client[p] = "gone"
  /\ Unwind(p, "gone")
  /\ UNCHANGED <<outcome, hit, ext, scope, watch, lost, worldVars, streamVars>>

\* _cancel_and_close, a task of its own, sends the cancel request and waits for its
\* answer; whatever comes of that, it closes the connection.
CancelHandled(p) ==
  /\ pc[p] = "cancel"
  /\ running' = running \ {p} /\ Goto(p, "close")
  /\ UNCHANGED <<exc, outcome, hit, ext, scope, watch, con, tx, readonly, tainted, refused, cache,
                 stale, lost, late, worldVars, streamVars>>

\* A request that has timed out may still be on its way.
CancelFails(p) ==
  /\ pc[p] = "cancel" /\ Fault
  /\ lost' = lost \cup {p} /\ late' = late \cup {con[p]} /\ Goto(p, "close")
  /\ UNCHANGED <<exc, outcome, hit, ext, scope, watch, con, tx, readonly, tainted, refused, cache,
                 stale, running, streamVars>>

\* A cancellation meanwhile is raised when the cleanup is done.
CleanupInterrupted(p) ==
  /\ pc[p] \in {"cancel", "close"} /\ hit[p] # {}
  /\ exc' = [exc EXCEPT ![p] = "cancelled"] /\ hit' = [hit EXCEPT ![p] = {}]
  /\ UNCHANGED <<pc, outcome, ext, scope, watch, poolVars, worldVars, streamVars>>

Closed(p) ==
  /\ pc[p] = "close" /\ hit[p] = {}
  /\ Replace(p)
  /\ UNCHANGED <<exc, outcome, hit, ext, scope, watch, refused, running, lost, worldVars, streamVars>>
-----------------------------------------------------------------------------
(* The end of the response *)

\* What there is left to send once the connection is back.
Released(p) ==
  /\ pc[p] = "released" /\ Job(p).kind = "stream"
  /\ \/ /\ exc[p] = "none" /\ Goto(p, "tail")
        /\ UNCHANGED <<outcome, hit, ext, scope, watch, poolVars, worldVars, left, batch, status, told>>
     \/ /\ exc[p] \in {"error", "limit"} /\ status[p] = 0
        /\ Start(p, IF exc[p] = "limit" THEN 504 ELSE 500) /\ Goto(p, "error_head")
        /\ UNCHANGED <<outcome, hit, ext, scope, watch, poolVars, worldVars, left, batch, told>>
     \/ /\ exc[p] \in {"gone", "cancelled"} \/ (exc[p] # "none" /\ status[p] # 0)
        /\ StreamExit(p, exc[p])
  /\ UNCHANGED <<exc, body, over>>

\* A send that returns: the head of an error response, or the last message.
LastSent(p) ==
  /\ hit[p] = {}
  /\ \/ /\ pc[p] \in {"error_head", "late_head"}
        /\ Goto(p, IF pc[p] = "late_head" THEN "late_body" ELSE "error_body")
        /\ UNCHANGED <<outcome, hit, ext, scope, watch, poolVars, worldVars, streamVars>>
     \/ /\ pc[p] \in {"tail", "error_body"}
        /\ over' = over \cup {p}
        /\ body' = [body EXCEPT ![p] = IF pc[p] = "tail" THEN @ ELSE "message"]
        /\ StreamExit(p, "value")
     \/ /\ pc[p] = "late_body"
        /\ over' = over \cup {p} /\ body' = [body EXCEPT ![p] = "message"]
        /\ Done(p, "499")
        /\ UNCHANGED <<hit, ext, scope, watch, poolVars, worldVars, left, batch, status, told>>
  /\ UNCHANGED exc

\* A send that is cancelled, or raises because the client is gone; of the late
\* response the latter is suppressed.
LastFails(p) ==
  /\ \/ /\ pc[p] \in {"tail", "error_head", "error_body"}
        /\ \/ hit[p] # {} /\ StreamExit(p, "cancelled")
           \/ hit[p] = {} /\ client[p] = "gone" /\ StreamExit(p, "gone")
     \/ /\ pc[p] \in {"late_head", "late_body"}
        /\ hit[p] # {} \/ client[p] = "gone"
        /\ Done(p, "499")
        /\ UNCHANGED <<hit, ext, scope, watch, poolVars, worldVars, left, batch, status, told>>
  /\ UNCHANGED <<exc, body, over>>
-----------------------------------------------------------------------------
\* watch_for_disconnect
Watch(p) ==
  /\ client[p] = "gone" /\ Job(p).kind = "stream"
  /\ Reschedule(p) /\ UNCHANGED streamVars

\* What happens without the client, the query or a fault.
StreamStep(p) ==
  \/ StreamCall(p) \/ (\E c \in Con : StreamAcquire(p, c)) \/ Interrupted(p)
  \/ CancelHandled(p) \/ CleanupInterrupted(p) \/ Closed(p) \/ Released(p)
  \/ LastFails(p) \/ Watch(p)

StreamNext(p) ==
  \/ StreamStep(p) \/ RowArrives(p) \/ RowsEnd(p) \/ HeadSent(p) \/ ChunkSent(p)
  \/ QueryFails(p) \/ SendFails(p) \/ CancelFails(p) \/ LastSent(p)
=============================================================================
