------------------------------ MODULE FetchRun ------------------------------
(***************************************************************************)
(* fetch_all, fetch_one, fetch_scalar and execute (db/fetch.py): _run      *)
(* takes a connection, runs the statements as a task of their own and      *)
(* waits for it or for the `cancel` event; when the event comes first, or  *)
(* the awaiting task is cancelled, another task asks the server to cancel  *)
(* the statement and waits until the work has unwound.  Calls share the    *)
(* connections of a pool.                                                  *)
(***************************************************************************)
EXTENDS Naturals

CONSTANTS
  Call,        \* calls of the helpers, each made once
  Con,         \* connections of the pool
  NoCon,
  shape,       \* the statements each call consists of
  MaxCancels,  \* bound: task.cancel() on an awaiting task
  MaxFaults    \* bound: cancel requests that fail, statements that fail

\* A query is preceded by BEGIN and the statement that sets the timeout, and
\* followed by the one that puts it back and COMMIT, as far as they are needed.
\* rollback: the call has a block of its own; ends: the pool commits or rolls
\* back when it gets the connection back.  Either of them starts with BEGIN.
Shape == [before : Nat, after : Nat, rollback : BOOLEAN, ends : BOOLEAN]

ASSUME ConAssumption == NoCon \notin Con
ASSUME ShapeAssumption ==
  /\ shape \in [Call -> Shape]
  /\ \A p \in Call : shape[p].rollback \/ shape[p].ends => shape[p].before > 0
ASSUME BoundAssumption == MaxCancels \in Nat /\ MaxFaults \in Nat

VARIABLES
  \* the task that awaits the call
  pc,          \* where it is in _run
  con,         \* the connection it holds
  path,        \* which _abort_uninterruptibly: of the event or of the except clause
  hit,         \* a CancelledError will be thrown at its await
  interrupted, \* in _abort_uninterruptibly
  outcome,     \* what _run returns or raises
  event,       \* calls whose cancel event is set
  \* the task that runs the statements
  wpc, at,     \* where it is, and at which statement
  wres,        \* its result
  \* the abort task
  apc,
  req, target, \* its cancel request, and the connection that is for
  \* the server
  server,      \* what a connection's backend does
  reply,       \* its answer to the last statement
  open,        \* not closed
  \* history and bounds
  early,       \* calls aborted before their query was sent
  struck,      \* calls whose task received a CancelledError
  cancels, faults

ownVars   == <<pc, con, path, hit, interrupted, outcome>>
workVars  == <<wpc, at, wres>>
abortVars == <<apc, req, target, early>>
conVars   == <<server, reply, open>>
boundVars == <<cancels, faults>>
vars == <<ownVars, event, workVars, abortVars, conVars, struck, boundVars>>
-----------------------------------------------------------------------------
Query(p) == shape[p].before + 1
Last(p) == Query(p) + shape[p].after
Rollback(p) == Last(p) + 1   \* the statement a failing block ends with

Awaiting == {"wait", "shield", "ending"}
Replies == {"value", "failed", "canceled"}

TypeOK ==
  /\ pc \in [Call -> {"start", "acquire", "done"} \cup Awaiting]
  /\ con \in [Call -> Con \cup {NoCon}]
  /\ path \in [Call -> {"event", "except"}]
  /\ hit \in [Call -> BOOLEAN] /\ interrupted \in [Call -> BOOLEAN]
  /\ outcome \in [Call -> Replies \cup {"none", "cancelled"}]
  /\ event \subseteq Call
  /\ wpc \in [Call -> {"off", "send", "await", "done"}]
  /\ at \in [Call -> Nat]
  /\ \A p \in Call : at[p] \in 1..(IF shape[p].rollback THEN Rollback(p) ELSE Last(p))
  /\ wres \in [Call -> Replies \cup {"none", "cancelled"}]
  /\ apc \in [Call -> {"off", "start", "cancelling", "gather", "done"}]
  /\ req \in [Call -> {"none", "sent", "handled"}]
  /\ target \in [Call -> Con \cup {NoCon}]
  /\ server \in [Con -> {"idle", "running"}]
  /\ reply \in [Con -> Replies \cup {"none"}]
  /\ open \in [Con -> BOOLEAN]
  /\ early \subseteq Call /\ struck \subseteq Call
  /\ cancels \in Nat /\ faults \in Nat

Init ==
  /\ pc = [p \in Call |-> "start"] /\ con = [p \in Call |-> NoCon]
  /\ path = [p \in Call |-> "event"]
  /\ hit = [p \in Call |-> FALSE] /\ interrupted = [p \in Call |-> FALSE]
  /\ outcome = [p \in Call |-> "none"]
  /\ event = {}
  /\ wpc = [p \in Call |-> "off"] /\ at = [p \in Call |-> 1]
  /\ wres = [p \in Call |-> "none"]
  /\ apc = [p \in Call |-> "off"] /\ req = [p \in Call |-> "none"]
  /\ target = [p \in Call |-> NoCon]
  /\ server = [c \in Con |-> "idle"] /\ reply = [c \in Con |-> "none"]
  /\ open = [c \in Con |-> TRUE]
  /\ early = {} /\ struck = {} /\ cancels = 0 /\ faults = 0
-----------------------------------------------------------------------------
(* The awaiting task: _run *)

Raise(p, result) ==
  /\ outcome' = [outcome EXCEPT ![p] = result]
  /\ pc' = [pc EXCEPT ![p] = "done"]

\* An event that is set already raises before a connection is taken.
Refuse(p) ==
  /\ pc[p] = "start" /\ p \in event
  /\ Raise(p, "canceled")
  /\ UNCHANGED <<con, path, hit, interrupted, event, workVars, abortVars, conVars,
                 struck, boundVars>>

Start(p) ==
  /\ pc[p] = "start" /\ p \notin event
  /\ pc' = [pc EXCEPT ![p] = "acquire"]
  /\ UNCHANGED <<con, path, hit, interrupted, outcome, event, workVars, abortVars,
                 conVars, struck, boundVars>>

\* The pool hands out a connection; the work sends its first statement before
\* the awaiting task can go on.
Free(c) == \A q \in Call : con[q] # c

Acquire(p, c) ==
  /\ pc[p] = "acquire" /\ ~hit[p] /\ Free(c)
  /\ con' = [con EXCEPT ![p] = c]
  /\ pc' = [pc EXCEPT ![p] = "wait"]
  /\ wpc' = [wpc EXCEPT ![p] = "await"]
  /\ server' = [server EXCEPT ![c] = "running"]
  /\ UNCHANGED <<path, hit, interrupted, outcome, event, at, wres, abortVars,
                 reply, open, struck, boundVars>>

AcquireCancelled(p) ==
  /\ pc[p] = "acquire" /\ hit[p]
  /\ hit' = [hit EXCEPT ![p] = FALSE]
  /\ struck' = struck \cup {p}
  /\ Raise(p, "cancelled")
  /\ UNCHANGED <<con, path, interrupted, event, workVars, abortVars, conVars, boundVars>>

\* The connection goes back; the pool replaces a closed one.
GiveBack(p) ==
  /\ con' = [con EXCEPT ![p] = NoCon]
  /\ open' = [open EXCEPT ![con[p]] = TRUE]

\* _run is over with this result: leaving _acquire commits or rolls back what
\* BEGIN, the first statement, has opened.
Leave(p, result) ==
  /\ outcome' = [outcome EXCEPT ![p] = result]
  /\ IF shape[p].ends /\ at[p] > 1 /\ open[con[p]]
     THEN /\ pc' = [pc EXCEPT ![p] = "ending"]
          /\ server' = [server EXCEPT ![con[p]] = "running"]
          /\ UNCHANGED <<con, open>>
     ELSE /\ pc' = [pc EXCEPT ![p] = "done"]
          /\ GiveBack(p) /\ UNCHANGED server
  /\ UNCHANGED <<path, event, workVars, reply, boundVars>>

\* _abort_uninterruptibly creates the abort task and awaits it.
Abort(p, why) ==
  /\ apc' = [apc EXCEPT ![p] = "start"]
  /\ path' = [path EXCEPT ![p] = why]
  /\ interrupted' = [interrupted EXCEPT ![p] = FALSE]
  /\ pc' = [pc EXCEPT ![p] = "shield"]
  /\ UNCHANGED <<con, outcome, event, workVars, req, target, early, conVars, boundVars>>

\* What the work's result makes the call return or raise.
Result(p) == IF wres[p] = "cancelled" THEN "canceled" ELSE wres[p]

WorkDone(p) ==
  /\ pc[p] = "wait" /\ ~hit[p] /\ wpc[p] = "done"
  /\ Leave(p, Result(p))
  /\ UNCHANGED <<hit, interrupted, abortVars, struck>>

EventSet(p) ==
  /\ pc[p] = "wait" /\ ~hit[p] /\ p \in event /\ wpc[p] # "done"
  /\ Abort(p, "event")
  /\ UNCHANGED <<hit, struck>>

WaitCancelled(p) ==
  /\ pc[p] = "wait" /\ hit[p]
  /\ hit' = [hit EXCEPT ![p] = FALSE]
  /\ struck' = struck \cup {p}
  /\ Abort(p, "except")

\* A further cancellation is noted; the abort goes on behind its shield.
ShieldCancelled(p) ==
  /\ pc[p] = "shield" /\ hit[p]
  /\ hit' = [hit EXCEPT ![p] = FALSE]
  /\ struck' = struck \cup {p}
  /\ interrupted' = [interrupted EXCEPT ![p] = TRUE]
  /\ UNCHANGED <<pc, con, path, outcome, event, workVars, abortVars, conVars, boundVars>>

\* Mutant: the loop ends at the first interruption.
Aborted_Early(p) == pc[p] = "shield" /\ ~hit[p] /\ (apc[p] = "done" \/ interrupted[p])

Aborted(p) == pc[p] = "shield" /\ ~hit[p] /\ apc[p] = "done"

AbortedByEvent(p) ==
  /\ Aborted(p) /\ path[p] = "event" /\ ~interrupted[p]
  /\ Leave(p, Result(p))
  /\ UNCHANGED <<hit, interrupted, abortVars, struck>>

\* Mutant: the interruption is forgotten.
AbortedAgain_Forgotten(p) ==
  /\ Aborted(p) /\ path[p] = "event" /\ interrupted[p]
  /\ Leave(p, Result(p))
  /\ UNCHANGED <<hit, interrupted, abortVars, struck>>

\* The interruption is raised inside the try: the except clause aborts again.
AbortedAgain(p) ==
  /\ Aborted(p) /\ path[p] = "event" /\ interrupted[p]
  /\ Abort(p, "except")
  /\ UNCHANGED <<hit, struck>>

AbortedByCancel(p) ==
  /\ Aborted(p) /\ path[p] = "except"
  /\ Leave(p, "cancelled")
  /\ UNCHANGED <<hit, interrupted, abortVars, struck>>

\* The COMMIT or ROLLBACK is answered; a ROLLBACK that fails is only logged.
Ended(p) ==
  /\ pc[p] = "ending" /\ ~hit[p] /\ reply[con[p]] # "none"
  /\ Raise(p, IF outcome[p] = "value" THEN reply[con[p]] ELSE outcome[p])
  /\ reply' = [reply EXCEPT ![con[p]] = "none"]
  /\ GiveBack(p)
  /\ UNCHANGED <<path, hit, interrupted, event, workVars, abortVars, server, struck,
                 boundVars>>

\* Cancelled meanwhile: the driver cancels the statement and waits for it, and
\* the pool gets the connection back idle, or discards it.
EndCancelled(p) ==
  /\ pc[p] = "ending" /\ hit[p]
  /\ hit' = [hit EXCEPT ![p] = FALSE]
  /\ struck' = struck \cup {p}
  /\ Raise(p, "cancelled")
  /\ server' = [server EXCEPT ![con[p]] = "idle"]
  /\ reply' = [reply EXCEPT ![con[p]] = "none"]
  /\ GiveBack(p)
  /\ UNCHANGED <<path, interrupted, event, workVars, abortVars, boundVars>>
-----------------------------------------------------------------------------
(* The work: _run_query inside _statement_timeout *)

Send(p) ==
  /\ wpc[p] = "send"
  /\ wpc' = [wpc EXCEPT ![p] = "await"]
  /\ server' = [server EXCEPT ![con[p]] = "running"]
  /\ UNCHANGED <<ownVars, event, at, wres, abortVars, reply, open, struck, boundVars>>

Finish(p, result) ==
  /\ wpc' = [wpc EXCEPT ![p] = "done"] /\ wres' = [wres EXCEPT ![p] = result]
  /\ UNCHANGED at

GoTo(p, n) == wpc' = [wpc EXCEPT ![p] = "send"] /\ at' = [at EXCEPT ![p] = n]

\* A block is rolled back when it was entered and its COMMIT not yet sent.
Unwind(p) ==
  IF shape[p].rollback /\ at[p] \in 2..(Last(p) - 1)
  THEN GoTo(p, Rollback(p)) /\ wres' = [wres EXCEPT ![p] = reply[con[p]]]
  ELSE Finish(p, reply[con[p]])

\* Mutant: one statement too many.
Receive_Past(p) ==
  /\ wpc[p] = "await" /\ reply[con[p]] # "none"
  /\ reply' = [reply EXCEPT ![con[p]] = "none"]
  /\ \/ /\ at[p] <= Last(p) /\ reply[con[p]] = "value"
        /\ GoTo(p, at[p] + 1) /\ UNCHANGED wres
     \/ /\ at[p] <= Last(p) /\ reply[con[p]] # "value"
        /\ Unwind(p)
     \/ at[p] = Rollback(p) /\ Finish(p, wres[p])
  /\ UNCHANGED <<ownVars, event, abortVars, server, open, struck, boundVars>>

\* The answer to a statement: the next one, the end, or the way out.
Receive(p) ==
  /\ wpc[p] = "await" /\ reply[con[p]] # "none"
  /\ reply' = [reply EXCEPT ![con[p]] = "none"]
  /\ \/ /\ at[p] < Last(p) /\ reply[con[p]] = "value"
        /\ GoTo(p, at[p] + 1) /\ UNCHANGED wres
     \/ /\ at[p] = Last(p) /\ reply[con[p]] = "value"
        /\ Finish(p, "value")
     \/ /\ at[p] <= Last(p) /\ reply[con[p]] # "value"
        /\ Unwind(p)
     \/ at[p] = Rollback(p) /\ Finish(p, wres[p])
  /\ UNCHANGED <<ownVars, event, abortVars, server, open, struck, boundVars>>
-----------------------------------------------------------------------------
(* The abort task: _abort *)

QuerySent(p) == at[p] > Query(p) \/ (at[p] = Query(p) /\ wpc[p] # "send")

\* cancel_safe, unless the work is done.
AbortStart(p) ==
  /\ apc[p] = "start"
  /\ IF wpc[p] = "done"
     THEN apc' = [apc EXCEPT ![p] = "gather"] /\ UNCHANGED <<req, target, early>>
     ELSE /\ apc' = [apc EXCEPT ![p] = "cancelling"]
          /\ req' = [req EXCEPT ![p] = "sent"]
          /\ target' = [target EXCEPT ![p] = con[p]]
          /\ early' = IF QuerySent(p) THEN early ELSE early \cup {p}
  /\ UNCHANGED <<ownVars, event, workVars, conVars, struck, boundVars>>

\* Mutant: the request is sent and not waited for.
CancelReturned_AtOnce(p) ==
  /\ apc[p] = "cancelling"
  /\ apc' = [apc EXCEPT ![p] = "gather"]
  /\ UNCHANGED <<ownVars, event, workVars, req, target, early, conVars, struck, boundVars>>

CancelReturned(p) ==
  /\ apc[p] = "cancelling" /\ req[p] = "handled"
  /\ apc' = [apc EXCEPT ![p] = "gather"]
  /\ req' = [req EXCEPT ![p] = "none"]
  /\ UNCHANGED <<ownVars, event, workVars, target, early, conVars, struck, boundVars>>

Fault == faults < MaxFaults /\ faults' = faults + 1 /\ UNCHANGED cancels

\* Mutant: the connection is closed and the work left alone.
CancelFailed_NoCancel(p) ==
  /\ apc[p] = "cancelling" /\ Fault
  /\ apc' = [apc EXCEPT ![p] = "gather"] /\ req' = [req EXCEPT ![p] = "none"]
  /\ open' = [open EXCEPT ![con[p]] = FALSE]
  /\ server' = [server EXCEPT ![con[p]] = "idle"]
  /\ reply' = [reply EXCEPT ![con[p]] = "none"]
  /\ UNCHANGED <<ownVars, event, workVars, target, early, struck>>

\* The request cannot be delivered, or its answer does not come: the connection
\* is closed and the work cancelled on this side.  What the request still
\* reaches is the backend of the closed connection.
CancelFailed(p) ==
  /\ apc[p] = "cancelling" /\ Fault
  /\ apc' = [apc EXCEPT ![p] = "gather"] /\ req' = [req EXCEPT ![p] = "none"]
  /\ open' = [open EXCEPT ![con[p]] = FALSE]
  /\ server' = [server EXCEPT ![con[p]] = "idle"]
  /\ reply' = [reply EXCEPT ![con[p]] = "none"]
  /\ IF wpc[p] = "done" THEN UNCHANGED workVars ELSE Finish(p, "cancelled")
  /\ UNCHANGED <<ownVars, event, target, early, struck>>

Gathered(p) ==
  /\ apc[p] = "gather" /\ wpc[p] = "done"
  /\ apc' = [apc EXCEPT ![p] = "done"]
  /\ UNCHANGED <<ownVars, event, workVars, req, target, early, conVars, struck, boundVars>>
-----------------------------------------------------------------------------
(* The server and the callers *)

Answer(c, result) ==
  /\ server[c] = "running"
  /\ server' = [server EXCEPT ![c] = "idle"]
  /\ reply' = [reply EXCEPT ![c] = result]
  /\ UNCHANGED <<ownVars, event, workVars, open, struck>>

Executed(c) == Answer(c, "value") /\ UNCHANGED <<abortVars, boundVars>>

ExecutionFails(c) == Answer(c, "failed") /\ Fault /\ UNCHANGED abortVars

\* A cancel request reaches the backend: the running statement ends; one that
\* finds it between two statements has no effect.
CancelArrives(p) ==
  /\ req[p] = "sent"
  /\ req' = [req EXCEPT ![p] = "handled"]
  /\ IF server[target[p]] = "running"
     THEN /\ server' = [server EXCEPT ![target[p]] = "idle"]
          /\ reply' = [reply EXCEPT ![target[p]] = "canceled"]
     ELSE UNCHANGED <<server, reply>>
  /\ UNCHANGED <<ownVars, event, workVars, apc, target, early, open, struck, boundVars>>

SetEvent(p) ==
  /\ p \notin event /\ pc[p] # "done"
  /\ event' = event \cup {p}
  /\ UNCHANGED <<ownVars, workVars, abortVars, conVars, struck, boundVars>>

\* task.cancel() on the awaiting task.
Cancel(p) ==
  /\ pc[p] \in Awaiting \cup {"acquire"} /\ ~hit[p] /\ cancels < MaxCancels
  /\ hit' = [hit EXCEPT ![p] = TRUE]
  /\ cancels' = cancels + 1
  /\ UNCHANGED <<pc, con, path, interrupted, outcome, event, workVars, abortVars,
                 conVars, struck, faults>>
-----------------------------------------------------------------------------
OwnStep(p) ==
  \/ Refuse(p) \/ Start(p) \/ (\E c \in Con : Acquire(p, c)) \/ AcquireCancelled(p)
  \/ WorkDone(p) \/ EventSet(p) \/ WaitCancelled(p) \/ ShieldCancelled(p)
  \/ AbortedByEvent(p) \/ AbortedAgain(p) \/ AbortedByCancel(p)
  \/ Ended(p) \/ EndCancelled(p)

WorkStep(p) == Send(p) \/ Receive(p)

AbortStep(p) == AbortStart(p) \/ CancelReturned(p) \/ Gathered(p)

Step(p) == OwnStep(p) \/ WorkStep(p) \/ AbortStep(p) \/ CancelArrives(p)

Next ==
  \/ \E p \in Call : Step(p) \/ CancelFailed(p) \/ SetEvent(p) \/ Cancel(p)
  \/ \E c \in Con : Executed(c) \/ ExecutionFails(c)

Spec == Init /\ [][Next]_vars

\* While a task can go on or the server has something to do, one of them goes on:
\* the event loop runs the tasks that are ready, and the server answers what it
\* is sent.  No task is favoured; nobody has to set an event, cancel or fail.
FairSpec == Spec /\ WF_vars((\E p \in Call : Step(p)) \/ (\E c \in Con : Executed(c)))
-----------------------------------------------------------------------------
(* Properties *)

\* A connection that is given back is open, with nothing running or unread on
\* it, and no cancel request under way to it; the tasks of the call that held
\* it are over.  Its next user is not in the middle of somebody else's query.
GivenBackIdle ==
  /\ \A c \in Con : Free(c) =>
       /\ open[c] /\ server[c] = "idle" /\ reply[c] = "none"
       /\ \A p \in Call : req[p] # "none" => target[p] # c
  /\ \A p \in Call : pc[p] = "done" => wpc[p] \in {"off", "done"} /\ apc[p] \in {"off", "done"}

\* Only a call whose event is set raises QueryCanceled: the cancel request of
\* one call never ends a statement of another on the same connection, its
\* COMMIT included.
NoStrayCancel == \A p \in Call : pc[p] = "done" /\ outcome[p] = "canceled" => p \in event

\* A cancellation of the awaiting task is never swallowed, wherever it arrives
\* and whatever the event and the work have come to meanwhile.
CancellationKept ==
  \A p \in Call : pc[p] = "done" /\ p \in struck => outcome[p] = "cancelled"

\* Every call ends, cancelled or not: no task waits for another one that waits
\* for it, and work on a closed connection is not waited for.
CallEnds == \A p \in Call : pc[p] = "acquire" ~> pc[p] = "done"

\* fetch_all: "Set `cancel` to abort a running query on the server: `fetch_all`
\* then raises QueryCanceled", so one that was being aborted before its query
\* was sent does not return rows.
CancelRaises == \A p \in Call : pc[p] = "done" /\ p \in early => outcome[p] # "value"
=============================================================================
