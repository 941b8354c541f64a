------------------------------- MODULE Serving -------------------------------
(***************************************************************************)
(* What the requests of a web application share: the event loop's          *)
(* cancellations, the asyncio.timeout(None) that cancels a request whose   *)
(* client has left, and the connections of the pool.                       *)
(***************************************************************************)
EXTENDS TypeCache

CONSTANTS
  Request,
  Con, NoCon,
  Setups      \* the job of each request, the catalog, and the bounds on what happens

ASSUME ConAssumption == NoCon \notin Con

\* What a request does; not every field matters to every kind.
Jobs == [kind : {"none", "stream", "read", "write"}, rows : Nat, batch : Nat \ {0},
         limit : BOOLEAN, body : Nat, takes : Nat]
ASSUME SetupAssumption ==
  Setups \subseteq [job : [Request -> Jobs], type : Nat, types : Nat, faults : Nat, cancels : Nat]

VARIABLES
  setup,
  \* the task of a request
  pc,
  con,      \* the connection it holds
  exc,      \* the exception that is under way, or "none"
  outcome,  \* what the task returns or raises
  hit,      \* the causes of a CancelledError that will be thrown at its await
  ext,      \* requests cancelled by somebody else: task.cancel()
  scope,    \* its cancel scope
  watch,    \* the task that watches for the disconnect
  client,
  \* the connections and the server
  tx,       \* transaction status: "idle", "active", "open"
  readonly, \* connections whose read_only is set
  tainted,  \* connections whose read_only could not be put back
  refused,  \* requests that could not put it back
  cache,    \* what the ComplexHelpers of a connection have learned
  stale,    \* the parts of it that are older than a change of the catalog
  running,  \* requests whose statement the server is executing
  lost,     \* requests whose statement was not cancelled when they asked
  late,     \* connections that a failed cancel request may still reach
  type,     \* in the catalog: the type of the column, NoColumn or NoTable
  faults, cancels

taskVars  == <<pc, exc, outcome, hit, ext, scope, watch>>
poolVars  == <<con, tx, readonly, tainted, refused, cache, stale, running, lost, late>>
worldVars == <<setup, client, type, faults, cancels>>
servingVars == <<taskVars, poolVars, worldVars>>

Job(p) == setup.job[p]
Over(p) == pc[p] \in {"start", "done"}

ServingInit ==
  /\ setup \in Setups
  /\ pc = [p \in Request |-> "start"] /\ con = [p \in Request |-> NoCon]
  /\ exc = [p \in Request |-> "none"] /\ outcome = [p \in Request |-> "none"]
  /\ hit = [p \in Request |-> {}] /\ ext = {}
  /\ scope = [p \in Request |-> "off"] /\ watch = [p \in Request |-> "off"]
  /\ client = [p \in Request |-> "here"]
  /\ tx = [c \in Con |-> "idle"] /\ readonly = {} /\ tainted = {} /\ refused = {}
  /\ cache = [c \in Con |-> EmptyCache] /\ stale = [c \in Con |-> {}]
  /\ running = {} /\ lost = {} /\ late = {}
  /\ type = setup.type /\ faults = 0 /\ cancels = 0

Fault == faults < setup.faults /\ faults' = faults + 1 /\ UNCHANGED <<setup, client, type, cancels>>
-----------------------------------------------------------------------------
(* The cancel scope *)

\* The scope is entered and the watcher started.
Enter(p) ==
  /\ scope' = [scope EXCEPT ![p] = "entered"]
  /\ watch' = [watch EXCEPT ![p] = "waiting"]

\* The watcher pulls the deadline to now.
Reschedule(p) ==
  /\ watch[p] = "waiting"
  /\ watch' = [watch EXCEPT ![p] = "done"]
  /\ scope' = [scope EXCEPT ![p] = "due"]
  /\ UNCHANGED <<pc, exc, outcome, hit, ext, poolVars, worldVars>>

\* The deadline has come: the scope cancels the task.
Deadline(p) ==
  /\ scope[p] = "due"
  /\ scope' = [scope EXCEPT ![p] = "expired"]
  /\ hit' = [hit EXCEPT ![p] = @ \cup {"scope"}]
  /\ UNCHANGED <<pc, exc, outcome, ext, watch, poolVars, worldVars>>

\* task.cancel() from elsewhere, the server's shutdown for one.
Cancel(p) ==
  /\ ~Over(p) /\ cancels < setup.cancels
  /\ cancels' = cancels + 1
  /\ ext' = ext \cup {p}
  /\ hit' = [hit EXCEPT ![p] = @ \cup {"ext"}]
  /\ UNCHANGED <<pc, exc, outcome, scope, watch, poolVars, setup, client, type, faults>>

\* Mutant: every cancellation is taken for the scope's.
Expired_Always(p, how) == how = "cancelled"

\* Leaving the scope turns a CancelledError into its TimeoutError, unless somebody
\* else has cancelled the task as well.
Expired(p, how) == how = "cancelled" /\ scope[p] = "expired" /\ p \notin ext

\* The scope is left and the watcher cancelled.
Exit(p) ==
  /\ scope' = [scope EXCEPT ![p] = "left"]
  /\ watch' = [watch EXCEPT ![p] = "done"]
  /\ hit' = [hit EXCEPT ![p] = @ \ {"scope"}]
  /\ UNCHANGED ext

\* The request is over; a cancellation that is pending strikes its task's end.
Done(p, result) ==
  /\ outcome' = [outcome EXCEPT ![p] = IF "ext" \in hit[p] THEN "cancelled" ELSE result]
  /\ pc' = [pc EXCEPT ![p] = "done"]

Leave(p) ==
  /\ client[p] = "here" /\ ~Over(p)
  /\ client' = [client EXCEPT ![p] = "gone"]
  /\ UNCHANGED <<taskVars, poolVars, setup, type, faults, cancels>>

\* A migration creates the table, adds the column, or replaces its type: the new one
\* has another oid.
Alter ==
  /\ type < setup.types
  /\ type' = type + 1
  /\ stale' = [c \in Con |-> stale[c] \cup Outdated(type)]
  /\ UNCHANGED <<taskVars, con, tx, readonly, tainted, refused, cache, running, lost, late,
                 setup, client, faults, cancels>>
-----------------------------------------------------------------------------
(* The pool and the statements *)

Free(c) == \A p \in Request : con[p] # c

Status(p, s) == tx' = [tx EXCEPT ![con[p]] = s]

\* A statement of the request goes out on its connection, or has ended there.
Send(p) == Status(p, "active") /\ running' = running \cup {p}
Ends(p) == Status(p, "open") /\ running' = running \ {p}

\* No connection comes free in time, or the wait for one is cancelled.
NoConnection(p, why) ==
  /\ pc[p] = "acquire"
  /\ \/ hit[p] = {} /\ why = "error" /\ Fault /\ UNCHANGED hit
     \/ hit[p] # {} /\ why = "cancelled" /\ hit' = [hit EXCEPT ![p] = {}] /\ UNCHANGED worldVars
  /\ exc' = [exc EXCEPT ![p] = why]
  /\ pc' = [pc EXCEPT ![p] = "released"]
  /\ UNCHANGED <<outcome, ext, scope, watch, poolVars>>

\* The block around the connection is left with this exception: the transaction is
\* committed or rolled back.
EndTransaction(p, why) ==
  /\ exc' = [exc EXCEPT ![p] = why]
  /\ Send(p)
  /\ pc' = [pc EXCEPT ![p] = "ending"]
  /\ UNCHANGED <<con, readonly, tainted, refused, cache, stale, late>>

\* The pool has the connection back: idle, or closed and replaced by a new one.
Return(p) ==
  /\ con' = [con EXCEPT ![p] = NoCon]
  /\ tx' = [tx EXCEPT ![con[p]] = "idle"]
  /\ pc' = [pc EXCEPT ![p] = "released"]

GiveBack(p) == Return(p) /\ UNCHANGED <<tainted, refused, cache, stale, late>>

Replace(p) ==
  /\ Return(p)
  /\ readonly' = readonly \ {con[p]} /\ tainted' = tainted \ {con[p]} /\ late' = late \ {con[p]}
  /\ cache' = [cache EXCEPT ![con[p]] = EmptyCache] /\ stale' = [stale EXCEPT ![con[p]] = {}]

\* Mutant: the read-only flag is put back when the block has ended normally.
Restore_Normal(p) ==
  readonly' = IF Job(p).kind = "read" /\ con[p] \notin tainted /\ exc[p] = "none"
              THEN readonly \ {con[p]} ELSE readonly

\* readonly_transaction puts back the setting the connection came with.
Restore(p) ==
  readonly' = IF Job(p).kind = "read" /\ con[p] \notin tainted THEN readonly \ {con[p]} ELSE readonly

\* On a connection that is not idle set_read_only raises, in place of what was under
\* way.
RestoreFails(p, s) ==
  /\ Status(p, s)
  /\ refused' = refused \cup {p} /\ tainted' = tainted \cup {con[p]}
  /\ exc' = [exc EXCEPT ![p] = "error"]
  /\ pc' = [pc EXCEPT ![p] = "leaving"]
  /\ UNCHANGED <<con, readonly, cache, stale, late>>

\* The COMMIT or ROLLBACK is answered.  A cancellation that arrives before waits for
\* the answer.
Ended(p) ==
  /\ pc[p] = "ending"
  /\ \/ hit[p] = {} /\ UNCHANGED <<exc, worldVars>>
     \/ hit[p] = {} /\ exc[p] = "none" /\ Fault /\ exc' = [exc EXCEPT ![p] = "error"]
     \/ hit[p] # {} /\ exc' = [exc EXCEPT ![p] = "cancelled"] /\ UNCHANGED worldVars
  /\ hit' = [hit EXCEPT ![p] = {}]
  /\ running' = running \ {p}
  /\ Restore(p) /\ GiveBack(p)
  /\ UNCHANGED <<outcome, ext, scope, watch, lost>>

\* The cancellation hits the COMMIT or ROLLBACK itself, and the transaction stays open;
\* or a second one ends the wait for its answer.
EndCancelled(p) ==
  /\ pc[p] = "ending" /\ hit[p] # {}
  /\ hit' = [hit EXCEPT ![p] = {}]
  /\ running' = running \ {p}
  /\ IF Job(p).kind = "read"
     THEN \E s \in {"open", "active"} : RestoreFails(p, s)
     ELSE exc' = [exc EXCEPT ![p] = "cancelled"] /\ Replace(p) /\ UNCHANGED refused
  /\ UNCHANGED <<outcome, ext, scope, watch, lost, worldVars>>

\* After RestoreFails the pool gets the connection: it closes one that is in the middle
\* of a statement, and rolls back, or closes too, one that is in a transaction.
Left(p) ==
  /\ pc[p] = "leaving"
  /\ \/ tx[con[p]] = "open" /\ GiveBack(p) /\ UNCHANGED readonly
     \/ Replace(p) /\ UNCHANGED refused
  /\ exc' = [exc EXCEPT ![p] = IF hit[p] = {} THEN @ ELSE "cancelled"]
  /\ hit' = [hit EXCEPT ![p] = {}]
  /\ UNCHANGED <<outcome, ext, scope, watch, running, lost, worldVars>>
=============================================================================
