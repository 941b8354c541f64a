------------------------------ MODULE MCWebApp ------------------------------
(* Two requests on one connection, for TLC. *)
EXTENDS WebApp

CONSTANTS p1, p2, c1

Stream(n, size, limit) ==
  [kind |-> "stream", rows |-> n, batch |-> size, limit |-> limit, body |-> 0, takes |-> 0]
Route(kind, messages, taken) ==
  [kind |-> kind, rows |-> 0, batch |-> 1, limit |-> FALSE, body |-> messages, takes |-> taken]

Setup(j1, j2, t1, t2, n, m) ==
  [job |-> [p \in Request |-> IF p = p1 THEN j1 ELSE j2],
   type |-> t1, types |-> t2, faults |-> n, cancels |-> m]

Nobody == [Stream(0, 1, FALSE) EXCEPT !.kind = "none"]

\* One request with all that may befall it, then two of them on the connection.
MCSetups ==
  {Setup(Stream(n, 2, TRUE), Nobody, 2, 2, 3, 2) : n \in {0, 2, 3}} \cup
  {Setup(Route("read", 3, 3), Nobody, 2, 2, 3, 2),
   Setup(Route("read", 3, 1), Nobody, 2, 2, 1, 0),
   Setup(Route("write", 1, 0), Nobody, 0, 3, 2, 1),
   Setup(Stream(2, 2, TRUE), Stream(1, 2, FALSE), 2, 2, 1, 1),
   Setup(Stream(1, 1, FALSE), Route("read", 1, 0), 2, 2, 1, 0),
   Setup(Route("read", 0, 0), Route("write", 0, 0), 2, 2, 1, 0),
   Setup(Route("write", 0, 0), Route("read", 0, 0), 1, 3, 0, 0)}
=============================================================================
