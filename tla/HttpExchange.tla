---------------------------- MODULE HttpExchange ----------------------------
(***************************************************************************)
(* What the client of a PostgresJsonResponse may come to see: one status,  *)
(* and under a 200 a JSON array that is complete when it looks complete.   *)
(* A response may stop anywhere: it is then cut, and looks cut.            *)
(***************************************************************************)
EXTENDS Naturals

CONSTANT Request

VARIABLES
  rows,    \* the rows that the query of a request has
  status,  \* 0: none sent yet
  told,    \* rows in the body so far
  body,    \* "none", "open": [..., "whole": [...], "message": of an error
  over     \* requests whose last body message has been sent
vars == <<rows, status, told, body, over>>

Init ==
  /\ rows \in [Request -> Nat]
  /\ status = [p \in Request |-> 0] /\ told = [p \in Request |-> 0]
  /\ body = [p \in Request |-> "none"] /\ over = {}

Begin(p) ==
  /\ status[p] = 0
  /\ \E s \in {200, 499, 500, 504} : status' = [status EXCEPT ![p] = s]
  /\ UNCHANGED <<rows, told, body, over>>

\* More of the array; its end only after the last row.
Tell(p) ==
  /\ status[p] = 200 /\ p \notin over /\ body[p] # "whole"
  /\ \E n \in told[p]..rows[p] :
       /\ told' = [told EXCEPT ![p] = n]
       /\ \/ body' = [body EXCEPT ![p] = "open"]
          \/ n = rows[p] /\ body' = [body EXCEPT ![p] = "whole"]
  /\ UNCHANGED <<rows, status, over>>

End(p) ==
  /\ p \notin over
  /\ \/ status[p] = 200 /\ body[p] = "whole" /\ UNCHANGED body
     \/ status[p] \notin {0, 200} /\ body' = [body EXCEPT ![p] = "message"]
  /\ over' = over \cup {p}
  /\ UNCHANGED <<rows, status, told>>

Next == \E p \in Request : Begin(p) \/ Tell(p) \/ End(p)

Spec == Init /\ [][Next]_vars
=============================================================================
