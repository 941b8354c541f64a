----------------------------- MODULE MCFetchRun -----------------------------
(* Calls that share a connection, for TLC. *)
EXTENDS FetchRun

CONSTANTS p1, p2, c1

\* A query with a timeout on an autocommit connection, and one in the transaction
\* that the pool commits.
MCShape == [p \in {p1, p2} |->
  IF p = p1 THEN [before |-> 2, after |-> 2, rollback |-> TRUE, ends |-> FALSE]
            ELSE [before |-> 1, after |-> 0, rollback |-> FALSE, ends |-> TRUE]]
=============================================================================
