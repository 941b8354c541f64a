---------------------------- MODULE MCTestDatabase ----------------------------
(* Two workspaces, as different or as alike as they can be. *)
EXTENDS TestDatabase, TLC

CONSTANTS p1, p2

W(project, branch, override) == [project |-> project, branch |-> branch, override |-> override]
Setup(engine, w1, w2, n) ==
  [engine |-> engine, skip |-> Len(w1.project) > 5, faults |-> n,
   ws |-> [p \in Proc |-> IF p = p1 THEN w1 ELSE w2]]

A == <<"a">>
AB == <<"a", "_", "b">>
AXB == <<"a", "x", "b">>
Exact == <<"a", "b", "a", "b", "m">>
HEAD == <<"h">>      \* what a detached worktree has
Long == Append(Exact, "x")

\* A character that no other text has.
MCDigest(slug) == ToString(slug)
MCExtras == {<<"_", "x">>}

MCSetups ==
  {Setup(e, W(A, <<"m">>, <<>>), W(A, <<"b">>, <<>>), 1) : e \in {"postgres", "mssql"}} \cup
  {Setup("mssql", W(A, HEAD, <<>>), W(A, HEAD, <<>>), 1),
   Setup("postgres", W(A, <<"m", "/", "b">>, <<>>), W(A, <<"m", "-", "b">>, <<>>), 1),
   Setup("postgres", W(AB, <<"m">>, <<>>), W(AXB, <<"m">>, <<>>), 0),
   Setup("postgres", W(A, <<"m">>, <<>>), W(AB, <<"m">>, <<>>), 0),
   Setup("postgres", W(Exact, <<"m">>, <<>>), W(Exact, <<"b">>, <<>>), 0),
   Setup("postgres", W(Long, <<"m">>, <<>>), W(Long, <<"b">>, <<>>), 0),
   Setup("postgres", W(A, <<"m">>, <<"x">>), W(A, <<"b">>, <<>>), 0)}
================================================================================
