------------------------------- MODULE Container -------------------------------
(***************************************************************************)
(* The shared container of a database server (testdb/container.py,         *)
(* testdb/mssql/container.py, testdb/_docker.py): any command that needs   *)
(* it probes the server, and finds, starts or creates the container.       *)
(***************************************************************************)
CONSTANT Proc

VARIABLES
  container,  \* "absent", "stopped", "starting" or "ready"
  pc          \* where each process is

Goto(p, label) == pc' = [pc EXCEPT ![p] = label]

\* A server that answers, or is said to be there, is not asked about.
Available(p, skip) ==
  /\ pc[p] = "probe"
  /\ Goto(p, IF skip \/ container = "ready" THEN "next" ELSE "get")
  /\ UNCHANGED container

\* containers.get, and start() when it does not run.
GetContainer(p) ==
  /\ pc[p] = "get"
  /\ Goto(p, IF container = "absent" THEN "run" ELSE "wait")
  /\ container' = IF container = "stopped" THEN "starting" ELSE container

\* Mutant: the name is taken by now, and that is an error.
CreateContainer_Conflict(p) ==
  /\ pc[p] = "run"
  /\ Goto(p, IF container = "absent" THEN "wait" ELSE "failed")
  /\ container' = IF container = "absent" THEN "starting" ELSE container

\* The name may be taken by now: then that container is started.
CreateContainer(p) ==
  /\ pc[p] = "run"
  /\ Goto(p, "wait")
  /\ container' = IF container \in {"absent", "stopped"} THEN "starting" ELSE container

WaitReady(p) ==
  /\ pc[p] = "wait" /\ container = "ready"
  /\ Goto(p, "next") /\ UNCHANGED container

\* The server comes up.
Boot ==
  /\ container = "starting" /\ container' = "ready"
  /\ UNCHANGED pc
================================================================================
