----------------------------- MODULE TaskPool -----------------------------
(***************************************************************************)
(* What the thread pool of http_server/server.c promises its caller,       *)
(* without mutex, condition variables or ring: tasks 1, 2, ... are         *)
(* accepted while the pool is open and at most Capacity of them wait; they *)
(* are started in the order of acceptance, each by one worker; closing     *)
(* stops acceptance and every accepted task is still finished (docs,       *)
(* 线程池.md: refuse new tasks, consume the remaining ones).               *)
(***************************************************************************)
EXTENDS Integers

CONSTANTS Workers, Capacity, NoTask

VARIABLES
  open,       \* may a task still be accepted?
  accepted,   \* number of tasks accepted
  started,    \* number of tasks started
  running,    \* the task of each worker, or NoTask
  finished    \* the set of finished tasks

vars == <<open, accepted, started, running, finished>>

Init ==
  /\ open = TRUE
  /\ accepted = 0 /\ started = 0
  /\ running = [w \in Workers |-> NoTask]
  /\ finished = {}

Accept ==
  /\ open
  /\ accepted - started < Capacity
  /\ accepted' = accepted + 1
  /\ UNCHANGED <<open, started, running, finished>>

Start(w) ==
  /\ running[w] = NoTask
  /\ started < accepted
  /\ started' = started + 1
  /\ running' = [running EXCEPT ![w] = started + 1]
  /\ UNCHANGED <<open, accepted, finished>>

Finish(w) ==
  /\ running[w] # NoTask
  /\ finished' = finished \cup {running[w]}
  /\ running' = [running EXCEPT ![w] = NoTask]
  /\ UNCHANGED <<open, accepted, started>>

Close ==
  /\ open
  /\ open' = FALSE
  /\ UNCHANGED <<accepted, started, running, finished>>

Next ==
  \/ Accept \/ Close
  \/ \E w \in Workers : Start(w) \/ Finish(w)

\* Some worker starts a task that waits; a worker finishes what it runs.
Fairness ==
  /\ WF_vars(\E w \in Workers : Start(w))
  /\ \A w \in Workers : WF_vars(Finish(w))

SafeSpec == Init /\ [][Next]_vars
Spec     == SafeSpec /\ Fairness

===========================================================================
