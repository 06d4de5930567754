----------------------------- MODULE HttpPool ------------------------------
(***************************************************************************)
(* The server as the caller of the pool: HttpServer replaces the pool by a *)
(* sequence, and ThreadPool is shown to implement TaskPool.  Here what the *)
(* server does with that sequence is shown to be a behaviour of TaskPool   *)
(* too, so that the two can be put together.                               *)
(***************************************************************************)
EXTENDS HttpServer

CONSTANT NoTask

ASSUME NoTaskAssumption == NoTask \notin Nat

VARIABLE order       \* history: the clients whose descriptors were submitted

NumberedInit == Init /\ order = <<>>

NumberedNext ==
  /\ Next
  /\ order' = IF mpc = "submit" /\ mpc' # "submit"
              THEN Append(order, fdtab[current]) ELSE order

NumberedSpec == NumberedInit /\ [][NumberedNext]_<<vars, order>>

FairNumberedSpec == NumberedSpec /\ Fairness

\* The number of a worker's task: which submission it was.
TaskOf(w) ==
  IF job[w] = NoFd THEN NoTask
  ELSE CHOOSE k \in DOMAIN order : order[k] = Peer(w)

Started == Len(order) - Len(queue)

Pool == INSTANCE TaskPool
          WITH Capacity <- QueueSize,
               open     <- mpc \notin {"drain", "end"},
               accepted <- Len(order),
               started  <- Started,
               running  <- [w \in Workers |-> TaskOf(w)],
               finished <- (1 .. Started) \ {TaskOf(w) : w \in Workers}

\* The server's hand-over keeps to the pool's promise: it submits while the pool is
\* open and has room (thread_pool_submit blocks), a worker takes the oldest
\* descriptor and is done with it when it has closed it, the pool is closed once,
\* after the loop; and if everyone reads what he is sent, what was submitted before
\* is finished, as the pool's fairness asks of process_client_connection.
UsesTaskPool == Pool!SafeSpec /\ (EveryoneReads => Pool!Fairness)

===========================================================================
