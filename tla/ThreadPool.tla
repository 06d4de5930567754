---------------------------- MODULE ThreadPool ----------------------------
(***************************************************************************)
(* The thread pool of http_server/server.c: a ring of client descriptors   *)
(* guarded by one mutex and two condition variables.  The main thread is   *)
(* the only one that submits; NWorkers workers take.                       *)
(*                                                                         *)
(* A critical section is split where another thread can see the split: at  *)
(* the acquisition of the mutex, and between a worker's test of the loop   *)
(* predicate and its entry into pthread_cond_wait, because the failure     *)
(* path of thread_pool_init writes stop and broadcasts WITHOUT the mutex.  *)
(* Everything else between a lock and its unlock touches only data the     *)
(* mutex protects and is one step.                                         *)
(*                                                                         *)
(* The k-th descriptor that is submitted is called task k: descriptors are *)
(* recycled by the kernel, tasks are not.                                  *)
(***************************************************************************)
EXTENDS Integers, FiniteSets

CONSTANTS
  NWorkers,       \* THREAD_POOL_SIZE
  QueueSize,      \* TASK_QUEUE_SIZE
  MaxTasks,       \* bound: descriptors the main loop submits
  MaxSpurious,    \* bound: spurious wakeups of pthread_cond_wait
  CreateMayFail   \* may pthread_create fail?

ASSUME ConstantsAssumption ==
  /\ NWorkers \in Nat \ {0}
  /\ QueueSize \in Nat \ {0}
  /\ MaxTasks \in Nat
  /\ MaxSpurious \in Nat
  /\ CreateMayFail \in BOOLEAN

Main    == 0
Workers == 1 .. NWorkers        \* worker w is pool->workers[w - 1]
Threads == 0 .. NWorkers
Free    == -1                   \* the mutex has no holder
None    == 0                    \* no task

VARIABLES
  queue, head, tail, count, stop,  \* the fields of ThreadPool
  mutex,                           \* the holder of pool->mutex, or Free
  notEmpty, notFull,               \* the threads blocked on each condition
  pc,                              \* where each thread is
  task,                            \* client_fd of each worker, or None
  submitted, taken, handled,       \* history: puts, takes, finished tasks
  spurious                         \* spurious wakeups so far

ring    == <<queue, head, tail, count>>
history == <<submitted, taken, handled>>
vars    == <<queue, head, tail, count, stop, mutex, notEmpty, notFull, pc,
             task, submitted, taken, handled, spurious>>

MainPC   == {"start", "create", "failStop", "failBroadcast", "failJoin",
             "failed", "loop", "check", "full", "relock",
             "stopLock", "stop", "join", "end"}
WorkerPC == {"none", "lock", "check", "wait", "waiting", "relock", "work",
             "done"}

Created == {w \in Workers : pc[w] # "none"}

Goto(t, l) == pc' = [pc EXCEPT ![t] = l]

\* memset(pool, 0): the ring is empty and nobody runs but the main thread.
Init ==
  /\ queue = [i \in 0 .. QueueSize - 1 |-> None]
  /\ head = 0 /\ tail = 0 /\ count = 0 /\ stop = 0
  /\ mutex = Free
  /\ notEmpty = {} /\ notFull = {}
  /\ pc = [t \in Threads |-> IF t = Main THEN "start" ELSE "none"]
  /\ task = [w \in Workers |-> None]
  /\ submitted = 0 /\ taken = 0 /\ handled = {}
  /\ spurious = 0

---------------------------------------------------------------------------
(* Ring and condition-variable operations, and below each group the forms  *)
(* with a plausible bug that show that the properties can fail.            *)

FullOffByOne == count > QueueSize

Full == count = QueueSize

Enqueue(k) ==
  /\ queue' = [queue EXCEPT ![tail] = k]
  /\ tail' = (tail + 1) % QueueSize
  /\ count' = count + 1
  /\ UNCHANGED head

DequeueKeepingHead(w) ==
  /\ task' = [task EXCEPT ![w] = queue[head]]
  /\ count' = count - 1
  /\ UNCHANGED <<queue, head, tail>>

DequeueNewest(w) ==
  LET newest == (tail + QueueSize - 1) % QueueSize
  IN  /\ task' = [task EXCEPT ![w] = queue[newest]]
      /\ tail' = newest
      /\ count' = count - 1
      /\ UNCHANGED <<queue, head>>

Dequeue(w) ==
  /\ task' = [task EXCEPT ![w] = queue[head]]
  /\ head' = (head + 1) % QueueSize
  /\ count' = count - 1
  /\ UNCHANGED <<queue, tail>>

NoSignalNotEmpty == Goto(Main, "loop") /\ UNCHANGED notEmpty

\* pthread_cond_signal(&pool->not_empty) by the main thread, which goes on
\* at "loop": it unblocks one of the waiters, if there is one.
SignalNotEmpty ==
  IF notEmpty = {}
  THEN Goto(Main, "loop") /\ UNCHANGED notEmpty
  ELSE \E w \in notEmpty :
         /\ pc' = [pc EXCEPT ![w] = "relock", ![Main] = "loop"]
         /\ notEmpty' = notEmpty \ {w}

NoSignalNotFull(w) == Goto(w, "work") /\ UNCHANGED notFull

\* pthread_cond_signal(&pool->not_full) by worker w, which goes on at
\* "work": only the main thread ever waits on it.
SignalNotFull(w) ==
  /\ pc' = [pc EXCEPT ![w] = "work",
                      ![Main] = IF Main \in notFull THEN "relock" ELSE @]
  /\ notFull' = {}

SignalOneOnly(l) ==
  LET one == IF notEmpty = {} THEN {} ELSE {CHOOSE w \in notEmpty : TRUE}
  IN  /\ pc' = [t \in Threads |-> IF t = Main THEN l
                                  ELSE IF t \in one THEN "relock" ELSE pc[t]]
      /\ notEmpty' = notEmpty \ one

\* pthread_cond_broadcast(&pool->not_empty) by the main thread, which goes
\* on at l.
BroadcastNotEmpty(l) ==
  /\ pc' = [t \in Threads |-> IF t = Main THEN l
                              ELSE IF t \in notEmpty THEN "relock" ELSE pc[t]]
  /\ notEmpty' = {}

---------------------------------------------------------------------------
(* thread_pool_init *)

InitSync ==          \* the mutex and both conditions are initialised
  /\ pc[Main] = "start"
  /\ Goto(Main, "create")
  /\ UNCHANGED <<ring, stop, mutex, notEmpty, notFull, task, history, spurious>>

InitSyncFails ==     \* one of them is not: the others are destroyed
  /\ pc[Main] = "start"
  /\ Goto(Main, "failed")
  /\ UNCHANGED <<ring, stop, mutex, notEmpty, notFull, task, history, spurious>>

CreateWorker(w) ==   \* the workers are created in the order of their index
  /\ pc[Main] = "create"
  /\ pc[w] = "none" /\ \A v \in 1 .. w - 1 : pc[v] # "none"
  /\ pc' = [pc EXCEPT ![w] = "lock",
                      ![Main] = IF w = NWorkers THEN "loop" ELSE "create"]
  /\ UNCHANGED <<ring, stop, mutex, notEmpty, notFull, task, history, spurious>>

CreateFails ==
  /\ pc[Main] = "create"
  /\ CreateMayFail
  /\ Goto(Main, "failStop")
  /\ UNCHANGED <<ring, stop, mutex, notEmpty, notFull, task, history, spurious>>

FailStop ==          \* pool->stop = 1, the mutex is not held
  /\ pc[Main] = "failStop"
  /\ stop' = 1
  /\ Goto(Main, "failBroadcast")
  /\ UNCHANGED <<ring, mutex, notEmpty, notFull, task, history, spurious>>

FailBroadcast ==     \* nobody waits on not_full yet: one broadcast matters
  /\ pc[Main] = "failBroadcast"
  /\ BroadcastNotEmpty("failJoin")
  /\ UNCHANGED <<ring, stop, mutex, notFull, task, history, spurious>>

FailDetached ==
  /\ pc[Main] = "failJoin"
  /\ Goto(Main, "failed")
  /\ UNCHANGED <<ring, stop, mutex, notEmpty, notFull, task, history, spurious>>

FailJoin ==          \* joins the workers it created, destroys, returns -1
  /\ pc[Main] = "failJoin"
  /\ \A w \in Workers : pc[w] \in {"none", "done"}
  /\ Goto(Main, "failed")
  /\ UNCHANGED <<ring, stop, mutex, notEmpty, notFull, task, history, spurious>>

---------------------------------------------------------------------------
(* main's event loop as the pool sees it: thread_pool_submit *)

SubmitLock ==        \* a new call, or the return from pthread_cond_wait
  /\ \/ pc[Main] = "loop" /\ submitted < MaxTasks
     \/ pc[Main] = "relock"
  /\ mutex = Free
  /\ mutex' = Main
  /\ Goto(Main, "check")
  /\ UNCHANGED <<ring, stop, notEmpty, notFull, task, history, spurious>>

SubmitWait ==
  /\ pc[Main] = "check"
  /\ stop = 0 /\ Full
  /\ notFull' = notFull \cup {Main}
  /\ mutex' = Free
  /\ Goto(Main, "full")
  /\ UNCHANGED <<ring, stop, notEmpty, task, history, spurious>>

SubmitPut ==
  /\ pc[Main] = "check"
  /\ stop = 0 /\ ~Full
  /\ Enqueue(submitted + 1)
  /\ submitted' = submitted + 1
  /\ SignalNotEmpty
  /\ mutex' = Free
  /\ UNCHANGED <<stop, notFull, task, taken, handled, spurious>>

---------------------------------------------------------------------------
(* thread_pool_destroy, called when epoll_wait fails and the loop ends *)

LeaveLoop ==
  /\ pc[Main] = "loop"
  /\ Goto(Main, "stopLock")
  /\ UNCHANGED <<ring, stop, mutex, notEmpty, notFull, task, history, spurious>>

DestroyLock ==
  /\ pc[Main] = "stopLock"
  /\ mutex = Free
  /\ mutex' = Main
  /\ Goto(Main, "stop")
  /\ UNCHANGED <<ring, stop, notEmpty, notFull, task, history, spurious>>

DestroyStop ==       \* stop = 1, both broadcasts, unlock
  /\ pc[Main] = "stop"
  /\ stop' = 1
  /\ BroadcastNotEmpty("join")
  /\ notFull' = {}
  /\ mutex' = Free
  /\ UNCHANGED <<ring, task, history, spurious>>

DestroyJoin ==       \* joins every worker, then destroys the primitives
  /\ pc[Main] = "join"
  /\ \A w \in Workers : pc[w] = "done"
  /\ Goto(Main, "end")
  /\ UNCHANGED <<ring, stop, mutex, notEmpty, notFull, task, history, spurious>>

---------------------------------------------------------------------------
(* worker_routine and thread_pool_take *)

TakeLock(w) ==       \* a new call, or the return from pthread_cond_wait
  /\ pc[w] \in {"lock", "relock"}
  /\ mutex = Free
  /\ mutex' = w
  /\ Goto(w, "check")
  /\ UNCHANGED <<ring, stop, notEmpty, notFull, task, history, spurious>>

TakeEmpty(w) ==      \* the loop predicate holds: the worker will wait
  /\ pc[w] = "check"
  /\ stop = 0 /\ count = 0
  /\ Goto(w, "wait")
  /\ UNCHANGED <<ring, stop, mutex, notEmpty, notFull, task, history, spurious>>

TakeWait(w) ==       \* pthread_cond_wait blocks and releases in one step
  /\ pc[w] = "wait"
  /\ notEmpty' = notEmpty \cup {w}
  /\ mutex' = Free
  /\ Goto(w, "waiting")
  /\ UNCHANGED <<ring, stop, notFull, task, history, spurious>>

TakeStoppedAtOnce(w) ==
  /\ pc[w] = "check"
  /\ stop = 1
  /\ mutex' = Free
  /\ Goto(w, "done")
  /\ UNCHANGED <<ring, stop, notEmpty, notFull, task, history, spurious>>

TakeStopped(w) ==    \* returns -1: the worker leaves its loop
  /\ pc[w] = "check"
  /\ stop = 1 /\ count = 0
  /\ mutex' = Free
  /\ Goto(w, "done")
  /\ UNCHANGED <<ring, stop, notEmpty, notFull, task, history, spurious>>

TakeItem(w) ==       \* the main thread, if it waits on not_full, is signalled
  /\ pc[w] = "check"
  /\ count # 0
  /\ Dequeue(w)
  /\ taken' = taken + 1
  /\ SignalNotFull(w)
  /\ mutex' = Free
  /\ UNCHANGED <<stop, notEmpty, submitted, handled, spurious>>

Process(w) ==        \* process_client_connection returns
  /\ pc[w] = "work"
  /\ handled' = handled \cup {task[w]}
  /\ task' = [task EXCEPT ![w] = None]
  /\ Goto(w, "lock")
  /\ UNCHANGED <<ring, stop, mutex, notEmpty, notFull, submitted, taken, spurious>>

\* POSIX lets pthread_cond_wait return without a signal.
SpuriousWakeup(t) ==
  /\ t \in notEmpty \cup notFull
  /\ spurious < MaxSpurious
  /\ spurious' = spurious + 1
  /\ notEmpty' = notEmpty \ {t}
  /\ notFull' = notFull \ {t}
  /\ Goto(t, "relock")
  /\ UNCHANGED <<ring, stop, mutex, task, history>>

\* The process has returned from main; it is the only legal end.
Finished ==
  /\ pc[Main] \in {"end", "failed"}
  /\ UNCHANGED vars

---------------------------------------------------------------------------
InitStep    == InitSync \/ InitSyncFails \/ CreateFails \/ FailStop
                 \/ FailBroadcast \/ FailJoin \/ \E w \in Workers : CreateWorker(w)
SubmitStep  == SubmitLock \/ SubmitWait \/ SubmitPut
DestroyStep == DestroyLock \/ DestroyStop \/ DestroyJoin
WorkerStep(w) == TakeLock(w) \/ TakeEmpty(w) \/ TakeWait(w) \/ TakeStopped(w)
                 \/ TakeItem(w) \/ Process(w)

Next ==
  \/ InitStep \/ SubmitStep \/ LeaveLoop \/ DestroyStep
  \/ \E w \in Workers : WorkerStep(w)
  \/ \E t \in Threads : SpuriousWakeup(t)
  \/ Finished

\* Every thread that can run is eventually run.  A call of submit and the
\* end of the event loop are events of the network and of the kernel: once a
\* call has begun it is finished, but none need begin.  Weak fairness is
\* enough for the mutex because tasks and spurious wakeups are bounded.
Fairness ==
  /\ WF_vars(InitStep)
  /\ WF_vars(pc[Main] # "loop" /\ SubmitStep)
  /\ WF_vars(DestroyStep)
  /\ \A w \in Workers : WF_vars(WorkerStep(w))

Spec     == Init /\ [][Next]_vars
FairSpec == Spec /\ Fairness

---------------------------------------------------------------------------
(* Properties *)

\* The type invariant; head, tail and count stay inside the ring.
TypeOK ==
  /\ queue \in [0 .. QueueSize - 1 -> Nat]
  /\ head \in 0 .. QueueSize - 1 /\ tail \in 0 .. QueueSize - 1
  /\ count \in 0 .. QueueSize
  /\ stop \in {0, 1}
  /\ mutex \in Threads \cup {Free}
  /\ notEmpty \subseteq Workers /\ notFull \subseteq {Main}
  /\ pc \in [Threads -> MainPC \cup WorkerPC]
  /\ pc[Main] \in MainPC /\ \A w \in Workers : pc[w] \in WorkerPC
  /\ task \in [Workers -> Nat]
  /\ submitted \in Nat /\ taken \in Nat /\ handled \subseteq Nat
  /\ spurious \in Nat

(* The i-th slot from head on, with the wrap-around. *)
Slot(i) == IF head + i < QueueSize THEN head + i ELSE head + i - QueueSize

\* The ring holds exactly the descriptors submitted and not yet taken, in
\* the order of submission: head, tail, count and the slots agree whatever
\* the interleaving of thread_pool_submit and thread_pool_take.
RingHoldsPending ==
  /\ submitted = taken + count
  /\ tail = Slot(count)
  /\ \A i \in 0 .. count - 1 : queue[Slot(i)] = taken + 1 + i

\* Every descriptor that left the ring is with exactly one worker or has
\* been processed, and never both: no descriptor is closed twice, none lost.
EachTaskOnce ==
  /\ {task[w] : w \in Workers} \ {None} = (1 .. taken) \ handled
  /\ \A v, w \in Workers : v # w /\ task[v] # None => task[v] # task[w]

\* Both: every descriptor accepted is in the ring, with a worker or processed.
TasksAccounted == RingHoldsPending /\ EachTaskOnce

\* A pending descriptor is never left to workers that all sleep on
\* not_empty, nor does main sleep on not_full beside a ring with room: no
\* signal of submit or take is lost.
NoLostWakeup ==
  /\ count > 0 => \E w \in Workers : pc[w] \in {"lock", "check", "relock", "work"}
  /\ Main \in notFull => count = QueueSize

\* main is the only submitter and sets stop after its loop, so the branch
\* of thread_pool_submit that returns -1 (and close(fd) in main) is dead:
\* no accepted connection is dropped unanswered on that path.
SubmitNeverRejected ==
  pc[Main] \in {"loop", "check", "full", "relock"} => stop = 0

\* When thread_pool_destroy has destroyed the primitives every submitted
\* descriptor has been processed, no thread holds the mutex or waits on a
\* condition, and none will touch them again.
DestroyedWhenDrained ==
  pc[Main] = "end" =>
    /\ handled = 1 .. submitted
    /\ mutex = Free /\ notEmpty = {} /\ notFull = {}
    /\ \A w \in Workers : pc[w] = "done"

\* The failure path of thread_pool_init returns only when no worker it
\* created can touch the destroyed mutex or condition.
FailedWhenQuiet ==
  pc[Main] = "failed" =>
    /\ mutex = Free /\ notEmpty = {}
    /\ \A w \in Workers : pc[w] \in {"none", "done"}

\* The pool is quiet whenever one of the functions that destroy it returns.
QuietWhenReturned == DestroyedWhenDrained /\ FailedWhenQuiet

\* thread_pool_destroy returns: every sleeping worker is woken, drains the
\* ring and exits, whatever it was doing when stop was set.
DestroyReturns == pc[Main] = "stopLock" ~> pc[Main] = "end"

\* A main thread blocked on a full ring gets its room.
SubmitReturns == pc[Main] = "full" ~> pc[Main] = "loop"

\* Neither call blocks main for ever.
CallsReturn == DestroyReturns /\ SubmitReturns

\* thread_pool_init returns when pthread_create fails (main then prints
\* "Failed to initialize thread pool" and exits).
InitFailureReturns == pc[Main] = "failStop" ~> pc[Main] = "failed"

\* The pool implements its abstract promise.
Abstract == INSTANCE TaskPool WITH
  Workers <- Workers, Capacity <- QueueSize, NoTask <- None,
  open <- stop = 0, accepted <- submitted, started <- taken,
  running <- task, finished <- handled

\* Whatever threads do at pthread level is acceptance, start in order,
\* finish or close of the abstract pool, or invisible; and accepted work is
\* eventually finished.
ImplementsTaskPool == Abstract!Spec

===========================================================================
