-------------------------- MODULE SharedCounters ---------------------------
(***************************************************************************)
(* cpp_language_learning/Thread_safe_counter.cpp and RAII_lock_wrapper.cpp *)
(* : threads add to shared counts and main joins them and compares.  The   *)
(* first counts with an atomic and, under std::lock_guard, with an int;    *)
(* the second pushes to a deque under lock_wrapper, and its push reports a *)
(* failed allocation with -1.  A count under a lock is read and written in *)
(* two steps, so that the lock has something to protect.                   *)
(***************************************************************************)
EXTENDS Naturals, FiniteSets

CONSTANTS
  Threads,
  Rounds,              \* incrementsPerThread, pushes_per_thread
  Programs,            \* \subseteq {"counter", "queue"}
  MaxFailures,         \* bound: allocations that fail
  Free                 \* a model value: nobody holds the mutex

\* What is assumed of the constants; the MC module that instantiates this one
\* has it checked.
CountersAssumption ==
  /\ IsFiniteSet(Threads) /\ Rounds \in Nat /\ MaxFailures \in Nat
  /\ Programs \subseteq {"counter", "queue"} /\ Free \notin Threads

VARIABLES
  program,
  atomic,              \* AtomicCounter::count_
  count,               \* MutexCounter::count_, or the size of q_
  mutex,               \* who holds mutex_
  copy,                \* what a thread has read of count
  pc,                  \* thread: next, lock, read, write, unlock, exit
  round,
  failures,            \* pushes that returned -1, which nobody looks at
  verdict              \* main: joining, passed, failed

counterVars == <<program, atomic, count, mutex, copy, pc, round, failures, verdict>>

Init ==
  /\ program \in Programs
  /\ atomic = 0 /\ count = 0 /\ mutex = Free
  /\ copy = [t \in Threads |-> 0]
  /\ pc = [t \in Threads |-> "next"]
  /\ round = [t \in Threads |-> 0]
  /\ failures = 0 /\ verdict = "joining"

Goto(t, l) == pc' = [pc EXCEPT ![t] = l]

\* The head of the loop; the counter's round begins with fetch_add.
Begin(t) ==
  /\ pc[t] = "next" /\ round[t] < Rounds
  /\ round' = [round EXCEPT ![t] = @ + 1]
  /\ atomic' = IF program = "counter" THEN atomic + 1 ELSE atomic
  /\ Goto(t, "lock")
  /\ UNCHANGED <<program, count, mutex, copy, failures, verdict>>

Exit(t) ==
  /\ pc[t] = "next" /\ round[t] = Rounds
  /\ Goto(t, "exit")
  /\ UNCHANGED <<program, atomic, count, mutex, copy, round, failures, verdict>>

\* The constructor of the guard.
NotWaiting == TRUE

CanLock == mutex = Free

Lock(t) ==
  /\ pc[t] = "lock" /\ CanLock
  /\ mutex' = t /\ Goto(t, "read")
  /\ UNCHANGED <<program, atomic, count, copy, round, failures, verdict>>

Read(t) ==
  /\ pc[t] = "read"
  /\ copy' = [copy EXCEPT ![t] = count]
  /\ Goto(t, "write")
  /\ UNCHANGED <<program, atomic, count, mutex, round, failures, verdict>>

Write(t) ==          \* push_back may throw, and then leaves the deque as it was
  /\ pc[t] = "write" /\ Goto(t, "unlock")
  /\ \/ count' = copy[t] + 1 /\ UNCHANGED failures
     \/ /\ program = "queue" /\ failures < MaxFailures
        /\ failures' = failures + 1 /\ UNCHANGED count
  /\ copy' = [copy EXCEPT ![t] = 0]
  /\ UNCHANGED <<program, atomic, mutex, round, verdict>>

\* The guard's destructor, on return and from the catch alike.
Unlock(t) ==
  /\ pc[t] = "unlock"
  /\ mutex' = Free /\ Goto(t, "next")
  /\ UNCHANGED <<program, atomic, count, copy, round, failures, verdict>>

\* Main joins every thread and compares; the first program prints both counts.
Expected == IF program = "counter" THEN atomic ELSE Cardinality(Threads) * Rounds

Compare ==
  /\ verdict = "joining" /\ \A t \in Threads : pc[t] = "exit"
  /\ verdict' = IF count = Expected THEN "passed" ELSE "failed"
  /\ UNCHANGED <<program, atomic, count, mutex, copy, pc, round, failures>>

Step(t) == Begin(t) \/ Exit(t) \/ Lock(t) \/ Read(t) \/ Write(t) \/ Unlock(t)

Next == Compare \/ \E t \in Threads : Step(t)

Spec == Init /\ [][Next]_counterVars

\* The threads run on.  The rounds are bounded, so a mutex reaches everyone.
Fairness == WF_counterVars(Compare) /\ \A t \in Threads : WF_counterVars(Step(t))

---------------------------------------------------------------------------
(* Properties *)

\* The type invariant.
TypeOK ==
  /\ program \in Programs
  /\ {atomic, count} \subseteq 0 .. Cardinality(Threads) * Rounds
  /\ mutex \in Threads \cup {Free}
  /\ copy \in [Threads -> Nat]
  /\ pc \in [Threads -> {"next", "lock", "read", "write", "unlock", "exit"}]
  /\ round \in [Threads -> 0 .. Rounds] /\ failures \in 0 .. MaxFailures
  /\ verdict \in {"joining", "passed", "failed"}

\* What main finds: no increment and no element was lost to another thread.  The
\* comment's "both counters end equal" (Thread_safe_counter.cpp:5) holds, and the
\* queue's demonstration fails only for a push that failed, at which its thread
\* did not look.
CountsRight ==
  /\ verdict # "joining" /\ (verdict = "passed" <=> failures = 0)
  /\ program = "counter" => atomic = Cardinality(Threads) * Rounds

\* Main compares in the end, and finds that.
NoLostUpdate == <>CountsRight

===========================================================================
