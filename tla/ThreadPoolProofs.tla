------------------------- MODULE ThreadPoolProofs -------------------------
(***************************************************************************)
(* Proofs about ThreadPool for every number of workers, ring size, number  *)
(* of tasks and number of spurious wakeups, with and without failures of   *)
(* pthread_create.                                                         *)
(*                                                                         *)
(* The inductive invariant IInv is TypeOK, the ring invariant and three    *)
(* groups of facts: Control ties the mutex, the wait sets and stop to      *)
(* where the threads are; Waits says what a thread that is about to sleep, *)
(* sleeps or has exited knows about the ring; Accounting says where every  *)
(* task that left the ring is.                                             *)
(***************************************************************************)
EXTENDS ThreadPool, TLAPS

InLoop   == {"loop", "check", "full", "relock", "stopLock", "stop"}
InInit   == {"start", "create", "failStop", "failBroadcast", "failJoin", "failed"}
Stopping == {"join", "end"}

Control ==
  /\ mutex = Main <=> pc[Main] \in {"check", "stop"}
  /\ \A w \in Workers : mutex = w <=> pc[w] \in {"check", "wait"}
  /\ \A w \in Workers : w \in notEmpty <=> pc[w] = "waiting"
  /\ Main \in notFull <=> pc[Main] = "full"
  /\ pc[Main] \in InLoop \cup {"start", "create", "failStop"} => stop = 0
  /\ pc[Main] \in Stopping \cup {"failBroadcast", "failJoin"} => stop = 1
  /\ pc[Main] \in InLoop \cup Stopping => \A w \in Workers : pc[w] # "none"
  /\ pc[Main] \in InInit => submitted = 0
  /\ pc[Main] = "start" => \A w \in Workers : pc[w] = "none"
  /\ pc[Main] \in Stopping => \A w \in Workers : pc[w] \notin {"wait", "waiting"}
  /\ pc[Main] = "end" => \A w \in Workers : pc[w] = "done"
  /\ pc[Main] = "failed" => \A w \in Workers : pc[w] \in {"none", "done"}

Waits ==
  /\ \A w \in Workers : pc[w] = "wait" => count = 0
  /\ \A w \in Workers : pc[w] = "done" => stop = 1 /\ count = 0
  /\ pc[Main] = "full" => count = QueueSize
  /\ count > 0 => \E w \in Workers : pc[w] # "waiting"

Accounting ==
  /\ handled \subseteq 1 .. taken
  /\ \A w \in Workers : task[w] # None <=> pc[w] = "work"
  /\ \A w \in Workers : task[w] # None => task[w] \in (1 .. taken) \ handled
  /\ \A k \in 1 .. taken : k \in handled \/ \E w \in Workers : task[w] = k
  /\ \A v, w \in Workers : v # w /\ task[v] # None => task[v] # task[w]

IInv == TypeOK /\ RingHoldsPending /\ Control /\ Waits /\ Accounting

---------------------------------------------------------------------------
(* A ring index advanced by one is the next slot, or the first. *)
LEMMA NextSlot ==
  ASSUME NEW Q \in Nat \ {0}, NEW a \in 0 .. Q - 1
  PROVE  (a + 1) % Q = IF a + 1 < Q THEN a + 1 ELSE 0
<1>1. CASE a + 1 < Q
  BY <1>1
<1>2. CASE a + 1 = Q
  BY <1>2
<1> QED BY <1>1, <1>2

---------------------------------------------------------------------------
(* Type correctness, one lemma for the main thread's actions, one for the  *)
(* workers'.                                                               *)

LEMMA InitTyped == Init => TypeOK
  BY ConstantsAssumption DEF ConstantsAssumption, Init, TypeOK, Threads, Workers, Main, Free, None,
     MainPC, WorkerPC

LEMMA MainTyped ==
  ASSUME TypeOK, InitStep \/ SubmitStep \/ LeaveLoop \/ DestroyStep
  PROVE  TypeOK'
<1> USE ConstantsAssumption DEF ConstantsAssumption, TypeOK, Threads, Workers,
        Main, Free, None, MainPC, WorkerPC, Goto, ring, history
<1>1. CASE InitSync
  BY <1>1 DEF InitSync
<1>2. CASE InitSyncFails
  BY <1>2 DEF InitSyncFails
<1>3. CASE CreateFails
  BY <1>3 DEF CreateFails
<1>4. CASE FailStop
  BY <1>4 DEF FailStop
<1>5. CASE FailJoin
  BY <1>5 DEF FailJoin
<1>6. CASE FailBroadcast
  <2>1. pc' \in [Threads -> MainPC \cup WorkerPC]
    BY <1>6 DEF FailBroadcast, BroadcastNotEmpty
  <2>2. pc'[Main] \in MainPC
    BY <1>6 DEF FailBroadcast, BroadcastNotEmpty
  <2>3. \A v \in Workers : pc'[v] \in WorkerPC
    BY <1>6 DEF FailBroadcast, BroadcastNotEmpty
  <2> QED
    BY <1>6, <2>1, <2>2, <2>3 DEF FailBroadcast, BroadcastNotEmpty
<1>7. ASSUME NEW w \in Workers, CreateWorker(w) PROVE TypeOK'
  <2>1. pc' \in [Threads -> MainPC \cup WorkerPC]
    BY <1>7 DEF CreateWorker
  <2>2. pc'[Main] \in MainPC
    BY <1>7 DEF CreateWorker
  <2>3. \A v \in Workers : pc'[v] \in WorkerPC
    BY <1>7 DEF CreateWorker
  <2> QED
    BY <1>7, <2>1, <2>2, <2>3 DEF CreateWorker
<1>8. CASE SubmitLock
  BY <1>8 DEF SubmitLock
<1>9. CASE SubmitWait
  BY <1>9 DEF SubmitWait, Full
<1>10. CASE SubmitPut
  <2>1. (tail + 1) % QueueSize \in 0 .. QueueSize - 1
    BY NextSlot
  <2>2. queue' \in [0 .. QueueSize - 1 -> Nat] /\ count' \in 0 .. QueueSize
    BY <1>10 DEF SubmitPut, Enqueue, Full
  <2>3. notEmpty' \subseteq Workers /\ pc' \in [Threads -> MainPC \cup WorkerPC]
    BY <1>10 DEF SubmitPut, SignalNotEmpty
  <2>4. pc'[Main] \in MainPC
    BY <1>10 DEF SubmitPut, SignalNotEmpty
  <2>5. \A v \in Workers : pc'[v] \in WorkerPC
    BY <1>10 DEF SubmitPut, SignalNotEmpty
  <2> QED
    BY <1>10, <2>1, <2>2, <2>3, <2>4, <2>5 DEF SubmitPut, Enqueue
<1>11. CASE LeaveLoop
  BY <1>11 DEF LeaveLoop
<1>12. CASE DestroyLock
  BY <1>12 DEF DestroyLock
<1>13. CASE DestroyJoin
  BY <1>13 DEF DestroyJoin
<1>14. CASE DestroyStop
  <2>1. pc' \in [Threads -> MainPC \cup WorkerPC]
    BY <1>14 DEF DestroyStop, BroadcastNotEmpty
  <2>2. pc'[Main] \in MainPC
    BY <1>14 DEF DestroyStop, BroadcastNotEmpty
  <2>3. \A v \in Workers : pc'[v] \in WorkerPC
    BY <1>14 DEF DestroyStop, BroadcastNotEmpty
  <2> QED
    BY <1>14, <2>1, <2>2, <2>3 DEF DestroyStop, BroadcastNotEmpty
<1> QED
  BY <1>1, <1>2, <1>3, <1>4, <1>5, <1>6, <1>7, <1>8, <1>9, <1>10, <1>11, <1>12, <1>13, <1>14
     DEF InitStep, SubmitStep, DestroyStep

LEMMA OtherTyped ==
  ASSUME TypeOK,
         \/ \E w \in Workers : WorkerStep(w)
         \/ \E t \in Threads : SpuriousWakeup(t)
  PROVE  TypeOK'
<1> USE ConstantsAssumption DEF ConstantsAssumption, TypeOK, Threads, Workers,
        Main, Free, None, MainPC, WorkerPC, Goto, ring, history
<1>1. ASSUME NEW w \in Workers, TakeLock(w) PROVE TypeOK'
  BY SMTT(30), <1>1 DEF TakeLock
<1>2. ASSUME NEW w \in Workers, TakeEmpty(w) PROVE TypeOK'
  BY SMTT(30), <1>2 DEF TakeEmpty
<1>3. ASSUME NEW w \in Workers, TakeWait(w) PROVE TypeOK'
  BY SMTT(30), <1>3 DEF TakeWait
<1>4. ASSUME NEW w \in Workers, TakeStopped(w) PROVE TypeOK'
  BY SMTT(30), <1>4 DEF TakeStopped
<1>5. ASSUME NEW w \in Workers, TakeItem(w) PROVE TypeOK'
  <2>1. (head + 1) % QueueSize \in 0 .. QueueSize - 1
    BY NextSlot
  <2>2. task' \in [Workers -> Nat] /\ count' \in 0 .. QueueSize
    BY <1>5 DEF TakeItem, Dequeue
  <2>3. notFull' \subseteq {Main} /\ pc' \in [Threads -> MainPC \cup WorkerPC]
    BY <1>5 DEF TakeItem, SignalNotFull
  <2>4. pc'[Main] \in MainPC
    BY <1>5 DEF TakeItem, SignalNotFull
  <2>5. \A v \in Workers : pc'[v] \in WorkerPC
    BY <1>5 DEF TakeItem, SignalNotFull
  <2> QED
    BY SMTT(30), <1>5, <2>1, <2>2, <2>3, <2>4, <2>5 DEF TakeItem, Dequeue
<1>6. ASSUME NEW w \in Workers, Process(w) PROVE TypeOK'
  <2>1. pc' \in [Threads -> MainPC \cup WorkerPC] /\ pc'[Main] \in MainPC
    BY <1>6 DEF Process
  <2>2. \A v \in Workers : pc'[v] \in WorkerPC
    BY <1>6 DEF Process
  <2>3. task' \in [Workers -> Nat] /\ handled' \subseteq Nat
    BY <1>6 DEF Process
  <2> QED
    BY <1>6, <2>1, <2>2, <2>3 DEF Process
<1>7. ASSUME NEW t \in Workers, SpuriousWakeup(t) PROVE TypeOK'
  BY SMTT(30), <1>7 DEF SpuriousWakeup
<1>8. ASSUME SpuriousWakeup(Main) PROVE TypeOK'
  BY SMTT(30), <1>8 DEF SpuriousWakeup
<1>9. Threads = {Main} \cup Workers
  OBVIOUS
<1> QED
  BY <1>1, <1>2, <1>3, <1>4, <1>5, <1>6, <1>7, <1>8, <1>9 DEF WorkerStep

LEMMA NextTyped == TypeOK /\ [Next]_vars => TypeOK'
<1>1. TypeOK /\ UNCHANGED vars => TypeOK'
  BY DEF TypeOK, vars
<1> QED
  BY <1>1, MainTyped, OtherTyped DEF Next, Finished

\* Every variable keeps its type: ring indices stay in the ring, count in
\* 0..TASK_QUEUE_SIZE, only workers wait on not_empty, only main on not_full.
THEOREM TypeCorrect == Spec => []TypeOK
  BY InitTyped, NextTyped, PTL DEF Spec

---------------------------------------------------------------------------
(* The invariant.  One lemma per group of facts; the interesting cases are *)
(* SubmitPut and TakeItem for the ring, TakeWait and the broadcasts for    *)
(* the wait sets, Process for the accounting.                              *)

LEMMA InitInv == Init => IInv
<1> SUFFICES ASSUME Init PROVE IInv
  OBVIOUS
<1> USE ConstantsAssumption DEF ConstantsAssumption, Init, Threads, Workers,
        Main, Free, None
<1>1. TypeOK
  BY InitTyped
<1>2. RingHoldsPending
  BY DEF RingHoldsPending, Slot
<1>3. Control
  BY DEF Control, InLoop, InInit, Stopping
<1>4. Waits
  BY DEF Waits
<1>5. Accounting
  BY DEF Accounting
<1> QED
  BY <1>1, <1>2, <1>3, <1>4, <1>5 DEF IInv

\* The actions that leave the ring, submitted and taken alone.
LEMMA RingUnchanged ==
  ASSUME RingHoldsPending, UNCHANGED <<queue, head, tail, count, submitted, taken>>
  PROVE  RingHoldsPending'
  BY DEF RingHoldsPending, Slot

LEMMA RingPut ==
  ASSUME TypeOK, RingHoldsPending, SubmitPut
  PROVE  RingHoldsPending'
<1> USE ConstantsAssumption DEF ConstantsAssumption, TypeOK, RingHoldsPending
<1>1. tail' = IF tail + 1 < QueueSize THEN tail + 1 ELSE 0
  BY NextSlot DEF SubmitPut, Enqueue
<1>2. /\ head' = head /\ count' = count + 1 /\ count < QueueSize
      /\ submitted' = submitted + 1 /\ taken' = taken
      /\ queue' = [queue EXCEPT ![tail] = submitted + 1]
  BY DEF SubmitPut, Enqueue, Full
<1>3. tail' = Slot(count)'
  BY <1>1, <1>2 DEF Slot
<1>4. ASSUME NEW i \in 0 .. count' - 1
      PROVE  queue'[Slot(i)'] = taken' + 1 + i
  <2>1. Slot(i)' = Slot(i) /\ Slot(i) \in 0 .. QueueSize - 1
    BY <1>2 DEF Slot
  <2>2. CASE i = count
    BY <1>2, <2>1, <2>2
  <2>3. CASE i < count
    <3>1. Slot(i) # tail
      BY <1>2, <2>3 DEF Slot
    <3> QED
      BY <1>2, <2>1, <2>3, <3>1
  <2> QED
    BY <1>2, <2>2, <2>3
<1> QED
  BY <1>2, <1>3, <1>4

LEMMA RingTake ==
  ASSUME TypeOK, RingHoldsPending, NEW w \in Workers, TakeItem(w)
  PROVE  RingHoldsPending' /\ task'[w] = taken'
<1> USE ConstantsAssumption DEF ConstantsAssumption, TypeOK, RingHoldsPending
<1>1. head' = IF head + 1 < QueueSize THEN head + 1 ELSE 0
  BY NextSlot DEF TakeItem, Dequeue
<1>2. /\ tail' = tail /\ count' = count - 1 /\ count > 0
      /\ submitted' = submitted /\ taken' = taken + 1
      /\ queue' = queue /\ task' = [task EXCEPT ![w] = queue[head]]
  BY DEF TakeItem, Dequeue
<1>3. \A i \in 0 .. count - 1 : Slot(i)' = Slot(i + 1)
  BY <1>1, <1>2 DEF Slot
<1>4. queue[head] = taken + 1
  <2>1. Slot(0) = head /\ 0 \in 0 .. count - 1
    BY <1>2 DEF Slot
  <2>2. queue[Slot(0)] = taken + 1 + 0
    BY <2>1
  <2> QED
    BY <2>1, <2>2
<1>5. tail' = Slot(count)'
  BY <1>1, <1>2 DEF Slot
<1>6. ASSUME NEW i \in 0 .. count' - 1
      PROVE  queue'[Slot(i)'] = taken' + 1 + i
  <2>1. i \in 0 .. count - 1 /\ i + 1 \in 0 .. count - 1
    BY <1>2
  <2>2. queue[Slot(i + 1)] = taken + 1 + (i + 1)
    BY <2>1
  <2>3. queue'[Slot(i)'] = queue[Slot(i + 1)]
    BY <1>2, <1>3, <2>1
  <2>4. taken' + 1 + i = taken + 1 + (i + 1)
    BY <1>2, <2>1
  <2> QED
    BY <2>2, <2>3, <2>4
<1>7. submitted' = taken' + count' /\ task'[w] = taken'
  BY <1>2, <1>4
<1> QED
  BY <1>5, <1>6, <1>7

LEMMA RingStep ==
  ASSUME TypeOK, RingHoldsPending, [Next]_vars
  PROVE  RingHoldsPending'
<1>1. CASE SubmitPut
  BY <1>1, RingPut
<1>2. ASSUME NEW w \in Workers, TakeItem(w) PROVE RingHoldsPending'
  BY <1>2, RingTake
<1>3. CASE UNCHANGED <<queue, head, tail, count, submitted, taken>>
  BY <1>3, RingUnchanged
<1>4. \/ SubmitPut
      \/ \E w \in Workers : TakeItem(w)
      \/ UNCHANGED <<queue, head, tail, count, submitted, taken>>
  BY DEF Next, vars, Finished, InitStep, SubmitStep, DestroyStep, WorkerStep,
         InitSync, InitSyncFails, CreateFails, FailStop, FailBroadcast, FailJoin,
         CreateWorker, SubmitLock, SubmitWait, LeaveLoop, DestroyLock,
         DestroyStop, DestroyJoin, TakeLock, TakeEmpty, TakeWait, TakeStopped,
         Process, SpuriousWakeup, ring, history
<1> QED
  BY <1>1, <1>2, <1>3, <1>4

LEMMA ControlStep ==
  ASSUME TypeOK, Control, [Next]_vars
  PROVE  Control'
<1> USE ConstantsAssumption DEF ConstantsAssumption, TypeOK, Threads, Workers, Main,
        Free, None, Goto, ring, history, Control, InLoop, InInit, Stopping
<1>1. CASE InitSync
  BY <1>1 DEF InitSync
<1>2. CASE InitSyncFails
  BY <1>2 DEF InitSyncFails
<1>3. CASE CreateFails
  BY <1>3 DEF CreateFails
<1>4. CASE FailStop
  BY <1>4 DEF FailStop
<1>5. CASE FailBroadcast
  BY <1>5 DEF FailBroadcast, BroadcastNotEmpty
<1>6. CASE FailJoin
  BY <1>6 DEF FailJoin
<1>7. ASSUME NEW w \in Workers, CreateWorker(w) PROVE Control'
  <2>1. /\ pc'[Main] = IF w = NWorkers THEN "loop" ELSE "create"
        /\ pc'[w] = "lock" /\ pc[w] = "none" /\ pc[Main] = "create"
        /\ \A v \in Workers \ {w} : pc'[v] = pc[v]
    BY <1>7 DEF CreateWorker
  <2>2. ASSUME pc'[Main] = "loop", NEW v \in Workers
        PROVE  pc'[v] # "none"
    <3>1. w = NWorkers /\ \A u \in 1 .. w - 1 : pc[u] # "none"
      BY <1>7, <2>1, <2>2 DEF CreateWorker
    <3> QED
      BY <2>1, <3>1
  <2>3. UNCHANGED <<stop, mutex, notEmpty, notFull, submitted>>
    BY <1>7 DEF CreateWorker
  <2> QED
    BY <2>1, <2>2, <2>3
<1>8. CASE SubmitLock
  BY <1>8 DEF SubmitLock
<1>9. CASE SubmitWait
  BY <1>9 DEF SubmitWait, Full
<1>10. CASE SubmitPut
  <2>1. /\ pc[Main] = "check" /\ stop = 0 /\ stop' = 0
        /\ mutex = Main /\ mutex' = Free /\ notFull' = notFull
    BY <1>10 DEF SubmitPut, Enqueue, SignalNotEmpty, Full
  <2>2. CASE notEmpty = {}
    <3>1. pc' = [pc EXCEPT ![Main] = "loop"] /\ notEmpty' = {}
      BY <1>10, <2>2 DEF SubmitPut, Enqueue, SignalNotEmpty, Full
    <3>2. pc'[Main] = "loop" /\ \A v \in Workers : pc'[v] = pc[v]
      BY <3>1
    <3> QED
      BY <2>1, <2>2, <3>1, <3>2
  <2>3. ASSUME NEW w \in notEmpty,
               pc' = [pc EXCEPT ![w] = "relock", ![Main] = "loop"],
               notEmpty' = notEmpty \ {w}
        PROVE  Control'
    <3>1. /\ w \in Workers /\ pc'[Main] = "loop" /\ pc'[w] = "relock"
          /\ \A v \in Workers \ {w} : pc'[v] = pc[v]
      BY <2>3
    <3> QED
      BY <2>1, <2>3, <3>1
  <2> QED
    BY <1>10, <2>2, <2>3 DEF SubmitPut, Enqueue, SignalNotEmpty, Full
<1>11. CASE LeaveLoop
  BY <1>11 DEF LeaveLoop
<1>12. CASE DestroyLock
  BY <1>12 DEF DestroyLock
<1>13. CASE DestroyStop
  BY <1>13 DEF DestroyStop, BroadcastNotEmpty
<1>14. CASE DestroyJoin
  BY <1>14 DEF DestroyJoin
<1>15. ASSUME NEW w \in Workers, TakeLock(w) PROVE Control'
  BY SMTT(30), <1>15 DEF TakeLock
<1>16. ASSUME NEW w \in Workers, TakeEmpty(w) PROVE Control'
  <2>1. /\ pc[w] = "check" /\ pc'[w] = "wait" /\ pc'[Main] = pc[Main]
        /\ \A v \in Workers \ {w} : pc'[v] = pc[v]
    BY <1>16 DEF TakeEmpty
  <2>2. stop = 0 /\ UNCHANGED <<stop, mutex, notEmpty, notFull, submitted>>
    BY <1>16 DEF TakeEmpty
  <2>3. pc[Main] \notin Stopping
    BY <2>2
  <2>4. pc[Main] # "failed"
    BY <2>1
  <2> QED
    BY <2>1, <2>2, <2>3, <2>4
<1>17. ASSUME NEW w \in Workers, TakeWait(w) PROVE Control'
  BY SMTT(30), <1>17 DEF TakeWait
<1>18. ASSUME NEW w \in Workers, TakeStopped(w) PROVE Control'
  BY SMTT(30), <1>18 DEF TakeStopped
<1>19. ASSUME NEW w \in Workers, TakeItem(w) PROVE Control'
  <2>1. /\ pc[w] = "check" /\ pc'[w] = "work" /\ mutex = w /\ mutex' = Free
        /\ pc'[Main] = IF Main \in notFull THEN "relock" ELSE pc[Main]
        /\ \A v \in Workers \ {w} : pc'[v] = pc[v]
    BY <1>19 DEF TakeItem, Dequeue, SignalNotFull
  <2>2. notFull' = {} /\ UNCHANGED <<stop, notEmpty, submitted>>
    BY <1>19 DEF TakeItem, Dequeue, SignalNotFull
  <2>3. \A v \in Workers : pc'[v] \notin {"check", "wait"}
    BY <2>1
  <2>4. pc[Main] \notin {"check", "stop", "start", "end", "failed"}
    BY <2>1
  <2>5. \A v \in Workers : /\ v \in notEmpty <=> pc'[v] = "waiting"
                          /\ pc'[v] = "none" <=> pc[v] = "none"
    BY <2>1
  <2>6. /\ pc'[Main] \notin {"check", "stop", "start", "end", "failed", "full"}
        /\ pc'[Main] = pc[Main] \/ (pc[Main] = "full" /\ pc'[Main] = "relock")
    BY <2>1, <2>4
  <2>7. /\ pc'[Main] \in InLoop \cup {"start", "create", "failStop"} => stop' = 0
        /\ pc'[Main] \in Stopping \cup {"failBroadcast", "failJoin"} => stop' = 1
        /\ pc'[Main] \in InInit => submitted' = 0
    BY <2>2, <2>6
  <2>8. /\ pc'[Main] \in InLoop \cup Stopping => \A v \in Workers : pc'[v] # "none"
        /\ pc'[Main] \in Stopping => \A v \in Workers : pc'[v] \notin {"wait", "waiting"}
    BY <2>1, <2>5, <2>6
  <2> QED
    BY <2>1, <2>2, <2>3, <2>5, <2>6, <2>7, <2>8
<1>20. ASSUME NEW w \in Workers, Process(w) PROVE Control'
  BY SMTT(30), <1>20 DEF Process
<1>21. ASSUME NEW w \in Workers, SpuriousWakeup(w) PROVE Control'
  BY SMTT(30), <1>21 DEF SpuriousWakeup
<1>22. CASE SpuriousWakeup(Main)
  BY <1>22 DEF SpuriousWakeup
<1>23. CASE UNCHANGED vars
  BY <1>23 DEF vars
<1> QED
  BY <1>1, <1>2, <1>3, <1>4, <1>5, <1>6, <1>7, <1>8, <1>9, <1>10, <1>11, <1>12,
     <1>13, <1>14, <1>15, <1>16, <1>17, <1>18, <1>19, <1>20, <1>21, <1>22, <1>23
     DEF Next, Finished, InitStep, SubmitStep, DestroyStep, WorkerStep

LEMMA WaitsStep ==
  ASSUME TypeOK, Control, Waits, submitted = taken + count, [Next]_vars
  PROVE  Waits'
<1> USE ConstantsAssumption DEF ConstantsAssumption, TypeOK, Threads, Workers, Main,
        Free, None, Goto, ring, history, Waits, Control, InLoop, InInit, Stopping
<1>1. CASE InitSync
  BY <1>1 DEF InitSync
<1>2. CASE InitSyncFails
  BY <1>2 DEF InitSyncFails
<1>3. CASE CreateFails
  BY <1>3 DEF CreateFails
<1>4. CASE FailStop
  BY <1>4 DEF FailStop
<1>5. CASE FailBroadcast
  BY <1>5 DEF FailBroadcast, BroadcastNotEmpty
<1>6. CASE FailJoin
  BY <1>6 DEF FailJoin
<1>7. ASSUME NEW w \in Workers, CreateWorker(w) PROVE Waits'
  BY <1>7 DEF CreateWorker
<1>8. CASE SubmitLock
  BY <1>8 DEF SubmitLock
<1>9. CASE SubmitWait
  BY <1>9 DEF SubmitWait, Full
<1>10. CASE SubmitPut
  <2>1. /\ pc[Main] = "check" /\ stop = 0 /\ mutex = Main
        /\ \A v \in Workers : pc[v] \notin {"wait", "done"}
    BY <1>10 DEF SubmitPut, Enqueue, SignalNotEmpty, Full
  <2>2. stop' = stop /\ count' = count + 1 /\ count' \in 1 .. QueueSize
    BY <1>10 DEF SubmitPut, Enqueue, SignalNotEmpty, Full
  <2>3. CASE notEmpty = {}
    <3>1. /\ pc'[Main] = "loop" /\ \A v \in Workers : pc'[v] = pc[v]
      BY <1>10, <2>3 DEF SubmitPut, Enqueue, SignalNotEmpty, Full
    <3>2. 1 \in Workers /\ pc'[1] # "waiting"
      BY <2>3, <3>1
    <3> QED
      BY <2>1, <2>2, <3>1, <3>2
  <2>4. ASSUME NEW w \in notEmpty,
               pc' = [pc EXCEPT ![w] = "relock", ![Main] = "loop"]
        PROVE  Waits'
    <3>1. /\ w \in Workers /\ pc'[Main] = "loop" /\ pc'[w] = "relock"
          /\ \A v \in Workers \ {w} : pc'[v] = pc[v]
      BY <2>4
    <3> QED
      BY <2>1, <2>2, <3>1
  <2> QED
    BY <1>10, <2>3, <2>4 DEF SubmitPut, Enqueue, SignalNotEmpty, Full
<1>11. CASE LeaveLoop
  BY <1>11 DEF LeaveLoop
<1>12. CASE DestroyLock
  BY <1>12 DEF DestroyLock
<1>13. CASE DestroyStop
  BY <1>13 DEF DestroyStop, BroadcastNotEmpty
<1>14. CASE DestroyJoin
  BY <1>14 DEF DestroyJoin
<1>15. ASSUME NEW w \in Workers, TakeLock(w) PROVE Waits'
  BY <1>15 DEF TakeLock
<1>16. ASSUME NEW w \in Workers, TakeEmpty(w) PROVE Waits'
  BY <1>16 DEF TakeEmpty
<1>17. ASSUME NEW w \in Workers, TakeWait(w) PROVE Waits'
  BY <1>17 DEF TakeWait
<1>18. ASSUME NEW w \in Workers, TakeStopped(w) PROVE Waits'
  BY <1>18 DEF TakeStopped
<1>19. ASSUME NEW w \in Workers, TakeItem(w) PROVE Waits'
  BY <1>19 DEF TakeItem, Dequeue, SignalNotFull
<1>20. ASSUME NEW w \in Workers, Process(w) PROVE Waits'
  BY <1>20 DEF Process
<1>21. ASSUME NEW w \in Workers, SpuriousWakeup(w) PROVE Waits'
  BY <1>21 DEF SpuriousWakeup
<1>22. CASE SpuriousWakeup(Main)
  BY <1>22 DEF SpuriousWakeup
<1>23. CASE UNCHANGED vars
  BY <1>23 DEF vars
<1> QED
  BY <1>1, <1>2, <1>3, <1>4, <1>5, <1>6, <1>7, <1>8, <1>9, <1>10, <1>11, <1>12,
     <1>13, <1>14, <1>15, <1>16, <1>17, <1>18, <1>19, <1>20, <1>21, <1>22, <1>23
     DEF Next, Finished, InitStep, SubmitStep, DestroyStep, WorkerStep

\* A step that moves no task and nobody into or out of "work".
LEMMA AccountingUnchanged ==
  ASSUME Accounting, UNCHANGED <<task, taken, handled>>,
         \A w \in Workers : pc'[w] = "work" <=> pc[w] = "work"
  PROVE  Accounting'
  BY DEF Accounting

LEMMA AccountingStep ==
  ASSUME TypeOK, Control, RingHoldsPending, Accounting, [Next]_vars
  PROVE  Accounting'
<1> USE ConstantsAssumption DEF ConstantsAssumption, TypeOK, Threads, Workers, Main,
        Free, None, Goto, ring, history
<1>1. CASE InitSync
  <2>1. UNCHANGED <<task, taken, handled>>
    BY <1>1 DEF InitSync
  <2>2. \A v \in Workers : pc'[v] = "work" <=> pc[v] = "work"
    BY <1>1 DEF InitSync
  <2> QED
    BY <2>1, <2>2, AccountingUnchanged
<1>2. CASE InitSyncFails
  <2>1. UNCHANGED <<task, taken, handled>>
    BY <1>2 DEF InitSyncFails
  <2>2. \A v \in Workers : pc'[v] = "work" <=> pc[v] = "work"
    BY <1>2 DEF InitSyncFails
  <2> QED
    BY <2>1, <2>2, AccountingUnchanged
<1>3. CASE CreateFails
  <2>1. UNCHANGED <<task, taken, handled>>
    BY <1>3 DEF CreateFails
  <2>2. \A v \in Workers : pc'[v] = "work" <=> pc[v] = "work"
    BY <1>3 DEF CreateFails
  <2> QED
    BY <2>1, <2>2, AccountingUnchanged
<1>4. CASE FailStop
  <2>1. UNCHANGED <<task, taken, handled>>
    BY <1>4 DEF FailStop
  <2>2. \A v \in Workers : pc'[v] = "work" <=> pc[v] = "work"
    BY <1>4 DEF FailStop
  <2> QED
    BY <2>1, <2>2, AccountingUnchanged
<1>5. CASE FailBroadcast
  <2>1. UNCHANGED <<task, taken, handled>>
    BY <1>5 DEF FailBroadcast, BroadcastNotEmpty
  <2>2. \A v \in Workers : pc'[v] = "work" <=> pc[v] = "work"
    BY <1>5 DEF FailBroadcast, BroadcastNotEmpty, Control
  <2> QED
    BY <2>1, <2>2, AccountingUnchanged
<1>6. CASE FailJoin
  <2>1. UNCHANGED <<task, taken, handled>>
    BY <1>6 DEF FailJoin
  <2>2. \A v \in Workers : pc'[v] = "work" <=> pc[v] = "work"
    BY <1>6 DEF FailJoin
  <2> QED
    BY <2>1, <2>2, AccountingUnchanged
<1>7. ASSUME NEW w \in Workers, CreateWorker(w) PROVE Accounting'
  <2>1. UNCHANGED <<task, taken, handled>>
    BY <1>7 DEF CreateWorker
  <2>2. \A v \in Workers : pc'[v] = "work" <=> pc[v] = "work"
    BY <1>7 DEF CreateWorker
  <2> QED
    BY <2>1, <2>2, AccountingUnchanged
<1>8. CASE SubmitLock
  <2>1. UNCHANGED <<task, taken, handled>>
    BY <1>8 DEF SubmitLock
  <2>2. \A v \in Workers : pc'[v] = "work" <=> pc[v] = "work"
    BY <1>8 DEF SubmitLock
  <2> QED
    BY <2>1, <2>2, AccountingUnchanged
<1>9. CASE SubmitWait
  <2>1. UNCHANGED <<task, taken, handled>>
    BY <1>9 DEF SubmitWait, Full
  <2>2. \A v \in Workers : pc'[v] = "work" <=> pc[v] = "work"
    BY <1>9 DEF SubmitWait, Full
  <2> QED
    BY <2>1, <2>2, AccountingUnchanged
<1>10. CASE SubmitPut
  <2>1. UNCHANGED <<task, taken, handled>>
    BY <1>10 DEF SubmitPut, Enqueue, SignalNotEmpty, Full
  <2>2. ASSUME NEW v \in Workers PROVE pc'[v] = "work" <=> pc[v] = "work"
    <3>1. CASE notEmpty = {}
      BY <1>10, <3>1 DEF SubmitPut, SignalNotEmpty
    <3>2. ASSUME NEW w \in notEmpty, pc' = [pc EXCEPT ![w] = "relock", ![Main] = "loop"]
          PROVE  pc'[v] = "work" <=> pc[v] = "work"
      <4>1. w = v => pc[v] = "waiting"
        BY DEF Control
      <4> QED
        BY <3>2, <4>1
    <3> QED
      BY <1>10, <3>1, <3>2 DEF SubmitPut, SignalNotEmpty
  <2> QED
    BY <2>1, <2>2, AccountingUnchanged
<1>11. CASE LeaveLoop
  <2>1. UNCHANGED <<task, taken, handled>>
    BY <1>11 DEF LeaveLoop
  <2>2. \A v \in Workers : pc'[v] = "work" <=> pc[v] = "work"
    BY <1>11 DEF LeaveLoop
  <2> QED
    BY <2>1, <2>2, AccountingUnchanged
<1>12. CASE DestroyLock
  <2>1. UNCHANGED <<task, taken, handled>>
    BY <1>12 DEF DestroyLock
  <2>2. \A v \in Workers : pc'[v] = "work" <=> pc[v] = "work"
    BY <1>12 DEF DestroyLock
  <2> QED
    BY <2>1, <2>2, AccountingUnchanged
<1>13. CASE DestroyStop
  <2>1. UNCHANGED <<task, taken, handled>>
    BY <1>13 DEF DestroyStop, BroadcastNotEmpty
  <2>2. \A v \in Workers : pc'[v] = "work" <=> pc[v] = "work"
    BY <1>13 DEF DestroyStop, BroadcastNotEmpty, Control
  <2> QED
    BY <2>1, <2>2, AccountingUnchanged
<1>14. CASE DestroyJoin
  <2>1. UNCHANGED <<task, taken, handled>>
    BY <1>14 DEF DestroyJoin
  <2>2. \A v \in Workers : pc'[v] = "work" <=> pc[v] = "work"
    BY <1>14 DEF DestroyJoin
  <2> QED
    BY <2>1, <2>2, AccountingUnchanged
<1>15. ASSUME NEW w \in Workers, TakeLock(w) PROVE Accounting'
  <2>1. UNCHANGED <<task, taken, handled>>
    BY <1>15 DEF TakeLock
  <2>2. \A v \in Workers : pc'[v] = "work" <=> pc[v] = "work"
    BY <1>15 DEF TakeLock
  <2> QED
    BY <2>1, <2>2, AccountingUnchanged
<1>16. ASSUME NEW w \in Workers, TakeEmpty(w) PROVE Accounting'
  <2>1. UNCHANGED <<task, taken, handled>>
    BY <1>16 DEF TakeEmpty
  <2>2. \A v \in Workers : pc'[v] = "work" <=> pc[v] = "work"
    BY <1>16 DEF TakeEmpty
  <2> QED
    BY <2>1, <2>2, AccountingUnchanged
<1>17. ASSUME NEW w \in Workers, TakeWait(w) PROVE Accounting'
  <2>1. UNCHANGED <<task, taken, handled>>
    BY <1>17 DEF TakeWait
  <2>2. \A v \in Workers : pc'[v] = "work" <=> pc[v] = "work"
    BY <1>17 DEF TakeWait
  <2> QED
    BY <2>1, <2>2, AccountingUnchanged
<1>18. ASSUME NEW w \in Workers, TakeStopped(w) PROVE Accounting'
  <2>1. UNCHANGED <<task, taken, handled>>
    BY <1>18 DEF TakeStopped
  <2>2. \A v \in Workers : pc'[v] = "work" <=> pc[v] = "work"
    BY <1>18 DEF TakeStopped
  <2> QED
    BY <2>1, <2>2, AccountingUnchanged
<1>19. ASSUME NEW w \in Workers, TakeItem(w) PROVE Accounting'
  <2>1. task'[w] = taken' /\ taken' = taken + 1 /\ handled' = handled
    BY <1>19, RingTake DEF TakeItem, Dequeue, SignalNotFull
  <2>2. /\ pc[w] = "check" /\ task[w] = None /\ pc'[w] = "work"
        /\ \A v \in Workers \ {w} : pc'[v] = pc[v] /\ task'[v] = task[v]
    BY <1>19 DEF TakeItem, Dequeue, SignalNotFull, Accounting
  <2>3. \A v \in Workers : task[v] \in 0 .. taken /\ task[v] \notin handled \ {0}
    BY DEF Accounting
  <2>4. handled' \subseteq 1 .. taken' /\ taken' \notin handled
    BY <2>1 DEF Accounting
  <2>5. ASSUME NEW v \in Workers
        PROVE  task'[v] # None <=> pc'[v] = "work"
    <3>1. CASE v = w
      BY <2>1, <2>2, <3>1
    <3>2. CASE v # w
      BY <2>2, <3>2 DEF Accounting
    <3> QED
      BY <3>1, <3>2
  <2>6. ASSUME NEW v \in Workers, task'[v] # None
        PROVE  task'[v] \in (1 .. taken') \ handled'
    <3>1. CASE v = w
      BY <2>1, <2>4, <3>1
    <3>2. CASE v # w
      BY <2>1, <2>2, <2>3, <2>6, <3>2
    <3> QED
      BY <3>1, <3>2
  <2>7. ASSUME NEW k \in 1 .. taken', k \notin handled'
        PROVE  \E v \in Workers : task'[v] = k
    <3>1. CASE k = taken'
      BY <2>1, <3>1
    <3>2. CASE k # taken'
      <4>1. PICK v \in Workers : task[v] = k
        BY <2>1, <2>7, <3>2 DEF Accounting
      <4>2. v # w
        BY <2>2, <2>7, <4>1
      <4> QED
        BY <2>2, <4>1, <4>2
    <3> QED
      BY <3>1, <3>2
  <2>8. ASSUME NEW u \in Workers, NEW v \in Workers, u # v, task'[u] # None
        PROVE  task'[u] # task'[v]
    <3>1. CASE u = w
      BY <2>1, <2>2, <2>3, <2>8, <3>1
    <3>2. CASE v = w
      BY <2>1, <2>2, <2>3, <2>8, <3>2
    <3>3. CASE u # w /\ v # w
      BY <2>2, <2>8, <3>3 DEF Accounting
    <3> QED
      BY <3>1, <3>2, <3>3
  <2> QED
    BY <2>4, <2>5, <2>6, <2>7, <2>8 DEF Accounting
<1>20. ASSUME NEW w \in Workers, Process(w) PROVE Accounting'
  <2>1. /\ pc[w] = "work" /\ task[w] # None /\ pc'[w] = "lock" /\ task'[w] = None
        /\ \A v \in Workers \ {w} : pc'[v] = pc[v] /\ task'[v] = task[v]
    BY <1>20 DEF Process, Accounting
  <2>2. taken' = taken /\ handled' = handled \cup {task[w]}
    BY <1>20 DEF Process
  <2>3. task[w] \in (1 .. taken) \ handled
    BY <2>1 DEF Accounting
  <2>4. handled' \subseteq 1 .. taken'
    BY <2>2, <2>3 DEF Accounting
  <2>5. \A v \in Workers : task'[v] # None <=> pc'[v] = "work"
    BY <2>1 DEF Accounting
  <2>6. ASSUME NEW v \in Workers, task'[v] # None
        PROVE  task'[v] \in (1 .. taken') \ handled'
    <3>1. v # w /\ task'[v] = task[v] /\ task[v] # task[w]
      BY <2>1, <2>6 DEF Accounting
    <3>2. task[v] \in (1 .. taken) \ handled
      BY <2>6, <3>1 DEF Accounting
    <3> QED
      BY <2>2, <3>1, <3>2
  <2>7. ASSUME NEW k \in 1 .. taken', k \notin handled'
        PROVE  \E v \in Workers : task'[v] = k
    <3>1. k \in 1 .. taken /\ k \notin handled /\ k # task[w]
      BY <2>2, <2>7
    <3>2. PICK v \in Workers : task[v] = k
      BY <3>1 DEF Accounting
    <3> QED
      BY <2>1, <3>1, <3>2
  <2>8. ASSUME NEW u \in Workers, NEW v \in Workers, u # v, task'[u] # None
        PROVE  task'[u] # task'[v]
    <3>1. u # w /\ task'[u] = task[u]
      BY <2>1, <2>8
    <3>2. CASE v = w
      BY <2>1, <2>8, <3>2
    <3>3. CASE v # w
      BY <2>1, <2>8, <3>1, <3>3 DEF Accounting
    <3> QED
      BY <3>2, <3>3
  <2> QED
    BY <2>4, <2>5, <2>6, <2>7, <2>8 DEF Accounting
<1>21. ASSUME NEW w \in Workers, SpuriousWakeup(w) PROVE Accounting'
  <2>1. UNCHANGED <<task, taken, handled>>
    BY <1>21 DEF SpuriousWakeup
  <2>2. \A v \in Workers : pc'[v] = "work" <=> pc[v] = "work"
    BY <1>21 DEF SpuriousWakeup, Control
  <2> QED
    BY <2>1, <2>2, AccountingUnchanged
<1>22. CASE SpuriousWakeup(Main)
  <2>1. UNCHANGED <<task, taken, handled>>
    BY <1>22 DEF SpuriousWakeup
  <2>2. \A v \in Workers : pc'[v] = "work" <=> pc[v] = "work"
    BY <1>22 DEF SpuriousWakeup
  <2> QED
    BY <2>1, <2>2, AccountingUnchanged
<1>23. CASE UNCHANGED vars
  BY <1>23, AccountingUnchanged DEF vars
<1> QED
  BY <1>1, <1>2, <1>3, <1>4, <1>5, <1>6, <1>7, <1>8, <1>9, <1>10, <1>11, <1>12,
     <1>13, <1>14, <1>15, <1>16, <1>17, <1>18, <1>19, <1>20, <1>21, <1>22, <1>23
     DEF Next, Finished, InitStep, SubmitStep, DestroyStep, WorkerStep

---------------------------------------------------------------------------
(* The results *)

LEMMA InvStep == IInv /\ [Next]_vars => IInv'
<1> SUFFICES ASSUME IInv, [Next]_vars PROVE IInv'
  OBVIOUS
<1>1. submitted = taken + count
  BY DEF IInv, RingHoldsPending
<1> QED
  BY <1>1, NextTyped, RingStep, ControlStep, WaitsStep, AccountingStep DEF IInv

\* IInv holds in every reachable state, whatever the interleaving, with and
\* without failures of pthread_create.
THEOREM Invariance == Spec => []IInv
  BY InitInv, InvStep, PTL DEF Spec

\* The ring holds exactly the pending descriptors in submission order.
THEOREM RingCorrect == Spec => []RingHoldsPending
<1>1. IInv => RingHoldsPending
  BY DEF IInv
<1> QED
  BY <1>1, Invariance, PTL

\* Each descriptor that left the ring is with exactly one worker or has been
\* processed.
THEOREM ExactlyOnce == Spec => []EachTaskOnce
<1>1. IInv => EachTaskOnce
  <2> SUFFICES ASSUME IInv PROVE EachTaskOnce
    OBVIOUS
  <2> USE DEF IInv, Accounting, None
  <2>1. {task[w] : w \in Workers} \ {None} \subseteq (1 .. taken) \ handled
    OBVIOUS
  <2>2. (1 .. taken) \ handled \subseteq {task[w] : w \in Workers} \ {None}
    OBVIOUS
  <2> QED
    BY <2>1, <2>2 DEF EachTaskOnce
<1> QED
  BY <1>1, Invariance, PTL

\* Every task accepted is accounted for, in the ring or out of it.
THEOREM TasksCorrect == Spec => []TasksAccounted
BY RingCorrect, ExactlyOnce, PTL DEF TasksAccounted

\* No wakeup is lost: a pending descriptor has a worker that is awake, and
\* main sleeps on not_full only while the ring is full.
THEOREM WakeupsKept == Spec => []NoLostWakeup
<1>1. IInv => NoLostWakeup
  <2> SUFFICES ASSUME IInv PROVE NoLostWakeup
    OBVIOUS
  <2> USE DEF IInv, TypeOK
  <2>1. ASSUME count > 0
        PROVE  \E w \in Workers : pc[w] \in {"lock", "check", "relock", "work"}
    <3>1. PICK w \in Workers : pc[w] # "waiting"
      BY <2>1 DEF Waits
    <3>2. pc[w] \notin {"wait", "done"}
      BY <2>1 DEF Waits
    <3>3. pc[w] # "none"
      <4>1. submitted # 0
        BY <2>1 DEF RingHoldsPending
      <4> QED
        BY <4>1 DEF Control, InInit, InLoop, Stopping, MainPC
    <3> QED
      BY <3>1, <3>2, <3>3 DEF WorkerPC
  <2>2. Main \in notFull => count = QueueSize
    BY DEF Control, Waits
  <2> QED
    BY <2>1, <2>2 DEF NoLostWakeup
<1> QED
  BY <1>1, Invariance, PTL

\* The branch of thread_pool_submit that refuses a descriptor is dead code.
THEOREM NeverRejected == Spec => []SubmitNeverRejected
<1>1. IInv => SubmitNeverRejected
  BY DEF IInv, Control, InLoop, SubmitNeverRejected
<1> QED
  BY <1>1, Invariance, PTL

\* thread_pool_destroy destroys the primitives only after every submitted
\* descriptor has been processed and when no thread uses them any more.
THEOREM DestroySafe == Spec => []DestroyedWhenDrained
<1>1. IInv => DestroyedWhenDrained
  <2> SUFFICES ASSUME IInv, pc[Main] = "end" PROVE DestroyedWhenDrained
    BY DEF DestroyedWhenDrained
  <2> USE DEF IInv, TypeOK, Threads, Workers, Main, Free, None
  <2>1. \A w \in Workers : pc[w] = "done"
    BY DEF Control
  <2>2. mutex = Free /\ notEmpty = {} /\ notFull = {}
    BY <2>1 DEF Control
  <2>3. count = 0
    <3>1. 1 \in Workers
      BY ConstantsAssumption DEF ConstantsAssumption
    <3> QED
      BY <2>1, <3>1 DEF Waits
  <2>4. submitted = taken
    BY <2>3 DEF RingHoldsPending
  <2>5. \A w \in Workers : task[w] = None
    BY <2>1 DEF Accounting
  <2>6. \A k \in 1 .. taken : k \in handled
    BY <2>5 DEF Accounting
  <2>7. handled = 1 .. submitted
    BY <2>4, <2>6 DEF Accounting
  <2> QED
    BY <2>1, <2>2, <2>7 DEF DestroyedWhenDrained
<1> QED
  BY <1>1, Invariance, PTL

\* The failure path of thread_pool_init returns only when no worker can
\* touch the destroyed mutex and condition variables.
THEOREM FailSafe == Spec => []FailedWhenQuiet
<1>1. IInv => FailedWhenQuiet
  <2> SUFFICES ASSUME IInv, pc[Main] = "failed" PROVE FailedWhenQuiet
    BY DEF FailedWhenQuiet
  <2> USE DEF IInv, TypeOK, Threads, Workers, Main, Free
  <2>1. \A w \in Workers : pc[w] \in {"none", "done"}
    BY DEF Control
  <2>2. mutex = Free /\ notEmpty = {}
    BY <2>1 DEF Control
  <2> QED
    BY <2>1, <2>2 DEF FailedWhenQuiet
<1> QED
  BY <1>1, Invariance, PTL

\* Whichever way the pool ends, it is quiet when the caller gets it back.
THEOREM ReturnsQuiet == Spec => []QuietWhenReturned
BY DestroySafe, FailSafe, PTL DEF QuietWhenReturned

\* The pool implements the abstract task pool: each step of a thread is an
\* acceptance, a start in order, a finish, the close, or invisible.
THEOREM ImplementsSafely == Spec => Abstract!SafeSpec
<1>1. Init => Abstract!Init
  BY DEF Init, Abstract!Init
<1>2. IInv /\ [Next]_vars => [Abstract!Next]_(Abstract!vars)
  <2> SUFFICES ASSUME IInv, [Next]_vars PROVE [Abstract!Next]_(Abstract!vars)
    OBVIOUS
  <2> USE ConstantsAssumption DEF ConstantsAssumption, IInv, TypeOK
  <2>1. CASE SubmitPut
    <3>1. submitted - taken < QueueSize
      BY <2>1 DEF RingHoldsPending, SubmitPut, Full
    <3>2. Abstract!Accept
      BY <2>1, <3>1 DEF SubmitPut, Abstract!Accept
    <3> QED
      BY <3>2 DEF Abstract!Next
  <2>2. ASSUME NEW w \in Workers, TakeItem(w) PROVE Abstract!Next
    <3>1. queue[head] = taken + 1 /\ taken < submitted
      <4>1. Slot(0) = head /\ count > 0 /\ 0 \in 0 .. count - 1
        BY <2>2 DEF TakeItem, Slot
      <4>2. queue[Slot(0)] = taken + 1 + 0
        BY <4>1 DEF RingHoldsPending
      <4> QED
        BY <4>1, <4>2 DEF RingHoldsPending
    <3>2. task[w] = None
      BY <2>2 DEF TakeItem, Accounting
    <3>3. Abstract!Start(w)
      BY <2>2, <3>1, <3>2 DEF TakeItem, Dequeue, Abstract!Start
    <3> QED
      BY <3>3 DEF Abstract!Next
  <2>3. ASSUME NEW w \in Workers, Process(w) PROVE Abstract!Next
    <3>1. task[w] # None
      BY <2>3 DEF Process, Accounting
    <3>2. Abstract!Finish(w)
      BY <2>3, <3>1 DEF Process, ring, Abstract!Finish
    <3> QED
      BY <3>2 DEF Abstract!Next
  <2>4. CASE FailStop \/ DestroyStop
    <3>1. stop = 0 /\ stop' = 1
      BY <2>4 DEF FailStop, DestroyStop, Control, InLoop
    <3>2. Abstract!Close
      BY <2>4, <3>1 DEF FailStop, DestroyStop, history, Abstract!Close
    <3> QED
      BY <3>2 DEF Abstract!Next
  <2>5. CASE UNCHANGED <<stop, task, submitted, taken, handled>>
    BY <2>5 DEF Abstract!vars
  <2>6. \/ SubmitPut \/ FailStop \/ DestroyStop
        \/ \E w \in Workers : TakeItem(w) \/ Process(w)
        \/ UNCHANGED <<stop, task, submitted, taken, handled>>
    BY DEF Next, vars, Finished, InitStep, SubmitStep, DestroyStep, WorkerStep,
           InitSync, InitSyncFails, CreateFails, FailBroadcast, FailJoin,
           CreateWorker, SubmitLock, SubmitWait, LeaveLoop, DestroyLock,
           DestroyJoin, TakeLock, TakeEmpty, TakeWait, TakeStopped,
           SpuriousWakeup, history
  <2> QED
    BY <2>1, <2>2, <2>3, <2>4, <2>5, <2>6
<1> QED
  BY <1>1, <1>2, Invariance, PTL DEF Spec, Abstract!SafeSpec

===========================================================================
