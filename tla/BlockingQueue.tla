--------------------------- MODULE BlockingQueue ---------------------------
(***************************************************************************)
(* cpp_language_learning/Producer-Consumer_model.cpp: an unbounded queue   *)
(* with a mutex and one condition variable that is notified after the      *)
(* mutex is released; main joins the producers, closes the queue and joins *)
(* the consumers.  A section under the mutex is one step: no thread blocks *)
(* inside one, so sections exclude each other and nothing else shows.      *)
(***************************************************************************)
EXTENDS Naturals, Sequences, FiniteSets

CONSTANTS
  Producers, Consumers,
  Items,               \* itemsPerProducer
  MaxSpurious          \* bound: spurious wakeups

ASSUME ConstantsAssumption ==
  /\ Producers # {} /\ Consumers # {}
  /\ Items \in Nat \ {0} /\ MaxSpurious \in Nat

VARIABLES
  queue, closed,       \* queue_, closed_
  waiting,             \* consumers blocked in cv_.wait
  pushed,              \* items each producer has pushed
  ppc,                 \* producer: push, notify, exit
  cpc,                 \* consumer: pop, consume, exit
  value,               \* consumer: the item popped
  consumed,            \* items consumed (consumedCount is how many)
  mpc,                 \* main: produce, notify, consume, return
  spurious

vars == <<queue, closed, waiting, pushed, ppc, cpc, value, consumed, mpc, spurious>>

Item(p, n) == [by |-> p, n |-> n]
AllItems   == {Item(p, n) : p \in Producers, n \in 1 .. Items}
NoItem     == [by |-> {}, n |-> 0]

Init ==
  /\ queue = <<>> /\ closed = FALSE /\ waiting = {}
  /\ pushed = [p \in Producers |-> 0]
  /\ ppc = [p \in Producers |-> "push"]
  /\ cpc = [c \in Consumers |-> "pop"]
  /\ value = [c \in Consumers |-> NoItem]
  /\ consumed = [i \in AllItems |-> 0]
  /\ mpc = "produce" /\ spurious = 0

---------------------------------------------------------------------------
PushBack(q, i) == Append(q, i)

Push(p) ==           \* under the mutex; a closed queue drops the item
  /\ ppc[p] = "push"
  /\ pushed' = [pushed EXCEPT ![p] = @ + 1]
  /\ queue' = IF closed THEN queue ELSE PushBack(queue, Item(p, pushed'[p]))
  /\ ppc' = [ppc EXCEPT ![p] = "notify"]
  /\ UNCHANGED <<closed, waiting, cpc, value, consumed, mpc, spurious>>

\* The sets of waiters that may remain after notify_one.
NotifyNone(ws) == {ws}

NotifyOne(ws) == IF ws = {} THEN {ws} ELSE {ws \ {c} : c \in ws}

Notify(p) ==         \* the rest of push: notify_one without the mutex
  /\ ppc[p] = "notify"
  /\ waiting' \in NotifyOne(waiting)
  /\ ppc' = [ppc EXCEPT ![p] = IF pushed[p] = Items THEN "exit" ELSE "push"]
  /\ UNCHANGED <<queue, closed, pushed, cpc, value, consumed, mpc, spurious>>

Awake(c) == cpc[c] = "pop" /\ c \notin waiting

Wait(c) ==           \* the predicate is false: release the mutex and block
  /\ Awake(c) /\ ~closed /\ queue = <<>>
  /\ waiting' = waiting \cup {c}
  /\ UNCHANGED <<queue, closed, pushed, ppc, cpc, value, consumed, mpc, spurious>>

WakeSpuriously(c) ==
  /\ c \in waiting /\ spurious < MaxSpurious
  /\ waiting' = waiting \ {c}
  /\ spurious' = spurious + 1
  /\ UNCHANGED <<queue, closed, pushed, ppc, cpc, value, consumed, mpc>>

\* What is left of the queue once its front is taken.
KeepFront(q) == q

PopFront(q) == Tail(q)

Pop(c) ==
  /\ Awake(c) /\ queue # <<>>
  /\ value' = [value EXCEPT ![c] = Head(queue)]
  /\ queue' = PopFront(queue)
  /\ cpc' = [cpc EXCEPT ![c] = "consume"]
  /\ UNCHANGED <<closed, waiting, pushed, ppc, consumed, mpc, spurious>>

Consume(c) ==        \* ++consumedCount_, outside the mutex
  /\ cpc[c] = "consume"
  /\ consumed' = [consumed EXCEPT ![value[c]] = @ + 1]
  /\ value' = [value EXCEPT ![c] = NoItem]
  /\ cpc' = [cpc EXCEPT ![c] = "pop"]
  /\ UNCHANGED <<queue, closed, waiting, pushed, ppc, mpc, spurious>>

\* wait_and_pop returns false: the queue is closed and nothing is left.
NothingToCome == closed /\ queue = <<>>

ConsumerExit(c) ==
  /\ Awake(c) /\ NothingToCome
  /\ cpc' = [cpc EXCEPT ![c] = "exit"]
  /\ UNCHANGED <<queue, closed, waiting, pushed, ppc, value, consumed, mpc, spurious>>

\* Main closes the queue once both producers are joined.
ProducersJoined == \A p \in Producers : ppc[p] = "exit"

Close ==             \* closed_ = true under the mutex
  /\ mpc = "produce" /\ ProducersJoined
  /\ closed' = TRUE /\ mpc' = "notify"
  /\ UNCHANGED <<queue, waiting, pushed, ppc, cpc, value, consumed, spurious>>

WakeAll(ws) == {{}}

NotifyAll ==         \* the rest of close
  /\ mpc = "notify"
  /\ waiting' \in WakeAll(waiting)
  /\ mpc' = "consume"
  /\ UNCHANGED <<queue, closed, pushed, ppc, cpc, value, consumed, spurious>>

Return ==            \* the consumers are joined
  /\ mpc = "consume" /\ \A c \in Consumers : cpc[c] = "exit"
  /\ mpc' = "return"
  /\ UNCHANGED <<queue, closed, waiting, pushed, ppc, cpc, value, consumed, spurious>>

Finished == mpc = "return" /\ UNCHANGED vars

---------------------------------------------------------------------------
ProducerStep(p) == Push(p) \/ Notify(p)
ConsumerStep(c) == Wait(c) \/ Pop(c) \/ Consume(c) \/ ConsumerExit(c)
MainStep        == Close \/ NotifyAll \/ Return

Next ==
  \/ \E p \in Producers : ProducerStep(p)
  \/ \E c \in Consumers : ConsumerStep(c) \/ WakeSpuriously(c)
  \/ MainStep \/ Finished

Spec == Init /\ [][Next]_vars

\* Every thread that can run, runs; wakeups without a cause owe nothing.
Fairness ==
  /\ WF_vars(MainStep)
  /\ \A p \in Producers : WF_vars(ProducerStep(p))
  /\ \A c \in Consumers : WF_vars(ConsumerStep(c))

FairSpec == Spec /\ Fairness

---------------------------------------------------------------------------
(* Properties *)

\* The type invariant; only a consumer that is in wait_and_pop waits, and no item
\* is consumed twice.
TypeOK ==
  /\ queue \in Seq(AllItems) /\ closed \in BOOLEAN
  /\ waiting \subseteq {c \in Consumers : cpc[c] = "pop"}
  /\ pushed \in [Producers -> 0 .. Items]
  /\ ppc \in [Producers -> {"push", "notify", "exit"}]
  /\ cpc \in [Consumers -> {"pop", "consume", "exit"}]
  /\ value \in [Consumers -> AllItems \cup {NoItem}]
  /\ consumed \in [AllItems -> 0 .. 1]
  /\ mpc \in {"produce", "notify", "consume", "return"}
  /\ spurious \in 0 .. MaxSpurious

\* Every item a producer has pushed is in the queue, in one consumer's hands
\* or consumed: in exactly one of these, exactly once.  Closing drains: when
\* main returns all were consumed, so it returns 0 (consumedCount = expected).
EachItemOnce ==
  \A i \in AllItems :
    /\ Cardinality({k \in DOMAIN queue : queue[k] = i})
         + Cardinality({c \in Consumers : value[c] = i}) + consumed[i]
       = IF i.n <= pushed[i.by] THEN 1 ELSE 0
    /\ mpc = "return" => consumed[i] = 1

\* Although the notification comes after the mutex is released, no consumer
\* sleeps on items or on a closed queue unless a wakeup is under way: an awake
\* or working consumer, or a thread about to notify.
NoLostWakeup ==
  /\ queue # <<>> /\ waiting = Consumers => \E p \in Producers : ppc[p] = "notify"
  /\ closed /\ waiting # {} => mpc = "notify"

\* What the run checks of the two: no item and no wakeup is lost.
NothingLost == EachItemOnce /\ NoLostWakeup

Returned == mpc = "return"

\* main always returns: no consumer waits for ever.
MainReturns == <>Returned

===========================================================================
