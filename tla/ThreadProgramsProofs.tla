------------------------ MODULE ThreadProgramsProofs ------------------------
(***************************************************************************)
(* Proofs about the small programs with threads or processes: the queue    *)
(* for every set of producers and consumers, the counters for every finite *)
(* set of threads, the bridge for any number of starts, messages and       *)
(* signals, the copy for every length and buffer.                          *)
(***************************************************************************)
EXTENDS MCThreadPrograms, SequenceTheorems, FiniteSetTheorems, TLAPS

---------------------------------------------------------------------------
(* The queue.  Its invariant says without counting what EachItemOnce says  *)
(* with cardinalities: the places of an item exclude each other (Apart)    *)
(* and every pushed item has one (Kept).  QueueControl ties what the       *)
(* threads know to where they are: nobody pushes into a closed queue, and  *)
(* a consumer leaves only one that is closed and empty.                    *)

Queued(q, i) == \E k \in 1 .. Len(q) : q[k] = i
InHand(v, i) == \E c \in Consumers : v[c] = i

Apart ==
  /\ \A j, k \in 1 .. Len(queue) : queue[j] = queue[k] => j = k
  /\ \A c, d \in Consumers : value[c] = value[d] /\ value[c] # NoItem => c = d
  /\ \A k \in 1 .. Len(queue) : ~InHand(value, queue[k]) /\ consumed[queue[k]] = 0
  /\ \A c \in Consumers : value[c] # NoItem => consumed[value[c]] = 0

Kept ==
  \A i \in AllItems :
    i.n <= pushed[i.by] <=> Queued(queue, i) \/ InHand(value, i) \/ consumed[i] = 1

QueueControl ==
  /\ closed <=> mpc # "produce"
  /\ closed => ProducersJoined
  /\ \A p \in Producers : ppc[p] = "exit" => pushed[p] = Items
  /\ \A p \in Producers : ppc[p] = "push" => pushed[p] < Items
  /\ \A c \in Consumers : value[c] # NoItem <=> cpc[c] = "consume"
  /\ \A c \in Consumers : cpc[c] = "exit" => NothingToCome
  /\ mpc = "return" => \A c \in Consumers : cpc[c] = "exit"

QueueInv == TypeOK /\ Apart /\ Kept /\ QueueControl /\ NoLostWakeup

---------------------------------------------------------------------------
(* Items *)

LEMMA ItemParts ==
  /\ \A p \in Producers, n \in 1 .. Items : Item(p, n) \in AllItems
  /\ \A i \in AllItems : /\ i.by \in Producers /\ i.n \in 1 .. Items
                         /\ i = Item(i.by, i.n)
  /\ \A p, q, m, n : Item(p, m) = Item(q, n) => p = q /\ m = n
  /\ NoItem \notin AllItems
<1>1. \A i \in AllItems : \E p \in Producers, n \in 1 .. Items : i = Item(p, n)
  BY DEF AllItems
<1>2. \A p, n : Item(p, n).by = p /\ Item(p, n).n = n
  BY DEF Item
<1>3. NoItem.n = 0
  BY DEF NoItem
<1>4. \A p \in Producers, n \in 1 .. Items : Item(p, n) \in AllItems
  BY DEF AllItems
<1>5. \A i \in AllItems : /\ i.by \in Producers /\ i.n \in 1 .. Items
                           /\ i = Item(i.by, i.n)
  BY <1>1, <1>2
<1>6. NoItem \notin AllItems
  BY <1>3, <1>5, ConstantsAssumption DEF ConstantsAssumption
<1>7. \A p, q, m, n : Item(p, m) = Item(q, n) => p = q /\ m = n
  <2> SUFFICES ASSUME NEW p, NEW q, NEW m, NEW n, Item(p, m) = Item(q, n)
               PROVE  p = q /\ m = n
    OBVIOUS
  <2>1. Item(p, m).by = Item(q, n).by /\ Item(p, m).n = Item(q, n).n
    OBVIOUS
  <2> QED
    BY <1>2, <2>1
<1> QED
  BY <1>4, <1>5, <1>6, <1>7

\* What Append and Tail do to the places of the queue.
LEMMA Pushed ==
  ASSUME NEW i \in AllItems, queue \in Seq(AllItems), queue' = PushBack(queue, i)
  PROVE  /\ queue' \in Seq(AllItems) /\ Len(queue') = Len(queue) + 1
         /\ \A k \in 1 .. Len(queue) : queue'[k] = queue[k]
         /\ queue'[Len(queue')] = i
  BY AppendProperties DEF PushBack

LEMMA Popped ==
  ASSUME queue \in Seq(AllItems), queue # <<>>, queue' = PopFront(queue)
  PROVE  /\ queue' \in Seq(AllItems) /\ Len(queue) = Len(queue') + 1
         /\ \A k \in 1 .. Len(queue') : queue'[k] = queue[k + 1]
         /\ Head(queue) = queue[1] /\ Head(queue) \in AllItems
<1>1. Len(queue) \in Nat \ {0}
  BY EmptySeq
<1> QED
  BY <1>1, HeadTailProperties, LenProperties DEF PopFront

---------------------------------------------------------------------------
(* The initial states *)

LEMMA QueueInit == Init => QueueInv
<1> SUFFICES ASSUME Init PROVE QueueInv
  OBVIOUS
<1> USE ConstantsAssumption DEF ConstantsAssumption, Init
<1>1. TypeOK
  <2>1. queue \in Seq(AllItems) /\ waiting \subseteq {c \in Consumers : cpc[c] = "pop"}
    BY EmptySeq
  <2>2. /\ pushed \in [Producers -> 0 .. Items]
        /\ ppc \in [Producers -> {"push", "notify", "exit"}]
    OBVIOUS
  <2>3. value \in [Consumers -> AllItems \cup {NoItem}]
    OBVIOUS
  <2>4. consumed \in [AllItems -> 0 .. 1]
    OBVIOUS
  <2>5. cpc \in [Consumers -> {"pop", "consume", "exit"}]
    OBVIOUS
  <2>6. spurious \in 0 .. MaxSpurious /\ mpc \in {"produce", "notify", "consume", "return"}
    OBVIOUS
  <2>7. closed \in BOOLEAN
    OBVIOUS
  <2> HIDE DEF Init
  <2> QED
    BY <2>1, <2>2, <2>3, <2>4, <2>5, <2>6, <2>7 DEF TypeOK
<1>2. Apart
  BY DEF Apart
<1>3. Kept
  BY ItemParts DEF Kept, Queued, InHand
<1>4. QueueControl
  BY DEF QueueControl, ProducersJoined, NothingToCome
<1>5. NoLostWakeup
  BY DEF NoLostWakeup
<1> QED
  BY <1>1, <1>2, <1>3, <1>4, <1>5 DEF QueueInv

---------------------------------------------------------------------------
(* The steps.  Each lemma takes the whole invariant and gives a group of   *)
(* it back.                                                                *)

\* Whoever still pushes finds the queue open, so the item goes in, at the end.
LEMMA PushEffect ==
  ASSUME QueueInv, NEW p \in Producers, Push(p)
  PROVE  /\ ~closed /\ pushed[p] + 1 \in 1 .. Items
         /\ pushed' = [pushed EXCEPT ![p] = pushed[p] + 1]
         /\ Item(p, pushed[p] + 1) \in AllItems
         /\ queue' = PushBack(queue, Item(p, pushed[p] + 1))
<1> USE ConstantsAssumption DEF ConstantsAssumption, QueueInv, TypeOK, QueueControl, Push
<1>1. ~closed
  BY DEF ProducersJoined
<1>2. pushed[p] + 1 \in 1 .. Items
  OBVIOUS
<1>3. pushed' = [pushed EXCEPT ![p] = pushed[p] + 1] /\ pushed'[p] = pushed[p] + 1
  OBVIOUS
<1> QED
  BY <1>1, <1>2, <1>3, ItemParts

LEMMA TypeStep ==
  ASSUME QueueInv, [Next]_vars
  PROVE  TypeOK'
<1> USE ConstantsAssumption DEF ConstantsAssumption, QueueInv, TypeOK
<1>1. ASSUME NEW p \in Producers, Push(p) PROVE TypeOK'
  <2>1. queue' \in Seq(AllItems) /\ pushed' \in [Producers -> 0 .. Items]
    BY <1>1, PushEffect, Pushed
  <2> QED
    BY <1>1, <2>1 DEF Push
<1>2. ASSUME NEW p \in Producers, Notify(p) PROVE TypeOK'
  <2>1. waiting' \subseteq waiting
    BY <1>2 DEF Notify, NotifyOne
  <2> QED
    BY <1>2, <2>1 DEF Notify
<1>3. ASSUME NEW c \in Consumers, Wait(c) PROVE TypeOK'
  BY <1>3 DEF Wait, Awake
<1>4. ASSUME NEW c \in Consumers, WakeSpuriously(c) PROVE TypeOK'
  BY <1>4 DEF WakeSpuriously
<1>5. ASSUME NEW c \in Consumers, Pop(c) PROVE TypeOK'
  <2>1. queue' \in Seq(AllItems) /\ value' \in [Consumers -> AllItems \cup {NoItem}]
    BY <1>5, Popped DEF Pop
  <2> QED
    BY <1>5, <2>1 DEF Pop, Awake
<1>6. ASSUME NEW c \in Consumers, Consume(c) PROVE TypeOK'
  <2>1. value[c] \in AllItems /\ consumed[value[c]] = 0
    BY <1>6 DEF Consume, QueueControl, Apart
  <2>2. consumed' \in [AllItems -> 0 .. 1] /\ value' \in [Consumers -> AllItems \cup {NoItem}]
    BY <1>6, <2>1 DEF Consume
  <2> QED
    BY <1>6, <2>2 DEF Consume
<1>7. ASSUME NEW c \in Consumers, ConsumerExit(c) PROVE TypeOK'
  BY <1>7 DEF ConsumerExit, Awake
<1>8. CASE Close
  BY <1>8 DEF Close
<1>9. CASE NotifyAll
  BY <1>9 DEF NotifyAll, WakeAll
<1>10. CASE Return
  BY <1>10 DEF Return
<1>11. CASE UNCHANGED vars
  BY <1>11 DEF vars
<1> QED
  BY <1>1, <1>2, <1>3, <1>4, <1>5, <1>6, <1>7, <1>8, <1>9, <1>10, <1>11
     DEF Next, ProducerStep, ConsumerStep, MainStep, Finished

\* No item comes to be in two places, and none that was pushed in none.
LEMMA ItemsStep ==
  ASSUME QueueInv, [Next]_vars
  PROVE  Apart' /\ Kept'
<1> USE ConstantsAssumption DEF ConstantsAssumption, QueueInv, TypeOK
<1>1. ASSUME NEW p \in Producers, Push(p) PROVE Apart' /\ Kept'
  <2> DEFINE i == Item(p, pushed[p] + 1)
  <2>1. /\ i \in AllItems /\ i.by = p /\ i.n = pushed[p] + 1
        /\ \A j \in AllItems : j.by = p /\ j.n = pushed[p] + 1 => j = i
    BY <1>1, PushEffect, ItemParts
  <2>2. ~Queued(queue, i) /\ ~InHand(value, i) /\ consumed[i] = 0
    BY <2>1, <1>1, PushEffect DEF Kept
  <2>3. /\ Len(queue') = Len(queue) + 1 /\ Len(queue) \in Nat
        /\ \A k \in 1 .. Len(queue) : queue'[k] = queue[k] /\ queue[k] # i
        /\ queue'[Len(queue) + 1] = i
    BY <1>1, <2>1, <2>2, PushEffect, Pushed DEF Queued
  <2>4. value' = value /\ consumed' = consumed
    BY <1>1 DEF Push
  <2>9. \A k \in 1 .. Len(queue') : k \in 1 .. Len(queue) \/ k = Len(queue) + 1
    BY <2>3
  <2>5. Apart'
    <3>1. \A j, k \in 1 .. Len(queue') : queue'[j] = queue'[k] => j = k
      BY <2>3, <2>9 DEF Apart
    <3>2. \A k \in 1 .. Len(queue') : ~InHand(value, queue'[k]) /\ consumed[queue'[k]] = 0
      BY <2>2, <2>3, <2>9 DEF Apart
    <3> QED
      BY <2>4, <3>1, <3>2 DEF Apart
  <2>6. \A j \in AllItems : Queued(queue', j) <=> Queued(queue, j) \/ j = i
    <3>1. \A k \in 1 .. Len(queue) : k \in 1 .. Len(queue')
      BY <2>3
    <3>2. Len(queue) + 1 \in 1 .. Len(queue')
      BY <2>3
    <3> QED
      BY <2>3, <2>9, <3>1, <3>2 DEF Queued
  <2>7. \A j \in AllItems : j.n <= pushed'[j.by] <=> j.n <= pushed[j.by] \/ j = i
    BY <1>1, <2>1, PushEffect, ItemParts
  <2>8. Kept'
    BY <2>2, <2>4, <2>6, <2>7 DEF Kept, InHand
  <2> QED
    BY <2>5, <2>8
<1>2. ASSUME NEW c \in Consumers, Pop(c) PROVE Apart' /\ Kept'
  <2> DEFINE i == queue[1]
  <2>1. /\ value' = [value EXCEPT ![c] = i] /\ i \in AllItems /\ value[c] = NoItem
        /\ UNCHANGED <<pushed, consumed>>
    BY <1>2, Popped DEF Pop, Awake, QueueControl
  <2>2. /\ Len(queue) = Len(queue') + 1 /\ Len(queue') \in Nat
        /\ \A k \in 1 .. Len(queue') : queue'[k] = queue[k + 1]
    BY <1>2, Popped, LenProperties DEF Pop
  <2>3. \A j \in AllItems : InHand(value', j) <=> InHand(value, j) \/ j = i
    BY <2>1, ItemParts DEF InHand
  <2>4. \A j \in AllItems : Queued(queue, j) <=> Queued(queue', j) \/ j = i
    <3>1. ASSUME NEW j \in AllItems, NEW k \in 1 .. Len(queue), queue[k] = j, j # i
          PROVE  Queued(queue', j)
      <4>1. k # 1
        BY <3>1
      <4>2. k - 1 \in 1 .. Len(queue') /\ (k - 1) + 1 = k
        BY <2>2, <4>1
      <4>3. queue'[k - 1] = j
        BY <2>2, <3>1, <4>2
      <4> QED
        BY <4>2, <4>3 DEF Queued
    <3>2. ASSUME NEW j \in AllItems, NEW k \in 1 .. Len(queue'), queue'[k] = j
          PROVE  Queued(queue, j)
      <4>1. k + 1 \in 1 .. Len(queue) /\ queue[k + 1] = j
        BY <2>2, <3>2
      <4> QED
        BY <4>1 DEF Queued
    <3>3. Queued(queue, i)
      BY <2>2 DEF Queued
    <3> QED
      BY <3>1, <3>2, <3>3 DEF Queued
  <2>5. ~Queued(queue', i)
    BY <2>2 DEF Queued, Apart
  <2>6. \A k \in 1 .. Len(queue') :
          /\ k + 1 \in 1 .. Len(queue) /\ queue'[k] = queue[k + 1]
          /\ queue'[k] \in AllItems
    BY <2>2, ElementOfSeq
  <2>7. Apart'
    <3>1. ASSUME NEW j \in 1 .. Len(queue'), NEW k \in 1 .. Len(queue'), queue'[j] = queue'[k]
          PROVE  j = k
      <4>1. j + 1 = k + 1
        BY <2>6, <3>1 DEF Apart
      <4> QED
        BY <4>1
    <3>2. ~InHand(value, i) /\ consumed[i] = 0
      BY <2>2 DEF Apart
    <3>3. \A b, d \in Consumers : value'[b] = value'[d] /\ value'[b] # NoItem => b = d
      BY <2>1, <3>2 DEF Apart, InHand
    <3>4. ASSUME NEW k \in 1 .. Len(queue')
          PROVE  ~InHand(value', queue'[k]) /\ consumed'[queue'[k]] = 0
      <4>1. ~InHand(value, queue[k + 1]) /\ consumed[queue[k + 1]] = 0
        BY <2>2 DEF Apart
      <4>2. queue'[k] # i
        BY <2>5 DEF Queued
      <4> QED
        BY <2>1, <2>2, <2>3, <2>6, <4>1, <4>2
    <3>5. \A d \in Consumers : value'[d] # NoItem => consumed'[value'[d]] = 0
      BY <2>1, <3>2 DEF Apart
    <3> QED
      BY <3>1, <3>3, <3>4, <3>5 DEF Apart
  <2>8. Kept'
    BY <2>1, <2>3, <2>4 DEF Kept
  <2> QED
    BY <2>7, <2>8
<1>3. ASSUME NEW c \in Consumers, Consume(c) PROVE Apart' /\ Kept'
  <2> DEFINE i == value[c]
  <2>1. i \in AllItems /\ consumed[i] = 0 /\ ~Queued(queue, i)
    BY <1>3 DEF Consume, QueueControl, Apart, Queued, InHand
  <2>2. /\ value' = [value EXCEPT ![c] = NoItem] /\ UNCHANGED <<queue, pushed>>
        /\ consumed'[i] = 1 /\ \A j \in AllItems \ {i} : consumed'[j] = consumed[j]
    BY <1>3, <2>1 DEF Consume
  <2>3. \A j \in AllItems : InHand(value, j) <=> InHand(value', j) \/ j = i
    BY <2>1, <2>2, ItemParts DEF InHand
  <2>4. ~InHand(value', i)
    BY <2>1, <2>2, ItemParts DEF InHand, Apart
  <2>5. \A j \in AllItems : Queued(queue', j) <=> Queued(queue, j)
    BY <2>2 DEF Queued
  <2>6. Kept'
    BY <2>1, <2>2, <2>3, <2>4, <2>5 DEF Kept
  <2>7. Apart'
    <3>1. \A k \in 1 .. Len(queue) : queue[k] \in AllItems /\ queue[k] # i
      BY <2>1, ElementOfSeq DEF Queued
    <3>2. \A d \in Consumers : value'[d] # NoItem => value'[d] = value[d] /\ value[d] # i
      BY <2>1, <2>2 DEF Apart
    <3>3. \A d \in Consumers :
            value'[d] # NoItem => value[d] \in AllItems \ {i} /\ consumed'[value'[d]] = 0
      BY <2>2, <3>2 DEF Apart
    <3>4. \A b, d \in Consumers : value'[b] = value'[d] /\ value'[b] # NoItem => b = d
      BY <3>2 DEF Apart
    <3>5. \A k \in 1 .. Len(queue) : ~InHand(value', queue[k]) /\ consumed'[queue[k]] = 0
      BY <2>2, <2>3, <3>1 DEF Apart
    <3>6. queue' = queue /\ \A j, k \in 1 .. Len(queue) : queue[j] = queue[k] => j = k
      BY <2>2 DEF Apart
    <3>7. \A d \in Consumers : value'[d] # NoItem => consumed'[value'[d]] = 0
      BY <3>3
    <3> QED
      BY <3>4, <3>5, <3>6, <3>7 DEF Apart
  <2> QED
    BY <2>6, <2>7
<1>4. CASE UNCHANGED <<queue, pushed, value, consumed>>
  BY <1>4 DEF Apart, Kept, Queued, InHand
<1> QED
  BY <1>1, <1>2, <1>3, <1>4
     DEF Next, vars, ProducerStep, ConsumerStep, MainStep, Finished, Notify, Wait,
         WakeSpuriously, ConsumerExit, Close, NotifyAll, Return

LEMMA ControlStep ==
  ASSUME QueueInv, [Next]_vars
  PROVE  QueueControl'
<1> USE ConstantsAssumption DEF ConstantsAssumption, QueueInv, TypeOK, QueueControl,
        ProducersJoined, NothingToCome
<1>1. ASSUME NEW p \in Producers, Push(p) PROVE QueueControl'
  BY <1>1, PushEffect DEF Push
<1>2. ASSUME NEW p \in Producers, Notify(p) PROVE QueueControl'
  BY <1>2 DEF Notify
<1>3. ASSUME NEW c \in Consumers, Wait(c) PROVE QueueControl'
  BY <1>3 DEF Wait
<1>4. ASSUME NEW c \in Consumers, WakeSpuriously(c) PROVE QueueControl'
  BY <1>4 DEF WakeSpuriously
<1>5. ASSUME NEW c \in Consumers, Pop(c) PROVE QueueControl'
  <2>1. value'[c] # NoItem /\ cpc'[c] = "consume"
    BY <1>5, Popped, ItemParts DEF Pop
  <2> QED
    BY <1>5, <2>1 DEF Pop
<1>6. ASSUME NEW c \in Consumers, Consume(c) PROVE QueueControl'
  BY <1>6 DEF Consume
<1>7. ASSUME NEW c \in Consumers, ConsumerExit(c) PROVE QueueControl'
  BY <1>7 DEF ConsumerExit, Awake
<1>8. CASE Close
  BY <1>8 DEF Close
<1>9. CASE NotifyAll
  BY <1>9 DEF NotifyAll
<1>10. CASE Return
  BY <1>10 DEF Return
<1>11. CASE UNCHANGED vars
  BY <1>11 DEF vars
<1> QED
  BY <1>1, <1>2, <1>3, <1>4, <1>5, <1>6, <1>7, <1>8, <1>9, <1>10, <1>11
     DEF Next, ProducerStep, ConsumerStep, MainStep, Finished

\* A notification that finds nobody is not lost: there was an awake consumer,
\* who will test the predicate before it sleeps.
LEMMA WakeupStep ==
  ASSUME QueueInv, [Next]_vars
  PROVE  NoLostWakeup'
<1> USE ConstantsAssumption DEF ConstantsAssumption, QueueInv, TypeOK, NoLostWakeup
<1>1. ASSUME NEW p \in Producers, Push(p) PROVE NoLostWakeup'
  BY <1>1 DEF Push
<1>2. ASSUME NEW p \in Producers, Notify(p) PROVE NoLostWakeup'
  <2>1. waiting' # Consumers
    BY <1>2 DEF Notify, NotifyOne
  <2>2. ~closed /\ closed' = closed
    BY <1>2 DEF Notify, QueueControl, ProducersJoined
  <2> QED
    BY <2>1, <2>2
<1>3. ASSUME NEW c \in Consumers, Wait(c) PROVE NoLostWakeup'
  BY <1>3 DEF Wait
<1>4. ASSUME NEW c \in Consumers, WakeSpuriously(c) PROVE NoLostWakeup'
  BY <1>4 DEF WakeSpuriously
<1>5. ASSUME NEW c \in Consumers, Pop(c) PROVE NoLostWakeup'
  BY <1>5 DEF Pop, Awake
<1>6. ASSUME NEW c \in Consumers, Consume(c) PROVE NoLostWakeup'
  BY <1>6 DEF Consume
<1>7. ASSUME NEW c \in Consumers, ConsumerExit(c) PROVE NoLostWakeup'
  BY <1>7 DEF ConsumerExit, Awake
<1>8. CASE Close
  BY <1>8 DEF Close, QueueControl, NothingToCome, ProducersJoined
<1>9. CASE NotifyAll
  BY <1>9 DEF NotifyAll, WakeAll
<1>10. CASE Return
  BY <1>10 DEF Return
<1>11. CASE UNCHANGED vars
  BY <1>11 DEF vars
<1> QED
  BY <1>1, <1>2, <1>3, <1>4, <1>5, <1>6, <1>7, <1>8, <1>9, <1>10, <1>11
     DEF Next, ProducerStep, ConsumerStep, MainStep, Finished

\* The inductive invariant holds in every state that is reached.
THEOREM QueueInvariance == Spec => []QueueInv
<1>1. QueueInv /\ [Next]_vars => QueueInv'
  <2> SUFFICES ASSUME QueueInv, [Next]_vars PROVE QueueInv'
    OBVIOUS
  <2> QED
    BY TypeStep, ItemsStep, ControlStep, WakeupStep DEF QueueInv
<1> QED
  BY QueueInit, <1>1, PTL DEF Spec

\* Every variable keeps its type: only a consumer that is in wait_and_pop waits,
\* and no item is consumed twice.
THEOREM QueueTypes == Spec => []TypeOK
<1>1. QueueInv => TypeOK
  BY DEF QueueInv
<1> QED
  BY QueueInvariance, <1>1, PTL

---------------------------------------------------------------------------
(* Counting the places of an item *)

\* A set of which any two elements are equal has as many as it has elements.
LEMMA AtMostOne ==
  ASSUME NEW S, \A x, y \in S : x = y
  PROVE  Cardinality(S) = IF S = {} THEN 0 ELSE 1
<1>1. CASE S = {}
  BY <1>1, FS_EmptySet
<1>2. ASSUME NEW x \in S PROVE Cardinality(S) = 1
  <2>1. S = {x}
    BY <1>2
  <2> QED
    BY <2>1, FS_Singleton
<1> QED
  BY <1>1, <1>2

LEMMA CountedOnce ==
  ASSUME QueueInv
  PROVE  EachItemOnce
<1> USE DEF QueueInv, TypeOK
<1> SUFFICES ASSUME NEW i \in AllItems
             PROVE  /\ Cardinality({k \in DOMAIN queue : queue[k] = i})
                         + Cardinality({c \in Consumers : value[c] = i}) + consumed[i]
                       = IF i.n <= pushed[i.by] THEN 1 ELSE 0
                    /\ mpc = "return" => consumed[i] = 1
  BY DEF EachItemOnce
<1> DEFINE Q == {k \in DOMAIN queue : queue[k] = i}
           H == {c \in Consumers : value[c] = i}
<1>1. DOMAIN queue = 1 .. Len(queue)
  BY LenProperties
<1>2. Cardinality(Q) = IF Queued(queue, i) THEN 1 ELSE 0
  <2>1. \A j, k \in Q : j = k
    BY <1>1 DEF Apart
  <2>2. Q = {} <=> ~Queued(queue, i)
    BY <1>1 DEF Queued
  <2> QED
    BY <2>1, <2>2, AtMostOne
<1>3. Cardinality(H) = IF InHand(value, i) THEN 1 ELSE 0
  <2>1. \A c, d \in H : c = d
    BY ItemParts DEF Apart
  <2>2. H = {} <=> ~InHand(value, i)
    BY DEF InHand
  <2> QED
    BY <2>1, <2>2, AtMostOne
<1>4. /\ Queued(queue, i) => ~InHand(value, i) /\ consumed[i] = 0
      /\ InHand(value, i) => consumed[i] = 0
  BY ItemParts DEF Apart, Queued, InHand
<1>5. Cardinality(Q) + Cardinality(H) + consumed[i] = IF i.n <= pushed[i.by] THEN 1 ELSE 0
  <2>1. consumed[i] \in 0 .. 1
    OBVIOUS
  <2>2. i.n <= pushed[i.by] <=> Queued(queue, i) \/ InHand(value, i) \/ consumed[i] = 1
    BY DEF Kept
  <2> QED
    BY <1>2, <1>3, <1>4, <2>1, <2>2
<1>6. ASSUME mpc = "return" PROVE consumed[i] = 1
  <2>1. queue = <<>> /\ \A c \in Consumers : value[c] = NoItem
    BY <1>6, ConstantsAssumption DEF ConstantsAssumption, QueueControl, NothingToCome
  <2>2. ~Queued(queue, i) /\ ~InHand(value, i)
    BY <2>1, ItemParts, EmptySeq DEF Queued, InHand
  <2>3. i.n <= pushed[i.by]
    BY <1>6, ItemParts, ConstantsAssumption
       DEF ConstantsAssumption, QueueControl, ProducersJoined
  <2> QED
    BY <2>2, <2>3 DEF Kept
<1> QED
  BY <1>5, <1>6

\* Every item pushed is in exactly one place exactly once until it is consumed, all
\* are when main returns, and nobody sleeps on items or on a closed queue without
\* a wakeup under way, although the notifications come after the unlock.
THEOREM QueueCorrect == Spec => []NothingLost
<1>1. QueueInv => NothingLost
  BY CountedOnce DEF QueueInv, NothingLost
<1> QED
  BY QueueInvariance, <1>1, PTL

---------------------------------------------------------------------------
(* The bridge.  HeldWhileUsed is not inductive: it says nothing of the     *)
(* window that waits in join, from where the spinning thread may still     *)
(* enter a callback.  Owned says, for every place of the window's thread,  *)
(* which members exist and whether there is a thread; Agrees what the      *)
(* button and m_running have to do with that.                              *)

Threaded == running \/ window = "join"

Owned ==
  /\ build = "ros" => /\ running => held = Bridge!Objects
                      /\ window = "join" => held = Bridge!Objects \ Bridge!DroppedFirst
                      /\ ~Threaded => held = {}
                      /\ (spin # "none") <=> Threaded
  /\ build # "ros" => held = {} /\ spin = "none" /\ window \in {"idle", "closed"}

Agrees ==
  /\ running => window = "idle"
  /\ window = "idle" => (button = "stop" <=> running)

\* Only a callback of the two can come next.
Callbacks == ready \subseteq {"publish", "deliver"}

BridgeInv == Owned /\ Agrees /\ Callbacks

\* What the spinning thread uses is held, whatever the window's thread does.
LEMMA Enough == BridgeInv => HeldWhileUsed
  BY DEF BridgeInv, Owned, Agrees, Threaded, HeldWhileUsed, Bridge!HeldWhileUsed,
         Bridge!Objects, Bridge!DroppedFirst

LEMMA BridgeInit == Bridge!Init => BridgeInv
  BY DEF Bridge!Init, BridgeInv, Owned, Agrees, Callbacks, Threaded

---------------------------------------------------------------------------
(* The steps: first those of the window's thread, which change what is     *)
(* held, then the others, which do not.                                    *)

LEMMA StopStep == ASSUME BridgeInv, window = "idle", Bridge!Stop PROVE BridgeInv'
<1> USE DEF BridgeInv, Owned, Agrees, Callbacks, Threaded, Bridge!Stop, Bridge!Settle
<1>1. CASE build = "ros"
  BY <1>1
<1>2. CASE build # "ros"
  <2>1. CASE closing
    BY <1>2, <2>1
  <2>2. CASE ~closing
    BY <1>2, <2>2
  <2> QED
    BY <2>1, <2>2
<1> QED
  BY <1>1, <1>2

LEMMA WindowKeeps ==
  ASSUME BridgeInv,
         \/ Bridge!ClickStart \/ Bridge!ClickStop \/ Bridge!CloseWindow
         \/ Bridge!Create \/ Bridge!Join \/ Bridge!Destroy
  PROVE  BridgeInv'
<1> USE DEF BridgeInv, Owned, Agrees, Callbacks, Threaded
<1>1. CASE Bridge!ClickStart
  BY <1>1 DEF Bridge!ClickStart
<1>2. CASE Bridge!ClickStop
  BY <1>2, StopStep DEF Bridge!ClickStop
<1>3. CASE Bridge!CloseWindow
  BY <1>3 DEF Bridge!CloseWindow
<1>4. CASE Bridge!Create
  BY <1>4 DEF Bridge!Create
<1>5. CASE Bridge!Join
  BY <1>5 DEF Bridge!Join, Bridge!Settle
<1>6. CASE Bridge!Destroy
  <2>1. CASE Bridge!Stop
    BY <1>6, <2>1, StopStep DEF Bridge!Destroy
  <2>2. CASE ~Bridge!Stop
    <3>1. ~running /\ window = "idle" /\ window' = "closed"
      BY <1>6, <2>2 DEF Bridge!Destroy
    <3>2. /\ build' = build /\ running' = running /\ held' = held
          /\ spin' = spin /\ ready' = ready
      BY <1>6, <2>2 DEF Bridge!Destroy
    <3>3. ~running'
      BY <3>1, <3>2
    <3> QED
      BY <3>1, <3>2, <3>3
  <2> QED
    BY <2>1, <2>2
<1> QED
  BY <1>1, <1>2, <1>3, <1>4, <1>5, <1>6

LEMMA ThreadKeeps ==
  ASSUME BridgeInv, Bridge!SpinStep \/ Bridge!Propagate \/ Bridge!Signal \/ Bridge!ShowMessage
  PROVE  BridgeInv'
<1> USE DEF BridgeInv, Owned, Agrees, Callbacks, Threaded, Bridge!spinUnchanged
<1>1. CASE Bridge!AddNode
  BY <1>1 DEF Bridge!AddNode
<1>1a. CASE Bridge!AddThrows
  BY <1>1a DEF Bridge!AddThrows
<1>2. CASE Bridge!LoopTest
  BY <1>2 DEF Bridge!LoopTest
<1>3. CASE Bridge!Collect
  BY <1>3 DEF Bridge!Collect
<1>4. CASE Bridge!Publish
  BY <1>4 DEF Bridge!Publish, Bridge!Continue
<1>5. CASE Bridge!Deliver
  BY <1>5 DEF Bridge!Deliver, Bridge!Continue
<1>6. CASE Bridge!RemoveNode
  BY <1>6 DEF Bridge!RemoveNode
<1>7. CASE Bridge!Propagate
  BY <1>7 DEF Bridge!Propagate
<1>8. CASE Bridge!Signal
  BY <1>8 DEF Bridge!Signal
<1>9. CASE Bridge!ShowMessage
  BY <1>9 DEF Bridge!ShowMessage
<1> QED
  BY <1>1, <1>1a, <1>2, <1>3, <1>4, <1>5, <1>6, <1>7, <1>8, <1>9 DEF Bridge!SpinStep

---------------------------------------------------------------------------
\* The inductive invariant: who owns what, in both builds.
THEOREM BridgeInvariance == Bridge!Spec => []BridgeInv
<1>1. Bridge!Init => BridgeInv
  BY BridgeInit
<1>2. BridgeInv /\ [Bridge!Next]_(Bridge!bridgeVars) => BridgeInv'
  <2> SUFFICES ASSUME BridgeInv, [Bridge!Next]_(Bridge!bridgeVars) PROVE BridgeInv'
    OBVIOUS
  <2>1. CASE UNCHANGED Bridge!bridgeVars
    BY <2>1 DEF Bridge!bridgeVars, BridgeInv, Owned, Agrees, Callbacks, Threaded
  <2>2. CASE Bridge!Next
    BY <2>2, WindowKeeps, ThreadKeeps DEF Bridge!Next, Bridge!WindowStep
  <2> QED
    BY <2>1, <2>2
<1> QED
  BY <1>1, <1>2, PTL DEF Bridge!Spec

\* The spinning thread never reads a member that stop() has dropped, start()
\* never meets a thread that was not joined, and the button offers what a click
\* will do: RosBridge.cpp's start() and stop(), MainWindow.cpp's
\* onToggleClicked.  No constant is assumed anything of.
THEOREM HeldThroughout == Bridge!Spec => []HeldWhileUsed
  BY BridgeInvariance, Enough, PTL

---------------------------------------------------------------------------
(* The copy.  What was written, what write_all holds and what was not read *)
(* yet are together the message, from when the child has written it        *)
(* (Passed); before that all three are empty (Nothing).  The parent can    *)
(* see the end of the pipe only when the child has closed it, for a child  *)
(* that does not write at all has met a parent that does not read any more.*)

Stream  == (output \o buf) \o input
Passed  == Stream = Pipe!Message
Nothing == input = <<>> /\ buf = <<>> /\ output = <<>>

Passing ==
  /\ source = "file" => child = "exit" /\ Passed
  /\ source # "file" =>
       /\ child # "exit" => <<"child", "write">> \in ends
       /\ parent \in {"start", "read", "write", "close"} => <<"parent", "read">> \in ends
       /\ child \in {"start", "write"} => Nothing
       /\ child \notin {"start", "write"} => Passed \/ (Nothing /\ parent \in {"wait", "done"})
       /\ child = "close" => Passed

PipeInv ==
  /\ Pipe!TypeOK /\ Passing
  /\ parent \in {"start", "read"} => buf = <<>>
  /\ parent \in {"close", "wait", "done"} /\ ~failed => output = Pipe!Message

LEMMA MessageType == Pipe!Message \in Seq(1 .. Size)
  BY PartsAssumption DEF Pipe!PipeAssumption, Pipe!Message

LEMMA Cut ==
  ASSUME NEW S, NEW s \in Seq(S), NEW k \in 1 .. Len(s)
  PROVE  /\ SubSeq(s, 1, k) \in Seq(S) /\ SubSeq(s, k + 1, Len(s)) \in Seq(S)
         /\ SubSeq(s, 1, k) \o SubSeq(s, k + 1, Len(s)) = s
<1>1. Len(s) \in Nat /\ \A i \in 1 .. Len(s) : s[i] \in S
  BY LenProperties, ElementOfSeq
<1>2. SubSeq(s, 1, k) \in Seq(S) /\ SubSeq(s, k + 1, Len(s)) \in Seq(S)
  BY <1>1, SubSeqProperties
<1>3. 1 \in 1 .. Len(s) + 1 /\ k \in 1 - 1 .. Len(s) /\ Len(s) \in k .. Len(s)
  BY <1>1
<1>4. SubSeq(s, 1, k) \o SubSeq(s, k + 1, Len(s)) = SubSeq(s, 1, Len(s))
  BY <1>3, ConcatAdjacentSubSeq
<1> QED
  BY <1>2, <1>4, SubSeqFull

LEMMA Beginning ==
  ASSUME NEW S, NEW s \in Seq(S), NEW t \in Seq(S)
  PROVE  Pipe!IsPrefix(s, s \o t)
<1>1. Len(s) \in Nat /\ Len(t) \in Nat /\ Len(s \o t) = Len(s) + Len(t)
  BY LenProperties, ConcatProperties
<1>2. SubSeq(s, 1, Len(s)) = SubSeq(s \o t, 1, Len(s))
  <2>1. CASE Len(s) = 0
    <3>1. SubSeq(s, 1, 0) = <<>> /\ SubSeq(s \o t, 1, 0) = <<>>
      BY SubSeqEmpty
    <3> QED
      BY <2>1, <3>1
  <2>2. CASE Len(s) # 0
    <3>1. 1 \in 1 .. Len(s) /\ Len(s) \in 1 .. Len(s)
      BY <1>1, <2>2
    <3> QED
      BY <3>1, SubSeqOfConcat1
  <2> QED
    BY <2>1, <2>2
<1> QED
  BY <1>1, <1>2 DEF Pipe!IsPrefix

LEMMA Regroup ==
  \A s, t, u \in Seq(1 .. Size) :
    s \o t \in Seq(1 .. Size) /\ (s \o t) \o u = s \o (t \o u)
<1> TAKE s, t, u \in Seq(1 .. Size)
<1>1. s \o t \in Seq(1 .. Size)
  BY ConcatProperties
<1>2. (s \o t) \o u = s \o (t \o u)
  BY ConcatAssociative
<1> QED
  BY <1>1, <1>2

LEMMA PipeEnough == PipeInv => CopiedInOrder
<1> SUFFICES ASSUME PipeInv PROVE CopiedInOrder
  OBVIOUS
<1>1. input \in Seq(1 .. Size) /\ buf \in Seq(1 .. Size) /\ output \in Seq(1 .. Size)
  BY DEF PipeInv, Pipe!TypeOK
<1>2. Passed \/ output = <<>>
  BY DEF PipeInv, Passing, Nothing
<1>3. Pipe!IsPrefix(output, Pipe!Message)
  <2>1. CASE Passed
    <3>1. buf \o input \in Seq(1 .. Size) /\ Stream = output \o (buf \o input)
      BY <1>1, Regroup, Zenon DEF Stream
    <3>2. Pipe!IsPrefix(output, output \o (buf \o input))
      BY <1>1, <3>1, Beginning, Zenon
    <3> QED
      BY <2>1, <3>1, <3>2 DEF Passed
  <2>2. CASE output = <<>>
    <3>1. Pipe!Message = output \o Pipe!Message
      BY <2>2, MessageType, ConcatEmptySeq
    <3> QED
      BY <1>1, <3>1, MessageType, Beginning
  <2> QED
    BY <1>2, <2>1, <2>2
<1> QED
  BY <1>3 DEF CopiedInOrder, Pipe!CopiedInOrder, PipeInv

LEMMA PipeInit == Pipe!Init => PipeInv
<1> SUFFICES ASSUME Pipe!Init PROVE PipeInv
  OBVIOUS
<1>1. <<>> \in Seq(1 .. Size)
  OBVIOUS
<1>2. source \in {"pipe", "file"}
  BY PartsAssumption DEF Pipe!Init, Pipe!PipeAssumption
<1>3. Pipe!TypeOK
  BY <1>1, MessageType DEF Pipe!Init, Pipe!TypeOK, Pipe!AllEnds
<1>4. source = "file" => Passed
  <2>1. (<<>> \o <<>>) \o Pipe!Message = Pipe!Message
    BY <1>1, MessageType, ConcatEmptySeq
  <2> QED
    BY <2>1 DEF Pipe!Init, Passed, Stream
<1>5. Passing
  BY <1>2, <1>4 DEF Passing, Pipe!Init, Pipe!AllEnds, Nothing
<1> QED
  BY <1>3, <1>5 DEF PipeInv, Pipe!Init

LEMMA ChildKeeps == PipeInv /\ Pipe!ChildStep => PipeInv'
<1> SUFFICES ASSUME PipeInv, Pipe!ChildStep PROVE PipeInv'
  OBVIOUS
<1> USE DEF Pipe!childUnchanged
<1>0. /\ Pipe!TypeOK /\ Passing
      /\ UNCHANGED <<source, parent, buf, output, failed>>
  BY DEF PipeInv, Pipe!ChildStep, Pipe!ChildStart, Pipe!ChildWrite, Pipe!ChildClose
<1>1. /\ parent' \in {"start", "read"} => buf' = <<>>
      /\ parent' \in {"close", "wait", "done"} /\ ~failed' => output' = Pipe!Message
  BY <1>0 DEF PipeInv
<1>2. CASE Pipe!ChildStart
  <2>1. child = "start" /\ child' = "write" /\ ends' = ends \ {<<"child", "read">>}
        /\ input' = input
    BY <1>2 DEF Pipe!ChildStart
  <2>2. Pipe!TypeOK'
    BY <1>0, <2>1 DEF Pipe!TypeOK
  <2>3. Passing'
    <3>1. <<"child", "write">> # <<"child", "read">> /\ <<"parent", "read">> # <<"child", "read">>
      OBVIOUS
    <3> QED
      BY <1>0, <2>1, <3>1 DEF Passing, Nothing
  <2> QED
    BY <1>1, <2>2, <2>3 DEF PipeInv
<1>3. CASE Pipe!ChildWrite
  <2>1. CASE child' = "close" /\ input' = Pipe!Message /\ ends' = ends
    <3>1. Pipe!TypeOK'
      BY <1>0, <2>1, MessageType DEF Pipe!TypeOK
    <3>2. source # "file" /\ Nothing
      BY <1>0, <1>3 DEF Passing, Pipe!ChildWrite
    <3>3. Passed'
      <4>1. (<<>> \o <<>>) \o Pipe!Message = Pipe!Message
        BY MessageType, ConcatEmptySeq, EmptySeq
      <4>2. output' = <<>> /\ buf' = <<>> /\ input' = Pipe!Message
        BY <1>0, <2>1, <3>2 DEF Nothing
      <4> QED
        BY <4>1, <4>2 DEF Passed, Stream, Pipe!Message
    <3>4. Passing'
      BY <1>0, <1>3, <2>1, <3>2, <3>3 DEF Passing, Pipe!ChildWrite
    <3> QED
      BY <1>1, <3>1, <3>4 DEF PipeInv
  <2>2. CASE /\ ~Pipe!Open("read") /\ input' = input
             /\ \/ child' = "fail" /\ ends' = ends
                \/ child' = "exit" /\ ends' = ends \ {<<"child", "write">>}
    <3>1. Pipe!TypeOK'
      BY <1>0, <2>2 DEF Pipe!TypeOK
    <3>2. source # "file" /\ Nothing
      BY <1>0, <1>3 DEF Passing, Pipe!ChildWrite
    <3>3. <<"parent", "read">> \notin ends
      BY <2>2 DEF Pipe!Open
    <3>4. parent \in {"wait", "done"}
      BY <1>0, <3>2, <3>3 DEF Passing, Pipe!TypeOK
    <3>5. Passing'
      BY <1>0, <1>3, <2>2, <3>2, <3>4 DEF Passing, Nothing, Pipe!ChildWrite
    <3> QED
      BY <1>1, <3>1, <3>5 DEF PipeInv
  <2> QED
    BY <1>3, <2>1, <2>2 DEF Pipe!ChildWrite
<1>4. CASE Pipe!ChildClose
  <2>1. child \in {"close", "fail"} /\ child' = "exit"
        /\ ends' = ends \ {<<"child", "write">>} /\ input' = input
    BY <1>4 DEF Pipe!ChildClose
  <2>2. Pipe!TypeOK'
    BY <1>0, <2>1 DEF Pipe!TypeOK
  <2>3. Passing'
    <3>1. <<"parent", "read">> # <<"child", "write">>
      OBVIOUS
    <3> QED
      BY <1>0, <2>1, <3>1 DEF Passing, Nothing, Passed, Stream, Pipe!Message
  <2> QED
    BY <1>1, <2>2, <2>3 DEF PipeInv
<1> QED
  BY <1>2, <1>3, <1>4 DEF Pipe!ChildStep

LEMMA ParentKeeps == PipeInv /\ (Pipe!ParentStep \/ Pipe!Fails) => PipeInv'
<1> SUFFICES ASSUME PipeInv, Pipe!ParentStep \/ Pipe!Fails PROVE PipeInv'
  OBVIOUS
<1>0. /\ Pipe!TypeOK /\ Passing /\ UNCHANGED <<source, child>>
      /\ input \in Seq(1 .. Size) /\ buf \in Seq(1 .. Size) /\ output \in Seq(1 .. Size)
  BY DEF PipeInv, Pipe!ParentStep, Pipe!ParentStart, Pipe!ReadSome, Pipe!ReadEnd,
         Pipe!WriteAll, Pipe!CloseRead, Pipe!Wait, Pipe!Fails, Pipe!TypeOK
<1> USE DEF Pipe!WriteEnd, Pipe!LeaveLoop, Pipe!Rest
<1>1. CASE Pipe!ParentStart \/ Pipe!CloseRead \/ Pipe!Wait \/ Pipe!Fails
  <2>1. UNCHANGED <<source, child, input, buf, output>>
    BY <1>1 DEF Pipe!ParentStart, Pipe!CloseRead, Pipe!Wait, Pipe!Fails
  <2>2. /\ ends' \subseteq ends
        /\ <<"child", "write">> \in ends => <<"child", "write">> \in ends'
        /\ <<"parent", "read">> \in ends /\ parent' # "wait" => <<"parent", "read">> \in ends'
    BY <1>1 DEF Pipe!ParentStart, Pipe!CloseRead, Pipe!Wait, Pipe!Fails
  <2>3. /\ parent' \in {"read", "close", "wait", "done"} /\ failed' \in BOOLEAN
        /\ parent \in {"wait", "done"} => parent' \in {"wait", "done"}
        /\ parent' = "read" => parent = "start"
        /\ parent' \notin {"wait", "done"} => parent \in {"start", "read", "write", "close"}
        /\ parent' \in {"close", "wait", "done"} /\ ~failed' =>
             parent \in {"close", "wait", "done"} /\ ~failed
    BY <1>0, <1>1, PartsAssumption
       DEF Pipe!ParentStart, Pipe!CloseRead, Pipe!Wait, Pipe!Fails, Pipe!TypeOK,
           Pipe!PipeAssumption
  <2>4. Pipe!TypeOK'
    <3>1. ends' \subseteq Pipe!AllEnds
      BY <1>0, <2>2 DEF Pipe!TypeOK
    <3>2. parent' \in {"start", "read", "write", "close", "wait", "done"}
      BY <2>3
    <3> QED
      BY <1>0, <2>1, <2>3, <3>1, <3>2 DEF Pipe!TypeOK, Pipe!AllEnds
  <2>5. Passing'
    <3>1. (Passed <=> Passed') /\ (Nothing <=> Nothing')
      BY <2>1 DEF Nothing, Passed, Stream, Pipe!Message
    <3>2. CASE source = "file"
      BY <1>0, <2>1, <3>1, <3>2 DEF Passing
    <3>3. CASE source # "file"
      <4>1. child' # "exit" => <<"child", "write">> \in ends'
        <5>1. child' = child /\ (child # "exit" => <<"child", "write">> \in ends)
          BY <1>0, <2>1, <3>3 DEF Passing
        <5> QED
          BY <2>2, <5>1
      <4>2. parent' \in {"start", "read", "write", "close"} => <<"parent", "read">> \in ends'
        BY <1>0, <2>2, <2>3, <3>3 DEF Passing
      <4>3. /\ child' \in {"start", "write"} => Nothing'
            /\ child' \notin {"start", "write"} =>
                 Passed' \/ (Nothing' /\ parent' \in {"wait", "done"})
            /\ child' = "close" => Passed'
        BY <1>0, <2>1, <2>3, <3>1, <3>3 DEF Passing
      <4> QED
        BY <2>1, <3>3, <4>1, <4>2, <4>3 DEF Passing
    <3> QED
      BY <3>2, <3>3
  <2> QED
    BY <2>1, <2>3, <2>4, <2>5 DEF PipeInv, Pipe!Message
<1>2. CASE Pipe!ReadSome
  <2>1. PICK n \in 1 .. Buf :
          /\ n <= Len(input)
          /\ buf' = SubSeq(input, 1, n) /\ input' = SubSeq(input, n + 1, Len(input))
    BY <1>2 DEF Pipe!ReadSome
  <2>2. /\ parent = "read" /\ parent' = "write" /\ buf = <<>>
        /\ UNCHANGED <<source, ends, child, output, failed>>
    BY <1>2 DEF Pipe!ReadSome, PipeInv
  <2>3. n \in 1 .. Len(input)
    BY <1>0, <2>1, PartsAssumption, LenProperties DEF Pipe!PipeAssumption
  <2>4. buf' \in Seq(1 .. Size) /\ input' \in Seq(1 .. Size) /\ buf' \o input' = input
    BY <1>0, <2>1, <2>3, Cut
  <2>5. Stream' = Stream
    <3>1. (output \o buf') \o input' = output \o (buf' \o input')
      BY <1>0, <2>4, Regroup, Zenon
    <3>2. output \o buf = output
      BY <1>0, <2>2, ConcatEmptySeq
    <3> QED
      BY <2>2, <2>4, <3>1, <3>2 DEF Stream
  <2>6. input # <<>>
    BY <2>3
  <2>7. Passing'
    BY <1>0, <2>2, <2>5, <2>6 DEF Passing, Nothing, Passed, Pipe!Message
  <2>8. Pipe!TypeOK'
    BY <1>0, <2>2, <2>4 DEF Pipe!TypeOK
  <2> QED
    BY <2>2, <2>7, <2>8 DEF PipeInv
<1>3. CASE Pipe!ReadEnd
  <2>1. /\ parent = "read" /\ input = <<>> /\ ~Pipe!Open("write") /\ buf = <<>>
        /\ parent' = "close" /\ failed' = FALSE
        /\ UNCHANGED <<source, input, ends, child, buf, output>>
    BY <1>3 DEF Pipe!ReadEnd, PipeInv
  <2>2. <<"child", "write">> \notin ends
    BY <2>1 DEF Pipe!Open
  <2>3. Passed
    BY <1>0, <2>1, <2>2 DEF Passing
  <2>4. output = Pipe!Message
    <3>1. (output \o <<>>) \o <<>> = output
      BY <1>0, ConcatEmptySeq
    <3> QED
      BY <2>1, <2>3, <3>1 DEF Passed, Stream
  <2>5. Passing'
    BY <1>0, <2>1 DEF Passing, Nothing, Passed, Stream, Pipe!Message
  <2>6. Pipe!TypeOK'
    BY <1>0, <2>1 DEF Pipe!TypeOK
  <2> QED
    BY <2>1, <2>4, <2>5, <2>6 DEF PipeInv, Pipe!Message
<1>4. CASE Pipe!WriteAll
  <2>1. PICK n \in 1 .. Buf :
          /\ n <= Len(buf)
          /\ output' = output \o SubSeq(buf, 1, n) /\ buf' = SubSeq(buf, n + 1, Len(buf))
    BY <1>4 DEF Pipe!WriteAll
  <2>2. /\ parent = "write" /\ parent' = IF buf' = <<>> THEN "read" ELSE "write"
        /\ UNCHANGED <<source, input, ends, child, failed>>
    BY <1>4 DEF Pipe!WriteAll
  <2>3. n \in 1 .. Len(buf)
    BY <1>0, <2>1, PartsAssumption, LenProperties DEF Pipe!PipeAssumption
  <2> DEFINE put == SubSeq(buf, 1, n)
  <2>4. put \in Seq(1 .. Size) /\ buf' \in Seq(1 .. Size) /\ put \o buf' = buf
    BY <1>0, <2>1, <2>3, Cut
  <2>5. output' = output \o put
    BY <2>1
  <2> HIDE DEF put
  <2>6. output' \in Seq(1 .. Size) /\ output' \o buf' = output \o buf
    <3>1. output \o put \in Seq(1 .. Size) /\ (output \o put) \o buf' = output \o (put \o buf')
      BY <1>0, <2>4, Regroup, Zenon
    <3> QED
      BY <2>4, <2>5, <3>1, Zenon
  <2>7. Stream' = Stream
    BY <2>2, <2>6 DEF Stream
  <2>8. buf # <<>>
    BY <2>3
  <2>9. Passing'
    BY <1>0, <2>2, <2>7, <2>8 DEF Passing, Nothing, Passed, Pipe!Message
  <2>10. Pipe!TypeOK'
    BY <1>0, <2>2, <2>4, <2>6 DEF Pipe!TypeOK
  <2> QED
    BY <2>2, <2>9, <2>10 DEF PipeInv
<1> QED
  BY <1>1, <1>2, <1>3, <1>4 DEF Pipe!ParentStep

\* The inductive invariant of the copy, through the pipe and from the file.
THEOREM PipeInvariance == Pipe!Spec => []PipeInv
<1>1. PipeInv /\ [Pipe!Next]_(Pipe!pipeVars) => PipeInv'
  <2> SUFFICES ASSUME PipeInv, [Pipe!Next]_(Pipe!pipeVars) PROVE PipeInv'
    OBVIOUS
  <2>1. CASE Pipe!Next
    BY <2>1, ChildKeeps, ParentKeeps DEF Pipe!Next
  <2>2. CASE UNCHANGED Pipe!pipeVars
    BY <2>2 DEF Pipe!pipeVars, PipeInv, Pipe!TypeOK, Passing, Nothing, Passed, Stream,
                Pipe!Message
  <2> QED
    BY <2>1, <2>2
<1> QED
  BY <1>1, PipeInit, PTL DEF Pipe!Spec

\* However reads and writes are cut and whichever of them fails, the output is a
\* beginning of the message or the file, and all of it when the parent's loop
\* ended by itself: pipe_demo.c's two processes, cat_fd.c's loop, write_all.
THEOREM CopyInOrder == Pipe!Spec => []CopiedInOrder
  BY PipeInvariance, PipeEnough, PTL

---------------------------------------------------------------------------
(* The counters.  A round of a thread is a pair, so that what was counted  *)
(* can be a set: Begun, of the rounds that began, and Added, of those that *)
(* have written or whose allocation failed.  The atomic count is the       *)
(* number of the first; the other count and the failures together are the  *)
(* number of the second, because the mutex keeps what a thread has read    *)
(* until it writes (Excluded).  Each thread in a round is in its           *)
(* round[t]-th, and leaves after the last (Paced).                         *)

AllRounds == Threads \X (1 .. Rounds)

Wrote(t) == pc[t] \in {"unlock", "next", "exit"}
Begun == {p \in AllRounds : p[2] <= round[p[1]]}
Added == {p \in AllRounds : p[2] < round[p[1]] \/ (p[2] = round[p[1]] /\ Wrote(p[1]))}

Excluded ==
  /\ \A t \in Threads : mutex = t <=> pc[t] \in {"read", "write", "unlock"}
  /\ \A t \in Threads : pc[t] = "write" => copy[t] = count

Paced ==
  /\ \A t \in Threads : pc[t] \notin {"next", "exit"} => round[t] > 0
  /\ \A t \in Threads : pc[t] = "exit" => round[t] = Rounds

Tallied ==
  /\ atomic = IF program = "counter" THEN Cardinality(Begun) ELSE 0
  /\ count + failures = Cardinality(Added)
  /\ program = "counter" => failures = 0

Compared ==
  verdict # "joining" => /\ \A t \in Threads : pc[t] = "exit"
                         /\ verdict = "passed" <=> count = Counters!Expected

CountInv == Counters!TypeOK /\ Excluded /\ Paced /\ Tallied /\ Compared

\* An instance has its own copy of the operators its module extends.
LEMMA SameFinite == Counters!IsFiniteSet(Threads) <=> IsFiniteSet(Threads)
  BY DEF Counters!IsFiniteSet, IsFiniteSet

LEMMA SameCardinality == Counters!Cardinality(Threads) = Cardinality(Threads)
  BY DEF Counters!Cardinality, Cardinality

\* Of what there is to count.
LEMMA Many ==
  /\ IsFiniteSet(AllRounds) /\ Cardinality(AllRounds) = Cardinality(Threads) * Rounds
  /\ Cardinality(Threads) * Rounds \in Nat
  /\ \A X \in SUBSET AllRounds : IsFiniteSet(X) /\ Cardinality(X) \in 0 .. Cardinality(Threads) * Rounds
<1>1. IsFiniteSet(Threads) /\ Rounds \in Nat
  BY PartsAssumption, SameFinite DEF Counters!CountersAssumption
<1>2. IsFiniteSet(1 .. Rounds) /\ Cardinality(1 .. Rounds) = Rounds
  <2>1. /\ IsFiniteSet(1 .. Rounds)
        /\ Cardinality(1 .. Rounds) = IF 1 > Rounds THEN 0 ELSE Rounds - 1 + 1
    BY <1>1, FS_Interval
  <2> QED
    BY <1>1, <2>1
<1>3. IsFiniteSet(AllRounds) /\ Cardinality(AllRounds) = Cardinality(Threads) * Rounds
  BY <1>1, <1>2, FS_Product DEF AllRounds
<1>4. Cardinality(AllRounds) \in Nat
  BY <1>3, FS_CardinalityType
<1>5. ASSUME NEW X \in SUBSET AllRounds
      PROVE  IsFiniteSet(X) /\ Cardinality(X) \in 0 .. Cardinality(AllRounds)
  <2>1. IsFiniteSet(X) /\ Cardinality(X) <= Cardinality(AllRounds)
    BY <1>3, FS_Subset
  <2>2. Cardinality(X) \in Nat
    BY <2>1, FS_CardinalityType
  <2> QED
    BY <1>4, <2>1, <2>2
<1> QED
  BY <1>3, <1>4, <1>5

LEMMA OneMore ==
  ASSUME NEW X \in SUBSET AllRounds, NEW p, p \notin X
  PROVE  Cardinality(X \cup {p}) = Cardinality(X) + 1
  BY Many, FS_AddElement

\* The parts of the type invariant that the counts do not bear on.
LEMMA CountTypes ==
  ASSUME CountInv
  PROVE  /\ atomic \in Nat /\ count \in Nat /\ failures \in Nat
         /\ pc \in [Threads -> {"next", "lock", "read", "write", "unlock", "exit"}]
         /\ round \in [Threads -> 0 .. Rounds] /\ copy \in [Threads -> Nat]
         /\ Rounds \in Nat /\ Free \notin Threads /\ MaxFailures \in Nat
         /\ Begun \in SUBSET AllRounds /\ Added \in SUBSET AllRounds
<1>1. atomic \in Nat /\ count \in Nat
  BY Many, SameCardinality DEF CountInv, Counters!TypeOK
<1>2. failures \in Nat /\ Rounds \in Nat /\ Free \notin Threads /\ MaxFailures \in Nat
  BY PartsAssumption DEF CountInv, Counters!TypeOK, Counters!CountersAssumption
<1> QED
  BY <1>1, <1>2 DEF CountInv, Counters!TypeOK, Begun, Added

LEMMA CountInit == Counters!Init => CountInv
<1> SUFFICES ASSUME Counters!Init PROVE CountInv
  OBVIOUS
<1>1. Rounds \in Nat /\ MaxFailures \in Nat /\ Free \notin Threads
  BY PartsAssumption DEF Counters!CountersAssumption
<1>2. Begun = {} /\ Added = {}
  <2>1. \A p \in AllRounds : p[2] \in 1 .. Rounds /\ round[p[1]] = 0
    BY DEF AllRounds, Counters!Init
  <2> QED
    BY <1>1, <2>1 DEF Begun, Added
<1>3. Cardinality({}) = 0
  BY FS_EmptySet
<1>4. Counters!TypeOK
  <2>1. round \in [Threads -> 0 .. Rounds]
    BY <1>1 DEF Counters!Init
  <2>2. copy \in [Threads -> Nat]
    BY DEF Counters!Init
  <2>3. 0 \in 0 .. Cardinality(Threads) * Rounds
    BY Many
  <2> QED
    BY <1>1, <2>1, <2>2, <2>3, SameCardinality DEF Counters!Init, Counters!TypeOK
<1>5. Excluded
  BY <1>1 DEF Counters!Init, Excluded
<1>6. Paced
  BY DEF Counters!Init, Paced
<1>7. Tallied
  BY <1>2, <1>3 DEF Counters!Init, Tallied
<1> QED
  BY <1>4, <1>5, <1>6, <1>7 DEF CountInv, Compared, Counters!Init

---------------------------------------------------------------------------
\* A thread's next round.
LEMMA BeginKeeps ==
  ASSUME CountInv, NEW t \in Threads, Counters!Begin(t)
  PROVE  CountInv'
<1> DEFINE p == <<t, round[t] + 1>>
<1>1. /\ pc[t] = "next" /\ round[t] \in Nat /\ round[t] < Rounds
      /\ round' = [round EXCEPT ![t] = round[t] + 1]
      /\ pc' = [pc EXCEPT ![t] = "lock"]
      /\ atomic' = IF program = "counter" THEN atomic + 1 ELSE atomic
      /\ UNCHANGED <<program, count, mutex, copy, failures, verdict>>
  BY CountTypes DEF Counters!Begin, Counters!Goto
<1>2. \A u \in Threads :
        /\ round'[u] = IF u = t THEN round[t] + 1 ELSE round[u]
        /\ pc'[u] = IF u = t THEN "lock" ELSE pc[u]
  BY <1>1, CountTypes
<1>3. p \in AllRounds /\ p[1] = t /\ p[2] = round[t] + 1
  BY <1>1, CountTypes DEF AllRounds
<1>4. \A q \in AllRounds : q = <<q[1], q[2]>> /\ q[1] \in Threads /\ q[2] \in Nat /\ q[2] > 0
  BY CountTypes DEF AllRounds
<1>5. \A q \in AllRounds : round[q[1]] \in Nat
  BY <1>4, CountTypes
<1>6. Begun' = Begun \cup {p} /\ p \notin Begun
  <2>1. p \notin Begun
    BY <1>1, <1>3 DEF Begun
  <2>2. \A q \in AllRounds : q[2] <= round'[q[1]] <=> q[2] <= round[q[1]] \/ q = p
    BY <1>1, <1>2, <1>3, <1>4, <1>5
  <2> QED
    BY <1>3, <2>1, <2>2 DEF Begun
<1>7. Added' = Added
  <2>1. \A q \in AllRounds :
          (q[2] < round'[q[1]] \/ (q[2] = round'[q[1]] /\ Wrote(q[1])'))
          <=> (q[2] < round[q[1]] \/ (q[2] = round[q[1]] /\ Wrote(q[1])))
    <3> SUFFICES ASSUME NEW q \in AllRounds
                 PROVE  (q[2] < round'[q[1]] \/ (q[2] = round'[q[1]] /\ Wrote(q[1])'))
                        <=> (q[2] < round[q[1]] \/ (q[2] = round[q[1]] /\ Wrote(q[1])))
      OBVIOUS
    <3>1. CASE q[1] = t
      <4>1. Wrote(t) /\ ~Wrote(t)'
        BY <1>1, <1>2 DEF Wrote
      <4>2. q[2] < round[t] + 1 <=> q[2] < round[t] \/ q[2] = round[t]
        BY <1>1, <1>4
      <4> QED
        BY <1>2, <3>1, <4>1, <4>2
    <3>2. CASE q[1] # t
      BY <1>2, <1>4, <3>2 DEF Wrote
    <3> QED
      BY <3>1, <3>2
  <2> QED
    BY <2>1 DEF Added
<1>8. Tallied'
  <2>1. Cardinality(Begun') = Cardinality(Begun) + 1
    BY <1>6, OneMore, CountTypes
  <2>2. Tallied
    BY DEF CountInv
  <2>3. atomic' = IF program = "counter" THEN Cardinality(Begun') ELSE 0
    BY <1>1, <2>1, <2>2 DEF Tallied
  <2> QED
    BY <1>1, <1>7, <2>2, <2>3 DEF Tallied
<1> HIDE DEF p
<1>9. Counters!TypeOK'
  <2>1. Begun' \in SUBSET AllRounds
    BY DEF Begun
  <2>2. atomic' \in 0 .. Cardinality(Threads) * Rounds
    <3>1. Cardinality(Begun') \in 0 .. Cardinality(Threads) * Rounds
      BY <2>1, Many
    <3> QED
      BY <1>8, <3>1, Many DEF Tallied
  <2>3. round' \in [Threads -> 0 .. Rounds]
    BY <1>1, CountTypes
  <2>4. pc' \in [Threads -> {"next", "lock", "read", "write", "unlock", "exit"}]
    BY <1>1, CountTypes
  <2> QED
    BY <1>1, <2>2, <2>3, <2>4, SameCardinality DEF CountInv, Counters!TypeOK
<1>10. Excluded'
  <2>1. Excluded
    BY DEF CountInv
  <2> QED
    BY <1>1, <1>2, <2>1 DEF Excluded
<1>11. Paced'
  BY <1>1, <1>2 DEF CountInv, Paced
<1>12. Compared'
  BY <1>1 DEF CountInv, Compared
<1> QED
  BY <1>8, <1>9, <1>10, <1>11, <1>12 DEF CountInv

\* Steps that begin no round, and steps after which the same threads have written.
LEMMA SameBegun == UNCHANGED round => Begun' = Begun
  BY DEF Begun

LEMMA SameAdded ==
  ASSUME UNCHANGED round, \A u \in Threads : Wrote(u)' <=> Wrote(u)
  PROVE  Added' = Added
<1>1. \A q \in AllRounds : q[1] \in Threads
  BY DEF AllRounds
<1> QED
  BY <1>1 DEF Added

\* What a step that only moves a thread, and maybe takes or frees the mutex, keeps.
LEMMA MoveKeeps ==
  ASSUME CountInv, NEW t \in Threads, NEW l \in {"next", "lock", "read", "write", "unlock", "exit"},
         pc' = [pc EXCEPT ![t] = l],
         UNCHANGED <<program, atomic, count, round, failures, verdict>>,
         Wrote(t) <=> l \in {"unlock", "next", "exit"},
         pc[t] # "exit"
  PROVE  /\ Tallied' /\ Compared'
         /\ pc' \in [Threads -> {"next", "lock", "read", "write", "unlock", "exit"}]
         /\ \A u \in Threads : pc'[u] = IF u = t THEN l ELSE pc[u]
<1>1. \A u \in Threads : pc'[u] = IF u = t THEN l ELSE pc[u]
  BY CountTypes
<1>2. pc' \in [Threads -> {"next", "lock", "read", "write", "unlock", "exit"}]
  BY CountTypes
<1>3. Begun' = Begun
  BY SameBegun
<1>4. Added' = Added
  <2>1. \A u \in Threads : Wrote(u)' <=> Wrote(u)
    BY <1>1 DEF Wrote
  <2> QED
    BY <2>1, SameAdded
<1>5. Tallied'
  BY <1>3, <1>4 DEF CountInv, Tallied
<1>6. Compared'
  BY DEF CountInv, Compared
<1> QED
  BY <1>1, <1>2, <1>5, <1>6

\* A thread leaves, takes the mutex, reads, frees the mutex.
LEMMA ExitKeeps ==
  ASSUME CountInv, NEW t \in Threads, Counters!Exit(t)
  PROVE  CountInv'
<1>1. /\ pc[t] = "next" /\ round[t] = Rounds /\ pc' = [pc EXCEPT ![t] = "exit"]
      /\ UNCHANGED <<program, atomic, count, mutex, copy, round, failures, verdict>>
  BY DEF Counters!Exit, Counters!Goto
<1>2. /\ Tallied' /\ Compared'
      /\ pc' \in [Threads -> {"next", "lock", "read", "write", "unlock", "exit"}]
      /\ \A u \in Threads : pc'[u] = IF u = t THEN "exit" ELSE pc[u]
  BY <1>1, MoveKeeps DEF Wrote
<1>3. Excluded' /\ Paced'
  BY <1>1, <1>2 DEF CountInv, Excluded, Paced
<1>4. Counters!TypeOK'
  BY <1>1, <1>2 DEF CountInv, Counters!TypeOK
<1> QED
  BY <1>2, <1>3, <1>4 DEF CountInv

LEMMA LockKeeps ==
  ASSUME CountInv, NEW t \in Threads, Counters!Lock(t)
  PROVE  CountInv'
<1>1. /\ pc[t] = "lock" /\ mutex = Free /\ mutex' = t /\ pc' = [pc EXCEPT ![t] = "read"]
      /\ UNCHANGED <<program, atomic, count, copy, round, failures, verdict>>
  BY DEF Counters!Lock, Counters!CanLock, Counters!Goto
<1>2. /\ Tallied' /\ Compared'
      /\ pc' \in [Threads -> {"next", "lock", "read", "write", "unlock", "exit"}]
      /\ \A u \in Threads : pc'[u] = IF u = t THEN "read" ELSE pc[u]
  BY <1>1, MoveKeeps DEF Wrote
<1>3. \A u \in Threads : mutex # u
  BY <1>1, CountTypes
<1>4. Excluded'
  BY <1>1, <1>2, <1>3 DEF CountInv, Excluded
<1>5. Paced'
  BY <1>1, <1>2 DEF CountInv, Paced
<1>6. Counters!TypeOK'
  BY <1>1, <1>2 DEF CountInv, Counters!TypeOK
<1> QED
  BY <1>2, <1>4, <1>5, <1>6 DEF CountInv

LEMMA ReadKeeps ==
  ASSUME CountInv, NEW t \in Threads, Counters!Read(t)
  PROVE  CountInv'
<1>1. /\ pc[t] = "read" /\ copy' = [copy EXCEPT ![t] = count]
      /\ pc' = [pc EXCEPT ![t] = "write"]
      /\ UNCHANGED <<program, atomic, count, mutex, round, failures, verdict>>
  BY DEF Counters!Read, Counters!Goto
<1>2. /\ Tallied' /\ Compared'
      /\ pc' \in [Threads -> {"next", "lock", "read", "write", "unlock", "exit"}]
      /\ \A u \in Threads : pc'[u] = IF u = t THEN "write" ELSE pc[u]
  BY <1>1, MoveKeeps DEF Wrote
<1>3. /\ copy' \in [Threads -> Nat]
      /\ \A u \in Threads : copy'[u] = IF u = t THEN count ELSE copy[u]
  BY <1>1, CountTypes
<1>4. Excluded'
  BY <1>1, <1>2, <1>3 DEF CountInv, Excluded
<1>5. Paced'
  BY <1>1, <1>2 DEF CountInv, Paced
<1>6. Counters!TypeOK'
  BY <1>1, <1>2, <1>3 DEF CountInv, Counters!TypeOK
<1> QED
  BY <1>2, <1>4, <1>5, <1>6 DEF CountInv

LEMMA UnlockKeeps ==
  ASSUME CountInv, NEW t \in Threads, Counters!Unlock(t)
  PROVE  CountInv'
<1>1. /\ pc[t] = "unlock" /\ mutex' = Free /\ pc' = [pc EXCEPT ![t] = "next"]
      /\ UNCHANGED <<program, atomic, count, copy, round, failures, verdict>>
  BY DEF Counters!Unlock, Counters!Goto
<1>2. /\ Tallied' /\ Compared'
      /\ pc' \in [Threads -> {"next", "lock", "read", "write", "unlock", "exit"}]
      /\ \A u \in Threads : pc'[u] = IF u = t THEN "next" ELSE pc[u]
  BY <1>1, MoveKeeps DEF Wrote
<1>3. \A u \in Threads : mutex' # u /\ (u # t => mutex # u)
  BY <1>1, CountTypes DEF CountInv, Excluded
<1>4. Excluded'
  BY <1>1, <1>2, <1>3 DEF CountInv, Excluded
<1>5. Paced'
  BY <1>1, <1>2 DEF CountInv, Paced
<1>6. Counters!TypeOK'
  BY <1>1, <1>2 DEF CountInv, Counters!TypeOK
<1> QED
  BY <1>2, <1>4, <1>5, <1>6 DEF CountInv

\* The write under the mutex: what was read is still the count.
LEMMA WriteKeeps ==
  ASSUME CountInv, NEW t \in Threads, Counters!Write(t)
  PROVE  CountInv'
<1> DEFINE p == <<t, round[t]>>
<1>1. /\ pc[t] = "write" /\ pc' = [pc EXCEPT ![t] = "unlock"]
      /\ copy' = [copy EXCEPT ![t] = 0]
      /\ UNCHANGED <<program, atomic, mutex, round, verdict>>
  BY DEF Counters!Write, Counters!Goto
<1>2. /\ pc' \in [Threads -> {"next", "lock", "read", "write", "unlock", "exit"}]
      /\ \A u \in Threads : pc'[u] = IF u = t THEN "unlock" ELSE pc[u]
  BY <1>1, CountTypes
<1>3. /\ copy' \in [Threads -> Nat]
      /\ \A u \in Threads : u # t => copy'[u] = copy[u]
  BY <1>1, CountTypes
<1>4. copy[t] = count /\ round[t] \in 1 .. Rounds /\ verdict = "joining"
  BY <1>1, CountTypes DEF CountInv, Excluded, Paced, Compared
<1>5. /\ count' \in Nat /\ failures' \in Nat /\ count' + failures' = count + failures + 1
      /\ failures' # failures => program = "queue" /\ failures' \in 0 .. MaxFailures
  BY <1>4, CountTypes DEF Counters!Write
<1>6. Added' = Added \cup {p} /\ p \notin Added
  <2>1. p \in AllRounds /\ p[1] = t /\ p[2] = round[t]
    BY <1>4 DEF AllRounds
  <2>2. p \notin Added
    BY <1>1, <1>4, <2>1 DEF Added, Wrote
  <2>3. \A q \in AllRounds : q = <<q[1], q[2]>> /\ q[1] \in Threads /\ q[2] \in Nat
    BY CountTypes DEF AllRounds
  <2>4. \A q \in AllRounds :
          (q[2] < round'[q[1]] \/ (q[2] = round'[q[1]] /\ Wrote(q[1])'))
          <=> (q[2] < round[q[1]] \/ (q[2] = round[q[1]] /\ Wrote(q[1]))) \/ q = p
    <3> SUFFICES ASSUME NEW q \in AllRounds
                 PROVE  (q[2] < round'[q[1]] \/ (q[2] = round'[q[1]] /\ Wrote(q[1])'))
                        <=> (q[2] < round[q[1]] \/ (q[2] = round[q[1]] /\ Wrote(q[1]))) \/ q = p
      OBVIOUS
    <3>1. CASE q[1] = t
      <4>1. Wrote(t)'
        BY <1>2 DEF Wrote
      <4>2. q = p <=> q[2] = round[t]
        BY <2>1, <2>3, <3>1
      <4> QED
        BY <1>1, <3>1, <4>1, <4>2
    <3>2. CASE q[1] # t
      BY <1>1, <1>2, <2>1, <2>3, <3>2 DEF Wrote
    <3> QED
      BY <3>1, <3>2
  <2> QED
    BY <2>1, <2>2, <2>4 DEF Added
<1>7. Tallied'
  <2>1. Cardinality(Added') = Cardinality(Added) + 1
    BY <1>6, OneMore, CountTypes
  <2>2. Begun' = Begun
    BY <1>1, SameBegun
  <2>3. count' + failures' = Cardinality(Added')
    BY <1>5, <2>1 DEF CountInv, Tallied
  <2>4. program' = "counter" => failures' = 0
    BY <1>1, <1>5 DEF CountInv, Tallied
  <2> QED
    BY <1>1, <2>2, <2>3, <2>4 DEF CountInv, Tallied
<1> HIDE DEF p
<1>8. Counters!TypeOK'
  <2>1. Cardinality(Added') \in 0 .. Cardinality(Threads) * Rounds
    <3>1. Added' \in SUBSET AllRounds
      BY DEF Added
    <3> QED
      BY <3>1, Many
  <2>2. count' \in 0 .. Cardinality(Threads) * Rounds
    BY <1>5, <1>7, <2>1, Many DEF Tallied
  <2>3. failures' \in 0 .. MaxFailures
    BY <1>5 DEF CountInv, Counters!TypeOK
  <2> QED
    BY <1>1, <1>2, <1>3, <2>2, <2>3, SameCardinality DEF CountInv, Counters!TypeOK
<1>9. Excluded'
  <2>1. \A u \in Threads : u # t => pc[u] # "write"
    BY <1>1 DEF CountInv, Excluded
  <2>2. \A u \in Threads : pc'[u] # "write"
    BY <1>2, <2>1
  <2> QED
    BY <1>1, <1>2, <2>2 DEF CountInv, Excluded
<1>10. Paced'
  BY <1>1, <1>2 DEF CountInv, Paced
<1>11. Compared'
  BY <1>1, <1>4 DEF Compared
<1> QED
  BY <1>7, <1>8, <1>9, <1>10, <1>11 DEF CountInv

\* Main compares when all have left.
LEMMA CompareKeeps == CountInv /\ Counters!Compare => CountInv'
<1> SUFFICES ASSUME CountInv, Counters!Compare PROVE CountInv'
  OBVIOUS
<1>1. /\ \A t \in Threads : pc[t] = "exit"
      /\ verdict' = IF count = Counters!Expected THEN "passed" ELSE "failed"
      /\ UNCHANGED <<program, atomic, count, mutex, copy, pc, round, failures>>
  BY DEF Counters!Compare
<1>2. Begun' = Begun /\ Added' = Added
  BY <1>1, SameBegun, SameAdded DEF Wrote
<1>3. Tallied' /\ Excluded' /\ Paced'
  BY <1>1, <1>2 DEF CountInv, Tallied, Excluded, Paced
<1>4. Counters!TypeOK'
  BY <1>1 DEF CountInv, Counters!TypeOK
<1>5. Compared'
  BY <1>1 DEF Compared, Counters!Expected
<1> QED
  BY <1>3, <1>4, <1>5 DEF CountInv

---------------------------------------------------------------------------
\* The inductive invariant of both counting programs.
THEOREM CountInvariance == Counters!Spec => []CountInv
<1>1. CountInv /\ [Counters!Next]_(Counters!counterVars) => CountInv'
  <2> SUFFICES ASSUME CountInv, [Counters!Next]_(Counters!counterVars) PROVE CountInv'
    OBVIOUS
  <2>1. CASE UNCHANGED Counters!counterVars
    <3>1. Begun' = Begun /\ Added' = Added
      BY <2>1, SameBegun, SameAdded DEF Counters!counterVars, Wrote
    <3> QED
      BY <2>1, <3>1
         DEF Counters!counterVars, CountInv, Counters!TypeOK, Tallied, Excluded, Paced,
             Compared, Counters!Expected
  <2>2. CASE Counters!Compare
    BY <2>2, CompareKeeps
  <2>3. ASSUME NEW t \in Threads, Counters!Step(t) PROVE CountInv'
    BY <2>3, BeginKeeps, ExitKeeps, LockKeeps, ReadKeeps, WriteKeeps, UnlockKeeps
       DEF Counters!Step
  <2> QED
    BY <2>1, <2>2, <2>3 DEF Counters!Next
<1> QED
  BY <1>1, CountInit, PTL DEF Counters!Spec

\* Once main has compared, no increment and no element was lost: the verdict is
\* bad only if a push failed, and the atomic counted every round
\* (Thread_safe_counter.cpp's and RAII_lock_wrapper.cpp's mains).
Verdict == verdict # "joining" => Counters!CountsRight

THEOREM CountedRight == Counters!Spec => []Verdict
<1>1. CountInv => Verdict
  <2> SUFFICES ASSUME CountInv, verdict # "joining" PROVE Counters!CountsRight
    BY DEF Verdict
  <2>1. \A t \in Threads : pc[t] = "exit" /\ round[t] = Rounds
    BY DEF CountInv, Compared, Paced
  <2>2. Begun = AllRounds /\ Added = AllRounds
    <3>1. \A p \in AllRounds : p[1] \in Threads /\ p[2] \in Nat /\ p[2] <= Rounds
      BY CountTypes DEF AllRounds
    <3>2. \A p \in AllRounds : p[2] <= round[p[1]]
      BY <2>1, <3>1
    <3>3. \A p \in AllRounds : p[2] < round[p[1]] \/ (p[2] = round[p[1]] /\ Wrote(p[1]))
      BY <2>1, <3>1, CountTypes DEF Wrote
    <3> QED
      BY <3>2, <3>3 DEF Begun, Added
  <2>3. PICK n \in Nat : n = Cardinality(Threads) * Rounds
    BY Many
  <2>4. Cardinality(AllRounds) = n
    BY <2>3, Many
  <2>5. /\ atomic = IF program = "counter" THEN n ELSE 0
        /\ count + failures = n
        /\ program = "counter" => failures = 0
    BY <2>2, <2>4 DEF CountInv, Tallied
  <2>6. Counters!Expected = n
    BY <2>3, <2>5, SameCardinality DEF Counters!Expected
  <2>7. count \in Nat /\ failures \in Nat
    BY CountTypes
  <2>8. verdict = "passed" <=> failures = 0
    BY <2>5, <2>6, <2>7 DEF CountInv, Compared
  <2> QED
    BY <2>3, <2>5, <2>8, SameCardinality DEF Counters!CountsRight
<1> QED
  BY <1>1, CountInvariance, PTL

---------------------------------------------------------------------------
(* All of them together, as they are model-checked.  Every step of the     *)
(* composition is a step of one part or a stutter of it, so that it        *)
(* behaves as each part's specification allows.                            *)

LEMMA BridgeTypesInit == Bridge!Init => Bridge!TypeOK
<1> SUFFICES ASSUME Bridge!Init PROVE Bridge!TypeOK
  OBVIOUS
<1>1. posted \in 0 .. MaxPosted /\ starts \in 0 .. MaxStarts /\ signals \in 0 .. MaxSignals
  BY PartsAssumption DEF Bridge!Init, Bridge!BridgeAssumption
<1>2. {running, seen, ok, closing} \subseteq BOOLEAN
  BY Zenon DEF Bridge!Init
<1> QED
  BY <1>1, <1>2 DEF Bridge!Init, Bridge!TypeOK

LEMMA BridgeTypesStep ==
  ASSUME Bridge!TypeOK, [Bridge!Next]_(Bridge!bridgeVars)
  PROVE  Bridge!TypeOK'
<1> USE DEF Bridge!TypeOK, Bridge!spinUnchanged
<1>0. MaxStarts \in Nat /\ MaxPosted \in Nat /\ MaxSignals \in Nat
  BY PartsAssumption DEF Bridge!BridgeAssumption
<1>1. CASE UNCHANGED Bridge!bridgeVars
  BY <1>1 DEF Bridge!bridgeVars
<1>2. CASE Bridge!ClickStart
  <2>1. starts' \in 0 .. MaxStarts
    BY <1>0, <1>2 DEF Bridge!ClickStart
  <2>2. {running', seen', ok', closing'} \subseteq BOOLEAN
    BY <1>2 DEF Bridge!ClickStart
  <2> QED
    BY <1>2, <2>1, <2>2 DEF Bridge!ClickStart
<1>3. ASSUME Bridge!Stop, closing' = closing PROVE Bridge!TypeOK'
  BY <1>3 DEF Bridge!Stop, Bridge!Settle
<1>4. CASE Bridge!ClickStop
  BY <1>3, <1>4 DEF Bridge!ClickStop
<1>5. CASE Bridge!CloseWindow
  BY <1>5 DEF Bridge!CloseWindow
<1>6. CASE Bridge!Create
  BY <1>6 DEF Bridge!Create
<1>7. CASE Bridge!Join
  BY <1>7 DEF Bridge!Join, Bridge!Settle
<1>8. CASE Bridge!Destroy
  BY <1>3, <1>8 DEF Bridge!Destroy
<1>9. CASE Bridge!ShowMessage
  BY <1>0, <1>9 DEF Bridge!ShowMessage
<1>10. CASE Bridge!AddNode \/ Bridge!LoopTest \/ Bridge!RemoveNode
  BY <1>10 DEF Bridge!AddNode, Bridge!LoopTest, Bridge!RemoveNode
<1>10a. CASE Bridge!AddThrows
  BY <1>10a DEF Bridge!AddThrows
<1>11. CASE Bridge!Collect
  BY <1>11 DEF Bridge!Collect
<1>12. CASE Bridge!Publish
  BY <1>12 DEF Bridge!Publish, Bridge!Continue
<1>13. CASE Bridge!Deliver
  BY <1>0, <1>13 DEF Bridge!Deliver, Bridge!Continue
<1>14. CASE Bridge!Propagate
  BY <1>14 DEF Bridge!Propagate
<1>15. CASE Bridge!Signal
  <2>1. signals' \in 0 .. MaxSignals
    BY <1>0, <1>15 DEF Bridge!Signal
  <2>2. {running', seen', ok', closing'} \subseteq BOOLEAN
    BY <1>15 DEF Bridge!Signal
  <2> QED
    BY <1>15, <2>1, <2>2 DEF Bridge!Signal
<1> QED
  BY <1>1, <1>2, <1>4, <1>5, <1>6, <1>7, <1>8, <1>9, <1>10, <1>10a, <1>11, <1>12, <1>13, <1>14,
     <1>15 DEF Bridge!Next, Bridge!WindowStep, Bridge!SpinStep

LEMMA BridgeTypes == Bridge!Spec => []Bridge!TypeOK
<1>1. Bridge!TypeOK /\ [Bridge!Next]_(Bridge!bridgeVars) => Bridge!TypeOK'
  BY BridgeTypesStep
<1> QED
  BY <1>1, BridgeTypesInit, PTL DEF Bridge!Spec

\* The composition implements each part.
THEOREM PartsSpec == MCSpec => Spec /\ Counters!Spec /\ Bridge!Spec /\ Pipe!Spec
<1>1. MCInit => Init /\ Counters!Init /\ Bridge!Init /\ Pipe!Init
  BY DEF MCInit
<1>2. ASSUME [MCNext]_allVars
      PROVE  /\ [Next]_vars /\ [Counters!Next]_(Counters!counterVars)
             /\ [Bridge!Next]_(Bridge!bridgeVars) /\ [Pipe!Next]_(Pipe!pipeVars)
  <2> USE DEF counterVars, bridgeVars, pipeVars, Counters!counterVars, Bridge!bridgeVars,
              Pipe!pipeVars
  <2>1. CASE QueueRuns
    BY <2>1 DEF QueueRuns
  <2>2. CASE CountersRun
    BY <2>2 DEF CountersRun
  <2>3. CASE BridgeRuns
    BY <2>3 DEF BridgeRuns
  <2>4. CASE PipeRuns
    BY <2>4 DEF PipeRuns
  <2>5. CASE Ended \/ UNCHANGED allVars
    BY <2>5 DEF Ended, allVars
  <2> QED
    BY <1>2, <2>1, <2>2, <2>3, <2>4, <2>5 DEF MCNext
<1> QED
  BY <1>1, <1>2, PTL DEF MCSpec, Spec, Counters!Spec, Bridge!Spec, Pipe!Spec

\* The type invariants of all, where all run.
THEOREM TypesCorrect == MCSpec => []TypesOK
<1>1. TypeOK /\ CountInv /\ Bridge!TypeOK /\ PipeInv => TypesOK
  BY DEF CountInv, PipeInv, TypesOK
<1> QED
  BY <1>1, PartsSpec, QueueTypes, CountInvariance, BridgeTypes, PipeInvariance, PTL

===========================================================================
