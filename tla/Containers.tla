----------------------------- MODULE Containers -----------------------------
(***************************************************************************)
(* The containers of Data_Structure/source, at the level of their cells:   *)
(* linked_list.c ("list"), list_queue.c ("queue"), list_stack.c ("stack"), *)
(* doubly_linked_list.c ("doubly", circular, with a sentinel) and          *)
(* sequential_list.c ("array", a fixed capacity).  One container lives at  *)
(* a time; the calls are made in every order, with positions in and out of *)
(* range, and malloc may fail.  Calls with a NULL container are left out.  *)
(***************************************************************************)
EXTENDS Integers, Sequences, SequencesExt, FiniteSets

CONSTANTS
  Kinds,             \* the containers exercised
  Values,
  Cells,             \* bound: the nodes malloc can hand out, as numbers
  Capacity,          \* capacity of the array
  Null

ASSUME ConstantsAssumption ==
  /\ Kinds \subseteq {"list", "queue", "stack", "doubly", "array"}
  /\ Values \subseteq Nat \ {0} /\ Capacity \in Nat \ {0}
  /\ Cells \subseteq Nat /\ IsFiniteSet(Cells) /\ Null \notin Cells
  /\ Null \notin [data : Values \cup {0}, prev : Cells \cup {Null}, next : Cells \cup {Null}]

VARIABLES
  kind,              \* the container that lives, or "none"
  heap,              \* the node in each cell, or Null where it is free
  first,             \* head, front, top or sentinel
  last,              \* tail or rear
  size,              \* length or size
  arr,               \* the array's elements; those beyond size are stale
  call               \* the last call and its answer

vars == <<kind, heap, first, last, size, arr, call>>

Node(v, p, n) == [data |-> v, prev |-> p, next |-> n]

Positions == -1 .. Cardinality(Cells)

Answer(op, at, val, res, got) ==
  call' = [op |-> op, at |-> at, val |-> val, res |-> res, got |-> got]

\* What malloc can hand out.  Which free cell it is makes no difference: the
\* lowest, so that a freed cell is soon used again.
Fresh ==
  LET free == {c \in Cells : heap[c] = Null}
  IN  {c \in free : \A d \in free : c <= d}

Init ==
  /\ kind = "none" /\ first = Null /\ last = Null /\ size = 0
  /\ heap = [c \in Cells |-> Null]
  /\ arr = [i \in 0 .. Capacity - 1 |-> 0]
  /\ call = [op |-> "none", at |-> 0, val |-> 0, res |-> "void", got |-> 0]

---------------------------------------------------------------------------
(* Walking *)

Step(c, way) == IF c = Null THEN Null ELSE heap[c][way]

\* The cell k links from c.
Hop(c, k, way) ==
  LET at[i \in Nat] == IF i = 0 THEN c ELSE Step(at[i - 1], way) IN at[k]

NthOffByOne(i) ==
  IF i <= size \div 2 THEN Hop(heap[first].next, i, "next")
                      ELSE Hop(heap[first].prev, size - i, "prev")

\* dll_nth_node walks from the nearer end.
Nth(i) ==
  IF i <= size \div 2 THEN Hop(heap[first].next, i, "next")
                      ELSE Hop(heap[first].prev, size - 1 - i, "prev")

\* The cells from c on, up to stop.
Chain(c, stop, way) ==
  LET far   == Cardinality(Cells)
      ends  == {k \in 0 .. far : Hop(c, k, way) = stop}
      count == IF ends = {} THEN far + 1 ELSE CHOOSE k \in ends : \A j \in ends : k <= j
  IN  [i \in 1 .. count |-> Hop(c, i - 1, way)]

---------------------------------------------------------------------------
(* Making and destroying *)

Made(k) ==               \* with the ends NULL and the length 0
  /\ kind = "none" /\ kind' = k
  /\ last' = Null /\ size' = 0 /\ UNCHANGED arr
  /\ Answer("create", 0, 0, "ok", 0)

CreateFails ==           \* malloc, for the container or for the sentinel
  /\ kind = "none" /\ Answer("create", 0, 0, "refused", 0)
  /\ UNCHANGED <<kind, heap, first, last, size, arr>>

InitLinkedList == Made("list")  /\ first' = Null /\ UNCHANGED heap
CreateQueue    == Made("queue") /\ first' = Null /\ UNCHANGED heap
CreateStack    == Made("stack") /\ first' = Null /\ UNCHANGED heap

CreateSequentialList == Made("array") /\ first' = Null /\ UNCHANGED heap

DllInit ==               \* the sentinel is linked to itself
  /\ Made("doubly")
  /\ \E c \in Fresh : first' = c /\ heap' = [heap EXCEPT ![c] = Node(0, c, c)]

Create ==
  \/ "list"   \in Kinds /\ InitLinkedList
  \/ "queue"  \in Kinds /\ CreateQueue
  \/ "stack"  \in Kinds /\ CreateStack
  \/ "array"  \in Kinds /\ CreateSequentialList
  \/ "doubly" \in Kinds /\ DllInit
  \/ CreateFails

Dropped(k, freed) ==
  /\ kind = k
  /\ kind' = "none" /\ first' = Null /\ last' = Null /\ size' = 0
  /\ heap' = [c \in Cells |-> IF c \in freed THEN Null ELSE heap[c]]
  /\ arr' = [i \in DOMAIN arr |-> 0]
  /\ Answer("destroy", 0, 0, "ok", 0)

\* The nodes are freed from the first on, each after its next was read.
DestroyLinkedList == Dropped("list", ToSet(Chain(first, Null, "next")))
DestroyQueue      == Dropped("queue", ToSet(Chain(first, Null, "next")))

DestroyStack ==          \* pops size times
  Dropped("stack", {Hop(first, i - 1, "next") : i \in 1 .. size})

DestroySequentialList == Dropped("array", {})

DllDestroy ==            \* up to the sentinel, then the sentinel
  Dropped("doubly", {first} \cup ToSet(Chain(heap[first].next, first, "next")))

Destroy ==
  DestroyLinkedList \/ DestroyQueue \/ DestroyStack \/ DestroySequentialList \/ DllDestroy

---------------------------------------------------------------------------
(* Linked list: append_node, insert_node, delete_node.  Queue and stack are *)
(* its two ends: enqueue, dequeue, push and pop.                            *)

\* append_node and enqueue, which test another pointer for emptiness.
LinkLast(c, v) ==
  LET empty == IF kind = "list" THEN first = Null ELSE last = Null
  IN  /\ heap' = IF empty THEN [heap EXCEPT ![c] = Node(v, Null, Null)]
                 ELSE [heap EXCEPT ![last].next = c, ![c] = Node(v, Null, Null)]
      /\ first' = IF empty THEN c ELSE first
      /\ last' = c

\* insert_node at 0 and push; only the list has a tail to set.
LinkFirst(c, v) ==
  /\ heap' = [heap EXCEPT ![c] = Node(v, Null, first)]
  /\ first' = c
  /\ last' = IF kind = "list" /\ last = Null THEN c ELSE last

\* insert_node elsewhere: after the node before the position.
LinkInside(c, v, at) ==
  LET prev == Hop(first, at - 1, "next")
  IN  /\ heap' = [heap EXCEPT ![c] = Node(v, Null, heap[prev].next), ![prev].next = c]
      /\ UNCHANGED <<first, last>>

AtEnd(v) ==
  /\ \/ /\ \E c \in Fresh : LinkLast(c, v)
        /\ size' = size + 1
     \/ UNCHANGED <<heap, first, last, size>>     \* malloc fails
  /\ Answer("insert", size, v, "void", 0)
  /\ UNCHANGED <<kind, arr>>

AppendNode(v) == kind = "list" /\ AtEnd(v)

Enqueue(v) == kind = "queue" /\ AtEnd(v)

InsertNode(v, at) ==
  /\ kind = "list"
  /\ \/ /\ at \in 0 .. size
        /\ \E c \in Fresh : CASE at = 0                -> LinkFirst(c, v)
                              [] at = size /\ at > 0   -> LinkLast(c, v)
                              [] at \in 1 .. size - 1  -> LinkInside(c, v, at)
        /\ size' = size + 1
     \/ UNCHANGED <<heap, first, last, size>>     \* out of range, or malloc fails
  /\ Answer("insert", at, v, "void", 0)
  /\ UNCHANGED <<kind, arr>>

Push(v) ==
  /\ kind = "stack"
  /\ \/ /\ \E c \in Fresh : LinkFirst(c, v)
        /\ size' = size + 1
     \/ UNCHANGED <<heap, first, last, size>>     \* malloc fails
  /\ Answer("insert", 0, v, "void", 0)
  /\ UNCHANGED <<kind, arr>>

UnlinkFirst ==       \* delete_node at 0, dequeue, pop
  LET c == first
  IN  /\ first' = heap[c].next
      /\ last' = IF first' = Null THEN Null ELSE last
      /\ heap' = [heap EXCEPT ![c] = Null]

TailKept(c, prev) == last

TailWithout(c, prev) == IF c = last THEN prev ELSE last

UnlinkInside(at) ==
  LET prev == Hop(first, at - 1, "next")
      c    == heap[prev].next
  IN  /\ heap' = [heap EXCEPT ![prev].next = heap[c].next, ![c] = Null]
      /\ last' = TailWithout(c, prev)
      /\ UNCHANGED first

DeleteNode(at) ==    \* delete_node
  /\ kind = "list"
  /\ \/ at = 0 /\ size > 0 /\ UnlinkFirst /\ size' = size - 1
     \/ at \in 1 .. size - 1 /\ UnlinkInside(at) /\ size' = size - 1
     \/ at \notin 0 .. size - 1 /\ UNCHANGED <<heap, first, last, size>>
  /\ Answer("delete", at, 0, "void", 0)
  /\ UNCHANGED <<kind, arr>>

TakeFirst ==         \* -1 when empty
  /\ \/ /\ size > 0
        /\ Answer("delete", 0, 0, "ok", heap[first].data)
        /\ UnlinkFirst /\ size' = size - 1
     \/ /\ size = 0
        /\ Answer("delete", 0, 0, "refused", 0)
        /\ UNCHANGED <<heap, first, last, size>>
  /\ UNCHANGED <<kind, arr>>

Dequeue == kind = "queue" /\ TakeFirst

Pop == kind = "stack" /\ TakeFirst

ShowFirst ==
  /\ IF size > 0 THEN Answer("get", 0, 0, "ok", heap[first].data)
                 ELSE Answer("get", 0, 0, "refused", 0)
  /\ UNCHANGED <<kind, heap, first, last, size, arr>>

Peek == kind = "queue" /\ ShowFirst

Top == kind = "stack" /\ ShowFirst

---------------------------------------------------------------------------
(* Doubly linked list *)

\* One field after the other: prev and next may be the same node.
LinkBetween(prev, next, c, v) ==
  LET h == [heap EXCEPT ![c] = Node(v, prev, next), ![prev].next = c]
  IN  [h EXCEPT ![next].prev = c]

Unlink(c) ==
  LET h == [heap EXCEPT ![heap[c].prev].next = heap[c].next]
  IN  [h EXCEPT ![h[c].next].prev = h[c].prev]

DllInsertAt(at, v) == \* and push_front at 0, push_back at length
  /\ kind = "doubly"
  /\ \/ /\ at \in 0 .. size
        /\ \E c \in Fresh :
             LET next == IF at = size THEN first ELSE Nth(at)
             IN  heap' = LinkBetween(heap[next].prev, next, c, v)
        /\ size' = size + 1
        /\ Answer("insert", at, v, "ok", 0)
     \/ /\ Answer("insert", at, v, "refused", 0)
        /\ UNCHANGED <<heap, size>>
  /\ UNCHANGED <<kind, first, last, arr>>

DllDeleteAt(at) ==    \* and pop_front at 0, pop_back at length - 1
  /\ kind = "doubly"
  /\ \/ /\ at \in 0 .. size - 1
        /\ LET c == Nth(at)
           IN  /\ heap' = [Unlink(c) EXCEPT ![c] = Null]
               /\ Answer("delete", at, 0, "ok", heap[c].data)
        /\ size' = size - 1
     \/ /\ at \notin 0 .. size - 1
        /\ Answer("delete", at, 0, "refused", 0)
        /\ UNCHANGED <<heap, size>>
  /\ UNCHANGED <<kind, first, last, arr>>

DllGetAt(at) ==
  /\ kind = "doubly"
  /\ IF at \in 0 .. size - 1 THEN Answer("get", at, 0, "ok", heap[Nth(at)].data)
                             ELSE Answer("get", at, 0, "refused", 0)
  /\ UNCHANGED <<kind, heap, first, last, size, arr>>

\* The first index whose element satisfies the comparison with v, or -1.
IndexIn(seq, v) == LET i == SelectInSeq(seq, LAMBDA x : x = v) IN i - 1

DllFindFirst(v) ==
  /\ kind = "doubly"
  /\ LET chain == Chain(heap[first].next, first, "next")
     IN  Answer("find", 0, v, "ok", IndexIn([i \in DOMAIN chain |-> heap[chain[i]].data], v))
  /\ UNCHANGED <<kind, heap, first, last, size, arr>>

---------------------------------------------------------------------------
(* Sequential list *)

HasRoom == size < Capacity   \* ~is_full

SqInsertAt(at, v) ==  \* and append at length
  /\ kind = "array"
  /\ \/ /\ at \in 0 .. size /\ HasRoom
        /\ arr' = [i \in DOMAIN arr |-> CASE i = at -> v
                                          [] i \in at + 1 .. size -> arr[i - 1]
                                          [] OTHER -> arr[i]]
        /\ size' = size + 1
        /\ Answer("insert", at, v, "ok", 0)
     \/ /\ ~(at \in 0 .. size /\ HasRoom)
        /\ Answer("insert", at, v, "refused", 0)
        /\ UNCHANGED <<arr, size>>
  /\ UNCHANGED <<kind, heap, first, last>>

SqDeleteAt(at) ==
  /\ kind = "array"
  /\ \/ /\ at \in 0 .. size - 1
        /\ Answer("delete", at, 0, "ok", arr[at])
        /\ arr' = [i \in DOMAIN arr |-> IF i \in at .. size - 2 THEN arr[i + 1] ELSE arr[i]]
        /\ size' = size - 1
     \/ /\ at \notin 0 .. size - 1
        /\ Answer("delete", at, 0, "refused", 0)
        /\ UNCHANGED <<arr, size>>
  /\ UNCHANGED <<kind, heap, first, last>>

SqGetAt(at) ==
  /\ kind = "array"
  /\ IF at \in 0 .. size - 1 THEN Answer("get", at, 0, "ok", arr[at])
                             ELSE Answer("get", at, 0, "refused", 0)
  /\ UNCHANGED <<kind, heap, first, last, size, arr>>

SqSetAt(at, v) ==
  /\ kind = "array"
  /\ \/ /\ at \in 0 .. size - 1
        /\ arr' = [arr EXCEPT ![at] = v] /\ Answer("set", at, v, "ok", 0)
     \/ /\ at \notin 0 .. size - 1
        /\ UNCHANGED arr /\ Answer("set", at, v, "refused", 0)
  /\ UNCHANGED <<kind, heap, first, last, size>>

SqFind(v) ==          \* find_value
  /\ kind = "array"
  /\ Answer("find", 0, v, "ok", IndexIn([i \in 1 .. size |-> arr[i - 1]], v))
  /\ UNCHANGED <<kind, heap, first, last, size, arr>>

SqClear ==            \* clear_list
  /\ kind = "array" /\ size' = 0
  /\ Answer("clear", 0, 0, "void", 0)
  /\ UNCHANGED <<kind, heap, first, last, arr>>

Next ==
  \/ Create \/ Destroy
  \/ Dequeue \/ Pop \/ Peek \/ Top \/ SqClear
  \/ \E v \in Values : AppendNode(v) \/ Enqueue(v) \/ Push(v) \/ DllFindFirst(v) \/ SqFind(v)
  \/ \E at \in Positions : DeleteNode(at) \/ DllDeleteAt(at) \/ DllGetAt(at)
                           \/ SqDeleteAt(at) \/ SqGetAt(at)
  \/ \E at \in Positions, v \in Values :
       InsertNode(v, at) \/ DllInsertAt(at, v) \/ SqInsertAt(at, v) \/ SqSetAt(at, v)

Spec == Init /\ [][Next]_vars

---------------------------------------------------------------------------
(* Properties *)

Links == Cells \cup {Null}

\* The type invariant; the array never holds more than its capacity.
TypeOK ==
  /\ kind \in Kinds \cup {"none"} /\ first \in Links /\ last \in Links
  /\ \A c \in Cells : heap[c] # Null =>
       heap[c] \in [data : Values \cup {0}, prev : Links, next : Links]
  /\ size \in Nat /\ (kind = "array" => size <= Capacity)
  /\ arr \in [0 .. Capacity - 1 -> Values \cup {0}]

\* The nodes in the container, in order.
Nodes ==
  CASE kind \in {"none", "array"}          -> <<>>
    [] kind \in {"list", "queue", "stack"} -> Chain(first, Null, "next")
    [] kind = "doubly"                     -> Chain(heap[first].next, first, "next")

\* In a well-typed container the cells in use are exactly those the container reaches, each once, and
\* the sentinel: no call leaks a node, links one twice, or leaves a freed one
\* linked (the next malloc would hand it out again).  Both ends and the length
\* agree with the chain, and the way back through prev is the way there.
WellLinked ==
  LET used  == {c \in Cells : heap[c] # Null}
      nodes == Nodes
  IN  /\ TypeOK
      /\ used = ToSet(nodes) \cup IF kind = "doubly" THEN {first} ELSE {}
      /\ IsInjective(nodes)
      /\ kind # "array" => size = Len(nodes)
      /\ kind \in {"list", "queue"} =>
           last = IF nodes = <<>> THEN Null ELSE nodes[Len(nodes)]
      /\ kind = "doubly" => Chain(heap[first].prev, first, "prev") = Reverse(nodes)

Held ==
  IF kind = "array" THEN [i \in 1 .. size |-> arr[i - 1]]
  ELSE LET nodes == Nodes IN [i \in DOMAIN nodes |-> heap[nodes[i]].data]

Sequence ==
  INSTANCE AbstractSequence WITH items <- Held,
    room <- IF kind = "array" THEN Capacity ELSE 0

\* Every container behaves as a sequence, whichever end it works from.
ImplementsSequence == Sequence!Spec

=============================================================================
