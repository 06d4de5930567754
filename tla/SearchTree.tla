----------------------------- MODULE SearchTree -----------------------------
(***************************************************************************)
(* bst.c: main reads n numbers, inserts them one by one, walks the tree,   *)
(* deletes one number and walks it again.  The root made by init() is a    *)
(* node of count 0 whose data nobody wrote.  A recursion along one branch  *)
(* is the function from its depth to the node it has come to.              *)
(***************************************************************************)
EXTENDS Integers, Sequences, FiniteSets, Functions

CONSTANTS
  Values,
  MaxN,              \* bound: numbers inserted
  Null

VARIABLES
  root,              \* pnode
  node,              \* the node at each address, or Null where there is none
  given,             \* history: the numbers inserted, in order
  walked,            \* what search_middle left in array[]
  phase,             \* insert, delete, done
  told,              \* what deleteNode returned
  gone               \* the number it was asked to delete, Null before

vars == <<root, node, given, walked, phase, told, gone>>

\* The address that malloc returns is the number of the insertion that asked.
Addresses == 1 .. MaxN

TreeAssumption ==    \* a number is an int
  /\ \A v \in Values : v \in Int /\ -2147483647 - 1 <= v /\ v <= 2147483647
  /\ MaxN \in Nat \ {0} /\ Null \notin Addresses \cup Values
  /\ Null \notin [data : Values, count : Nat, left : Addresses \cup {Null}, right : Addresses \cup {Null}]

Node(d, n, l, r) == [data |-> d, count |-> n, left |-> l, right |-> r]

Leaf(d) == Node(d, 1, Null, Null)

\* The node at which insert and deleteNode stop looking for d: the one that has
\* it, or one without a child on the side where d belongs.
Found(d) ==
  LET Below(x) == IF d < node[x].data THEN node[x].left ELSE node[x].right
      at[i \in 0 .. MaxN] ==
        IF i = 0 THEN root
        ELSE IF node[at[i - 1]].data = d \/ Below(at[i - 1]) = Null THEN at[i - 1]
        ELSE Below(at[i - 1])
  IN  at[MaxN]

\* The end of the rightmost branch of the tree at x.
Rightmost(x) ==
  LET at[i \in 0 .. MaxN] ==
        IF i = 0 THEN x
        ELSE IF node[at[i - 1]].right = Null THEN at[i - 1] ELSE node[at[i - 1]].right
  IN  at[MaxN]

\* The left subtree takes the place of a deleted node p, and the right one goes
\* below the end of its rightmost branch; without a left one the right one does.
Instead(p) == IF node[p].left = Null THEN node[p].right ELSE node[p].left

Redirected(p, link) == IF link = p THEN Instead(p) ELSE link

HungDirectly(p) == node[p].left

HungOn(p) == IF node[p].left = Null THEN Null ELSE Rightmost(node[p].left)

Without(p) ==
  [c \in Addresses |->
     IF c = p \/ node[c] = Null THEN Null
     ELSE [node[c] EXCEPT !.left  = Redirected(p, @),
                          !.right = IF c = HungOn(p) THEN node[p].right
                                    ELSE Redirected(p, @)]]

\* What a walk of the tree t at top leaves in the array.
InOrder(t, top) ==
  LET walk[i \in 0 .. MaxN] ==
        [x \in {c \in Addresses : t[c] # Null} \cup {Null} |->
           IF i = 0 \/ x = Null THEN <<>>
           ELSE walk[i - 1][t[x].left] \o [j \in 1 .. t[x].count |-> t[x].data]
                  \o walk[i - 1][t[x].right]]
  IN  walk[MaxN][top]

---------------------------------------------------------------------------
Init ==
  /\ root = 1
  /\ \E junk \in Values :
       node = [c \in Addresses |-> IF c = 1 THEN Node(junk, 0, Null, Null) ELSE Null]
  /\ given = <<>> /\ walked = <<>> /\ phase = "insert" /\ told = 0 /\ gone = Null

Insert(d) ==
  /\ phase = "insert" /\ Len(given) < MaxN
  /\ LET x == Found(d)
         p == Len(given) + 1
     IN  node' = IF node[root].count = 0
                   THEN [node EXCEPT ![root].data = d, ![root].count = 1]
                 ELSE IF node[x].data = d THEN [node EXCEPT ![x].count = @ + 1]
                 ELSE IF d < node[x].data
                   THEN [node EXCEPT ![x].left = p, ![p] = Leaf(d)]
                 ELSE [node EXCEPT ![x].right = p, ![p] = Leaf(d)]
  /\ given' = Append(given, d)
  /\ UNCHANGED <<root, walked, phase, told, gone>>

WalkOnce ==
  /\ phase = "insert"
  /\ walked' = InOrder(node, root) /\ phase' = "delete"
  /\ UNCHANGED <<root, node, given, told, gone>>

\* deleteNode and the second walk, into the array from its start.  Only the root's
\* deletion is told: the recursive calls' results are dropped.
Delete(d) ==
  /\ phase = "delete"
  /\ LET p == Found(d)
     IN  IF node[p].data = d THEN root' = Redirected(p, root) /\ node' = Without(p)
         ELSE UNCHANGED <<root, node>>
  /\ told' = (IF node[root].data = d THEN 1 ELSE 0) /\ gone' = d
  /\ walked' = InOrder(node', root') /\ phase' = "done"
  /\ UNCHANGED given

Next == WalkOnce \/ \E d \in Values : Insert(d) \/ Delete(d)

Spec == Init /\ [][Next]_vars

---------------------------------------------------------------------------
(* Properties *)

Times(s, d) == Cardinality({i \in DOMAIN s : s[i] = d})

\* Each walk lists, in ascending order, every number given as often as it was
\* given; the one after the deletion, all of them but the number deleted, so
\* that no subtree is lost or hung where the order does not want it.
WalkSorts ==
  phase # "insert" =>
    /\ \A i, j \in DOMAIN walked : i <= j => walked[i] <= walked[j]
    /\ Range(walked) \subseteq Range(given) \ {gone}
    /\ \A d \in Range(given) \ {gone} : Times(walked, d) = Times(given, d)

=============================================================================
