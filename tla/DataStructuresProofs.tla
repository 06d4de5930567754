------------------------ MODULE DataStructuresProofs ------------------------
(***************************************************************************)
(* Proofs about the containers, for any values, any finite memory and any  *)
(* capacity of the array: no call leaks a node or leaves a freed one       *)
(* linked, and every container implements AbstractSequence.  About the     *)
(* search through a maze, for enclosed mazes of any size.  And about the   *)
(* search tree, for any numbers given to it in any order: its walks sort   *)
(* them, before and after a deletion.                                      *)
(*                                                                         *)
(* The containers' invariant says of the cells only what one link can: a   *)
(* node's next is the node after it, and its prev the one before (Lead,    *)
(* Back).  What an operation does to it is then a matter of two or three   *)
(* links (LeadInsert, LeadRemove and their like).  That a walk of any      *)
(* length ends where the links lead takes induction, over sets of naturals *)
(* (Induction), and so does that the walks are defined at all (Recursion). *)
(* The tree's invariant likewise says of a node what its own two links do: *)
(* how they divide the interval of numbers that belong to it (Fits).       *)
(***************************************************************************)
EXTENDS MCDataStructures, FiniteSetTheorems, SequenceTheorems,
        WellFoundedInduction, TLAPS
---------------------------------------------------------------------------
(* Induction.  Less-than is well-founded on the naturals, so a set of      *)
(* naturals that has 0 and, with each number, the next has them all; this  *)
(* is induction stated on a set.                                           *)

LEMMA Least ==
  ASSUME NEW T \in SUBSET Nat, T # {}
  PROVE  \E n \in T : \A m \in T : n <= m
<1> DEFINE R == {p \in Nat \X Nat : p[1] < p[2]}
<1>1. IsWellFoundedOn(R, Nat)
  BY NatLessThanWellFounded DEF OpToRel
<1>2. ASSUME NEW n \in T, NEW m \in T, m < n
      PROVE  <<m, n>> \in R
  <2>1. <<m, n>> \in Nat \X Nat /\ <<m, n>>[1] < <<m, n>>[2]
    BY <1>2
  <2> QED
    BY <2>1
<1> HIDE DEF R
<1>3. PICK n \in T : \A m \in T : ~(<<m, n>> \in R)
  BY <1>1, WFMin
<1>4. ASSUME NEW m \in T PROVE n <= m
  <2>1. ~(m < n) /\ n \in Nat /\ m \in Nat
    BY <1>2, <1>3
  <2> QED
    BY <2>1
<1> QED
  BY <1>4

LEMMA Induction ==
  ASSUME NEW T, 0 \in T, \A n \in Nat : n \in T => n + 1 \in T
  PROVE  Nat \subseteq T
<1> DEFINE U == Nat \ T
<1> SUFFICES ASSUME U # {} PROVE FALSE
  OBVIOUS
<1>1. PICK n \in U : \A m \in U : n <= m
  BY Least
<1>2. n \in Nat /\ n # 0
  OBVIOUS
<1>3. n - 1 \in Nat /\ ~(n <= n - 1) /\ n - 1 + 1 = n
  BY <1>2
<1>4. n - 1 \in T
  BY <1>1, <1>3
<1> QED
  BY <1>3, <1>4

\* Where a function leads from c in so many steps.
Steps(c, G, n, g) == g[0] = c /\ \A i \in 0 .. n - 1 : g[i + 1] = G[g[i]]

LEMMA StepsUnique ==
  ASSUME NEW S, NEW c \in S, NEW G \in [S -> S], NEW n \in Nat, NEW m \in Nat,
         NEW g \in [0 .. n -> S], NEW h \in [0 .. m -> S], Steps(c, G, n, g), Steps(c, G, m, h),
         NEW k \in Nat, k <= n, k <= m
  PROVE  g[k] = h[k]
<1> DEFINE T == {i \in Nat : i <= n /\ i <= m => g[i] = h[i]}
<1>1. 0 \in T
  BY DEF Steps
<1>2. ASSUME NEW i \in Nat, i \in T PROVE i + 1 \in T
  <2> SUFFICES ASSUME i + 1 <= n, i + 1 <= m PROVE g[i + 1] = h[i + 1]
    OBVIOUS
  <2>1. i \in 0 .. n - 1 /\ i \in 0 .. m - 1 /\ i <= n /\ i <= m
    OBVIOUS
  <2>2. g[i] = h[i]
    BY <1>2, <2>1
  <2> QED
    BY <2>1, <2>2 DEF Steps
<1> HIDE DEF T
<1>3. k \in T
  BY <1>1, <1>2, Induction
<1> QED
  BY <1>3 DEF T

LEMMA StepsExist ==
  ASSUME NEW S, NEW c \in S, NEW G \in [S -> S], NEW n \in Nat
  PROVE  \E g \in [0 .. n -> S] : Steps(c, G, n, g)
<1> DEFINE T == {k \in Nat : \E g \in [0 .. k -> S] : Steps(c, G, k, g)}
<1>1. 0 \in T
  <2> DEFINE g == [i \in 0 .. 0 |-> c]
  <2>1. g \in [0 .. 0 -> S] /\ Steps(c, G, 0, g)
    BY DEF Steps
  <2> QED
    BY <2>1
<1>2. ASSUME NEW k \in Nat, k \in T PROVE k + 1 \in T
  <2>1. PICK g \in [0 .. k -> S] : Steps(c, G, k, g)
    BY <1>2
  <2> DEFINE h == [i \in 0 .. k + 1 |-> IF i = k + 1 THEN G[g[k]] ELSE g[i]]
  <2>2. h \in [0 .. k + 1 -> S]
    OBVIOUS
  <2>3. Steps(c, G, k + 1, h)
    <3>1. h[0] = c
      BY <2>1 DEF Steps
    <3>2. ASSUME NEW i \in 0 .. k PROVE h[i + 1] = G[h[i]]
      <4>1. i \in Nat /\ h[i] = g[i]
        OBVIOUS
      <4>2. CASE i = k
        BY <4>1, <4>2
      <4>3. CASE i # k
        <5>1. i \in 0 .. k - 1 /\ i + 1 # k + 1 /\ i + 1 \in 0 .. k + 1
          BY <4>3
        <5> QED
          BY <2>1, <4>1, <5>1 DEF Steps
      <4> QED
        BY <4>2, <4>3
    <3>3. k + 1 - 1 = k
      OBVIOUS
    <3> HIDE DEF h
    <3> QED
      BY <3>1, <3>2, <3>3 DEF Steps
  <2> QED
    BY <2>2, <2>3
<1> HIDE DEF T
<1>3. n \in T
  BY <1>1, <1>2, Induction
<1> QED
  BY <1>3 DEF T

\* A function that is defined from 0 on by what it is one before exists.
LEMMA Recursion ==
  ASSUME NEW S, NEW c \in S, NEW G \in [S -> S]
  PROVE  \E f \in [Nat -> S] : f[0] = c /\ \A i \in Nat : f[i + 1] = G[f[i]]
<1> DEFINE pick(n) == CHOOSE g \in [0 .. n -> S] : Steps(c, G, n, g)
           f == [n \in Nat |-> pick(n)[n]]
<1>1. ASSUME NEW n \in Nat PROVE pick(n) \in [0 .. n -> S] /\ Steps(c, G, n, pick(n))
  BY StepsExist
<1> HIDE DEF pick
<1>2. f \in [Nat -> S]
  <2>1. ASSUME NEW n \in Nat PROVE pick(n)[n] \in S
    BY <1>1
  <2> QED
    BY <2>1
<1>3. f[0] = c
  BY <1>1 DEF Steps
<1>4. ASSUME NEW i \in Nat PROVE f[i + 1] = G[f[i]]
  <2>1. i + 1 \in Nat /\ i \in 0 .. i + 1 - 1 /\ i <= i /\ i <= i + 1
    OBVIOUS
  <2>2. pick(i + 1)[i + 1] = G[pick(i + 1)[i]]
    BY <1>1, <2>1 DEF Steps
  <2>3. pick(i + 1)[i] = pick(i)[i]
    <3>1. /\ pick(i) \in [0 .. i -> S] /\ Steps(c, G, i, pick(i))
          /\ pick(i + 1) \in [0 .. i + 1 -> S] /\ Steps(c, G, i + 1, pick(i + 1))
      BY <1>1, <2>1
    <3> HIDE DEF Steps
    <3> QED
      BY <2>1, <3>1, StepsUnique
  <2> QED
    BY <2>1, <2>2, <2>3
<1> HIDE DEF f
<1> QED
  BY <1>2, <1>3, <1>4

---------------------------------------------------------------------------
(* Sequences                                                               *)

LEMMA InsertAtFacts ==
  ASSUME NEW S, NEW s \in Seq(S), NEW k \in 1 .. Len(s) + 1, NEW e \in S
  PROVE  /\ InsertAt(s, k, e) \in Seq(S) /\ Len(InsertAt(s, k, e)) = Len(s) + 1
         /\ \A i \in 1 .. Len(s) + 1 :
              InsertAt(s, k, e)[i] = IF i < k THEN s[i] ELSE IF i = k THEN e ELSE s[i - 1]
<1> DEFINE a == SubSeq(s, 1, k - 1)
           b == SubSeq(s, k, Len(s))
           ae == a \o <<e>>
<1>1. Len(s) \in Nat /\ k \in Nat /\ k >= 1 /\ k <= Len(s) + 1
  BY LenProperties
<1>2. a \in Seq(S) /\ Len(a) = k - 1 /\ \A i \in 1 .. k - 1 : a[i] = s[i]
  BY <1>1, SubSeqProperties
<1>3. b \in Seq(S) /\ Len(b) = Len(s) - k + 1 /\ \A i \in 1 .. Len(s) - k + 1 : b[i] = s[k + i - 1]
  BY <1>1, SubSeqProperties
<1>4. InsertAt(s, k, e) = ae \o b
  BY DEF InsertAt
<1> HIDE DEF a, b
<1>5. <<e>> \in Seq(S) /\ Len(<<e>>) = 1 /\ <<e>>[1] = e
  OBVIOUS
<1>6. ae \in Seq(S) /\ Len(ae) = k /\ \A i \in 1 .. k : ae[i] = IF i < k THEN s[i] ELSE e
  <2>1. /\ ae \in Seq(S) /\ Len(ae) = Len(a) + 1
        /\ \A i \in 1 .. Len(a) + 1 : ae[i] = IF i <= Len(a) THEN a[i] ELSE <<e>>[i - Len(a)]
    BY <1>2, <1>5, ConcatProperties
  <2>2. ASSUME NEW i \in 1 .. k PROVE ae[i] = IF i < k THEN s[i] ELSE e
    <3>1. CASE i < k
      BY <1>2, <2>1, <3>1
    <3>2. CASE ~(i < k)
      <4>1. i - Len(a) = 1 /\ ~(i <= Len(a)) /\ i \in 1 .. Len(a) + 1
        BY <1>1, <1>2, <3>2
      <4> QED
        BY <1>5, <2>1, <3>2, <4>1
    <3> QED
      BY <3>1, <3>2
  <2> QED
    BY <1>1, <1>2, <2>1, <2>2
<1> HIDE DEF ae
<1>7. /\ ae \o b \in Seq(S) /\ Len(ae \o b) = Len(s) + 1
      /\ \A i \in 1 .. Len(s) + 1 : (ae \o b)[i] = IF i <= k THEN ae[i] ELSE b[i - k]
  <2>1. /\ ae \o b \in Seq(S) /\ Len(ae \o b) = Len(ae) + Len(b)
        /\ \A i \in 1 .. Len(ae) + Len(b) : (ae \o b)[i] = IF i <= Len(ae) THEN ae[i] ELSE b[i - Len(ae)]
    BY <1>3, <1>6, ConcatProperties
  <2>2. Len(ae) = k /\ Len(ae) + Len(b) = Len(s) + 1
    BY <1>1, <1>3, <1>6
  <2> QED
    BY <2>1, <2>2
<1>8. ASSUME NEW i \in 1 .. Len(s) + 1
      PROVE  (ae \o b)[i] = IF i < k THEN s[i] ELSE IF i = k THEN e ELSE s[i - 1]
  <2>1. CASE i <= k
    BY <1>1, <1>6, <1>7, <2>1
  <2>2. CASE ~(i <= k)
    <3>1. i - k \in 1 .. Len(s) - k + 1 /\ k + (i - k) - 1 = i - 1 /\ ~(i < k) /\ i # k
      BY <1>1, <2>2
    <3>2. (ae \o b)[i] = s[i - 1]
      BY <1>3, <1>7, <2>2, <3>1
    <3> QED
      BY <3>1, <3>2
  <2> QED
    BY <2>1, <2>2
<1> QED
  BY <1>4, <1>7, <1>8

LEMMA RemoveAtFacts ==
  ASSUME NEW S, NEW s \in Seq(S), NEW k \in 1 .. Len(s)
  PROVE  /\ RemoveAt(s, k) \in Seq(S) /\ Len(RemoveAt(s, k)) = Len(s) - 1
         /\ \A i \in 1 .. Len(s) - 1 : RemoveAt(s, k)[i] = IF i < k THEN s[i] ELSE s[i + 1]
<1> DEFINE a == SubSeq(s, 1, k - 1)
           b == SubSeq(s, k + 1, Len(s))
<1>1. Len(s) \in Nat /\ k \in Nat /\ k >= 1 /\ k <= Len(s)
  BY LenProperties
<1>2. a \in Seq(S) /\ Len(a) = k - 1 /\ \A i \in 1 .. k - 1 : a[i] = s[i]
  BY <1>1, SubSeqProperties
<1>3. b \in Seq(S) /\ Len(b) = Len(s) - k /\ \A i \in 1 .. Len(s) - k : b[i] = s[k + i]
  BY <1>1, SubSeqProperties
<1>4. RemoveAt(s, k) = a \o b
  BY DEF RemoveAt
<1> HIDE DEF a, b
<1>5. /\ a \o b \in Seq(S) /\ Len(a \o b) = Len(s) - 1
      /\ \A i \in 1 .. Len(s) - 1 : (a \o b)[i] = IF i <= k - 1 THEN a[i] ELSE b[i - (k - 1)]
  <2>1. /\ a \o b \in Seq(S) /\ Len(a \o b) = Len(a) + Len(b)
        /\ \A i \in 1 .. Len(a) + Len(b) : (a \o b)[i] = IF i <= Len(a) THEN a[i] ELSE b[i - Len(a)]
    BY <1>2, <1>3, ConcatProperties
  <2>2. Len(a) = k - 1 /\ Len(a) + Len(b) = Len(s) - 1
    BY <1>1, <1>2, <1>3
  <2> QED
    BY <2>1, <2>2
<1>6. ASSUME NEW i \in 1 .. Len(s) - 1
      PROVE  (a \o b)[i] = IF i < k THEN s[i] ELSE s[i + 1]
  <2>1. CASE i < k
    <3>1. i \in 1 .. k - 1 /\ i <= k - 1
      BY <1>1, <2>1
    <3> QED
      BY <1>2, <1>5, <2>1, <3>1
  <2>2. CASE ~(i < k)
    <3>1. i - (k - 1) \in 1 .. Len(s) - k /\ k + (i - (k - 1)) = i + 1 /\ ~(i <= k - 1)
      BY <1>1, <2>2
    <3>2. (a \o b)[i] = s[i + 1]
      BY <1>3, <1>5, <3>1
    <3> QED
      BY <2>2, <3>2
  <2> QED
    BY <2>1, <2>2
<1> QED
  BY <1>4, <1>5, <1>6

LEMMA ReverseFacts ==
  ASSUME NEW S, NEW s \in Seq(S)
  PROVE  /\ Reverse(s) \in Seq(S) /\ Len(Reverse(s)) = Len(s)
         /\ \A i \in 1 .. Len(s) : Reverse(s)[i] = s[Len(s) - i + 1] /\ Len(s) - i + 1 \in 1 .. Len(s)
<1>1. Len(s) \in Nat
  BY LenProperties
<1>2. ASSUME NEW i \in 1 .. Len(s) PROVE Len(s) - i + 1 \in 1 .. Len(s) /\ s[Len(s) - i + 1] \in S
  <2>1. Len(s) - i + 1 \in 1 .. Len(s)
    BY <1>1
  <2> QED
    BY <2>1, ElementOfSeq
<1>3. Reverse(s) = [i \in 1 .. Len(s) |-> s[Len(s) - i + 1]]
  BY DEF Reverse
<1>4. Reverse(s) \in Seq(S)
  BY <1>1, <1>2, <1>3
<1>5. Len(Reverse(s)) = Len(s)
  BY <1>1, <1>3
<1> QED
  BY <1>2, <1>3, <1>4, <1>5

---------------------------------------------------------------------------
(* Walking.  The operators of Containers that walk, on a heap h: they are  *)
(* those of Containers when h is heap, or heap'.                           *)

StepIn(h, c, way) == IF c = Null THEN Null ELSE h[c][way]

HopIn(h, c, k, way) ==
  LET at[i \in Nat] == IF i = 0 THEN c ELSE StepIn(h, at[i - 1], way) IN at[k]

ChainIn(h, c, stop, way) ==
  LET far   == Cardinality(Cells)
      ends  == {k \in 0 .. far : HopIn(h, c, k, way) = stop}
      count == IF ends = {} THEN far + 1 ELSE CHOOSE k \in ends : \A j \in ends : k <= j
  IN  [i \in 1 .. count |-> HopIn(h, c, i - 1, way)]

\* What is at a place of s, where stop is before the first and after the last.
At(s, i, stop) == IF i \in 1 .. Len(s) THEN s[i] ELSE stop

\* The links of the cells in s lead from each to the one behind it, the last to stop.
Lead(h, s, stop, way) ==
  /\ s \in Seq(Cells) /\ IsInjective(s)
  /\ stop \notin ToSet(s) /\ Null \notin ToSet(s)
  /\ \A i \in 1 .. Len(s) : h[s[i]][way] = At(s, i + 1, stop)

\* Every k links from the first of s lead to the next of s but k, and stop is behind them all.
LEMMA HopAlong ==
  ASSUME NEW h, NEW s, NEW stop, NEW way, Lead(h, s, stop, way),
         StepIn(h, stop, way) \in ToSet(s) \cup {stop}, NEW c, c = At(s, 1, stop)
  PROVE  \A k \in 0 .. Len(s) : HopIn(h, c, k, way) = At(s, k + 1, stop)
<1> DEFINE S == ToSet(s) \cup {stop}
           G == [x \in S |-> StepIn(h, x, way)]
           T == {k \in Nat : k <= Len(s) => HopIn(h, c, k, way) = At(s, k + 1, stop)}
<1>0. Len(s) \in Nat /\ \A i \in 1 .. Len(s) : s[i] \in ToSet(s)
  BY LenProperties DEF Lead, ToSet
<1>1. ASSUME NEW i \in Int PROVE At(s, i, stop) \in S
  BY <1>0 DEF At
<1>2. ASSUME NEW i \in 1 .. Len(s) PROVE StepIn(h, s[i], way) = At(s, i + 1, stop)
  <2>1. s[i] # Null
    BY <1>0 DEF Lead
  <2> QED
    BY <2>1 DEF Lead, StepIn
<1>3. G \in [S -> S]
  <2>1. ASSUME NEW x \in S PROVE StepIn(h, x, way) \in S
    <3>1. CASE x = stop
      BY <3>1
    <3>2. CASE x \in ToSet(s)
      <4>1. PICK i \in 1 .. Len(s) : x = s[i]
        BY <3>2, <1>0 DEF ToSet, Lead
      <4>2. i + 1 \in Int
        OBVIOUS
      <4> QED
        BY <1>1, <1>2, <4>1, <4>2
    <3> QED
      BY <3>1, <3>2
  <2> QED
    BY <2>1
<1>4. /\ HopIn(h, c, 0, way) = c
      /\ \A i \in Nat : HopIn(h, c, i + 1, way) = StepIn(h, HopIn(h, c, i, way), way)
  <2> DEFINE Rule(at) == at = [i \in Nat |-> IF i = 0 THEN c ELSE StepIn(h, at[i - 1], way)]
             hop == CHOOSE at : Rule(at)
  <2>1. c \in S
    BY <1>1
  <2>2. PICK f \in [Nat -> S] : f[0] = c /\ \A i \in Nat : f[i + 1] = G[f[i]]
    <3> HIDE DEF S, G
    <3>1. PICK set : set = S
      OBVIOUS
    <3>2. c \in set /\ G \in [set -> set]
      BY <1>3, <2>1, <3>1
    <3>3. \E f \in [Nat -> set] : f[0] = c /\ \A i \in Nat : f[i + 1] = G[f[i]]
      BY ONLY <3>2, Recursion
    <3> QED
      BY <3>1, <3>3
  <2>3. Rule(f)
    <3>1. ASSUME NEW i \in Nat PROVE f[i] = IF i = 0 THEN c ELSE StepIn(h, f[i - 1], way)
      <4>1. CASE i = 0
        BY <2>2, <4>1
      <4>2. CASE i # 0
        <5>1. i - 1 \in Nat /\ (i - 1) + 1 = i
          BY <4>2
        <5> QED
          BY <2>2, <4>2, <5>1
      <4> QED
        BY <4>1, <4>2
    <3> QED
      BY <2>2, <3>1
  <2>4. Rule(hop)
    <3> HIDE DEF Rule
    <3> QED
      BY <2>3
  <2>5. \A k : HopIn(h, c, k, way) = hop[k]
    BY DEF HopIn
  <2> HIDE DEF hop
  <2>6. hop[0] = c
    BY <2>4
  <2>7. ASSUME NEW i \in Nat PROVE hop[i + 1] = StepIn(h, hop[i], way)
    <3>1. i + 1 \in Nat /\ i + 1 # 0 /\ (i + 1) - 1 = i
      OBVIOUS
    <3> QED
      BY <2>4, <3>1
  <2> QED
    BY <2>5, <2>6, <2>7
<1>5. 0 \in T
  BY <1>4
<1>6. ASSUME NEW k \in Nat, k \in T PROVE k + 1 \in T
  <2> SUFFICES ASSUME k + 1 <= Len(s)
               PROVE  HopIn(h, c, k + 1, way) = At(s, (k + 1) + 1, stop)
    OBVIOUS
  <2>1. k + 1 \in 1 .. Len(s) /\ k <= Len(s)
    BY <1>0
  <2>2. HopIn(h, c, k, way) = s[k + 1]
    BY <1>6, <2>1 DEF At
  <2> QED
    BY <1>2, <1>4, <2>1, <2>2
<1> HIDE DEF T
<1>7. Nat \subseteq T
  BY <1>5, <1>6, Induction
<1> QED
  BY <1>0, <1>7 DEF T

\* So the chain from the first of s is s.
LEMMA ChainAlong ==
  ASSUME NEW h, NEW s, NEW stop, NEW way, Lead(h, s, stop, way),
         StepIn(h, stop, way) \in ToSet(s) \cup {stop}, NEW c, c = At(s, 1, stop)
  PROVE  ChainIn(h, c, stop, way) = s
<1> DEFINE far  == Cardinality(Cells)
           ends == {k \in 0 .. far : HopIn(h, c, k, way) = stop}
           least == CHOOSE k \in ends : \A j \in ends : k <= j
<1>1. s \in Seq(Cells) /\ Len(s) \in Nat /\ far \in Nat /\ IsFiniteSet(Cells)
  BY LenProperties, FS_CardinalityType, ConstantsAssumption DEF Lead
<1>2. \A k \in 0 .. Len(s) : HopIn(h, c, k, way) = At(s, k + 1, stop)
  BY HopAlong
<1>3. Len(s) <= far
  <2>1. s \in Injection(1 .. Len(s), Cells)
    BY <1>1, LenProperties DEF Lead, IsInjective, Injection
  <2>2. Cardinality(1 .. Len(s)) = Len(s)
    <3>1. PICK n \in Nat : n = Len(s)
      BY <1>1
    <3>2. Cardinality(1 .. n) = n
      BY FS_Interval
    <3> QED
      BY <3>1, <3>2
  <2>3. Cardinality(1 .. Len(s)) <= Cardinality(Cells)
    BY <1>1, <2>1, FS_Injection
  <2> QED
    BY <2>2, <2>3
<1>4. Len(s) \in ends
  <2>1. Len(s) \in 0 .. far /\ Len(s) \in 0 .. Len(s) /\ ~(Len(s) + 1 \in 1 .. Len(s))
    BY <1>1, <1>3
  <2> QED
    BY <1>2, <2>1 DEF At
<1>5. ASSUME NEW k \in ends PROVE k \in Nat /\ Len(s) <= k
  <2>1. k \in Nat /\ HopIn(h, c, k, way) = stop
    OBVIOUS
  <2>2. SUFFICES ASSUME ~(Len(s) <= k) PROVE FALSE
    BY <2>1
  <2>3. k \in 0 .. Len(s) /\ k + 1 \in 1 .. Len(s)
    BY <1>1, <2>1, <2>2
  <2>4. s[k + 1] = stop
    BY <1>2, <2>1, <2>3 DEF At
  <2> QED
    BY <2>3, <2>4, <1>1 DEF Lead, ToSet
<1>6. ends # {} /\ least = Len(s)
  <2>1. least \in ends /\ least <= Len(s)
    <3> HIDE DEF ends
    <3> QED
      BY <1>4, <1>5
  <2> HIDE DEF ends, least
  <2> QED
    BY <1>1, <1>4, <1>5, <2>1
<1>7. ChainIn(h, c, stop, way) = [i \in 1 .. Len(s) |-> HopIn(h, c, i - 1, way)]
  <2>1. ChainIn(h, c, stop, way)
          = [i \in 1 .. (IF ends = {} THEN far + 1 ELSE least) |-> HopIn(h, c, i - 1, way)]
    BY DEF ChainIn
  <2> HIDE DEF ends, least
  <2> QED
    BY <1>6, <2>1
<1>8. ASSUME NEW i \in 1 .. Len(s) PROVE HopIn(h, c, i - 1, way) = s[i]
  <2>1. i - 1 \in 0 .. Len(s) /\ (i - 1) + 1 = i
    BY <1>1
  <2> QED
    BY <1>2, <2>1 DEF At
<1>9. s = [i \in 1 .. Len(s) |-> s[i]]
  BY <1>1, LenProperties
<1> QED
  BY <1>7, <1>8, <1>9

---------------------------------------------------------------------------
(* What putting a cell in and taking one out does to a path.               *)

LEMMA AtType ==
  ASSUME NEW S, NEW s \in Seq(S), NEW stop, NEW i \in Int
  PROVE  At(s, i, stop) \in ToSet(s) \cup {stop} /\ ToSet(s) \subseteq S
<1>1. Len(s) \in Nat /\ s \in [1 .. Len(s) -> S] /\ DOMAIN s = 1 .. Len(s)
  BY LenProperties
<1>2. \A j \in 1 .. Len(s) : s[j] \in ToSet(s)
  BY <1>1 DEF ToSet
<1> QED
  BY <1>1, <1>2 DEF At, ToSet

LEMMA InsertAlong ==
  ASSUME NEW S, NEW s \in Seq(S), NEW c \in S, NEW k \in 1 .. Len(s) + 1
  PROVE  /\ InsertAt(s, k, c) \in Seq(S) /\ Len(InsertAt(s, k, c)) = Len(s) + 1
         /\ ToSet(InsertAt(s, k, c)) = ToSet(s) \cup {c}
         /\ IsInjective(s) /\ c \notin ToSet(s) => IsInjective(InsertAt(s, k, c))
         /\ \A stop : \A i \in 0 .. Len(s) + 2 :
              At(InsertAt(s, k, c), i, stop)
                = IF i < k THEN At(s, i, stop) ELSE IF i = k THEN c ELSE At(s, i - 1, stop)
<1>1. PICK n \in Nat : n = Len(s)
  BY LenProperties
<1>2. k \in 1 .. n + 1 /\ k \in Nat
  BY <1>1
<1>3. DOMAIN s = 1 .. n
  BY <1>1, LenProperties
<1> DEFINE t == InsertAt(s, k, c)
<1>4. /\ t \in Seq(S) /\ Len(t) = n + 1
      /\ \A i \in 1 .. n + 1 : t[i] = IF i < k THEN s[i] ELSE IF i = k THEN c ELSE s[i - 1]
  <2>1. /\ InsertAt(s, k, c) \in Seq(S)
        /\ Len(InsertAt(s, k, c)) = Len(s) + 1
        /\ \A i \in 1 .. Len(s) + 1 :
             InsertAt(s, k, c)[i] = IF i < k THEN s[i] ELSE IF i = k THEN c ELSE s[i - 1]
    <3>1. s \in Seq(S) /\ c \in S /\ k \in 1 .. Len(s) + 1
      OBVIOUS
    <3> QED
      BY ONLY <3>1, InsertAtFacts
  <2> HIDE DEF t
  <2> QED
    BY <1>1, <2>1 DEF t
<1>5. DOMAIN t = 1 .. n + 1
  BY <1>4, LenProperties
<1> HIDE DEF t
<1>6. ToSet(t) = ToSet(s) \cup {c}
  <2>1. ASSUME NEW i \in 1 .. n + 1 PROVE t[i] \in ToSet(s) \cup {c}
    <3>1. CASE i < k
      <4>1. i \in 1 .. n
        BY <1>2, <3>1
      <4> QED
        BY <1>3, <1>4, <3>1, <4>1 DEF ToSet
    <3>2. CASE i = k
      BY <1>4, <1>2, <3>2
    <3>3. CASE i > k
      <4>1. i - 1 \in 1 .. n /\ ~(i < k) /\ i # k
        BY <1>2, <3>3
      <4> QED
        BY <1>3, <1>4, <4>1 DEF ToSet
    <3> QED
      BY <1>2, <3>1, <3>2, <3>3
  <2>2. ASSUME NEW i \in 1 .. n PROVE s[i] \in ToSet(t)
    <3>1. CASE i < k
      <4>1. i \in 1 .. n + 1
        BY <1>1
      <4> QED
        BY <1>4, <1>5, <3>1, <4>1 DEF ToSet
    <3>2. CASE ~(i < k)
      <4>1. i + 1 \in 1 .. n + 1 /\ ~(i + 1 < k) /\ i + 1 # k /\ (i + 1) - 1 = i
        BY <1>2, <3>2
      <4>2. t[i + 1] = s[i]
        BY <1>4, <4>1
      <4> QED
        BY <1>5, <4>1, <4>2 DEF ToSet
    <3> QED
      BY <3>1, <3>2
  <2>3. c \in ToSet(t)
    <3>1. t[k] = c
      BY <1>2, <1>4
    <3> QED
      BY <1>2, <1>5, <3>1 DEF ToSet
  <2>4. ToSet(t) \subseteq ToSet(s) \cup {c}
    BY <1>5, <2>1 DEF ToSet
  <2>5. ToSet(s) \subseteq ToSet(t)
    BY <1>3, <2>2 DEF ToSet
  <2> QED
    BY <2>3, <2>4, <2>5
<1>7. ASSUME IsInjective(s), c \notin ToSet(s)
      PROVE  IsInjective(t)
  <2>1. \A i, j \in 1 .. n : s[i] = s[j] => i = j
    BY <1>3, <1>7 DEF IsInjective
  <2>2. \A i \in 1 .. n : s[i] # c
    BY <1>3, <1>7 DEF ToSet
  <2>3. ASSUME NEW i \in 1 .. n + 1, NEW j \in 1 .. n + 1, t[i] = t[j]
        PROVE  i = j
    <3> DEFINE a == IF i < k THEN i ELSE i - 1
               b == IF j < k THEN j ELSE j - 1
    <3>1. i # k => a \in 1 .. n /\ t[i] = s[a]
      BY <1>2, <1>4
    <3>2. j # k => b \in 1 .. n /\ t[j] = s[b]
      BY <1>2, <1>4
    <3>3. (i = k => t[i] = c) /\ (j = k => t[j] = c)
      BY <1>4
    <3>4. i # k /\ j # k => a = b
      <4> HIDE DEF a, b
      <4> QED
        BY <2>1, <2>3, <3>1, <3>2
    <3>5. i = k <=> j = k
      <4> HIDE DEF a, b
      <4> QED
        BY <2>2, <2>3, <3>1, <3>2, <3>3
    <3> QED
      BY <1>2, <3>4, <3>5
  <2> QED
    BY <1>5, <2>3 DEF IsInjective
<1>8. ASSUME NEW stop, NEW i \in 0 .. n + 2
      PROVE  At(t, i, stop) = IF i < k THEN At(s, i, stop) ELSE IF i = k THEN c ELSE At(s, i - 1, stop)
  <2>1. CASE i \in 1 .. n + 1
    <3>1. At(t, i, stop) = t[i]
      BY <1>4, <2>1 DEF At
    <3>2. i < k => i \in 1 .. n
      BY <1>2, <2>1
    <3>3. i > k => i - 1 \in 1 .. n
      BY <1>2, <2>1
    <3>4. ~(i < k) /\ i # k => i > k
      BY <1>2
    <3> QED
      BY <1>1, <1>4, <2>1, <3>1, <3>2, <3>3, <3>4 DEF At
  <2>2. CASE ~(i \in 1 .. n + 1)
    <3>1. At(t, i, stop) = stop
      BY <1>4, <2>2 DEF At
    <3>2. i = 0 \/ i = n + 2
      BY <2>2
    <3>3. CASE i = 0
      <4>1. i < k /\ ~(i \in 1 .. n)
        BY <1>2, <3>3
      <4> QED
        BY <1>1, <3>1, <4>1 DEF At
    <3>4. CASE i = n + 2
      <4>1. ~(i < k) /\ i # k /\ ~(i - 1 \in 1 .. n)
        BY <1>2, <3>4
      <4> QED
        BY <1>1, <3>1, <4>1 DEF At
    <3> QED
      BY <3>2, <3>3, <3>4
  <2> QED
    BY <2>1, <2>2
<1> QED
  BY <1>1, <1>4, <1>6, <1>7, <1>8 DEF t

LEMMA RemoveAlong ==
  ASSUME NEW S, NEW s \in Seq(S), NEW k \in 1 .. Len(s), IsInjective(s)
  PROVE  /\ RemoveAt(s, k) \in Seq(S) /\ Len(RemoveAt(s, k)) = Len(s) - 1
         /\ ToSet(RemoveAt(s, k)) = ToSet(s) \ {s[k]}
         /\ IsInjective(RemoveAt(s, k))
         /\ \A stop : \A i \in 0 .. Len(s) :
              At(RemoveAt(s, k), i, stop) = IF i < k THEN At(s, i, stop) ELSE At(s, i + 1, stop)
<1>1. PICK n \in Nat : n = Len(s)
  BY LenProperties
<1>2. k \in 1 .. n /\ k \in Nat /\ n - 1 \in Nat
  BY <1>1
<1>3. DOMAIN s = 1 .. n
  BY <1>1, LenProperties
<1> DEFINE t == RemoveAt(s, k)
<1>4. /\ t \in Seq(S) /\ Len(t) = n - 1
      /\ \A i \in 1 .. n - 1 : t[i] = IF i < k THEN s[i] ELSE s[i + 1]
  BY <1>1, RemoveAtFacts
<1>5. DOMAIN t = 1 .. n - 1
  BY <1>4, LenProperties
<1>6. \A i, j \in 1 .. n : s[i] = s[j] => i = j
  BY <1>3 DEF IsInjective
<1> HIDE DEF t
<1> DEFINE from(i) == IF i < k THEN i ELSE i + 1
<1>7. \A i \in 1 .. n - 1 : from(i) \in 1 .. n /\ from(i) # k
  BY <1>2
<1>8. \A i \in 1 .. n - 1 : t[i] = s[from(i)]
  BY <1>4
<1>9. \A i, j \in 1 .. n - 1 : from(i) = from(j) => i = j
  BY <1>2
<1>10. ToSet(t) = ToSet(s) \ {s[k]}
  <2>1. ASSUME NEW i \in 1 .. n - 1 PROVE t[i] \in ToSet(s) \ {s[k]}
    <3>1. from(i) \in 1 .. n /\ from(i) # k /\ t[i] = s[from(i)]
      BY <1>7, <1>8
    <3> HIDE DEF from
    <3> QED
      BY <1>2, <1>3, <1>6, <3>1 DEF ToSet
  <2>2. ASSUME NEW i \in 1 .. n, s[i] # s[k] PROVE s[i] \in ToSet(t)
    <3>1. i # k
      BY <2>2
    <3> DEFINE j == IF i < k THEN i ELSE i - 1
    <3>2. j \in 1 .. n - 1 /\ from(j) = i
      BY <1>2, <3>1
    <3>3. t[j] = s[i]
      BY <1>8, <3>2
    <3> HIDE DEF j
    <3> QED
      BY <1>5, <3>2, <3>3 DEF ToSet
  <2>3. ToSet(t) \subseteq ToSet(s) \ {s[k]}
    BY <1>5, <2>1 DEF ToSet
  <2>4. ToSet(s) \ {s[k]} \subseteq ToSet(t)
    BY <1>3, <2>2 DEF ToSet
  <2> QED
    BY <2>3, <2>4
<1>11. IsInjective(t)
  <2>1. ASSUME NEW i \in 1 .. n - 1, NEW j \in 1 .. n - 1, t[i] = t[j] PROVE i = j
    <3>1. from(i) = from(j)
      <4> HIDE DEF from
      <4> QED
        BY <1>6, <1>7, <1>8, <2>1
    <3> QED
      BY <1>9, <3>1
  <2> QED
    BY <1>5, <2>1 DEF IsInjective
<1>12. ASSUME NEW stop, NEW i \in 0 .. n
       PROVE  At(t, i, stop) = IF i < k THEN At(s, i, stop) ELSE At(s, i + 1, stop)
  <2>1. CASE i \in 1 .. n - 1
    <3>1. At(t, i, stop) = t[i] /\ i \in 1 .. n /\ i + 1 \in 1 .. n
      BY <1>4, <2>1 DEF At
    <3> QED
      BY <1>1, <1>4, <2>1, <3>1 DEF At
  <2>2. CASE i = 0
    <3>1. ~(i \in 1 .. n - 1) /\ ~(i \in 1 .. n) /\ i < k
      BY <1>2, <2>2
    <3> QED
      BY <1>1, <1>4, <3>1 DEF At
  <2>3. CASE i = n
    <3>1. ~(i \in 1 .. n - 1) /\ ~(i < k) /\ ~(i + 1 \in 1 .. n)
      BY <1>2, <2>3
    <3> QED
      BY <1>1, <1>4, <3>1 DEF At
  <2> QED
    BY <1>2, <2>1, <2>2, <2>3
<1> QED
  BY <1>1, <1>4, <1>10, <1>11, <1>12 DEF t

---------------------------------------------------------------------------
(* The invariant: a container's cells form a path from the first to Null,  *)
(* or a ring through the sentinel, and no other cell is in use.            *)

NodeType == [data : Values \cup {0}, prev : Links, next : Links]

InUse(h) == {c \in Cells : h[c] # Null}

Single == {"list", "queue", "stack"}

\* list, queue and stack: what is in use is on the path, and last is its end.
Line(k, h, f, l, n, s) ==
  /\ Lead(h, s, Null, "next") /\ f = At(s, 1, Null) /\ n = Len(s)
  /\ InUse(h) = ToSet(s)
  /\ k # "stack" => l = At(s, Len(s), Null)

\* The links back, where stop is before the first.
Back(h, s, stop) == \A i \in 1 .. Len(s) : h[s[i]].prev = At(s, i - 1, stop)

\* doubly: the sentinel f is before the first and after the last.
Ring(h, f, n, s) ==
  /\ f \in Cells /\ Lead(h, s, f, "next") /\ n = Len(s)
  /\ h[f].next = At(s, 1, f) /\ h[f].prev = At(s, Len(s), f)
  /\ Back(h, s, f)
  /\ InUse(h) = ToSet(s) \cup {f}

Linked(k, h, f, l, n, s) ==
  /\ h \in [Cells -> NodeType \cup {Null}]
  /\ k \in Single => Line(k, h, f, l, n, s)
  /\ k = "doubly" => Ring(h, f, n, s)
  /\ k \in {"none", "array"} => s = <<>> /\ InUse(h) = {}
  /\ k = "none" => n = 0

IInv == TypeOK /\ Linked(kind, heap, first, last, size, Nodes)

NodesIn(k, h, f) ==
  CASE k \in {"none", "array"} -> <<>>
    [] k \in Single            -> ChainIn(h, f, Null, "next")
    [] k = "doubly"            -> ChainIn(h, h[f].next, f, "next")

HeldIn(h, s) == [i \in DOMAIN s |-> h[s[i]].data]

LEMMA NodesAre ==
  /\ Nodes = NodesIn(kind, heap, first)
  /\ Nodes' = NodesIn(kind', heap', first')
<1>1. \A c, stop, way : Chain(c, stop, way) = ChainIn(heap, c, stop, way)
  BY DEF Chain, Hop, Step, ChainIn, HopIn, StepIn
<1>2. \A c, stop, way : Chain(c, stop, way)' = ChainIn(heap', c, stop, way)
  BY DEF Chain, Hop, Step, ChainIn, HopIn, StepIn
<1>3. Nodes = NodesIn(kind, heap, first)
  BY <1>1 DEF Nodes, NodesIn, Single
<1>4. Nodes' = NodesIn(kind', heap', first')
  BY <1>2 DEF Nodes, NodesIn, Single
<1> QED
  BY <1>3, <1>4

\* What the invariant says of a sequence identifies it with the nodes.
LEMMA LinkedNodes ==
  ASSUME NEW k, NEW h, NEW f, NEW l, NEW n, NEW s, Linked(k, h, f, l, n, s),
         k \in Single \cup {"doubly", "none", "array"}
  PROVE  NodesIn(k, h, f) = s
<1>1. CASE k \in {"none", "array"}
  BY <1>1 DEF NodesIn, Linked, Single
<1>2. CASE k \in Single
  <2>1. Lead(h, s, Null, "next") /\ f = At(s, 1, Null)
    BY <1>2 DEF Linked, Line
  <2>2. StepIn(h, Null, "next") = Null
    BY DEF StepIn
  <2>3. ChainIn(h, f, Null, "next") = s
    BY <2>1, <2>2, ChainAlong
  <2> QED
    BY <1>2, <2>3 DEF NodesIn, Single
<1>3. CASE k = "doubly"
  <2>1. Lead(h, s, f, "next") /\ h[f].next = At(s, 1, f) /\ f \in Cells
    BY <1>3 DEF Linked, Ring
  <2>2. f # Null /\ s \in Seq(Cells)
    BY <2>1, ConstantsAssumption DEF Lead
  <2>3. StepIn(h, f, "next") = At(s, 1, f)
    BY <2>1, <2>2 DEF StepIn
  <2>4. At(s, 1, f) \in ToSet(s) \cup {f}
    BY <2>2, AtType
  <2>5. ChainIn(h, h[f].next, f, "next") = s
    BY <2>1, <2>3, <2>4, ChainAlong
  <2> QED
    BY <1>3, <2>5 DEF NodesIn, Single
<1> QED
  BY <1>1, <1>2, <1>3

\* The way back along a ring is the reverse of the way there.
LEMMA BackAlong ==
  ASSUME NEW h, NEW f, NEW n, NEW s, Ring(h, f, n, s)
  PROVE  Lead(h, Reverse(s), f, "prev") /\ h[f].prev = At(Reverse(s), 1, f)
<1>1. PICK m \in Nat : m = Len(s)
  BY LenProperties DEF Ring, Lead
<1>2. /\ f \in Cells /\ s \in Seq(Cells) /\ IsInjective(s) /\ f \notin ToSet(s) /\ Null \notin ToSet(s)
      /\ DOMAIN s = 1 .. m
  BY <1>1, LenProperties DEF Ring, Lead
<1> DEFINE r == Reverse(s)
<1>3. r \in Seq(Cells) /\ Len(r) = m /\ \A i \in 1 .. m : r[i] = s[m - i + 1] /\ m - i + 1 \in 1 .. m
  BY <1>1, <1>2, ReverseFacts
<1> HIDE DEF r
<1>4. DOMAIN r = 1 .. m
  BY <1>3, LenProperties
<1>5. IsInjective(r)
  <2>1. ASSUME NEW i \in 1 .. m, NEW j \in 1 .. m, r[i] = r[j] PROVE i = j
    <3>1. m - i + 1 = m - j + 1
      BY <1>2, <1>3, <2>1 DEF IsInjective
    <3> QED
      BY <3>1
  <2> QED
    BY <1>4, <2>1 DEF IsInjective
<1>6. ToSet(r) \subseteq ToSet(s)
  BY <1>2, <1>3, <1>4 DEF ToSet
<1>7. ASSUME NEW i \in Int PROVE At(r, i, f) = At(s, m - i + 1, f)
  <2>1. CASE i \in 1 .. m
    <3>1. m - i + 1 \in 1 .. m
      BY <2>1
    <3> QED
      BY <1>1, <1>3, <2>1, <3>1 DEF At
  <2>2. CASE ~(i \in 1 .. m)
    <3>1. ~(m - i + 1 \in 1 .. m)
      BY <2>2
    <3> QED
      BY <1>1, <1>3, <2>2, <3>1 DEF At
  <2> QED
    BY <2>1, <2>2
<1>8. ASSUME NEW i \in 1 .. m PROVE h[r[i]]["prev"] = At(r, i + 1, f)
  <2>1. PICK j \in 1 .. m : j = m - i + 1
    BY <1>3
  <2>2. h[s[j]].prev = At(s, j - 1, f)
    BY <1>1 DEF Ring, Back
  <2>3. j - 1 = m - (i + 1) + 1 /\ i + 1 \in Int
    BY <2>1
  <2>4. r[i] = s[j]
    BY <1>3, <2>1
  <2> QED
    BY <1>7, <2>2, <2>3, <2>4
<1>9. h[f].prev = At(r, 1, f)
  <2>1. m - 1 + 1 = m
    OBVIOUS
  <2>2. h[f].prev = At(s, m, f)
    BY <1>1 DEF Ring
  <2> QED
    BY <1>7, <2>1, <2>2
<1> QED
  BY <1>2, <1>3, <1>5, <1>6, <1>8, <1>9 DEF Lead, r

---------------------------------------------------------------------------
(* What a change of the links does to a path, there and back.              *)

\* A cell in a path is at one place.
LEMMA Places ==
  ASSUME NEW s \in Seq(Cells), IsInjective(s), NEW stop, stop \notin ToSet(s),
         NEW i \in 1 .. Len(s), NEW j \in Int
  PROVE  (s[i] = At(s, j, stop) <=> i = j) /\ s[i] \in ToSet(s) /\ s[i] \in Cells
<1>1. PICK n \in Nat : n = Len(s)
  BY LenProperties
<1>2. DOMAIN s = 1 .. n /\ s \in [1 .. n -> Cells]
  BY <1>1, LenProperties
<1>3. s[i] \in ToSet(s) /\ s[i] \in Cells
  BY <1>1, <1>2 DEF ToSet
<1>4. CASE j \in 1 .. n
  BY <1>1, <1>2, <1>3, <1>4 DEF At, IsInjective
<1>5. CASE ~(j \in 1 .. n)
  BY <1>1, <1>3, <1>5 DEF At
<1> QED
  BY <1>3, <1>4, <1>5

LEMMA LeadInsert ==
  ASSUME NEW h, NEW g, NEW s, NEW stop, Lead(h, s, stop, "next"),
         NEW c \in Cells, c \notin ToSet(s), c # stop, NEW k \in 1 .. Len(s) + 1,
         g[c].next = At(s, k, stop),
         \A x \in ToSet(s) : g[x].next = IF x = At(s, k - 1, stop) THEN c ELSE h[x].next
  PROVE  Lead(g, InsertAt(s, k, c), stop, "next")
<1> DEFINE t == InsertAt(s, k, c)
<1>1. /\ s \in Seq(Cells) /\ IsInjective(s) /\ stop \notin ToSet(s) /\ Null \notin ToSet(s)
      /\ \A i \in 1 .. Len(s) : h[s[i]].next = At(s, i + 1, stop)
  BY DEF Lead
<1>2. PICK n \in Nat : n = Len(s)
  BY <1>1, LenProperties
<1>3. k \in 1 .. n + 1 /\ k \in Nat /\ c # Null
  BY <1>2, ConstantsAssumption
<1>4. /\ t \in Seq(Cells) /\ Len(t) = n + 1 /\ ToSet(t) = ToSet(s) \cup {c} /\ IsInjective(t)
      /\ \A i \in 0 .. n + 2 :
           At(t, i, stop) = IF i < k THEN At(s, i, stop) ELSE IF i = k THEN c ELSE At(s, i - 1, stop)
  BY <1>1, <1>2, InsertAlong
<1> HIDE DEF t
<1>5. ASSUME NEW i \in 1 .. n + 1 PROVE g[t[i]].next = At(t, i + 1, stop)
  <2>1. t[i] = IF i < k THEN At(s, i, stop) ELSE IF i = k THEN c ELSE At(s, i - 1, stop)
    <3>1. t[i] = At(t, i, stop) /\ i \in 0 .. n + 2
      BY <1>4 DEF At
    <3> QED
      BY <1>4, <3>1
  <2>2. At(t, i + 1, stop)
          = IF i + 1 < k THEN At(s, i + 1, stop) ELSE IF i + 1 = k THEN c ELSE At(s, (i + 1) - 1, stop)
    <3>1. i + 1 \in 0 .. n + 2
      OBVIOUS
    <3> QED
      BY <1>4, <3>1
  <2>3. CASE i < k
    <3>1. i \in 1 .. n /\ i \in 1 .. Len(s) /\ k - 1 \in Int
      BY <1>2, <1>3, <2>3
    <3>2. t[i] = s[i] /\ s[i] \in ToSet(s) /\ (s[i] = At(s, k - 1, stop) <=> i = k - 1)
      BY <1>1, <2>1, <2>3, <3>1, Places DEF At
    <3>3. i = k - 1 <=> i + 1 = k
      BY <1>3
    <3>4. g[s[i]].next = IF i + 1 = k THEN c ELSE At(s, i + 1, stop)
      BY <1>1, <3>1, <3>2, <3>3
    <3>5. i + 1 = k \/ i + 1 < k
      BY <1>3, <2>3
    <3> QED
      BY <2>2, <3>2, <3>4, <3>5
  <2>4. CASE i = k
    <3>1. ~(i + 1 < k) /\ i + 1 # k /\ (i + 1) - 1 = k /\ ~(i < k)
      BY <1>3, <2>4
    <3> QED
      BY <2>1, <2>2, <2>4, <3>1
  <2>5. CASE i > k
    <3>1. PICK j \in 1 .. n : j = i - 1
      BY <1>3, <2>5
    <3>2. ~(i < k) /\ i # k /\ ~(i + 1 < k) /\ i + 1 # k /\ (i + 1) - 1 = j + 1 /\ j # k - 1
          /\ k - 1 \in Int /\ j \in 1 .. Len(s)
      BY <1>2, <1>3, <2>5, <3>1
    <3>3. t[i] = s[j] /\ At(t, i + 1, stop) = At(s, j + 1, stop)
      BY <2>1, <2>2, <3>1, <3>2 DEF At
    <3>4. s[j] \in ToSet(s) /\ s[j] # At(s, k - 1, stop)
      BY <1>1, <3>2, Places
    <3> QED
      BY <1>1, <3>2, <3>3, <3>4
  <2> QED
    BY <1>3, <2>3, <2>4, <2>5
<1> QED
  BY <1>1, <1>3, <1>4, <1>5 DEF Lead, t

LEMMA BackInsert ==
  ASSUME NEW h, NEW g, NEW s \in Seq(Cells), IsInjective(s), NEW stop, stop \notin ToSet(s),
         Back(h, s, stop), NEW c \in Cells, NEW k \in 1 .. Len(s) + 1,
         g[c].prev = At(s, k - 1, stop),
         \A x \in ToSet(s) : g[x].prev = IF x = At(s, k, stop) THEN c ELSE h[x].prev
  PROVE  Back(g, InsertAt(s, k, c), stop)
<1> DEFINE t == InsertAt(s, k, c)
<1>1. \A i \in 1 .. Len(s) : h[s[i]].prev = At(s, i - 1, stop)
  BY DEF Back
<1>2. PICK n \in Nat : n = Len(s)
  BY LenProperties
<1>3. k \in 1 .. n + 1 /\ k \in Nat
  BY <1>2
<1>4. /\ Len(t) = n + 1
      /\ \A i \in 0 .. n + 2 :
           At(t, i, stop) = IF i < k THEN At(s, i, stop) ELSE IF i = k THEN c ELSE At(s, i - 1, stop)
  BY <1>2, InsertAlong
<1> HIDE DEF t
<1>5. ASSUME NEW i \in 1 .. n + 1 PROVE g[t[i]].prev = At(t, i - 1, stop)
  <2>1. t[i] = IF i < k THEN At(s, i, stop) ELSE IF i = k THEN c ELSE At(s, i - 1, stop)
    <3>1. t[i] = At(t, i, stop) /\ i \in 0 .. n + 2
      BY <1>4 DEF At
    <3> QED
      BY <1>4, <3>1
  <2>2. At(t, i - 1, stop)
          = IF i - 1 < k THEN At(s, i - 1, stop) ELSE IF i - 1 = k THEN c ELSE At(s, (i - 1) - 1, stop)
    <3>1. i - 1 \in 0 .. n + 2
      OBVIOUS
    <3> QED
      BY <1>4, <3>1
  <2>3. CASE i < k
    <3>1. i \in 1 .. Len(s) /\ k \in Int /\ i - 1 < k /\ i \in 1 .. n /\ i # k
      BY <1>2, <1>3, <2>3
    <3>2. t[i] = s[i] /\ s[i] \in ToSet(s) /\ s[i] # At(s, k, stop)
      BY <2>1, <2>3, <3>1, Places DEF At
    <3> QED
      BY <1>1, <2>2, <3>1, <3>2
  <2>4. CASE i = k
    <3>1. i - 1 < k /\ ~(i < k)
      BY <1>3, <2>4
    <3> QED
      BY <2>1, <2>2, <2>4, <3>1
  <2>5. CASE i > k
    <3>1. PICK j \in 1 .. n : j = i - 1
      BY <1>3, <2>5
    <3>2. ~(i < k) /\ i # k /\ ~(i - 1 < k) /\ j \in 1 .. Len(s) /\ k \in Int /\ j \in Int
      BY <1>2, <1>3, <2>5, <3>1
    <3>3. t[i] = s[j]
      BY <2>1, <3>1, <3>2 DEF At
    <3>4. s[j] \in ToSet(s) /\ (s[j] = At(s, k, stop) <=> j = k)
      BY <3>2, Places
    <3>5. g[s[j]].prev = IF j = k THEN c ELSE At(s, j - 1, stop)
      BY <1>1, <3>2, <3>4
    <3> QED
      BY <2>2, <3>1, <3>2, <3>3, <3>5
  <2> QED
    BY <1>3, <2>3, <2>4, <2>5
<1> QED
  BY <1>4, <1>5 DEF Back, t

LEMMA LeadRemove ==
  ASSUME NEW h, NEW g, NEW s, NEW stop, Lead(h, s, stop, "next"), NEW k \in 1 .. Len(s),
         \A x \in ToSet(s) \ {s[k]} :
           g[x].next = IF x = At(s, k - 1, stop) THEN At(s, k + 1, stop) ELSE h[x].next
  PROVE  Lead(g, RemoveAt(s, k), stop, "next")
<1> DEFINE t == RemoveAt(s, k)
<1>1. /\ s \in Seq(Cells) /\ IsInjective(s) /\ stop \notin ToSet(s) /\ Null \notin ToSet(s)
      /\ \A i \in 1 .. Len(s) : h[s[i]].next = At(s, i + 1, stop)
  BY DEF Lead
<1>2. PICK n \in Nat : n = Len(s)
  BY <1>1, LenProperties
<1>3. k \in 1 .. n /\ k \in Nat /\ k - 1 \in Int /\ k \in Int
  BY <1>2
<1>4. /\ t \in Seq(Cells) /\ Len(t) = n - 1 /\ ToSet(t) = ToSet(s) \ {s[k]} /\ IsInjective(t)
      /\ \A i \in 0 .. n : At(t, i, stop) = IF i < k THEN At(s, i, stop) ELSE At(s, i + 1, stop)
  BY <1>1, <1>2, RemoveAlong
<1> HIDE DEF t
<1>5. ASSUME NEW i \in 1 .. n - 1 PROVE g[t[i]].next = At(t, i + 1, stop)
  <2>1. t[i] = IF i < k THEN At(s, i, stop) ELSE At(s, i + 1, stop)
    <3>1. t[i] = At(t, i, stop) /\ i \in 0 .. n
      BY <1>4 DEF At
    <3> QED
      BY <1>4, <3>1
  <2>2. At(t, i + 1, stop) = IF i + 1 < k THEN At(s, i + 1, stop) ELSE At(s, (i + 1) + 1, stop)
    <3>1. i + 1 \in 0 .. n
      OBVIOUS
    <3> QED
      BY <1>4, <3>1
  <2> DEFINE j == IF i < k THEN i ELSE i + 1
  <2>3. j \in 1 .. n /\ j # k /\ j \in 1 .. Len(s) /\ (j = k - 1 <=> i + 1 = k)
    BY <1>2, <1>3
  <2>4. t[i] = s[j]
    BY <1>2, <2>1, <2>3 DEF At
  <2>5. s[j] \in ToSet(s) /\ s[j] # s[k] /\ (s[j] = At(s, k - 1, stop) <=> j = k - 1)
    <3> HIDE DEF j
    <3>1. s[k] = At(s, k, stop)
      BY <1>2, <1>3 DEF At
    <3>2. s[j] \in ToSet(s) /\ (s[j] = At(s, k, stop) <=> j = k)
      BY <1>1, <1>3, <2>3, Places
    <3>3. s[j] = At(s, k - 1, stop) <=> j = k - 1
      BY <1>1, <1>3, <2>3, Places
    <3> QED
      BY <2>3, <3>1, <3>2, <3>3
  <2>6. g[s[j]].next = IF i + 1 = k THEN At(s, k + 1, stop) ELSE At(s, j + 1, stop)
    <3> HIDE DEF j
    <3> QED
      BY <1>1, <2>3, <2>5
  <2>7. CASE i + 1 = k
    <3>1. ~(i + 1 < k) /\ (i + 1) + 1 = k + 1
      BY <2>7
    <3> QED
      BY <2>2, <2>4, <2>6, <2>7, <3>1
  <2>8. CASE i + 1 # k
    <3>1. i < k <=> i + 1 < k
      BY <1>3, <2>8
    <3> QED
      BY <2>2, <2>4, <2>6, <2>8, <3>1
  <2> QED
    BY <2>7, <2>8
<1> QED
  BY <1>1, <1>4, <1>5 DEF Lead, t

LEMMA BackRemove ==
  ASSUME NEW h, NEW g, NEW s \in Seq(Cells), IsInjective(s), NEW stop, stop \notin ToSet(s),
         Back(h, s, stop), NEW k \in 1 .. Len(s),
         \A x \in ToSet(s) \ {s[k]} :
           g[x].prev = IF x = At(s, k + 1, stop) THEN At(s, k - 1, stop) ELSE h[x].prev
  PROVE  Back(g, RemoveAt(s, k), stop)
<1> DEFINE t == RemoveAt(s, k)
<1>1. \A i \in 1 .. Len(s) : h[s[i]].prev = At(s, i - 1, stop)
  BY DEF Back
<1>2. PICK n \in Nat : n = Len(s)
  BY LenProperties
<1>3. k \in 1 .. n /\ k \in Nat /\ k + 1 \in Int /\ k \in Int
  BY <1>2
<1>4. /\ Len(t) = n - 1
      /\ \A i \in 0 .. n : At(t, i, stop) = IF i < k THEN At(s, i, stop) ELSE At(s, i + 1, stop)
  BY <1>2, RemoveAlong
<1> HIDE DEF t
<1>5. ASSUME NEW i \in 1 .. n - 1 PROVE g[t[i]].prev = At(t, i - 1, stop)
  <2>1. t[i] = IF i < k THEN At(s, i, stop) ELSE At(s, i + 1, stop)
    <3>1. t[i] = At(t, i, stop) /\ i \in 0 .. n
      BY <1>4 DEF At
    <3> QED
      BY <1>4, <3>1
  <2>2. At(t, i - 1, stop) = IF i - 1 < k THEN At(s, i - 1, stop) ELSE At(s, (i - 1) + 1, stop)
    <3>1. i - 1 \in 0 .. n
      OBVIOUS
    <3> QED
      BY <1>4, <3>1
  <2> DEFINE j == IF i < k THEN i ELSE i + 1
  <2>3. j \in 1 .. n /\ j # k /\ j \in 1 .. Len(s) /\ (j = k + 1 <=> i = k)
    BY <1>2, <1>3
  <2>4. t[i] = s[j]
    BY <1>2, <2>1, <2>3 DEF At
  <2>5. s[j] \in ToSet(s) /\ s[j] # s[k] /\ (s[j] = At(s, k + 1, stop) <=> j = k + 1)
    <3> HIDE DEF j
    <3>1. s[k] = At(s, k, stop)
      BY <1>2, <1>3 DEF At
    <3>2. s[j] \in ToSet(s) /\ (s[j] = At(s, k, stop) <=> j = k)
      BY <1>3, <2>3, Places
    <3>3. s[j] = At(s, k + 1, stop) <=> j = k + 1
      BY <1>3, <2>3, Places
    <3> QED
      BY <2>3, <3>1, <3>2, <3>3
  <2>6. g[s[j]].prev = IF i = k THEN At(s, k - 1, stop) ELSE At(s, j - 1, stop)
    <3> HIDE DEF j
    <3> QED
      BY <1>1, <2>3, <2>5
  <2>7. CASE i = k
    <3>1. i - 1 < k
      BY <2>7, <1>3
    <3> QED
      BY <2>2, <2>4, <2>6, <2>7, <3>1
  <2>8. CASE i # k
    <3>1. (i < k <=> i - 1 < k) /\ (i + 1) - 1 = (i - 1) + 1
      BY <1>3, <2>8
    <3> QED
      BY <2>2, <2>4, <2>6, <2>8, <3>1
  <2> QED
    BY <2>7, <2>8
<1> QED
  BY <1>4, <1>5 DEF Back, t

---------------------------------------------------------------------------
(* The values that a path holds                                            *)

Datum == Values \cup {0}

LEMMA HeldFacts ==
  ASSUME NEW h, NEW s \in Seq(Cells), \A x \in ToSet(s) : h[x].data \in Datum
  PROVE  /\ HeldIn(h, s) \in Seq(Datum) /\ Len(HeldIn(h, s)) = Len(s)
         /\ \A i \in 1 .. Len(s) : HeldIn(h, s)[i] = h[s[i]].data
<1>1. PICK n \in Nat : n = Len(s)
  BY LenProperties
<1>2. DOMAIN s = 1 .. n
  BY <1>1, LenProperties
<1>3. \A i \in 1 .. n : s[i] \in ToSet(s)
  BY <1>2 DEF ToSet
<1>4. HeldIn(h, s) = [i \in 1 .. n |-> h[s[i]].data]
  BY <1>2 DEF HeldIn
<1>5. HeldIn(h, s) \in Seq(Datum)
  BY <1>3, <1>4
<1>6. Len(HeldIn(h, s)) = n
  BY <1>4
<1> QED
  BY <1>1, <1>4, <1>5, <1>6

LEMMA HeldInsert ==
  ASSUME NEW h, NEW g, NEW s \in Seq(Cells), NEW c \in Cells, NEW k \in 1 .. Len(s) + 1,
         NEW v \in Datum, \A x \in ToSet(s) : h[x].data \in Datum,
         g[c].data = v, \A x \in ToSet(s) : g[x].data = h[x].data
  PROVE  HeldIn(g, InsertAt(s, k, c)) = InsertAt(HeldIn(h, s), k, v)
<1> DEFINE t == InsertAt(s, k, c)
           a == HeldIn(h, s)
           l == HeldIn(g, t)
           r == InsertAt(a, k, v)
<1>1. PICK n \in Nat : n = Len(s)
  BY LenProperties
<1>2. k \in 1 .. n + 1 /\ k \in Nat
  BY <1>1
<1>3. /\ t \in Seq(Cells) /\ Len(t) = n + 1 /\ ToSet(t) = ToSet(s) \cup {c}
      /\ \A i \in 1 .. n + 1 : t[i] = IF i < k THEN s[i] ELSE IF i = k THEN c ELSE s[i - 1]
  <2>1. t \in Seq(Cells) /\ Len(t) = n + 1 /\ ToSet(t) = ToSet(s) \cup {c}
    BY <1>1, InsertAlong
  <2>2. \A i \in 0 .. Len(s) + 2 :
          At(t, i, 0) = IF i < k THEN At(s, i, 0) ELSE IF i = k THEN c ELSE At(s, i - 1, 0)
    BY InsertAlong
  <2> HIDE DEF t
  <2>3. ASSUME NEW i \in 1 .. n + 1
        PROVE  t[i] = IF i < k THEN s[i] ELSE IF i = k THEN c ELSE s[i - 1]
    <3>1. /\ i \in 0 .. Len(s) + 2 /\ At(t, i, 0) = t[i]
          /\ i < k => At(s, i, 0) = s[i]
          /\ i > k => At(s, i - 1, 0) = s[i - 1]
      BY <1>1, <1>2, <2>1 DEF At
    <3> QED
      BY <1>2, <2>2, <3>1
  <2> QED
    BY <2>1, <2>3
<1>4. a \in Seq(Datum) /\ Len(a) = n /\ \A i \in 1 .. n : a[i] = h[s[i]].data
  BY <1>1, HeldFacts
<1>5. \A i \in 1 .. n : s[i] \in ToSet(s)
  BY <1>1, LenProperties DEF ToSet
<1> HIDE DEF t, a
<1>6. l \in Seq(Datum) /\ Len(l) = n + 1 /\ \A i \in 1 .. n + 1 : l[i] = g[t[i]].data
  <2>1. \A x \in ToSet(t) : g[x].data \in Datum
    BY <1>3
  <2>2. l \in Seq(Datum) /\ Len(l) = Len(t) /\ \A i \in 1 .. Len(t) : l[i] = g[t[i]].data
    <3>1. t \in Seq(Cells)
      BY <1>3
    <3> QED
      BY ONLY <2>1, <3>1, HeldFacts
  <2> HIDE DEF l
  <2> QED
    BY <1>3, <2>2
<1>7. /\ r \in Seq(Datum) /\ Len(r) = n + 1
      /\ \A i \in 1 .. n + 1 : r[i] = IF i < k THEN a[i] ELSE IF i = k THEN v ELSE a[i - 1]
  <2>1. k \in 1 .. Len(a) + 1 /\ a \in Seq(Datum)
    BY <1>2, <1>4
  <2>2. /\ r \in Seq(Datum) /\ Len(r) = Len(a) + 1
        /\ \A i \in 1 .. Len(a) + 1 : r[i] = IF i < k THEN a[i] ELSE IF i = k THEN v ELSE a[i - 1]
    BY <2>1, InsertAtFacts
  <2> HIDE DEF r
  <2> QED
    BY <1>4, <2>2
<1> HIDE DEF l, r
<1>8. ASSUME NEW i \in 1 .. n + 1 PROVE l[i] = r[i]
  <2>1. CASE i < k
    <3>1. i \in 1 .. n
      BY <1>2, <2>1
    <3>2. l[i] = g[s[i]].data /\ r[i] = a[i]
      BY <1>3, <1>6, <1>7, <2>1
    <3>3. s[i] \in ToSet(s) /\ a[i] = h[s[i]].data
      BY <1>4, <1>5, <3>1
    <3> QED
      BY <3>2, <3>3
  <2>2. CASE i = k
    <3>1. ~(i < k)
      BY <1>2, <2>2
    <3> QED
      BY <1>3, <1>6, <1>7, <2>2, <3>1
  <2>3. CASE i > k
    <3>1. i - 1 \in 1 .. n /\ ~(i < k) /\ i # k
      BY <1>2, <2>3
    <3>2. l[i] = g[s[i - 1]].data /\ r[i] = a[i - 1]
      BY <1>3, <1>6, <1>7, <3>1
    <3>3. s[i - 1] \in ToSet(s) /\ a[i - 1] = h[s[i - 1]].data
      BY <1>4, <1>5, <3>1
    <3> QED
      BY <3>2, <3>3
  <2> QED
    BY <1>2, <2>1, <2>2, <2>3
<1>9. l = r
  BY <1>6, <1>7, <1>8, SeqEqual
<1> QED
  BY <1>9 DEF l, r, t, a

LEMMA HeldRemove ==
  ASSUME NEW h, NEW g, NEW s \in Seq(Cells), NEW k \in 1 .. Len(s), IsInjective(s),
         \A x \in ToSet(s) : h[x].data \in Datum,
         \A x \in ToSet(s) \ {s[k]} : g[x].data = h[x].data
  PROVE  HeldIn(g, RemoveAt(s, k)) = RemoveAt(HeldIn(h, s), k)
<1> DEFINE t == RemoveAt(s, k)
           a == HeldIn(h, s)
           l == HeldIn(g, t)
           r == RemoveAt(a, k)
<1>1. PICK n \in Nat : n = Len(s)
  BY LenProperties
<1>2. k \in 1 .. n /\ k \in Nat
  BY <1>1
<1>3. /\ t \in Seq(Cells) /\ Len(t) = n - 1 /\ ToSet(t) = ToSet(s) \ {s[k]}
      /\ \A i \in 1 .. n - 1 : t[i] = IF i < k THEN s[i] ELSE s[i + 1]
  BY <1>1, RemoveAtFacts, RemoveAlong
<1>4. a \in Seq(Datum) /\ Len(a) = n /\ \A i \in 1 .. n : a[i] = h[s[i]].data
  BY <1>1, HeldFacts
<1> HIDE DEF t, a
<1>5. \A x \in ToSet(t) : g[x].data = h[x].data /\ h[x].data \in Datum
  BY <1>3
<1>6. l \in Seq(Datum) /\ Len(l) = n - 1 /\ \A i \in 1 .. n - 1 : l[i] = h[t[i]].data
  <2>1. l \in Seq(Datum) /\ Len(l) = n - 1 /\ \A i \in 1 .. n - 1 : l[i] = g[t[i]].data
    BY <1>3, <1>5, HeldFacts
  <2>2. DOMAIN t = 1 .. n - 1
    BY <1>3, LenProperties
  <2>3. \A i \in 1 .. n - 1 : t[i] \in ToSet(t)
    BY <2>2 DEF ToSet
  <2> QED
    BY <1>5, <2>1, <2>3
<1>7. /\ r \in Seq(Datum) /\ Len(r) = n - 1
      /\ \A i \in 1 .. n - 1 : r[i] = IF i < k THEN a[i] ELSE a[i + 1]
  BY <1>2, <1>4, RemoveAtFacts
<1> HIDE DEF l, r
<1>8. ASSUME NEW i \in 1 .. n - 1 PROVE l[i] = r[i]
  <2>1. i \in 1 .. n /\ i + 1 \in 1 .. n
    BY <1>2
  <2>2. CASE i < k
    <3>1. l[i] = h[s[i]].data /\ r[i] = a[i]
      BY <1>3, <1>6, <1>7, <2>2
    <3> QED
      BY <1>4, <2>1, <3>1
  <2>3. CASE ~(i < k)
    <3>1. l[i] = h[s[i + 1]].data /\ r[i] = a[i + 1]
      BY <1>3, <1>6, <1>7, <2>3
    <3> QED
      BY <1>4, <2>1, <3>1
  <2> QED
    BY <2>2, <2>3
<1>9. l = r
  BY <1>6, <1>7, <1>8, SeqEqual
<1> QED
  BY <1>9 DEF l, r, t, a

---------------------------------------------------------------------------
(* Operations on a heap.  The cell c goes in at the k-th place of s, or the*)
(* k-th cell of s goes out.                                                *)

HeapType == [Cells -> NodeType \cup {Null}]

\* NULL is not a node.
LEMMA NullIsNoNode == Null \notin NodeType
BY ConstantsAssumption DEF NodeType, Links

LEMMA UsedTyped ==
  ASSUME NEW h \in HeapType, NEW x \in InUse(h)
  PROVE  /\ x \in Cells /\ h[x] \in NodeType /\ h[x] # Null
         /\ h[x].data \in Datum /\ h[x].prev \in Links /\ h[x].next \in Links
<1>1. x \in Cells /\ h[x] \in NodeType /\ h[x] # Null
  BY DEF HeapType, InUse
<1> QED
  BY <1>1 DEF NodeType, Datum

LEMMA NodeTyped ==
  ASSUME NEW v \in Datum, NEW p \in Links, NEW n \in Links
  PROVE  /\ Node(v, p, n) \in NodeType /\ Node(v, p, n) # Null
         /\ Node(v, p, n).data = v /\ Node(v, p, n).prev = p /\ Node(v, p, n).next = n
<1>1. Node(v, p, n) \in NodeType
  BY DEF Node, NodeType, Datum
<1>2. Node(v, p, n).data = v /\ Node(v, p, n).prev = p /\ Node(v, p, n).next = n
  BY DEF Node
<1> QED
  BY <1>1, <1>2, NullIsNoNode

\* The free cell that malloc hands out.
LEMMA FreshIsFree ==
  ASSUME NEW c \in Fresh
  PROVE  c \in Cells /\ heap[c] = Null /\ c # Null
BY ConstantsAssumption DEF Fresh

LEMMA LineInsert ==
  ASSUME NEW h \in HeapType, NEW g \in HeapType, NEW s, Lead(h, s, Null, "next"), InUse(h) = ToSet(s),
         NEW c \in Cells, h[c] = Null, NEW k \in 1 .. Len(s) + 1, NEW v \in Values,
         g[c] # Null, g[c].data = v, g[c].next = At(s, k, Null),
         \A x \in ToSet(s) : /\ g[x] # Null /\ g[x].data = h[x].data
                             /\ g[x].next = IF x = At(s, k - 1, Null) THEN c ELSE h[x].next,
         \A x \in Cells : x # c /\ h[x] = Null => g[x] = Null
  PROVE  /\ Lead(g, InsertAt(s, k, c), Null, "next") /\ InUse(g) = ToSet(InsertAt(s, k, c))
         /\ HeldIn(g, InsertAt(s, k, c)) = InsertAt(HeldIn(h, s), k, v)
<1>1. s \in Seq(Cells) /\ ToSet(s) \subseteq Cells /\ c \notin ToSet(s) /\ c # Null
  BY ConstantsAssumption DEF Lead, InUse
<1>2. Lead(g, InsertAt(s, k, c), Null, "next")
  BY <1>1, LeadInsert
<1>3. InUse(g) = ToSet(InsertAt(s, k, c))
  <2>1. ToSet(InsertAt(s, k, c)) = ToSet(s) \cup {c}
    BY <1>1, InsertAlong
  <2> QED
    BY <1>1, <2>1 DEF InUse
<1>4. \A x \in ToSet(s) : h[x].data \in Datum
  BY UsedTyped
<1>5. HeldIn(g, InsertAt(s, k, c)) = InsertAt(HeldIn(h, s), k, v)
  <2>1. v \in Datum
    BY DEF Datum
  <2> QED
    BY <1>1, <1>4, <2>1, HeldInsert
<1> QED
  BY <1>2, <1>3, <1>5

LEMMA LineRemove ==
  ASSUME NEW h \in HeapType, NEW g \in HeapType, NEW s, Lead(h, s, Null, "next"), InUse(h) = ToSet(s),
         NEW k \in 1 .. Len(s), g[s[k]] = Null,
         \A x \in ToSet(s) \ {s[k]} :
           /\ g[x] # Null /\ g[x].data = h[x].data
           /\ g[x].next = IF x = At(s, k - 1, Null) THEN At(s, k + 1, Null) ELSE h[x].next,
         \A x \in Cells : h[x] = Null => g[x] = Null
  PROVE  /\ Lead(g, RemoveAt(s, k), Null, "next") /\ InUse(g) = ToSet(RemoveAt(s, k))
         /\ HeldIn(g, RemoveAt(s, k)) = RemoveAt(HeldIn(h, s), k)
<1>1. s \in Seq(Cells) /\ ToSet(s) \subseteq Cells /\ IsInjective(s)
  BY DEF Lead, InUse
<1>2. Lead(g, RemoveAt(s, k), Null, "next")
  BY <1>1, LeadRemove
<1>3. InUse(g) = ToSet(RemoveAt(s, k))
  <2>1. ToSet(RemoveAt(s, k)) = ToSet(s) \ {s[k]}
    BY <1>1, RemoveAlong
  <2> QED
    BY <1>1, <2>1 DEF InUse
<1>4. \A x \in ToSet(s) : h[x].data \in Datum
  BY UsedTyped
<1>5. HeldIn(g, RemoveAt(s, k)) = RemoveAt(HeldIn(h, s), k)
  BY <1>1, <1>4, HeldRemove
<1> QED
  BY <1>2, <1>3, <1>5

LEMMA RingInsert ==
  ASSUME NEW h \in HeapType, NEW g \in HeapType, NEW f, NEW n, NEW s, Ring(h, f, n, s), NEW o, o = n + 1,
         NEW c \in Cells, h[c] = Null, NEW k \in 1 .. Len(s) + 1, NEW v \in Values,
         g[c] = Node(v, At(s, k - 1, f), At(s, k, f)),
         \A x \in InUse(h) : /\ g[x] # Null /\ g[x].data = h[x].data
                             /\ g[x].next = IF x = At(s, k - 1, f) THEN c ELSE h[x].next
                             /\ g[x].prev = IF x = At(s, k, f) THEN c ELSE h[x].prev,
         \A x \in Cells : x # c /\ h[x] = Null => g[x] = Null
  PROVE  /\ Ring(g, f, o, InsertAt(s, k, c))
         /\ HeldIn(g, InsertAt(s, k, c)) = InsertAt(HeldIn(h, s), k, v)
<1> DEFINE t == InsertAt(s, k, c)
<1>1. /\ f \in Cells /\ Lead(h, s, f, "next") /\ n = Len(s) /\ Back(h, s, f)
      /\ h[f].next = At(s, 1, f) /\ h[f].prev = At(s, Len(s), f) /\ InUse(h) = ToSet(s) \cup {f}
  BY DEF Ring
<1>2. /\ s \in Seq(Cells) /\ ToSet(s) \subseteq Cells /\ IsInjective(s) /\ f \notin ToSet(s)
      /\ c \notin ToSet(s) /\ c # f
  BY <1>1 DEF Lead, InUse
<1>3. PICK m \in Nat : m = Len(s)
  BY <1>2, LenProperties
<1>4. k \in 1 .. m + 1 /\ k \in Nat /\ k - 1 \in Int /\ k \in Int
  BY <1>3
<1>5. At(s, k - 1, f) \in Links /\ At(s, k, f) \in Links /\ v \in Datum
  BY <1>1, <1>2, <1>4, AtType DEF Links, Datum
<1>6. g[c] # Null /\ g[c].data = v /\ g[c].prev = At(s, k - 1, f) /\ g[c].next = At(s, k, f)
  BY <1>5, NodeTyped
<1>7. /\ Len(t) = m + 1 /\ ToSet(t) = ToSet(s) \cup {c}
      /\ \A i \in 0 .. m + 2 :
           At(t, i, f) = IF i < k THEN At(s, i, f) ELSE IF i = k THEN c ELSE At(s, i - 1, f)
  BY <1>2, <1>3, InsertAlong
<1>8. Lead(g, t, f, "next")
  BY <1>1, <1>2, <1>6, LeadInsert
<1>9. Back(g, t, f)
  BY <1>1, <1>2, <1>6, BackInsert
<1> HIDE DEF t
<1>10. g[f].next = At(t, 1, f)
  <2>1. At(t, 1, f) = IF 1 < k THEN At(s, 1, f) ELSE IF 1 = k THEN c ELSE At(s, 1 - 1, f)
    <3>1. 1 \in 0 .. m + 2
      OBVIOUS
    <3> QED
      BY <1>7, <3>1
  <2>2. f = At(s, k - 1, f) <=> k = 1
    <3>1. CASE k = 1
      BY <3>1 DEF At
    <3>2. CASE k # 1
      <4>1. k - 1 \in 1 .. Len(s)
        BY <1>3, <1>4, <3>2
      <4>2. s[k - 1] \in ToSet(s)
        BY <1>2, <4>1, <1>4, Places
      <4> QED
        BY <1>2, <3>2, <4>1, <4>2 DEF At
    <3> QED
      BY <3>1, <3>2
  <2>3. CASE k = 1
    <3>1. ~(1 < k)
      BY <2>3
    <3> QED
      BY <1>1, <2>1, <2>2, <2>3, <3>1
  <2>4. CASE k # 1
    <3>1. 1 < k
      BY <1>4, <2>4
    <3> QED
      BY <1>1, <2>1, <2>2, <2>4, <3>1
  <2> QED
    BY <2>3, <2>4
<1>11. g[f].prev = At(t, Len(t), f)
  <2>1. At(t, m + 1, f) = IF m + 1 < k THEN At(s, m + 1, f)
                          ELSE IF m + 1 = k THEN c ELSE At(s, (m + 1) - 1, f)
    <3>1. m + 1 \in 0 .. m + 2
      OBVIOUS
    <3> QED
      BY <1>7, <3>1
  <2>2. f = At(s, k, f) <=> k = m + 1
    <3>1. CASE k = m + 1
      <4>1. ~(k \in 1 .. Len(s))
        BY <1>3, <3>1
      <4> QED
        BY <3>1, <4>1 DEF At
    <3>2. CASE k # m + 1
      <4>1. k \in 1 .. Len(s)
        BY <1>3, <1>4, <3>2
      <4>2. s[k] \in ToSet(s)
        BY <1>2, <4>1, <1>4, Places
      <4> QED
        BY <1>2, <3>2, <4>1, <4>2 DEF At
    <3> QED
      BY <3>1, <3>2
  <2>3. CASE k = m + 1
    <3>1. ~(m + 1 < k)
      BY <2>3
    <3> QED
      BY <1>1, <1>7, <2>1, <2>2, <2>3, <3>1
  <2>4. CASE k # m + 1
    <3>1. ~(m + 1 < k) /\ (m + 1) - 1 = m
      BY <1>4, <2>4
    <3> QED
      BY <1>1, <1>3, <1>7, <2>1, <2>2, <2>4, <3>1
  <2> QED
    BY <2>3, <2>4
<1>12. InUse(g) = ToSet(t) \cup {f}
  BY <1>1, <1>2, <1>6, <1>7 DEF InUse
<1>13. HeldIn(g, t) = InsertAt(HeldIn(h, s), k, v)
  <2>1. \A x \in ToSet(s) : h[x].data \in Datum /\ g[x].data = h[x].data
    BY <1>1, UsedTyped
  <2>2. v \in Datum
    BY DEF Datum
  <2> QED
    BY <1>2, <1>6, <2>1, <2>2, HeldInsert DEF t
<1>14. o = Len(t)
  BY <1>1, <1>3, <1>7
<1> QED
  BY <1>1, <1>8, <1>9, <1>10, <1>11, <1>12, <1>13, <1>14 DEF Ring, t

LEMMA RingRemove ==
  ASSUME NEW h \in HeapType, NEW g \in HeapType, NEW f, NEW n, NEW s, Ring(h, f, n, s), NEW o, o = n - 1,
         NEW k \in 1 .. Len(s), g[s[k]] = Null,
         \A x \in InUse(h) \ {s[k]} :
           /\ g[x] # Null /\ g[x].data = h[x].data
           /\ g[x].next = IF x = At(s, k - 1, f) THEN At(s, k + 1, f) ELSE h[x].next
           /\ g[x].prev = IF x = At(s, k + 1, f) THEN At(s, k - 1, f) ELSE h[x].prev,
         \A x \in Cells : h[x] = Null => g[x] = Null
  PROVE  /\ Ring(g, f, o, RemoveAt(s, k))
         /\ HeldIn(g, RemoveAt(s, k)) = RemoveAt(HeldIn(h, s), k)
<1> DEFINE t == RemoveAt(s, k)
<1>1. /\ f \in Cells /\ Lead(h, s, f, "next") /\ n = Len(s) /\ Back(h, s, f)
      /\ h[f].next = At(s, 1, f) /\ h[f].prev = At(s, Len(s), f) /\ InUse(h) = ToSet(s) \cup {f}
  BY DEF Ring
<1>2. s \in Seq(Cells) /\ ToSet(s) \subseteq Cells /\ IsInjective(s) /\ f \notin ToSet(s)
  BY <1>1 DEF Lead, InUse
<1>3. PICK m \in Nat : m = Len(s)
  BY <1>2, LenProperties
<1>4. k \in 1 .. m /\ k \in Nat /\ k - 1 \in Int /\ k \in Int
  BY <1>3
<1>5. s[k] \in ToSet(s) /\ s[k] # f
  BY <1>2, <1>4, Places
<1>6. /\ Len(t) = m - 1 /\ ToSet(t) = ToSet(s) \ {s[k]}
      /\ \A i \in 0 .. m : At(t, i, f) = IF i < k THEN At(s, i, f) ELSE At(s, i + 1, f)
  <2>1. /\ Len(t) = Len(s) - 1 /\ ToSet(t) = ToSet(s) \ {s[k]}
        /\ \A i \in 0 .. Len(s) : At(t, i, f) = IF i < k THEN At(s, i, f) ELSE At(s, i + 1, f)
    BY <1>2, RemoveAlong
  <2> HIDE DEF t
  <2> QED
    BY <1>3, <2>1
<1>7. Lead(g, t, f, "next")
  BY <1>1, <1>2, LeadRemove
<1>8. Back(g, t, f)
  BY <1>1, <1>2, BackRemove
<1> HIDE DEF t
<1>9. g[f].next = At(t, 1, f)
  <2>1. At(t, 1, f) = IF 1 < k THEN At(s, 1, f) ELSE At(s, 1 + 1, f)
    <3>1. 1 \in 0 .. m
      BY <1>4
    <3> QED
      BY <1>6, <3>1
  <2>2. f = At(s, k - 1, f) <=> k = 1
    <3>1. CASE k = 1
      BY <3>1 DEF At
    <3>2. CASE k # 1
      <4>1. k - 1 \in 1 .. Len(s)
        BY <1>3, <1>4, <3>2
      <4>2. s[k - 1] \in ToSet(s)
        BY <1>2, <4>1, <1>4, Places
      <4> QED
        BY <1>2, <3>2, <4>1, <4>2 DEF At
    <3> QED
      BY <3>1, <3>2
  <2>3. g[f].next = IF f = At(s, k - 1, f) THEN At(s, k + 1, f) ELSE h[f].next
    BY <1>1, <1>5
  <2>4. CASE k = 1
    <3>1. ~(1 < k) /\ k + 1 = 1 + 1
      BY <2>4
    <3> QED
      BY <2>1, <2>2, <2>3, <2>4, <3>1
  <2>5. CASE k # 1
    <3>1. 1 < k
      BY <1>4, <2>5
    <3> QED
      BY <1>1, <2>1, <2>2, <2>3, <2>5, <3>1
  <2> QED
    BY <2>4, <2>5
<1>10. g[f].prev = At(t, Len(t), f)
  <2>1. At(t, m - 1, f) = IF m - 1 < k THEN At(s, m - 1, f) ELSE At(s, (m - 1) + 1, f)
    <3>1. m - 1 \in 0 .. m
      BY <1>4
    <3> QED
      BY <1>6, <3>1
  <2>2. f = At(s, k + 1, f) <=> k = m
    <3>1. CASE k = m
      <4>1. ~(k + 1 \in 1 .. Len(s))
        BY <1>3, <3>1
      <4> QED
        BY <3>1, <4>1 DEF At
    <3>2. CASE k # m
      <4>1. k + 1 \in 1 .. Len(s)
        BY <1>3, <1>4, <3>2
      <4>2. s[k + 1] \in ToSet(s)
        BY <1>2, <4>1, <1>4, Places
      <4> QED
        BY <1>2, <3>2, <4>1, <4>2 DEF At
    <3> QED
      BY <3>1, <3>2
  <2>3. g[f].prev = IF f = At(s, k + 1, f) THEN At(s, k - 1, f) ELSE h[f].prev
    BY <1>1, <1>5
  <2>4. CASE k = m
    <3>1. m - 1 < k /\ m - 1 = k - 1
      BY <2>4
    <3> QED
      BY <1>6, <2>1, <2>2, <2>3, <2>4, <3>1
  <2>5. CASE k # m
    <3>1. ~(m - 1 < k) /\ (m - 1) + 1 = m
      BY <1>4, <2>5
    <3> QED
      BY <1>1, <1>3, <1>6, <2>1, <2>2, <2>3, <2>5, <3>1
  <2> QED
    BY <2>4, <2>5
<1>11. InUse(g) = ToSet(t) \cup {f}
  BY <1>1, <1>2, <1>5, <1>6 DEF InUse
<1>12. HeldIn(g, t) = RemoveAt(HeldIn(h, s), k)
  <2>1. \A x \in ToSet(s) : h[x].data \in Datum
    BY <1>1, UsedTyped
  <2>2. \A x \in ToSet(s) \ {s[k]} : g[x].data = h[x].data
    BY <1>1
  <2> QED
    BY <1>2, <2>1, <2>2, HeldRemove DEF t
<1>13. o = Len(t)
  BY <1>1, <1>3, <1>6
<1> QED
  BY <1>1, <1>7, <1>8, <1>9, <1>10, <1>11, <1>12, <1>13 DEF Ring, t

---------------------------------------------------------------------------
(* Writing to a heap: a whole cell, or one field of a node                 *)

LEMMA WriteCell ==
  ASSUME NEW h \in HeapType, NEW c \in Cells, NEW m \in NodeType \cup {Null}
  PROVE  /\ [h EXCEPT ![c] = m] \in HeapType
         /\ [h EXCEPT ![c] = m][c] = m
         /\ \A x \in Cells : x # c => [h EXCEPT ![c] = m][x] = h[x]
BY DEF HeapType

WithNext(h, p, y) == [h EXCEPT ![p].next = y]
WithPrev(h, p, y) == [h EXCEPT ![p].prev = y]

LEMMA WriteNext ==
  ASSUME NEW h \in HeapType, NEW p \in InUse(h), NEW y \in Links
  PROVE  /\ WithNext(h, p, y) \in HeapType
         /\ WithNext(h, p, y)[p] # Null
         /\ WithNext(h, p, y)[p].data = h[p].data
         /\ WithNext(h, p, y)[p].prev = h[p].prev
         /\ WithNext(h, p, y)[p].next = y
         /\ \A x \in Cells : x # p => WithNext(h, p, y)[x] = h[x]
<1> DEFINE m == [h[p] EXCEPT !.next = y]
           g == WithNext(h, p, y)
<1>1. p \in Cells /\ h[p] \in NodeType
  BY UsedTyped
<1>2. m \in NodeType /\ m.data = h[p].data /\ m.prev = h[p].prev /\ m.next = y
  BY <1>1 DEF NodeType
<1>3. m # Null
  BY <1>2, NullIsNoNode
<1>4. g = [h EXCEPT ![p] = m]
  BY DEF HeapType, WithNext
<1> HIDE DEF m, g
<1>5. g \in HeapType /\ g[p] = m /\ \A x \in Cells : x # p => g[x] = h[x]
  BY <1>1, <1>2, <1>4 DEF HeapType
<1> QED
  BY <1>2, <1>3, <1>5 DEF g

LEMMA WritePrev ==
  ASSUME NEW h \in HeapType, NEW p \in InUse(h), NEW y \in Links
  PROVE  /\ WithPrev(h, p, y) \in HeapType
         /\ WithPrev(h, p, y)[p] # Null
         /\ WithPrev(h, p, y)[p].data = h[p].data
         /\ WithPrev(h, p, y)[p].next = h[p].next
         /\ WithPrev(h, p, y)[p].prev = y
         /\ \A x \in Cells : x # p => WithPrev(h, p, y)[x] = h[x]
<1> DEFINE m == [h[p] EXCEPT !.prev = y]
           g == WithPrev(h, p, y)
<1>1. p \in Cells /\ h[p] \in NodeType
  BY UsedTyped
<1>2. m \in NodeType /\ m.data = h[p].data /\ m.next = h[p].next /\ m.prev = y
  BY <1>1 DEF NodeType
<1>3. m # Null
  BY <1>2, NullIsNoNode
<1>4. g = [h EXCEPT ![p] = m]
  BY DEF HeapType, WithPrev
<1> HIDE DEF m, g
<1>5. g \in HeapType /\ g[p] = m /\ \A x \in Cells : x # p => g[x] = h[x]
  BY <1>1, <1>2, <1>4 DEF HeapType
<1> QED
  BY <1>2, <1>3, <1>5 DEF g

---------------------------------------------------------------------------
(* From what a step does to the heap to the next state's invariant         *)

ArrType == [0 .. Capacity - 1 -> Datum]

LEMMA Established ==
  ASSUME kind' \in Kinds \cup {"none"}, first' \in Links, last' \in Links, size' \in Nat,
         kind' = "array" => size' <= Capacity, arr' \in ArrType,
         NEW s, Linked(kind', heap', first', last', size', s)
  PROVE  /\ IInv' /\ Nodes' = s
         /\ kind' # "array" => Held' = HeldIn(heap', s)
<1>1. kind' \in Single \cup {"doubly", "none", "array"}
  BY ConstantsAssumption DEF Single
<1>2. Nodes' = s
  BY <1>1, LinkedNodes, NodesAre
<1>3. TypeOK'
  <2>1. heap' \in [Cells -> NodeType \cup {Null}]
    BY DEF Linked
  <2>2. \A c \in Cells : heap'[c] # Null => heap'[c] \in NodeType
    BY <2>1
  <2> QED
    BY <2>2 DEF TypeOK, NodeType, ArrType, Datum
<1>4. Linked(kind, heap, first, last, size, Nodes)'
  BY <1>2 DEF Linked, Line, Ring, Lead, Back, InUse, At, IsInjective
<1>5. kind' # "array" => Held' = HeldIn(heap', s)
  BY <1>2 DEF Held, HeldIn
<1> QED
  BY <1>2, <1>3, <1>4, <1>5 DEF IInv

\* The types of the other variables.
LEMMA Typed ==
  ASSUME IInv
  PROVE  /\ kind \in Kinds \cup {"none"} /\ kind \in Single \cup {"doubly", "none", "array"}
         /\ first \in Links /\ last \in Links /\ size \in Nat
         /\ (kind = "array" => size <= Capacity) /\ arr \in ArrType /\ heap \in HeapType
         /\ Linked(kind, heap, first, last, size, Nodes)
<1>1. kind \in Kinds \cup {"none"}
  BY DEF IInv, TypeOK
<1>2. kind \in Single \cup {"doubly", "none", "array"}
  BY <1>1, ConstantsAssumption DEF Single
<1>3. heap \in HeapType
  BY DEF IInv, Linked, HeapType
<1> QED
  BY <1>1, <1>2, <1>3 DEF IInv, TypeOK, ArrType, Datum

\* A container holds as many values as its length says.
LEMMA HeldType ==
  ASSUME IInv
  PROVE  /\ Held \in Seq(Datum) /\ Len(Held) = size
         /\ (kind # "array" => Held = HeldIn(heap, Nodes) /\ Nodes \in Seq(Cells) /\ size = Len(Nodes))
         /\ (kind = "array" => \A i \in 1 .. size : Held[i] = arr[i - 1])
<1>1. CASE kind = "array"
  <2>1. PICK n \in Nat : n = size
    BY Typed
  <2>2. n <= Capacity /\ arr \in ArrType /\ Capacity \in Nat
    BY <1>1, <2>1, Typed, ConstantsAssumption
  <2>3. Held = [i \in 1 .. n |-> arr[i - 1]]
    BY <1>1, <2>1 DEF Held
  <2>4. ASSUME NEW i \in 1 .. n PROVE arr[i - 1] \in Datum
    <3>1. i - 1 \in 0 .. Capacity - 1
      BY <2>2
    <3> QED
      BY <2>2, <3>1 DEF ArrType
  <2>5. Held \in Seq(Datum)
    BY <2>3, <2>4
  <2>6. Len(Held) = n
    BY <2>3
  <2> QED
    BY <1>1, <2>1, <2>3, <2>5, <2>6
<1>2. CASE kind # "array"
  <2>1. Held = HeldIn(heap, Nodes)
    BY <1>2 DEF Held, HeldIn
  <2>2. Nodes \in Seq(Cells) /\ size = Len(Nodes) /\ ToSet(Nodes) \subseteq InUse(heap)
    <3>1. CASE kind \in Single
      BY <3>1, Typed DEF Linked, Line, Lead
    <3>2. CASE kind = "doubly"
      BY <3>2, Typed DEF Linked, Ring, Lead
    <3>3. CASE kind = "none"
      <4>1. Nodes = <<>> /\ size = 0
        BY <3>3, Typed DEF Linked
      <4> QED
        BY <4>1, EmptySeq DEF ToSet
    <3> QED
      BY <1>2, <3>1, <3>2, <3>3, Typed
  <2>3. \A x \in ToSet(Nodes) : heap[x].data \in Datum
    BY <2>2, UsedTyped, Typed
  <2> QED
    BY <1>2, <2>1, <2>2, <2>3, HeldFacts
<1> QED
  BY <1>1, <1>2

\* What the invariant says of a list, a queue or a stack.
LEMMA LineState ==
  ASSUME IInv, kind \in Single
  PROVE  /\ heap \in HeapType /\ Nodes \in Seq(Cells)
         /\ Lead(heap, Nodes, Null, "next") /\ InUse(heap) = ToSet(Nodes)
         /\ first = At(Nodes, 1, Null) /\ size = Len(Nodes)
         /\ (kind # "stack" => last = At(Nodes, Len(Nodes), Null))
         /\ first \in Links /\ last \in Links
         /\ Held = HeldIn(heap, Nodes) /\ kind # "array" /\ kind # "doubly"
BY Typed, HeldType DEF Linked, Line, Lead, Single

LEMMA RingState ==
  ASSUME IInv, kind = "doubly"
  PROVE  /\ heap \in HeapType /\ Nodes \in Seq(Cells) /\ Ring(heap, first, size, Nodes)
         /\ Held = HeldIn(heap, Nodes) /\ size = Len(Nodes) /\ first \in Cells /\ last \in Links
BY Typed, HeldType DEF Linked, Ring

\* A step of a list, a queue or a stack whose cells then lie on the path t.
LEMMA LineStep ==
  ASSUME IInv, kind \in Single, kind' = kind, arr' = arr, heap' \in HeapType,
         NEW t, Lead(heap', t, Null, "next"), InUse(heap') = ToSet(t),
         first' = At(t, 1, Null), size' = Len(t),
         kind # "stack" => last' = At(t, Len(t), Null), last' \in Links
  PROVE  IInv' /\ Held' = HeldIn(heap', t)
<1>1. t \in Seq(Cells) /\ Len(t) \in Nat
  BY LenProperties DEF Lead
<1>2. first' \in Links
  BY <1>1, AtType DEF Links
<1>3. Linked(kind', heap', first', last', size', t)
  BY DEF Linked, Line, Single, HeapType
<1>4. kind' \in Kinds \cup {"none"} /\ arr' \in ArrType /\ kind' # "array" /\ size' \in Nat
  BY <1>1, Typed DEF Single
<1> QED
  BY <1>2, <1>3, <1>4, Established

LEMMA RingStep ==
  ASSUME IInv, kind = "doubly", kind' = kind, arr' = arr, heap' \in HeapType,
         first' = first, last' = last, NEW t, Ring(heap', first, size', t)
  PROVE  IInv' /\ Held' = HeldIn(heap', t)
<1>1. t \in Seq(Cells) /\ Len(t) \in Nat /\ size' = Len(t)
  BY LenProperties DEF Lead, Ring
<1>2. Linked(kind', heap', first', last', size', t)
  BY DEF Linked, Single, HeapType
<1>3. kind' \in Kinds \cup {"none"} /\ arr' \in ArrType /\ first' \in Links /\ last' \in Links
  BY Typed
<1> QED
  BY <1>1, <1>2, <1>3, Established

LEMMA PutAt ==
  ASSUME IInv, kind \in Single, kind' = kind, arr' = arr, size' = size + 1, heap' \in HeapType,
         NEW c \in Fresh, NEW v \in Values, NEW k \in 1 .. Len(Nodes) + 1,
         heap'[c] # Null, heap'[c].data = v, heap'[c].next = At(Nodes, k, Null),
         \A x \in ToSet(Nodes) :
           /\ heap'[x] # Null /\ heap'[x].data = heap[x].data
           /\ heap'[x].next = IF x = At(Nodes, k - 1, Null) THEN c ELSE heap[x].next,
         \A x \in Cells : x # c /\ heap[x] = Null => heap'[x] = Null,
         first' = IF k = 1 THEN c ELSE first,
         kind # "stack" => last' = IF k = Len(Nodes) + 1 THEN c ELSE last, last' \in Links
  PROVE  IInv' /\ Held' = InsertAt(Held, k, v)
<1> DEFINE s == Nodes
           t == InsertAt(s, k, c)
<1>1. /\ heap \in HeapType /\ s \in Seq(Cells) /\ Lead(heap, s, Null, "next")
      /\ InUse(heap) = ToSet(s) /\ first = At(s, 1, Null) /\ size = Len(s) /\ Held = HeldIn(heap, s)
      /\ (kind # "stack" => last = At(s, Len(s), Null))
  BY LineState
<1>2. c \in Cells /\ heap[c] = Null
  BY FreshIsFree
<1> HIDE DEF s
<1>3. k \in 1 .. Len(s) + 1
  BY DEF s
<1>4. /\ Lead(heap', t, Null, "next") /\ InUse(heap') = ToSet(t)
      /\ HeldIn(heap', t) = InsertAt(HeldIn(heap, s), k, v)
  BY <1>1, <1>2, <1>3, LineInsert DEF s
<1>5. PICK n \in Nat : n = Len(s)
  BY <1>1, LenProperties
<1>6. /\ Len(t) = n + 1
      /\ \A i \in 0 .. n + 2 :
           At(t, i, Null) = IF i < k THEN At(s, i, Null) ELSE IF i = k THEN c ELSE At(s, i - 1, Null)
  BY <1>1, <1>2, <1>3, <1>5, InsertAlong
<1> HIDE DEF t
<1>7. k \in 1 .. n + 1 /\ k \in Nat
  BY <1>3, <1>5
<1>8. first' = At(t, 1, Null)
  <2>1. At(t, 1, Null) = IF 1 < k THEN At(s, 1, Null) ELSE IF 1 = k THEN c ELSE At(s, 1 - 1, Null)
    <3>1. 1 \in 0 .. n + 2
      OBVIOUS
    <3> QED
      BY <1>6, <3>1
  <2>2. (k = 1 /\ ~(1 < k)) \/ (k # 1 /\ 1 < k)
    BY <1>7
  <2> QED
    BY <1>1, <2>1, <2>2
<1>9. kind # "stack" => last' = At(t, Len(t), Null)
  <2>1. At(t, n + 1, Null)
          = IF n + 1 < k THEN At(s, n + 1, Null) ELSE IF n + 1 = k THEN c ELSE At(s, (n + 1) - 1, Null)
    <3>1. n + 1 \in 0 .. n + 2
      OBVIOUS
    <3> QED
      BY <1>6, <3>1
  <2>2. ~(n + 1 < k) /\ (n + 1) - 1 = n
    BY <1>7
  <2>3. kind # "stack" => last' = IF k = n + 1 THEN c ELSE last
    BY <1>5 DEF s
  <2> QED
    BY <1>1, <1>5, <1>6, <2>1, <2>2, <2>3
<1>10. size' = Len(t)
  BY <1>1, <1>5, <1>6
<1> QED
  BY <1>1, <1>4, <1>8, <1>9, <1>10, LineStep

LEMMA TakeAt ==
  ASSUME IInv, kind \in Single, kind' = kind, arr' = arr, size' = size - 1, heap' \in HeapType,
         NEW k \in 1 .. Len(Nodes), heap'[Nodes[k]] = Null,
         \A x \in ToSet(Nodes) \ {Nodes[k]} :
           /\ heap'[x] # Null /\ heap'[x].data = heap[x].data
           /\ heap'[x].next = IF x = At(Nodes, k - 1, Null) THEN At(Nodes, k + 1, Null) ELSE heap[x].next,
         \A x \in Cells : heap[x] = Null => heap'[x] = Null,
         first' = IF k = 1 THEN At(Nodes, 2, Null) ELSE first,
         kind # "stack" => last' = IF k = Len(Nodes) THEN At(Nodes, k - 1, Null) ELSE last, last' \in Links
  PROVE  IInv' /\ Held' = RemoveAt(Held, k)
<1> DEFINE s == Nodes
           t == RemoveAt(s, k)
<1>1. /\ heap \in HeapType /\ s \in Seq(Cells) /\ Lead(heap, s, Null, "next") /\ IsInjective(s)
      /\ InUse(heap) = ToSet(s) /\ first = At(s, 1, Null) /\ size = Len(s) /\ Held = HeldIn(heap, s)
      /\ (kind # "stack" => last = At(s, Len(s), Null))
  BY LineState DEF Lead
<1> HIDE DEF s
<1>2. k \in 1 .. Len(s)
  BY DEF s
<1>3. /\ Lead(heap', t, Null, "next") /\ InUse(heap') = ToSet(t)
      /\ HeldIn(heap', t) = RemoveAt(HeldIn(heap, s), k)
  BY <1>1, <1>2, LineRemove DEF s
<1>4. PICK n \in Nat : n = Len(s)
  BY <1>1, LenProperties
<1>5. /\ Len(t) = n - 1
      /\ \A i \in 0 .. n : At(t, i, Null) = IF i < k THEN At(s, i, Null) ELSE At(s, i + 1, Null)
  BY <1>1, <1>2, <1>4, RemoveAlong
<1> HIDE DEF t
<1>6. k \in 1 .. n /\ k \in Nat
  BY <1>2, <1>4
<1>7. first' = At(t, 1, Null)
  <2>1. At(t, 1, Null) = IF 1 < k THEN At(s, 1, Null) ELSE At(s, 1 + 1, Null)
    <3>1. 1 \in 0 .. n
      BY <1>6
    <3> QED
      BY <1>5, <3>1
  <2>2. ((k = 1 /\ ~(1 < k)) \/ (k # 1 /\ 1 < k)) /\ 1 + 1 = 2
    BY <1>6
  <2>3. first' = IF k = 1 THEN At(s, 2, Null) ELSE first
    BY DEF s
  <2> QED
    BY <1>1, <2>1, <2>2, <2>3
<1>8. kind # "stack" => last' = At(t, Len(t), Null)
  <2>1. At(t, n - 1, Null) = IF n - 1 < k THEN At(s, n - 1, Null) ELSE At(s, (n - 1) + 1, Null)
    <3>1. n - 1 \in 0 .. n
      BY <1>6
    <3> QED
      BY <1>5, <3>1
  <2>2. (n - 1) + 1 = n /\ (n - 1 < k <=> k = n)
    BY <1>6
  <2>3. kind # "stack" => last' = IF k = n THEN At(s, k - 1, Null) ELSE last
    BY <1>4 DEF s
  <2> QED
    BY <1>1, <1>4, <1>5, <2>1, <2>2, <2>3
<1>9. size' = Len(t)
  BY <1>1, <1>4, <1>5
<1> QED
  BY <1>1, <1>3, <1>7, <1>8, <1>9, LineStep

---------------------------------------------------------------------------
(* Lists, queues and stacks                                                *)

\* An end is NULL exactly when the container is empty.
LEMMA EmptyLine ==
  ASSUME NEW s, Lead(heap, s, Null, "next")
  PROVE  /\ At(s, 1, Null) = Null <=> Len(s) = 0
         /\ At(s, Len(s), Null) = Null <=> Len(s) = 0
<1>1. s \in Seq(Cells) /\ Null \notin ToSet(s) /\ IsInjective(s)
  BY DEF Lead
<1>2. PICK n \in Nat : n = Len(s)
  BY <1>1, LenProperties
<1>3. CASE n = 0
  BY <1>2, <1>3 DEF At
<1>4. CASE n # 0
  <2>1. 1 \in 1 .. n /\ n \in 1 .. n
    BY <1>4
  <2>2. DOMAIN s = 1 .. n
    BY <1>1, <1>2, LenProperties
  <2>3. s[1] # Null /\ s[n] # Null
    BY <1>1, <2>1, <2>2 DEF ToSet
  <2> QED
    BY <1>2, <1>4, <2>1, <2>3 DEF At
<1> QED
  BY <1>3, <1>4

\* The place after the last is not that of a cell, nor is the one before the first.
LEMMA Outside ==
  ASSUME NEW s \in Seq(Cells), NEW stop
  PROVE  At(s, 0, stop) = stop /\ At(s, Len(s) + 1, stop) = stop
<1>1. PICK n \in Nat : n = Len(s)
  BY LenProperties
<1>2. ~(0 \in 1 .. n) /\ ~(n + 1 \in 1 .. n)
  OBVIOUS
<1> QED
  BY <1>1, <1>2 DEF At

LEMMA LinkLastStep ==
  ASSUME IInv, kind \in {"list", "queue"}, UNCHANGED <<kind, arr>>, size' = size + 1,
         NEW v \in Values, NEW c \in Fresh, LinkLast(c, v)
  PROVE  IInv' /\ Held' = InsertAt(Held, size + 1, v)
<1> DEFINE s == Nodes
<1>1. /\ heap \in HeapType /\ s \in Seq(Cells) /\ Lead(heap, s, Null, "next") /\ IsInjective(s)
      /\ InUse(heap) = ToSet(s) /\ first = At(s, 1, Null) /\ size = Len(s) /\ Null \notin ToSet(s)
      /\ last = At(s, Len(s), Null) /\ kind # "stack" /\ kind \in Single
  BY LineState DEF Single, Lead
<1>2. PICK n \in Nat : n = Len(s)
  BY <1>1, LenProperties
<1>3. c \in Cells /\ heap[c] = Null /\ c \in Links
  BY FreshIsFree DEF Links
<1>4. v \in Datum /\ Null \in Links
  BY DEF Datum, Links
<1> DEFINE m    == Node(v, Null, Null)
           size0 == IF kind = "list" THEN first = Null ELSE last = Null
<1>5. m \in NodeType /\ m # Null /\ m.data = v /\ m.next = Null
  BY <1>4, NodeTyped
<1>6. size0 <=> n = 0
  BY <1>1, <1>2, EmptyLine
<1>7. /\ heap' = IF n = 0 THEN [heap EXCEPT ![c] = m] ELSE [heap EXCEPT ![last].next = c, ![c] = m]
      /\ first' = IF n = 0 THEN c ELSE first
      /\ last' = c
  BY <1>6 DEF LinkLast
<1> HIDE DEF s, m
<1>8. n + 1 \in 1 .. n + 1 /\ n \in Int /\ (n + 1) - 1 = n
  OBVIOUS
<1>9. /\ heap' \in HeapType /\ heap'[c] = m
      /\ \A x \in Cells : x # c /\ heap[x] = Null => heap'[x] = Null
      /\ \A x \in ToSet(s) :
           /\ heap'[x] # Null /\ heap'[x].data = heap[x].data
           /\ heap'[x].next = IF x = At(s, n, Null) THEN c ELSE heap[x].next
  <2>1. \A x \in ToSet(s) : x \in Cells /\ heap[x] # Null /\ x # c
    BY <1>1, <1>3 DEF InUse
  <2>2. CASE n = 0
    <3>1. ToSet(s) = {}
      <4>1. DOMAIN s = 1 .. n
        BY <1>1, <1>2, LenProperties
      <4> QED
        BY <2>2, <4>1 DEF ToSet
    <3>2. heap' = [heap EXCEPT ![c] = m]
      BY <1>7, <2>2
    <3> QED
      BY <1>1, <1>3, <1>5, <3>1, <3>2 DEF HeapType
  <2>3. CASE n # 0
    <3>1. last \in ToSet(s) /\ last = At(s, n, Null)
      <4>1. n \in 1 .. Len(s) /\ n \in Int
        BY <1>2, <2>3
      <4>2. s[n] \in ToSet(s)
        BY <1>1, <4>1, Places
      <4> QED
        BY <1>1, <1>2, <4>1, <4>2 DEF At
    <3>5. PICK h : h = WithNext(heap, last, c)
      OBVIOUS
    <3>2. /\ h \in HeapType /\ h[last] # Null /\ h[last].data = heap[last].data /\ h[last].next = c
          /\ \A x \in Cells : x # last => h[x] = heap[x]
      BY <1>1, <1>3, <3>1, <3>5, WriteNext
    <3>3. heap' = [h EXCEPT ![c] = m]
      BY <1>7, <2>3, <3>5 DEF WithNext
    <3>4. heap' \in HeapType /\ heap'[c] = m /\ \A x \in Cells : x # c => heap'[x] = h[x]
      BY <1>3, <1>5, <3>2, <3>3 DEF HeapType
    <3> QED
      BY <2>1, <3>1, <3>2, <3>4
  <2> QED
    BY <2>2, <2>3
<1>10. At(s, n + 1, Null) = Null
  BY <1>1, <1>2, Outside
<1>11. first' = IF n + 1 = 1 THEN c ELSE first
  BY <1>7
<1>12. IInv' /\ Held' = InsertAt(Held, n + 1, v)
  <2>1. /\ n + 1 \in 1 .. Len(Nodes) + 1
        /\ last' = (IF n + 1 = Len(Nodes) + 1 THEN c ELSE last) /\ last' \in Links
    BY <1>2, <1>3, <1>7 DEF s
  <2>2. /\ heap'[c] # Null /\ heap'[c].data = v /\ heap'[c].next = At(Nodes, n + 1, Null)
        /\ \A x \in ToSet(Nodes) :
             /\ heap'[x] # Null /\ heap'[x].data = heap[x].data
             /\ heap'[x].next = IF x = At(Nodes, (n + 1) - 1, Null) THEN c ELSE heap[x].next
    BY <1>5, <1>8, <1>9, <1>10 DEF s
  <2> QED
    BY <1>1, <1>9, <1>11, <2>1, <2>2, PutAt
<1> QED
  BY <1>1, <1>2, <1>12

LEMMA LinkFirstStep ==
  ASSUME IInv, kind \in {"list", "stack"}, UNCHANGED <<kind, arr>>, size' = size + 1,
         NEW v \in Values, NEW c \in Fresh, LinkFirst(c, v)
  PROVE  IInv' /\ Held' = InsertAt(Held, 1, v)
<1> DEFINE s == Nodes
<1>1. /\ heap \in HeapType /\ s \in Seq(Cells) /\ Lead(heap, s, Null, "next") /\ Null \notin ToSet(s)
      /\ InUse(heap) = ToSet(s) /\ first = At(s, 1, Null) /\ size = Len(s)
      /\ first \in Links /\ last \in Links
      /\ (kind # "stack" => last = At(s, Len(s), Null)) /\ kind \in Single
  BY LineState DEF Single, Lead
<1>2. PICK n \in Nat : n = Len(s)
  BY <1>1, LenProperties
<1>3. c \in Cells /\ heap[c] = Null /\ c \in Links
  BY FreshIsFree DEF Links
<1>4. v \in Datum /\ Null \in Links
  BY DEF Datum, Links
<1> DEFINE m == Node(v, Null, first)
<1>5. m \in NodeType /\ m # Null /\ m.data = v /\ m.next = first
  BY <1>1, <1>4, NodeTyped
<1>6. /\ heap' = [heap EXCEPT ![c] = m] /\ first' = c
      /\ last' = IF kind = "list" /\ last = Null THEN c ELSE last
  BY DEF LinkFirst
<1> HIDE DEF s, m
<1>7. 1 \in 1 .. n + 1 /\ 1 - 1 = 0
  OBVIOUS
<1>8. \A x \in ToSet(s) : x \in Cells /\ heap[x] # Null /\ x # c
  BY <1>1, <1>3 DEF InUse
<1>9. heap' \in HeapType /\ heap'[c] = m /\ \A x \in Cells : x # c => heap'[x] = heap[x]
  BY <1>1, <1>3, <1>5, <1>6 DEF HeapType
<1>10. At(s, 0, Null) = Null
  BY <1>1, Outside
<1>11. \A x \in ToSet(s) :
         /\ heap'[x] # Null /\ heap'[x].data = heap[x].data
         /\ heap'[x].next = IF x = At(s, 1 - 1, Null) THEN c ELSE heap[x].next
  BY <1>1, <1>7, <1>8, <1>9, <1>10
<1>12. kind # "stack" => last' = IF 1 = Len(s) + 1 THEN c ELSE last
  <2>1. kind # "stack" => (last = Null <=> Len(s) = 0)
    BY <1>1, EmptyLine
  <2>2. Len(s) = 0 <=> 1 = Len(s) + 1
    BY <1>2
  <2>3. kind # "stack" => kind = "list"
    OBVIOUS
  <2> QED
    BY <1>6, <2>1, <2>2, <2>3
<1>13. last' \in Links
  BY <1>1, <1>3, <1>6
<1>14. 1 \in 1 .. Len(Nodes) + 1
  BY <1>2, <1>7 DEF s
<1> QED
  BY <1>1, <1>3, <1>5, <1>6, <1>9, <1>11, <1>12, <1>13, <1>14, PutAt DEF s

LEMMA LinkInsideStep ==
  ASSUME IInv, kind = "list", UNCHANGED <<kind, arr>>, size' = size + 1,
         NEW v \in Values, NEW c \in Fresh, NEW at \in 1 .. size - 1, LinkInside(c, v, at)
  PROVE  IInv' /\ Held' = InsertAt(Held, at + 1, v)
<1> DEFINE s == Nodes
<1>1. /\ heap \in HeapType /\ s \in Seq(Cells) /\ Lead(heap, s, Null, "next") /\ IsInjective(s)
      /\ InUse(heap) = ToSet(s) /\ first = At(s, 1, Null) /\ size = Len(s) /\ Null \notin ToSet(s)
      /\ last \in Links /\ kind # "stack" /\ kind \in Single
  BY LineState DEF Single, Lead
<1>2. PICK n \in Nat : n = Len(s)
  BY <1>1, LenProperties
<1>3. c \in Cells /\ heap[c] = Null /\ c \in Links
  BY FreshIsFree DEF Links
<1>4. v \in Datum /\ Null \in Links
  BY DEF Datum, Links
<1>5. /\ at \in 1 .. n - 1 /\ at \in 1 .. n /\ at - 1 \in 0 .. n /\ (at - 1) + 1 = at /\ at + 1 \in 1 .. n + 1
      /\ (at + 1) - 1 = at /\ at + 1 # 1 /\ at + 1 # n + 1 /\ at + 1 \in Int /\ at \in Int
  BY <1>1, <1>2
<1> DEFINE prev == Hop(first, at - 1, "next")
           m    == Node(v, Null, heap[prev].next)
<1>6. prev = s[at] /\ heap[s[at]].next = At(s, at + 1, Null)
  <2>1. prev = HopIn(heap, first, at - 1, "next")
    BY DEF Hop, HopIn, Step, StepIn
  <2>2. StepIn(heap, Null, "next") = Null
    BY DEF StepIn
  <2> HIDE DEF prev
  <2>3. \A k \in 0 .. Len(s) : HopIn(heap, first, k, "next") = At(s, k + 1, Null)
    <3> HIDE DEF s
    <3> QED
      BY <1>1, <2>2, HopAlong
  <2>4. prev = At(s, (at - 1) + 1, Null)
    BY <1>2, <1>5, <2>1, <2>3
  <2> QED
    BY <1>1, <1>2, <1>5, <2>4 DEF At, Lead
<1>7. heap' = [heap EXCEPT ![c] = m, ![prev].next = c] /\ UNCHANGED <<first, last>>
  BY DEF LinkInside
<1> HIDE DEF s, prev
<1>8. s[at] \in ToSet(s) /\ s[at] \in Cells /\ s[at] = At(s, at, Null)
  BY <1>1, <1>2, <1>5, Places DEF At
<1>9. m \in NodeType /\ m # Null /\ m.data = v /\ m.next = At(s, at + 1, Null)
  <2>1. At(s, at + 1, Null) \in Links
    BY <1>1, <1>5, AtType DEF Links
  <2> QED
    BY <1>4, <1>6, <2>1, NodeTyped
<1> HIDE DEF m
<1>10. \A x \in ToSet(s) : x \in Cells /\ heap[x] # Null /\ x # c
  BY <1>1, <1>3 DEF InUse
<1> DEFINE h == [heap EXCEPT ![c] = m]
<1>11. h \in HeapType /\ h[c] = m /\ \A x \in Cells : x # c => h[x] = heap[x]
  BY <1>1, <1>3, <1>9 DEF HeapType
<1>12. PICK p : p = s[at] /\ heap' = WithNext(h, p, c)
  BY <1>6, <1>7 DEF WithNext
<1> HIDE DEF h
<1>13. /\ heap' \in HeapType /\ heap'[s[at]] # Null /\ heap'[s[at]].data = heap[s[at]].data
       /\ heap'[s[at]].next = c /\ \A x \in Cells : x # s[at] => heap'[x] = h[x]
  <2>1. p \in InUse(h) /\ h[p] = heap[p]
    BY <1>8, <1>10, <1>11, <1>12 DEF InUse
  <2>2. /\ heap' \in HeapType /\ heap'[p] # Null /\ heap'[p].data = h[p].data
        /\ heap'[p].next = c /\ \A x \in Cells : x # p => heap'[x] = h[x]
    BY <1>3, <1>11, <1>12, <2>1, WriteNext
  <2> QED
    BY <1>12, <2>1, <2>2
<1>14. heap'[c] = m
  BY <1>3, <1>8, <1>10, <1>11, <1>13
<1>15. \A x \in ToSet(s) :
         /\ heap'[x] # Null /\ heap'[x].data = heap[x].data
         /\ heap'[x].next = IF x = At(s, (at + 1) - 1, Null) THEN c ELSE heap[x].next
  BY <1>5, <1>8, <1>10, <1>11, <1>13
<1>16. \A x \in Cells : x # c /\ heap[x] = Null => heap'[x] = Null
  BY <1>8, <1>10, <1>11, <1>13
<1>17. at + 1 \in 1 .. Len(Nodes) + 1 /\ at + 1 # Len(Nodes) + 1
  BY <1>2, <1>5 DEF s
<1>18. first' = IF at + 1 = 1 THEN c ELSE first
  BY <1>5, <1>7
<1>19. last' = IF at + 1 = Len(Nodes) + 1 THEN c ELSE last
  BY <1>7, <1>17
<1>20. last' \in Links
  BY <1>1, <1>7
<1> QED
  BY <1>1, <1>9, <1>13, <1>14, <1>15, <1>16, <1>17, <1>18, <1>19, <1>20, PutAt DEF s

LEMMA UnlinkFirstStep ==
  ASSUME IInv, kind \in Single, UNCHANGED <<kind, arr>>, size > 0, size' = size - 1, UnlinkFirst
  PROVE  IInv' /\ Held' = RemoveAt(Held, 1) /\ heap[first].data = Held[1]
<1> DEFINE s == Nodes
<1>1. /\ heap \in HeapType /\ s \in Seq(Cells) /\ Lead(heap, s, Null, "next") /\ IsInjective(s)
      /\ InUse(heap) = ToSet(s) /\ first = At(s, 1, Null) /\ size = Len(s) /\ Null \notin ToSet(s)
      /\ last \in Links /\ (kind # "stack" => last = At(s, Len(s), Null)) /\ Held = HeldIn(heap, s)
  BY LineState DEF Lead
<1>2. PICK n \in Nat : n = Len(s)
  BY <1>1, LenProperties
<1>3. 1 \in 1 .. n /\ n # 0 /\ 1 + 1 = 2 /\ 1 - 1 = 0 /\ 2 \in Int
  BY <1>1, <1>2
<1> HIDE DEF s
<1>4. s[1] \in ToSet(s) /\ s[1] \in Cells /\ first = s[1] /\ heap[s[1]].next = At(s, 2, Null)
  <2>1. s[1] \in ToSet(s) /\ s[1] \in Cells
    BY <1>1, <1>2, <1>3, Places
  <2>2. heap[s[1]].next = At(s, 1 + 1, Null)
    BY <1>1, <1>2, <1>3 DEF Lead
  <2> QED
    BY <1>1, <1>2, <1>3, <2>1, <2>2 DEF At
<1>5. /\ heap' = [heap EXCEPT ![s[1]] = Null] /\ first' = At(s, 2, Null)
      /\ last' = IF first' = Null THEN Null ELSE last
  BY <1>4 DEF UnlinkFirst
<1>6. /\ heap' \in HeapType /\ heap'[s[1]] = Null
      /\ \A x \in Cells : x # s[1] => heap'[x] = heap[x]
  BY <1>1, <1>4, <1>5 DEF HeapType
<1>7. At(s, 0, Null) = Null /\ At(s, Len(s) + 1, Null) = Null
  BY <1>1, Outside
<1>8. \A x \in ToSet(s) \ {s[1]} :
        /\ heap'[x] # Null /\ heap'[x].data = heap[x].data
        /\ heap'[x].next = IF x = At(s, 1 - 1, Null) THEN At(s, 1 + 1, Null) ELSE heap[x].next
  <2>1. \A x \in ToSet(s) : x \in Cells /\ heap[x] # Null /\ x # Null
    BY <1>1 DEF InUse
  <2> QED
    BY <1>3, <1>6, <1>7, <2>1
<1>9. last' = IF 1 = n THEN Null ELSE last
  <2>1. CASE n = 1
    <3>1. At(s, 2, Null) = Null
      BY <1>2, <1>7, <2>1
    <3> QED
      BY <1>5, <2>1, <3>1
  <2>2. CASE n # 1
    <3>1. 2 \in 1 .. n
      BY <1>3, <2>2
    <3>2. s[2] \in ToSet(s)
      BY <1>1, <1>2, <3>1, <1>3, Places
    <3>3. At(s, 2, Null) # Null
      BY <1>1, <1>2, <3>1, <3>2 DEF At
    <3> QED
      BY <1>5, <2>2, <3>3
  <2> QED
    BY <2>1, <2>2
<1>10. /\ first' = IF 1 = 1 THEN At(s, 2, Null) ELSE first
       /\ last' = IF 1 = Len(s) THEN At(s, 1 - 1, Null) ELSE last
  BY <1>2, <1>3, <1>5, <1>7, <1>9
<1>11. last' \in Links
  BY <1>1, <1>9 DEF Links
<1>12. \A x \in Cells : heap[x] = Null => heap'[x] = Null
  BY <1>6
<1>13. IInv' /\ Held' = RemoveAt(Held, 1)
  <2>1. 1 \in 1 .. Len(Nodes)
    BY <1>2, <1>3 DEF s
  <2> QED
    BY <1>6, <1>8, <1>10, <1>11, <1>12, <2>1, TakeAt DEF s
<1>14. Held[1] = heap[first].data
  BY <1>1, <1>2, <1>3, <1>4, LenProperties DEF HeldIn
<1> QED
  BY <1>13, <1>14

LEMMA UnlinkInsideStep ==
  ASSUME IInv, kind = "list", UNCHANGED <<kind, arr>>, size' = size - 1,
         NEW at \in 1 .. size - 1, UnlinkInside(at)
  PROVE  IInv' /\ Held' = RemoveAt(Held, at + 1)
<1> DEFINE s == Nodes
<1>1. /\ heap \in HeapType /\ s \in Seq(Cells) /\ Lead(heap, s, Null, "next") /\ IsInjective(s)
      /\ InUse(heap) = ToSet(s) /\ first = At(s, 1, Null) /\ size = Len(s) /\ Null \notin ToSet(s)
      /\ last \in Links /\ last = At(s, Len(s), Null) /\ kind # "stack" /\ kind \in Single
  BY LineState DEF Single, Lead
<1>2. PICK n \in Nat : n = Len(s)
  BY <1>1, LenProperties
<1>3. /\ at \in 1 .. n - 1 /\ at \in 1 .. n /\ at - 1 \in 0 .. n /\ (at - 1) + 1 = at /\ at + 1 \in 1 .. n
      /\ (at + 1) - 1 = at /\ at + 1 # 1 /\ at + 1 \in Int /\ at \in Int /\ (at + 1) + 1 \in Int
  BY <1>1, <1>2
<1> DEFINE prev == Hop(first, at - 1, "next")
           c    == heap[prev].next
<1>4. prev = s[at] /\ heap[s[at]].next = At(s, at + 1, Null)
      /\ heap[s[at + 1]].next = At(s, (at + 1) + 1, Null) /\ At(s, at + 1, Null) = s[at + 1]
      /\ At(s, at, Null) = s[at]
  <2>1. prev = HopIn(heap, first, at - 1, "next")
    BY DEF Hop, HopIn, Step, StepIn
  <2>2. StepIn(heap, Null, "next") = Null
    BY DEF StepIn
  <2> HIDE DEF prev
  <2>3. \A k \in 0 .. Len(s) : HopIn(heap, first, k, "next") = At(s, k + 1, Null)
    <3> HIDE DEF s
    <3> QED
      BY <1>1, <2>2, HopAlong
  <2>4. prev = At(s, (at - 1) + 1, Null)
    BY <1>2, <1>3, <2>1, <2>3
  <2>5. heap[s[at + 1]].next = At(s, (at + 1) + 1, Null) /\ heap[s[at]].next = At(s, at + 1, Null)
    BY <1>1, <1>2, <1>3 DEF Lead
  <2> QED
    BY <1>2, <1>3, <2>4, <2>5 DEF At
<1>5. /\ heap' = [heap EXCEPT ![prev].next = heap[c].next, ![c] = Null]
      /\ last' = (IF c = last THEN prev ELSE last) /\ UNCHANGED first
  BY DEF UnlinkInside, TailWithout
<1> HIDE DEF s, prev
<1>6. /\ s[at] \in ToSet(s) /\ s[at] \in Cells /\ s[at + 1] \in ToSet(s) /\ s[at + 1] \in Cells
      /\ s[at] # s[at + 1]
  <2>1. s[at] \in ToSet(s) /\ s[at] \in Cells /\ (s[at] = At(s, at + 1, Null) <=> at = at + 1)
    BY <1>1, <1>2, <1>3, Places
  <2>2. s[at + 1] \in ToSet(s) /\ s[at + 1] \in Cells
    BY <1>1, <1>2, <1>3, Places
  <2> QED
    BY <1>3, <1>4, <2>1, <2>2
<1> DEFINE a == s[at]
           b == s[at + 1]
           y == At(s, (at + 1) + 1, Null)
<1>7. y \in Links
  BY <1>1, <1>3, AtType DEF Links
<1>8. heap' = [heap EXCEPT ![a].next = y, ![b] = Null] /\ last' = (IF b = last THEN a ELSE last)
  BY <1>4, <1>5
<1>9. /\ a \in Cells /\ b \in Cells /\ a # b /\ a \in ToSet(s) /\ b \in ToSet(s)
      /\ a = At(s, (at + 1) - 1, Null)
  BY <1>3, <1>4, <1>6
<1> HIDE DEF a, b, y
<1>19. PICK h : h = WithNext(heap, a, y)
  OBVIOUS
<1>10. /\ h \in HeapType /\ h[a] # Null /\ h[a].data = heap[a].data /\ h[a].next = y
       /\ \A x \in Cells : x # a => h[x] = heap[x]
  BY <1>1, <1>7, <1>9, <1>19, WriteNext
<1>11. heap' = [h EXCEPT ![b] = Null]
  BY <1>8, <1>19 DEF WithNext
<1>12. heap' \in HeapType /\ heap'[b] = Null /\ \A x \in Cells : x # b => heap'[x] = h[x]
  BY <1>9, <1>10, <1>11 DEF HeapType
<1>13. \A x \in ToSet(s) \ {b} :
         /\ heap'[x] # Null /\ heap'[x].data = heap[x].data
         /\ heap'[x].next = IF x = At(s, (at + 1) - 1, Null) THEN y ELSE heap[x].next
  <2>1. \A x \in ToSet(s) : x \in Cells /\ heap[x] # Null
    BY <1>1 DEF InUse
  <2> QED
    BY <1>9, <1>10, <1>12, <2>1
<1>14. \A x \in Cells : heap[x] = Null => heap'[x] = Null
  <2>1. heap[a] # Null
    BY <1>1, <1>9 DEF InUse
  <2> QED
    BY <1>9, <1>10, <1>12, <2>1
<1>15. last' = IF at + 1 = Len(s) THEN At(s, (at + 1) - 1, Null) ELSE last
  <2>1. b = last <=> at + 1 = Len(s)
    <3>1. at + 1 \in 1 .. Len(s) /\ Len(s) \in Int
      BY <1>2, <1>3
    <3>2. b = At(s, Len(s), Null) <=> at + 1 = Len(s)
      BY <1>1, <3>1, Places DEF b
    <3> QED
      BY <1>1, <3>2
  <2> QED
    BY <1>8, <1>9, <2>1
<1>16. first' = IF at + 1 = 1 THEN At(s, 2, Null) ELSE first
  BY <1>3, <1>5
<1>17. last' \in Links
  BY <1>1, <1>8, <1>9 DEF Links
<1>18. at + 1 \in 1 .. Len(s)
  BY <1>2, <1>3
<1> QED
  BY <1>1, <1>12, <1>13, <1>14, <1>15, <1>16, <1>17, <1>18, TakeAt DEF s, b, y

---------------------------------------------------------------------------
(* The doubly linked list                                                  *)

\* From either end, dll_nth_node gets to the same node.
LEMMA NthIs ==
  ASSUME IInv, kind = "doubly", NEW at \in 0 .. size - 1
  PROVE  Nth(at) = Nodes[at + 1] /\ at + 1 \in 1 .. Len(Nodes)
<1> DEFINE s == Nodes
           r == Reverse(s)
           f == first
<1>1. heap \in HeapType /\ s \in Seq(Cells) /\ Ring(heap, f, size, s) /\ size = Len(s)
  BY RingState
<1> HIDE DEF s
<1>2. PICK n \in Nat : n = Len(s)
  BY <1>1, LenProperties
<1>3. f \in Cells /\ f # Null /\ Lead(heap, s, f, "next") /\ heap[f].next = At(s, 1, f)
  BY <1>1, ConstantsAssumption DEF Ring
<1>4. Lead(heap, r, f, "prev") /\ heap[f].prev = At(r, 1, f)
  BY <1>1, BackAlong
<1>5. Len(r) = n /\ r \in Seq(Cells) /\ \A i \in 1 .. n : r[i] = s[n - i + 1]
  BY <1>1, <1>2, ReverseFacts
<1> HIDE DEF r
<1>6. at \in 0 .. n - 1 /\ at + 1 \in 1 .. n /\ at \in 0 .. n /\ n - 1 - at \in 0 .. n
      /\ n - at \in 1 .. n /\ n - 1 - at + 1 = n - at /\ n - (n - at) + 1 = at + 1
  BY <1>1, <1>2
<1>7. \A c, k, way : Hop(c, k, way) = HopIn(heap, c, k, way)
  BY DEF Hop, HopIn, Step, StepIn
<1>8. Hop(heap[f].next, at, "next") = s[at + 1]
  <2>1. StepIn(heap, f, "next") \in ToSet(s) \cup {f}
    BY <1>1, <1>3, AtType DEF StepIn
  <2>2. \A k \in 0 .. Len(s) : HopIn(heap, heap[f].next, k, "next") = At(s, k + 1, f)
    BY <1>3, <2>1, HopAlong
  <2> QED
    BY <1>2, <1>6, <1>7, <2>2 DEF At
<1>9. Hop(heap[f].prev, n - 1 - at, "prev") = s[at + 1]
  <2>1. StepIn(heap, f, "prev") \in ToSet(r) \cup {f}
    BY <1>3, <1>4, <1>5, AtType DEF StepIn
  <2>2. \A k \in 0 .. Len(r) : HopIn(heap, heap[f].prev, k, "prev") = At(r, k + 1, f)
    BY <1>4, <2>1, HopAlong
  <2>3. Hop(heap[f].prev, n - 1 - at, "prev") = At(r, n - at, f)
    BY <1>5, <1>6, <1>7, <2>2
  <2>4. At(r, n - at, f) = r[n - at]
    BY <1>5, <1>6 DEF At
  <2> QED
    BY <1>5, <1>6, <2>3, <2>4
<1>10. Nth(at) = s[at + 1]
  BY <1>1, <1>2, <1>8, <1>9 DEF Nth
<1> QED
  BY <1>2, <1>6, <1>10 DEF s

\* The nodes around the k-th: the sentinel is before the first and after the last.
LEMMA Around ==
  ASSUME IInv, kind = "doubly", NEW k \in 1 .. Len(Nodes) + 1
  PROVE  /\ heap[At(Nodes, k, first)].prev = At(Nodes, k - 1, first)
         /\ At(Nodes, k - 1, first) \in InUse(heap) /\ At(Nodes, k, first) \in InUse(heap)
<1> DEFINE s == Nodes
           f == first
<1>1. /\ s \in Seq(Cells) /\ heap[f].prev = At(s, Len(s), f) /\ Back(heap, s, f)
      /\ InUse(heap) = ToSet(s) \cup {f}
  BY RingState DEF Ring
<1>2. PICK n \in Nat : n = Len(s)
  BY <1>1, LenProperties
<1> HIDE DEF s
<1>3. k \in 1 .. n + 1 /\ k \in Int /\ k - 1 \in Int
  BY <1>2 DEF s
<1>4. At(s, k - 1, f) \in InUse(heap) /\ At(s, k, f) \in InUse(heap)
  BY <1>1, <1>3, AtType
<1>5. CASE k = n + 1
  <2>1. ~(k \in 1 .. n) /\ k - 1 = n
    BY <1>5
  <2>2. At(s, k, f) = f
    BY <1>2, <2>1 DEF At
  <2> QED
    BY <1>1, <1>2, <1>4, <2>1, <2>2 DEF s
<1>6. CASE k # n + 1
  <2>1. k \in 1 .. n
    BY <1>3, <1>6
  <2>2. At(s, k, f) = s[k] /\ heap[s[k]].prev = At(s, k - 1, f)
    BY <1>1, <1>2, <2>1 DEF At, Back
  <2> QED
    BY <1>4, <2>2 DEF s
<1> QED
  BY <1>5, <1>6

LEMMA LinkBetweenStep ==
  ASSUME IInv, kind = "doubly", UNCHANGED <<kind, first, last, arr>>, size' = size + 1,
         NEW v \in Values, NEW c \in Fresh, NEW k \in 1 .. Len(Nodes) + 1,
         NEW p, p = At(Nodes, k - 1, first), NEW q, q = At(Nodes, k, first),
         heap' = LinkBetween(p, q, c, v)
  PROVE  IInv' /\ Held' = InsertAt(Held, k, v)
<1>1. heap \in HeapType /\ Nodes \in Seq(Cells) /\ Ring(heap, first, size, Nodes)
      /\ Held = HeldIn(heap, Nodes)
  BY RingState
<1>2. c \in Cells /\ heap[c] = Null /\ c \in Links
  BY FreshIsFree DEF Links
<1>3. p \in InUse(heap) /\ q \in InUse(heap)
  BY Around
<1>4. v \in Datum /\ p \in Links /\ q \in Links
  BY <1>3 DEF Datum, Links, InUse
<1> DEFINE m == Node(v, p, q)
<1>5. m \in NodeType /\ m # Null
  BY <1>4, NodeTyped
<1> HIDE DEF m
<1>6. PICK g : g = [heap EXCEPT ![c] = m]
  OBVIOUS
<1>7. PICK h : h = WithNext(g, p, c)
  OBVIOUS
<1>8. heap' = WithPrev(h, q, c)
  BY <1>6, <1>7 DEF LinkBetween, WithPrev, WithNext, m
<1>9. g \in HeapType /\ g[c] = m /\ \A x \in Cells : x # c => g[x] = heap[x]
  BY <1>1, <1>2, <1>5, <1>6 DEF HeapType
<1>10. \A x \in InUse(heap) : x \in Cells /\ x # c /\ x \in InUse(g)
  BY <1>2, <1>9 DEF InUse
<1>11. /\ h \in HeapType /\ h[p] # Null /\ h[p].data = g[p].data /\ h[p].prev = g[p].prev /\ h[p].next = c
       /\ \A x \in Cells : x # p => h[x] = g[x]
  BY <1>2, <1>3, <1>7, <1>9, <1>10, WriteNext
<1>12. \A x \in InUse(heap) : x \in InUse(h)
  BY <1>10, <1>11 DEF InUse
<1>13. /\ heap' \in HeapType /\ heap'[q] # Null /\ heap'[q].data = h[q].data
       /\ heap'[q].next = h[q].next /\ heap'[q].prev = c
       /\ \A x \in Cells : x # q => heap'[x] = h[x]
  BY <1>2, <1>3, <1>8, <1>11, <1>12, WritePrev
<1>14. heap'[c] = Node(v, At(Nodes, k - 1, first), At(Nodes, k, first))
  BY <1>2, <1>3, <1>9, <1>10, <1>11, <1>13 DEF m
<1>15. ASSUME NEW x \in InUse(heap)
       PROVE  /\ heap'[x] # Null /\ heap'[x].data = heap[x].data
              /\ heap'[x].next = IF x = At(Nodes, k - 1, first) THEN c ELSE heap[x].next
              /\ heap'[x].prev = IF x = At(Nodes, k, first) THEN c ELSE heap[x].prev
  <2>1. x \in Cells /\ g[x] = heap[x] /\ heap[x] # Null
    BY <1>9, <1>10 DEF InUse
  <2>2. /\ h[x] # Null /\ h[x].data = heap[x].data /\ h[x].prev = heap[x].prev
        /\ h[x].next = IF x = p THEN c ELSE heap[x].next
    BY <1>11, <2>1
  <2> QED
    BY <1>13, <2>1, <2>2
<1>16. \A x \in Cells : x # c /\ heap[x] = Null => heap'[x] = Null
  BY <1>3, <1>9, <1>11, <1>13 DEF InUse
<1>17. Ring(heap', first, size', InsertAt(Nodes, k, c))
       /\ HeldIn(heap', InsertAt(Nodes, k, c)) = InsertAt(HeldIn(heap, Nodes), k, v)
  BY <1>1, <1>2, <1>13, <1>14, <1>15, <1>16, RingInsert
<1> QED
  BY <1>1, <1>13, <1>17, RingStep

LEMMA UnlinkStep ==
  ASSUME IInv, kind = "doubly", UNCHANGED <<kind, first, last, arr>>, size' = size - 1,
         NEW k \in 1 .. Len(Nodes), NEW c, c = Nodes[k], heap' = [Unlink(c) EXCEPT ![c] = Null]
  PROVE  IInv' /\ Held' = RemoveAt(Held, k) /\ heap[c].data = Held[k]
<1>1. /\ heap \in HeapType /\ Nodes \in Seq(Cells) /\ Ring(heap, first, size, Nodes)
      /\ Held = HeldIn(heap, Nodes) /\ size = Len(Nodes)
  BY RingState
<1>2. PICK n \in Nat : n = Len(Nodes)
  BY <1>1, LenProperties
<1>3. /\ k \in 1 .. n /\ k \in 1 .. n + 1 /\ k + 1 \in 1 .. n + 1
      /\ k - 1 \in Int /\ k + 1 \in Int /\ (k + 1) - 1 = k
      /\ k - 1 # k /\ k + 1 # k
  BY <1>2
<1> DEFINE p == At(Nodes, k - 1, first)
           q == At(Nodes, k + 1, first)
<1>4. /\ c \in Cells /\ c \in InUse(heap) /\ c = At(Nodes, k, first) /\ c # p /\ c # q
  <2>1. IsInjective(Nodes) /\ first \notin ToSet(Nodes) /\ InUse(heap) = ToSet(Nodes) \cup {first}
    BY <1>1 DEF Ring, Lead
  <2>2. c \in ToSet(Nodes) /\ c \in Cells /\ (c = p <=> k = k - 1)
    BY <1>1, <1>3, <2>1, Places
  <2>3. c = q <=> k = k + 1
    BY <1>1, <1>3, <2>1, Places
  <2>4. c = At(Nodes, k, first)
    BY <1>2, <1>3 DEF At
  <2> QED
    BY <1>3, <2>1, <2>2, <2>3, <2>4
<1>5. heap[c].prev = p /\ p \in InUse(heap)
  BY <1>2, <1>3, <1>4, Around
<1>6. q \in InUse(heap)
  BY <1>2, <1>3, Around
<1>7. heap[c].next = q
  BY <1>1, <1>2, <1>3 DEF Ring, Lead
<1>8. p \in Links /\ q \in Links
  BY <1>5, <1>6 DEF Links, InUse
<1> HIDE DEF p, q
<1>9. PICK h : h = WithNext(heap, p, q)
  OBVIOUS
<1>10. /\ h \in HeapType /\ h[p] # Null /\ h[p].data = heap[p].data
       /\ h[p].prev = heap[p].prev /\ h[p].next = q
       /\ \A x \in Cells : x # p => h[x] = heap[x]
  BY <1>1, <1>5, <1>8, <1>9, WriteNext
<1>11. PICK g : g = WithPrev(h, q, p)
  OBVIOUS
<1>12. /\ g \in HeapType /\ g[q] # Null /\ g[q].data = h[q].data /\ g[q].next = h[q].next /\ g[q].prev = p
       /\ \A x \in Cells : x # q => g[x] = h[x]
  <2>1. q \in InUse(h)
    BY <1>6, <1>10 DEF InUse
  <2> QED
    BY <1>8, <1>10, <1>11, <2>1, WritePrev
<1>13. h[c] = heap[c]
  BY <1>4, <1>10
<1>14. Unlink(c) = g
  <2>1. h = [heap EXCEPT ![heap[c].prev].next = heap[c].next]
    BY <1>5, <1>7, <1>9 DEF WithNext
  <2>2. Unlink(c) = [h EXCEPT ![h[c].next].prev = h[c].prev]
    BY <2>1 DEF Unlink
  <2> QED
    BY <1>5, <1>7, <1>11, <1>13, <2>2 DEF WithPrev
<1>15. heap' \in HeapType /\ heap'[c] = Null /\ \A x \in Cells : x # c => heap'[x] = g[x]
  BY <1>4, <1>12, <1>14 DEF HeapType
<1>16. ASSUME NEW x \in InUse(heap) \ {c}
       PROVE  /\ heap'[x] # Null /\ heap'[x].data = heap[x].data
              /\ heap'[x].next = IF x = p THEN q ELSE heap[x].next
              /\ heap'[x].prev = IF x = q THEN p ELSE heap[x].prev
  <2>1. x \in Cells /\ heap[x] # Null
    BY DEF InUse
  <2>2. /\ h[x] # Null /\ h[x].data = heap[x].data /\ h[x].prev = heap[x].prev
        /\ h[x].next = IF x = p THEN q ELSE heap[x].next
    BY <1>10, <2>1
  <2>3. /\ g[x] # Null /\ g[x].data = heap[x].data /\ g[x].next = h[x].next
        /\ g[x].prev = IF x = q THEN p ELSE heap[x].prev
    BY <1>12, <2>1, <2>2
  <2> QED
    BY <1>15, <2>1, <2>2, <2>3
<1>17. \A x \in Cells : heap[x] = Null => heap'[x] = Null
  BY <1>5, <1>6, <1>10, <1>12, <1>15 DEF InUse
<1>18. Ring(heap', first, size', RemoveAt(Nodes, k))
       /\ HeldIn(heap', RemoveAt(Nodes, k)) = RemoveAt(HeldIn(heap, Nodes), k)
  <2>1. \A x \in InUse(heap) \ {Nodes[k]} :
          /\ heap'[x] # Null /\ heap'[x].data = heap[x].data
          /\ heap'[x].next = IF x = At(Nodes, k - 1, first) THEN At(Nodes, k + 1, first) ELSE heap[x].next
          /\ heap'[x].prev = IF x = At(Nodes, k + 1, first) THEN At(Nodes, k - 1, first) ELSE heap[x].prev
    BY <1>16 DEF p, q
  <2>2. heap'[Nodes[k]] = Null
    BY <1>15
  <2>3. PICK w : w = heap'
    OBVIOUS
  <2>4. PICK s : s = Nodes
    OBVIOUS
  <2>5. PICK o : o = size'
    OBVIOUS
  <2>6. /\ w \in HeapType /\ Ring(heap, first, size, s) /\ k \in 1 .. Len(s) /\ w[s[k]] = Null
        /\ \A x \in InUse(heap) \ {s[k]} :
             /\ w[x] # Null /\ w[x].data = heap[x].data
             /\ w[x].next = IF x = At(s, k - 1, first) THEN At(s, k + 1, first) ELSE heap[x].next
             /\ w[x].prev = IF x = At(s, k + 1, first) THEN At(s, k - 1, first) ELSE heap[x].prev
        /\ \A x \in Cells : heap[x] = Null => w[x] = Null
        /\ heap \in HeapType /\ o = size - 1
    BY <1>1, <1>15, <1>17, <2>1, <2>2, <2>3, <2>4, <2>5
  <2>7. Ring(w, first, o, RemoveAt(s, k)) /\ HeldIn(w, RemoveAt(s, k)) = RemoveAt(HeldIn(heap, s), k)
    BY <2>6, RingRemove
  <2> QED
    BY <2>3, <2>4, <2>5, <2>7
<1>19. heap[c].data = Held[k]
  BY <1>1, <1>2, <1>3, LenProperties DEF HeldIn
<1> QED
  BY <1>1, <1>15, <1>18, <1>19, RingStep

---------------------------------------------------------------------------
(* Making, destroying, and the sequential list                             *)

\* A path of no cells.
LEMMA NoCells ==
  ASSUME NEW stop, NEW h
  PROVE  /\ <<>> \in Seq(Cells) /\ Len(<<>>) = 0 /\ ToSet(<<>>) = {} /\ IsInjective(<<>>)
         /\ \A i \in Int : At(<<>>, i, stop) = stop
         /\ HeldIn(h, <<>>) = <<>>
<1>1. <<>> \in Seq(Cells) /\ Len(<<>>) = 0 /\ DOMAIN <<>> = {}
  BY EmptySeq
<1>2. ToSet(<<>>) = {} /\ IsInjective(<<>>)
  BY <1>1 DEF ToSet, IsInjective
<1>3. \A i \in Int : At(<<>>, i, stop) = stop
  BY <1>1 DEF At
<1>4. HeldIn(h, <<>>) = <<>>
  BY DEF HeldIn
<1> QED
  BY <1>1, <1>2, <1>3, <1>4

LEMMA MadeStep ==
  ASSUME IInv, NEW k \in Kinds \cap (Single \cup {"array"}), Made(k), first' = Null, UNCHANGED heap
  PROVE  IInv' /\ Held' = <<>>
<1>1. /\ kind = "none" /\ kind' = k /\ last' = Null /\ size' = 0 /\ arr' = arr
  BY DEF Made
<1>2. InUse(heap) = {} /\ heap \in HeapType /\ arr \in ArrType
  BY <1>1, Typed DEF Linked
<1>3. Linked(kind', heap', first', last', size', <<>>)
  <2>1. /\ <<>> \in Seq(Cells) /\ Len(<<>>) = 0 /\ ToSet(<<>>) = {} /\ IsInjective(<<>>)
        /\ \A i \in Int : At(<<>>, i, Null) = Null
    BY NoCells
  <2>2. Lead(heap, <<>>, Null, "next")
    BY <2>1 DEF Lead
  <2>3. Line(kind', heap', first', last', size', <<>>)
    BY <1>1, <1>2, <2>1, <2>2 DEF Line
  <2> QED
    BY <1>1, <1>2, <2>3 DEF Linked, HeapType, Single
<1>4. kind' \in Kinds \cup {"none"} /\ Null \in Links /\ size' \in Nat /\ size' <= Capacity
  BY <1>1, ConstantsAssumption DEF Links
<1>5. IInv' /\ (kind' # "array" => Held' = HeldIn(heap', <<>>))
  BY <1>1, <1>2, <1>3, <1>4, Established
<1>6. kind' = "array" => Held' = [i \in 1 .. 0 |-> arr'[i - 1]]
  BY <1>1 DEF Held
<1> QED
  BY <1>5, <1>6, NoCells

LEMMA DllInitStep ==
  ASSUME IInv, "doubly" \in Kinds, DllInit
  PROVE  IInv' /\ Held' = <<>>
<1>1. PICK c \in Fresh : first' = c /\ heap' = [heap EXCEPT ![c] = Node(0, c, c)]
  BY DEF DllInit
<1>2. kind = "none" /\ kind' = "doubly" /\ last' = Null /\ size' = 0 /\ arr' = arr
  BY DEF DllInit, Made
<1>3. InUse(heap) = {} /\ heap \in HeapType /\ arr \in ArrType
  BY <1>2, Typed DEF Linked
<1>4. c \in Cells /\ heap[c] = Null /\ c # Null /\ c \in Links /\ 0 \in Datum /\ Null \in Links
  BY FreshIsFree DEF Links, Datum
<1> DEFINE m == Node(0, c, c)
<1>5. m \in NodeType /\ m # Null /\ m.prev = c /\ m.next = c
  BY <1>4, NodeTyped
<1> HIDE DEF m
<1>6. heap' \in HeapType /\ heap'[c] = m /\ \A x \in Cells : x # c => heap'[x] = heap[x]
  BY <1>1, <1>3, <1>4, <1>5 DEF HeapType, m
<1>7. Ring(heap', first', size', <<>>)
  <2>1. /\ <<>> \in Seq(Cells) /\ Len(<<>>) = 0 /\ ToSet(<<>>) = {} /\ IsInjective(<<>>)
        /\ \A i \in Int : At(<<>>, i, c) = c
    BY NoCells
  <2>2. Lead(heap', <<>>, c, "next") /\ Back(heap', <<>>, c)
    BY <2>1 DEF Lead, Back
  <2>3. InUse(heap') = ToSet(<<>>) \cup {c}
    BY <1>3, <1>4, <1>5, <1>6, <2>1 DEF InUse
  <2>4. At(<<>>, 1, c) = c /\ At(<<>>, Len(<<>>), c) = c
    <3>1. 1 \in Int /\ Len(<<>>) \in Int
      BY <2>1
    <3> QED
      BY <2>1, <3>1
  <2>5. heap'[c].next = c /\ heap'[c].prev = c /\ first' = c /\ size' = Len(<<>>)
    BY <1>1, <1>2, <1>5, <1>6, <2>1
  <2> QED
    BY <1>4, <2>2, <2>3, <2>4, <2>5 DEF Ring
<1>8. Linked(kind', heap', first', last', size', <<>>)
  BY <1>2, <1>6, <1>7 DEF Linked, HeapType, Single
<1>9. IInv' /\ Held' = HeldIn(heap', <<>>)
  BY <1>1, <1>2, <1>3, <1>4, <1>8, Established
<1> QED
  BY <1>9, NoCells

\* Whatever is destroyed has no node left.
LEMMA DroppedStep ==
  ASSUME IInv, NEW k, NEW freed, Dropped(k, freed), InUse(heap) \subseteq freed
  PROVE  IInv' /\ Held' = <<>>
<1>1. /\ kind' = "none" /\ first' = Null /\ last' = Null /\ size' = 0
      /\ heap' = [c \in Cells |-> IF c \in freed THEN Null ELSE heap[c]]
      /\ arr' = [i \in DOMAIN arr |-> 0]
  BY DEF Dropped
<1>2. arr' \in ArrType
  BY <1>1, Typed DEF ArrType, Datum
<1>3. heap' \in HeapType /\ InUse(heap') = {}
  BY <1>1 DEF InUse, HeapType
<1>4. Linked(kind', heap', first', last', size', <<>>)
  BY <1>1, <1>3 DEF Linked, HeapType, Single
<1>5. Null \in Links
  BY DEF Links
<1>6. IInv' /\ Held' = HeldIn(heap', <<>>)
  BY <1>1, <1>2, <1>4, <1>5, Established
<1> QED
  BY <1>6, NoCells

LEMMA DestroyStep ==
  ASSUME IInv, Destroy
  PROVE  IInv' /\ Held' = <<>>
<1>1. CASE DestroyLinkedList \/ DestroyQueue
  <2>1. PICK k \in {"list", "queue"} : Dropped(k, ToSet(Chain(first, Null, "next")))
    BY <1>1 DEF DestroyLinkedList, DestroyQueue
  <2>2. kind \in {"list", "queue"}
    BY <2>1 DEF Dropped
  <2>3. Chain(first, Null, "next") = Nodes
    BY <2>2 DEF Nodes
  <2>4. InUse(heap) = ToSet(Nodes)
    BY <2>2, LineState DEF Single
  <2> QED
    BY <2>1, <2>3, <2>4, DroppedStep
<1>2. CASE DestroyStack
  <2> DEFINE freed == {Hop(first, i - 1, "next") : i \in 1 .. size}
  <2>1. Dropped("stack", freed) /\ kind = "stack"
    BY <1>2 DEF DestroyStack, Dropped
  <2>2. /\ InUse(heap) = ToSet(Nodes) /\ size = Len(Nodes) /\ first = At(Nodes, 1, Null)
        /\ Lead(heap, Nodes, Null, "next") /\ Nodes \in Seq(Cells)
    BY <2>1, LineState DEF Single
  <2>3. ASSUME NEW x \in ToSet(Nodes) PROVE x \in freed
    <3>1. PICK i \in 1 .. Len(Nodes) : x = Nodes[i]
      BY <2>2, LenProperties DEF ToSet
    <3>2. PICK n \in Nat : n = Len(Nodes)
      BY <2>2, LenProperties
    <3>3. i - 1 \in 0 .. n /\ (i - 1) + 1 = i
      BY <3>2
    <3>4. StepIn(heap, Null, "next") = Null
      BY DEF StepIn
    <3>5. HopIn(heap, first, i - 1, "next") = At(Nodes, (i - 1) + 1, Null)
      BY <2>2, <3>2, <3>3, <3>4, HopAlong
    <3>6. Hop(first, i - 1, "next") = HopIn(heap, first, i - 1, "next")
      BY DEF Hop, HopIn, Step, StepIn
    <3>7. Hop(first, i - 1, "next") = x
      BY <3>1, <3>3, <3>5, <3>6 DEF At
    <3> QED
      BY <2>2, <3>7
  <2> HIDE DEF freed
  <2> QED
    BY <2>1, <2>2, <2>3, DroppedStep
<1>3. CASE DestroySequentialList
  <2>1. Dropped("array", {}) /\ kind = "array"
    BY <1>3 DEF DestroySequentialList, Dropped
  <2>2. InUse(heap) = {}
    BY <2>1, Typed DEF Linked
  <2> QED
    BY <2>1, <2>2, DroppedStep
<1>4. CASE DllDestroy
  <2>1. Dropped("doubly", {first} \cup ToSet(Chain(heap[first].next, first, "next"))) /\ kind = "doubly"
    BY <1>4 DEF DllDestroy, Dropped
  <2>2. Chain(heap[first].next, first, "next") = Nodes
    BY <2>1 DEF Nodes
  <2>3. InUse(heap) = ToSet(Nodes) \cup {first}
    BY <2>1, RingState DEF Ring
  <2> QED
    BY <2>1, <2>2, <2>3, DroppedStep
<1> QED
  BY <1>1, <1>2, <1>3, <1>4 DEF Destroy

\* A step of the sequential list.
LEMMA ArrayStep ==
  ASSUME IInv, kind = "array", UNCHANGED <<kind, heap, first, last>>, arr' \in ArrType,
         size' \in 0 .. Capacity
  PROVE  IInv' /\ Held' = [i \in 1 .. size' |-> arr'[i - 1]]
<1>1. Linked(kind', heap', first', last', size', <<>>)
  BY Typed DEF Linked, Single
<1>2. /\ kind' \in Kinds \cup {"none"} /\ first' \in Links /\ last' \in Links
      /\ size' \in Nat /\ size' <= Capacity
  BY Typed, ConstantsAssumption
<1>3. IInv'
  BY <1>1, <1>2, Established
<1> QED
  BY <1>3 DEF Held

\* Half the steps leave the container alone.
LEMMA StutterStep ==
  ASSUME IInv, UNCHANGED <<kind, heap, first, last, size, arr>>
  PROVE  IInv' /\ Held' = Held
<1>1. Linked(kind', heap', first', last', size', Nodes)
  BY Typed
<1>2. IInv' /\ (kind' # "array" => Held' = HeldIn(heap', Nodes))
  BY <1>1, Typed, Established
<1>3. kind # "array" => Held' = Held
  BY <1>2, HeldType
<1>4. kind = "array" => Held' = Held
  BY DEF Held
<1> QED
  BY <1>2, <1>3, <1>4

\* The elements from at on, one place up.
Shifted(v, at) == [i \in DOMAIN arr |-> CASE i = at -> v
                                          [] i \in at + 1 .. size -> arr[i - 1]
                                          [] OTHER -> arr[i]]

LEMMA SqInsertStep ==
  ASSUME IInv, kind = "array", UNCHANGED <<kind, heap, first, last>>,
         NEW v \in Values, NEW at \in 0 .. size, HasRoom,
         arr' = Shifted(v, at), size' = size + 1
  PROVE  IInv' /\ Held' = InsertAt(Held, at + 1, v)
<1>1. PICK n \in Nat : n = size
  BY Typed
<1>2. n < Capacity /\ Capacity \in Nat /\ arr \in ArrType /\ at \in 0 .. n /\ at \in Nat /\ v \in Datum
  BY <1>1, Typed, ConstantsAssumption DEF HasRoom, Datum
<1>3. ASSUME NEW i \in 0 .. Capacity - 1
      PROVE  /\ arr'[i] \in Datum
             /\ arr'[i] = IF i = at THEN v
                          ELSE IF i \in at + 1 .. n THEN arr[i - 1] ELSE arr[i]
  <2>1. arr'[i] = IF i = at THEN v ELSE IF i \in at + 1 .. n THEN arr[i - 1] ELSE arr[i]
    <3>1. DOMAIN arr = 0 .. Capacity - 1
      BY <1>2 DEF ArrType
    <3>2. i = at => ~(i \in at + 1 .. n)
      BY <1>2
    <3>3. CASE i = at
      BY <1>1, <3>1, <3>2, <3>3 DEF Shifted
    <3>4. CASE i # at /\ i \in at + 1 .. n
      BY <1>1, <3>1, <3>4 DEF Shifted
    <3>5. CASE i # at /\ ~(i \in at + 1 .. n)
      BY <1>1, <3>1, <3>5 DEF Shifted
    <3> QED
      BY <3>3, <3>4, <3>5
  <2>2. i \in at + 1 .. n => i - 1 \in 0 .. Capacity - 1
    BY <1>2
  <2>3. arr[i] \in Datum /\ (i \in at + 1 .. n => arr[i - 1] \in Datum)
    BY <1>2, <2>2 DEF ArrType
  <2> QED
    BY <1>2, <2>1, <2>3
<1>4. arr' \in ArrType
  <2>1. DOMAIN arr = 0 .. Capacity - 1
    BY <1>2 DEF ArrType
  <2>2. arr' = [i \in 0 .. Capacity - 1 |-> arr'[i]]
    BY <2>1 DEF Shifted
  <2> QED
    BY <1>3, <2>2 DEF ArrType
<1>5. IInv' /\ Held' = [i \in 1 .. n + 1 |-> arr'[i - 1]]
  <2>1. size' \in 0 .. Capacity /\ size' = n + 1
    BY <1>1, <1>2
  <2> QED
    BY <1>4, <2>1, ArrayStep
<1> DEFINE a == Held
           l == [i \in 1 .. n + 1 |-> arr'[i - 1]]
           r == InsertAt(a, at + 1, v)
<1>6. a \in Seq(Datum) /\ Len(a) = n /\ \A i \in 1 .. n : a[i] = arr[i - 1]
  BY <1>1, HeldType
<1> HIDE DEF a
<1>7. PICK k \in 1 .. n + 1 : k = at + 1
  BY <1>2
<1>8. /\ r \in Seq(Datum) /\ Len(r) = n + 1
      /\ \A i \in 1 .. n + 1 : r[i] = IF i < k THEN a[i] ELSE IF i = k THEN v ELSE a[i - 1]
  <2>1. k \in 1 .. Len(a) + 1 /\ r = InsertAt(a, k, v)
    BY <1>6, <1>7
  <2> HIDE DEF r
  <2>2. /\ InsertAt(a, k, v) \in Seq(Datum) /\ Len(InsertAt(a, k, v)) = Len(a) + 1
        /\ \A i \in 1 .. Len(a) + 1 :
             InsertAt(a, k, v)[i] = IF i < k THEN a[i] ELSE IF i = k THEN v ELSE a[i - 1]
    <3>1. a \in Seq(Datum) /\ v \in Datum /\ k \in 1 .. Len(a) + 1
      BY <1>2, <1>6, <2>1
    <3> QED
      BY <3>1, InsertAtFacts
  <2> QED
    BY <1>6, <2>1, <2>2
<1>9. l \in Seq(Datum) /\ Len(l) = n + 1 /\ \A i \in 1 .. n + 1 : l[i] = arr'[i - 1]
  <2>1. \A i \in 1 .. n + 1 : arr'[i - 1] \in Datum
    <3>1. \A i \in 1 .. n + 1 : i - 1 \in 0 .. Capacity - 1
      BY <1>2
    <3> QED
      BY <1>3, <3>1
  <2>2. PICK m \in Nat : m = n + 1
    BY <1>2
  <2>3. l = [i \in 1 .. m |-> arr'[i - 1]]
    BY <2>2
  <2> HIDE DEF l
  <2>4. \A i \in 1 .. m : arr'[i - 1] \in Datum
    BY <2>1, <2>2
  <2>5. l \in Seq(Datum)
    BY <2>3, <2>4
  <2>6. Len(l) = m
    BY <2>3
  <2> QED
    BY <2>2, <2>3, <2>5, <2>6
<1> HIDE DEF l, r
<1>10. ASSUME NEW i \in 1 .. n + 1 PROVE l[i] = r[i]
  <2>1. PICK j \in 0 .. Capacity - 1 : j = i - 1
    BY <1>2
  <2>2. l[i] = IF j = at THEN v ELSE IF j \in at + 1 .. n THEN arr[j - 1] ELSE arr[j]
    BY <1>3, <1>9, <2>1
  <2>3. CASE i < k
    <3>1. j # at /\ ~(j \in at + 1 .. n) /\ i \in 1 .. n
      BY <1>2, <1>7, <2>1, <2>3
    <3> QED
      BY <1>6, <1>8, <2>1, <2>2, <2>3, <3>1
  <2>4. CASE i = k
    <3>1. j = at /\ ~(i < k)
      BY <1>2, <1>7, <2>1, <2>4
    <3> QED
      BY <1>8, <2>2, <2>4, <3>1
  <2>5. CASE i > k
    <3>1. j # at /\ j \in at + 1 .. n /\ i - 1 \in 1 .. n /\ ~(i < k) /\ i # k /\ j - 1 = (i - 1) - 1
      BY <1>2, <1>7, <2>1, <2>5
    <3> QED
      BY <1>6, <1>8, <2>2, <3>1
  <2> QED
    BY <1>2, <2>3, <2>4, <2>5
<1>11. l = r
  BY <1>8, <1>9, <1>10, SeqEqual
<1> QED
  BY <1>5, <1>11 DEF l, r, a

LEMMA SqDeleteStep ==
  ASSUME IInv, kind = "array", UNCHANGED <<kind, heap, first, last>>, NEW at \in 0 .. size - 1,
         arr' = [i \in DOMAIN arr |-> IF i \in at .. size - 2 THEN arr[i + 1] ELSE arr[i]],
         size' = size - 1
  PROVE  IInv' /\ Held' = RemoveAt(Held, at + 1)
<1>1. PICK n \in Nat : n = size
  BY Typed
<1>2. n <= Capacity /\ Capacity \in Nat /\ arr \in ArrType /\ at \in 0 .. n - 1 /\ at \in Nat /\ n - 1 \in Nat
  BY <1>1, Typed, ConstantsAssumption
<1>3. ASSUME NEW i \in 0 .. Capacity - 1
      PROVE  arr'[i] \in Datum /\ arr'[i] = IF i \in at .. n - 2 THEN arr[i + 1] ELSE arr[i]
  <2>1. arr'[i] = IF i \in at .. n - 2 THEN arr[i + 1] ELSE arr[i]
    BY <1>1, <1>2 DEF ArrType
  <2>2. i \in at .. n - 2 => i + 1 \in 0 .. Capacity - 1
    BY <1>2
  <2>3. arr[i] \in Datum /\ (i \in at .. n - 2 => arr[i + 1] \in Datum)
    BY <1>2, <2>2 DEF ArrType
  <2> QED
    BY <2>1, <2>3
<1>4. arr' \in ArrType
  <2>1. DOMAIN arr = 0 .. Capacity - 1
    BY <1>2 DEF ArrType
  <2>2. arr' = [i \in 0 .. Capacity - 1 |-> arr'[i]]
    BY <2>1
  <2> QED
    BY <1>3, <2>2 DEF ArrType
<1>5. IInv' /\ Held' = [i \in 1 .. n - 1 |-> arr'[i - 1]]
  <2>1. size' \in 0 .. Capacity /\ size' = n - 1
    BY <1>1, <1>2
  <2> QED
    BY <1>4, <2>1, ArrayStep
<1> DEFINE a == Held
           l == [i \in 1 .. n - 1 |-> arr'[i - 1]]
           r == RemoveAt(a, at + 1)
<1>6. a \in Seq(Datum) /\ Len(a) = n /\ \A i \in 1 .. n : a[i] = arr[i - 1]
  BY <1>1, HeldType
<1> HIDE DEF a
<1>7. PICK k \in 1 .. n : k = at + 1
  BY <1>2
<1>8. /\ r \in Seq(Datum) /\ Len(r) = n - 1
      /\ \A i \in 1 .. n - 1 : r[i] = IF i < k THEN a[i] ELSE a[i + 1]
  <2>1. k \in 1 .. Len(a) /\ r = RemoveAt(a, k)
    BY <1>6, <1>7
  <2> HIDE DEF r
  <2>2. /\ r \in Seq(Datum) /\ Len(r) = Len(a) - 1
        /\ \A i \in 1 .. Len(a) - 1 : r[i] = IF i < k THEN a[i] ELSE a[i + 1]
    BY <1>6, <2>1, RemoveAtFacts
  <2> QED
    BY <1>6, <2>2
<1>9. l \in Seq(Datum) /\ Len(l) = n - 1 /\ \A i \in 1 .. n - 1 : l[i] = arr'[i - 1]
  <2>1. \A i \in 1 .. n - 1 : arr'[i - 1] \in Datum
    <3>1. \A i \in 1 .. n - 1 : i - 1 \in 0 .. Capacity - 1
      BY <1>2
    <3> QED
      BY <1>3, <3>1
  <2>2. PICK m \in Nat : m = n - 1
    BY <1>2
  <2>3. l = [i \in 1 .. m |-> arr'[i - 1]]
    BY <2>2
  <2> HIDE DEF l
  <2>4. \A i \in 1 .. m : arr'[i - 1] \in Datum
    BY <2>1, <2>2
  <2>5. l \in Seq(Datum)
    <3>1. l \in [1 .. m -> Datum]
      BY <2>3, <2>4
    <3> QED
      BY <2>2, <3>1, SeqDef
  <2>6. Len(l) = m
    BY <2>3
  <2> QED
    BY <2>2, <2>3, <2>5, <2>6
<1> HIDE DEF l, r
<1>10. ASSUME NEW i \in 1 .. n - 1 PROVE l[i] = r[i]
  <2>1. PICK j \in 0 .. Capacity - 1 : j = i - 1
    BY <1>2
  <2>2. l[i] = IF j \in at .. n - 2 THEN arr[j + 1] ELSE arr[j]
    BY <1>3, <1>9, <2>1
  <2>3. CASE i < k
    <3>1. ~(j \in at .. n - 2) /\ i \in 1 .. n
      BY <1>2, <1>7, <2>1, <2>3
    <3> QED
      BY <1>6, <1>8, <2>1, <2>2, <2>3, <3>1
  <2>4. CASE ~(i < k)
    <3>1. j \in at .. n - 2 /\ i + 1 \in 1 .. n /\ j + 1 = (i + 1) - 1
      BY <1>2, <1>7, <2>1, <2>4
    <3> QED
      BY <1>6, <1>8, <2>2, <2>4, <3>1
  <2> QED
    BY <2>3, <2>4
<1>11. l = r
  BY <1>8, <1>9, <1>10, SeqEqual
<1> QED
  BY <1>5, <1>11 DEF l, r, a

---------------------------------------------------------------------------
(* Steps of the abstract sequence                                          *)

Room == IF kind = "array" THEN Capacity ELSE 0

LEMMA Started ==
  ASSUME NEW op \in {"create", "destroy"}, Answer(op, 0, 0, "ok", 0), Held' = <<>>
  PROVE  Sequence!Next
<1>1. Sequence!Start
  BY DEF Answer, Sequence!Start, Sequence!Asked, Sequence!Told
<1> QED
  BY <1>1 DEF Sequence!Next

LEMMA Inserted ==
  ASSUME NEW at \in Positions, NEW v \in Values, NEW res \in {"ok", "void"}, Answer("insert", at, v, res, 0),
         at \in 0 .. Len(Held), Held' = InsertAt(Held, at + 1, v)
  PROVE  Sequence!Next
<1>1. Sequence!Insert(at, v)
  BY DEF Answer, Sequence!Insert, Sequence!Asked, Sequence!Told, Sequence!InsertAt, InsertAt
<1> QED
  BY <1>1 DEF Sequence!Next

LEMMA NotInserted ==
  ASSUME NEW at \in Positions, NEW v \in Values, NEW res \in {"refused", "void"},
         Answer("insert", at, v, res, 0),
         ~(at \in 0 .. Len(Held) /\ Len(Held) < Room), Held' = Held
  PROVE  Sequence!Next
<1>1. Sequence!Insert(at, v)
  BY DEF Answer, Sequence!Insert, Sequence!Asked, Sequence!Told, Sequence!Refuse, Room
<1> QED
  BY <1>1 DEF Sequence!Next

LEMMA Deleted ==
  ASSUME NEW at \in Positions, NEW res, NEW got, Answer("delete", at, 0, res, got),
         at \in 0 .. Len(Held) - 1, Held' = RemoveAt(Held, at + 1),
         (res = "ok" /\ got = Held[at + 1]) \/ (res = "void" /\ got = 0)
  PROVE  Sequence!Next
<1>1. Sequence!Delete(at)
  BY DEF Answer, Sequence!Delete, Sequence!Asked, Sequence!Told, Sequence!Inside, Sequence!RemoveAt, RemoveAt
<1> QED
  BY <1>1 DEF Sequence!Next

LEMMA NotDeleted ==
  ASSUME NEW at \in Positions, NEW res \in {"refused", "void"}, Answer("delete", at, 0, res, 0),
         at \notin 0 .. Len(Held) - 1, Held' = Held
  PROVE  Sequence!Next
<1>1. Sequence!Delete(at)
  BY DEF Answer, Sequence!Delete, Sequence!Asked, Sequence!Told, Sequence!Inside, Sequence!Refuse
<1> QED
  BY <1>1 DEF Sequence!Next

LEMMA Got ==
  ASSUME NEW at \in Positions, Held' = Held,
         IF at \in 0 .. Len(Held) - 1 THEN Answer("get", at, 0, "ok", Held[at + 1])
                                      ELSE Answer("get", at, 0, "refused", 0)
  PROVE  Sequence!Next
<1>1. CASE at \in 0 .. Len(Held) - 1
  <2>1. Sequence!Get(at)
    BY <1>1 DEF Answer, Sequence!Get, Sequence!Asked, Sequence!Told, Sequence!Inside
  <2> QED
    BY <2>1 DEF Sequence!Next
<1>2. CASE at \notin 0 .. Len(Held) - 1
  <2>1. Sequence!Get(at)
    BY <1>2 DEF Answer, Sequence!Get, Sequence!Asked, Sequence!Told, Sequence!Inside, Sequence!Refuse
  <2> QED
    BY <2>1 DEF Sequence!Next
<1> QED
  BY <1>1, <1>2

\* The first index, or -1, is what both find.
LEMMA Found ==
  ASSUME IInv, NEW v \in Values, Held' = Held, Answer("find", 0, v, "ok", IndexIn(Held, v))
  PROVE  Sequence!Next
<1> DEFINE at == {i \in DOMAIN Held : Held[i] = v}
           I  == {i \in 1 .. Len(Held) : Held[i] = v}
           got == IF at = {} THEN -1 ELSE (CHOOSE i \in at : \A j \in at : i <= j) - 1
<1>1. at = I
  <2>1. DOMAIN Held = 1 .. Len(Held)
    BY HeldType, LenProperties
  <2> QED
    BY <2>1
<1>2. IndexIn(Held, v) = (IF I # {} THEN Min(I) ELSE 0) - 1
  BY DEF IndexIn, SelectInSeq
<1>3. Min(I) = CHOOSE i \in I : \A j \in I : i <= j
  BY DEF Min
<1>4. IndexIn(Held, v) = got
  <2>1. CASE I = {}
    <3>1. got = -1 /\ IndexIn(Held, v) = 0 - 1
      BY <1>1, <1>2, <2>1
    <3> QED
      BY <3>1
  <2>2. CASE I # {}
    BY <1>1, <1>2, <1>3, <2>2
  <2> QED
    BY <2>1, <2>2
<1>5. Answer("find", 0, v, "ok", got)
  BY <1>4
<1>6. Sequence!Find(v)
  <2>1. Sequence!Asked("find", 0, v) /\ Sequence!Told("ok", got)
    BY <1>5 DEF Answer, Sequence!Asked, Sequence!Told
  <2> QED
    BY <2>1 DEF Sequence!Find
<1> QED
  BY <1>6 DEF Sequence!Next

\* As many nodes as there are cells: what is asked for is a position.
LEMMA SizeIsPosition ==
  ASSUME IInv
  PROVE  0 \in Positions /\ (kind # "array" => size \in Positions)
<1>1. PICK n \in Nat : n = Cardinality(Cells)
  BY FS_CardinalityType, ConstantsAssumption
<1>2. 0 \in Positions
  BY <1>1 DEF Positions
<1>3. ASSUME kind # "array" PROVE size \in Positions
  <2>1. Nodes \in Seq(Cells) /\ size = Len(Nodes) /\ size \in Nat
    BY <1>3, HeldType, Typed
  <2>2. IsInjective(Nodes)
    <3>1. CASE kind \in Single
      BY <3>1, LineState DEF Lead
    <3>2. CASE kind = "doubly"
      BY <3>2, RingState DEF Ring, Lead
    <3>3. CASE kind = "none"
      BY <3>3, Typed, NoCells DEF Linked
    <3> QED
      BY <1>3, <3>1, <3>2, <3>3, Typed
  <2>3. PICK m \in Nat : m = size
    BY <2>1
  <2>4. Nodes \in Injection(1 .. m, Cells)
    BY <2>1, <2>2, <2>3, LenProperties DEF Injection, IsInjective
  <2>5. Cardinality(1 .. m) = m
    BY FS_Interval
  <2>6. Cardinality(1 .. m) <= n
    BY <1>1, <2>4, FS_Injection, ConstantsAssumption
  <2>7. m \in -1 .. n
    BY <2>5, <2>6
  <2> QED
    BY <1>1, <2>3, <2>7 DEF Positions
<1> QED
  BY <1>2, <1>3

---------------------------------------------------------------------------
(* The actions.  Each keeps the invariant and is a step of the sequence.   *)

LEMMA CreateStep ==
  ASSUME IInv, Create
  PROVE  IInv' /\ Sequence!Next
<1>1. CASE \/ "list"  \in Kinds /\ InitLinkedList
           \/ "queue" \in Kinds /\ CreateQueue
           \/ "stack" \in Kinds /\ CreateStack
           \/ "array" \in Kinds /\ CreateSequentialList
  <2>1. PICK k \in Kinds \cap (Single \cup {"array"}) : Made(k) /\ first' = Null /\ UNCHANGED heap
    BY <1>1 DEF InitLinkedList, CreateQueue, CreateStack, CreateSequentialList, Single
  <2>2. IInv' /\ Held' = <<>>
    BY <2>1, MadeStep
  <2>3. Answer("create", 0, 0, "ok", 0)
    BY <2>1 DEF Made
  <2> QED
    BY <2>2, <2>3, Started
<1>2. CASE "doubly" \in Kinds /\ DllInit
  <2>1. IInv' /\ Held' = <<>>
    BY <1>2, DllInitStep
  <2>2. Answer("create", 0, 0, "ok", 0)
    BY <1>2 DEF DllInit, Made
  <2> QED
    BY <2>1, <2>2, Started
<1>3. CASE CreateFails
  <2>1. IInv' /\ Held' = Held
    BY <1>3, StutterStep DEF CreateFails
  <2>2. Sequence!Fail
    BY <1>3, <2>1 DEF CreateFails, Answer, Sequence!Fail, Sequence!Asked, Sequence!Refuse, Sequence!Told
  <2> QED
    BY <2>1, <2>2 DEF Sequence!Next
<1> QED
  BY <1>1, <1>2, <1>3 DEF Create

LEMMA DestroyedStep ==
  ASSUME IInv, Destroy
  PROVE  IInv' /\ Sequence!Next
<1>1. Answer("destroy", 0, 0, "ok", 0)
  BY DEF Destroy, DestroyLinkedList, DestroyQueue, DestroyStack, DestroySequentialList, DllDestroy, Dropped
<1> QED
  BY <1>1, DestroyStep, Started

LEMMA AtEndStep ==
  ASSUME IInv, kind \in {"list", "queue"}, NEW v \in Values, AtEnd(v)
  PROVE  IInv' /\ Sequence!Next
<1>1. /\ Answer("insert", size, v, "void", 0) /\ UNCHANGED <<kind, arr>> /\ kind # "array"
      /\ size \in Positions /\ Len(Held) = size /\ size \in Nat
  BY Typed, HeldType, SizeIsPosition DEF AtEnd
<1>2. CASE (\E c \in Fresh : LinkLast(c, v)) /\ size' = size + 1
  <2>1. PICK c \in Fresh : LinkLast(c, v)
    BY <1>2
  <2>2. IInv' /\ Held' = InsertAt(Held, size + 1, v)
    BY <1>1, <1>2, <2>1, LinkLastStep
  <2>3. size \in 0 .. Len(Held)
    BY <1>1
  <2> QED
    BY <1>1, <2>2, <2>3, Inserted
<1>3. CASE UNCHANGED <<heap, first, last, size>>
  <2>1. IInv' /\ Held' = Held
    BY <1>1, <1>3, StutterStep
  <2>2. ~(size \in 0 .. Len(Held) /\ Len(Held) < Room)
    BY <1>1 DEF Room
  <2> QED
    BY <1>1, <2>1, <2>2, NotInserted
<1> QED
  BY <1>2, <1>3 DEF AtEnd

LEMMA InsertNodeStep ==
  ASSUME IInv, NEW v \in Values, NEW at \in Positions, InsertNode(v, at)
  PROVE  IInv' /\ Sequence!Next
<1>1. /\ Answer("insert", at, v, "void", 0) /\ UNCHANGED <<kind, arr>> /\ kind = "list"
      /\ Len(Held) = size /\ size \in Nat
  BY Typed, HeldType DEF InsertNode
<1>2. CASE /\ at \in 0 .. size /\ size' = size + 1
           /\ \E c \in Fresh : CASE at = 0                -> LinkFirst(c, v)
                                 [] at = size /\ at > 0   -> LinkLast(c, v)
                                 [] at \in 1 .. size - 1  -> LinkInside(c, v, at)
  <2>1. PICK c \in Fresh : CASE at = 0                -> LinkFirst(c, v)
                             [] at = size /\ at > 0   -> LinkLast(c, v)
                             [] at \in 1 .. size - 1  -> LinkInside(c, v, at)
    BY <1>2
  <2>2. CASE at = 0
    <3>1. ~(at > 0) /\ ~(at \in 1 .. size - 1) /\ at + 1 = 1
      BY <2>2
    <3>2. LinkFirst(c, v)
      BY <2>1, <2>2, <3>1
    <3>3. IInv' /\ Held' = InsertAt(Held, 1, v)
      BY <1>1, <1>2, <3>2, LinkFirstStep
    <3> QED
      BY <1>1, <1>2, <3>1, <3>3, Inserted
  <2>3. CASE at = size /\ at # 0
    <3>1. at > 0 /\ ~(at \in 1 .. size - 1)
      BY <1>1, <2>3
    <3>2. LinkLast(c, v)
      BY <2>1, <2>3, <3>1
    <3>3. IInv' /\ Held' = InsertAt(Held, at + 1, v)
      BY <1>1, <1>2, <2>3, <3>2, LinkLastStep
    <3> QED
      BY <1>1, <1>2, <3>3, Inserted
  <2>4. CASE at # size /\ at # 0
    <3>1. at \in 1 .. size - 1
      BY <1>1, <1>2, <2>4
    <3>2. LinkInside(c, v, at)
      BY <2>1, <2>4, <3>1
    <3>3. IInv' /\ Held' = InsertAt(Held, at + 1, v)
      BY <1>1, <1>2, <3>1, <3>2, LinkInsideStep
    <3> QED
      BY <1>1, <1>2, <3>3, Inserted
  <2> QED
    BY <2>2, <2>3, <2>4
<1>3. CASE UNCHANGED <<heap, first, last, size>>
  <2>1. IInv' /\ Held' = Held
    BY <1>1, <1>3, StutterStep
  <2>2. ~(at \in 0 .. Len(Held) /\ Len(Held) < Room)
    BY <1>1 DEF Room
  <2> QED
    BY <1>1, <2>1, <2>2, NotInserted
<1> QED
  BY <1>2, <1>3 DEF InsertNode

LEMMA PushStep ==
  ASSUME IInv, NEW v \in Values, Push(v)
  PROVE  IInv' /\ Sequence!Next
<1>1. /\ Answer("insert", 0, v, "void", 0) /\ UNCHANGED <<kind, arr>> /\ kind = "stack"
      /\ Len(Held) = size /\ size \in Nat /\ 0 \in Positions
  BY Typed, HeldType, SizeIsPosition DEF Push
<1>2. CASE (\E c \in Fresh : LinkFirst(c, v)) /\ size' = size + 1
  <2>1. PICK c \in Fresh : LinkFirst(c, v)
    BY <1>2
  <2>2. IInv' /\ Held' = InsertAt(Held, 1, v)
    BY <1>1, <1>2, <2>1, LinkFirstStep
  <2>3. 0 \in 0 .. Len(Held) /\ 0 + 1 = 1
    BY <1>1
  <2> QED
    BY <1>1, <2>2, <2>3, Inserted
<1>3. CASE UNCHANGED <<heap, first, last, size>>
  <2>1. IInv' /\ Held' = Held
    BY <1>1, <1>3, StutterStep
  <2>2. ~(0 \in 0 .. Len(Held) /\ Len(Held) < Room)
    BY <1>1 DEF Room
  <2> QED
    BY <1>1, <2>1, <2>2, NotInserted
<1> QED
  BY <1>2, <1>3 DEF Push

LEMMA DeleteNodeStep ==
  ASSUME IInv, NEW at \in Positions, DeleteNode(at)
  PROVE  IInv' /\ Sequence!Next
<1>1. /\ Answer("delete", at, 0, "void", 0) /\ UNCHANGED <<kind, arr>> /\ kind = "list" /\ kind \in Single
      /\ Len(Held) = size /\ size \in Nat
  BY Typed, HeldType DEF DeleteNode, Single
<1>2. CASE at = 0 /\ size > 0 /\ UnlinkFirst /\ size' = size - 1
  <2>1. IInv' /\ Held' = RemoveAt(Held, 1)
    BY <1>1, <1>2, UnlinkFirstStep
  <2>2. at \in 0 .. Len(Held) - 1 /\ at + 1 = 1
    BY <1>1, <1>2
  <2> QED
    BY <1>1, <2>1, <2>2, Deleted
<1>3. CASE at \in 1 .. size - 1 /\ UnlinkInside(at) /\ size' = size - 1
  <2>1. IInv' /\ Held' = RemoveAt(Held, at + 1)
    BY <1>1, <1>3, UnlinkInsideStep
  <2>2. at \in 0 .. Len(Held) - 1
    BY <1>1, <1>3
  <2> QED
    BY <1>1, <2>1, <2>2, Deleted
<1>4. CASE at \notin 0 .. size - 1 /\ UNCHANGED <<heap, first, last, size>>
  <2>1. IInv' /\ Held' = Held
    BY <1>1, <1>4, StutterStep
  <2>2. at \notin 0 .. Len(Held) - 1
    BY <1>1, <1>4
  <2> QED
    BY <1>1, <2>1, <2>2, NotDeleted
<1> QED
  BY <1>2, <1>3, <1>4 DEF DeleteNode

LEMMA TakeFirstStep ==
  ASSUME IInv, kind \in Single, TakeFirst
  PROVE  IInv' /\ Sequence!Next
<1>1. UNCHANGED <<kind, arr>> /\ Len(Held) = size /\ size \in Nat /\ 0 \in Positions
  BY Typed, HeldType, SizeIsPosition DEF TakeFirst
<1>2. CASE size > 0 /\ Answer("delete", 0, 0, "ok", heap[first].data) /\ UnlinkFirst /\ size' = size - 1
  <2>1. IInv' /\ Held' = RemoveAt(Held, 1) /\ heap[first].data = Held[1]
    BY <1>1, <1>2, UnlinkFirstStep
  <2>2. 0 \in 0 .. Len(Held) - 1 /\ 0 + 1 = 1
    BY <1>1, <1>2
  <2> QED
    BY <1>1, <1>2, <2>1, <2>2, Deleted
<1>3. CASE size = 0 /\ Answer("delete", 0, 0, "refused", 0) /\ UNCHANGED <<heap, first, last, size>>
  <2>1. IInv' /\ Held' = Held
    BY <1>1, <1>3, StutterStep
  <2>2. 0 \notin 0 .. Len(Held) - 1
    BY <1>1, <1>3
  <2> QED
    BY <1>1, <1>3, <2>1, <2>2, NotDeleted
<1> QED
  BY <1>2, <1>3 DEF TakeFirst

LEMMA ShowFirstStep ==
  ASSUME IInv, kind \in Single, ShowFirst
  PROVE  IInv' /\ Sequence!Next
<1>1. Len(Held) = size /\ size \in Nat /\ 0 \in Positions
  BY Typed, HeldType, SizeIsPosition
<1>2. IInv' /\ Held' = Held
  BY StutterStep DEF ShowFirst
<1>3. 0 + 1 = 1 /\ (0 \in 0 .. Len(Held) - 1 <=> size > 0)
  BY <1>1
<1>4. ASSUME size > 0 PROVE heap[first].data = Held[1]
  <2>1. /\ Nodes \in Seq(Cells) /\ first = At(Nodes, 1, Null) /\ size = Len(Nodes)
        /\ Held = HeldIn(heap, Nodes)
    BY LineState
  <2>2. 1 \in 1 .. Len(Nodes)
    BY <1>1, <1>4, <2>1
  <2> QED
    BY <2>1, <2>2, LenProperties DEF HeldIn, At
<1>5. IF 0 \in 0 .. Len(Held) - 1 THEN Answer("get", 0, 0, "ok", Held[0 + 1])
                                   ELSE Answer("get", 0, 0, "refused", 0)
  BY <1>3, <1>4 DEF ShowFirst
<1> QED
  BY <1>1, <1>2, <1>5, Got

LEMMA DllInsertAtStep ==
  ASSUME IInv, NEW v \in Values, NEW at \in Positions, DllInsertAt(at, v)
  PROVE  IInv' /\ Sequence!Next
<1>1. /\ UNCHANGED <<kind, first, last, arr>> /\ kind = "doubly" /\ Len(Held) = size /\ size \in Nat
  BY Typed, HeldType DEF DllInsertAt
<1>2. CASE /\ at \in 0 .. size /\ size' = size + 1 /\ Answer("insert", at, v, "ok", 0)
           /\ \E c \in Fresh :
                LET next == IF at = size THEN first ELSE Nth(at)
                IN  heap' = LinkBetween(heap[next].prev, next, c, v)
  <2>1. size = Len(Nodes)
    BY <1>1, RingState
  <2>2. PICK k \in 1 .. Len(Nodes) + 1 : k = at + 1
    BY <1>1, <1>2, <2>1
  <2>3. PICK q : q = IF at = size THEN first ELSE Nth(at)
    OBVIOUS
  <2>4. q = At(Nodes, k, first)
    <3>1. CASE at = size
      <4>1. ~(k \in 1 .. Len(Nodes))
        BY <1>1, <2>1, <2>2, <3>1
      <4> QED
        BY <2>3, <3>1, <4>1 DEF At
    <3>2. CASE at # size
      <4>1. at \in 0 .. size - 1
        BY <1>1, <1>2, <3>2
      <4>2. Nth(at) = Nodes[at + 1] /\ at + 1 \in 1 .. Len(Nodes)
        BY <1>1, <4>1, NthIs
      <4> QED
        BY <2>2, <2>3, <3>2, <4>2 DEF At
    <3> QED
      BY <3>1, <3>2
  <2>5. PICK c \in Fresh : heap' = LinkBetween(heap[q].prev, q, c, v)
    BY <1>2, <2>3
  <2>6. heap[q].prev = At(Nodes, k - 1, first)
    BY <1>1, <2>4, Around
  <2>7. IInv' /\ Held' = InsertAt(Held, k, v)
    BY <1>1, <1>2, <2>4, <2>5, <2>6, LinkBetweenStep
  <2> QED
    BY <1>1, <1>2, <2>2, <2>7, Inserted
<1>3. CASE Answer("insert", at, v, "refused", 0) /\ UNCHANGED <<heap, size>>
  <2>1. IInv' /\ Held' = Held
    BY <1>1, <1>3, StutterStep
  <2>2. ~(at \in 0 .. Len(Held) /\ Len(Held) < Room)
    BY <1>1 DEF Room
  <2> QED
    BY <1>3, <2>1, <2>2, NotInserted
<1> QED
  BY <1>2, <1>3 DEF DllInsertAt

LEMMA DllDeleteAtStep ==
  ASSUME IInv, NEW at \in Positions, DllDeleteAt(at)
  PROVE  IInv' /\ Sequence!Next
<1>1. /\ UNCHANGED <<kind, first, last, arr>> /\ kind = "doubly" /\ Len(Held) = size /\ size \in Nat
  BY Typed, HeldType DEF DllDeleteAt
<1>2. CASE /\ at \in 0 .. size - 1 /\ size' = size - 1
           /\ LET c == Nth(at)
              IN  /\ heap' = [Unlink(c) EXCEPT ![c] = Null]
                  /\ Answer("delete", at, 0, "ok", heap[c].data)
  <2>1. Nth(at) = Nodes[at + 1] /\ at + 1 \in 1 .. Len(Nodes)
    BY <1>1, <1>2, NthIs
  <2>2. PICK k \in 1 .. Len(Nodes) : k = at + 1
    BY <2>1
  <2>3. PICK c : c = Nodes[k] /\ c = Nth(at)
    BY <2>1, <2>2
  <2>4. heap' = [Unlink(c) EXCEPT ![c] = Null] /\ Answer("delete", at, 0, "ok", heap[c].data)
    BY <1>2, <2>3
  <2>5. IInv' /\ Held' = RemoveAt(Held, k) /\ heap[c].data = Held[k]
    BY <1>1, <1>2, <2>3, <2>4, UnlinkStep
  <2>6. at \in 0 .. Len(Held) - 1
    BY <1>1, <1>2
  <2> QED
    BY <2>2, <2>4, <2>5, <2>6, Deleted
<1>3. CASE at \notin 0 .. size - 1 /\ Answer("delete", at, 0, "refused", 0) /\ UNCHANGED <<heap, size>>
  <2>1. IInv' /\ Held' = Held
    BY <1>1, <1>3, StutterStep
  <2>2. at \notin 0 .. Len(Held) - 1
    BY <1>1, <1>3
  <2> QED
    BY <1>3, <2>1, <2>2, NotDeleted
<1> QED
  BY <1>2, <1>3 DEF DllDeleteAt

LEMMA DllGetAtStep ==
  ASSUME IInv, NEW at \in Positions, DllGetAt(at)
  PROVE  IInv' /\ Sequence!Next
<1>1. kind = "doubly" /\ Len(Held) = size
  BY HeldType DEF DllGetAt
<1>2. IInv' /\ Held' = Held
  BY StutterStep DEF DllGetAt
<1>3. ASSUME at \in 0 .. size - 1 PROVE heap[Nth(at)].data = Held[at + 1]
  <2>1. Nth(at) = Nodes[at + 1] /\ at + 1 \in 1 .. Len(Nodes)
    BY <1>1, <1>3, NthIs
  <2>2. Nodes \in Seq(Cells) /\ Held = HeldIn(heap, Nodes)
    BY <1>1, RingState
  <2> QED
    BY <2>1, <2>2, LenProperties DEF HeldIn
<1>4. IF at \in 0 .. Len(Held) - 1 THEN Answer("get", at, 0, "ok", Held[at + 1])
                                    ELSE Answer("get", at, 0, "refused", 0)
  BY <1>1, <1>3 DEF DllGetAt
<1> QED
  BY <1>2, <1>4, Got

LEMMA DllFindFirstStep ==
  ASSUME IInv, NEW v \in Values, DllFindFirst(v)
  PROVE  IInv' /\ Sequence!Next
<1>1. kind = "doubly"
  BY DEF DllFindFirst
<1>2. IInv' /\ Held' = Held
  BY StutterStep DEF DllFindFirst
<1>3. Nodes = Chain(heap[first].next, first, "next")
  BY <1>1 DEF Nodes
<1>4. Held = [i \in DOMAIN Nodes |-> heap[Nodes[i]].data]
  BY <1>1 DEF Held
<1>5. Answer("find", 0, v, "ok", IndexIn(Held, v))
  BY <1>3, <1>4 DEF DllFindFirst
<1> QED
  BY <1>2, <1>5, Found

LEMMA SqInsertAtStep ==
  ASSUME IInv, NEW v \in Values, NEW at \in Positions, SqInsertAt(at, v)
  PROVE  IInv' /\ Sequence!Next
<1>1. UNCHANGED <<kind, heap, first, last>> /\ kind = "array" /\ Len(Held) = size /\ size \in Nat
  BY Typed, HeldType DEF SqInsertAt
<1>2. CASE /\ at \in 0 .. size /\ HasRoom /\ arr' = Shifted(v, at)
           /\ size' = size + 1 /\ Answer("insert", at, v, "ok", 0)
  <2>1. IInv' /\ Held' = InsertAt(Held, at + 1, v)
    BY <1>1, <1>2, SqInsertStep
  <2> QED
    BY <1>1, <1>2, <2>1, Inserted
<1>3. CASE ~(at \in 0 .. size /\ HasRoom) /\ Answer("insert", at, v, "refused", 0) /\ UNCHANGED <<arr, size>>
  <2>1. IInv' /\ Held' = Held
    BY <1>1, <1>3, StutterStep
  <2>2. ~(at \in 0 .. Len(Held) /\ Len(Held) < Room)
    BY <1>1, <1>3 DEF Room, HasRoom
  <2> QED
    BY <1>3, <2>1, <2>2, NotInserted
<1> QED
  BY <1>2, <1>3 DEF SqInsertAt, Shifted

LEMMA SqDeleteAtStep ==
  ASSUME IInv, NEW at \in Positions, SqDeleteAt(at)
  PROVE  IInv' /\ Sequence!Next
<1>1. UNCHANGED <<kind, heap, first, last>> /\ kind = "array" /\ Len(Held) = size /\ size \in Nat
  BY Typed, HeldType DEF SqDeleteAt
<1>2. CASE /\ at \in 0 .. size - 1 /\ Answer("delete", at, 0, "ok", arr[at])
           /\ arr' = [i \in DOMAIN arr |-> IF i \in at .. size - 2 THEN arr[i + 1] ELSE arr[i]]
           /\ size' = size - 1
  <2>1. IInv' /\ Held' = RemoveAt(Held, at + 1)
    BY <1>1, <1>2, SqDeleteStep
  <2>2. at \in 0 .. Len(Held) - 1 /\ at + 1 \in 1 .. size /\ (at + 1) - 1 = at
    BY <1>1, <1>2
  <2>3. arr[at] = Held[at + 1]
    BY <1>1, <2>2, HeldType
  <2> QED
    BY <1>2, <2>1, <2>2, <2>3, Deleted
<1>3. CASE at \notin 0 .. size - 1 /\ Answer("delete", at, 0, "refused", 0) /\ UNCHANGED <<arr, size>>
  <2>1. IInv' /\ Held' = Held
    BY <1>1, <1>3, StutterStep
  <2>2. at \notin 0 .. Len(Held) - 1
    BY <1>1, <1>3
  <2> QED
    BY <1>3, <2>1, <2>2, NotDeleted
<1> QED
  BY <1>2, <1>3 DEF SqDeleteAt

LEMMA SqGetAtStep ==
  ASSUME IInv, NEW at \in Positions, SqGetAt(at)
  PROVE  IInv' /\ Sequence!Next
<1>1. kind = "array" /\ Len(Held) = size /\ size \in Nat
  BY Typed, HeldType DEF SqGetAt
<1>2. IInv' /\ Held' = Held
  BY StutterStep DEF SqGetAt
<1>3. ASSUME at \in 0 .. size - 1 PROVE arr[at] = Held[at + 1]
  <2>1. at + 1 \in 1 .. size /\ (at + 1) - 1 = at
    BY <1>1, <1>3
  <2> QED
    BY <1>1, <2>1, HeldType
<1>4. IF at \in 0 .. Len(Held) - 1 THEN Answer("get", at, 0, "ok", Held[at + 1])
                                    ELSE Answer("get", at, 0, "refused", 0)
  BY <1>1, <1>3 DEF SqGetAt
<1> QED
  BY <1>2, <1>4, Got

LEMMA SqSetAtStep ==
  ASSUME IInv, NEW v \in Values, NEW at \in Positions, SqSetAt(at, v)
  PROVE  IInv' /\ Sequence!Next
<1>1. UNCHANGED <<kind, heap, first, last, size>> /\ kind = "array" /\ Len(Held) = size
  BY HeldType DEF SqSetAt
<1>2. PICK n \in Nat : n = size /\ n <= Capacity
  BY <1>1, Typed
<1>3. CASE at \in 0 .. size - 1 /\ arr' = [arr EXCEPT ![at] = v] /\ Answer("set", at, v, "ok", 0)
  <2>1. at \in 0 .. n - 1 /\ at \in 0 .. Capacity - 1 /\ arr \in ArrType /\ v \in Datum
    BY <1>2, <1>3, Typed, ConstantsAssumption DEF Datum
  <2>2. arr' \in ArrType /\ \A i \in 0 .. Capacity - 1 : arr'[i] = IF i = at THEN v ELSE arr[i]
    BY <1>3, <2>1 DEF ArrType
  <2>3. IInv' /\ Held' = [i \in 1 .. n |-> arr'[i - 1]]
    <3>1. size' \in 0 .. Capacity /\ size' = n
      BY <1>1, <1>2, ConstantsAssumption
    <3> QED
      BY <1>1, <2>2, <3>1, ArrayStep
  <2> DEFINE l == [i \in 1 .. n |-> arr'[i - 1]]
             a == Held
             r == [a EXCEPT ![at + 1] = v]
  <2>4. a \in Seq(Datum) /\ Len(a) = n /\ \A i \in 1 .. n : a[i] = arr[i - 1]
    BY <1>1, <1>2, HeldType
  <2> HIDE DEF a
  <2>5. a = [i \in 1 .. n |-> a[i]]
    BY <2>4, LenProperties
  <2>6. r = [i \in 1 .. n |-> IF i = at + 1 THEN v ELSE a[i]]
    BY <2>5
  <2>7. ASSUME NEW i \in 1 .. n PROVE arr'[i - 1] = IF i = at + 1 THEN v ELSE a[i]
    <3>1. i - 1 \in 0 .. Capacity - 1 /\ (i - 1 = at <=> i = at + 1)
      BY <1>2, <2>1, ConstantsAssumption
    <3> QED
      BY <2>2, <2>4, <3>1
  <2>8. l = r
    BY <2>6, <2>7
  <2>9. Held' = [Held EXCEPT ![at + 1] = v]
    BY <2>3, <2>8 DEF a
  <2>10. Sequence!Inside(at)
    BY <1>1, <1>3 DEF Sequence!Inside
  <2>11. Sequence!Set(at, v)
    BY <1>3, <2>9, <2>10 DEF Answer, Sequence!Set, Sequence!Asked, Sequence!Told
  <2> QED
    BY <2>3, <2>11 DEF Sequence!Next
<1>4. CASE at \notin 0 .. size - 1 /\ UNCHANGED arr /\ Answer("set", at, v, "refused", 0)
  <2>1. IInv' /\ Held' = Held
    BY <1>1, <1>4, StutterStep
  <2>2. ~Sequence!Inside(at)
    BY <1>1, <1>4 DEF Sequence!Inside
  <2>3. Sequence!Set(at, v)
    BY <1>4, <2>1, <2>2 DEF Answer, Sequence!Set, Sequence!Asked, Sequence!Told, Sequence!Refuse
  <2> QED
    BY <2>1, <2>3 DEF Sequence!Next
<1> QED
  BY <1>3, <1>4 DEF SqSetAt

LEMMA SqFindStep ==
  ASSUME IInv, NEW v \in Values, SqFind(v)
  PROVE  IInv' /\ Sequence!Next
<1>1. kind = "array"
  BY DEF SqFind
<1>2. IInv' /\ Held' = Held
  BY StutterStep DEF SqFind
<1>3. Held = [i \in 1 .. size |-> arr[i - 1]]
  BY <1>1 DEF Held
<1>4. Answer("find", 0, v, "ok", IndexIn(Held, v))
  BY <1>3 DEF SqFind
<1> QED
  BY <1>2, <1>4, Found

LEMMA SqClearStep ==
  ASSUME IInv, SqClear
  PROVE  IInv' /\ Sequence!Next
<1>1. /\ UNCHANGED <<kind, heap, first, last>> /\ kind = "array" /\ arr' = arr /\ size' = 0
      /\ Answer("clear", 0, 0, "void", 0)
  BY DEF SqClear
<1>2. arr' \in ArrType /\ size' \in 0 .. Capacity
  BY <1>1, Typed, ConstantsAssumption
<1>3. IInv' /\ Held' = [i \in 1 .. 0 |-> arr'[i - 1]]
  BY <1>1, <1>2, ArrayStep
<1>4. Held' = <<>>
  BY <1>3
<1>5. Sequence!Clear
  BY <1>1, <1>4 DEF Answer, Sequence!Clear, Sequence!Asked, Sequence!Told
<1> QED
  BY <1>3, <1>5 DEF Sequence!Next

---------------------------------------------------------------------------
(* The theorems                                                            *)

LEMMA InitInv == Init => IInv /\ Sequence!Init
<1> SUFFICES ASSUME Init PROVE IInv /\ Sequence!Init
  OBVIOUS
<1>1. /\ kind = "none" /\ first = Null /\ last = Null /\ size = 0 /\ heap = [c \in Cells |-> Null]
      /\ arr = [i \in 0 .. Capacity - 1 |-> 0]
  BY DEF Init
<1>2. Nodes = <<>>
  BY <1>1 DEF Nodes
<1>3. TypeOK
  BY <1>1, ConstantsAssumption DEF TypeOK, Links
<1>4. heap \in HeapType /\ InUse(heap) = {}
  BY <1>1 DEF HeapType, InUse
<1>5. Linked(kind, heap, first, last, size, Nodes)
  BY <1>1, <1>2, <1>4 DEF Linked, HeapType, Single
<1>6. Held = <<>>
  <2>1. Held = HeldIn(heap, Nodes)
    BY <1>1 DEF Held, HeldIn
  <2> QED
    BY <1>2, <2>1, NoCells
<1>7. Sequence!Init
  BY <1>6 DEF Init, Sequence!Init
<1> QED
  BY <1>3, <1>5, <1>7 DEF IInv

LEMMA NextStep ==
  ASSUME IInv, Next
  PROVE  IInv' /\ Sequence!Next
<1>1. CASE Create \/ Destroy
  BY <1>1, CreateStep, DestroyedStep
<1>2. CASE Dequeue \/ Pop
  BY <1>2, TakeFirstStep DEF Dequeue, Pop, Single
<1>3. CASE Peek \/ Top
  BY <1>3, ShowFirstStep DEF Peek, Top, Single
<1>4. CASE SqClear
  BY <1>4, SqClearStep
<1>5. ASSUME NEW v \in Values, AppendNode(v) \/ Enqueue(v) \/ Push(v) \/ DllFindFirst(v) \/ SqFind(v)
      PROVE  IInv' /\ Sequence!Next
  <2>1. CASE AppendNode(v) \/ Enqueue(v)
    BY <2>1, AtEndStep DEF AppendNode, Enqueue
  <2>2. CASE Push(v) \/ DllFindFirst(v) \/ SqFind(v)
    BY <2>2, PushStep, DllFindFirstStep, SqFindStep
  <2> QED
    BY <1>5, <2>1, <2>2
<1>6. ASSUME NEW at \in Positions,
             DeleteNode(at) \/ DllDeleteAt(at) \/ DllGetAt(at) \/ SqDeleteAt(at) \/ SqGetAt(at)
      PROVE  IInv' /\ Sequence!Next
  BY <1>6, DeleteNodeStep, DllDeleteAtStep, DllGetAtStep, SqDeleteAtStep, SqGetAtStep
<1>7. ASSUME NEW at \in Positions, NEW v \in Values,
             InsertNode(v, at) \/ DllInsertAt(at, v) \/ SqInsertAt(at, v) \/ SqSetAt(at, v)
      PROVE  IInv' /\ Sequence!Next
  BY <1>7, InsertNodeStep, DllInsertAtStep, SqInsertAtStep, SqSetAtStep
<1> QED
  BY <1>1, <1>2, <1>3, <1>4, <1>5, <1>6, <1>7 DEF Next

LEMMA StutterInv ==
  ASSUME IInv, UNCHANGED vars
  PROVE  IInv' /\ UNCHANGED <<Held, call>>
BY StutterStep DEF vars

\* The invariant holds in every reachable state.
THEOREM Invariance == Spec => []IInv
<1>1. Init => IInv
  BY InitInv
<1>2. IInv /\ [Next]_vars => IInv'
  BY NextStep, StutterInv
<1> QED
  BY <1>1, <1>2, PTL DEF Spec

LEMMA InvImplies == IInv => WellLinked
<1> SUFFICES ASSUME IInv PROVE WellLinked
  OBVIOUS
<1> DEFINE used == {c \in Cells : heap[c] # Null}
<1>1. TypeOK /\ used = InUse(heap)
  BY DEF IInv, InUse
<1>2. CASE kind \in Single
  <2>1. /\ used = ToSet(Nodes) /\ IsInjective(Nodes) /\ size = Len(Nodes) /\ kind # "doubly"
        /\ Nodes \in Seq(Cells) /\ (kind # "stack" => last = At(Nodes, Len(Nodes), Null))
    BY <1>1, <1>2, LineState DEF Lead
  <2>2. kind # "stack" => last = IF Nodes = <<>> THEN Null ELSE Nodes[Len(Nodes)]
    <3>1. CASE Nodes = <<>>
      <4>1. At(Nodes, Len(Nodes), Null) = Null
        BY <2>1, <3>1 DEF At
      <4> QED
        BY <2>1, <3>1, <4>1
    <3>2. CASE Nodes # <<>>
      <4>1. Len(Nodes) \in 1 .. Len(Nodes)
        BY <2>1, <3>2, EmptySeq, LenProperties
      <4> QED
        BY <2>1, <3>2, <4>1 DEF At
    <3> QED
      BY <3>1, <3>2
  <2> QED
    BY <1>1, <2>1, <2>2 DEF WellLinked
<1>3. CASE kind = "doubly"
  <2>1. Ring(heap, first, size, Nodes) /\ Nodes \in Seq(Cells)
    BY <1>3, RingState
  <2>2. used = ToSet(Nodes) \cup {first} /\ IsInjective(Nodes) /\ size = Len(Nodes)
    BY <1>1, <2>1 DEF Ring, Lead
  <2>3. Chain(heap[first].prev, first, "prev") = Reverse(Nodes)
    <3>1. PICK r : r = Reverse(Nodes)
      OBVIOUS
    <3>2. Lead(heap, r, first, "prev") /\ heap[first].prev = At(r, 1, first)
          /\ first \in Cells /\ first # Null
      BY <2>1, <3>1, BackAlong, ConstantsAssumption DEF Ring
    <3>3. StepIn(heap, first, "prev") \in ToSet(r) \cup {first}
      BY <3>2, AtType DEF StepIn, Lead
    <3>4. ChainIn(heap, heap[first].prev, first, "prev") = r
      BY <3>2, <3>3, ChainAlong
    <3> QED
      BY <3>1, <3>4 DEF Chain, Hop, Step, ChainIn, HopIn, StepIn
  <2> QED
    BY <1>1, <1>3, <2>2, <2>3 DEF WellLinked
<1>4. CASE kind \in {"none", "array"}
  <2>1. used = {} /\ Nodes = <<>> /\ (kind = "none" => size = 0)
    BY <1>1, <1>4, Typed DEF Linked
  <2>2. Len(<<>>) = 0 /\ ToSet(<<>>) = {} /\ IsInjective(<<>>)
    BY NoCells
  <2> QED
    BY <1>1, <1>4, <2>1, <2>2 DEF WellLinked
<1> QED
  BY <1>2, <1>3, <1>4, Typed

\* No call leaks a node, links one twice or leaves a freed one linked; the ends, the
\* length and the way back agree with the chain (WellLinked).
THEOREM NeitherLeaksNorDangles == Spec => []WellLinked
<1>1. IInv => WellLinked
  BY InvImplies
<1> QED
  BY <1>1, Invariance, PTL

\* Every container behaves as a sequence: each step is a step of AbstractSequence.
THEOREM Refinement == Spec => ImplementsSequence
<1>1. Init => Sequence!Init
  BY InitInv
<1>2. IInv /\ [Next]_vars => [Sequence!Next]_<<Held, call>>
  BY NextStep, StutterInv
<1> QED
  BY <1>1, <1>2, Invariance, PTL DEF Spec, ImplementsSequence, Sequence!Spec

---------------------------------------------------------------------------
(* The search through a maze.  It is depth first: the way in the stack     *)
(* leads from the start to the square looked at, and of every square       *)
(* marked, all directions have been tried that lie before the one it was   *)
(* left in (Tried), all four once it is off the stack (GivenUp).  When the *)
(* search gives up the marks are closed under going from square to square, *)
(* so that they cover what can be reached, and the end is not among them.  *)

Entries == [seat : maze.open, di : 1 .. 4]

\* A square that need not be looked at any more.
Known(p) == p \notin maze.open \/ p \in footprint

OnStack(p) == \E i \in 1 .. Len(stack) : stack[i].seat = p

IsWay ==
  /\ stack # <<>> => stack[1].seat = maze.start
  /\ \A i, j \in 1 .. Len(stack) : stack[i].seat = stack[j].seat => i = j
  /\ \A i \in 1 .. Len(stack) - 1 :
       stack[i + 1].seat = Search!NextPos(stack[i].seat, stack[i].di)

Looking ==
  /\ stack = <<>> => curpos = maze.start /\ footprint = {}
  /\ stack # <<>> =>
       curpos = Search!NextPos(stack[Len(stack)].seat, stack[Len(stack)].di)

Tried ==
  \A i \in 1 .. Len(stack) :
    /\ stack[i].seat \in footprint
    /\ \A d \in 1 .. stack[i].di - 1 : Known(Search!NextPos(stack[i].seat, d))

GivenUp ==
  \A p \in footprint : ~OnStack(p) => \A d \in 1 .. 4 : Known(Search!NextPos(p, d))

\* The marks cover what can be reached, and the end has none.
Settled ==
  /\ maze.start \in maze.open => maze.start \in footprint
  /\ \A p \in footprint : \A d \in 1 .. 4 : Known(Search!NextPos(p, d))
  /\ maze.end \notin footprint

MazeInv ==
  /\ maze \in Mazes /\ stack \in Seq(Entries)
  /\ stacksize \in Nat /\ Len(stack) <= stacksize
  /\ verdict \in {"searching", "TRUE", "FALSE", "outside"}
  /\ IsWay
  /\ verdict = "searching" =>
       Looking /\ Tried /\ GivenUp /\ footprint \subseteq maze.open \ {maze.end}
  /\ verdict = "TRUE" => stack # <<>> /\ stack[Len(stack)].seat = maze.end
  /\ verdict \in {"FALSE", "outside"} => Settled

LEMMA ReachedEquation ==
  ASSUME Search!MazeAssumption
  PROVE  \E within :
           /\ Search!Reached = within[Search!Cardinality(Search!Grid)]
           /\ Search!Cardinality(Search!Grid) \in Nat
           /\ within[0] = {maze.start} \cap maze.open
           /\ \A k \in 0 .. Search!Cardinality(Search!Grid) - 1 :
                within[k + 1] = within[k] \cup
                  {q \in maze.open : \E p \in within[k] : Search!Adjacent(p, q)}
<1> DEFINE N == Search!Cardinality(Search!Grid)
           Spread(S) == S \cup {q \in maze.open : \E p \in S : Search!Adjacent(p, q)}
           first0 == {maze.start} \cap maze.open
           G == [S \in SUBSET maze.open |-> Spread(S)]
           Is(w) == w = [k \in 0 .. N |-> IF k = 0 THEN first0 ELSE Spread(w[k - 1])]
<1>1. N \in Nat
  <2>1. IsFiniteSet(0 .. Rows - 1) /\ IsFiniteSet(0 .. Columns - 1)
    <3>1. Rows - 1 \in Int /\ Columns - 1 \in Int /\ 0 \in Int
      BY DEF Search!MazeAssumption
    <3> QED
      BY <3>1, FS_Interval
  <2>2. IsFiniteSet(Search!Grid)
    BY <2>1, FS_Product DEF Search!Grid
  <2>3. N = Cardinality(Search!Grid)
    BY DEF Search!Cardinality, Cardinality, Search!IsFiniteSet, IsFiniteSet
  <2> QED
    BY <2>2, <2>3, FS_CardinalityType
<1>2. PICK f \in [Nat -> SUBSET maze.open] : f[0] = first0 /\ \A i \in Nat : f[i + 1] = G[f[i]]
  <2>1. first0 \in SUBSET maze.open /\ G \in [SUBSET maze.open -> SUBSET maze.open]
    OBVIOUS
  <2> HIDE DEF first0, G
  <2>2. PICK S : S = SUBSET maze.open
    OBVIOUS
  <2>3. first0 \in S /\ G \in [S -> S]
    BY <2>1, <2>2
  <2>4. \E f \in [Nat -> S] : f[0] = first0 /\ \A i \in Nat : f[i + 1] = G[f[i]]
    BY <2>3, Recursion
  <2> QED
    BY <2>2, <2>4
<1>3. \E w : Is(w)
  <2> DEFINE w == [k \in 0 .. N |-> f[k]]
  <2>1. ASSUME NEW k \in 0 .. N
        PROVE  w[k] = IF k = 0 THEN first0 ELSE Spread(w[k - 1])
    <3>1. CASE k = 0
      BY <1>2, <3>1
    <3>2. CASE k # 0
      <4>1. k - 1 \in Nat /\ k - 1 \in 0 .. N /\ (k - 1) + 1 = k
        BY <1>1, <3>2
      <4>2. f[k] = G[f[k - 1]]
        BY <1>2, <4>1
      <4>3. f[k - 1] \in SUBSET maze.open
        BY <1>2, <4>1
      <4>4. f[k] = Spread(f[k - 1])
        BY <4>2, <4>3
      <4>5. w[k - 1] = f[k - 1] /\ w[k] = f[k]
        BY <4>1
      <4> HIDE DEF Spread, w
      <4> QED
        BY <3>2, <4>4, <4>5
    <3> QED
      BY <3>1, <3>2
  <2>2. w = [k \in 0 .. N |-> IF k = 0 THEN first0 ELSE Spread(w[k - 1])]
    <3>1. w = [k \in 0 .. N |-> w[k]]
      OBVIOUS
    <3> HIDE DEF w, Spread, first0, N
    <3> QED
      BY <2>1, <3>1
  <2> QED
    BY <2>2
<1>4. PICK w : Is(w) /\ Search!Reached = w[N]
  <2>1. Search!Reached = (CHOOSE w : Is(w))[N]
    BY DEF Search!Reached
  <2>2. Is(CHOOSE w : Is(w))
    <3> HIDE DEF Is
    <3> QED
      BY <1>3
  <2> QED
    BY <2>1, <2>2
<1>5. w[0] = first0
  BY <1>1, <1>4
<1>6. ASSUME NEW k \in 0 .. N - 1 PROVE w[k + 1] = Spread(w[k])
  <2>1. k + 1 \in 0 .. N /\ k + 1 # 0 /\ (k + 1) - 1 = k
    BY <1>1
  <2> HIDE DEF Spread, first0
  <2> QED
    BY <1>4, <2>1
<1> QED
  BY <1>1, <1>4, <1>5, <1>6

\* A set that has the start, and whatever can be gone to from a square it has,
\* has all that can be reached.
LEMMA ReachedInside ==
  ASSUME Search!MazeAssumption, NEW F,
         maze.start \in maze.open => maze.start \in F,
         \A p \in F : \A q \in maze.open : Search!Adjacent(p, q) => q \in F
  PROVE  Search!Reached \subseteq F
<1> DEFINE N == Search!Cardinality(Search!Grid)
<1>1. PICK w :
        /\ Search!Reached = w[N] /\ N \in Nat
        /\ w[0] = {maze.start} \cap maze.open
        /\ \A k \in 0 .. N - 1 :
             w[k + 1] = w[k] \cup {q \in maze.open : \E p \in w[k] : Search!Adjacent(p, q)}
  BY ReachedEquation
<1> DEFINE T == {k \in Nat : k <= N => w[k] \subseteq F}
<1>2. 0 \in T
  BY <1>1
<1>3. ASSUME NEW k \in Nat, k \in T PROVE k + 1 \in T
  <2> SUFFICES ASSUME k + 1 <= N PROVE w[k + 1] \subseteq F
    OBVIOUS
  <2>1. k \in 0 .. N - 1 /\ k <= N
    BY <1>1
  <2>2. w[k] \subseteq F
    BY <1>3, <2>1
  <2> QED
    BY <1>1, <2>1, <2>2
<1> HIDE DEF T
<1>4. N \in T
  BY <1>1, <1>2, <1>3, Induction
<1> QED
  BY <1>1, <1>4 DEF T

\* What the assumption says of the maze that is searched.
LEMMA MazeFacts ==
  ASSUME Search!MazeAssumption, maze \in Mazes
  PROVE  /\ maze.open \subseteq Search!Grid
         /\ \A p \in maze.open \ {maze.end}, d \in 1 .. 4 :
              Search!NextPos(p, d) \notin Search!Grid =>
                /\ p = maze.start
                /\ \A e \in d .. 4 : Search!NextPos(p, e) \notin maze.open
  BY DEF Search!MazeAssumption, Search!Enclosed

\* What is marked once the search has given up answers the question.
LEMMA SettledDecides ==
  ASSUME Search!MazeAssumption, Settled
  PROVE  maze.end \notin Search!Reached
<1>1. ASSUME NEW p \in footprint, NEW q \in maze.open, Search!Adjacent(p, q)
      PROVE  q \in footprint
  <2>1. PICK d \in 1 .. 4 : q = Search!NextPos(p, d)
    BY <1>1 DEF Search!Adjacent
  <2>2. Known(q)
    BY <2>1 DEF Settled
  <2> QED
    BY <2>2 DEF Known
<1>2. Search!Reached \subseteq footprint
  BY <1>1, ReachedInside DEF Settled
<1> QED
  BY <1>2 DEF Settled

LEMMA MazeInit ==
  ASSUME Search!MazeAssumption, Search!Init
  PROVE  MazeInv
<1>1. /\ maze \in Mazes /\ stack = <<>> /\ footprint = {} /\ stacksize \in Nat
      /\ curpos = maze.start /\ verdict = "searching"
  BY DEF Search!Init, Search!InitStack, Search!MazeAssumption
<1>2. stack \in Seq(Entries) /\ Len(stack) = 0
  BY <1>1, EmptySeq
<1>3. IsWay /\ Looking /\ Tried /\ GivenUp
  BY <1>1, <1>2 DEF IsWay, Looking, Tried, GivenUp
<1>4. Len(stack) <= stacksize
  BY <1>1, <1>2
<1> QED
  BY <1>1, <1>2, <1>3, <1>4 DEF MazeInv

LEMMA Searching ==
  ASSUME Search!MazeAssumption, MazeInv, verdict = "searching"
  PROVE  /\ maze \in Mazes /\ stack \in Seq(Entries) /\ Len(stack) \in Nat
         /\ stacksize \in Nat /\ Len(stack) <= stacksize
         /\ IsWay /\ Looking /\ Tried /\ GivenUp
         /\ footprint \subseteq maze.open /\ maze.end \notin footprint
         /\ \A i \in 1 .. Len(stack) : /\ stack[i] \in Entries /\ stack[i].seat \in maze.open
                                       /\ stack[i].di \in 1 .. 4
         /\ stack # <<>> => Len(stack) \in 1 .. Len(stack) /\ 1 \in 1 .. Len(stack)
<1>1. stack \in Seq(Entries) /\ Len(stack) \in Nat
  BY LenProperties DEF MazeInv
<1>2. \A i \in 1 .. Len(stack) : stack[i] \in Entries
  BY <1>1, ElementOfSeq
<1>3. \A i \in 1 .. Len(stack) : stack[i].seat \in maze.open /\ stack[i].di \in 1 .. 4
  BY <1>2 DEF Entries
<1>4. stack # <<>> => Len(stack) \in 1 .. Len(stack) /\ 1 \in 1 .. Len(stack)
  BY <1>1, EmptySeq
<1> QED
  BY <1>1, <1>2, <1>3, <1>4 DEF MazeInv

\* A square is marked and pushed.
LEMMA AdvanceStep ==
  ASSUME Search!MazeAssumption, MazeInv, Search!Advance
  PROVE  MazeInv'
<1> DEFINE n == Len(stack)
           e == [seat |-> curpos, di |-> 1]
<1>1. /\ verdict = "searching" /\ curpos \in maze.open /\ curpos \notin footprint
      /\ stack' = Append(stack, e) /\ maze' = maze /\ stacksize' = Search!Room(stack')
  BY DEF Search!Advance, Search!Pass
<1>2. /\ maze \in Mazes /\ stack \in Seq(Entries) /\ n \in Nat /\ stacksize \in Nat /\ n <= stacksize
      /\ IsWay /\ Looking /\ Tried /\ GivenUp
      /\ footprint \subseteq maze.open /\ maze.end \notin footprint
      /\ \A i \in 1 .. n : stack[i] \in Entries
  BY <1>1, Searching
<1>3. e \in Entries /\ e.seat = curpos /\ e.di = 1
  BY <1>1 DEF Entries
<1> HIDE DEF e
<1>4. /\ stack' \in Seq(Entries) /\ Len(stack') = n + 1 /\ stack'[n + 1] = e
      /\ \A i \in 1 .. n : stack'[i] = stack[i]
  BY <1>1, <1>2, <1>3, AppendProperties
<1>5. /\ \A i \in 1 .. n + 1 : i \in 1 .. n \/ i = n + 1
      /\ \A i \in 1 .. n : i \in 1 .. n + 1 /\ i # n + 1
      /\ n + 1 \in 1 .. n + 1 /\ (n + 1) - 1 = n
  BY <1>2
<1>6. stacksize' \in Nat /\ Len(stack') <= stacksize'
  <2>1. Increment \in Nat \ {0}
    BY DEF Search!MazeAssumption
  <2>2. stacksize' = IF n + 1 > stacksize THEN stacksize + Increment ELSE stacksize
    BY <1>1, <1>4 DEF Search!Room
  <2> QED
    BY <1>2, <1>4, <2>1, <2>2
<1>7. stack' # <<>>
  BY <1>2, <1>4, EmptySeq
<1>8. \A i \in 1 .. n : stack[i].seat # curpos
  BY <1>1, <1>2 DEF Tried
<1>9. IsWay'
  <2>1. stack'[1].seat = maze.start
    <3>1. CASE n = 0
      <4>1. stack = <<>> /\ curpos = maze.start
        BY <1>2, <3>1, EmptySeq DEF Looking
      <4>2. stack'[1] = e
        BY <1>4, <3>1
      <4> QED
        BY <1>3, <4>1, <4>2
    <3>2. CASE n # 0
      <4>1. 1 \in 1 .. n /\ stack # <<>>
        BY <1>2, <3>2
      <4> QED
        BY <1>2, <1>4, <4>1 DEF IsWay
    <3> QED
      BY <3>1, <3>2
  <2>2. ASSUME NEW i \in 1 .. n + 1, NEW j \in 1 .. n + 1, stack'[i].seat = stack'[j].seat
        PROVE  i = j
    <3>1. CASE i \in 1 .. n /\ j \in 1 .. n
      BY <1>2, <1>4, <2>2, <3>1 DEF IsWay
    <3>2. CASE i = n + 1 \/ j = n + 1
      BY <1>3, <1>4, <1>5, <1>8, <2>2, <3>2
    <3> QED
      BY <1>5, <3>1, <3>2
  <2>3. ASSUME NEW i \in 1 .. n
        PROVE  stack'[i + 1].seat = Search!NextPos(stack'[i].seat, stack'[i].di)
    <3>1. stack'[i] = stack[i]
      BY <1>4
    <3>2. CASE i = n
      <4>1. stack # <<>>
        BY <1>2, <3>2, EmptySeq
      <4>2. stack'[i + 1].seat = curpos
        BY <1>3, <1>4, <3>2
      <4> QED
        BY <1>2, <3>1, <3>2, <4>1, <4>2 DEF Looking
    <3>3. CASE i # n
      <4>1. i \in 1 .. n - 1 /\ i + 1 \in 1 .. n
        BY <1>2, <3>3
      <4>2. stack'[i + 1] = stack[i + 1]
        BY <1>4, <4>1
      <4> QED
        BY <1>2, <3>1, <4>1, <4>2 DEF IsWay
    <3> QED
      BY <3>2, <3>3
  <2> QED
    BY <1>1, <1>4, <1>5, <2>1, <2>2, <2>3 DEF IsWay
<1>10. maze' \in Mazes /\ stack' \in Seq(Entries')
  BY <1>1, <1>2, <1>4 DEF Entries
<1>11. CASE /\ curpos # maze.end /\ curpos' = Search!NextPos(curpos, 1)
            /\ footprint' = Search!FootPrint(curpos) /\ verdict' = verdict
  <2>1. footprint' = footprint \cup {curpos}
    BY <1>11 DEF Search!FootPrint
  <2>2. Looking'
    BY <1>1, <1>3, <1>4, <1>7, <1>11 DEF Looking
  <2>3. \A p : Known(p) => Known(p)'
    BY <1>1, <2>1 DEF Known
  <2>4. Tried'
    <3>1. ASSUME NEW i \in 1 .. n
          PROVE  /\ stack'[i].seat \in footprint'
                 /\ \A d \in 1 .. stack'[i].di - 1 : \A q :
                      q = Search!NextPos(stack'[i].seat, d) => Known(q)'
      <4>1. /\ stack[i].seat \in footprint
            /\ \A d \in 1 .. stack[i].di - 1 : Known(Search!NextPos(stack[i].seat, d))
        BY <1>2 DEF Tried
      <4>2. stack'[i] = stack[i]
        BY <1>4
      <4> QED
        BY <2>1, <2>3, <4>1, <4>2
    <3>2. stack'[n + 1].seat \in footprint' /\ 1 .. stack'[n + 1].di - 1 = {}
      BY <1>3, <1>4, <2>1
    <3> QED
      BY <1>4, <1>5, <3>1, <3>2 DEF Tried
  <2>5. GivenUp'
    <3>1. ASSUME NEW p \in footprint', ~OnStack(p)', NEW d \in 1 .. 4
          PROVE  Known(Search!NextPos(p, d))'
      <4>1. p # curpos
        BY <1>3, <1>4, <1>5, <3>1 DEF OnStack
      <4>2. ~OnStack(p)
        BY <1>4, <1>5, <3>1 DEF OnStack
      <4>3. Known(Search!NextPos(p, d))
        BY <1>2, <2>1, <3>1, <4>1, <4>2 DEF GivenUp
      <4> QED
        BY <2>3, <4>3
    <3> QED
      BY <3>1 DEF GivenUp
  <2>6. footprint' \subseteq maze'.open \ {maze'.end}
    BY <1>1, <1>2, <1>11, <2>1
  <2> QED
    BY <1>1, <1>6, <1>9, <1>10, <1>11, <2>2, <2>4, <2>5, <2>6 DEF MazeInv
<1>12. CASE curpos = maze.end /\ verdict' = "TRUE"
  <2>1. stack'[Len(stack')].seat = maze'.end
    BY <1>1, <1>3, <1>4, <1>12
  <2> QED
    BY <1>6, <1>7, <1>9, <1>10, <1>12, <2>1 DEF MazeInv
<1> QED
  BY <1>11, <1>12 DEF Search!Advance

LEMMA Largest ==
  ASSUME NEW n \in Nat, NEW T \in SUBSET (1 .. n), T # {}
  PROVE  \E i \in T : \A j \in T : j <= i
<1> DEFINE U == {m \in 0 .. n : \E j \in T : m = n - j}
<1>1. U \in SUBSET Nat /\ \A j \in T : j \in Nat /\ n - j \in U
  OBVIOUS
<1>2. PICK m \in U : \A k \in U : m <= k
  <2>1. U # {}
    BY <1>1
  <2> HIDE DEF U
  <2> QED
    BY <1>1, <2>1, Least
<1>3. PICK i \in T : m = n - i
  BY <1>2
<1>4. ASSUME NEW j \in T PROVE j <= i
  <2>1. n - i <= n - j /\ i \in Nat /\ j \in Nat
    BY <1>1, <1>2, <1>3
  <2> QED
    BY <2>1
<1> QED
  BY <1>4

\* Marking again what is given up changes nothing: it is marked.
LEMMA MarkedAlready ==
  ASSUME NEW k \in Nat, stack \in Seq(Entries),
         \A i \in 1 .. Len(stack) : stack[i].seat \in footprint
  PROVE  Search!MarkPrint(SubSeq(stack, k + 1, Len(stack))) = footprint
<1> DEFINE n == Len(stack)
           s == SubSeq(stack, k + 1, n)
<1>1. n \in Nat /\ k + 1 \in Int /\ n \in Int
  BY LenProperties
<1>2. \A i \in (k + 1) .. n : i \in 1 .. n /\ stack[i] \in Entries
  BY <1>1, ElementOfSeq
<1>3. /\ s \in Seq(Entries)
      /\ \A i \in 1 .. (n - (k + 1)) + 1 : s[i] = stack[((k + 1) + i) - 1]
      /\ Len(s) = IF k + 1 <= n THEN (n - (k + 1)) + 1 ELSE 0
  BY <1>1, <1>2, SubSeqProperties
<1> HIDE DEF s
<1>4. \A i \in DOMAIN s : s[i].seat \in footprint
  <2>1. ASSUME NEW i \in DOMAIN s PROVE s[i].seat \in footprint
    <3>1. i \in 1 .. Len(s)
      BY <1>3
    <3>2. /\ i \in 1 .. (n - (k + 1)) + 1
          /\ ((k + 1) + i) - 1 \in 1 .. n
      BY <1>1, <1>3, <3>1
    <3>3. s[i] = stack[((k + 1) + i) - 1]
      BY <1>3, <3>2
    <3> QED
      BY <3>2, <3>3
  <2> QED
    BY <2>1
<1> QED
  BY <1>4 DEF Search!MarkPrint, s

\* In a square that cannot be walked on, no direction of an entry of the stack
\* is left but those after the one last tried.
LEMMA AllTried ==
  ASSUME Search!MazeAssumption, MazeInv, verdict = "searching", Known(curpos)
  PROVE  \A i \in 1 .. Len(stack) : \A d \in 1 .. stack[i].di :
           Known(Search!NextPos(stack[i].seat, d))
<1> SUFFICES ASSUME NEW i \in 1 .. Len(stack), NEW d \in 1 .. stack[i].di
             PROVE  Known(Search!NextPos(stack[i].seat, d))
  OBVIOUS
<1>1. /\ Len(stack) \in Nat /\ IsWay /\ Looking /\ Tried
      /\ stack[i].di \in 1 .. 4 /\ stack # <<>>
  <2>1. stack # <<>>
    BY EmptySeq
  <2> QED
    BY <2>1, Searching
<1>2. CASE d \in 1 .. stack[i].di - 1
  BY <1>1, <1>2 DEF Tried
<1>3. CASE d = stack[i].di
  <2>1. CASE i = Len(stack)
    BY <1>1, <1>3, <2>1 DEF Looking
  <2>2. CASE i # Len(stack)
    <3>1. i \in 1 .. Len(stack) - 1 /\ i + 1 \in 1 .. Len(stack)
      BY <1>1, <2>2
    <3>2. stack[i + 1].seat = Search!NextPos(stack[i].seat, d)
      BY <1>1, <1>3, <3>1 DEF IsWay
    <3>3. stack[i + 1].seat \in footprint
      BY <1>1, <3>1 DEF Tried
    <3> QED
      BY <3>2, <3>3 DEF Known
  <2> QED
    BY <2>1, <2>2
<1>4. d \in 1 .. stack[i].di - 1 \/ d = stack[i].di
  <2>1. PICK t \in 1 .. 4 : t = stack[i].di
    BY <1>1
  <2>2. d \in 1 .. t
    BY <2>1
  <2>3. d \in 1 .. t - 1 \/ d = t
    BY <2>2
  <2> QED
    BY <2>1, <2>3
<1> QED
  BY <1>2, <1>3, <1>4

\* Back to the last square with a direction left, or out.
LEMMA BacktrackStep ==
  ASSUME Search!MazeAssumption, MazeInv, Search!Backtrack
  PROVE  MazeInv'
<1> DEFINE n == Len(stack)
           left == {i \in DOMAIN stack : Search!Untried(stack[i])}
           k == CHOOSE i \in left : \A j \in left : j <= i
<1>1. verdict = "searching" /\ Known(curpos) /\ UNCHANGED <<maze, stacksize>>
  BY DEF Search!Backtrack, Search!Pass, Known
<1>2. /\ maze \in Mazes /\ stack \in Seq(Entries) /\ n \in Nat /\ stacksize \in Nat /\ n <= stacksize
      /\ IsWay /\ Looking /\ Tried /\ GivenUp
      /\ footprint \subseteq maze.open /\ maze.end \notin footprint
      /\ \A i \in 1 .. n : stack[i] \in Entries /\ stack[i].seat \in maze.open /\ stack[i].di \in 1 .. 4
  BY <1>1, Searching
<1>3. \A i \in 1 .. n : \A d \in 1 .. stack[i].di : Known(Search!NextPos(stack[i].seat, d))
  BY <1>1, AllTried
<1>4. left \subseteq 1 .. n /\ \A i \in 1 .. n : i \in left <=> stack[i].di < 4
  BY <1>2 DEF Search!Untried
<1>5. \A i \in 1 .. n : i \notin left => \A d \in 1 .. 4 : Known(Search!NextPos(stack[i].seat, d))
  <2>1. ASSUME NEW i \in 1 .. n, i \notin left PROVE stack[i].di = 4
    <3>1. stack[i].di \in 1 .. 4 /\ ~(stack[i].di < 4)
      BY <1>2, <1>4, <2>1
    <3> QED
      BY <3>1
  <2> QED
    BY <1>3, <2>1
<1>6. \A i \in 1 .. n : stack[i].seat \in footprint
  BY <1>2 DEF Tried
<1>7. CASE left = {}
  <2>1. /\ stack' = <<>> /\ verdict' = "FALSE"
        /\ footprint' = Search!MarkPrint(SubSeq(stack, 2, Len(stack)))
    BY <1>7 DEF Search!Backtrack
  <2>2. footprint' = footprint
    <3>1. 1 \in Nat /\ 1 + 1 = 2
      OBVIOUS
    <3>2. Search!MarkPrint(SubSeq(stack, 1 + 1, Len(stack))) = footprint
      BY <1>2, <1>6, <3>1, MarkedAlready
    <3> QED
      BY <2>1, <3>1, <3>2
  <2>3. \A p \in footprint : \A d \in 1 .. 4 : Known(Search!NextPos(p, d))
    <3>1. ASSUME NEW p \in footprint, OnStack(p), NEW d \in 1 .. 4
          PROVE  Known(Search!NextPos(p, d))
      BY <1>5, <1>7, <3>1 DEF OnStack
    <3> QED
      BY <1>2, <3>1 DEF GivenUp
  <2>4. maze.start \in maze.open => maze.start \in footprint
    <3>1. CASE stack = <<>>
      BY <1>1, <1>2, <3>1 DEF Looking, Known
    <3>2. CASE stack # <<>>
      <4>1. 1 \in 1 .. n /\ stack[1].seat = maze.start
        BY <1>1, <1>2, <3>2, Searching DEF IsWay
      <4> QED
        BY <1>6, <4>1
    <3> QED
      BY <3>1, <3>2
  <2>5. Settled'
    <3>1. \A p : Known(p) <=> Known(p)'
      BY <1>1, <2>2 DEF Known
    <3> QED
      BY <1>1, <1>2, <2>2, <2>3, <2>4, <3>1 DEF Settled
  <2>6. stack' \in Seq(Entries)' /\ Len(stack') = 0
    BY <2>1, EmptySeq
  <2>7. IsWay'
    BY <2>1, <2>6 DEF IsWay
  <2>8. Len(stack') <= stacksize'
    BY <1>1, <1>2, <2>6
  <2> QED
    BY <1>1, <1>2, <2>1, <2>5, <2>6, <2>7, <2>8 DEF MazeInv
<1>8. CASE left # {}
  <2>1. k \in left /\ \A j \in left : j <= k
    <3>1. \E i \in left : \A j \in left : j <= i
      BY <1>2, <1>4, <1>8, Largest
    <3> QED
      BY <3>1
  <2>2. /\ stack' = [SubSeq(stack, 1, k) EXCEPT ![k].di = @ + 1]
        /\ curpos' = Search!NextPos(stack[k].seat, stack[k].di + 1)
        /\ footprint' = Search!MarkPrint(SubSeq(stack, k + 1, Len(stack)))
        /\ verdict' = verdict
    BY <1>8 DEF Search!Backtrack
  <2> HIDE DEF k
  <2>3. k \in 1 .. n /\ k \in Nat /\ \A i \in 1 .. n : i \in left => i <= k
    BY <1>2, <1>4, <2>1
  <2>4. footprint' = footprint
    BY <1>2, <1>6, <2>2, <2>3, MarkedAlready
  <2>5. /\ SubSeq(stack, 1, k) \in Seq(Entries) /\ Len(SubSeq(stack, 1, k)) = k
        /\ \A i \in 1 .. k : SubSeq(stack, 1, k)[i] = stack[i] /\ i \in 1 .. n
    <3>1. \A i \in 1 .. k : i \in 1 .. n /\ stack[i] \in Entries
      BY <1>2, <2>3
    <3>2. /\ SubSeq(stack, 1, k) \in Seq(Entries)
          /\ Len(SubSeq(stack, 1, k)) = IF 1 <= k THEN (k - 1) + 1 ELSE 0
          /\ \A i \in 1 .. (k - 1) + 1 : SubSeq(stack, 1, k)[i] = stack[(1 + i) - 1]
      BY <2>3, <3>1, SubSeqProperties
    <3>3. 1 <= k /\ (k - 1) + 1 = k /\ \A i \in 1 .. k : (1 + i) - 1 = i
      BY <2>3
    <3> QED
      BY <3>1, <3>2, <3>3
  <2>6. stack[k].di \in 1 .. 3 /\ stack[k].di + 1 \in 1 .. 4
    <3>1. stack[k].di \in 1 .. 4 /\ stack[k].di < 4
      BY <1>2, <1>4, <2>1, <2>3
    <3> QED
      BY <3>1
  <2>7. /\ stack' \in Seq(Entries) /\ Len(stack') = k
        /\ \A i \in 1 .. k : stack'[i].seat = stack[i].seat
        /\ \A i \in 1 .. k : i # k => stack'[i] = stack[i]
        /\ stack'[k].di = stack[k].di + 1
    <3> DEFINE t == SubSeq(stack, 1, k)
               r == [t[k] EXCEPT !.di = @ + 1]
    <3>1. t[k] = stack[k] /\ stack[k] \in Entries /\ t \in Seq(Entries) /\ Len(t) = k
      BY <1>2, <2>3, <2>5
    <3>2. r.seat = stack[k].seat /\ r.di = stack[k].di + 1
      BY <3>1 DEF Entries
    <3>3. r \in Entries
      BY <2>6, <3>1 DEF Entries
    <3>4. stack' = [t EXCEPT ![k] = r]
      BY <2>2
    <3>5. \A i \in 1 .. k : t[i] = stack[i]
      BY <2>5
    <3> HIDE DEF t, r
    <3>6. /\ stack' \in Seq(Entries) /\ Len(stack') = k
          /\ \A i \in 1 .. k : stack'[i] = IF i = k THEN r ELSE t[i]
      BY <2>3, <3>1, <3>3, <3>4, ExceptSeq
    <3>7. k \in 1 .. k
      BY <2>3
    <3> QED
      BY <3>2, <3>5, <3>6, <3>7
  <2>8. stack' # <<>>
    BY <2>3, <2>7, EmptySeq
  <2>9. IsWay'
    <3>1. stack'[1].seat = maze.start
      <4>1. 1 \in 1 .. k /\ stack # <<>>
        BY <1>2, <2>3, EmptySeq
      <4> QED
        BY <1>2, <2>7, <4>1 DEF IsWay
    <3>2. \A i, j \in 1 .. k : stack'[i].seat = stack'[j].seat => i = j
      BY <1>2, <2>5, <2>7 DEF IsWay
    <3>3. ASSUME NEW i \in 1 .. k - 1
          PROVE  stack'[i + 1].seat = Search!NextPos(stack'[i].seat, stack'[i].di)
      <4>1. i \in 1 .. n - 1 /\ i \in 1 .. k /\ i # k /\ i + 1 \in 1 .. k
        BY <1>2, <2>3
      <4> QED
        BY <1>2, <2>7, <4>1 DEF IsWay
    <3> QED
      BY <1>1, <2>7, <3>1, <3>2, <3>3 DEF IsWay
  <2>10. \A p : Known(p) <=> Known(p)'
    BY <1>1, <2>4 DEF Known
  <2>11. Looking'
    <3>1. k \in 1 .. k
      BY <2>3
    <3> QED
      BY <2>2, <2>7, <2>8, <3>1 DEF Looking
  <2>12. Tried'
    <3>1. ASSUME NEW i \in 1 .. k
          PROVE  /\ stack'[i].seat \in footprint'
                 /\ \A d \in 1 .. stack'[i].di - 1 : \A q :
                      q = Search!NextPos(stack'[i].seat, d) => Known(q)'
      <4>1. i \in 1 .. n /\ stack'[i].seat = stack[i].seat
        BY <2>5, <2>7
      <4>2. \A d \in 1 .. stack'[i].di - 1 : d \in 1 .. stack[i].di
        <5>1. CASE i = k
          <6>1. stack'[i].di - 1 = stack[i].di
            BY <2>6, <2>7, <5>1
          <6> QED
            BY <6>1
        <5>2. CASE i # k
          <6>1. stack'[i].di = stack[i].di /\ stack[i].di \in 1 .. 4
            BY <1>2, <2>7, <4>1, <5>2
          <6> QED
            BY <6>1
        <5> QED
          BY <5>1, <5>2
      <4>3. stack'[i].seat \in footprint'
        BY <1>6, <2>4, <4>1
      <4> QED
        BY <1>3, <2>10, <4>1, <4>2, <4>3
    <3> QED
      BY <2>7, <3>1 DEF Tried
  <2>13. GivenUp'
    <3>1. ASSUME NEW p \in footprint', ~OnStack(p)', NEW d \in 1 .. 4
          PROVE  Known(Search!NextPos(p, d))
      <4>1. CASE OnStack(p)
        <5>1. PICK i \in 1 .. n : stack[i].seat = p
          BY <4>1 DEF OnStack
        <5>2. i \notin 1 .. k
          BY <2>7, <3>1, <5>1 DEF OnStack
        <5>3. ~(i <= k)
          BY <2>3, <5>2
        <5>4. i \notin left
          BY <2>3, <5>3
        <5> QED
          BY <1>5, <5>1, <5>4
      <4>2. CASE ~OnStack(p)
        BY <1>2, <2>4, <3>1, <4>2 DEF GivenUp
      <4> QED
        BY <4>1, <4>2
    <3> QED
      BY <2>10, <3>1 DEF GivenUp
  <2>14. stack' \in Seq(Entries') /\ Len(stack') <= stacksize'
    <3>1. Entries' = Entries
      BY <1>1 DEF Entries
    <3>2. Len(stack') <= stacksize'
      BY <1>1, <1>2, <2>3, <2>7
    <3> QED
      BY <2>7, <3>1, <3>2
  <2>15. footprint' \subseteq maze'.open \ {maze'.end}
    BY <1>1, <1>2, <2>4
  <2> QED
    BY <1>1, <1>2, <2>2, <2>9, <2>11, <2>12, <2>13, <2>14, <2>15 DEF MazeInv
<1> QED
  BY <1>7, <1>8

\* The search looks beyond the edge only from the start, with nothing left to try.
LEMMA StrayStep ==
  ASSUME Search!MazeAssumption, MazeInv, Search!Stray
  PROVE  MazeInv'
<1> DEFINE n == Len(stack)
<1>1. /\ verdict = "searching" /\ curpos \notin Search!Grid /\ verdict' = "outside"
      /\ UNCHANGED <<maze, stacksize, stack, footprint>>
  BY DEF Search!Stray
<1>2. /\ maze \in Mazes /\ n \in Nat /\ IsWay /\ Looking /\ Tried /\ GivenUp
      /\ footprint \subseteq maze.open /\ maze.end \notin footprint
      /\ \A i \in 1 .. n : stack[i].seat \in maze.open /\ stack[i].di \in 1 .. 4
      /\ stack # <<>> => n \in 1 .. n /\ 1 \in 1 .. n
  BY <1>1, Searching
<1>3. Settled
  <2>1. CASE stack = <<>>
    <3>1. curpos = maze.start /\ footprint = {} /\ maze.open \subseteq Search!Grid
      BY <1>2, <2>1, MazeFacts DEF Looking
    <3> QED
      BY <1>1, <1>2, <3>1 DEF Settled
  <2>2. CASE stack # <<>>
    <3>1. n \in 1 .. n /\ 1 \in 1 .. n /\ stack[n].di \in 1 .. 4
      BY <1>2, <2>2
    <3>2. stack[n].seat \in maze.open \ {maze.end}
      BY <1>2, <3>1 DEF Tried
    <3>3. Search!NextPos(stack[n].seat, stack[n].di) \notin Search!Grid
      BY <1>1, <1>2, <2>2 DEF Looking
    <3>4. /\ stack[n].seat = maze.start
          /\ \A d \in stack[n].di .. 4 : Search!NextPos(stack[n].seat, d) \notin maze.open
      BY <1>2, <3>1, <3>2, <3>3, MazeFacts
    <3>5. n = 1
      BY <1>2, <2>2, <3>1, <3>4 DEF IsWay
    <3>6. ASSUME NEW d \in 1 .. 4 PROVE Known(Search!NextPos(stack[n].seat, d))
      <4>1. d \in 1 .. stack[n].di - 1 \/ d \in stack[n].di .. 4
        <5>1. PICK t \in 1 .. 4 : t = stack[n].di
          BY <3>1
        <5>2. d \in 1 .. t - 1 \/ d \in t .. 4
          OBVIOUS
        <5> QED
          BY <5>1, <5>2
      <4> QED
        BY <1>2, <3>1, <3>4, <4>1 DEF Tried, Known
    <3>7. ASSUME NEW p \in footprint, NEW d \in 1 .. 4 PROVE Known(Search!NextPos(p, d))
      <4>1. CASE OnStack(p)
        <5>1. p = stack[n].seat
          BY <3>5, <4>1 DEF OnStack
        <5> QED
          BY <3>6, <5>1
      <4>2. CASE ~OnStack(p)
        BY <1>2, <4>2 DEF GivenUp
      <4> QED
        BY <4>1, <4>2
    <3>8. maze.start \in footprint
      BY <1>2, <3>1, <3>4 DEF Tried
    <3> QED
      BY <1>2, <3>7, <3>8 DEF Settled
  <2> QED
    BY <2>1, <2>2
<1>4. Settled' /\ IsWay' /\ Entries' = Entries
  <2>1. \A p : Known(p) <=> Known(p)'
    BY <1>1 DEF Known
  <2>2. Settled'
    BY <1>1, <1>3, <2>1 DEF Settled
  <2>3. IsWay'
    BY <1>1, <1>2 DEF IsWay
  <2> QED
    BY <1>1, <2>2, <2>3 DEF Entries
<1> QED
  BY <1>1, <1>4 DEF MazeInv

LEMMA MazeStep ==
  ASSUME Search!MazeAssumption, MazeInv, [Search!Next]_(Search!vars)
  PROVE  MazeInv'
<1>1. CASE UNCHANGED Search!vars
  BY <1>1 DEF Search!vars, MazeInv, IsWay, Looking, Tried, GivenUp, OnStack, Settled, Known,
     Entries
<1>2. CASE Search!Next
  BY <1>2, AdvanceStep, BacktrackStep, StrayStep DEF Search!Next
<1> QED
  BY <1>1, <1>2

\* What the search tells, by its invariant, is so.
LEMMA MazeDecides ==
  ASSUME MazeInv
  PROVE  Search!SearchDecides
<1> DEFINE seats == [i \in DOMAIN stack |-> stack[i].seat]
           n == Len(stack)
<1>1. stack \in Seq(Entries) /\ n \in Nat /\ n <= stacksize /\ IsWay
  BY LenProperties DEF MazeInv
<1>2. DOMAIN stack = 1 .. n /\ \A i \in 1 .. n : stack[i].seat \in maze.open
  <2>1. \A i \in 1 .. n : stack[i] \in Entries
    BY <1>1, ElementOfSeq
  <2> QED
    BY <1>1, <2>1 DEF Entries
<1>3. seats \in Seq(maze.open) /\ Len(seats) = n /\ \A i \in 1 .. n : seats[i] = stack[i].seat
  BY <1>1, <1>2
<1> HIDE DEF seats
<1>4. Search!IsInjective(seats)
  BY <1>1, <1>3 DEF IsWay, Search!IsInjective
<1>5. Search!Range(seats) \subseteq maze.open
  BY <1>3 DEF Search!Range
<1>6. ASSUME NEW i \in 2 .. n PROVE Search!Adjacent(seats[i - 1], seats[i])
  <2>1. i - 1 \in 1 .. n - 1 /\ (i - 1) + 1 = i /\ i \in 1 .. n /\ i - 1 \in 1 .. n
    BY <1>1
  <2>2. stack[i].seat = Search!NextPos(stack[i - 1].seat, stack[i - 1].di)
    BY <1>1, <2>1 DEF IsWay
  <2>3. stack[i - 1].di \in 1 .. 4
    <3>1. stack[i - 1] \in Entries
      BY <1>1, <2>1, ElementOfSeq
    <3> QED
      BY <3>1 DEF Entries
  <2> QED
    BY <1>3, <2>1, <2>2, <2>3 DEF Search!Adjacent
<1>7. ASSUME verdict = "TRUE" PROVE seats[1] = maze.start /\ seats[Len(seats)] = maze.end
  <2>1. stack # <<>> /\ stack[n].seat = maze.end
    BY <1>7 DEF MazeInv
  <2>2. 1 \in 1 .. n /\ n \in 1 .. n /\ stack[1].seat = maze.start
    BY <1>1, <2>1, EmptySeq DEF IsWay
  <2> QED
    BY <1>3, <2>1, <2>2
<1>8. verdict \in {"FALSE", "outside"} => maze.end \notin Search!Reached
  BY PartsAssumption, SettledDecides DEF MazeInv
<1> QED
  BY <1>1, <1>3, <1>4, <1>5, <1>6, <1>7, <1>8 DEF Search!SearchDecides, seats

---------------------------------------------------------------------------
(* The search tree.  A node has an interval of numbers, those for which a  *)
(* search comes to it: k is its number, l and r are its children, lo and   *)
(* hi bound the interval (Fits).  Where a child is missing, no node's      *)
(* number is in that half of the interval (Leftwards, Rightwards), so that *)
(* no node is off the tree; a bound is the number of an ancestor, whose    *)
(* interval contains this one (Above, Nested).                             *)

Low  == -2147483647 - 2
High == 2147483647 + 1

Leftwards(N, k, l, lo, hi) ==
  \A x \in N : IF l[x] = Null THEN \A y \in N : ~(lo[x] < k[y] /\ k[y] < k[x])
               ELSE l[x] \in N /\ lo[l[x]] = lo[x] /\ hi[l[x]] = k[x]

Rightwards(N, k, r, lo, hi) ==
  \A x \in N : IF r[x] = Null THEN \A y \in N : ~(k[x] < k[y] /\ k[y] < hi[x])
               ELSE r[x] \in N /\ lo[r[x]] = k[x] /\ hi[r[x]] = hi[x]

Nested(N, k, lo, hi) ==
  \A x, y \in N : lo[y] < k[x] /\ k[x] < hi[y] => lo[y] <= lo[x] /\ hi[x] <= hi[y]

Above(N, k, lo, hi) ==
  \A x \in N : /\ lo[x] = Low  \/ \E z \in N : k[z] = lo[x] /\ hi[x] <= hi[z]
               /\ hi[x] = High \/ \E z \in N : k[z] = hi[x] /\ lo[z] <= lo[x]

Spans(N, k, lo, hi) ==
  \A x \in N : /\ k[x] \in Int /\ lo[x] \in Int /\ hi[x] \in Int
               /\ Low <= lo[x] /\ lo[x] < k[x] /\ k[x] < hi[x] /\ hi[x] <= High

Topmost(N, top, lo, hi) ==
  IF top = Null THEN N = {} ELSE top \in N /\ lo[top] = Low /\ hi[top] = High

Fits(N, k, l, r, top, lo, hi) ==
  /\ Topmost(N, top, lo, hi) /\ Spans(N, k, lo, hi)
  /\ Leftwards(N, k, l, lo, hi) /\ Rightwards(N, k, r, lo, hi)
  /\ Nested(N, k, lo, hi) /\ Above(N, k, lo, hi)
  /\ \A x, y \in N : k[x] = k[y] => x = y

LEMMA HangLeft ==
  ASSUME NEW N, NEW k, NEW l, NEW r, NEW top, NEW lo, NEW hi, Fits(N, k, l, r, top, lo, hi),
         NEW x \in N, NEW d \in Int, lo[x] < d, d < k[x], l[x] = Null,
         NEW p, p \notin N, p # Null, NEW M, M = N \cup {p}, NEW j, NEW m, NEW s,
         j[p] = d, m[p] = Null, s[p] = Null,
         \A y \in N : j[y] = k[y] /\ s[y] = r[y] /\ m[y] = IF y = x THEN p ELSE l[y]
  PROVE  \E a, b : Fits(M, j, m, s, top, a, b)
<1> DEFINE a == [y \in M |-> IF y = p THEN lo[x] ELSE lo[y]]
           b == [y \in M |-> IF y = p THEN k[x] ELSE hi[y]]
<1>1. /\ a[p] = lo[x] /\ b[p] = k[x]
      /\ \A y \in N : a[y] = lo[y] /\ b[y] = hi[y]
  OBVIOUS
<1>2. Spans(N, k, lo, hi) /\ (\A y, z \in N : k[y] = k[z] => y = z)
  BY DEF Fits
<1>3. Leftwards(N, k, l, lo, hi) /\ Rightwards(N, k, r, lo, hi)
  BY DEF Fits
<1>4. Nested(N, k, lo, hi) /\ Above(N, k, lo, hi) /\ Low \in Int /\ High \in Int
  BY DEF Fits, Low, High
<1>5. Topmost(N, top, lo, hi)
  BY DEF Fits
<1> HIDE DEF a, b
<1>6. \A y \in N : ~(lo[x] < k[y] /\ k[y] < k[x]) /\ k[y] # d
  BY <1>2, <1>3 DEF Leftwards, Spans
<1>7. Spans(M, j, a, b)
  <2>1. ASSUME NEW y \in M
        PROVE  /\ j[y] \in Int /\ a[y] \in Int /\ b[y] \in Int
               /\ Low <= a[y] /\ a[y] < j[y] /\ j[y] < b[y] /\ b[y] <= High
    <3>1. CASE y = p
      BY <1>1, <1>2, <1>4, <3>1 DEF Spans
    <3>2. CASE y \in N
      BY <1>1, <1>2, <3>2 DEF Spans
    <3> QED
      BY <3>1, <3>2
  <2> QED
    BY <2>1 DEF Spans
<1>8. Topmost(M, top, a, b)
  BY <1>1, <1>5 DEF Topmost
<1>9. \A y, z \in M : j[y] = j[z] => y = z
  BY <1>2, <1>6
<1>10. Leftwards(M, j, m, a, b)
  <2>1. ASSUME NEW y \in N, l[y] = Null, y # x, lo[y] < d, d < k[y] PROVE FALSE
    <3>1. ~(lo[y] < k[x] /\ k[x] < k[y])
      BY <1>3, <2>1 DEF Leftwards
    <3>2. ~(lo[x] < k[y] /\ k[y] < k[x]) /\ k[y] # k[x]
      BY <1>2, <1>6, <2>1
    <3> QED
      BY <1>2, <2>1, <3>1, <3>2 DEF Spans
  <2>2. ASSUME NEW y \in M
        PROVE  IF m[y] = Null THEN \A z \in M : ~(a[y] < j[z] /\ j[z] < j[y])
               ELSE m[y] \in M /\ a[m[y]] = a[y] /\ b[m[y]] = j[y]
    <3>1. CASE y = p
      BY <1>1, <1>2, <1>6, <3>1 DEF Spans
    <3>2. CASE y = x
      BY <1>1, <3>2
    <3>3. CASE y \in N /\ y # x /\ l[y] = Null
      BY <1>1, <1>3, <2>1, <3>3 DEF Leftwards
    <3>4. CASE y \in N /\ y # x /\ l[y] # Null
      BY <1>1, <1>3, <3>4 DEF Leftwards
    <3> QED
      BY <3>1, <3>2, <3>3, <3>4
  <2> QED
    BY <2>2 DEF Leftwards
<1>11. Rightwards(M, j, s, a, b)
  <2>1. ASSUME NEW y \in N, r[y] = Null, k[y] < d, d < hi[y] PROVE FALSE
    <3>1. y # x /\ k[y] <= lo[x] /\ k[x] \in Int /\ lo[x] \in Int /\ k[y] \in Int /\ hi[y] \in Int
      BY <1>2, <1>6, <2>1 DEF Spans
    <3>2. \A z \in N : ~(k[y] < k[z] /\ k[z] < hi[y])
      BY <1>3, <2>1 DEF Rightwards
    <3>3. hi[y] <= k[x]
      BY <2>1, <3>1, <3>2
    <3>4. Low <= lo[y] /\ lo[y] < k[y] /\ lo[y] \in Int
      BY <1>2 DEF Spans
    <3>5. PICK z \in N : k[z] = lo[x] /\ hi[x] <= hi[z]
      BY <1>4, <3>1, <3>4 DEF Above
    <3>6. k[z] \in Int /\ ~(k[y] < k[z] /\ k[z] < hi[y])
      BY <1>2, <3>2 DEF Spans
    <3>7. k[z] = k[y]
      BY <2>1, <3>1, <3>5, <3>6
    <3>8. z = y
      BY <1>2, <3>7
    <3>9. k[x] < hi[x] /\ hi[x] \in Int
      BY <1>2 DEF Spans
    <3> QED
      BY <3>1, <3>3, <3>5, <3>8, <3>9
  <2>2. ASSUME NEW y \in M
        PROVE  IF s[y] = Null THEN \A z \in M : ~(j[y] < j[z] /\ j[z] < b[y])
               ELSE s[y] \in M /\ a[s[y]] = j[y] /\ b[s[y]] = b[y]
    <3>1. CASE y = p
      BY <1>1, <1>2, <1>6, <3>1 DEF Spans
    <3>2. CASE y \in N /\ r[y] = Null
      BY <1>1, <1>3, <2>1, <3>2 DEF Rightwards
    <3>3. CASE y \in N /\ r[y] # Null
      BY <1>1, <1>3, <3>3 DEF Rightwards
    <3> QED
      BY <3>1, <3>2, <3>3
  <2> QED
    BY <2>2 DEF Rightwards
<1>12. Nested(M, j, a, b)
  <2>1. ASSUME NEW y \in N, lo[y] < d, d < hi[y] PROVE lo[y] <= lo[x] /\ k[x] <= hi[y]
    <3>1. /\ lo[y] \in Int /\ hi[y] \in Int /\ k[y] \in Int /\ lo[y] < k[y] /\ k[y] < hi[y]
          /\ lo[x] \in Int /\ hi[x] \in Int /\ k[x] \in Int /\ lo[x] < k[x] /\ k[x] < hi[x]
          /\ hi[x] <= High
      BY <1>2 DEF Spans
    <3>2. CASE k[x] < hi[y]
      BY <1>4, <2>1, <3>1, <3>2 DEF Nested
    <3>3. CASE hi[y] <= k[x]
      <4>1. PICK z \in N : k[z] = hi[y] /\ lo[z] <= lo[y]
        BY <1>4, <3>1, <3>3 DEF Above
      <4>2. k[z] = k[x]
        BY <1>6, <2>1, <3>1, <3>3, <4>1
      <4>3. z = x
        BY <1>2, <4>2
      <4>4. ~(lo[x] < k[y] /\ k[y] < k[x])
        BY <1>6
      <4> QED
        BY <3>1, <4>1, <4>2, <4>3, <4>4
    <3> QED
      BY <3>1, <3>2, <3>3
  <2>2. ASSUME NEW y \in M, NEW z \in M, a[z] < j[y], j[y] < b[z]
        PROVE  a[z] <= a[y] /\ b[y] <= b[z]
    <3>1. CASE y = p /\ z = p
      BY <1>1, <1>2, <3>1 DEF Spans
    <3>2. CASE y = p /\ z \in N
      BY <1>1, <2>1, <2>2, <3>2
    <3>3. CASE y \in N /\ z = p
      BY <1>1, <1>6, <2>2, <3>3
    <3>4. CASE y \in N /\ z \in N
      BY <1>1, <1>4, <2>2, <3>4 DEF Nested
    <3> QED
      BY <3>1, <3>2, <3>3, <3>4
  <2> QED
    BY <2>2 DEF Nested
<1>13. Above(M, j, a, b)
  <2>1. ASSUME NEW y \in N
        PROVE  /\ a[y] = Low  \/ \E z \in M : j[z] = a[y] /\ b[y] <= b[z]
               /\ b[y] = High \/ \E z \in M : j[z] = b[y] /\ a[z] <= a[y]
    BY <1>1, <1>4 DEF Above
  <2>2. a[p] = Low \/ \E z \in M : j[z] = a[p] /\ b[p] <= b[z]
    <3>1. CASE lo[x] = Low
      BY <1>1, <3>1
    <3>2. CASE lo[x] # Low
      <4>1. PICK z \in N : k[z] = lo[x] /\ hi[x] <= hi[z]
        BY <1>4, <3>2 DEF Above
      <4>2. z \in M /\ k[x] <= hi[z]
        BY <1>2, <4>1 DEF Spans
      <4> QED
        BY <1>1, <4>1, <4>2
    <3> QED
      BY <3>1, <3>2
  <2>3. \E z \in M : j[z] = b[p] /\ a[z] <= a[p]
    BY <1>1, <1>2 DEF Spans
  <2> QED
    BY <2>1, <2>2, <2>3 DEF Above
<1> QED
  BY <1>7, <1>8, <1>9, <1>10, <1>11, <1>12, <1>13 DEF Fits
LEMMA HangRight ==
  ASSUME NEW N, NEW k, NEW l, NEW r, NEW top, NEW lo, NEW hi, Fits(N, k, l, r, top, lo, hi),
         NEW x \in N, NEW d \in Int, d < hi[x], k[x] < d, r[x] = Null,
         NEW p, p \notin N, p # Null, NEW M, M = N \cup {p}, NEW j, NEW m, NEW s,
         j[p] = d, s[p] = Null, m[p] = Null,
         \A y \in N : j[y] = k[y] /\ m[y] = l[y] /\ s[y] = IF y = x THEN p ELSE r[y]
  PROVE  \E a, b : Fits(M, j, m, s, top, a, b)
<1> DEFINE b == [y \in M |-> IF y = p THEN hi[x] ELSE hi[y]]
           a == [y \in M |-> IF y = p THEN k[x] ELSE lo[y]]
<1>1. /\ b[p] = hi[x] /\ a[p] = k[x]
      /\ \A y \in N : b[y] = hi[y] /\ a[y] = lo[y]
  OBVIOUS
<1>2. Spans(N, k, lo, hi) /\ (\A y, z \in N : k[y] = k[z] => y = z)
  BY DEF Fits
<1>3. Rightwards(N, k, r, lo, hi) /\ Leftwards(N, k, l, lo, hi)
  BY DEF Fits
<1>4. Nested(N, k, lo, hi) /\ Above(N, k, lo, hi) /\ High \in Int /\ Low \in Int
  BY DEF Fits, High, Low
<1>5. Topmost(N, top, lo, hi)
  BY DEF Fits
<1> HIDE DEF a, b
<1>6. \A y \in N : ~(k[y] < hi[x] /\ k[x] < k[y]) /\ k[y] # d
  BY <1>2, <1>3 DEF Rightwards, Spans
<1>7. Spans(M, j, a, b)
  <2>1. ASSUME NEW y \in M
        PROVE  /\ j[y] \in Int /\ b[y] \in Int /\ a[y] \in Int
               /\ b[y] <= High /\ j[y] < b[y] /\ a[y] < j[y] /\ Low <= a[y]
    <3>1. CASE y = p
      BY <1>1, <1>2, <1>4, <3>1 DEF Spans
    <3>2. CASE y \in N
      BY <1>1, <1>2, <3>2 DEF Spans
    <3> QED
      BY <3>1, <3>2
  <2> QED
    BY <2>1 DEF Spans
<1>8. Topmost(M, top, a, b)
  BY <1>1, <1>5 DEF Topmost
<1>9. \A y, z \in M : j[y] = j[z] => y = z
  BY <1>2, <1>6
<1>10. Rightwards(M, j, s, a, b)
  <2>1. ASSUME NEW y \in N, r[y] = Null, y # x, d < hi[y], k[y] < d PROVE FALSE
    <3>1. ~(k[x] < hi[y] /\ k[y] < k[x])
      BY <1>3, <2>1 DEF Rightwards
    <3>2. ~(k[y] < hi[x] /\ k[x] < k[y]) /\ k[y] # k[x]
      BY <1>2, <1>6, <2>1
    <3> QED
      BY <1>2, <2>1, <3>1, <3>2 DEF Spans
  <2>2. ASSUME NEW y \in M
        PROVE  IF s[y] = Null THEN \A z \in M : ~(j[z] < b[y] /\ j[y] < j[z])
               ELSE s[y] \in M /\ b[s[y]] = b[y] /\ a[s[y]] = j[y]
    <3>1. CASE y = p
      BY <1>1, <1>2, <1>6, <3>1 DEF Spans
    <3>2. CASE y = x
      BY <1>1, <3>2
    <3>3. CASE y \in N /\ y # x /\ r[y] = Null
      BY <1>1, <1>3, <2>1, <3>3 DEF Rightwards
    <3>4. CASE y \in N /\ y # x /\ r[y] # Null
      BY <1>1, <1>3, <3>4 DEF Rightwards
    <3> QED
      BY <3>1, <3>2, <3>3, <3>4
  <2> QED
    BY <2>2 DEF Rightwards
<1>11. Leftwards(M, j, m, a, b)
  <2>1. ASSUME NEW y \in N, l[y] = Null, d < k[y], lo[y] < d PROVE FALSE
    <3>1. y # x /\ hi[x] <= k[y] /\ k[x] \in Int /\ hi[x] \in Int /\ k[y] \in Int /\ lo[y] \in Int
      BY <1>2, <1>6, <2>1 DEF Spans
    <3>2. \A z \in N : ~(k[z] < k[y] /\ lo[y] < k[z])
      BY <1>3, <2>1 DEF Leftwards
    <3>3. k[x] <= lo[y]
      BY <2>1, <3>1, <3>2
    <3>4. hi[y] <= High /\ k[y] < hi[y] /\ hi[y] \in Int
      BY <1>2 DEF Spans
    <3>5. PICK z \in N : k[z] = hi[x] /\ lo[z] <= lo[x]
      BY <1>4, <3>1, <3>4 DEF Above
    <3>6. k[z] \in Int /\ ~(k[z] < k[y] /\ lo[y] < k[z])
      BY <1>2, <3>2 DEF Spans
    <3>7. k[z] = k[y]
      BY <2>1, <3>1, <3>5, <3>6
    <3>8. z = y
      BY <1>2, <3>7
    <3>9. lo[x] < k[x] /\ lo[x] \in Int
      BY <1>2 DEF Spans
    <3> QED
      BY <3>1, <3>3, <3>5, <3>8, <3>9
  <2>2. ASSUME NEW y \in M
        PROVE  IF m[y] = Null THEN \A z \in M : ~(j[z] < j[y] /\ a[y] < j[z])
               ELSE m[y] \in M /\ b[m[y]] = j[y] /\ a[m[y]] = a[y]
    <3>1. CASE y = p
      BY <1>1, <1>2, <1>6, <3>1 DEF Spans
    <3>2. CASE y \in N /\ l[y] = Null
      BY <1>1, <1>3, <2>1, <3>2 DEF Leftwards
    <3>3. CASE y \in N /\ l[y] # Null
      BY <1>1, <1>3, <3>3 DEF Leftwards
    <3> QED
      BY <3>1, <3>2, <3>3
  <2> QED
    BY <2>2 DEF Leftwards
<1>12. Nested(M, j, a, b)
  <2>1. ASSUME NEW y \in N, d < hi[y], lo[y] < d PROVE hi[x] <= hi[y] /\ lo[y] <= k[x]
    <3>1. /\ hi[y] \in Int /\ lo[y] \in Int /\ k[y] \in Int /\ k[y] < hi[y] /\ lo[y] < k[y]
          /\ hi[x] \in Int /\ lo[x] \in Int /\ k[x] \in Int /\ k[x] < hi[x] /\ lo[x] < k[x]
          /\ Low <= lo[x]
      BY <1>2 DEF Spans
    <3>2. CASE lo[y] < k[x]
      BY <1>4, <2>1, <3>1, <3>2 DEF Nested
    <3>3. CASE k[x] <= lo[y]
      <4>1. PICK z \in N : k[z] = lo[y] /\ hi[y] <= hi[z]
        BY <1>4, <3>1, <3>3 DEF Above
      <4>2. k[z] = k[x]
        BY <1>6, <2>1, <3>1, <3>3, <4>1
      <4>3. z = x
        BY <1>2, <4>2
      <4>4. ~(k[y] < hi[x] /\ k[x] < k[y])
        BY <1>6
      <4> QED
        BY <3>1, <4>1, <4>2, <4>3, <4>4
    <3> QED
      BY <3>1, <3>2, <3>3
  <2>2. ASSUME NEW y \in M, NEW z \in M, j[y] < b[z], a[z] < j[y]
        PROVE  b[y] <= b[z] /\ a[z] <= a[y]
    <3>1. CASE y = p /\ z = p
      BY <1>1, <1>2, <3>1 DEF Spans
    <3>2. CASE y = p /\ z \in N
      BY <1>1, <2>1, <2>2, <3>2
    <3>3. CASE y \in N /\ z = p
      BY <1>1, <1>6, <2>2, <3>3
    <3>4. CASE y \in N /\ z \in N
      BY <1>1, <1>4, <2>2, <3>4 DEF Nested
    <3> QED
      BY <3>1, <3>2, <3>3, <3>4
  <2> QED
    BY <2>2 DEF Nested
<1>13. Above(M, j, a, b)
  <2>1. ASSUME NEW y \in N
        PROVE  /\ b[y] = High  \/ \E z \in M : j[z] = b[y] /\ a[z] <= a[y]
               /\ a[y] = Low \/ \E z \in M : j[z] = a[y] /\ b[y] <= b[z]
    BY <1>1, <1>4 DEF Above
  <2>2. b[p] = High \/ \E z \in M : j[z] = b[p] /\ a[z] <= a[p]
    <3>1. CASE hi[x] = High
      BY <1>1, <3>1
    <3>2. CASE hi[x] # High
      <4>1. PICK z \in N : k[z] = hi[x] /\ lo[z] <= lo[x]
        BY <1>4, <3>2 DEF Above
      <4>2. z \in M /\ lo[z] <= k[x]
        BY <1>2, <4>1 DEF Spans
      <4> QED
        BY <1>1, <4>1, <4>2
    <3> QED
      BY <3>1, <3>2
  <2>3. \E z \in M : j[z] = a[p] /\ b[p] <= b[z]
    BY <1>1, <1>2 DEF Spans
  <2> QED
    BY <2>1, <2>2, <2>3 DEF Above
<1> QED
  BY <1>7, <1>8, <1>9, <1>10, <1>11, <1>12, <1>13 DEF Fits

\* What is left when p is taken off, its left subtree moved up and its right one
\* hung below q, the end of the left one's rightmost branch: whose interval ended
\* at p's number, it ends where p's did; whose began there, it begins at q's.
LEMMA TakenOff ==
  ASSUME NEW N, NEW k, NEW l, NEW r, NEW top, NEW lo, NEW hi, Fits(N, k, l, r, top, lo, hi),
         Null \notin N, NEW p \in N, NEW q, IF l[p] = Null THEN q = Null
                           ELSE q \in N /\ r[q] = Null /\ hi[q] = k[p],
         NEW c, c = IF l[p] = Null THEN r[p] ELSE l[p], NEW M, M = N \ {p}, NEW m, NEW s, NEW up,
         \A y \in M : /\ m[y] = IF l[y] = p THEN c ELSE l[y]
                      /\ s[y] = IF y = q THEN r[p] ELSE IF r[y] = p THEN c ELSE r[y],
         up = IF top = p THEN c ELSE top
  PROVE  \E a, b : Fits(M, k, m, s, up, a, b)
<1> DEFINE K == k[p]
           A == IF l[p] = Null THEN lo[p] ELSE k[q]
           B == hi[p]
           a == [y \in M |-> IF lo[y] = K THEN A ELSE lo[y]]
           b == [y \in M |-> IF hi[y] = K THEN B ELSE hi[y]]
<1>1. \A y \in M : /\ a[y] = IF lo[y] = K THEN A ELSE lo[y]
                   /\ b[y] = IF hi[y] = K THEN B ELSE hi[y]
  OBVIOUS
<1>2. Spans(N, k, lo, hi) /\ (\A y, z \in N : k[y] = k[z] => y = z)
  BY DEF Fits
<1>3. Leftwards(N, k, l, lo, hi) /\ Rightwards(N, k, r, lo, hi)
  BY DEF Fits
<1>4. Nested(N, k, lo, hi) /\ Above(N, k, lo, hi) /\ Low \in Int /\ High \in Int
  BY DEF Fits, Low, High
<1>5. Topmost(N, top, lo, hi)
  BY DEF Fits
<1> HIDE DEF a, b
<1>6. /\ K \in Int /\ B \in Int /\ lo[p] \in Int
      /\ Low <= lo[p] /\ lo[p] < K /\ K < B /\ B <= High
  BY <1>2 DEF Spans
\* The new bound, and that no number is between it and the one taken off.
<1>7. A \in Int /\ lo[p] <= A /\ A < K /\ \A y \in N : ~(A < k[y] /\ k[y] < K)
  <2>1. CASE l[p] = Null
    BY <1>3, <1>6, <2>1 DEF Leftwards
  <2>2. CASE l[p] # Null
    <3>1. q \in N /\ r[q] = Null /\ hi[q] = K /\ A = k[q]
      BY <2>2
    <3>2. \A y \in N : ~(k[q] < k[y] /\ k[y] < K)
      BY <1>3, <3>1 DEF Rightwards
    <3>3. k[q] \in Int /\ k[q] < K
      BY <1>2, <3>1 DEF Spans
    <3>4. hi[q] # High
      BY <1>4, <1>6, <3>1
    <3>5. PICK z \in N : k[z] = hi[q] /\ lo[z] <= lo[q]
      BY <1>4, <3>1, <3>4 DEF Above
    <3>6. z = p
      BY <1>2, <3>1, <3>5
    <3>7. lo[p] <= k[q]
      BY <1>2, <3>1, <3>5, <3>6 DEF Spans
    <3> QED
      BY <3>1, <3>2, <3>3, <3>7
  <2> QED
    BY <2>1, <2>2
<1> HIDE DEF K, A, B
\* Whose interval began, or ended, at the number taken off.
<1>8. ASSUME NEW y \in N, lo[y] = K PROVE hi[y] <= B /\ K < k[y] /\ k[y] < hi[y] /\ hi[y] \in Int
  <2>1. PICK z \in N : k[z] = lo[y] /\ hi[y] <= hi[z]
    BY <1>4, <1>6, <1>8 DEF Above
  <2>2. z = p
    BY <1>2, <1>8, <2>1 DEF K
  <2> QED
    BY <1>2, <1>8, <2>1, <2>2 DEF B, Spans
<1>9. ASSUME NEW y \in N, hi[y] = K
      PROVE  lo[p] <= lo[y] /\ lo[y] < k[y] /\ k[y] < K /\ l[p] # Null
  <2>1. PICK z \in N : k[z] = hi[y] /\ lo[z] <= lo[y]
    BY <1>4, <1>6, <1>9 DEF Above
  <2>2. z = p
    BY <1>2, <1>9, <2>1 DEF K
  <2>3. lo[y] < k[y] /\ k[y] < K /\ k[y] \in Int /\ lo[y] \in Int
    BY <1>2, <1>9 DEF Spans
  <2>4. l[p] # Null
    <3>1. l[p] = Null => ~(lo[p] < k[y] /\ k[y] < k[p])
      BY <1>3 DEF Leftwards
    <3> QED
      BY <1>6, <2>1, <2>2, <2>3, <3>1 DEF K
  <2> QED
    BY <2>1, <2>2, <2>3, <2>4
\* Bounds below the number taken off are not above the new one.
<1>10. ASSUME NEW y \in N, lo[y] < K PROVE lo[y] <= A
  <2>1. CASE lo[y] = Low
    BY <1>4, <1>6, <1>7, <2>1
  <2>2. CASE lo[y] # Low
    <3>1. PICK z \in N : k[z] = lo[y]
      BY <1>4, <2>2 DEF Above
    <3>2. k[z] \in Int /\ ~(A < k[z] /\ k[z] < K)
      BY <1>2, <1>7 DEF Spans
    <3> QED
      BY <1>7, <1>10, <3>1, <3>2
  <2> QED
    BY <2>1, <2>2
\* What is in p's interval above it is in its right half.
<1>11. ASSUME NEW y \in N, K < k[y], k[y] < B PROVE K <= lo[y] /\ hi[y] <= B
  <2>1. r[p] # Null
    BY <1>3, <1>11 DEF Rightwards, K, B
  <2>2. r[p] \in N /\ lo[r[p]] = K /\ hi[r[p]] = B
    BY <1>3, <2>1 DEF Rightwards, K, B
  <2> QED
    BY <1>4, <1>11, <2>2 DEF Nested
\* An interval with p's number in it contains p's.
<1>12. ASSUME NEW y \in N, lo[y] < K, K < hi[y] PROVE lo[y] <= lo[p] /\ B <= hi[y]
  BY <1>4, <1>12 DEF Nested, K, B
<1>13. Spans(M, k, a, b)
  <2>1. ASSUME NEW y \in M
        PROVE  /\ k[y] \in Int /\ a[y] \in Int /\ b[y] \in Int
               /\ Low <= a[y] /\ a[y] < k[y] /\ k[y] < b[y] /\ b[y] <= High
    <3>1. /\ k[y] \in Int /\ lo[y] \in Int /\ hi[y] \in Int
          /\ Low <= lo[y] /\ lo[y] < k[y] /\ k[y] < hi[y] /\ hi[y] <= High
      BY <1>2 DEF Spans
    <3>2. a[y] \in Int /\ Low <= a[y] /\ a[y] <= lo[y]
      BY <1>1, <1>4, <1>6, <1>7, <3>1
    <3>3. b[y] \in Int /\ b[y] <= High /\ hi[y] <= b[y]
      BY <1>1, <1>4, <1>6, <3>1
    <3> QED
      BY <1>4, <3>1, <3>2, <3>3
  <2> QED
    BY <2>1 DEF Spans
<1>14. \A y, z \in M : k[y] = k[z] => y = z
  BY <1>2
<1>15. ASSUME NEW y \in M PROVE k[y] # K /\ k[y] \in Int /\ a[y] <= lo[y] /\ hi[y] <= b[y]
  BY <1>1, <1>2, <1>6, <1>7 DEF Spans, K
\* The subtree that moves up gets the interval of p.
<1>16. IF c = Null THEN \A y \in N : ~(lo[p] < k[y] /\ k[y] < B /\ k[y] # K)
       ELSE c \in M /\ a[c] = lo[p] /\ b[c] = B
  <2>1. CASE l[p] # Null
    <3>1. c = l[p] /\ c \in N /\ lo[c] = lo[p] /\ hi[c] = K
      BY <1>3, <2>1 DEF Leftwards, K
    <3>2. c \in M
      BY <1>6, <3>1 DEF B
    <3> QED
      BY <1>1, <1>6, <2>1, <3>1, <3>2
  <2>2. CASE l[p] = Null /\ r[p] # Null
    <3>1. c = r[p] /\ c \in N /\ lo[c] = K /\ hi[c] = B
      BY <1>3, <2>2 DEF Rightwards, K, B
    <3>2. c \in M
      BY <1>6, <3>1
    <3> QED
      BY <1>1, <1>6, <2>2, <3>1, <3>2 DEF A
  <2>3. CASE l[p] = Null /\ r[p] = Null
    <3>1. ASSUME NEW y \in N PROVE ~(lo[p] < k[y] /\ k[y] < K) /\ ~(K < k[y] /\ k[y] < B)
      BY <1>3, <2>3 DEF Leftwards, Rightwards, K, B
    <3>2. \A y \in N : k[y] \in Int
      BY <1>2 DEF Spans
    <3> QED
      BY <1>6, <2>3, <3>1, <3>2
  <2> QED
    BY <2>1, <2>2, <2>3
<1>17. Topmost(M, up, a, b)
  <2>1. top \in N /\ lo[top] = Low /\ hi[top] = High
    BY <1>5 DEF Topmost
  <2>2. CASE top # p
    <3>1. up = top /\ top \in M /\ lo[top] # K /\ hi[top] # K /\ top # Null
      BY <1>4, <1>6, <2>1, <2>2
    <3> QED
      BY <1>1, <2>1, <3>1 DEF Topmost
  <2>3. CASE top = p
    <3>1. up = c /\ lo[p] = Low /\ B = High
      BY <2>1, <2>3 DEF B
    <3>2. ASSUME NEW y \in N PROVE lo[p] < k[y] /\ k[y] < B
      BY <1>2, <1>4, <3>1 DEF Spans
    <3>3. c = Null => M = {}
      BY <1>15, <1>16, <3>2
    <3>4. c # Null => c \in M /\ a[c] = Low /\ b[c] = High
      BY <1>16, <3>1
    <3> QED
      BY <3>1, <3>3, <3>4 DEF Topmost
  <2> QED
    BY <2>2, <2>3
<1>18. l[p] # Null => q \in M /\ r[q] = Null /\ hi[q] = K /\ A = k[q]
  <2>1. l[p] # Null => q \in N /\ r[q] = Null /\ hi[q] = K /\ A = k[q]
    BY DEF K, A
  <2> QED
    BY <1>6, <2>1 DEF B
<1>19. Leftwards(M, k, m, a, b)
  <2>1. ASSUME NEW y \in M
        PROVE  IF m[y] = Null THEN \A z \in M : ~(a[y] < k[z] /\ k[z] < k[y])
               ELSE m[y] \in M /\ a[m[y]] = a[y] /\ b[m[y]] = k[y]
    <3>1. CASE l[y] = Null
      <4>1. m[y] = Null
        BY <3>1
      <4>2. ASSUME NEW z \in M, a[y] < k[z], k[z] < k[y] PROVE FALSE
        <5>1. ~(lo[y] < k[z] /\ k[z] < k[y]) /\ lo[y] \in Int
          BY <1>2, <1>3, <3>1 DEF Leftwards, Spans
        <5>2. lo[y] = K
          BY <1>1, <4>2, <5>1
        <5>3. k[z] # K /\ k[z] \in Int /\ a[y] = A
          BY <1>1, <1>15, <5>2
        <5> QED
          BY <1>6, <1>7, <4>2, <5>1, <5>2, <5>3
      <4> QED
        BY <4>1, <4>2
    <3>2. CASE l[y] # Null /\ l[y] # p
      <4>1. m[y] = l[y] /\ l[y] \in N /\ lo[l[y]] = lo[y] /\ hi[l[y]] = k[y]
        BY <1>3, <3>2 DEF Leftwards
      <4> QED
        BY <1>1, <1>15, <3>2, <4>1
    <3>3. CASE l[y] = p
      <4>1. m[y] = c /\ lo[p] = lo[y] /\ B = k[y]
        BY <1>3, <3>3 DEF Leftwards, B
      <4>2. a[y] = lo[p]
        BY <1>1, <1>6, <4>1
      <4> QED
        BY <1>15, <1>16, <4>1, <4>2
    <3> QED
      BY <3>1, <3>2, <3>3
  <2> QED
    BY <2>1 DEF Leftwards
<1>20. Rightwards(M, k, s, a, b)
  <2>1. ASSUME NEW y \in M
        PROVE  IF s[y] = Null THEN \A z \in M : ~(k[y] < k[z] /\ k[z] < b[y])
               ELSE s[y] \in M /\ a[s[y]] = k[y] /\ b[s[y]] = b[y]
    <3>1. CASE y = q /\ l[p] # Null
      <4>1. s[y] = r[p] /\ r[y] = Null /\ hi[y] = K /\ A = k[y] /\ b[y] = B
        BY <1>1, <1>18, <3>1
      <4>2. CASE r[p] = Null
        <5>1. ASSUME NEW z \in N PROVE ~(K < k[z] /\ k[z] < B)
          BY <1>3, <4>2 DEF Rightwards, K, B
        <5> QED
          BY <1>6, <1>7, <1>15, <4>1, <4>2, <5>1
      <4>3. CASE r[p] # Null
        <5>1. r[p] \in N /\ lo[r[p]] = K /\ hi[r[p]] = B
          BY <1>3, <4>3 DEF Rightwards, K, B
        <5>2. r[p] \in M
          BY <1>6, <5>1
        <5> QED
          BY <1>1, <1>6, <4>1, <4>3, <5>1, <5>2
      <4> QED
        BY <4>2, <4>3
    <3>2. CASE y # q /\ r[y] = Null
      <4>1. s[y] = Null /\ \A z \in N : ~(k[y] < k[z] /\ k[z] < hi[y])
        BY <1>3, <3>2 DEF Rightwards
      <4>2. ASSUME hi[y] = K PROVE FALSE
        <5>1. k[y] < K /\ l[p] # Null
          BY <1>9, <4>2
        <5>2. q \in N /\ A = k[q]
          BY <1>18, <5>1
        <5>3. k[y] # k[q]
          BY <1>2, <3>2, <5>2
        <5> QED
          BY <1>6, <1>7, <1>15, <4>1, <4>2, <5>1, <5>2, <5>3
      <4> QED
        BY <1>1, <4>1, <4>2
    <3>3. CASE r[y] # Null /\ r[y] # p
      <4>1. y # q
        BY <1>18, <3>3
      <4>2. s[y] = r[y] /\ r[y] \in N /\ lo[r[y]] = k[y] /\ hi[r[y]] = hi[y]
        BY <1>3, <3>3, <4>1 DEF Rightwards
      <4> QED
        BY <1>1, <1>15, <3>3, <4>2
    <3>4. CASE r[y] = p
      <4>1. y # q
        BY <1>18, <3>4
      <4>2. s[y] = c /\ lo[p] = k[y] /\ B = hi[y]
        BY <1>3, <3>4, <4>1 DEF Rightwards, B
      <4>3. b[y] = B
        BY <1>1, <1>6, <4>2
      <4> QED
        BY <1>15, <1>16, <4>2, <4>3
    <3> QED
      BY <1>18, <3>1, <3>2, <3>3, <3>4
  <2> QED
    BY <2>1 DEF Rightwards
<1>21. Nested(M, k, a, b)
  <2>1. ASSUME NEW y \in M, NEW z \in M, a[z] < k[y], k[y] < b[z]
        PROVE  a[z] <= a[y] /\ b[y] <= b[z]
    <3>1. /\ lo[y] \in Int /\ hi[y] \in Int /\ lo[z] \in Int /\ hi[z] \in Int
          /\ lo[y] < k[y] /\ k[y] < hi[y] /\ lo[z] < hi[z] /\ k[y] \in Int /\ k[y] # K
      BY <1>2, <1>15 DEF Spans
    <3>2. lo[z] < k[y] /\ k[y] < hi[z] => lo[z] <= lo[y] /\ hi[y] <= hi[z]
      BY <1>4 DEF Nested
    <3>3. CASE lo[z] # K /\ hi[z] # K
      <4>1. lo[z] <= lo[y] /\ hi[y] <= hi[z] /\ a[z] = lo[z] /\ b[z] = hi[z]
        BY <1>1, <2>1, <3>2, <3>3
      <4>2. a[z] <= a[y]
        BY <1>1, <1>6, <1>10, <3>1, <3>3, <4>1
      <4>3. b[y] <= b[z]
        BY <1>1, <1>6, <1>12, <3>1, <3>3, <4>1
      <4> QED
        BY <4>2, <4>3
    <3>4. CASE lo[z] = K
      <4>1. a[z] = A /\ b[z] = hi[z]
        BY <1>1, <3>1, <3>4
      <4>2. K < k[y]
        BY <1>6, <1>7, <2>1, <3>1, <4>1
      <4>3. lo[z] <= lo[y] /\ hi[y] <= hi[z]
        BY <2>1, <3>2, <3>4, <4>1, <4>2
      <4> QED
        BY <1>1, <1>6, <1>7, <3>1, <3>4, <4>1, <4>2, <4>3
    <3>5. CASE hi[z] = K
      <4>1. a[z] = lo[z] /\ b[z] = B /\ lo[z] < K
        BY <1>1, <3>1, <3>5
      <4>2. CASE k[y] < K
        <5>1. lo[z] <= lo[y] /\ hi[y] <= K
          BY <2>1, <3>2, <3>5, <4>1, <4>2
        <5> QED
          BY <1>1, <1>6, <3>1, <4>1, <4>2, <5>1
      <4>3. CASE K < k[y]
        <5>1. K <= lo[y] /\ hi[y] <= B
          BY <1>11, <2>1, <4>1, <4>3
        <5>2. a[z] <= a[y]
          BY <1>1, <1>6, <1>7, <1>10, <3>1, <4>1, <5>1
        <5>3. b[y] = hi[y]
          BY <1>1, <1>6, <3>1, <4>3
        <5> QED
          BY <4>1, <5>1, <5>2, <5>3
      <4> QED
        BY <1>6, <3>1, <4>2, <4>3
    <3> QED
      BY <3>3, <3>4, <3>5
  <2> QED
    BY <2>1 DEF Nested
<1>22. Above(M, k, a, b)
  <2>1. ASSUME NEW y \in M PROVE a[y] = Low \/ \E z \in M : k[z] = a[y] /\ b[y] <= b[z]
    <3>1. lo[y] \in Int /\ hi[y] \in Int /\ lo[y] < k[y] /\ k[y] < hi[y]
      BY <1>2 DEF Spans
    <3>2. CASE lo[y] # K /\ lo[y] # Low
      <4>1. PICK z \in N : k[z] = lo[y] /\ hi[y] <= hi[z]
        BY <1>4, <3>2 DEF Above
      <4>2. z \in M /\ lo[z] \in Int /\ hi[z] \in Int /\ lo[z] < k[z] /\ a[y] = lo[y]
        BY <1>1, <1>2, <3>2, <4>1 DEF Spans, K
      <4>3. b[y] <= b[z]
        <5>1. CASE hi[y] = K
          <6>1. b[y] = B
            BY <1>1, <5>1
          <6>2. CASE hi[z] = K
            BY <1>1, <1>6, <4>2, <6>1, <6>2
          <6>3. CASE K < hi[z]
            BY <1>1, <1>6, <1>12, <3>1, <4>1, <4>2, <5>1, <6>1, <6>3, <1>15
          <6> QED
            BY <1>6, <4>1, <4>2, <5>1, <6>2, <6>3
        <5>2. CASE hi[y] # K
          BY <1>1, <1>6, <3>1, <4>1, <4>2, <5>2
        <5> QED
          BY <5>1, <5>2
      <4> QED
        BY <4>1, <4>2, <4>3
    <3>3. CASE lo[y] = K /\ l[p] # Null
      <4>1. q \in M /\ a[y] = k[q] /\ b[q] = B
        BY <1>1, <1>18, <3>3
      <4>2. b[y] <= B
        BY <1>1, <1>6, <1>8, <3>1, <3>3
      <4> QED
        BY <4>1, <4>2
    <3>4. CASE lo[y] = K /\ l[p] = Null
      <4>1. a[y] = lo[p] /\ b[y] = hi[y] /\ hi[y] <= B
        <5>1. hi[y] <= B /\ hi[y] # K
          BY <1>6, <1>8, <1>15, <3>1, <3>4
        <5>2. A = lo[p]
          BY <3>4 DEF A
        <5> QED
          BY <1>1, <3>4, <5>1, <5>2
      <4>2. CASE lo[p] # Low
        <5>1. PICK z \in N : k[z] = lo[p] /\ B <= hi[z]
          BY <1>4, <4>2 DEF Above, B
        <5>2. z \in M /\ hi[z] \in Int
          BY <1>2, <1>6, <5>1 DEF Spans, K
        <5>3. b[z] = hi[z]
          BY <1>1, <1>6, <5>1, <5>2
        <5> QED
          BY <1>6, <3>1, <4>1, <5>1, <5>2, <5>3
      <4> QED
        BY <4>1, <4>2
    <3>5. CASE lo[y] # K /\ lo[y] = Low
      BY <1>1, <3>5
    <3> QED
      BY <3>2, <3>3, <3>4, <3>5
  <2>2. ASSUME NEW y \in M PROVE b[y] = High \/ \E z \in M : k[z] = b[y] /\ a[z] <= a[y]
    <3>1. lo[y] \in Int /\ hi[y] \in Int /\ lo[y] < k[y] /\ k[y] < hi[y]
      BY <1>2 DEF Spans
    <3>2. CASE hi[y] # K /\ hi[y] # High
      <4>1. PICK z \in N : k[z] = hi[y] /\ lo[z] <= lo[y]
        BY <1>4, <3>2 DEF Above
      <4>2. z \in M /\ lo[z] \in Int /\ b[y] = hi[y] /\ a[z] <= lo[z]
        BY <1>1, <1>2, <1>15, <3>2, <4>1 DEF Spans, K
      <4>3. a[z] <= a[y]
        <5>1. CASE lo[y] = K
          BY <1>1, <1>6, <1>7, <1>10, <4>1, <4>2, <5>1
        <5>2. CASE lo[y] # K
          BY <1>1, <1>6, <1>7, <3>1, <4>1, <4>2, <5>2
        <5> QED
          BY <5>1, <5>2
      <4> QED
        BY <4>1, <4>2, <4>3
    <3>3. CASE hi[y] = K
      <4>1. b[y] = B /\ a[y] = lo[y] /\ lo[p] <= lo[y]
        <5>1. lo[p] <= lo[y] /\ lo[y] # K
          BY <1>6, <1>9, <1>15, <3>1, <3>3
        <5> QED
          BY <1>1, <3>3, <5>1
      <4>2. CASE B # High
        <5>1. PICK z \in N : k[z] = B /\ lo[z] <= lo[p]
          BY <1>4, <4>2 DEF Above, B
        <5>2. z \in M /\ lo[z] \in Int
          BY <1>2, <1>6, <5>1 DEF Spans, K
        <5>3. a[z] = lo[z]
          BY <1>1, <1>6, <5>1, <5>2
        <5> QED
          BY <1>6, <3>1, <4>1, <5>1, <5>2, <5>3
      <4> QED
        BY <4>1, <4>2
    <3>4. CASE hi[y] # K /\ hi[y] = High
      BY <1>1, <3>4
    <3> QED
      BY <3>2, <3>3, <3>4
  <2> QED
    BY <2>1, <2>2 DEF Above
<1> QED
  BY <1>13, <1>14, <1>17, <1>19, <1>20, <1>21, <1>22 DEF Fits

---------------------------------------------------------------------------
(* Searches along a branch, and what is below a node                       *)

Standing(t)  == {c \in Tree!Addresses : t[c] # Null}
Keys(t)   == [c \in Standing(t) |-> t[c].data]
Lefts(t)  == [c \in Standing(t) |-> t[c].left]
Rights(t) == [c \in Standing(t) |-> t[c].right]

TreeNodes == [data : Numbers, count : Nat, left : Tree!Addresses \cup {Null}, right : Tree!Addresses \cup {Null}]

Ordered(t, top, lo, hi) ==
  /\ t \in [Tree!Addresses -> TreeNodes \cup {Null}]
  /\ Fits(Standing(t), Keys(t), Lefts(t), Rights(t), top, lo, hi)

\* The nodes whose numbers are in the interval of x.
Sub(t, lo, hi, x) == {c \in Standing(t) : lo[x] < t[c].data /\ t[c].data < hi[x]}

LEMMA TreeBasics ==
  /\ MaxN \in Nat \ {0} /\ Tree!Addresses = 1 .. MaxN /\ Null \notin Tree!Addresses /\ Null \notin Numbers
  /\ Low \in Int /\ High \in Int /\ \A d \in Numbers : d \in Int /\ Low < d /\ d < High
  /\ Null \notin TreeNodes
<1>1. Tree!TreeAssumption
  BY PartsAssumption
<1>2. \A d \in Numbers : d \in Int /\ -2147483647 - 1 <= d /\ d <= 2147483647
  BY <1>1 DEF Tree!TreeAssumption
<1> QED
  BY <1>1, <1>2 DEF Tree!TreeAssumption, Tree!Addresses, Low, High, TreeNodes

\* What Fits says of a tree, node by node.
LEMMA OrderedFacts ==
  ASSUME NEW t, NEW top, NEW lo, NEW hi, Ordered(t, top, lo, hi)
  PROVE  /\ Standing(t) \subseteq Tree!Addresses /\ Null \notin Standing(t)
         /\ IF top = Null THEN Standing(t) = {} ELSE top \in Standing(t) /\ lo[top] = Low /\ hi[top] = High
         /\ \A x \in Standing(t) :
              /\ t[x] \in TreeNodes /\ t[x].data \in Numbers /\ t[x].data \in Int /\ t[x].count \in Nat
              /\ lo[x] \in Int /\ hi[x] \in Int /\ Low <= lo[x] /\ hi[x] <= High
              /\ lo[x] < t[x].data /\ t[x].data < hi[x]
              /\ IF t[x].left = Null
                   THEN \A y \in Standing(t) : ~(lo[x] < t[y].data /\ t[y].data < t[x].data)
                 ELSE t[x].left \in Standing(t) /\ lo[t[x].left] = lo[x] /\ hi[t[x].left] = t[x].data
              /\ IF t[x].right = Null
                   THEN \A y \in Standing(t) : ~(t[x].data < t[y].data /\ t[y].data < hi[x])
                 ELSE t[x].right \in Standing(t) /\ lo[t[x].right] = t[x].data /\ hi[t[x].right] = hi[x]
         /\ \A x, y \in Standing(t) : t[x].data = t[y].data => x = y
<1>1. /\ t \in [Tree!Addresses -> TreeNodes \cup {Null}]
      /\ Fits(Standing(t), Keys(t), Lefts(t), Rights(t), top, lo, hi)
  BY DEF Ordered
<1>2. Standing(t) \subseteq Tree!Addresses /\ Null \notin Standing(t)
  BY TreeBasics DEF Standing
<1>3. ASSUME NEW x \in Standing(t)
      PROVE  /\ t[x] \in TreeNodes /\ t[x].data \in Numbers /\ t[x].data \in Int /\ t[x].count \in Nat
             /\ Keys(t)[x] = t[x].data /\ Lefts(t)[x] = t[x].left /\ Rights(t)[x] = t[x].right
  <2>1. t[x] \in TreeNodes
    BY <1>1 DEF Standing
  <2>2. t[x].data \in Numbers /\ t[x].count \in Nat
    BY <2>1 DEF TreeNodes
  <2> QED
    BY <2>1, <2>2, TreeBasics DEF Keys, Lefts, Rights
<1> DEFINE N == Standing(t)
           k == Keys(t)
           l == Lefts(t)
           r == Rights(t)
<1> HIDE DEF N, k, l, r
<1>4. /\ Topmost(N, top, lo, hi) /\ Spans(N, k, lo, hi) /\ Leftwards(N, k, l, lo, hi)
      /\ Rightwards(N, k, r, lo, hi) /\ \A x, y \in N : k[x] = k[y] => x = y
  BY <1>1 DEF Fits, N, k, l, r
<1>5. \A x \in N : k[x] = t[x].data /\ l[x] = t[x].left /\ r[x] = t[x].right
  BY <1>3 DEF N, k, l, r
<1>6. IF top = Null THEN N = {} ELSE top \in N /\ lo[top] = Low /\ hi[top] = High
  BY <1>4 DEF Topmost
<1>7. \A x, y \in N : t[x].data = t[y].data => x = y
  BY <1>4, <1>5
<1>8. \A x \in N : /\ lo[x] \in Int /\ hi[x] \in Int /\ Low <= lo[x] /\ hi[x] <= High
                   /\ lo[x] < t[x].data /\ t[x].data < hi[x]
  BY <1>4, <1>5 DEF Spans
<1>9. \A x \in N :
        IF t[x].left = Null
          THEN \A y \in N : ~(lo[x] < t[y].data /\ t[y].data < t[x].data)
        ELSE t[x].left \in N /\ lo[t[x].left] = lo[x] /\ hi[t[x].left] = t[x].data
  BY <1>4, <1>5 DEF Leftwards
<1>10. \A x \in N :
        IF t[x].right = Null
          THEN \A y \in N : ~(t[x].data < t[y].data /\ t[y].data < hi[x])
        ELSE t[x].right \in N /\ lo[t[x].right] = t[x].data /\ hi[t[x].right] = hi[x]
  BY <1>4, <1>5 DEF Rightwards
<1> QED
  BY <1>2, <1>3, <1>6, <1>7, <1>8, <1>9, <1>10 DEF N

\* A subtree is its node and the two below it, and smaller the further down.
LEMMA SubFacts ==
  ASSUME NEW t, NEW top, NEW lo, NEW hi, Ordered(t, top, lo, hi)
  PROVE  /\ \A x \in Standing(t) :
              /\ x \in Sub(t, lo, hi, x) /\ Sub(t, lo, hi, x) \subseteq Standing(t)
              /\ IsFiniteSet(Sub(t, lo, hi, x)) /\ Cardinality(Sub(t, lo, hi, x)) \in 1 .. MaxN
              /\ {y \in Sub(t, lo, hi, x) : t[y].data < t[x].data}
                   = IF t[x].left = Null THEN {} ELSE Sub(t, lo, hi, t[x].left)
              /\ {y \in Sub(t, lo, hi, x) : t[x].data < t[y].data}
                   = IF t[x].right = Null THEN {} ELSE Sub(t, lo, hi, t[x].right)
              /\ t[x].left # Null =>
                   Cardinality(Sub(t, lo, hi, t[x].left)) < Cardinality(Sub(t, lo, hi, x))
              /\ t[x].right # Null =>
                   Cardinality(Sub(t, lo, hi, t[x].right)) < Cardinality(Sub(t, lo, hi, x))
<1> DEFINE N == Standing(t)
<1>1. N \subseteq 1 .. MaxN /\ MaxN \in Nat /\ MaxN \in Int /\ 1 \in Int
  BY OrderedFacts, TreeBasics
<1>2. IsFiniteSet(1 .. MaxN) /\ Cardinality(1 .. MaxN) = MaxN
  BY <1>1, TreeBasics, FS_Interval
<1>3. ASSUME NEW x \in N
      PROVE  /\ Sub(t, lo, hi, x) \subseteq N /\ IsFiniteSet(Sub(t, lo, hi, x))
             /\ Cardinality(Sub(t, lo, hi, x)) \in Nat /\ Cardinality(Sub(t, lo, hi, x)) <= MaxN
             /\ x \in Sub(t, lo, hi, x)
  <2>1. Sub(t, lo, hi, x) \subseteq N
    BY DEF Sub
  <2>2. Sub(t, lo, hi, x) \in SUBSET (1 .. MaxN)
    BY <1>1, <2>1
  <2>3. IsFiniteSet(Sub(t, lo, hi, x)) /\ Cardinality(Sub(t, lo, hi, x)) <= MaxN
    BY <1>2, <2>2, FS_Subset
  <2>4. x \in Sub(t, lo, hi, x)
    BY OrderedFacts DEF Sub
  <2> QED
    BY <2>1, <2>3, <2>4, FS_CardinalityType
<1> HIDE DEF N
<1>4. \A x \in N : /\ lo[x] \in Int /\ hi[x] \in Int /\ t[x].data \in Int
                   /\ lo[x] < t[x].data /\ t[x].data < hi[x]
  BY OrderedFacts DEF N
<1>5. ASSUME NEW x \in N
      PROVE  {y \in Sub(t, lo, hi, x) : t[y].data < t[x].data}
               = IF t[x].left = Null THEN {} ELSE Sub(t, lo, hi, t[x].left)
  <2>1. CASE t[x].left = Null
    <3>1. \A y \in N : ~(lo[x] < t[y].data /\ t[y].data < t[x].data)
      BY <2>1, OrderedFacts DEF N
    <3> QED
      BY <2>1, <3>1 DEF Sub, N
  <2>2. CASE t[x].left # Null
    <3>1. lo[t[x].left] = lo[x] /\ hi[t[x].left] = t[x].data
      BY <2>2, OrderedFacts DEF N
    <3>2. \A y \in N : t[y].data < t[x].data => t[y].data < hi[x]
      BY <1>4
    <3> QED
      BY <2>2, <3>1, <3>2 DEF Sub, N
  <2> QED
    BY <2>1, <2>2
<1>6. ASSUME NEW x \in N
      PROVE  {y \in Sub(t, lo, hi, x) : t[x].data < t[y].data}
               = IF t[x].right = Null THEN {} ELSE Sub(t, lo, hi, t[x].right)
  <2>1. CASE t[x].right = Null
    <3>1. \A y \in N : ~(t[x].data < t[y].data /\ t[y].data < hi[x])
      BY <2>1, OrderedFacts DEF N
    <3> QED
      BY <2>1, <3>1 DEF Sub, N
  <2>2. CASE t[x].right # Null
    <3>1. lo[t[x].right] = t[x].data /\ hi[t[x].right] = hi[x]
      BY <2>2, OrderedFacts DEF N
    <3>2. \A y \in N : t[x].data < t[y].data => lo[x] < t[y].data
      BY <1>4
    <3> QED
      BY <2>2, <3>1, <3>2 DEF Sub, N
  <2> QED
    BY <2>1, <2>2
\* Less than all of a finite set is less.
<1>7. ASSUME NEW S, IsFiniteSet(S), NEW x \in S, NEW U, U \subseteq S, x \notin U
      PROVE  Cardinality(U) < Cardinality(S)
  <2>1. /\ Cardinality(U) <= Cardinality(S) /\ (Cardinality(S) = Cardinality(U) => S = U)
        /\ Cardinality(S) \in Nat /\ IsFiniteSet(U)
    BY <1>7, FS_Subset, FS_CardinalityType
  <2>2. Cardinality(U) \in Nat /\ S # U
    BY <1>7, <2>1, FS_CardinalityType
  <2> QED
    BY <2>1, <2>2
<1>8. ASSUME NEW x \in N, t[x].left # Null
      PROVE  Cardinality(Sub(t, lo, hi, t[x].left)) < Cardinality(Sub(t, lo, hi, x))
  <2>1. Sub(t, lo, hi, t[x].left) = {y \in Sub(t, lo, hi, x) : t[y].data < t[x].data}
    BY <1>5, <1>8
  <2>2. ~(t[x].data < t[x].data)
    BY <1>4
  <2>3. Sub(t, lo, hi, t[x].left) \subseteq Sub(t, lo, hi, x) /\ x \notin Sub(t, lo, hi, t[x].left)
    BY <2>1, <2>2
  <2> QED
    BY <1>3, <1>7, <2>3
<1>9. ASSUME NEW x \in N, t[x].right # Null
      PROVE  Cardinality(Sub(t, lo, hi, t[x].right)) < Cardinality(Sub(t, lo, hi, x))
  <2>1. Sub(t, lo, hi, t[x].right) = {y \in Sub(t, lo, hi, x) : t[x].data < t[y].data}
    BY <1>6, <1>9
  <2>2. ~(t[x].data < t[x].data)
    BY <1>4
  <2>3. Sub(t, lo, hi, t[x].right) \subseteq Sub(t, lo, hi, x) /\ x \notin Sub(t, lo, hi, t[x].right)
    BY <2>1, <2>2
  <2> QED
    BY <1>3, <1>7, <2>3
<1>10. ASSUME NEW x \in N PROVE Cardinality(Sub(t, lo, hi, x)) \in 1 .. MaxN
  <2>1. Cardinality(Sub(t, lo, hi, x)) # 0
    BY <1>3, FS_EmptySet
  <2> QED
    BY <1>1, <1>3, <2>1
<1> QED
  BY <1>3, <1>5, <1>6, <1>8, <1>9, <1>10 DEF N

\* Going on while that makes something smaller comes to a stop in time.
LEMMA Settles ==
  ASSUME NEW S, NEW c \in S, NEW G \in [S -> S], NEW n \in Nat, NEW W \in [S -> Nat],
         W[c] <= n, \A x \in S : G[x] = x \/ W[G[x]] < W[x],
         NEW path, path[0] = c, \A i \in 1 .. n : path[i - 1] \in S => path[i] = G[path[i - 1]]
  PROVE  path[n] \in S /\ G[path[n]] = path[n]
<1> DEFINE T == {i \in Nat : i <= n => /\ path[i] \in S
                                       /\ G[path[i]] = path[i] \/ W[path[i]] + i <= n}
<1>1. 0 \in T
  OBVIOUS
<1>2. ASSUME NEW i \in Nat, i \in T PROVE i + 1 \in T
  <2> SUFFICES ASSUME i + 1 <= n
               PROVE  /\ path[i + 1] \in S
                      /\ G[path[i + 1]] = path[i + 1] \/ W[path[i + 1]] + (i + 1) <= n
    OBVIOUS
  <2>1. i + 1 \in 1 .. n /\ (i + 1) - 1 = i /\ i <= n
    OBVIOUS
  <2>2. path[i] \in S /\ (G[path[i]] = path[i] \/ W[path[i]] + i <= n)
    BY <1>2, <2>1
  <2>3. path[i + 1] = G[path[i]] /\ path[i + 1] \in S
    BY <2>1, <2>2
  <2>4. CASE G[path[i]] = path[i]
    BY <2>2, <2>3, <2>4
  <2>5. CASE G[path[i]] # path[i]
    <3>1. W[path[i + 1]] < W[path[i]] /\ W[path[i]] + i <= n
      BY <2>2, <2>3, <2>5
    <3>2. W[path[i]] \in Nat /\ W[path[i + 1]] \in Nat
      BY <2>2, <2>3
    <3>3. W[path[i + 1]] + (i + 1) <= n
      BY <3>1, <3>2
    <3> QED
      BY <2>3, <3>3
  <2> QED
    BY <2>4, <2>5
<1> HIDE DEF T
<1>3. n \in T
  BY <1>1, <1>2, Induction
<1>4. path[n] \in S /\ (G[path[n]] = path[n] \/ W[path[n]] + n <= n)
  BY <1>3 DEF T
<1>5. W[path[n]] \in Nat /\ W[G[path[n]]] \in Nat
  BY <1>4
<1>6. G[path[n]] = path[n] \/ W[G[path[n]]] < W[path[n]]
  BY <1>4
<1>7. G[path[n]] = path[n]
  BY <1>4, <1>5, <1>6
<1> QED
  BY <1>4, <1>7

\* Where insert and deleteNode stop looking for d.
LEMMA FoundFacts ==
  ASSUME NEW lo, NEW hi, Ordered(node, root, lo, hi), root # Null, NEW d \in Numbers,
         NEW x, x = Tree!Found(d)
  PROVE  /\ x \in Standing(node) /\ lo[x] < d /\ d < hi[x]
         /\ \/ node[x].data = d
            \/ IF d < node[x].data THEN node[x].left = Null ELSE node[x].right = Null
<1> DEFINE S == {y \in Standing(node) : lo[y] < d /\ d < hi[y]}
           Below(y) == IF d < node[y].data THEN node[y].left ELSE node[y].right
           Onward(y) == IF node[y].data = d \/ Below(y) = Null THEN y ELSE Below(y)
           G == [y \in S |-> Onward(y)]
           W == [y \in S |-> Cardinality(Sub(node, lo, hi, y))]
           Rule(at) == at = [i \in 0 .. MaxN |-> IF i = 0 THEN root ELSE Onward(at[i - 1])]
           path == CHOOSE at : Rule(at)
<1>1. MaxN \in Nat /\ d \in Int /\ Low < d /\ d < High
  BY TreeBasics
<1>2. ASSUME NEW y \in S
      PROVE  /\ Onward(y) \in S /\ Cardinality(Sub(node, lo, hi, y)) \in 1 .. MaxN
             /\ \/ Onward(y) = y
                \/ Cardinality(Sub(node, lo, hi, Onward(y))) < Cardinality(Sub(node, lo, hi, y))
  <2>1. /\ node[y].data \in Int /\ Null \notin Standing(node)
        /\ node[y].left # Null => /\ node[y].left \in Standing(node) /\ lo[node[y].left] = lo[y]
                                  /\ hi[node[y].left] = node[y].data
        /\ node[y].right # Null => /\ node[y].right \in Standing(node)
                                   /\ lo[node[y].right] = node[y].data
                                   /\ hi[node[y].right] = hi[y]
    BY OrderedFacts
  <2>2. /\ Cardinality(Sub(node, lo, hi, y)) \in 1 .. MaxN
        /\ node[y].left # Null =>
             Cardinality(Sub(node, lo, hi, node[y].left)) < Cardinality(Sub(node, lo, hi, y))
        /\ node[y].right # Null =>
             Cardinality(Sub(node, lo, hi, node[y].right)) < Cardinality(Sub(node, lo, hi, y))
    BY SubFacts
  <2>3. CASE Onward(y) = y
    BY <2>2, <2>3
  <2>4. CASE Onward(y) # y /\ d < node[y].data
    BY <2>1, <2>2, <2>4
  <2>5. CASE Onward(y) # y /\ ~(d < node[y].data)
    <3>1. node[y].data # d /\ node[y].right # Null /\ Onward(y) = node[y].right
      BY <2>5
    <3>2. node[y].data < d
      BY <1>1, <2>1, <2>5, <3>1
    <3> QED
      BY <2>1, <2>2, <3>1, <3>2
  <2> QED
    BY <2>3, <2>4, <2>5
<1>3. root \in S
  BY <1>1, OrderedFacts
<1>4. G \in [S -> S] /\ \A y \in S : G[y] = Onward(y)
  BY <1>2
<1>5. W \in [S -> Nat] /\ W[root] <= MaxN /\ \A y \in S : G[y] = y \/ W[G[y]] < W[y]
  <2>1. \A y \in S : W[y] \in Nat /\ W[y] <= MaxN /\ W[y] = Cardinality(Sub(node, lo, hi, y))
    BY <1>1, <1>2
  <2> QED
    BY <1>2, <1>3, <1>4, <2>1
<1> HIDE DEF G, W
<1>6. Rule(path)
  <2> HIDE DEF S
  <2>1. PICK f \in [0 .. MaxN -> S] : Steps(root, G, MaxN, f)
    BY <1>1, <1>3, <1>4, StepsExist
  <2>2. ASSUME NEW i \in 0 .. MaxN
        PROVE  f[i] = IF i = 0 THEN root ELSE Onward(f[i - 1])
    <3>1. CASE i = 0
      BY <2>1, <3>1 DEF Steps
    <3>2. CASE i # 0
      <4>1. i - 1 \in 0 .. MaxN - 1 /\ (i - 1) + 1 = i /\ i - 1 \in 0 .. MaxN
        BY <1>1, <3>2
      <4>2. f[(i - 1) + 1] = G[f[i - 1]] /\ f[i - 1] \in S
        BY <2>1, <4>1 DEF Steps
      <4> HIDE DEF Onward
      <4> QED
        BY <1>4, <3>2, <4>1, <4>2
    <3> QED
      BY <3>1, <3>2
  <2>3. Rule(f)
    BY <2>2
  <2> HIDE DEF Rule
  <2> QED
    BY <2>3
<1>7. x = path[MaxN]
  BY DEF Tree!Found
<1> HIDE DEF path
<1>8. path[0] = root /\ \A i \in 1 .. MaxN : path[i] = Onward(path[i - 1])
  <2>1. path[0] = root
    BY <1>1, <1>6
  <2>2. ASSUME NEW i \in 1 .. MaxN PROVE path[i] = Onward(path[i - 1])
    <3>1. i \in 0 .. MaxN /\ i # 0
      BY <1>1
    <3> HIDE DEF Onward
    <3> QED
      BY <1>6, <3>1
  <2> QED
    BY <2>1, <2>2
<1>9. path[MaxN] \in S /\ G[path[MaxN]] = path[MaxN]
  <2> HIDE DEF S, Onward
  <2>1. \A i \in 1 .. MaxN : path[i - 1] \in S => path[i] = G[path[i - 1]]
    BY <1>4, <1>8
  <2> QED
    BY ONLY <1>1, <1>3, <1>4, <1>5, <1>8, <2>1, Settles, SMTT(20)
<1>10. x \in S /\ Onward(x) = x
  BY <1>4, <1>7, <1>9
<1>11. Below(x) # Null => Below(x) # x
  <2>1. /\ node[x].data \in Int
        /\ lo[x] < node[x].data /\ node[x].data < hi[x] /\ lo[x] \in Int /\ hi[x] \in Int
        /\ node[x].left # Null => hi[node[x].left] = node[x].data
        /\ node[x].right # Null => lo[node[x].right] = node[x].data
    BY <1>10, OrderedFacts
  <2> QED
    BY <2>1
<1> QED
  BY <1>10, <1>11

\* The end of the rightmost branch below x.
LEMMA RightmostFacts ==
  ASSUME NEW lo, NEW hi, Ordered(node, root, lo, hi), NEW x \in Standing(node),
         NEW q, q = Tree!Rightmost(x)
  PROVE  q \in Standing(node) /\ node[q].right = Null /\ hi[q] = hi[x]
<1> DEFINE S == {y \in Standing(node) : hi[y] = hi[x]}
           Onward(y) == IF node[y].right = Null THEN y ELSE node[y].right
           G == [y \in S |-> Onward(y)]
           W == [y \in S |-> Cardinality(Sub(node, lo, hi, y))]
           Rule(at) == at = [i \in 0 .. MaxN |-> IF i = 0 THEN x ELSE Onward(at[i - 1])]
           path == CHOOSE at : Rule(at)
<1>1. MaxN \in Nat
  BY TreeBasics
<1>2. ASSUME NEW y \in S
      PROVE  /\ Onward(y) \in S /\ Cardinality(Sub(node, lo, hi, y)) \in 1 .. MaxN
             /\ \/ Onward(y) = y
                \/ Cardinality(Sub(node, lo, hi, Onward(y))) < Cardinality(Sub(node, lo, hi, y))
  <2>1. node[y].right # Null => /\ node[y].right \in Standing(node)
                                /\ hi[node[y].right] = hi[y]
    BY OrderedFacts
  <2>2. /\ Cardinality(Sub(node, lo, hi, y)) \in 1 .. MaxN
        /\ node[y].right # Null =>
             Cardinality(Sub(node, lo, hi, node[y].right)) < Cardinality(Sub(node, lo, hi, y))
    BY SubFacts
  <2> QED
    BY <2>1, <2>2
<1>3. x \in S
  OBVIOUS
<1>4. G \in [S -> S] /\ \A y \in S : G[y] = Onward(y)
  BY <1>2
<1>5. W \in [S -> Nat] /\ W[x] <= MaxN /\ \A y \in S : G[y] = y \/ W[G[y]] < W[y]
  <2>1. \A y \in S : W[y] \in Nat /\ W[y] <= MaxN /\ W[y] = Cardinality(Sub(node, lo, hi, y))
    BY <1>1, <1>2
  <2> QED
    BY <1>2, <1>3, <1>4, <2>1
<1> HIDE DEF G, W
<1>6. Rule(path)
  <2> HIDE DEF S
  <2>1. PICK f \in [0 .. MaxN -> S] : Steps(x, G, MaxN, f)
    BY <1>1, <1>3, <1>4, StepsExist
  <2>2. ASSUME NEW i \in 0 .. MaxN
        PROVE  f[i] = IF i = 0 THEN x ELSE Onward(f[i - 1])
    <3>1. CASE i = 0
      BY <2>1, <3>1 DEF Steps
    <3>2. CASE i # 0
      <4>1. i - 1 \in 0 .. MaxN - 1 /\ (i - 1) + 1 = i /\ i - 1 \in 0 .. MaxN
        BY <1>1, <3>2
      <4>2. f[(i - 1) + 1] = G[f[i - 1]] /\ f[i - 1] \in S
        BY <2>1, <4>1 DEF Steps
      <4> HIDE DEF Onward
      <4> QED
        BY <1>4, <3>2, <4>1, <4>2
    <3> QED
      BY <3>1, <3>2
  <2>3. Rule(f)
    BY <2>2
  <2> HIDE DEF Rule
  <2> QED
    BY <2>3
<1>7. q = path[MaxN]
  BY DEF Tree!Rightmost
<1> HIDE DEF path
<1>8. path[0] = x /\ \A i \in 1 .. MaxN : path[i] = Onward(path[i - 1])
  <2>1. path[0] = x
    BY <1>1, <1>6
  <2>2. ASSUME NEW i \in 1 .. MaxN PROVE path[i] = Onward(path[i - 1])
    <3>1. i \in 0 .. MaxN /\ i # 0
      BY <1>1
    <3> HIDE DEF Onward
    <3> QED
      BY <1>6, <3>1
  <2> QED
    BY <2>1, <2>2
<1>9. path[MaxN] \in S /\ G[path[MaxN]] = path[MaxN]
  <2> HIDE DEF S, Onward
  <2>1. \A i \in 1 .. MaxN : path[i - 1] \in S => path[i] = G[path[i - 1]]
    BY <1>4, <1>8
  <2> QED
    BY ONLY <1>1, <1>3, <1>4, <1>5, <1>8, <2>1, Settles, SMTT(20)
<1>10. q \in S /\ Onward(q) = q
  BY <1>4, <1>7, <1>9
<1>11. node[q].right # Null => node[q].right # q
  <2>1. /\ node[q].data \in Int /\ lo[q] < node[q].data /\ lo[q] \in Int
        /\ node[q].right # Null => lo[node[q].right] = node[q].data
    BY <1>10, OrderedFacts
  <2> QED
    BY <2>1
<1> QED
  BY <1>10, <1>11


---------------------------------------------------------------------------
(* What a walk lists                                                       *)

Often(s, d) == Cardinality({i \in DOMAIN s : s[i] = d})

Sorted(s) == \A i, j \in DOMAIN s : i <= j => s[i] <= s[j]

LEMMA TimesIs ==
  ASSUME NEW s, NEW d
  PROVE  Tree!Times(s, d) = Often(s, d)
BY DEF Tree!Times, Often, Cardinality, Tree!Cardinality, IsFiniteSet, Tree!IsFiniteSet

LEMMA OftenType ==
  ASSUME NEW s \in Seq(Int), NEW d
  PROVE  /\ Often(s, d) \in Nat /\ IsFiniteSet({i \in DOMAIN s : s[i] = d})
         /\ Often(s, d) = 0 <=> \A i \in DOMAIN s : s[i] # d
<1> DEFINE I == {i \in DOMAIN s : s[i] = d}
<1>1. DOMAIN s = 1 .. Len(s) /\ Len(s) \in Nat
  BY LenProperties
<1>2. IsFiniteSet(I)
  <2>1. IsFiniteSet(1 .. Len(s))
    BY <1>1, FS_Interval
  <2>2. I \in SUBSET (1 .. Len(s))
    BY <1>1
  <2> QED
    BY <2>1, <2>2, FS_Subset
<1>3. Cardinality(I) \in Nat
  BY <1>2, FS_CardinalityType
<1>4. Cardinality(I) = 0 <=> I = {}
  BY <1>2, FS_EmptySet
<1>5. I = {} <=> \A i \in DOMAIN s : s[i] # d
  OBVIOUS
<1> QED
  BY <1>2, <1>3, <1>4, <1>5 DEF Often

Copies(n, v) == [j \in 1 .. n |-> v]

LEMMA OftenCopies ==
  ASSUME NEW n \in Nat, NEW v \in Int
  PROVE  /\ Copies(n, v) \in Seq(Int) /\ Len(Copies(n, v)) = n /\ Sorted(Copies(n, v))
         /\ \A i \in 1 .. n : Copies(n, v)[i] = v
         /\ \A d : Often(Copies(n, v), d) = IF d = v THEN n ELSE 0
<1> DEFINE s == Copies(n, v)
<1>1. s \in Seq(Int) /\ Len(s) = n /\ DOMAIN s = 1 .. n /\ \A i \in 1 .. n : s[i] = v
  BY DEF Copies
<1> HIDE DEF s
<1>2. Often(s, v) = n
  <2>1. {i \in DOMAIN s : s[i] = v} = 1 .. n
    BY <1>1
  <2>2. Cardinality(1 .. n) = IF 1 > n THEN 0 ELSE n - 1 + 1
    BY FS_Interval
  <2>3. Cardinality(1 .. n) = n
    BY <2>2
  <2> QED
    BY <2>1, <2>3 DEF Often
<1>3. ASSUME NEW d, d # v PROVE Often(s, d) = 0
  BY <1>1, <1>3, OftenType
<1> QED
  BY <1>1, <1>2, <1>3 DEF Sorted, s

LEMMA OftenConcat ==
  ASSUME NEW s \in Seq(Int), NEW t \in Seq(Int), NEW d
  PROVE  Often(s \o t, d) = Often(s, d) + Often(t, d)
<1> DEFINE n == Len(s)
           m == Len(t)
           I == {i \in DOMAIN s : s[i] = d}
           J == {i \in DOMAIN t : t[i] = d}
           K == {i \in DOMAIN (s \o t) : (s \o t)[i] = d}
           H == {i \in K : n < i}
           f == [j \in J |-> n + j]
<1>1. /\ n \in Nat /\ m \in Nat /\ DOMAIN s = 1 .. n /\ DOMAIN t = 1 .. m
      /\ DOMAIN (s \o t) = 1 .. n + m
      /\ \A i \in 1 .. n + m : (s \o t)[i] = IF i <= n THEN s[i] ELSE t[i - n]
  BY LenProperties, ConcatProperties
<1>2. IsFiniteSet(I) /\ IsFiniteSet(J) /\ Often(s, d) = Cardinality(I) /\ Often(t, d) = Cardinality(J)
  BY OftenType DEF Often
<1>3. K = I \cup H /\ I \cap H = {}
  <2>1. \A i \in I : i \in 1 .. n + m /\ i <= n /\ ~(n < i)
    BY <1>1
  <2>2. \A i \in K : i \in Int /\ (n < i \/ (i <= n /\ i \in 1 .. n))
    BY <1>1
  <2> QED
    BY <1>1, <2>1, <2>2
<1>4. Cardinality(H) = Cardinality(J) /\ IsFiniteSet(H)
  <2>1. f \in [J -> H]
    <3>1. ASSUME NEW j \in J PROVE n + j \in H
      <4>1. j \in 1 .. m /\ t[j] = d
        BY <1>1
      <4>2. n + j \in 1 .. n + m /\ ~(n + j <= n) /\ n < n + j /\ (n + j) - n = j
        BY <1>1, <4>1
      <4> QED
        BY <1>1, <4>1, <4>2
    <3> QED
      BY <3>1
  <2>2. \A i, j \in J : f[i] = f[j] => i = j
    <3>1. \A i \in J : i \in Int /\ f[i] = n + i
      BY <1>1
    <3> QED
      BY <1>1, <3>1
  <2>3. \A i \in H : \E j \in J : f[j] = i
    <3>1. ASSUME NEW i \in H PROVE i - n \in J /\ n + (i - n) = i
      <4>1. i \in 1 .. n + m /\ n < i /\ (s \o t)[i] = d
        BY <1>1
      <4>2. i - n \in 1 .. m /\ ~(i <= n)
        BY <1>1, <4>1
      <4> QED
        BY <1>1, <4>1, <4>2
    <3> QED
      BY <3>1
  <2>4. ExistsBijection(J, H)
    <3> HIDE DEF f, J, H
    <3> QED
      BY <2>1, <2>2, <2>3 DEF ExistsBijection, Bijection, Injection, Surjection, IsInjective
  <2> HIDE DEF J, H
  <2> QED
    BY <1>2, <2>4, FS_Bijection
<1>5. Cardinality(K) = Cardinality(I) + Cardinality(H) - Cardinality(I \cap H)
  <2> HIDE DEF I, H
  <2> QED
    BY <1>2, <1>3, <1>4, FS_Union
<1>6. Cardinality(I \cap H) = 0
  <2>1. Cardinality({}) = 0
    BY FS_EmptySet
  <2> HIDE DEF I, H
  <2> QED
    BY <1>3, <2>1
<1>7. Cardinality(I) \in Nat /\ Cardinality(J) \in Nat
  BY <1>2, OftenType
<1>8. Often(s \o t, d) = Cardinality(K)
  BY DEF Often
<1> HIDE DEF I, J, H, K
<1> QED
  BY <1>2, <1>4, <1>5, <1>6, <1>7, <1>8

LEMMA SortedConcat ==
  ASSUME NEW s \in Seq(Int), NEW t \in Seq(Int), Sorted(s), Sorted(t),
         \A i \in DOMAIN s : \A j \in DOMAIN t : s[i] <= t[j]
  PROVE  Sorted(s \o t)
<1> DEFINE n == Len(s)
           m == Len(t)
<1>1. /\ n \in Nat /\ m \in Nat /\ DOMAIN s = 1 .. n /\ DOMAIN t = 1 .. m
      /\ DOMAIN (s \o t) = 1 .. n + m
      /\ \A i \in 1 .. n + m : (s \o t)[i] = IF i <= n THEN s[i] ELSE t[i - n]
  BY LenProperties, ConcatProperties
<1>2. ASSUME NEW i \in 1 .. n + m, NEW j \in 1 .. n + m, i <= j
      PROVE  (s \o t)[i] <= (s \o t)[j]
  <2>1. CASE j <= n
    <3>1. i \in 1 .. n /\ j \in 1 .. n /\ i <= n
      BY <1>1, <1>2, <2>1
    <3> QED
      BY <1>1, <1>2, <2>1, <3>1 DEF Sorted
  <2>2. CASE i <= n /\ ~(j <= n)
    <3>1. i \in 1 .. n /\ j - n \in 1 .. m
      BY <1>1, <2>2
    <3> QED
      BY <1>1, <2>2, <3>1
  <2>3. CASE ~(i <= n)
    <3>1. ~(j <= n) /\ i - n \in 1 .. m /\ j - n \in 1 .. m /\ i - n <= j - n
      BY <1>1, <1>2, <2>3
    <3> QED
      BY <1>1, <2>3, <3>1 DEF Sorted
  <2> QED
    BY <2>1, <2>2, <2>3
<1> QED
  BY <1>1, <1>2 DEF Sorted

\* w lists the numbers of the nodes U of t, each as often as its count says.
Lists(t, w, U) ==
  /\ w \in Seq(Int) /\ Sorted(w)
  /\ \A j \in DOMAIN w : \E y \in U : w[j] = t[y].data
  /\ \A y \in U : Often(w, t[y].data) = t[y].count

LEMMA ListsJoin ==
  ASSUME NEW t, NEW x, NEW L, NEW R, NEW u, NEW v, NEW s, NEW U, NEW w,
         t[x].data \in Int, t[x].count \in Nat,
         \A y \in L : t[y].data \in Int /\ t[y].data < t[x].data,
         \A y \in R : t[y].data \in Int /\ t[x].data < t[y].data,
         Lists(t, u, L), Lists(t, v, R), s = Copies(t[x].count, t[x].data),
         U = L \cup {x} \cup R, w = (u \o s) \o v
  PROVE  Lists(t, w, U)
<1> DEFINE k == t[x].data
           n == t[x].count
<1>1. u \in Seq(Int) /\ v \in Seq(Int) /\ Sorted(u) /\ Sorted(v)
  BY DEF Lists
<1>2. /\ \A i \in DOMAIN u : \E y \in L : u[i] = t[y].data
      /\ \A i \in DOMAIN v : \E y \in R : v[i] = t[y].data
      /\ \A y \in L : Often(u, t[y].data) = t[y].count
      /\ \A y \in R : Often(v, t[y].data) = t[y].count
  BY DEF Lists
<1> HIDE DEF Lists
<1>0. n \in Nat /\ k \in Int /\ s = Copies(n, k)
  OBVIOUS
<1>3. /\ s \in Seq(Int) /\ Len(s) = n /\ Sorted(s) /\ \A i \in 1 .. n : s[i] = k
      /\ \A d : Often(s, d) = IF d = k THEN n ELSE 0
  <2> HIDE DEF k, n
  <2>1. n \in Nat /\ k \in Int
    BY <1>0
  <2>2. /\ Copies(n, k) \in Seq(Int) /\ Len(Copies(n, k)) = n /\ Sorted(Copies(n, k))
        /\ \A i \in 1 .. n : Copies(n, k)[i] = k
        /\ \A d : Often(Copies(n, k), d) = IF d = k THEN n ELSE 0
    BY ONLY <2>1, OftenCopies
  <2> QED
    BY <1>0, <2>2
<1> HIDE DEF k, n
<1>4. DOMAIN s = 1 .. n
  BY <1>3, LenProperties
<1>5. /\ \A i \in DOMAIN u : u[i] \in Int /\ u[i] < k
      /\ \A i \in DOMAIN v : v[i] \in Int /\ k < v[i]
  BY <1>2 DEF k
<1>6. k \in Int
  BY DEF k
<1>7. u \o s \in Seq(Int) /\ Sorted(u \o s) /\ w \in Seq(Int)
  <2>1. ASSUME NEW i \in DOMAIN u, NEW j \in DOMAIN s PROVE u[i] <= s[j]
    <3>1. s[j] = k /\ u[i] \in Int /\ u[i] < k
      BY <1>3, <1>4, <1>5
    <3> QED
      BY <1>6, <3>1
  <2>2. Sorted(u \o s)
    BY <1>1, <1>3, <2>1, SortedConcat
  <2> QED
    BY <1>1, <1>3, <2>2, ConcatProperties
<1>8. \A i \in DOMAIN (u \o s) : (\E j \in DOMAIN u : (u \o s)[i] = u[j]) \/ (u \o s)[i] = k
  <2>1. /\ Len(u) \in Nat /\ Len(s) \in Nat /\ DOMAIN u = 1 .. Len(u) /\ n = Len(s)
        /\ DOMAIN (u \o s) = 1 .. Len(u) + Len(s)
        /\ \A i \in 1 .. Len(u) + Len(s) : (u \o s)[i] = IF i <= Len(u) THEN u[i] ELSE s[i - Len(u)]
    BY <1>1, <1>3, LenProperties, ConcatProperties
  <2>2. ASSUME NEW i \in DOMAIN (u \o s), i <= Len(u) PROVE (u \o s)[i] = u[i] /\ i \in DOMAIN u
    BY <2>1, <2>2
  <2>3. ASSUME NEW i \in DOMAIN (u \o s), ~(i <= Len(u)) PROVE (u \o s)[i] = k
    <3>1. i - Len(u) \in 1 .. n
      BY <2>1, <2>3
    <3> QED
      BY <1>3, <2>1, <2>3, <3>1
  <2> QED
    BY <2>2, <2>3
<1>9. Sorted(w)
  <2>1. ASSUME NEW i \in DOMAIN (u \o s), NEW j \in DOMAIN v PROVE (u \o s)[i] <= v[j]
    <3>1. (u \o s)[i] \in Int /\ (u \o s)[i] <= k
      <4>1. CASE (u \o s)[i] = k
        BY <1>6, <4>1
      <4>2. CASE (u \o s)[i] # k
        <5>1. PICK c \in DOMAIN u : (u \o s)[i] = u[c]
          BY <1>8, <4>2
        <5>2. (u \o s)[i] \in Int /\ (u \o s)[i] < k
          <6>1. u[c] \in Int /\ u[c] < k
            BY <1>5
          <6> QED
            BY ONLY <5>1, <6>1
        <5> QED
          BY <1>6, <5>2
      <4> QED
        BY <4>1, <4>2
    <3>2. v[j] \in Int /\ k < v[j]
      BY <1>5
    <3> QED
      BY <1>6, <3>1, <3>2
  <2> QED
    BY <1>1, <1>7, <2>1, SortedConcat
<1>10. \A j \in DOMAIN w : \E y \in U : w[j] = t[y].data
  <2> DEFINE a == u \o s
  <2>1. /\ Len(a) \in Nat /\ Len(v) \in Nat /\ DOMAIN a = 1 .. Len(a) /\ DOMAIN v = 1 .. Len(v)
        /\ DOMAIN w = 1 .. Len(a) + Len(v)
        /\ \A i \in 1 .. Len(a) + Len(v) : w[i] = IF i <= Len(a) THEN a[i] ELSE v[i - Len(a)]
    BY <1>1, <1>7, LenProperties, ConcatProperties
  <2>2. ASSUME NEW i \in DOMAIN a PROVE \E y \in U : a[i] = t[y].data
    <3>1. CASE a[i] = k
      BY <3>1 DEF k
    <3>2. CASE a[i] # k
      <4>1. PICK c \in DOMAIN u : a[i] = u[c]
        BY <1>8, <3>2
      <4>2. PICK y \in L : u[c] = t[y].data
        BY <1>2
      <4> QED
        BY <4>1, <4>2
    <3> QED
      BY <3>1, <3>2
  <2> HIDE DEF a
  <2>3. ASSUME NEW i \in DOMAIN w, i <= Len(a) PROVE \E y \in U : w[i] = t[y].data
    <3>1. i \in 1 .. Len(a) /\ w[i] = a[i]
      BY ONLY <2>1, <2>3
    <3> QED
      BY <2>1, <2>2, <3>1
  <2>4. ASSUME NEW i \in DOMAIN w, ~(i <= Len(a)) PROVE \E y \in U : w[i] = t[y].data
    <3>1. i - Len(a) \in 1 .. Len(v) /\ w[i] = v[i - Len(a)]
      BY ONLY <2>1, <2>4
    <3>2. PICK y \in R : v[i - Len(a)] = t[y].data
      BY <1>2, <2>1, <3>1
    <3> QED
      BY <3>1, <3>2
  <2> QED
    BY <2>3, <2>4
<1>11. ASSUME NEW y \in U PROVE Often(w, t[y].data) = t[y].count
  <2> DEFINE d == t[y].data
  <2>1. Often(w, d) = Often(u, d) + Often(s, d) + Often(v, d)
    <3>1. Often(u \o s, d) = Often(u, d) + Often(s, d)
      BY <1>1, <1>3, OftenConcat
    <3>2. Often(w, d) = Often(u \o s, d) + Often(v, d)
      <4>1. PICK a \in Seq(Int) : a = u \o s
        BY <1>7
      <4>2. Often(a \o v, d) = Often(a, d) + Often(v, d)
        BY ONLY <1>1, OftenConcat
      <4>3. w = a \o v
        BY <4>1
      <4> QED
        BY <4>1, <4>2, <4>3
    <3> QED
      BY <3>1, <3>2
  <2>2. Often(u, d) \in Nat /\ Often(v, d) \in Nat /\ n \in Nat /\ t[x].count = n
    BY <1>1, OftenType DEF n
  <2>3. CASE y = x
    <3>1. Often(u, d) = 0 /\ Often(v, d) = 0
      <4>1. (\A i \in DOMAIN u : u[i] # k) /\ (\A i \in DOMAIN v : v[i] # k)
        BY <1>5, <1>6
      <4> QED
        BY <1>1, <2>3, <4>1, OftenType DEF k
    <3>2. Often(s, d) = n
      BY <1>3, <2>3 DEF k
    <3> QED
      BY <2>1, <2>2, <2>3, <3>1, <3>2
  <2>4. CASE y \in L
    <3>1. d \in Int /\ d < k
      BY <2>4 DEF k
    <3>2. Often(v, d) = 0
      <4>1. \A i \in DOMAIN v : v[i] # d
        BY <1>5, <1>6, <3>1
      <4> QED
        BY <1>1, <4>1, OftenType
    <3>3. Often(s, d) = 0
      <4>1. d # k
        BY <1>6, <3>1
      <4> HIDE DEF d
      <4> QED
        BY <1>3, <4>1
    <3>4. Often(u, d) = t[y].count
      BY <1>2, <2>4
    <3> HIDE DEF d
    <3> QED
      BY <2>1, <2>2, <3>2, <3>3, <3>4 DEF d
  <2>5. CASE y \in R
    <3>1. d \in Int /\ k < d
      BY <2>5 DEF k
    <3>2. Often(u, d) = 0
      <4>1. \A i \in DOMAIN u : u[i] # d
        BY <1>5, <1>6, <3>1
      <4> QED
        BY <1>1, <4>1, OftenType
    <3>3. Often(s, d) = 0
      <4>1. d # k
        BY <1>6, <3>1
      <4> HIDE DEF d
      <4> QED
        BY <1>3, <4>1
    <3>4. Often(v, d) = t[y].count
      BY <1>2, <2>5
    <3> HIDE DEF d
    <3> QED
      BY <2>1, <2>2, <3>2, <3>3, <3>4 DEF d
  <2> QED
    BY <2>3, <2>4, <2>5
<1> QED
  BY <1>7, <1>9, <1>10, <1>11 DEF Lists

\* A walk of a tree lists its nodes' numbers.
LEMMA WalkFacts ==
  ASSUME NEW t, NEW top, NEW lo, NEW hi, Ordered(t, top, lo, hi)
  PROVE  Lists(t, Tree!InOrder(t, top), Standing(t))
<1> DEFINE X == {c \in Tree!Addresses : t[c] # Null} \cup {Null}
           Own(x) == [j \in 1 .. t[x].count |-> t[x].data]
           Both(w, x) == w[t[x].left] \o Own(x) \o w[t[x].right]
           Rule(f) == f = [i \in 0 .. MaxN |->
                             [x \in X |-> IF i = 0 \/ x = Null THEN <<>> ELSE Both(f[i - 1], x)]]
           walk == CHOOSE f : Rule(f)
           S == [X -> Seq(Int)]
           start == [x \in X |-> <<>>]
           Onward(w) == [x \in X |-> IF x = Null THEN <<>> ELSE Both(w, x)]
           G == [w \in S |-> Onward(w)]
<1>1. MaxN \in Nat /\ X = Standing(t) \cup {Null}
  BY TreeBasics DEF Standing
<1>2. ASSUME NEW x \in X, x # Null
      PROVE  /\ t[x].left \in X /\ t[x].right \in X /\ x \in Standing(t)
             /\ t[x].data \in Int /\ t[x].count \in Nat /\ Own(x) \in Seq(Int)
  <2>1. x \in Standing(t)
    BY <1>1, <1>2
  <2>2. /\ t[x].data \in Int /\ t[x].count \in Nat
        /\ t[x].left = Null \/ t[x].left \in Standing(t)
        /\ t[x].right = Null \/ t[x].right \in Standing(t)
    BY <2>1, OrderedFacts
  <2>3. Own(x) \in Seq(Int)
    BY <2>2
  <2> QED
    BY <1>1, <2>1, <2>2, <2>3
<1> HIDE DEF X, Own
<1>3. G \in [S -> S] /\ start \in S
  <2>1. ASSUME NEW w \in S PROVE Onward(w) \in S
    <3>1. ASSUME NEW x \in X, x # Null PROVE Both(w, x) \in Seq(Int)
      <4>1. w[t[x].left] \in Seq(Int) /\ w[t[x].right] \in Seq(Int) /\ Own(x) \in Seq(Int)
        BY <1>2, <3>1
      <4>2. w[t[x].left] \o Own(x) \in Seq(Int)
        BY <4>1, ConcatProperties
      <4> QED
        BY <4>1, <4>2, ConcatProperties
    <3>2. <<>> \in Seq(Int)
      OBVIOUS
    <3> HIDE DEF Both
    <3> QED
      BY <3>1, <3>2
  <2> QED
    BY <2>1
<1> HIDE DEF Both
<1>4. Rule(walk)
  <2>1. PICK f \in [0 .. MaxN -> S] : Steps(start, G, MaxN, f)
    <3> HIDE DEF S, G, start
    <3> QED
      BY <1>1, <1>3, StepsExist
  <2>2. ASSUME NEW i \in 0 .. MaxN
        PROVE  f[i] = [x \in X |-> IF i = 0 \/ x = Null THEN <<>> ELSE Both(f[i - 1], x)]
    <3>1. CASE i = 0
      BY <2>1, <3>1 DEF Steps
    <3>2. CASE i # 0
      <4>1. i - 1 \in 0 .. MaxN - 1 /\ (i - 1) + 1 = i /\ i - 1 \in 0 .. MaxN
        BY <1>1, <3>2
      <4>2. f[(i - 1) + 1] = G[f[i - 1]] /\ f[i - 1] \in S
        BY <2>1, <4>1 DEF Steps
      <4>3. f[i] = Onward(f[i - 1])
        BY <4>1, <4>2
      <4> QED
        BY <3>2, <4>3
    <3> QED
      BY <3>1, <3>2
  <2>3. Rule(f)
    BY <2>2
  <2> HIDE DEF Rule
  <2> QED
    BY <2>3
<1>5. Tree!InOrder(t, top) = walk[MaxN][top]
  BY DEF Tree!InOrder, X, Own, Both
<1> HIDE DEF walk
<1>6. /\ \A i \in 0 .. MaxN : walk[i][Null] = <<>>
      /\ \A i \in 0 .. MaxN : \A x \in X :
           i # 0 /\ x # Null => walk[i][x] = Both(walk[i - 1], x)
  <2>1. Null \in X
    BY <1>1
  <2>2. ASSUME NEW i \in 0 .. MaxN
        PROVE  walk[i] = [x \in X |-> IF i = 0 \/ x = Null THEN <<>> ELSE Both(walk[i - 1], x)]
    BY <1>4
  <2> QED
    BY <2>1, <2>2
<1> DEFINE Part(x) == Sub(t, lo, hi, x)
           T == {i \in Nat : i <= MaxN => \A x \in Standing(t) :
                                Cardinality(Part(x)) <= i => Lists(t, walk[i][x], Part(x))}
<1>7. Lists(t, <<>>, {})
  <2>1. <<>> \in Seq(Int) /\ DOMAIN <<>> = {}
    OBVIOUS
  <2> QED
    BY <2>1 DEF Lists, Sorted
<1>8. 0 \in T
  <2>1. \A x \in Standing(t) : Cardinality(Part(x)) \in 1 .. MaxN
    BY SubFacts
  <2> HIDE DEF Part
  <2>2. \A x \in Standing(t) : ~(Cardinality(Part(x)) <= 0)
    BY <1>1, <2>1
  <2> QED
    BY <2>2
<1>9. ASSUME NEW i \in Nat, i \in T PROVE i + 1 \in T
  <2> SUFFICES ASSUME i + 1 <= MaxN, NEW x \in Standing(t), Cardinality(Part(x)) <= i + 1
               PROVE  Lists(t, walk[i + 1][x], Part(x))
    OBVIOUS
  <2>1. /\ i \in 0 .. MaxN /\ i + 1 \in 0 .. MaxN /\ i + 1 # 0 /\ (i + 1) - 1 = i /\ i <= MaxN
    BY <1>1
  <2>2. x \in X /\ x # Null
    BY <1>1, OrderedFacts
  <2>3. walk[i + 1][x] = Both(walk[i], x)
    BY <1>6, <2>1, <2>2
  <2> DEFINE L == IF t[x].left = Null THEN {} ELSE Part(t[x].left)
             R == IF t[x].right = Null THEN {} ELSE Part(t[x].right)
  <2>4. /\ x \in Part(x) /\ Part(x) \subseteq Standing(t) /\ Cardinality(Part(x)) \in 1 .. MaxN
        /\ {y \in Part(x) : t[y].data < t[x].data} = L
        /\ {y \in Part(x) : t[x].data < t[y].data} = R
        /\ t[x].left # Null => Cardinality(Part(t[x].left)) < Cardinality(Part(x))
        /\ t[x].right # Null => Cardinality(Part(t[x].right)) < Cardinality(Part(x))
    BY SubFacts
  <2>5. /\ t[x].left # Null => t[x].left \in Standing(t)
        /\ t[x].right # Null => t[x].right \in Standing(t)
        /\ t[x].data \in Int /\ t[x].count \in Nat
        /\ \A y \in Standing(t) : t[y].data \in Int /\ (t[y].data = t[x].data => y = x)
    BY OrderedFacts
  <2>6. \A y \in Standing(t) : Cardinality(Part(y)) \in 1 .. MaxN
    BY SubFacts
  <2> HIDE DEF Part
  <2>7. Lists(t, walk[i][t[x].left], L)
    <3>1. CASE t[x].left = Null
      BY <1>6, <1>7, <2>1, <3>1
    <3>2. CASE t[x].left # Null
      <4>1. /\ Cardinality(Part(t[x].left)) < Cardinality(Part(x))
            /\ Cardinality(Part(t[x].left)) \in Int /\ Cardinality(Part(x)) \in Int
        BY <2>4, <2>5, <2>6, <3>2
      <4>2. Cardinality(Part(t[x].left)) <= i
        BY <4>1
      <4>3. Lists(t, walk[i][t[x].left], Part(t[x].left))
        BY <1>9, <2>1, <2>5, <3>2, <4>2
      <4> QED
        BY <3>2, <4>3
    <3> QED
      BY <3>1, <3>2
  <2>8. Lists(t, walk[i][t[x].right], R)
    <3>1. CASE t[x].right = Null
      BY <1>6, <1>7, <2>1, <3>1
    <3>2. CASE t[x].right # Null
      <4>1. /\ Cardinality(Part(t[x].right)) < Cardinality(Part(x))
            /\ Cardinality(Part(t[x].right)) \in Int /\ Cardinality(Part(x)) \in Int
        BY <2>4, <2>5, <2>6, <3>2
      <4>2. Cardinality(Part(t[x].right)) <= i
        BY <4>1
      <4>3. Lists(t, walk[i][t[x].right], Part(t[x].right))
        BY <1>9, <2>1, <2>5, <3>2, <4>2
      <4> QED
        BY <3>2, <4>3
    <3> QED
      BY <3>1, <3>2
  <2>9. Part(x) = L \cup {x} \cup R
    <3>1. \A y \in Part(x) : y = x \/ t[y].data < t[x].data \/ t[x].data < t[y].data
      BY <2>4, <2>5
    <3> QED
      BY <2>4, <3>1
  <2>10. /\ \A y \in L : t[y].data \in Int /\ t[y].data < t[x].data
         /\ \A y \in R : t[y].data \in Int /\ t[x].data < t[y].data
    BY <2>4, <2>5
  <2>11. walk[i + 1][x] = (walk[i][t[x].left] \o Own(x)) \o walk[i][t[x].right]
    BY <2>3 DEF Both
  <2>12. Own(x) = Copies(t[x].count, t[x].data)
    BY DEF Own, Copies
  <2> HIDE DEF L, R
  <2>13. /\ t[x].data \in Int /\ t[x].count \in Nat
    BY <2>5
  <2>14. PICK u, v, s, U, w :
           /\ u = walk[i][t[x].left] /\ v = walk[i][t[x].right] /\ s = Own(x)
           /\ U = Part(x) /\ w = walk[i + 1][x]
    OBVIOUS
  <2>15. /\ Lists(t, u, L) /\ Lists(t, v, R) /\ U = L \cup {x} \cup R
         /\ w = (u \o s) \o v /\ s = Copies(t[x].count, t[x].data)
    BY ONLY <2>7, <2>8, <2>9, <2>11, <2>12, <2>14
  <2>16. Lists(t, w, U)
    BY ONLY <2>10, <2>13, <2>15, ListsJoin
  <2> QED
    BY <2>14, <2>16
<1> HIDE DEF T, Part
<1>10. MaxN \in T
  BY <1>1, <1>8, <1>9, Induction
<1>11. CASE top = Null
  <2>1. Standing(t) = {}
    BY <1>11, OrderedFacts
  <2>2. walk[MaxN][top] = <<>>
    BY <1>1, <1>6, <1>11
  <2> QED
    BY <1>5, <1>7, <2>1, <2>2
<1>12. CASE top # Null
  <2>1. top \in Standing(t) /\ lo[top] = Low /\ hi[top] = High
    BY <1>12, OrderedFacts
  <2>2. \A c \in Standing(t) : Low < t[c].data /\ t[c].data < High
    <3>1. \A c \in Standing(t) : t[c].data \in Numbers
      BY OrderedFacts
    <3> QED
      BY <3>1, TreeBasics
  <2>3. Part(top) = Standing(t)
    BY <2>1, <2>2 DEF Part, Sub
  <2>4. Cardinality(Part(top)) \in 1 .. MaxN
    BY <2>1, SubFacts DEF Part
  <2>5. Cardinality(Part(top)) <= MaxN
    BY <1>1, <2>4
  <2>6. Lists(t, walk[MaxN][top], Part(top))
    BY <1>1, <1>10, <2>1, <2>5 DEF T
  <2> QED
    BY <1>5, <2>3, <2>6
<1> QED
  BY <1>11, <1>12

\* A search for d comes to the node that has it, if there is one.
LEMMA FoundIfThere ==
  ASSUME NEW lo, NEW hi, Ordered(node, root, lo, hi), root # Null, NEW d \in Numbers,
         NEW y \in Standing(node), node[y].data = d
  PROVE  Tree!Found(d) = y
<1> DEFINE x == Tree!Found(d)
<1>1. /\ x \in Standing(node) /\ lo[x] < d /\ d < hi[x]
      /\ \/ node[x].data = d
         \/ IF d < node[x].data THEN node[x].left = Null ELSE node[x].right = Null
  BY FoundFacts
<1> HIDE DEF x
<1>2. node[x].data \in Int /\ d \in Int
  BY <1>1, OrderedFacts, TreeBasics
<1>3. node[x].data = d
  <2>1. node[x].left = Null =>
          \A z \in Standing(node) : ~(lo[x] < node[z].data /\ node[z].data < node[x].data)
    BY <1>1, OrderedFacts
  <2>2. node[x].right = Null =>
          \A z \in Standing(node) : ~(node[x].data < node[z].data /\ node[z].data < hi[x])
    BY <1>1, OrderedFacts
  <2>3. d < node[x].data => ~(lo[x] < d)
    <3>1. d < node[x].data => node[x].left = Null
      BY <1>1, <1>2
    <3> QED
      BY <2>1, <3>1
  <2>4. node[x].data < d => ~(d < hi[x])
    <3>1. node[x].data < d => node[x].right = Null
      BY <1>1, <1>2
    <3> QED
      BY <2>2, <3>1
  <2> QED
    BY <1>1, <1>2, <2>3, <2>4
<1>4. x = y
  BY <1>1, <1>3, OrderedFacts
<1> QED
  BY <1>4 DEF x

\* A tree in which no node's number or child has changed is in the order it was in.
LEMMA OrderedSame ==
  ASSUME NEW t, NEW u, NEW top, NEW lo, NEW hi, Ordered(t, top, lo, hi),
         u \in [Tree!Addresses -> TreeNodes \cup {Null}], Standing(u) = Standing(t),
         \A y \in Standing(t) : /\ u[y].data = t[y].data /\ u[y].left = t[y].left
                                /\ u[y].right = t[y].right
  PROVE  Ordered(u, top, lo, hi)
<1>1. Keys(u) = Keys(t) /\ Lefts(u) = Lefts(t) /\ Rights(u) = Rights(t)
  BY DEF Keys, Lefts, Rights
<1> QED
  BY <1>1 DEF Ordered

\* One node alone is a tree.
LEMMA OrderedAlone ==
  ASSUME NEW t \in [Tree!Addresses -> TreeNodes \cup {Null}], NEW x, Standing(t) = {x},
         t[x].left = Null, t[x].right = Null
  PROVE  \E lo, hi : Ordered(t, x, lo, hi)
<1> DEFINE lo == [c \in {x} |-> Low]
           hi == [c \in {x} |-> High]
           k == Keys(t)
           l == Lefts(t)
           r == Rights(t)
<1>1. x \in Standing(t) /\ t[x] \in TreeNodes /\ t[x].data \in Numbers /\ x # Null
  <2>1. x \in Tree!Addresses /\ t[x] # Null
    BY DEF Standing
  <2>2. t[x] \in TreeNodes
    BY <2>1
  <2> QED
    BY <2>1, <2>2, TreeBasics DEF TreeNodes
<1>2. k[x] = t[x].data /\ l[x] = Null /\ r[x] = Null /\ lo[x] = Low /\ hi[x] = High
  BY <1>1 DEF Keys, Lefts, Rights
<1>3. k[x] \in Int /\ Low < k[x] /\ k[x] < High /\ Low \in Int /\ High \in Int
  BY <1>1, <1>2, TreeBasics
<1> HIDE DEF lo, hi, k, l, r
<1>4. Topmost({x}, x, lo, hi) /\ Spans({x}, k, lo, hi)
  BY <1>1, <1>2, <1>3 DEF Topmost, Spans
<1>5. Leftwards({x}, k, l, lo, hi) /\ Rightwards({x}, k, r, lo, hi)
  BY <1>2, <1>3 DEF Leftwards, Rightwards
<1>6. Nested({x}, k, lo, hi) /\ Above({x}, k, lo, hi)
  BY <1>2, <1>3 DEF Nested, Above
<1>7. Fits({x}, k, l, r, x, lo, hi)
  BY <1>4, <1>5, <1>6 DEF Fits
<1> QED
  BY <1>7 DEF Ordered, k, l, r

\* A new node p is hung at x, where a search for its number d ended.
Hung(t, x, d, p) ==
  IF d < t[x].data THEN [t EXCEPT ![x].left = p, ![p] = Tree!Leaf(d)]
  ELSE [t EXCEPT ![x].right = p, ![p] = Tree!Leaf(d)]

Bare(t, x, d) == IF d < t[x].data THEN t[x].left = Null ELSE t[x].right = Null

LEMMA OrderedHung ==
  ASSUME NEW t, NEW top, NEW lo, NEW hi, Ordered(t, top, lo, hi), NEW x \in Standing(t),
         NEW d \in Numbers, lo[x] < d, d < hi[x], d # t[x].data, Bare(t, x, d),
         NEW p \in Tree!Addresses, t[p] = Null, NEW u, u = Hung(t, x, d, p)
  PROVE  /\ \E a, b : Ordered(u, top, a, b)
         /\ Standing(u) = Standing(t) \cup {p} /\ p \notin Standing(t)
         /\ u[p].data = d /\ u[p].count = 1
         /\ \A y \in Standing(t) : u[y].data = t[y].data /\ u[y].count = t[y].count
<1>1. /\ t \in [Tree!Addresses -> TreeNodes \cup {Null}] /\ x \in Tree!Addresses /\ t[x] \in TreeNodes
      /\ x # p /\ p # Null /\ d \in Int /\ t[x].data \in Int
      /\ Fits(Standing(t), Keys(t), Lefts(t), Rights(t), top, lo, hi)
  BY OrderedFacts, TreeBasics DEF Ordered, Standing
<1>2. /\ Tree!Leaf(d) \in TreeNodes /\ Tree!Leaf(d) # Null /\ Tree!Leaf(d).data = d
      /\ Tree!Leaf(d).count = 1 /\ Tree!Leaf(d).left = Null /\ Tree!Leaf(d).right = Null
  BY TreeBasics DEF Tree!Leaf, Tree!Node, TreeNodes
<1> DEFINE v == IF d < t[x].data THEN [t[x] EXCEPT !.left = p] ELSE [t[x] EXCEPT !.right = p]
<1>3. u = [t EXCEPT ![x] = v, ![p] = Tree!Leaf(d)]
  BY DEF Hung
<1>4. /\ v \in TreeNodes /\ v # Null /\ v.data = t[x].data /\ v.count = t[x].count
      /\ v.left = (IF d < t[x].data THEN p ELSE t[x].left)
      /\ v.right = (IF d < t[x].data THEN t[x].right ELSE p)
  <2>1. v \in TreeNodes /\ v.data = t[x].data /\ v.count = t[x].count
    BY <1>1 DEF TreeNodes
  <2>2. /\ v.left = (IF d < t[x].data THEN p ELSE t[x].left)
        /\ v.right = (IF d < t[x].data THEN t[x].right ELSE p)
    BY <1>1 DEF TreeNodes
  <2> QED
    BY <2>1, <2>2, TreeBasics
<1> HIDE DEF v
<1>5. /\ u \in [Tree!Addresses -> TreeNodes \cup {Null}] /\ u[x] = v /\ u[p] = Tree!Leaf(d)
      /\ \A c \in Tree!Addresses : c # x /\ c # p => u[c] = t[c]
  BY <1>1, <1>2, <1>3, <1>4
<1>6. Standing(u) = Standing(t) \cup {p} /\ p \notin Standing(t)
  BY <1>1, <1>2, <1>4, <1>5 DEF Standing
<1>7. \A y \in Standing(t) : y \in Tree!Addresses /\ y # p
  BY <1>6 DEF Standing
<1>8. /\ u[p].data = d /\ u[p].count = 1
      /\ \A y \in Standing(t) : u[y].data = t[y].data /\ u[y].count = t[y].count
  BY <1>2, <1>4, <1>5, <1>7
<1> DEFINE N == Standing(t)
           M == Standing(u)
           k == Keys(t)
           l == Lefts(t)
           r == Rights(t)
           j == Keys(u)
           m == Lefts(u)
           s == Rights(u)
<1>9. /\ j[p] = d /\ m[p] = Null /\ s[p] = Null /\ k[x] = t[x].data
      /\ l[x] = t[x].left /\ r[x] = t[x].right
      /\ \A y \in N : /\ j[y] = k[y]
                      /\ m[y] = IF y = x /\ d < t[x].data THEN p ELSE l[y]
                      /\ s[y] = IF y = x /\ ~(d < t[x].data) THEN p ELSE r[y]
  BY <1>2, <1>4, <1>5, <1>6, <1>7 DEF Keys, Lefts, Rights
<1>10. Fits(N, k, l, r, top, lo, hi) /\ M = N \cup {p} /\ p \notin N
  BY <1>1, <1>6
<1> HIDE DEF N, M, k, l, r, j, m, s
<1>11. x \in N
  BY DEF N
<1>12. \E a, b : Fits(M, j, m, s, top, a, b)
  <2>1. CASE d < t[x].data
    <3>1. /\ l[x] = Null /\ d < k[x] /\ d \in Int /\ lo[x] < d /\ p # Null
          /\ \A y \in N : j[y] = k[y] /\ s[y] = r[y] /\ m[y] = IF y = x THEN p ELSE l[y]
      BY <1>1, <1>9, <2>1 DEF Bare
    <3> QED
      BY ONLY <1>9, <1>10, <1>11, <3>1, HangLeft, SMTT(20)
  <2>2. CASE ~(d < t[x].data)
    <3>1. /\ r[x] = Null /\ k[x] < d /\ d \in Int /\ d < hi[x] /\ p # Null
          /\ \A y \in N : j[y] = k[y] /\ m[y] = l[y] /\ s[y] = IF y = x THEN p ELSE r[y]
      BY <1>1, <1>9, <2>2 DEF Bare
    <3> QED
      BY ONLY <1>9, <1>10, <1>11, <3>1, HangRight, SMTT(20)
  <2> QED
    BY <2>1, <2>2
<1>13. \E a, b : Ordered(u, top, a, b)
  BY <1>5, <1>12 DEF Ordered, M, j, m, s
<1> QED
  BY <1>6, <1>8, <1>13

\* The tree without p, which deleteNode took off.
LEMMA OrderedWithout ==
  ASSUME NEW lo, NEW hi, Ordered(node, root, lo, hi), NEW p \in Standing(node),
         NEW u, u = Tree!Without(p)
  PROVE  /\ \E a, b : Ordered(u, Tree!Redirected(p, root), a, b)
         /\ Standing(u) = Standing(node) \ {p}
         /\ \A y \in Standing(u) : u[y].data = node[y].data /\ u[y].count = node[y].count
<1> DEFINE N == Standing(node)
           M == N \ {p}
           c == Tree!Instead(p)
           q == Tree!HungOn(p)
           k == Keys(node)
           l == Lefts(node)
           r == Rights(node)
           up == Tree!Redirected(p, root)
<1>1. /\ node \in [Tree!Addresses -> TreeNodes \cup {Null}] /\ N \subseteq Tree!Addresses /\ Null \notin N
      /\ Fits(N, k, l, r, root, lo, hi) /\ p \in N
      /\ \A y \in N : k[y] = node[y].data /\ l[y] = node[y].left /\ r[y] = node[y].right
  BY OrderedFacts DEF Ordered, Keys, Lefts, Rights
<1>2. \A y \in N : /\ node[y] \in TreeNodes
                   /\ node[y].left \in Tree!Addresses \cup {Null}
                   /\ node[y].right \in Tree!Addresses \cup {Null}
  <2>1. \A y \in N : node[y] \in TreeNodes
    BY OrderedFacts
  <2> QED
    BY <2>1 DEF TreeNodes
<1>3. IF l[p] = Null THEN q = Null ELSE q \in N /\ r[q] = Null /\ hi[q] = k[p]
  <2>1. CASE node[p].left = Null
    BY <1>1, <2>1 DEF Tree!HungOn
  <2>2. CASE node[p].left # Null
    <3>1. node[p].left \in Standing(node) /\ hi[node[p].left] = node[p].data
      BY <2>2, OrderedFacts
    <3>2. q = Tree!Rightmost(node[p].left)
      BY <2>2 DEF Tree!HungOn
    <3>3. q \in N /\ node[q].right = Null /\ hi[q] = node[p].data
      <4> HIDE DEF q
      <4> QED
        BY <3>1, <3>2, RightmostFacts
    <3> HIDE DEF q, k, l, r
    <3> QED
      BY <1>1, <2>2, <3>3
  <2> QED
    BY <2>1, <2>2
<1>4. c = IF l[p] = Null THEN r[p] ELSE l[p]
  BY <1>1 DEF Tree!Instead
<1>5. c \in Tree!Addresses \cup {Null} /\ r[p] \in Tree!Addresses \cup {Null}
  BY <1>1, <1>2 DEF Tree!Instead
<1>6. \A x : Tree!Redirected(p, x) = IF x = p THEN c ELSE x
  BY DEF Tree!Redirected
<1> DEFINE v(y) == [node[y] EXCEPT !.left  = Tree!Redirected(p, @),
                                   !.right = IF y = q THEN node[p].right
                                             ELSE Tree!Redirected(p, @)]
<1>7. u = [y \in Tree!Addresses |-> IF y = p \/ node[y] = Null THEN Null ELSE v(y)]
  BY DEF Tree!Without
<1> HIDE DEF q, c, k, l, r
<1>8. ASSUME NEW y \in M
      PROVE  /\ v(y) \in TreeNodes /\ v(y).data = node[y].data /\ v(y).count = node[y].count
             /\ v(y).left = (IF l[y] = p THEN c ELSE l[y])
             /\ v(y).right = (IF y = q THEN r[p] ELSE IF r[y] = p THEN c ELSE r[y])
  <2> DEFINE a == IF l[y] = p THEN c ELSE l[y]
             b == IF y = q THEN r[p] ELSE IF r[y] = p THEN c ELSE r[y]
  <2>1. a \in Tree!Addresses \cup {Null} /\ b \in Tree!Addresses \cup {Null}
    BY <1>1, <1>2, <1>5
  <2>2. a = Tree!Redirected(p, node[y].left)
    BY <1>1, <1>6
  <2>3. b = IF y = q THEN node[p].right ELSE Tree!Redirected(p, node[y].right)
    BY <1>1, <1>6
  <2>4. v(y) = [node[y] EXCEPT !.left = a, !.right = b]
    BY <2>2, <2>3
  <2>5. node[y] \in TreeNodes
    BY <1>2
  <2> HIDE DEF a, b, v
  <2>6. v(y) \in TreeNodes /\ v(y).data = node[y].data /\ v(y).count = node[y].count
        /\ v(y).left = a /\ v(y).right = b
    BY <2>1, <2>4, <2>5 DEF TreeNodes
  <2> QED
    BY <2>6 DEF a, b
<1> HIDE DEF v
<1>9. \A y \in Tree!Addresses : y \in M <=> ~(y = p \/ node[y] = Null)
  BY DEF Standing
<1>10. u \in [Tree!Addresses -> TreeNodes \cup {Null}] /\ \A y \in M : u[y] = v(y)
  BY <1>1, <1>7, <1>8, <1>9
<1>11. Standing(u) = M
  <2>1. ASSUME NEW y \in Tree!Addresses PROVE u[y] # Null <=> y \in M
    BY <1>7, <1>8, <1>9, TreeBasics
  <2>2. M \subseteq Tree!Addresses
    BY <1>1
  <2> QED
    BY <2>1, <2>2 DEF Standing
<1>12. \A y \in M : u[y].data = node[y].data /\ u[y].count = node[y].count
  BY <1>8, <1>10
<1>13. Keys(u) = [y \in M |-> k[y]]
  BY <1>1, <1>8, <1>10, <1>11 DEF Keys
<1> DEFINE m == Lefts(u)
           s == Rights(u)
<1>14. \A y \in M : /\ m[y] = IF l[y] = p THEN c ELSE l[y]
                    /\ s[y] = IF y = q THEN r[p] ELSE IF r[y] = p THEN c ELSE r[y]
  BY <1>8, <1>10, <1>11 DEF Lefts, Rights
<1> HIDE DEF m, s
<1>15. up = IF root = p THEN c ELSE root
  BY <1>6
<1> HIDE DEF up
<1>16. \E a, b : Fits(M, k, m, s, up, a, b)
  <2>1. /\ Fits(N, k, l, r, root, lo, hi) /\ Null \notin N /\ p \in N /\ M = N \ {p}
    BY <1>1
  <2> HIDE DEF N, M
  <2> QED
    BY ONLY <1>3, <1>4, <1>14, <1>15, <2>1, TakenOff
<1>17. ASSUME NEW a, NEW b, Fits(M, k, m, s, up, a, b) PROVE Fits(M, Keys(u), m, s, up, a, b)
  <2>1. PICK j : j = Keys(u)
    OBVIOUS
  <2>2. \A y \in M : j[y] = k[y]
    BY <1>13, <2>1
  <2>3. Spans(M, j, a, b) /\ Leftwards(M, j, m, a, b) /\ Rightwards(M, j, s, a, b)
    BY <1>17, <2>2 DEF Fits, Spans, Leftwards, Rightwards
  <2>4. Nested(M, j, a, b) /\ Above(M, j, a, b)
    BY <1>17, <2>2 DEF Fits, Nested, Above
  <2>5. Topmost(M, up, a, b) /\ \A x, y \in M : j[x] = j[y] => x = y
    BY <1>17, <2>2 DEF Fits
  <2> QED
    BY <2>1, <2>3, <2>4, <2>5 DEF Fits
<1>18. \E a, b : Ordered(u, up, a, b)
  BY <1>10, <1>11, <1>16, <1>17 DEF Ordered, m, s
<1> QED
  BY <1>11, <1>12, <1>18 DEF up

LEMMA OftenAppend ==
  ASSUME NEW s \in Seq(Int), NEW e \in Int, NEW d
  PROVE  Often(Append(s, e), d) = Often(s, d) + (IF d = e THEN 1 ELSE 0)
<1>1. PICK n \in Nat : n = 1
  OBVIOUS
<1>2. PICK t : t = Copies(n, e)
  OBVIOUS
<1>3. t \in Seq(Int) /\ Often(t, d) = IF d = e THEN n ELSE 0
  BY ONLY <1>2, OftenCopies
<1>4. t = <<e>>
  BY <1>1, <1>2 DEF Copies
<1>5. Append(s, e) = s \o t
  BY <1>4, AppendIsConcat
<1>6. Often(s \o t, d) = Often(s, d) + Often(t, d)
  BY ONLY <1>3, OftenConcat
<1> QED
  BY <1>1, <1>3, <1>5, <1>6

---------------------------------------------------------------------------
(* The tree's invariant: it is a tree in order, whose nodes are made in    *)
(* turn and count how often their numbers were given.                      *)

Counted ==
  /\ \A y \in Standing(node) : node[y].count = Often(given, node[y].data)
  /\ \A i \in DOMAIN given : \E y \in Standing(node) : node[y].data = given[i]

Building ==
  /\ root = 1 /\ gone = Null
  /\ Standing(node) \subseteq (1 .. Len(given)) \cup {1} /\ Counted
  /\ IF given = <<>> THEN Standing(node) = {1} /\ node[1].count = 0
     ELSE \A y \in Standing(node) : node[y].count # 0

TreeInv ==
  /\ phase \in {"insert", "delete", "done"} /\ given \in Seq(Numbers) /\ Len(given) <= MaxN
  /\ \E lo, hi : Ordered(node, root, lo, hi)
  /\ phase # "done" => Building
  /\ Tree!WalkSorts

LEMMA GivenFacts ==
  ASSUME TreeInv
  PROVE  /\ given \in Seq(Int) /\ Len(given) \in Nat /\ DOMAIN given = 1 .. Len(given)
         /\ \A i \in DOMAIN given : given[i] \in Numbers
<1>1. given \in Seq(Numbers)
  BY DEF TreeInv
<1>2. \A d \in Numbers : d \in Int
  BY TreeBasics
<1>3. Len(given) \in Nat /\ DOMAIN given = 1 .. Len(given)
  BY <1>1, LenProperties
<1>4. \A i \in 1 .. Len(given) : given[i] \in Numbers
  BY <1>1, <1>3, ElementOfSeq
<1>5. given \in Seq(Int)
  BY <1>1, <1>2, <1>3, <1>4
<1> QED
  BY <1>3, <1>4, <1>5

\* The nodes U count the numbers in s other than g, which none of them has.
Counting(t, U, s, g) ==
  /\ \A y \in U : t[y].count = Often(s, t[y].data) /\ t[y].data # g
  /\ \A i \in DOMAIN s : s[i] # g => \E y \in U : t[y].data = s[i]

\* The walk w is what was given in s, sorted, without g.
Tells(w, s, g) ==
  /\ Sorted(w) /\ Tree!Range(w) \subseteq Tree!Range(s) \ {g}
  /\ \A d \in Tree!Range(s) \ {g} : Tree!Times(w, d) = Tree!Times(s, d)

LEMMA WalkTells ==
  ASSUME NEW s \in Seq(Int), NEW t, NEW w, NEW U, NEW g, Lists(t, w, U), Counting(t, U, s, g)
  PROVE  Tells(w, s, g)
<1>0. /\ \A y \in U : t[y].count = Often(s, t[y].data) /\ t[y].data # g
      /\ \A i \in DOMAIN s : s[i] # g => \E y \in U : t[y].data = s[i]
  BY DEF Counting
<1>1. /\ w \in Seq(Int) /\ Sorted(w) /\ \A j \in DOMAIN w : \E y \in U : w[j] = t[y].data
      /\ \A y \in U : Often(w, t[y].data) = t[y].count
  BY DEF Lists
<1>2. ASSUME NEW j \in DOMAIN w PROVE w[j] # g /\ \E i \in DOMAIN s : s[i] = w[j]
  <2>1. PICK y \in U : w[j] = t[y].data
    BY <1>1
  <2>2. Often(w, w[j]) = Often(s, w[j]) /\ w[j] # g
    BY <1>0, <1>1, <2>1
  <2>3. Often(w, w[j]) # 0
    BY <1>1, OftenType
  <2>4. ~(\A i \in DOMAIN s : s[i] # w[j])
    BY <2>2, <2>3, OftenType
  <2> QED
    BY <2>2, <2>4
<1>3. ASSUME NEW i \in DOMAIN s, s[i] # g PROVE Often(w, s[i]) = Often(s, s[i])
  <2>1. PICK y \in U : t[y].data = s[i]
    BY <1>0, <1>3
  <2> QED
    BY <1>0, <1>1, <2>1
<1>4. \A d : Tree!Times(w, d) = Often(w, d) /\ Tree!Times(s, d) = Often(s, d)
  BY TimesIs
<1> QED
  BY <1>1, <1>2, <1>3, <1>4 DEF Tree!Range, Tells

LEMMA TreeStarts ==
  ASSUME Tree!Init
  PROVE  TreeInv
<1>1. PICK junk \in Numbers :
        node = [c \in Tree!Addresses |-> IF c = 1 THEN Tree!Node(junk, 0, Null, Null) ELSE Null]
  BY DEF Tree!Init
<1>2. root = 1 /\ given = <<>> /\ phase = "insert" /\ gone = Null
  BY DEF Tree!Init
<1>3. /\ Tree!Node(junk, 0, Null, Null) \in TreeNodes /\ Tree!Node(junk, 0, Null, Null) # Null
      /\ 1 \in Tree!Addresses
  BY TreeBasics DEF Tree!Node, TreeNodes
<1>4. /\ node \in [Tree!Addresses -> TreeNodes \cup {Null}] /\ Standing(node) = {1}
      /\ node[1].left = Null /\ node[1].right = Null /\ node[1].count = 0
  BY <1>1, <1>3 DEF Standing, Tree!Node
<1>5. \E lo, hi : Ordered(node, root, lo, hi)
  BY <1>2, <1>4, OrderedAlone
<1>6. given \in Seq(Numbers) /\ Len(given) = 0 /\ DOMAIN given = {} /\ given \in Seq(Int)
  BY <1>2
<1>7. \A d : Often(given, d) = 0
  BY <1>6, OftenType
<1>8. Counted
  BY <1>4, <1>6, <1>7 DEF Counted
<1>9. Building
  BY <1>2, <1>4, <1>8 DEF Building
<1>10. Tree!WalkSorts
  BY <1>2 DEF Tree!WalkSorts
<1> QED
  BY <1>2, <1>5, <1>6, <1>9, <1>10, TreeBasics DEF TreeInv

LEMMA TreeWalks ==
  ASSUME TreeInv, Tree!WalkOnce
  PROVE  TreeInv'
<1>1. /\ phase = "insert" /\ walked' = Tree!InOrder(node, root) /\ phase' = "delete"
      /\ UNCHANGED <<root, node, given, gone>>
  BY DEF Tree!WalkOnce
<1>2. PICK lo, hi : Ordered(node, root, lo, hi)
  BY DEF TreeInv
<1>3. Lists(node, walked', Standing(node))
  BY <1>1, <1>2, WalkFacts
<1>4. Building /\ gone = Null /\ Counted
  BY <1>1 DEF TreeInv, Building
<1>5. \A y \in Standing(node) : node[y].data # Null
  <2>1. \A y \in Standing(node) : node[y].data \in Numbers
    BY <1>2, OrderedFacts
  <2> QED
    BY <2>1, TreeBasics
<1>6. Counting(node, Standing(node), given, gone)
  BY <1>4, <1>5 DEF Counted, Counting
<1>7. given \in Seq(Int)
  BY GivenFacts
<1>8. Tells(walked', given, gone)
  BY <1>3, <1>6, <1>7, WalkTells
<1>9. Tree!WalkSorts'
  BY <1>1, <1>8 DEF Tree!WalkSorts, Tells, Sorted
<1>10. Building'
  BY <1>1, <1>4 DEF Building, Counted
<1> QED
  BY <1>1, <1>2, <1>9, <1>10 DEF TreeInv

\* What the tree built has been given d more: one more node, or one more of it.
LEMMA Given ==
  ASSUME TreeInv, Building, NEW d \in Numbers, Len(given) < MaxN, given' = Append(given, d)
  PROVE  /\ given' \in Seq(Numbers) /\ Len(given') = Len(given) + 1 /\ Len(given') <= MaxN
         /\ given' # <<>> /\ \A e : Often(given', e) = Often(given, e) + (IF e = d THEN 1 ELSE 0)
         /\ DOMAIN given' = DOMAIN given \cup {Len(given) + 1} /\ given'[Len(given) + 1] = d
         /\ \A i \in DOMAIN given : given'[i] = given[i]
<1>1. given \in Seq(Numbers) /\ given \in Seq(Int) /\ Len(given) \in Nat /\ DOMAIN given = 1 .. Len(given)
  BY GivenFacts DEF TreeInv
<1>2. d \in Int /\ MaxN \in Nat
  BY TreeBasics
<1>3. /\ given' \in Seq(Numbers) /\ given' # <<>> /\ Len(given') = Len(given) + 1
      /\ \A i \in 1 .. Len(given) : given'[i] = given[i]
      /\ given'[Len(given) + 1] = d
  BY <1>1, AppendProperties
<1>4. DOMAIN given' = 1 .. Len(given) + 1
  BY <1>3, LenProperties
<1>5. 1 .. Len(given) + 1 = (1 .. Len(given)) \cup {Len(given) + 1}
  BY <1>1
<1>6. \A e : Often(given', e) = Often(given, e) + (IF e = d THEN 1 ELSE 0)
  BY <1>1, <1>2, OftenAppend
<1> QED
  BY <1>1, <1>2, <1>3, <1>4, <1>5, <1>6

\* The first number given is written into the node that init() made.
LEMMA FirstGiven ==
  ASSUME TreeInv, NEW d \in Numbers, Tree!Insert(d), node[root].count = 0
  PROVE  TreeInv'
<1>1. /\ phase = "insert" /\ Len(given) < MaxN /\ given' = Append(given, d)
      /\ node' = [node EXCEPT ![root].data = d, ![root].count = 1]
      /\ UNCHANGED <<root, walked, phase, gone>>
  BY DEF Tree!Insert
<1>2. PICK lo, hi : Ordered(node, root, lo, hi)
  BY DEF TreeInv
<1>3. Building /\ root = 1 /\ gone = Null
  BY <1>1 DEF TreeInv, Building
<1>4. 1 \in Standing(node) /\ 1 \in Tree!Addresses
  BY <1>2, <1>3, OrderedFacts, TreeBasics
<1>5. given = <<>> /\ Standing(node) = {1}
  BY <1>1, <1>3, <1>4 DEF Building
<1>6. /\ node \in [Tree!Addresses -> TreeNodes \cup {Null}] /\ node[1] \in TreeNodes
      /\ node[1].left = Null /\ node[1].right = Null
  <2>1. node \in [Tree!Addresses -> TreeNodes \cup {Null}]
    BY <1>2 DEF Ordered
  <2>2. /\ node[1] \in TreeNodes /\ lo[1] < node[1].data /\ node[1].data < hi[1]
        /\ node[1].left # Null => node[1].left \in {1} /\ hi[node[1].left] = node[1].data
        /\ node[1].right # Null => node[1].right \in {1} /\ lo[node[1].right] = node[1].data
        /\ lo[1] \in Int /\ hi[1] \in Int /\ node[1].data \in Int
    BY <1>2, <1>4, <1>5, OrderedFacts
  <2>3. node[1].left = Null
    BY <2>2
  <2>4. node[1].right = Null
    BY <2>2
  <2> QED
    BY <2>1, <2>2, <2>3, <2>4
<1>7. /\ node'[1] = [node[1] EXCEPT !.data = d, !.count = 1]
      /\ \A c \in Tree!Addresses : c # 1 => node'[c] = node[c]
  BY <1>1, <1>3, <1>4, <1>6
<1>8. /\ node'[1] \in TreeNodes /\ node'[1].data = d /\ node'[1].count = 1
      /\ node'[1].left = Null /\ node'[1].right = Null
  <2>1. PICK v \in TreeNodes : v = node[1]
    BY <1>6
  <2>2. PICK w : w = [v EXCEPT !.data = d, !.count = 1]
    OBVIOUS
  <2>3. w \in TreeNodes /\ w.data = d /\ w.count = 1 /\ w.left = v.left /\ w.right = v.right
    BY <2>2 DEF TreeNodes
  <2> QED
    BY <1>6, <1>7, <2>1, <2>2, <2>3
<1>9. node' \in [Tree!Addresses -> TreeNodes \cup {Null}]
  BY <1>1, <1>3, <1>4, <1>6, <1>7, <1>8
<1>10. Standing(node') = {1}
  BY <1>4, <1>5, <1>7, <1>8, TreeBasics DEF Standing
<1>11. \E a, b : Ordered(node', 1, a, b)
  BY <1>8, <1>9, <1>10, OrderedAlone
<1>12. /\ given' \in Seq(Numbers) /\ Len(given') = Len(given) + 1 /\ Len(given') <= MaxN
       /\ given' # <<>> /\ \A e : Often(given', e) = Often(given, e) + (IF e = d THEN 1 ELSE 0)
       /\ DOMAIN given' = DOMAIN given \cup {Len(given) + 1} /\ given'[Len(given) + 1] = d
  BY <1>1, <1>3, Given
<1>13. Counted'
  <2>1. DOMAIN given = {} /\ given \in Seq(Int) /\ Len(given) + 1 = 1
    BY <1>5
  <2>2. Often(given, d) = 0
    BY <2>1, OftenType
  <2>3. Often(given', d) = 1
    BY <1>12, <2>2
  <2>4. \A y \in Standing(node') : node'[y].count = Often(given', node'[y].data)
    BY <1>8, <1>10, <2>3
  <2>5. \A i \in DOMAIN given' : given'[i] = d
    BY <1>12, <2>1
  <2>6. \A i \in DOMAIN given' : \E y \in Standing(node') : node'[y].data = given'[i]
    BY <1>8, <1>10, <2>5
  <2> QED
    BY <2>4, <2>6 DEF Counted
<1>14. Building'
  <2>1. Standing(node') \subseteq (1 .. Len(given')) \cup {1}
    BY <1>10
  <2>2. \A y \in Standing(node') : node'[y].count # 0
    BY <1>8, <1>10
  <2> QED
    BY <1>1, <1>3, <1>12, <1>13, <2>1, <2>2 DEF Building
<1>15. Tree!WalkSorts'
  BY <1>1 DEF Tree!WalkSorts
<1> QED
  BY <1>1, <1>3, <1>11, <1>12, <1>14, <1>15 DEF TreeInv

\* A number that has a node is counted once more.
LEMMA CountedAgain ==
  ASSUME TreeInv, NEW d \in Numbers, Tree!Insert(d), node[root].count # 0,
         node[Tree!Found(d)].data = d
  PROVE  TreeInv'
<1> DEFINE x == Tree!Found(d)
<1>1. /\ phase = "insert" /\ Len(given) < MaxN /\ given' = Append(given, d)
      /\ node' = [node EXCEPT ![x].count = @ + 1]
      /\ UNCHANGED <<root, walked, phase, gone>>
  BY DEF Tree!Insert
<1>2. PICK lo, hi : Ordered(node, root, lo, hi)
  BY DEF TreeInv
<1>3. Building /\ Counted /\ root = 1 /\ gone = Null /\ root # Null
  BY <1>1, TreeBasics DEF TreeInv, Building
<1>4. x \in Standing(node)
  BY <1>2, <1>3, FoundFacts
<1> HIDE DEF x
<1>5. /\ node \in [Tree!Addresses -> TreeNodes \cup {Null}] /\ node[x] \in TreeNodes
      /\ x \in Tree!Addresses /\ node[x].count \in Nat
      /\ \A y \in Standing(node) : y \in Tree!Addresses /\ (node[y].data = d => y = x)
  <2>1. node \in [Tree!Addresses -> TreeNodes \cup {Null}]
    BY <1>2 DEF Ordered
  <2>2. node[x].data = d
    BY DEF x
  <2> QED
    BY <1>2, <1>4, <2>1, <2>2, OrderedFacts
<1>6. /\ node'[x] = [node[x] EXCEPT !.count = @ + 1]
      /\ \A c \in Tree!Addresses : c # x => node'[c] = node[c]
  BY <1>1, <1>5
<1>7. /\ node'[x] \in TreeNodes /\ node'[x].data = node[x].data
      /\ node'[x].count = node[x].count + 1
      /\ node'[x].left = node[x].left /\ node'[x].right = node[x].right
  BY <1>5, <1>6 DEF TreeNodes
<1>8. node' \in [Tree!Addresses -> TreeNodes \cup {Null}]
  BY <1>1, <1>5, <1>6, <1>7
<1>9. Standing(node') = Standing(node)
  BY <1>4, <1>5, <1>6, <1>7, TreeBasics DEF Standing
<1>10. \A y \in Standing(node) : /\ node'[y].data = node[y].data /\ node'[y].left = node[y].left
                                 /\ node'[y].right = node[y].right
                                 /\ node'[y].count = node[y].count + (IF y = x THEN 1 ELSE 0)
  <2> SUFFICES ASSUME NEW y \in Standing(node)
               PROVE  /\ node'[y].data = node[y].data /\ node'[y].left = node[y].left
                      /\ node'[y].right = node[y].right
                      /\ node'[y].count = node[y].count + (IF y = x THEN 1 ELSE 0)
    OBVIOUS
  <2>1. CASE y = x
    BY <1>7, <2>1
  <2>2. CASE y # x
    <3>1. node'[y] = node[y]
      BY <1>5, <1>6, <2>2
    <3>2. node[y].count \in Nat
      BY <1>2, OrderedFacts
    <3>3. node[y].count = node[y].count + 0
      BY <3>2
    <3> QED
      BY <2>2, <3>1, <3>3
  <2> QED
    BY <2>1, <2>2
<1>11. Ordered(node', root, lo, hi)
  <2>1. PICK u : u = node'
    OBVIOUS
  <2>2. Ordered(u, root, lo, hi)
    BY <1>2, <1>8, <1>9, <1>10, <2>1, OrderedSame
  <2> QED
    BY <2>1, <2>2
<1>12. /\ given' \in Seq(Numbers) /\ Len(given') = Len(given) + 1 /\ Len(given') <= MaxN
       /\ given' # <<>> /\ \A e : Often(given', e) = Often(given, e) + (IF e = d THEN 1 ELSE 0)
       /\ DOMAIN given' = DOMAIN given \cup {Len(given) + 1} /\ given'[Len(given) + 1] = d
       /\ \A i \in DOMAIN given : given'[i] = given[i]
  BY <1>1, <1>3, Given
<1>13. Len(given) \in Nat
  BY GivenFacts
<1>14. node[x].data = d
  BY DEF x
<1>15. Counted'
  <2>1. \A y \in Standing(node) : node[y].data = d <=> y = x
    BY <1>5, <1>14
  <2>2. \A y \in Standing(node) : node'[y].count = Often(given', node'[y].data)
    <3>1. \A y \in Standing(node) : node[y].count = Often(given, node[y].data)
      BY <1>3 DEF Counted
    <3> QED
      BY <1>10, <1>12, <2>1, <3>1
  <2>3. \A i \in DOMAIN given' : \E y \in Standing(node) : node'[y].data = given'[i]
    <3>1. \A i \in DOMAIN given : \E y \in Standing(node) : node[y].data = given[i]
      BY <1>3 DEF Counted
    <3> QED
      BY <1>4, <1>10, <1>12, <1>14, <3>1
  <2> QED
    BY <1>9, <2>2, <2>3 DEF Counted
<1>16. Building'
  <2>1. Standing(node') \subseteq (1 .. Len(given')) \cup {1}
    <3>1. 1 .. Len(given) \subseteq 1 .. Len(given) + 1
      BY <1>13
    <3>2. Standing(node) \subseteq (1 .. Len(given)) \cup {1}
      BY <1>3 DEF Building
    <3> QED
      BY <1>9, <1>12, <3>1, <3>2
  <2>2. \A y \in Standing(node') : node'[y].count # 0
    <3>1. \A y \in Standing(node) : node[y].count # 0 /\ node[y].count \in Nat
      <4>1. given # <<>>
        BY <1>3 DEF Building
      <4> QED
        BY <1>2, <1>3, <4>1, OrderedFacts DEF Building
    <3> QED
      BY <1>9, <1>10, <3>1
  <2> QED
    BY <1>1, <1>3, <1>12, <1>15, <2>1, <2>2 DEF Building
<1>17. Tree!WalkSorts'
  BY <1>1 DEF Tree!WalkSorts
<1> QED
  BY <1>1, <1>11, <1>12, <1>16, <1>17 DEF TreeInv

\* A number that has no node is given one, where the search for it ended.
LEMMA NodeHung ==
  ASSUME TreeInv, NEW d \in Numbers, Tree!Insert(d), node[root].count # 0,
         node[Tree!Found(d)].data # d
  PROVE  TreeInv'
<1> DEFINE x == Tree!Found(d)
           p == Len(given) + 1
<1>1. /\ phase = "insert" /\ Len(given) < MaxN /\ given' = Append(given, d)
      /\ node' = IF d < node[x].data THEN [node EXCEPT ![x].left = p, ![p] = Tree!Leaf(d)]
                 ELSE [node EXCEPT ![x].right = p, ![p] = Tree!Leaf(d)]
      /\ UNCHANGED <<root, walked, phase, gone>>
  BY DEF Tree!Insert
<1>2. PICK lo, hi : Ordered(node, root, lo, hi)
  BY DEF TreeInv
<1>3. Building /\ Counted /\ root = 1 /\ gone = Null /\ root # Null
  BY <1>1, TreeBasics DEF TreeInv, Building
<1>4. given # <<>> /\ \A y \in Standing(node) : node[y].count # 0
  <2>1. given # <<>>
    BY <1>3 DEF Building
  <2> QED
    BY <1>3, <2>1 DEF Building
<1>5. Len(given) \in Nat /\ MaxN \in Nat /\ Len(given) # 0 /\ Tree!Addresses = 1 .. MaxN
  <2>1. Len(given) # 0
    BY <1>4, GivenFacts, EmptySeq
  <2> QED
    BY <2>1, GivenFacts, TreeBasics
<1>6. p \in Tree!Addresses /\ node[p] = Null
  <2>1. p \in Tree!Addresses
    BY <1>1, <1>5
  <2>2. p \notin (1 .. Len(given)) \cup {1}
    BY <1>5
  <2>3. p \notin Standing(node)
    BY <1>3, <2>2 DEF Building
  <2> QED
    BY <2>1, <2>3 DEF Standing
<1>7. /\ x \in Standing(node) /\ lo[x] < d /\ d < hi[x] /\ d # node[x].data
      /\ IF d < node[x].data THEN node[x].left = Null ELSE node[x].right = Null
  BY <1>2, <1>3, FoundFacts
<1>8. \A y \in Standing(node) : node[y].data # d
  BY <1>2, <1>3, FoundIfThere
<1> HIDE DEF x, p
<1>9. /\ \E a, b : Ordered(node', root, a, b)
      /\ Standing(node') = Standing(node) \cup {p} /\ p \notin Standing(node)
      /\ node'[p].data = d /\ node'[p].count = 1
      /\ \A y \in Standing(node) : node'[y].data = node[y].data /\ node'[y].count = node[y].count
  <2>1. PICK t, u, top : t = node /\ u = node' /\ top = root
    OBVIOUS
  <2>2. /\ Ordered(t, top, lo, hi) /\ x \in Standing(t) /\ t[p] = Null /\ p \in Tree!Addresses
        /\ lo[x] < d /\ d < hi[x] /\ d # t[x].data /\ d \in Numbers
        /\ Bare(t, x, d) /\ u = Hung(t, x, d, p)
    BY <1>1, <1>2, <1>6, <1>7, <2>1 DEF Bare, Hung
  <2>3. /\ \E a, b : Ordered(u, top, a, b)
        /\ Standing(u) = Standing(t) \cup {p} /\ p \notin Standing(t)
        /\ u[p].data = d /\ u[p].count = 1
        /\ \A y \in Standing(t) : u[y].data = t[y].data /\ u[y].count = t[y].count
    BY ONLY <2>2, OrderedHung
  <2> QED
    BY <2>1, <2>3
<1>10. /\ given' \in Seq(Numbers) /\ Len(given') = Len(given) + 1 /\ Len(given') <= MaxN
       /\ given' # <<>> /\ \A e : Often(given', e) = Often(given, e) + (IF e = d THEN 1 ELSE 0)
       /\ DOMAIN given' = DOMAIN given \cup {Len(given) + 1} /\ given'[Len(given) + 1] = d
       /\ \A i \in DOMAIN given : given'[i] = given[i]
  BY <1>1, <1>3, Given
<1>11. \A y \in Standing(node) : node[y].count = Often(given, node[y].data) /\ node[y].count \in Nat
  BY <1>2, <1>3, OrderedFacts DEF Counted
<1>12. \A i \in DOMAIN given : \E y \in Standing(node) : node[y].data = given[i]
  BY <1>3 DEF Counted
<1>13. Often(given', d) = 1
  <2>1. \A i \in DOMAIN given : given[i] # d
    BY <1>8, <1>12
  <2>2. Often(given, d) = 0
    BY <2>1, GivenFacts, OftenType
  <2> QED
    BY <1>10, <2>2
<1>14. Counted'
  <2>1. ASSUME NEW y \in Standing(node') PROVE node'[y].count = Often(given', node'[y].data)
    <3>1. CASE y = p
      BY <1>9, <1>13, <3>1
    <3>2. CASE y \in Standing(node)
      <4>1. node'[y].data = node[y].data /\ node'[y].count = node[y].count /\ node[y].data # d
        BY <1>8, <1>9, <3>2
      <4>2. Often(given', node[y].data) = Often(given, node[y].data) + 0
        BY <1>10, <4>1
      <4> QED
        BY <1>11, <3>2, <4>1, <4>2
    <3> QED
      BY <1>9, <3>1, <3>2
  <2>2. \A i \in DOMAIN given' : \E y \in Standing(node') : node'[y].data = given'[i]
    BY <1>9, <1>10, <1>12
  <2> QED
    BY <2>1, <2>2 DEF Counted
<1>15. Building'
  <2>1. Standing(node') \subseteq (1 .. Len(given')) \cup {1}
    <3>1. 1 .. Len(given) \subseteq 1 .. Len(given) + 1 /\ p \in 1 .. Len(given) + 1
      BY <1>5 DEF p
    <3>2. Standing(node) \subseteq (1 .. Len(given)) \cup {1}
      BY <1>3 DEF Building
    <3> QED
      BY <1>9, <1>10, <3>1, <3>2
  <2>2. \A y \in Standing(node') : node'[y].count # 0
    BY <1>4, <1>9
  <2> QED
    BY <1>1, <1>3, <1>10, <1>14, <2>1, <2>2 DEF Building
<1>16. Tree!WalkSorts'
  BY <1>1 DEF Tree!WalkSorts
<1> QED
  BY <1>1, <1>9, <1>10, <1>15, <1>16 DEF TreeInv

\* The walk after the deletion tells all but the number deleted.
LEMMA TreeDeletes ==
  ASSUME TreeInv, NEW d \in Numbers, Tree!Delete(d)
  PROVE  TreeInv'
<1> DEFINE p == Tree!Found(d)
<1>1. /\ phase = "delete" /\ gone' = d /\ walked' = Tree!InOrder(node', root') /\ phase' = "done"
      /\ given' = given
      /\ IF node[p].data = d THEN root' = Tree!Redirected(p, root) /\ node' = Tree!Without(p)
         ELSE node' = node /\ root' = root
  BY DEF Tree!Delete
<1>2. PICK lo, hi : Ordered(node, root, lo, hi)
  BY DEF TreeInv
<1>3. Building /\ Counted /\ root # Null
  BY <1>1, TreeBasics DEF TreeInv, Building
<1>4. /\ \A y \in Standing(node) : node[y].count = Often(given, node[y].data)
      /\ \A i \in DOMAIN given : \E y \in Standing(node) : node[y].data = given[i]
  BY <1>3 DEF Counted
<1>5. (\E a, b : Ordered(node', root', a, b)) /\ Counting(node', Standing(node'), given, d)
  <2>1. CASE node[p].data = d
    <3>1. p \in Standing(node)
      BY <1>2, <1>3, FoundFacts
    <3> HIDE DEF p
    <3>2. /\ \E a, b : Ordered(node', root', a, b)
          /\ Standing(node') = Standing(node) \ {p}
          /\ \A y \in Standing(node') : /\ node'[y].data = node[y].data
                                        /\ node'[y].count = node[y].count
      <4>1. node' = Tree!Without(p) /\ root' = Tree!Redirected(p, root)
        BY <1>1, <2>1
      <4> QED
        BY <1>2, <3>1, <4>1, OrderedWithout
    <3>3. \A y \in Standing(node) : node[y].data = d => y = p
      BY <1>2, <2>1, <3>1, OrderedFacts
    <3> QED
      BY <1>4, <2>1, <3>2, <3>3 DEF Counting
  <2>2. CASE node[p].data # d
    <3>1. \A y \in Standing(node) : node[y].data # d
      BY <1>2, <1>3, <2>2, FoundIfThere
    <3>2. node' = node /\ root' = root
      BY <1>1, <2>2
    <3> QED
      BY <1>2, <1>4, <3>1, <3>2 DEF Counting
  <2> QED
    BY <2>1, <2>2
<1>6. PICK t, top, w : t = node' /\ top = root' /\ w = walked'
  OBVIOUS
<1>7. PICK a, b : Ordered(t, top, a, b)
  BY <1>5, <1>6
<1>8. Lists(t, w, Standing(t))
  BY <1>1, <1>6, <1>7, WalkFacts
<1>9. Tells(w, given, d)
  BY <1>5, <1>6, <1>8, GivenFacts, WalkTells
<1>10. Tree!WalkSorts'
  BY <1>1, <1>6, <1>9 DEF Tree!WalkSorts, Tells, Sorted
<1> QED
  BY <1>1, <1>5, <1>10 DEF TreeInv

LEMMA TreeStep ==
  ASSUME TreeInv, [Tree!Next]_(Tree!vars)
  PROVE  TreeInv'
<1>1. CASE UNCHANGED Tree!vars
  BY <1>1 DEF Tree!vars, TreeInv, Building, Counted, Tree!WalkSorts
<1>2. CASE Tree!WalkOnce
  BY <1>2, TreeWalks
<1>3. ASSUME NEW d \in Numbers, Tree!Insert(d) PROVE TreeInv'
  BY <1>3, FirstGiven, CountedAgain, NodeHung
<1>4. ASSUME NEW d \in Numbers, Tree!Delete(d) PROVE TreeInv'
  BY <1>4, TreeDeletes
<1> QED
  BY <1>1, <1>2, <1>3, <1>4 DEF Tree!Next

---------------------------------------------------------------------------
(* The three programs in one composition: one of them runs, and the two    *)
(* others stay as they start.                                              *)

PartsInv ==
  /\ part \in {"containers", "tree", "maze"} /\ IInv
  /\ IF part = "tree" THEN TreeInv ELSE phase = "insert"
  /\ part = "maze" => MazeInv

LEMMA PartsStart ==
  ASSUME MCInit
  PROVE  PartsInv
<1>1. Init /\ part \in {"containers", "tree", "maze"}
  BY DEF MCInit
<1>2. IInv
  BY <1>1, InitInv
<1>3. part = "tree" => TreeInv
  BY TreeStarts DEF MCInit
<1>4. part # "tree" => phase = "insert"
  BY DEF MCInit
<1>5. part = "maze" => MazeInv
  BY MazeInit, PartsAssumption DEF MCInit
<1> QED
  BY <1>1, <1>2, <1>3, <1>4, <1>5 DEF PartsInv

LEMMA PartsStep ==
  ASSUME PartsInv, [MCNext]_<<vars, treeVars, mazeVars, part>>
  PROVE  PartsInv'
<1>1. UNCHANGED part /\ [Next]_vars
  BY DEF MCNext
<1>2. part = "tree" => [Tree!Next]_(Tree!vars)
  BY DEF MCNext, Tree!vars, treeVars
<1>3. part # "tree" => UNCHANGED phase
  BY DEF MCNext, treeVars
<1>4. part = "maze" => [Search!Next]_(Search!vars)
  BY DEF MCNext, Search!vars, mazeVars
<1>5. IInv'
  BY <1>1, NextStep, StutterInv DEF PartsInv
<1>6. part = "tree" => TreeInv'
  BY <1>2, TreeStep DEF PartsInv
<1>7. part = "maze" => MazeInv'
  BY <1>4, MazeStep, PartsAssumption DEF PartsInv
<1> QED
  BY <1>1, <1>3, <1>5, <1>6, <1>7 DEF PartsInv

\* A behaviour of the composition is one of the containers: the two other programs
\* leave their variables alone.
THEOREM PartsSpec == MCSpec => Spec
<1>1. MCInit => Init
  BY DEF MCInit
<1>2. [MCNext]_<<vars, treeVars, mazeVars, part>> => [Next]_vars
  BY DEF MCNext
<1> QED
  BY <1>1, <1>2, PTL DEF MCSpec, Spec

\* Whichever of the programs runs, the containers are well linked, the tree is
\* in order, counts what it was given and was walked in order, and the search of
\* the maze has tried what it gave up.
THEOREM PartsInvariance == MCSpec => []PartsInv
<1>1. MCInit => PartsInv
  BY PartsStart
<1>2. PartsInv /\ [MCNext]_<<vars, treeVars, mazeVars, part>> => PartsInv'
  BY PartsStep
<1> QED
  BY <1>1, <1>2, PTL DEF MCSpec

\* The two walks of bst.c's tree list every number inserted, as often as it was,
\* in ascending order, and the second one all but the number that deleteNode took
\* off: moving the left subtree up and the right one below the end of its
\* rightmost branch loses no subtree and leaves none where the order does not
\* want it (insert, deleteNode and search_middle).
THEOREM TreeSorts == MCSpec => []WalkSorts
<1>1. PartsInv => WalkSorts
  BY DEF PartsInv, TreeInv, WalkSorts, Tree!WalkSorts
<1> QED
  BY <1>1, PartsInvariance, PTL

\* MazePath decides: the way it tells is one, and where it tells that there is
\* none, or looks beyond the edge, the end cannot be reached, in every maze that
\* is enclosed as main's is, of any size (mazeDemo.c's MazePath).
THEOREM DepthFirstDecides == MCSpec => []SearchDecides
<1>1. PartsInv => SearchDecides
  BY MazeDecides DEF PartsInv, SearchDecides
<1> QED
  BY <1>1, PartsInvariance, PTL

=============================================================================
