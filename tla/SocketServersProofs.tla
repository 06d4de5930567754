------------------------ MODULE SocketServersProofs -------------------------
(***************************************************************************)
(* Proofs about the epoll servers, for every finite set of clients, every  *)
(* length of what they send and of what one recv takes, about the UDP      *)
(* programs, for any clients, hosts and ports, any number of lines and any *)
(* number of doubled datagrams, and about the select server.               *)
(***************************************************************************)
EXTENDS MCSocketServers, FiniteSetTheorems, FunctionTheorems, SequenceTheorems,
        WellFoundedInduction, TLAPS

---------------------------------------------------------------------------
(* The epoll servers.  NeverBlocksNorForgets speaks of the moments at      *)
(* which the server calls epoll_wait, accept or recv; between these the    *)
(* invariant has to follow an event through the batch.  In version 2 what  *)
(* is readable has an event that is still to be reported or is in the      *)
(* batch (Announced); in version 1, which reads once per event, what is in *)
(* the batch is still readable when its turn comes, since no event is in a *)
(* batch twice (Queues, StillReadable).                                    *)

InBatch(f) == \E i \in 1 .. Len(batch) : batch[i] = f
Pending(c) == \E i \in 1 .. Len(backlog) : backlog[i] = c
Opened     == {c \in Clients : conn[c] = "open"}

Queues ==
  /\ \A c \in Clients : conn[c] = "backlog" <=> Pending(c)
  /\ \A i, j \in 1 .. Len(backlog) : backlog[i] = backlog[j] => i = j
  /\ \A i, j \in 1 .. Len(batch) : batch[i] = batch[j] => i = j

Registered ==
  /\ \A c \in Clients : c \in edges \/ InBatch(c) => conn[c] = "open"
  /\ \A c \in Clients : unread[c] <= sent[c]

Serving ==
  /\ pc \in {"wait", "end"} => batch = <<>>
  /\ pc = "accept" => batch # <<>> /\ Head(batch) = Listen
  /\ pc \in {"recv", "answer"} => batch # <<>> /\ Head(batch) # Listen
  /\ pc = "answer" => version = 2

Announced ==
  version = 2 =>
    /\ backlog # <<>> => Listen \in edges \/ InBatch(Listen) \/ acceptFailed
    /\ \A c \in Clients : conn[c] = "open" /\ HasData(c) => c \in edges \/ InBatch(c)

StillReadable ==
  version = 1 => \A f \in Clients \cup {Listen} : InBatch(f) => Readable(f)

Curfds ==
  /\ version = 1 /\ pc # "end" => curfds = 1 + Cardinality(Opened)
  /\ version = 2 => curfds = 1

EpollInv ==
  /\ TypeOK /\ Queues /\ Registered /\ Serving
  /\ Announced /\ StillReadable /\ Curfds

---------------------------------------------------------------------------
(* Sequences without repetitions *)

\* An ordering of a finite set has each of its elements once.
LEMMA Ordering ==
  ASSUME NEW S, IsFiniteSet(S), NEW s \in SetToSeqs(S)
  PROVE  /\ s \in Seq(S)
         /\ \A i, j \in 1 .. Len(s) : s[i] = s[j] => i = j
         /\ \A x : (\E i \in 1 .. Len(s) : s[i] = x) <=> x \in S
<1>1. PICK n \in Nat : n = Cardinality(S)
  BY FS_CardinalityType
<1>2. s \in [1 .. n -> S] /\ \A i, j \in 1 .. n : i # j => s[i] # s[j]
  BY <1>1 DEF SetToSeqs
<1>3. s \in Seq(S) /\ Len(s) = n
  BY <1>2
<1>4. s \in Injection(1 .. n, S)
  BY <1>2, Fun_IsInj
<1>5. Cardinality(1 .. n) = n
  BY FS_Interval
<1>6. s \in Surjection(1 .. n, S)
  BY <1>1, <1>4, <1>5, FS_Injection
<1>7. \A x \in S : \E i \in 1 .. n : s[i] = x
  BY <1>6 DEF Surjection
<1> QED
  BY <1>2, <1>3, <1>7

\* What is left when the first element is taken.
LEMMA Rest ==
  ASSUME NEW S, NEW s \in Seq(S), s # <<>>,
         \A i, j \in 1 .. Len(s) : s[i] = s[j] => i = j
  PROVE  /\ Head(s) \in S /\ Tail(s) \in Seq(S)
         /\ \E i \in 1 .. Len(s) : s[i] = Head(s)
         /\ \A i, j \in 1 .. Len(Tail(s)) : Tail(s)[i] = Tail(s)[j] => i = j
         /\ \A x : (\E i \in 1 .. Len(Tail(s)) : Tail(s)[i] = x)
                   <=> (\E i \in 1 .. Len(s) : s[i] = x) /\ x # Head(s)
<1>1. /\ Head(s) \in S /\ Tail(s) \in Seq(S) /\ Len(s) \in Nat \ {0} /\ Head(s) = s[1]
      /\ Len(Tail(s)) = Len(s) - 1
      /\ \A i \in 1 .. Len(Tail(s)) : Tail(s)[i] = s[i + 1]
  BY HeadTailProperties, EmptySeq, LenProperties
<1>2. \A i \in 1 .. Len(Tail(s)) : i + 1 \in 1 .. Len(s)
  BY <1>1
<1>3. \A i, j \in 1 .. Len(Tail(s)) : Tail(s)[i] = Tail(s)[j] => i = j
  BY <1>1, <1>2
<1>4. 1 \in 1 .. Len(s)
  BY <1>1
<1>5. ASSUME NEW x
      PROVE  (\E i \in 1 .. Len(Tail(s)) : Tail(s)[i] = x)
             <=> (\E i \in 1 .. Len(s) : s[i] = x) /\ x # Head(s)
  <2>1. ASSUME NEW i \in 1 .. Len(Tail(s)), Tail(s)[i] = x
        PROVE  (\E j \in 1 .. Len(s) : s[j] = x) /\ x # Head(s)
    <3>1. i + 1 \in 1 .. Len(s) /\ s[i + 1] = x /\ i + 1 # 1
      BY <1>1, <1>2, <2>1
    <3> QED
      BY <1>1, <1>4, <3>1
  <2>2. ASSUME NEW i \in 1 .. Len(s), s[i] = x, x # Head(s)
        PROVE  \E j \in 1 .. Len(Tail(s)) : Tail(s)[j] = x
    <3>1. i - 1 \in 1 .. Len(Tail(s)) /\ (i - 1) + 1 = i
      BY <1>1, <2>2
    <3>2. Tail(s)[i - 1] = s[(i - 1) + 1]
      BY <1>1, <3>1
    <3> QED
      BY <2>2, <3>1, <3>2
  <2> QED
    BY <2>1, <2>2
<1> QED
  BY <1>1, <1>3, <1>4, <1>5

LEMMA Longer ==
  ASSUME NEW S, NEW s \in Seq(S), NEW e \in S,
         \A i \in 1 .. Len(s) : s[i] # e,
         \A i, j \in 1 .. Len(s) : s[i] = s[j] => i = j
  PROVE  /\ Append(s, e) \in Seq(S) /\ Append(s, e) # <<>>
         /\ \A i, j \in 1 .. Len(Append(s, e)) : Append(s, e)[i] = Append(s, e)[j] => i = j
         /\ \A x : (\E i \in 1 .. Len(Append(s, e)) : Append(s, e)[i] = x)
                   <=> (\E i \in 1 .. Len(s) : s[i] = x) \/ x = e
<1> DEFINE n == Len(s)
           a == Append(s, e)
<1>1. /\ n \in Nat /\ a \in Seq(S) /\ a # <<>> /\ Len(a) = n + 1 /\ a[n + 1] = e
      /\ \A i \in 1 .. n : a[i] = s[i]
  BY AppendProperties, LenProperties
<1>2. \A i \in 1 .. Len(a) : i \in 1 .. n \/ i = n + 1
  BY <1>1
<1>3. \A i \in 1 .. n : i \in 1 .. Len(a) /\ i # n + 1
  BY <1>1
<1>4. n + 1 \in 1 .. Len(a)
  BY <1>1
<1>5. \A i, j \in 1 .. Len(a) : a[i] = a[j] => i = j
  BY <1>1, <1>2
<1>6. \A x : (\E i \in 1 .. Len(a) : a[i] = x) <=> (\E i \in 1 .. n : s[i] = x) \/ x = e
  BY <1>1, <1>2, <1>3, <1>4
<1> QED
  BY <1>1, <1>5, <1>6

---------------------------------------------------------------------------
(* What the steps have in common *)

LEMMA Typed ==
  ASSUME EpollInv
  PROVE  /\ version \in {1, 2} /\ Chunk \in Nat \ {0} /\ MaxEvents \in Nat \ {0} /\ MaxSends \in Nat
         /\ Listen \notin Clients /\ IsFiniteSet(Clients)
         /\ conn \in [Clients -> {"none", "backlog", "open", "closed"}]
         /\ ending \in [Clients -> {"no", "fin", "reset", "broken"}]
         /\ sent \in [Clients -> 0 .. MaxSends] /\ unread \in [Clients -> 0 .. MaxSends]
         /\ backlog \in Seq(Clients) /\ batch \in Seq(Clients \cup {Listen})
         /\ edges \subseteq Clients \cup {Listen}
         /\ curfds \in Nat /\ curfds >= 1 /\ acceptFailed \in BOOLEAN
         /\ pc \in {"wait", "batch", "accept", "recv", "answer", "end"}
<1>1. IsFiniteSet(Clients) /\ Listen \notin Clients /\ MaxSends \in Nat
  BY ConstantsAssumption
<1>2. Chunk \in Nat \ {0} /\ MaxEvents \in Nat \ {0}
  BY ConstantsAssumption
<1>3. version \in {1, 2}
  BY ConstantsAssumption DEF EpollInv, TypeOK
<1>4. curfds \in Nat /\ curfds >= 1
  BY <1>1, FS_CardinalityType DEF EpollInv, TypeOK
<1> QED
  BY <1>1, <1>2, <1>3, <1>4 DEF EpollInv, TypeOK

\* The next event of the batch has been dealt with.
LEMMA Handled ==
  ASSUME EpollInv, EventHandled, batch # <<>>
  PROVE  /\ pc' = "batch" /\ batch' \in Seq(Clients \cup {Listen})
         /\ Head(batch) \in Clients \cup {Listen} /\ InBatch(Head(batch))
         /\ \A i, j \in 1 .. Len(batch') : batch'[i] = batch'[j] => i = j
         /\ \A f : InBatch(f)' <=> InBatch(f) /\ f # Head(batch)
<1>1. batch \in Seq(Clients \cup {Listen}) /\ \A i, j \in 1 .. Len(batch) : batch[i] = batch[j] => i = j
  BY Typed DEF EpollInv, Queues
<1>2. pc' = "batch" /\ batch' = Tail(batch)
  BY DEF EventHandled
<1> QED
  <2>1. /\ Head(batch) \in Clients \cup {Listen} /\ Tail(batch) \in Seq(Clients \cup {Listen})
        /\ \E i \in 1 .. Len(batch) : batch[i] = Head(batch)
        /\ \A i, j \in 1 .. Len(Tail(batch)) : Tail(batch)[i] = Tail(batch)[j] => i = j
        /\ \A f : (\E i \in 1 .. Len(Tail(batch)) : Tail(batch)[i] = f)
                  <=> (\E i \in 1 .. Len(batch) : batch[i] = f) /\ f # Head(batch)
    BY <1>1, Rest, Zenon
  <2> QED
    BY <1>2, <2>1, Zenon DEF InBatch

\* The client of an event, in recv and answer.
LEMMA Served ==
  ASSUME EpollInv, pc \in {"recv", "answer"}
  PROVE  /\ batch # <<>> /\ From \in Clients /\ InBatch(From) /\ conn[From] = "open"
<1>1. batch # <<>> /\ From # Listen
  BY DEF EpollInv, Serving, From
<1>2. From \in Clients \cup {Listen} /\ InBatch(From)
  BY <1>1, Typed, Rest DEF EpollInv, Queues, InBatch, From
<1> QED
  BY <1>1, <1>2 DEF EpollInv, Registered

\* The first pending connection has left the queue.
LEMMA Taken ==
  ASSUME EpollInv, backlog # <<>>, backlog' = Tail(backlog)
  PROVE  /\ Head(backlog) \in Clients /\ conn[Head(backlog)] = "backlog" /\ Pending(Head(backlog))
         /\ backlog' \in Seq(Clients)
         /\ \A i, j \in 1 .. Len(backlog') : backlog'[i] = backlog'[j] => i = j
         /\ \A c : Pending(c)' <=> Pending(c) /\ c # Head(backlog)
<1>1. backlog \in Seq(Clients) /\ \A i, j \in 1 .. Len(backlog) : backlog[i] = backlog[j] => i = j
  BY Typed DEF EpollInv, Queues
<1>2. /\ Head(backlog) \in Clients /\ Tail(backlog) \in Seq(Clients)
      /\ \E i \in 1 .. Len(backlog) : backlog[i] = Head(backlog)
      /\ \A i, j \in 1 .. Len(Tail(backlog)) : Tail(backlog)[i] = Tail(backlog)[j] => i = j
      /\ \A f : (\E i \in 1 .. Len(Tail(backlog)) : Tail(backlog)[i] = f)
                <=> (\E i \in 1 .. Len(backlog) : backlog[i] = f) /\ f # Head(backlog)
  BY <1>1, Rest, Zenon
<1>3. Pending(Head(backlog))
  BY <1>2, Zenon DEF Pending
<1>4. \A c : Pending(c)' <=> Pending(c) /\ c # Head(backlog)
  BY <1>2, Zenon DEF Pending
<1> QED
  BY <1>2, <1>3, <1>4 DEF EpollInv, Queues

\* Counting the open connections.
LEMMA OpenedBound ==
  ASSUME EpollInv
  PROVE  /\ IsFiniteSet(Opened) /\ Cardinality(Opened) \in Nat
         /\ Cardinality(Clients) \in Nat /\ Cardinality(Opened) <= Cardinality(Clients)
  BY Typed, FS_Subset, FS_CardinalityType DEF Opened

LEMMA OpensOne ==
  ASSUME EpollInv, NEW c \in Clients, conn[c] # "open", conn' = [conn EXCEPT ![c] = "open"]
  PROVE  /\ Cardinality(Opened') = Cardinality(Opened) + 1
         /\ Cardinality(Opened) + 1 <= Cardinality(Clients)
<1>1. Opened' = Opened \cup {c} /\ c \notin Opened
  BY Typed DEF Opened
<1>2. Cardinality(Opened') = Cardinality(Opened) + 1
  BY <1>1, OpenedBound, FS_AddElement
<1>3. Opened' \in SUBSET Clients
  BY DEF Opened
<1>4. Cardinality(Opened') <= Cardinality(Clients)
  BY <1>3, Typed, FS_Subset
<1> QED
  BY <1>2, <1>4

LEMMA ClosesOne ==
  ASSUME EpollInv, NEW c \in Clients, conn[c] = "open", conn' = [conn EXCEPT ![c] = "closed"]
  PROVE  /\ Cardinality(Opened') = Cardinality(Opened) - 1 /\ Cardinality(Opened) >= 1
<1>1. Opened' = Opened \ {c} /\ c \in Opened
  BY Typed DEF Opened
<1>2. Cardinality(Opened') = Cardinality(Opened) - 1
  BY <1>1, OpenedBound, FS_RemoveElement
<1>3. Cardinality(Opened) # 0
  BY <1>1, OpenedBound, FS_EmptySet
<1> QED
  BY <1>2, <1>3, OpenedBound

LEMMA OpensNone ==
  ASSUME \A c \in Clients : conn'[c] = "open" <=> conn[c] = "open"
  PROVE  Opened' = Opened
  BY DEF Opened

\* curfds keeps its type: no step but an accept of version 1 raises it.
LEMMA CurfdsTyped ==
  ASSUME EpollInv, Curfds'
         , version' = version
         , pc' # "end" \/ curfds' = curfds
  PROVE  curfds' \in 1 .. Cardinality(Clients) + 1
<1>1. CASE pc' # "end"
  <2>1. Opened' \in SUBSET Clients
    BY DEF Opened
  <2>2. /\ Cardinality(Opened') \in Nat /\ Cardinality(Opened') <= Cardinality(Clients)
        /\ Cardinality(Clients) \in Nat
    BY <2>1, Typed, FS_Subset, FS_CardinalityType
  <2>3. curfds' = 1 + Cardinality(Opened') \/ curfds' = 1
    BY <1>1, Typed DEF Curfds
  <2> QED
    BY <2>2, <2>3
<1>2. CASE pc' = "end"
  BY <1>2 DEF EpollInv, TypeOK
<1> QED
  BY <1>1, <1>2

---------------------------------------------------------------------------
(* The clients *)

LEMMA ConnectKeeps ==
  ASSUME EpollInv, NEW c \in Clients, Connect(c)
  PROVE  EpollInv'
<1>1. /\ conn[c] = "none" /\ conn' = [conn EXCEPT ![c] = "backlog"]
      /\ backlog' = Append(backlog, c) /\ edges' = edges \cup {Listen}
      /\ UNCHANGED <<version, ending, sent, unread, pc, batch, curfds, acceptFailed>>
  BY DEF Connect, server
<1>2. /\ conn' \in [Clients -> {"none", "backlog", "open", "closed"}]
      /\ \A d \in Clients : conn'[d] = IF d = c THEN "backlog" ELSE conn[d]
  BY <1>1, Typed
<1>3. ~Pending(c)
  BY <1>1 DEF EpollInv, Queues
<1>4. /\ Append(backlog, c) \in Seq(Clients) /\ Append(backlog, c) # <<>>
      /\ \A i, j \in 1 .. Len(Append(backlog, c)) :
           Append(backlog, c)[i] = Append(backlog, c)[j] => i = j
      /\ \A x : (\E i \in 1 .. Len(Append(backlog, c)) : Append(backlog, c)[i] = x)
                <=> (\E i \in 1 .. Len(backlog) : backlog[i] = x) \/ x = c
  <2>1. backlog \in Seq(Clients) /\ \A i, j \in 1 .. Len(backlog) : backlog[i] = backlog[j] => i = j
    BY Typed DEF EpollInv, Queues
  <2>2. \A i \in 1 .. Len(backlog) : backlog[i] # c
    BY <1>3 DEF Pending
  <2> QED
    BY <2>1, <2>2, Longer
<1>5. \A x : Pending(x)' <=> Pending(x) \/ x = c
  BY <1>1, <1>4, Zenon DEF Pending
<1>6. \A f : InBatch(f)' <=> InBatch(f)
  BY <1>1 DEF InBatch
<1>7. \A d \in Clients : HasData(d)' <=> HasData(d)
  BY <1>1 DEF HasData
<1>8. Queues'
  <2>1. \A d \in Clients : conn'[d] = "backlog" <=> Pending(d)'
    BY <1>2, <1>5 DEF EpollInv, Queues
  <2>2. \A i, j \in 1 .. Len(backlog') : backlog'[i] = backlog'[j] => i = j
    BY <1>1, <1>4
  <2>3. \A i, j \in 1 .. Len(batch') : batch'[i] = batch'[j] => i = j
    BY <1>1 DEF EpollInv, Queues
  <2> QED
    BY <2>1, <2>2, <2>3 DEF Queues
<1>9. Registered'
  <2>1. c \notin edges /\ ~InBatch(c) /\ c # Listen
    BY <1>1, Typed DEF EpollInv, Registered
  <2> QED
    BY <1>1, <1>2, <1>6, <2>1, Typed DEF EpollInv, Registered
<1>10. Serving'
  BY <1>1 DEF EpollInv, Serving
<1>11. Announced'
  BY <1>1, <1>2, <1>6, <1>7 DEF EpollInv, Announced
<1>12. StillReadable'
  BY <1>1, <1>4, <1>6, <1>7 DEF EpollInv, StillReadable, Readable
<1>13. Curfds'
  <2>1. Opened' = Opened
    BY <1>1, <1>2, OpensNone
  <2> QED
    BY <1>1, <2>1 DEF EpollInv, Curfds
<1>14. TypeOK'
  BY <1>1, <1>2, <1>4 DEF EpollInv, TypeOK
<1> QED
  BY <1>8, <1>9, <1>10, <1>11, <1>12, <1>13, <1>14 DEF EpollInv

\* A client that sends or leaves: its socket becomes readable, and has an event
\* if it is registered.
LEMMA ArrivesKeeps ==
  ASSUME EpollInv, NEW c \in Clients, Send(c) \/ Leave(c)
  PROVE  EpollInv'
<1>1. /\ conn[c] \in {"backlog", "open"} /\ Arrives(c)
      /\ UNCHANGED <<version, conn, backlog, pc, batch, curfds, acceptFailed>>
  BY DEF Send, Leave, server
<1>2. /\ ending' \in [Clients -> {"no", "fin", "reset", "broken"}]
      /\ \A d \in Clients : HasData(d) => HasData(d)'
      /\ \A d \in Clients : d # c => (HasData(d)' <=> HasData(d))
      /\ sent' \in [Clients -> 0 .. MaxSends] /\ unread' \in [Clients -> 0 .. MaxSends]
      /\ \A d \in Clients : unread'[d] <= sent'[d]
  <2>1. \A d \in Clients : unread[d] <= sent[d] /\ unread[d] \in Nat /\ sent[d] \in Nat
    BY Typed DEF EpollInv, Registered
  <2>2. CASE Send(c)
    <3>1. /\ sent[c] < MaxSends /\ sent' = [sent EXCEPT ![c] = sent[c] + 1]
          /\ unread' = [unread EXCEPT ![c] = unread[c] + 1] /\ ending' = ending
      BY <2>2 DEF Send
    <3>2. sent[c] + 1 \in 0 .. MaxSends /\ unread[c] + 1 \in 0 .. MaxSends
      BY <2>1, <3>1, Typed
    <3>3. sent' \in [Clients -> 0 .. MaxSends] /\ unread' \in [Clients -> 0 .. MaxSends]
      BY <3>1, <3>2, Typed
    <3>4. \A d \in Clients : /\ sent'[d] = IF d = c THEN sent[c] + 1 ELSE sent[d]
                             /\ unread'[d] = IF d = c THEN unread[c] + 1 ELSE unread[d]
      BY <3>1, Typed
    <3>5. \A d \in Clients : unread'[d] <= sent'[d]
      BY <2>1, <3>4
    <3>6. \A d \in Clients : HasData(d) => HasData(d)'
      BY <2>1, <3>1, <3>4 DEF HasData
    <3>7. \A d \in Clients : d # c => (HasData(d)' <=> HasData(d))
      BY <3>1, <3>4 DEF HasData
    <3> QED
      BY <3>1, <3>3, <3>5, <3>6, <3>7, Typed
  <2>3. CASE Leave(c)
    <3>1. PICK e \in {"fin", "reset"} : ending' = [ending EXCEPT ![c] = e]
      BY <2>3 DEF Leave
    <3>2. sent' = sent /\ unread' = unread
      BY <2>3 DEF Leave
    <3>3. \A d \in Clients : ending'[d] = IF d = c THEN e ELSE ending[d]
      BY <3>1, Typed
    <3>4. ending' \in [Clients -> {"no", "fin", "reset", "broken"}]
      BY <3>1, Typed
    <3>5. \A d \in Clients : HasData(d) => HasData(d)'
      BY <3>2, <3>3 DEF HasData
    <3>6. \A d \in Clients : d # c => (HasData(d)' <=> HasData(d))
      BY <3>2, <3>3 DEF HasData
    <3> QED
      BY <2>1, <3>2, <3>4, <3>5, <3>6, Typed
  <2> QED
    BY <2>2, <2>3
<1>3. edges' = IF conn[c] = "open" THEN edges \cup {c} ELSE edges
  BY <1>1 DEF Arrives
<1>4. \A f : InBatch(f)' <=> InBatch(f)
  BY <1>1 DEF InBatch
<1>5. Queues'
  BY <1>1, <1>4 DEF EpollInv, Queues, Pending
<1>6. Registered'
  BY <1>1, <1>2, <1>3, <1>4 DEF EpollInv, Registered
<1>7. Serving'
  BY <1>1 DEF EpollInv, Serving
<1>8. Announced'
  <2>1. ASSUME version = 2, NEW d \in Clients, conn'[d] = "open", HasData(d)'
        PROVE  d \in edges' \/ InBatch(d)'
    BY <1>1, <1>2, <1>3, <1>4, <2>1 DEF EpollInv, Announced
  <2>2. version = 2 /\ backlog' # <<>> => Listen \in edges' \/ InBatch(Listen)' \/ acceptFailed'
    BY <1>1, <1>3, <1>4 DEF EpollInv, Announced
  <2> QED
    BY <1>1, <2>1, <2>2 DEF Announced
<1>9. StillReadable'
  <2>1. \A d \in Clients : d # Listen
    BY Typed
  <2> QED
    BY <1>1, <1>2, <1>4, <2>1 DEF EpollInv, StillReadable, Readable
<1>10. Curfds'
  <2>1. Opened' = Opened
    BY <1>1, OpensNone
  <2> QED
    BY <1>1, <2>1 DEF EpollInv, Curfds
<1>11. TypeOK'
  <2>1. edges' \subseteq Clients \cup {Listen}
    BY <1>3, Typed
  <2> QED
    BY <1>1, <1>2, <2>1 DEF EpollInv, TypeOK
<1> QED
  BY <1>5, <1>6, <1>7, <1>8, <1>9, <1>10, <1>11 DEF EpollInv

---------------------------------------------------------------------------
(* Waiting and the loop *)

\* The process ends.
LEMMA StopsKeeps ==
  ASSUME EpollInv, Stops
  PROVE  EpollInv'
<1>1. /\ pc' = "end" /\ batch' = <<>> /\ backlog' = <<>> /\ edges' = {}
      /\ conn' = [c \in Clients |-> IF conn[c] = "none" THEN "none" ELSE "closed"]
      /\ UNCHANGED <<version, ending, sent, unread, curfds, acceptFailed>>
  BY DEF Stops
<1>2. /\ conn' \in [Clients -> {"none", "backlog", "open", "closed"}]
      /\ \A c \in Clients : conn'[c] \in {"none", "closed"}
  BY <1>1
<1>3. \A i \in 1 .. Len(<<>>) : FALSE
  OBVIOUS
<1>4. (\A f : ~InBatch(f)') /\ (\A c : ~Pending(c)')
  BY <1>1, <1>3 DEF InBatch, Pending
<1>5. Queues'
  <2>1. /\ \A i, j \in 1 .. Len(backlog') : backlog'[i] = backlog'[j] => i = j
        /\ \A i, j \in 1 .. Len(batch') : batch'[i] = batch'[j] => i = j
    BY <1>1, <1>3
  <2> QED
    BY <1>2, <1>4, <2>1 DEF Queues
<1>6. Registered'
  BY <1>1, <1>4 DEF EpollInv, Registered
<1>7. Serving' /\ Announced' /\ StillReadable'
  BY <1>1, <1>2, <1>4 DEF Serving, Announced, StillReadable
<1>8. Curfds'
  BY <1>1 DEF EpollInv, Curfds
<1>9. TypeOK'
  <2>1. batch' \in Seq(Clients \cup {Listen}) /\ backlog' \in Seq(Clients)
    BY <1>1
  <2> QED
    BY <1>1, <1>2, <2>1 DEF EpollInv, TypeOK
<1> QED
  BY <1>5, <1>6, <1>7, <1>8, <1>9 DEF EpollInv

LEMMA EpollWaitKeeps == EpollInv /\ EpollWait => EpollInv'
<1> SUFFICES ASSUME EpollInv, EpollWait PROVE EpollInv'
  OBVIOUS
<1> DEFINE ready == {f \in edges : Readable(f)}
<1>1. PICK reported \in SUBSET ready :
        batch' \in SetToSeqs(reported) /\ edges' = ready \ reported
  BY DEF EpollWait
<1>2. /\ pc = "wait" /\ pc' = "batch"
      /\ UNCHANGED <<version, conn, ending, sent, unread, backlog, curfds, acceptFailed>>
  BY DEF EpollWait
<1>3. reported \subseteq Clients \cup {Listen} /\ IsFiniteSet(reported)
  <2>1. IsFiniteSet(Clients \cup {Listen})
    BY Typed, FS_AddElement
  <2>2. reported \in SUBSET (Clients \cup {Listen})
    BY Typed
  <2> QED
    BY <2>1, <2>2, FS_Subset
<1>4. /\ batch' \in Seq(reported)
      /\ \A i, j \in 1 .. Len(batch') : batch'[i] = batch'[j] => i = j
      /\ \A f : InBatch(f)' <=> f \in reported
  <2>1. PICK s \in SetToSeqs(reported) : s = batch'
    BY <1>1
  <2>2. /\ s \in Seq(reported)
        /\ \A i, j \in 1 .. Len(s) : s[i] = s[j] => i = j
        /\ \A f : (\E i \in 1 .. Len(s) : s[i] = f) <=> f \in reported
    BY <1>3, Ordering, Zenon
  <2> QED
    BY <2>1, <2>2, Zenon DEF InBatch
<1>5. batch = <<>>
  BY <1>2 DEF EpollInv, Serving
<1>6. \A f : ~InBatch(f)
  BY <1>5 DEF InBatch
<1>7. \A f \in Clients \cup {Listen} : Readable(f)' <=> Readable(f)
  BY <1>2 DEF Readable, HasData
<1>8. batch' \in Seq(Clients \cup {Listen})
  BY <1>3, <1>4
<1> HIDE DEF ready
<1>9. Queues'
  BY <1>2, <1>4 DEF EpollInv, Queues, Pending
<1>10. Registered'
  BY <1>1, <1>2, <1>4 DEF EpollInv, Registered, ready
<1>11. Serving'
  BY <1>2 DEF Serving
<1>12. Announced'
  <2>1. ASSUME NEW f \in edges, Readable(f) PROVE f \in edges' \/ InBatch(f)'
    BY <1>1, <1>4, <2>1 DEF ready
  <2>2. ASSUME version = 2, backlog # <<>>, ~acceptFailed
        PROVE  Listen \in edges' \/ InBatch(Listen)'
    BY <1>6, <2>1, <2>2 DEF EpollInv, Announced, Readable
  <2>3. ASSUME version = 2, NEW c \in Clients, conn[c] = "open", HasData(c)
        PROVE  c \in edges' \/ InBatch(c)'
    BY <1>6, <2>1, <2>3, Typed DEF EpollInv, Announced, Readable
  <2> QED
    BY <1>2, <2>2, <2>3 DEF Announced, HasData
<1>13. StillReadable'
  BY <1>1, <1>4, <1>7 DEF StillReadable, ready
<1>14. Curfds'
  BY <1>2 DEF EpollInv, Curfds, Opened
<1>15. TypeOK'
  <2>1. edges' \subseteq Clients \cup {Listen}
    BY <1>1, Typed DEF ready
  <2> QED
    BY <1>2, <1>8, <2>1 DEF EpollInv, TypeOK
<1> QED
  BY <1>9, <1>10, <1>11, <1>12, <1>13, <1>14, <1>15 DEF EpollInv

LEMMA LoopKeeps ==
  ASSUME EpollInv, NextEvent \/ BatchDone
  PROVE  EpollInv'
<1>1. UNCHANGED <<version, conn, ending, sent, unread, backlog, edges, batch, curfds, acceptFailed>>
  BY DEF NextEvent, BatchDone
<1>2. /\ pc' \in {"wait", "accept", "recv"} /\ pc = "batch"
      /\ pc' = "wait" => batch = <<>>
      /\ pc' = "accept" => batch # <<>> /\ Head(batch) = Listen
      /\ pc' = "recv" => batch # <<>> /\ Head(batch) # Listen
  BY DEF NextEvent, BatchDone
<1>3. Queues' /\ Registered' /\ StillReadable' /\ Announced'
  BY <1>1 DEF EpollInv, Queues, Registered, StillReadable, Announced, Pending, InBatch,
              Readable, HasData
<1>4. Serving'
  BY <1>1, <1>2 DEF Serving
<1>5. Curfds'
  BY <1>1, <1>2 DEF EpollInv, Curfds, Opened
<1>6. TypeOK'
  BY <1>1, <1>2 DEF EpollInv, TypeOK
<1> QED
  BY <1>3, <1>4, <1>5, <1>6 DEF EpollInv

---------------------------------------------------------------------------
(* The listening socket *)

\* In version 1 the event of the listening socket leaves the batch; in version 2
\* it stays until nobody is pending.
LEMMA AcceptKeeps == EpollInv /\ Accept => EpollInv'
<1> SUFFICES ASSUME EpollInv, Accept PROVE EpollInv'
  OBVIOUS
<1> DEFINE c == Head(backlog)
<1>1. /\ pc = "accept" /\ backlog # <<>> /\ backlog' = Tail(backlog)
      /\ conn' = [conn EXCEPT ![c] = "open"]
      /\ edges' = IF HasData(c) THEN edges \cup {c} ELSE edges
      /\ curfds' = IF version = 1 THEN curfds + 1 ELSE curfds
      /\ UNCHANGED <<version, ending, sent, unread, acceptFailed>>
  BY DEF Accept
<1>2. /\ c \in Clients /\ conn[c] = "backlog" /\ backlog' \in Seq(Clients)
      /\ \A i, j \in 1 .. Len(backlog') : backlog'[i] = backlog'[j] => i = j
      /\ \A d : Pending(d)' <=> Pending(d) /\ d # c
  BY <1>1, Taken
<1> HIDE DEF c
<1>3. /\ conn' \in [Clients -> {"none", "backlog", "open", "closed"}]
      /\ \A d \in Clients : conn'[d] = IF d = c THEN "open" ELSE conn[d]
  BY <1>1, <1>2, Typed
<1>4. batch # <<>> /\ Head(batch) = Listen /\ c # Listen
  BY <1>1, <1>2, Typed DEF EpollInv, Serving
<1>5. /\ version = 1 => /\ pc' = "batch" /\ batch' \in Seq(Clients \cup {Listen})
                        /\ \A i, j \in 1 .. Len(batch') : batch'[i] = batch'[j] => i = j
                        /\ \A f : InBatch(f)' <=> InBatch(f) /\ f # Listen
      /\ version = 2 => pc' = pc /\ batch' = batch
  <2>1. version = 1 => EventHandled
    BY DEF Accept, AfterAccept, AcceptsOnce
  <2>2. version = 2 => pc' = pc /\ batch' = batch
    BY DEF Accept, AfterAccept, AcceptsOn
  <2> QED
    BY <1>4, <2>1, <2>2, Handled
<1>6. \A d \in Clients : HasData(d)' <=> HasData(d)
  BY <1>1 DEF HasData
<1>7. /\ batch' \in Seq(Clients \cup {Listen}) /\ pc' \in {"batch", "accept"}
      /\ \A i, j \in 1 .. Len(batch') : batch'[i] = batch'[j] => i = j
      /\ \A d \in Clients : InBatch(d)' <=> InBatch(d)
  <2>1. CASE version = 1
    BY <1>5, <2>1, Typed
  <2>2. CASE version = 2
    BY <1>1, <1>5, <2>2, Typed DEF EpollInv, Queues, InBatch
  <2> QED
    BY <2>1, <2>2, Typed
<1>8. Queues'
  <2>1. \A d \in Clients : conn'[d] = "backlog" <=> Pending(d)'
    BY <1>2, <1>3 DEF EpollInv, Queues
  <2> QED
    BY <1>2, <1>7, <2>1 DEF Queues
<1>9. Registered'
  BY <1>1, <1>3, <1>7 DEF EpollInv, Registered
<1>10. Serving'
  BY <1>1, <1>4, <1>5, Typed DEF Serving
<1>11. Announced'
  <2>1. ASSUME version = 2 PROVE InBatch(Listen)'
    <3>1. InBatch(Head(batch))
      BY <1>4, Typed, Rest DEF EpollInv, Queues, InBatch
    <3> QED
      BY <1>4, <1>5, <2>1, <3>1 DEF InBatch
  <2>2. ASSUME version = 2, NEW d \in Clients, conn'[d] = "open", HasData(d)
        PROVE  d \in edges' \/ InBatch(d)'
    BY <1>1, <1>3, <1>7, <2>2 DEF EpollInv, Announced
  <2> QED
    BY <1>1, <1>6, <2>1, <2>2 DEF Announced
<1>12. StillReadable'
  <2>1. ASSUME version = 1, NEW f \in Clients \cup {Listen}, InBatch(f)'
        PROVE  Readable(f)'
    <3>1. f \in Clients /\ InBatch(f) /\ f # Listen
      BY <1>5, <2>1
    <3> QED
      BY <1>6, <2>1, <3>1 DEF EpollInv, StillReadable, Readable
  <2> QED
    BY <1>1, <2>1 DEF StillReadable
<1>13. Curfds'
  <2>1. Cardinality(Opened') = Cardinality(Opened) + 1 /\ Cardinality(Opened) \in Nat
    BY <1>1, <1>2, OpensOne, OpenedBound
  <2>2. version = 1 => curfds = 1 + Cardinality(Opened)
    BY <1>1 DEF EpollInv, Curfds
  <2>3. version = 1 => curfds' = 1 + Cardinality(Opened')
    BY <1>1, <2>1, <2>2
  <2>4. version = 2 => curfds' = 1
    BY <1>1 DEF EpollInv, Curfds
  <2> QED
    BY <1>1, <2>3, <2>4 DEF Curfds
<1>14. TypeOK'
  <2>1. curfds' \in 1 .. Cardinality(Clients) + 1
    BY <1>1, <1>7, <1>13, CurfdsTyped
  <2>2. edges' \subseteq Clients \cup {Listen}
    BY <1>1, <1>2, Typed
  <2> QED
    BY <1>1, <1>2, <1>3, <1>7, <2>1, <2>2 DEF EpollInv, TypeOK
<1> QED
  BY <1>8, <1>9, <1>10, <1>11, <1>12, <1>13, <1>14 DEF EpollInv

\* Nobody is pending any more, or accept has failed.
LEMMA AcceptEndKeeps ==
  ASSUME EpollInv, AcceptDone \/ AcceptFails
  PROVE  EpollInv'
<1>1. /\ version = 2 /\ pc = "accept" /\ EventHandled
      /\ backlog = <<>> \/ acceptFailed'
      /\ acceptFailed => acceptFailed'
      /\ acceptFailed' \in BOOLEAN
      /\ UNCHANGED <<version, conn, ending, sent, unread, backlog, edges, curfds>>
  <2>1. CASE AcceptDone
    BY <2>1, Typed DEF AcceptDone
  <2>2. CASE AcceptFails
    BY <2>2 DEF AcceptFails
  <2> QED
    BY <2>1, <2>2
<1>2. batch # <<>> /\ Head(batch) = Listen
  BY <1>1 DEF EpollInv, Serving
<1>3. /\ pc' = "batch" /\ batch' \in Seq(Clients \cup {Listen})
      /\ \A i, j \in 1 .. Len(batch') : batch'[i] = batch'[j] => i = j
      /\ \A f : InBatch(f)' <=> InBatch(f) /\ f # Listen
  BY <1>1, <1>2, Handled
<1>4. \A c \in Clients : InBatch(c)' <=> InBatch(c)
  BY <1>3, Typed
<1>5. Queues'
  BY <1>1, <1>3 DEF EpollInv, Queues, Pending
<1>6. Registered' /\ Serving' /\ StillReadable'
  BY <1>1, <1>3, <1>4 DEF EpollInv, Registered, Serving, StillReadable
<1>7. Announced'
  BY <1>1, <1>4 DEF EpollInv, Announced, HasData
<1>8. Curfds'
  BY <1>1 DEF EpollInv, Curfds
<1>9. TypeOK'
  BY <1>1, <1>3 DEF EpollInv, TypeOK
<1> QED
  BY <1>5, <1>6, <1>7, <1>8, <1>9 DEF EpollInv

LEMMA RegisterFailsKeeps == EpollInv /\ RegisterFails => EpollInv'
<1> SUFFICES ASSUME EpollInv, RegisterFails PROVE EpollInv'
  OBVIOUS
<1> DEFINE c == Head(backlog)
<1>1. /\ version = 2 /\ pc = "accept" /\ backlog # <<>> /\ backlog' = Tail(backlog)
      /\ conn' = [conn EXCEPT ![c] = "closed"]
      /\ UNCHANGED <<version, ending, sent, unread, edges, pc, batch, curfds, acceptFailed>>
  BY DEF RegisterFails, server
<1>2. /\ c \in Clients /\ conn[c] = "backlog" /\ backlog' \in Seq(Clients)
      /\ \A i, j \in 1 .. Len(backlog') : backlog'[i] = backlog'[j] => i = j
      /\ \A d : Pending(d)' <=> Pending(d) /\ d # c
  BY <1>1, Taken
<1> HIDE DEF c
<1>3. /\ conn' \in [Clients -> {"none", "backlog", "open", "closed"}]
      /\ \A d \in Clients : conn'[d] = IF d = c THEN "closed" ELSE conn[d]
  BY <1>1, <1>2, Typed
<1>4. \A f : InBatch(f)' <=> InBatch(f)
  BY <1>1 DEF InBatch
<1>5. Queues'
  <2>1. \A d \in Clients : conn'[d] = "backlog" <=> Pending(d)'
    BY <1>2, <1>3 DEF EpollInv, Queues
  <2> QED
    BY <1>1, <1>2, <2>1 DEF EpollInv, Queues
<1>6. Registered'
  BY <1>1, <1>2, <1>3, <1>4 DEF EpollInv, Registered
<1>7. Serving' /\ StillReadable'
  BY <1>1 DEF EpollInv, Serving, StillReadable
<1>8. Announced'
  BY <1>1, <1>3, <1>4 DEF EpollInv, Announced, HasData
<1>9. Curfds'
  BY <1>1 DEF EpollInv, Curfds
<1>10. TypeOK'
  BY <1>1, <1>2, <1>3 DEF EpollInv, TypeOK
<1> QED
  BY <1>5, <1>6, <1>7, <1>8, <1>9, <1>10 DEF EpollInv

---------------------------------------------------------------------------
(* A client's event *)

LEMMA RecvDataKeeps == EpollInv /\ RecvData => EpollInv'
<1> SUFFICES ASSUME EpollInv, RecvData PROVE EpollInv'
  OBVIOUS
<1>1. PICK c \in Clients : c = From /\ InBatch(c) /\ conn[c] = "open" /\ batch # <<>>
  BY Served DEF RecvData
<1>2. /\ pc = "recv" /\ unread[c] > 0 /\ unread' = [unread EXCEPT ![c] = Left(unread[c])]
      /\ UNCHANGED <<version, conn, ending, sent, backlog, edges, curfds, acceptFailed>>
  BY <1>1 DEF RecvData
<1>3. Left(unread[c]) \in 0 .. MaxSends /\ Left(unread[c]) <= unread[c]
  <2>1. unread[c] \in 0 .. MaxSends /\ Chunk \in Nat \ {0} /\ MaxSends \in Nat
    BY Typed
  <2> QED
    BY <2>1 DEF Left
<1>4. /\ unread' \in [Clients -> 0 .. MaxSends]
      /\ \A d \in Clients : unread'[d] = IF d = c THEN Left(unread[c]) ELSE unread[d]
  BY <1>2, <1>3, Typed
<1>5. \A d \in Clients : unread'[d] <= sent[d]
  <2>1. \A d \in Clients : unread[d] <= sent[d] /\ unread[d] \in Nat /\ sent[d] \in Nat
    BY Typed DEF EpollInv, Registered
  <2>2. Left(unread[c]) \in Nat
    BY <1>3
  <2>3. PICK n \in Nat : n = Left(unread[c]) /\ n <= sent[c]
    BY <1>3, <2>1, <2>2
  <2> QED
    BY <1>4, <2>1, <2>3
<1>6. \A d \in Clients : /\ d # c => (HasData(d)' <=> HasData(d))
                         /\ HasData(d)' => HasData(d)
  <2>1. \A d \in Clients : d # c => (HasData(d)' <=> HasData(d))
    BY <1>2, <1>4 DEF HasData
  <2>2. HasData(c)
    BY <1>2 DEF HasData
  <2> QED
    BY <2>1, <2>2
<1>7. /\ version = 1 => /\ pc' = "batch" /\ batch' \in Seq(Clients \cup {Listen})
                        /\ \A i, j \in 1 .. Len(batch') : batch'[i] = batch'[j] => i = j
                        /\ \A f : InBatch(f)' <=> InBatch(f) /\ f # c
      /\ version = 2 => pc' = "answer" /\ batch' = batch
  <2>1. version = 1 => EventHandled
    BY DEF RecvData, AfterRecv
  <2>2. version = 2 => pc' = "answer" /\ batch' = batch
    BY DEF RecvData, AfterRecv
  <2> QED
    BY <1>1, <2>1, <2>2, Handled DEF From
<1>8. /\ batch' \in Seq(Clients \cup {Listen}) /\ pc' \in {"batch", "answer"}
      /\ \A i, j \in 1 .. Len(batch') : batch'[i] = batch'[j] => i = j
      /\ \A f : InBatch(f)' => InBatch(f)
  <2>1. CASE version = 1
    BY <1>7, <2>1
  <2>2. CASE version = 2
    BY <1>7, <2>2, Typed DEF EpollInv, Queues, InBatch
  <2> QED
    BY <2>1, <2>2, Typed
<1>9. Queues'
  BY <1>2, <1>8 DEF EpollInv, Queues, Pending
<1>10. Registered'
  BY <1>2, <1>5, <1>8 DEF EpollInv, Registered
<1>11. Serving'
  <2>1. Head(batch) # Listen
    BY <1>1, Typed DEF From
  <2> QED
    BY <1>1, <1>2, <1>7, <2>1, Typed DEF Serving
<1>12. Announced'
  <2>1. version = 2 => \A f : InBatch(f)' <=> InBatch(f)
    BY <1>7 DEF InBatch
  <2> QED
    BY <1>2, <1>6, <2>1 DEF EpollInv, Announced
<1>13. StillReadable'
  <2>1. ASSUME version = 1, NEW f \in Clients \cup {Listen}, InBatch(f)'
        PROVE  Readable(f)'
    <3>1. InBatch(f) /\ f # c /\ Readable(f)
      BY <1>7, <2>1 DEF EpollInv, StillReadable
    <3> QED
      BY <1>2, <1>6, <3>1 DEF Readable
  <2> QED
    BY <1>2, <2>1 DEF StillReadable
<1>14. Curfds'
  BY <1>2 DEF EpollInv, Curfds, Opened
<1>15. TypeOK'
  BY <1>2, <1>4, <1>8 DEF EpollInv, TypeOK
<1> QED
  BY <1>9, <1>10, <1>11, <1>12, <1>13, <1>14, <1>15 DEF EpollInv

LEMMA AnswerKeeps == EpollInv /\ Answer => EpollInv'
<1> SUFFICES ASSUME EpollInv, Answer PROVE EpollInv'
  OBVIOUS
<1>1. PICK c \in Clients : c = From /\ InBatch(c) /\ conn[c] = "open" /\ batch # <<>>
  BY Served DEF Answer
<1>2. /\ pc = "answer" /\ pc' = "recv" /\ version = 2
      /\ UNCHANGED <<version, conn, sent, unread, backlog, batch, curfds, acceptFailed>>
  BY DEF Answer, RecvsOn, EpollInv, Serving
<1>3. PICK e \in AfterSend(ending[c]) :
        /\ ending' = [ending EXCEPT ![c] = e]
        /\ edges' = IF e # ending[c] /\ e = "reset" THEN edges \cup {c} ELSE edges
  BY <1>1 DEF Answer
<1>4. /\ e \in {"no", "fin", "reset", "broken"}
      /\ e = "no" <=> ending[c] = "no"
  <2>1. ending[c] \in {"no", "fin", "reset", "broken"}
    BY Typed
  <2> QED
    BY <1>3, <2>1 DEF AfterSend
<1>5. /\ ending' \in [Clients -> {"no", "fin", "reset", "broken"}]
      /\ \A d \in Clients : ending'[d] = IF d = c THEN e ELSE ending[d]
  BY <1>3, <1>4, Typed
<1>6. \A d \in Clients : HasData(d)' <=> HasData(d)
  BY <1>2, <1>4, <1>5 DEF HasData
<1>7. \A f : InBatch(f)' <=> InBatch(f)
  BY <1>2 DEF InBatch
<1>8. edges \subseteq edges' /\ edges' \subseteq edges \cup {c}
  BY <1>3
<1>9. Queues'
  BY <1>2, <1>7 DEF EpollInv, Queues, Pending
<1>10. Registered'
  BY <1>1, <1>2, <1>7, <1>8 DEF EpollInv, Registered
<1>11. Serving'
  BY <1>2 DEF EpollInv, Serving
<1>12. Announced'
  BY <1>2, <1>6, <1>7, <1>8 DEF EpollInv, Announced
<1>13. StillReadable' /\ Curfds'
  BY <1>2, Typed DEF EpollInv, StillReadable, Curfds
<1>14. TypeOK'
  BY <1>2, <1>5, <1>8 DEF EpollInv, TypeOK
<1> QED
  BY <1>9, <1>10, <1>11, <1>12, <1>13, <1>14 DEF EpollInv

LEMMA RecvDoneKeeps == EpollInv /\ RecvDone => EpollInv'
<1> SUFFICES ASSUME EpollInv, RecvDone PROVE EpollInv'
  OBVIOUS
<1>1. PICK c \in Clients : c = From /\ InBatch(c) /\ conn[c] = "open" /\ batch # <<>>
  BY Served DEF RecvDone
<1>2. /\ version = 2 /\ pc = "recv" /\ ~HasData(c) /\ EventHandled
      /\ UNCHANGED <<version, conn, ending, sent, unread, backlog, edges, curfds, acceptFailed>>
  BY <1>1 DEF RecvDone
<1>3. /\ pc' = "batch" /\ batch' \in Seq(Clients \cup {Listen})
      /\ \A i, j \in 1 .. Len(batch') : batch'[i] = batch'[j] => i = j
      /\ \A f : InBatch(f)' <=> InBatch(f) /\ f # c
  BY <1>1, <1>2, Handled DEF From
<1>4. Queues'
  BY <1>2, <1>3 DEF EpollInv, Queues, Pending
<1>5. Registered' /\ Serving' /\ StillReadable'
  BY <1>2, <1>3 DEF EpollInv, Registered, Serving, StillReadable
<1>6. Announced'
  <2>1. Listen # c
    BY Typed
  <2> QED
    BY <1>2, <1>3, <2>1 DEF EpollInv, Announced, HasData
<1>7. Curfds'
  BY <1>2 DEF EpollInv, Curfds
<1>8. TypeOK'
  BY <1>2, <1>3 DEF EpollInv, TypeOK
<1> QED
  BY <1>4, <1>5, <1>6, <1>7, <1>8 DEF EpollInv

LEMMA CloseKeeps ==
  ASSUME EpollInv, pc = "recv", CloseClient, curfds' = CountDown
  PROVE  EpollInv'
<1>1. PICK c \in Clients : c = From /\ InBatch(c) /\ conn[c] = "open" /\ batch # <<>>
  BY Served
<1>2. /\ conn' = [conn EXCEPT ![c] = "closed"] /\ edges' = edges \ {c} /\ EventHandled
      /\ UNCHANGED <<version, ending, sent, unread, backlog, acceptFailed>>
  BY <1>1 DEF CloseClient
<1>3. /\ pc' = "batch" /\ batch' \in Seq(Clients \cup {Listen})
      /\ \A i, j \in 1 .. Len(batch') : batch'[i] = batch'[j] => i = j
      /\ \A f : InBatch(f)' <=> InBatch(f) /\ f # c
  BY <1>1, <1>2, Handled DEF From
<1>4. /\ conn' \in [Clients -> {"none", "backlog", "open", "closed"}]
      /\ \A d \in Clients : conn'[d] = IF d = c THEN "closed" ELSE conn[d]
  BY <1>2, Typed
<1>5. Listen # c
  BY Typed
<1>6. Queues'
  <2>1. \A d \in Clients : conn'[d] = "backlog" <=> Pending(d)'
    BY <1>1, <1>2, <1>4 DEF EpollInv, Queues, Pending
  <2>2. \A i, j \in 1 .. Len(backlog') : backlog'[i] = backlog'[j] => i = j
    BY <1>2 DEF EpollInv, Queues
  <2> QED
    BY <1>3, <2>1, <2>2 DEF Queues
<1>7. Registered'
  BY <1>2, <1>3, <1>4 DEF EpollInv, Registered
<1>8. Serving'
  BY <1>3 DEF Serving
<1>9. StillReadable'
  BY <1>2, <1>3 DEF EpollInv, StillReadable, Readable, HasData
<1>10. Announced'
  BY <1>2, <1>3, <1>4, <1>5 DEF EpollInv, Announced, HasData
<1>11. Curfds'
  <2>1. /\ Cardinality(Opened') = Cardinality(Opened) - 1
        /\ Cardinality(Opened) \in Nat /\ Cardinality(Opened) >= 1
    BY <1>1, <1>2, ClosesOne, OpenedBound
  <2>2. version = 1 => curfds = 1 + Cardinality(Opened) /\ curfds' = curfds - 1
    BY DEF EpollInv, Curfds, CountDown
  <2>3. version = 1 => curfds' = 1 + Cardinality(Opened')
    BY <2>1, <2>2
  <2>4. version = 2 => curfds' = 1
    BY DEF EpollInv, Curfds, CountDown
  <2> QED
    BY <1>2, <2>3, <2>4 DEF Curfds
<1>12. TypeOK'
  <2>1. curfds' \in 1 .. Cardinality(Clients) + 1
    BY <1>2, <1>3, <1>11, CurfdsTyped
  <2> QED
    BY <1>2, <1>3, <1>4, <2>1 DEF EpollInv, TypeOK
<1> QED
  BY <1>6, <1>7, <1>8, <1>9, <1>10, <1>11, <1>12 DEF EpollInv

---------------------------------------------------------------------------
LEMMA EpollInit == Init => EpollInv
<1> SUFFICES ASSUME Init PROVE EpollInv
  OBVIOUS
<1>1. /\ version \in {1, 2} /\ version \in Versions
      /\ IsFiniteSet(Clients) /\ MaxSends \in Nat
  BY ConstantsAssumption DEF Init
<1>2. /\ conn = [c \in Clients |-> "none"] /\ ending = [c \in Clients |-> "no"]
      /\ sent = [c \in Clients |-> 0] /\ unread = [c \in Clients |-> 0] /\ backlog = <<>>
      /\ edges = {} /\ curfds = 1 /\ pc = "wait" /\ batch = <<>> /\ acceptFailed = FALSE
  BY DEF Init, Listening
<1>3. \A i \in 1 .. Len(<<>>) : FALSE
  OBVIOUS
<1>4. (\A f : ~InBatch(f)) /\ (\A c : ~Pending(c))
  BY <1>2, <1>3 DEF InBatch, Pending
<1>5. Queues
  <2>1. /\ \A i, j \in 1 .. Len(backlog) : backlog[i] = backlog[j] => i = j
        /\ \A i, j \in 1 .. Len(batch) : batch[i] = batch[j] => i = j
    BY <1>2, <1>3
  <2> QED
    BY <1>2, <1>4, <2>1 DEF Queues
<1>6. Registered /\ Serving /\ Announced /\ StillReadable
  BY <1>2, <1>4 DEF Registered, Serving, Announced, StillReadable
<1>7. Curfds
  <2>1. Opened = {}
    BY <1>2 DEF Opened
  <2>2. Cardinality(Opened) = 0
    BY <2>1, FS_EmptySet
  <2> QED
    BY <1>2, <2>2 DEF Curfds
<1>8. TypeOK
  <2>1. curfds \in 1 .. Cardinality(Clients) + 1
    BY <1>1, <1>2, FS_CardinalityType
  <2>2. backlog \in Seq(Clients) /\ batch \in Seq(Clients \cup {Listen})
    BY <1>2
  <2>3. sent \in [Clients -> 0 .. MaxSends] /\ unread \in [Clients -> 0 .. MaxSends]
    BY <1>1, <1>2
  <2>4. /\ conn \in [Clients -> {"none", "backlog", "open", "closed"}]
        /\ ending \in [Clients -> {"no", "fin", "reset", "broken"}]
    BY <1>2
  <2> QED
    BY <1>1, <1>2, <2>1, <2>2, <2>3, <2>4 DEF TypeOK
<1> QED
  BY <1>5, <1>6, <1>7, <1>8 DEF EpollInv

\* The inductive invariant of both versions.
THEOREM EpollInvariance == Spec => []EpollInv
<1>1. EpollInv /\ [Next]_vars => EpollInv'
  <2> SUFFICES ASSUME EpollInv, [Next]_vars PROVE EpollInv'
    OBVIOUS
  <2>1. CASE UNCHANGED vars
    BY <2>1 DEF vars, server, EpollInv, TypeOK, Queues, Registered, Serving, Announced,
                StillReadable, Curfds, Pending, InBatch, Readable, HasData, Opened
  <2>2. CASE EpollWait \/ NextEvent \/ BatchDone
    BY <2>2, EpollWaitKeeps, LoopKeeps
  <2>3. CASE Accept \/ AcceptDone \/ AcceptFails \/ RegisterFails
    BY <2>3, AcceptKeeps, AcceptEndKeeps, RegisterFailsKeeps
  <2>4. CASE RecvData \/ Answer \/ RecvDone
    BY <2>4, RecvDataKeeps, AnswerKeeps, RecvDoneKeeps
  <2>5. CASE Sigpipe \/ WaitFails \/ StopsAccepting
    BY <2>5, StopsKeeps DEF Sigpipe, WaitFails, StopsAccepting
  <2>6. CASE RecvEof
    BY <2>6, CloseKeeps DEF RecvEof
  <2>7. CASE RecvFails
    BY <2>7, CloseKeeps, StopsKeeps DEF RecvFails, CountDown
  <2>8. ASSUME NEW c \in Clients, Connect(c) \/ Send(c) \/ Leave(c) PROVE EpollInv'
    BY <2>8, ConnectKeeps, ArrivesKeeps
  <2> QED
    BY <2>1, <2>2, <2>3, <2>4, <2>5, <2>6, <2>7, <2>8 DEF Next, ServerStep, Fault
<1> QED
  BY <1>1, EpollInit, PTL DEF Spec

\* server.c never blocks in accept or recv and counts its clients right;
\* server_v2.c never waits while somebody is readable whom no event will report,
\* unless accept itself has failed.
THEOREM EdgesTrusted == Spec => []NeverBlocksNorForgets
<1>1. EpollInv => NeverBlocksNorForgets
  <2> SUFFICES ASSUME EpollInv PROVE NeverBlocksNorForgets
    OBVIOUS
  <2>1. CountMatches
    BY DEF EpollInv, Curfds, CountMatches, Opened
  <2>2. ASSUME version = 1, pc = "accept" PROVE backlog # <<>>
    <3>1. batch # <<>> /\ Head(batch) = Listen
      BY <2>2 DEF EpollInv, Serving
    <3>2. InBatch(Listen)
      BY <3>1, Typed, Rest DEF EpollInv, Queues, InBatch
    <3> QED
      BY <2>2, <3>2 DEF EpollInv, StillReadable, Readable
  <2>3. ASSUME version = 1, pc = "recv" PROVE HasData(From)
    <3>1. From \in Clients /\ InBatch(From)
      BY <2>3, Served
    <3>2. From # Listen
      BY <3>1, Typed
    <3> QED
      BY <2>3, <3>1, <3>2 DEF EpollInv, StillReadable, Readable
  <2>4. ASSUME version = 2, pc = "wait"
        PROVE  /\ backlog # <<>> => Listen \in edges \/ acceptFailed
               /\ \A c \in Clients : conn[c] = "open" /\ HasData(c) => c \in edges
    <3>1. \A f : ~InBatch(f)
      <4>1. batch = <<>>
        BY <2>4 DEF EpollInv, Serving
      <4>2. \A i \in 1 .. Len(<<>>) : FALSE
        OBVIOUS
      <4> QED
        BY <4>1, <4>2 DEF InBatch
    <3> QED
      BY <2>4, <3>1 DEF EpollInv, Announced
  <2> QED
    BY <2>1, <2>2, <2>3, <2>4 DEF NeverBlocksNorForgets, EdgesSuffice
<1> QED
  BY <1>1, EpollInvariance, PTL

---------------------------------------------------------------------------
(* The UDP programs.  A client prints whatever arrives, so InStep is about *)
(* where a datagram can be: every request under way is of the client whose *)
(* address it has (Asked), every reply goes back to it or, in the          *)
(* broadcast, to a socket with its port (Answered).  While nothing of a    *)
(* client was doubled or missed and nobody has its port, it has at most    *)
(* one datagram under way, and that one is about its last line             *)
(* (OneUnderWay): the reply it waits for is the only one there can be.     *)

Bag(b) == b \in [DOMAIN b -> Nat \ {0}]

OwnAddresses ==
  /\ typed \in [Clients -> Nat] /\ shown \in [Clients -> SUBSET [line : Udp!Lines, after : Nat]]
  /\ \A c, d \in Clients : Udp!Address(c) = Udp!Address(d) => c = d
  /\ \A c \in Clients : cpc[c] = "wait" => typed[c] > 0

Asked ==
  \A d \in DOMAIN requests :
    /\ d.from = Udp!Address(d.line[1]) /\ d.line[2] <= typed[d.line[1]]
    /\ kind = "echo" => d.to = HostOf[d.line[1]]

Answered ==
  \A d \in DOMAIN replies :
    /\ d.line[2] <= typed[d.line[1]]
    /\ IF kind = "echo" THEN d.to = Udp!Address(d.line[1]) ELSE d.to[2] = port[d.line[1]]

ToAnswer(c, d) == d.to = HostOf[c] /\ d.line[1] = c
ToShow(c, d)   == d.to = Udp!Address(c)
Alone(c)       == doubled = 0 /\ c \notin missed /\ Udp!Askers(c) = {c}

OneUnderWay(c) ==
  /\ \A d \in DOMAIN requests :
       ToAnswer(c, d) => cpc[c] = "wait" /\ d.line[2] = typed[c] /\ requests[d] = 1
  /\ \A d \in DOMAIN replies :
       ToShow(c, d) => cpc[c] = "wait" /\ d.line = <<c, typed[c]>> /\ replies[d] = 1
  /\ \A d \in DOMAIN requests, r \in DOMAIN replies : ~(ToAnswer(c, d) /\ ToShow(c, r))

UdpInv ==
  /\ Udp!TypeOK /\ OwnAddresses /\ Asked /\ Answered /\ InStep
  /\ \A c \in Clients : Alone(c) => OneUnderWay(c)

\* What taking one datagram from a bag and adding some leaves of the others.
Drops(b, n, d) ==
  /\ Bag(n) /\ DOMAIN n \subseteq DOMAIN b
  /\ \A e \in DOMAIN n : e # d => n[e] = b[e]
  /\ b[d] = 1 => d \notin DOMAIN n

Adds(b, n, S) ==
  /\ Bag(n) /\ DOMAIN n = DOMAIN b \cup S
  /\ \A e \in DOMAIN n : e \notin S => n[e] = b[e]
  /\ \A e \in S : e \notin DOMAIN b => n[e] = 1

LEMMA TakingDrops ==
  ASSUME NEW b, Bag(b), NEW d \in DOMAIN b
  PROVE  Drops(b, b (-) SetToBag({d}), d)
<1> DEFINE m == [e \in DOMAIN b |-> IF e \in DOMAIN SetToBag({d}) THEN b[e] - SetToBag({d})[e] ELSE b[e]]
           n == [e \in {x \in DOMAIN m : m[x] > 0} |-> m[e]]
<1>1. b (-) SetToBag({d}) = n
  BY DEF (-)
<1>2. DOMAIN SetToBag({d}) = {d} /\ SetToBag({d})[d] = 1
  BY DEF SetToBag
<1>3. DOMAIN m = DOMAIN b /\ \A e \in DOMAIN b : m[e] = IF e = d THEN b[e] - 1 ELSE b[e]
  BY <1>2
<1>4. \A e \in DOMAIN b : b[e] \in Nat \ {0}
  BY DEF Bag
<1> HIDE DEF m
<1>5. DOMAIN n = {x \in DOMAIN m : m[x] > 0} /\ \A e \in DOMAIN n : n[e] = m[e]
  OBVIOUS
<1>6. n = [e \in DOMAIN n |-> n[e]]
  OBVIOUS
<1> HIDE DEF n
<1>7. \A e \in DOMAIN n : n[e] \in Nat \ {0}
  BY <1>3, <1>4, <1>5
<1>8. Bag(n)
  BY <1>6, <1>7 DEF Bag
<1>9. b[d] = 1 => d \notin DOMAIN n
  BY <1>3, <1>5
<1> QED
  BY <1>1, <1>3, <1>5, <1>8, <1>9 DEF Drops

LEMMA AddingAdds ==
  ASSUME NEW b, Bag(b), NEW S
  PROVE  Adds(b, b (+) SetToBag(S), S)
<1> DEFINE t == SetToBag(S)
           n == [e \in DOMAIN b \cup DOMAIN t |->
                   (IF e \in DOMAIN b THEN b[e] ELSE 0) + (IF e \in DOMAIN t THEN t[e] ELSE 0)]
<1>1. b (+) SetToBag(S) = n
  BY DEF (+)
<1>2. DOMAIN t = S /\ \A e \in S : t[e] = 1
  BY DEF SetToBag
<1> HIDE DEF t
<1>3. \A e \in DOMAIN b : b[e] \in Nat \ {0}
  BY DEF Bag
<1>4. /\ DOMAIN n = DOMAIN b \cup S
      /\ \A e \in DOMAIN n : n[e] = (IF e \in DOMAIN b THEN b[e] ELSE 0) + (IF e \in S THEN 1 ELSE 0)
  BY <1>2
<1>5. n = [e \in DOMAIN n |-> n[e]]
  OBVIOUS
<1> HIDE DEF n
<1>6. \A e \in DOMAIN n : n[e] \in Nat \ {0}
  BY <1>3, <1>4
<1>7. Bag(n)
  BY <1>5, <1>6 DEF Bag
<1>8. \A e \in DOMAIN n : e \notin S => n[e] = b[e]
  BY <1>3, <1>4
<1>9. \A e \in S : e \notin DOMAIN b => n[e] = 1
  BY <1>4
<1> QED
  BY <1>1, <1>4, <1>7, <1>8, <1>9 DEF Adds

---------------------------------------------------------------------------
(* Datagrams and lines *)

Fewer(b, n) ==
  /\ Bag(n) /\ DOMAIN n \subseteq DOMAIN b
  /\ \A e \in DOMAIN n : b[e] = 1 => n[e] = 1

LEMMA DropsFewer == ASSUME NEW b, NEW n, NEW d, Drops(b, n, d) PROVE Fewer(b, n)
  BY DEF Drops, Fewer

LEMMA SameFewer == ASSUME NEW b, Bag(b) PROVE Fewer(b, b)
  BY DEF Fewer

LEMMA LineOf ==
  /\ \A l \in Udp!Lines : l[1] \in Clients /\ l[2] \in 1 .. MaxLines[l[1]] /\ l = <<l[1], l[2]>>
  /\ \A c \in Clients : \A n \in 1 .. MaxLines[c] : <<c, n>> \in Udp!Lines
<1>1. ASSUME NEW l \in Udp!Lines
      PROVE  l[1] \in Clients /\ l[2] \in 1 .. MaxLines[l[1]] /\ l = <<l[1], l[2]>>
  <2>1. PICK c \in Clients : l \in {c} \X (1 .. MaxLines[c])
    BY DEF Udp!Lines
  <2> QED
    BY <2>1
<1>2. ASSUME NEW c \in Clients, NEW n \in 1 .. MaxLines[c]
      PROVE  <<c, n>> \in Udp!Lines
  <2>1. <<c, n>> \in {c} \X (1 .. MaxLines[c])
    OBVIOUS
  <2> QED
    BY <2>1 DEF Udp!Lines
<1> QED
  BY <1>1, <1>2

Request == [to : serving, from : Hosts \X Ports, line : Udp!Lines]
Reply == [to : Hosts \X Ports, line : Udp!Lines]

LEMMA UdpTyped ==
  ASSUME UdpInv
  PROVE  /\ HostOf \in [Clients -> Hosts] /\ MaxLines \in [Clients -> Nat]
         /\ serving \subseteq Hosts /\ port \in [Clients -> Ports]
         /\ Bag(requests) /\ DOMAIN requests \subseteq Request
         /\ Bag(replies) /\ DOMAIN replies \subseteq Reply
         /\ cpc \in [Clients -> {"input", "wait", "closed"}]
         /\ typed \in [Clients -> Nat] /\ \A c \in Clients : typed[c] \in 0 .. MaxLines[c]
         /\ missed \subseteq Clients /\ doubled \in Nat /\ kind \in {"echo", "broadcast"}
<1>1. /\ HostOf \in [Clients -> Hosts] /\ MaxLines \in [Clients -> Nat]
      /\ MaxDoubled \in [{"echo", "broadcast"} -> Nat]
  BY PartsAssumption DEF Udp!UdpAssumption
<1>2. /\ Bag(requests) /\ DOMAIN requests \subseteq Request
      /\ Bag(replies) /\ DOMAIN replies \subseteq Reply
  <2>1. {n \in Nat : n > 0} = Nat \ {0}
    OBVIOUS
  <2> QED
    BY <2>1 DEF UdpInv, Udp!TypeOK, Udp!IsABag, Udp!BagToSet, Bag, Request, Reply
<1>3. doubled \in Nat
  <2>1. MaxDoubled[kind] \in Nat
    BY <1>1 DEF UdpInv, Udp!TypeOK
  <2> QED
    BY <2>1 DEF UdpInv, Udp!TypeOK
<1> QED
  BY <1>1, <1>2, <1>3 DEF UdpInv, Udp!TypeOK, OwnAddresses

LEMMA BagTypes ==
  ASSUME Bag(requests)', (DOMAIN requests \subseteq Request)',
         Bag(replies)', (DOMAIN replies \subseteq Reply)'
  PROVE  /\ Udp!IsABag(requests)' /\ Udp!IsABag(replies)'
         /\ (Udp!BagToSet(requests) \subseteq [to : serving, from : Hosts \X Ports, line : Udp!Lines])'
         /\ (Udp!BagToSet(replies) \subseteq [to : Hosts \X Ports, line : Udp!Lines])'
<1>1. {n \in Nat : n > 0} = Nat \ {0}
  OBVIOUS
<1> QED
  BY <1>1 DEF Udp!IsABag, Udp!BagToSet, Bag, Request, Reply

\* A datagram is lost, or thrown away with its socket; a client may leave recvfrom
\* with an error, or end.
LEMMA FewerKeeps ==
  ASSUME UdpInv, Fewer(requests, requests'), Fewer(replies, replies'),
         UNCHANGED <<kind, serving, port, typed, shown, doubled>>,
         lost' \in BOOLEAN, missed \subseteq missed', missed' \subseteq Clients,
         cpc' \in [Clients -> {"input", "wait", "closed"}],
         \A c \in Clients : cpc'[c] = "wait" => cpc[c] = "wait",
         \A c \in Clients : cpc[c] = "wait" /\ c \notin missed' => cpc'[c] = "wait"
  PROVE  UdpInv'
<1>1. /\ Bag(requests') /\ Bag(replies')
      /\ DOMAIN requests' \subseteq DOMAIN requests /\ DOMAIN replies' \subseteq DOMAIN replies
      /\ \A e \in DOMAIN requests' : requests[e] = 1 => requests'[e] = 1
      /\ \A e \in DOMAIN replies' : replies[e] = 1 => replies'[e] = 1
  BY DEF Fewer
<1>2. Udp!TypeOK'
  <2>1. (DOMAIN requests \subseteq Request)' /\ (DOMAIN replies \subseteq Reply)'
    BY <1>1, UdpTyped DEF Request, Reply
  <2> QED
    BY <1>1, <2>1, BagTypes DEF UdpInv, Udp!TypeOK
<1>3. OwnAddresses'
  BY DEF UdpInv, OwnAddresses, Udp!Address
<1>4. Asked' /\ Answered'
  BY <1>1 DEF UdpInv, Asked, Answered, Udp!Address
<1>5. InStep'
  <2>1. \A c \in Clients : Udp!Askers(c)' = Udp!Askers(c)
    BY DEF Udp!Askers
  <2>2. \A c \in Clients : c \notin missed' => c \notin missed
    OBVIOUS
  <2>3. Udp!InStep
    BY DEF UdpInv, InStep
  <2> QED
    BY <2>1, <2>2, <2>3 DEF InStep, Udp!InStep
<1>6. ASSUME NEW c \in Clients, Alone(c)' PROVE OneUnderWay(c)'
  <2>1. Alone(c) /\ c \notin missed'
    BY <1>6 DEF Alone, Udp!Askers
  <2>2. OneUnderWay(c) /\ (cpc[c] = "wait" => cpc'[c] = "wait")
    BY <2>1 DEF UdpInv
  <2> QED
    BY <1>1, <2>2 DEF OneUnderWay, ToAnswer, ToShow, Udp!Address
<1> QED
  BY <1>2, <1>3, <1>4, <1>5, <1>6 DEF UdpInv

LEMMA LossKeeps ==
  ASSUME UdpInv, NEW c \in Clients, Udp!AskFails(c) \/ Udp!ReceiveFails(c) \/ Udp!Quit(c) \/ Udp!Lose
  PROVE  UdpInv'
<1>0. Fewer(requests, requests) /\ Fewer(replies, replies) /\ lost \in BOOLEAN
  BY UdpTyped, SameFewer DEF UdpInv, Udp!TypeOK
<1>1. CASE Udp!AskFails(c)
  <2>1. /\ cpc[c] = "input" /\ cpc' = [cpc EXCEPT ![c] = "input"]
        /\ UNCHANGED <<kind, serving, port, requests, replies, typed, shown, lost, doubled, missed>>
    BY <1>1 DEF Udp!AskFails, Udp!CanType, Udp!AfterRefusal
  <2>2. /\ cpc' \in [Clients -> {"input", "wait", "closed"}]
        /\ \A d \in Clients : cpc'[d] = "wait" <=> cpc[d] = "wait"
    BY <2>1, UdpTyped
  <2> QED
    BY <1>0, <2>1, <2>2, UdpTyped, FewerKeeps
<1>2. CASE Udp!ReceiveFails(c)
  <2>1. /\ cpc' = [cpc EXCEPT ![c] = "input"] /\ missed' = missed \cup {c}
        /\ UNCHANGED <<kind, serving, port, requests, replies, typed, shown, lost, doubled>>
    BY <1>2 DEF Udp!ReceiveFails
  <2>2. /\ cpc' \in [Clients -> {"input", "wait", "closed"}]
        /\ \A d \in Clients : d # c => cpc'[d] = cpc[d]
        /\ cpc'[c] = "input"
    BY <2>1, UdpTyped
  <2>3. missed \subseteq missed' /\ missed' \subseteq Clients /\ c \in missed'
    BY <2>1, UdpTyped
  <2> QED
    BY <1>0, <2>1, <2>2, <2>3, FewerKeeps
<1>3. CASE Udp!Quit(c)
  <2>1. /\ cpc[c] = "input" /\ cpc' = [cpc EXCEPT ![c] = "closed"]
        /\ UNCHANGED <<kind, serving, port, requests, typed, shown, lost, doubled, missed>>
    BY <1>3 DEF Udp!Quit
  <2>2. /\ cpc' \in [Clients -> {"input", "wait", "closed"}]
        /\ \A d \in Clients : cpc'[d] = "wait" <=> cpc[d] = "wait"
    BY <2>1, UdpTyped
  <2>3. Fewer(replies, replies')
    <3> DEFINE kept == {e \in DOMAIN replies : e.to # Udp!Address(c)}
    <3>1. replies' = [d \in kept |-> replies[d]]
      BY <1>3 DEF Udp!Quit, Udp!BagToSet
    <3>2. kept \subseteq DOMAIN replies /\ \A d \in DOMAIN replies : replies[d] \in Nat \ {0}
      BY UdpTyped DEF Bag
    <3> HIDE DEF kept
    <3>3. DOMAIN replies' = kept /\ \A d \in kept : replies'[d] = replies[d]
      BY <3>1
    <3>4. Bag(replies')
      BY <3>1, <3>2, <3>3 DEF Bag
    <3> QED
      BY <3>2, <3>3, <3>4 DEF Fewer
  <2> QED
    BY <1>0, <2>1, <2>2, <2>3, UdpTyped, FewerKeeps
<1>4. CASE Udp!Lose
  <2>1. /\ lost' = TRUE
        /\ UNCHANGED <<kind, serving, port, cpc, typed, shown, doubled, missed>>
    BY <1>4 DEF Udp!Lose
  <2>2. Fewer(requests, requests') /\ Fewer(replies, replies')
    <3>1. CASE \E d \in DOMAIN requests : requests' = requests (-) SetToBag({d}) /\ UNCHANGED replies
      BY <1>0, <3>1, UdpTyped, TakingDrops, DropsFewer
    <3>2. CASE \E d \in DOMAIN replies : replies' = replies (-) SetToBag({d}) /\ UNCHANGED requests
      BY <1>0, <3>2, UdpTyped, TakingDrops, DropsFewer
    <3> QED
      BY <1>4, <3>1, <3>2, Zenon DEF Udp!Lose, Udp!BagToSet, Udp!(-), (-), Udp!SetToBag, SetToBag
  <2> QED
    BY <2>1, <2>2, UdpTyped, FewerKeeps
<1> QED
  BY <1>1, <1>2, <1>3, <1>4

---------------------------------------------------------------------------
(* What the client prints, and the requests, replies and copies that come *)
(* into being.                                                            *)

LEMMA ReceiveKeeps ==
  ASSUME UdpInv, NEW c \in Clients, Udp!Receive(c)
  PROVE  UdpInv'
<1>1. PICK d \in DOMAIN replies :
        /\ d.to = Udp!Address(c)
        /\ replies' = replies (-) SetToBag({d})
        /\ shown' = [shown EXCEPT ![c] = shown[c] \cup {[line |-> d.line, after |-> typed[c]]}]
  BY Zenon DEF Udp!Receive, Udp!BagToSet, Udp!(-), (-), Udp!SetToBag, SetToBag
<1>2. /\ cpc[c] = "wait" /\ cpc' = [cpc EXCEPT ![c] = "input"]
      /\ UNCHANGED <<kind, serving, port, requests, typed, lost, doubled, missed>>
  BY DEF Udp!Receive
<1>3. /\ cpc' \in [Clients -> {"input", "wait", "closed"}]
      /\ \A e \in Clients : cpc'[e] = IF e = c THEN "input" ELSE cpc[e]
  BY <1>2, UdpTyped
<1>4. Drops(replies, replies', d)
  BY <1>1, UdpTyped, TakingDrops
<1>5. Bag(replies') /\ DOMAIN replies' \subseteq DOMAIN replies
  BY <1>4 DEF Drops
<1> DEFINE p == [line |-> d.line, after |-> typed[c]]
<1>6. \A e \in Clients : shown'[e] = IF e = c THEN shown[c] \cup {p} ELSE shown[e]
  BY <1>1 DEF UdpInv, OwnAddresses
<1>7. /\ d.line \in Udp!Lines /\ d.line[1] \in Clients /\ d.line[2] \in 1 .. MaxLines[d.line[1]]
      /\ d.line = <<d.line[1], d.line[2]>> /\ d.line[2] <= typed[d.line[1]]
      /\ typed[c] \in 1 .. MaxLines[c]
  <2>1. d.line \in Udp!Lines
    BY UdpTyped DEF Reply
  <2>2. typed[c] \in 0 .. MaxLines[c] /\ typed[c] > 0 /\ MaxLines[c] \in Nat
    BY <1>2, UdpTyped DEF UdpInv, OwnAddresses
  <2> QED
    BY <2>1, <2>2, LineOf DEF UdpInv, Answered
<1>8. d.line[1] \in Udp!Askers(c)
  <2>1. CASE kind = "echo"
    <3>1. Udp!Address(d.line[1]) = Udp!Address(c)
      BY <1>1, <2>1 DEF UdpInv, Answered
    <3>2. d.line[1] = c
      BY <1>7, <3>1 DEF UdpInv, OwnAddresses
    <3> QED
      BY <2>1, <3>2 DEF Udp!Askers
  <2>2. CASE kind # "echo"
    <3>1. d.to[2] = port[d.line[1]] /\ Udp!Address(c)[2] = port[c]
      BY <2>2 DEF UdpInv, Answered, Udp!Address
    <3> QED
      BY <1>1, <1>7, <2>2, <3>1 DEF Udp!Askers
  <2> QED
    BY <2>1, <2>2
<1>9. Alone(c) => d.line = <<c, typed[c]>> /\ d \notin DOMAIN replies'
  <2>1. Alone(c) => d.line = <<c, typed[c]>> /\ replies[d] = 1
    BY <1>1 DEF UdpInv, OneUnderWay, ToShow
  <2> QED
    BY <1>4, <2>1 DEF Drops
<1>10. \A e \in Clients : Udp!Askers(e)' = Udp!Askers(e)
  BY <1>2 DEF Udp!Askers
<1>11. p.line = d.line /\ p.after = typed[c]
  OBVIOUS
<1>12. p \in [line : Udp!Lines, after : 1 .. MaxLines[c]]
  BY <1>7
<1> HIDE DEF p
<1>13. InStep'
  <2> SUFFICES ASSUME NEW e \in Clients, NEW r \in shown'[e]
               PROVE  /\ r.line[1] \in Udp!Askers(e)
                      /\ r.line[1] = e => r.line[2] <= r.after
                      /\ doubled = 0 /\ e \notin missed /\ Udp!Askers(e) = {e} => r.line = <<e, r.after>>
    BY <1>2, <1>10 DEF InStep, Udp!InStep
  <2>1. CASE r \in shown[e]
    BY <2>1 DEF UdpInv, InStep, Udp!InStep
  <2>2. CASE r \notin shown[e]
    <3>1. e = c /\ r = p
      BY <1>6, <2>2
    <3> QED
      BY <1>7, <1>8, <1>9, <1>11, <3>1 DEF Alone
  <2> QED
    BY <2>1, <2>2
<1>14. Udp!TypeOK'
  <2>1. (DOMAIN requests \subseteq Request)' /\ (DOMAIN replies \subseteq Reply)'
    BY <1>2, <1>5, UdpTyped DEF Request, Reply
  <2>2. Bag(requests)' /\ Bag(replies)'
    BY <1>2, <1>5, UdpTyped
  <2>3. \A e \in Clients : shown'[e] \subseteq [line : Udp!Lines, after : 1 .. MaxLines[e]]
    <3>1. \A e \in Clients : shown[e] \subseteq [line : Udp!Lines, after : 1 .. MaxLines[e]]
      BY DEF UdpInv, Udp!TypeOK
    <3> QED
      BY <1>6, <1>12, <3>1
  <2>4. \A e \in Clients : \A r \in shown'[e] : r.line[2] <= typed'[r.line[1]]
    BY <1>2, <1>6, <1>7, <1>11 DEF UdpInv, Udp!TypeOK
  <2>5. /\ kind' \in {"echo", "broadcast"} /\ serving' \subseteq Hosts /\ port' \in [Clients -> Ports]
        /\ \A e \in Clients : typed'[e] \in 0 .. MaxLines[e]
        /\ lost' \in BOOLEAN /\ doubled' \in 0 .. MaxDoubled[kind'] /\ missed' \subseteq Clients
    BY <1>2 DEF UdpInv, Udp!TypeOK
  <2> QED
    BY <1>3, <2>1, <2>2, <2>3, <2>4, <2>5, BagTypes DEF Udp!TypeOK
<1>15. OwnAddresses'
  <2>1. shown' \in [Clients -> SUBSET [line : Udp!Lines, after : Nat]]
    <3>1. p \in [line : Udp!Lines, after : Nat]
      BY <1>12, UdpTyped
    <3>2. shown \in [Clients -> SUBSET [line : Udp!Lines, after : Nat]]
      BY DEF UdpInv, OwnAddresses
    <3>3. shown' = [shown EXCEPT ![c] = shown[c] \cup {p}]
      BY <1>1 DEF p
    <3> QED
      BY <3>1, <3>2, <3>3
  <2>2. \A e \in Clients : cpc'[e] = "wait" => typed'[e] > 0
    BY <1>2, <1>3 DEF UdpInv, OwnAddresses
  <2>3. /\ typed' \in [Clients -> Nat]
        /\ \A e, f \in Clients : Udp!Address(e)' = Udp!Address(f)' => e = f
    BY <1>2 DEF UdpInv, OwnAddresses, Udp!Address
  <2> QED
    BY <2>1, <2>2, <2>3 DEF OwnAddresses
<1>16. Asked' /\ Answered'
  BY <1>2, <1>5 DEF UdpInv, Asked, Answered, Udp!Address
<1>17. ASSUME NEW e \in Clients, Alone(e)' PROVE OneUnderWay(e)'
  <2>1. Alone(e) /\ OneUnderWay(e)
    BY <1>2, <1>10, <1>17 DEF Alone, UdpInv
  <2>2. CASE e = c
    <3>1. \A q \in DOMAIN requests : ~ToAnswer(c, q)
      BY <1>1, <2>1, <2>2 DEF OneUnderWay, ToShow
    <3>2. \A r \in DOMAIN replies' : ~ToShow(c, r)
      <4> SUFFICES ASSUME NEW r \in DOMAIN replies', ToShow(c, r) PROVE FALSE
        OBVIOUS
      <4>1. r \in DOMAIN replies /\ r.line = <<c, typed[c]>> /\ r.to = Udp!Address(c)
        BY <1>5, <2>1, <2>2 DEF OneUnderWay, ToShow
      <4>2. d.line = <<c, typed[c]>> /\ d \notin DOMAIN replies'
        BY <1>9, <2>1, <2>2
      <4>3. r \in Reply /\ d \in Reply
        BY <4>1, UdpTyped
      <4>4. r = d
        BY <1>1, <4>1, <4>2, <4>3 DEF Reply
      <4> QED
        BY <4>2, <4>4
    <3> QED
      BY <1>2, <2>2, <3>1, <3>2 DEF OneUnderWay, ToAnswer, ToShow, Udp!Address
  <2>3. CASE e # c
    <3>1. cpc'[e] = cpc[e]
      BY <1>3, <2>3
    <3>2. \A r \in DOMAIN replies' : r # d => replies'[r] = replies[r]
      BY <1>4 DEF Drops
    <3>3. ~ToShow(e, d)
      BY <1>1, <2>3 DEF ToShow, UdpInv, OwnAddresses
    <3> QED
      BY <1>2, <1>5, <2>1, <3>1, <3>2, <3>3 DEF OneUnderWay, ToAnswer, ToShow, Udp!Address
  <2> QED
    BY <2>2, <2>3
<1> QED
  BY <1>13, <1>14, <1>15, <1>16, <1>17 DEF UdpInv

\* The line is the client's next, so no datagram under way is about it.
LEMMA AskKeeps ==
  ASSUME UdpInv, NEW c \in Clients, Udp!Ask(c)
  PROVE  UdpInv'
<1> DEFINE n == typed[c] + 1
           S == {[to |-> h, from |-> Udp!Address(c), line |-> <<c, n>>] : h \in Udp!Reached(c)}
<1>1. /\ cpc[c] = "input" /\ typed[c] < MaxLines[c]
      /\ typed' = [typed EXCEPT ![c] = n]
      /\ cpc' = [cpc EXCEPT ![c] = "wait"]
      /\ UNCHANGED <<kind, serving, port, replies, shown, lost, doubled, missed>>
  BY DEF Udp!Ask, Udp!CanType
<1>2. /\ typed[c] \in Nat /\ n \in Nat /\ n \in 1 .. MaxLines[c] /\ n > typed[c]
      /\ \A e \in Clients : typed[e] \in Nat
  BY <1>1, UdpTyped
<1>3. /\ \A e \in Clients : typed'[e] = IF e = c THEN n ELSE typed[e]
      /\ \A e \in Clients : typed[e] <= typed'[e]
      /\ typed' \in [Clients -> Nat]
  <2>1. \A e \in Clients : typed'[e] = IF e = c THEN n ELSE typed[e]
    BY <1>1, UdpTyped
  <2>2. typed' \in [Clients -> Nat]
    BY <1>1, <1>2, UdpTyped
  <2> QED
    BY <1>2, <2>1, <2>2
<1>4. /\ cpc' \in [Clients -> {"input", "wait", "closed"}]
      /\ \A e \in Clients : cpc'[e] = IF e = c THEN "wait" ELSE cpc[e]
  BY <1>1, UdpTyped
<1>5. Adds(requests, requests', S)
  <2>1. typed'[c] = n
    BY <1>3
  <2>2. requests' = requests (+) SetToBag(S)
    BY <2>1 DEF Udp!Ask, Udp!(+), (+), Udp!SetToBag, SetToBag
  <2> QED
    BY <2>2, UdpTyped, AddingAdds
<1>6. Udp!Reached(c) \subseteq serving /\ (kind = "echo" => Udp!Reached(c) \subseteq {HostOf[c]})
  BY DEF Udp!Reached
<1>7. \A s \in S : /\ s \in Request /\ s.from = Udp!Address(c) /\ s.line = <<c, n>>
                   /\ kind = "echo" => s.to = HostOf[c]
  <2> SUFFICES ASSUME NEW h \in Udp!Reached(c)
               PROVE  /\ [to |-> h, from |-> Udp!Address(c), line |-> <<c, n>>] \in Request
                      /\ kind = "echo" => h = HostOf[c]
    OBVIOUS
  <2>1. <<c, n>> \in Udp!Lines
    BY <1>2, LineOf
  <2>2. Udp!Address(c) \in Hosts \X Ports
    BY UdpTyped DEF Udp!Address
  <2> QED
    BY <1>6, <2>1, <2>2 DEF Request
<1> HIDE DEF S
<1>8. /\ Bag(requests') /\ DOMAIN requests' = DOMAIN requests \cup S
      /\ \A s \in DOMAIN requests' : s \notin S => requests'[s] = requests[s]
  BY <1>5 DEF Adds
<1>9. \A d \in DOMAIN requests : d.line[1] \in Clients /\ d.line[2] \in Nat /\ d.line[2] <= typed[d.line[1]]
  <2>1. \A d \in DOMAIN requests : d.line \in Udp!Lines /\ d.line[2] <= typed[d.line[1]]
    BY UdpTyped DEF Request, UdpInv, Asked
  <2>2. \A e \in Clients : MaxLines[e] \in Nat
    BY UdpTyped
  <2> QED
    BY <2>1, <2>2, LineOf
<1>10. \A d \in DOMAIN replies : d.line[1] \in Clients /\ d.line[2] \in Nat /\ d.line[2] <= typed[d.line[1]]
  <2>1. \A d \in DOMAIN replies : d.line \in Udp!Lines /\ d.line[2] <= typed[d.line[1]]
    BY UdpTyped DEF Reply, UdpInv, Answered
  <2>2. \A e \in Clients : MaxLines[e] \in Nat
    BY UdpTyped
  <2> QED
    BY <2>1, <2>2, LineOf
<1>11. \A s \in S : s \notin DOMAIN requests
  <2> SUFFICES ASSUME NEW s \in S, s \in DOMAIN requests PROVE FALSE
    OBVIOUS
  <2>1. s.line[1] = c /\ s.line[2] = n
    BY <1>7
  <2> QED
    BY <1>2, <1>9, <2>1
<1>12. \A s \in S : requests'[s] = 1
  BY <1>5, <1>11 DEF Adds
<1>13. Udp!TypeOK'
  <2>1. (DOMAIN requests \subseteq Request)'
    BY <1>1, <1>7, <1>8, UdpTyped DEF Request
  <2>2. (DOMAIN replies \subseteq Reply)' /\ Bag(replies)'
    BY <1>1, UdpTyped DEF Reply
  <2>3. \A e \in Clients : typed'[e] \in 0 .. MaxLines[e]
    BY <1>2, <1>3, UdpTyped
  <2>4. \A e \in Clients : \A r \in shown'[e] : r.line[2] <= typed'[r.line[1]]
    <3> SUFFICES ASSUME NEW e \in Clients, NEW r \in shown[e]
                 PROVE  r.line[2] <= typed'[r.line[1]]
      BY <1>1
    <3>1. r.line[2] <= typed[r.line[1]] /\ r.line \in Udp!Lines
      BY DEF UdpInv, Udp!TypeOK
    <3>2. r.line[1] \in Clients /\ r.line[2] \in 1 .. MaxLines[r.line[1]]
      BY <3>1, LineOf
    <3>3. MaxLines[r.line[1]] \in Nat /\ typed'[r.line[1]] \in Nat
      BY <1>3, <3>2, UdpTyped
    <3> QED
      BY <1>2, <1>3, <3>1, <3>2, <3>3
  <2>5. /\ kind' \in {"echo", "broadcast"} /\ serving' \subseteq Hosts /\ port' \in [Clients -> Ports]
        /\ \A e \in Clients : shown'[e] \subseteq [line : Udp!Lines, after : 1 .. MaxLines[e]]
        /\ lost' \in BOOLEAN /\ doubled' \in 0 .. MaxDoubled[kind'] /\ missed' \subseteq Clients
    BY <1>1 DEF UdpInv, Udp!TypeOK
  <2> QED
    BY <1>4, <1>8, <2>1, <2>2, <2>3, <2>4, <2>5, BagTypes DEF Udp!TypeOK
<1>14. OwnAddresses'
  <2>1. \A e \in Clients : cpc'[e] = "wait" => typed'[e] > 0
    BY <1>2, <1>3, <1>4 DEF UdpInv, OwnAddresses
  <2>2. /\ shown' \in [Clients -> SUBSET [line : Udp!Lines, after : Nat]]
        /\ \A e, f \in Clients : Udp!Address(e)' = Udp!Address(f)' => e = f
    BY <1>1 DEF UdpInv, OwnAddresses, Udp!Address
  <2> QED
    BY <1>3, <2>1, <2>2 DEF OwnAddresses
<1>15. \A e \in Clients : Udp!Address(e)' = Udp!Address(e)
  BY <1>1 DEF Udp!Address
<1>16. Asked'
  <2> SUFFICES ASSUME NEW d \in DOMAIN requests'
               PROVE  /\ d.from = Udp!Address(d.line[1])' /\ d.line[2] <= typed'[d.line[1]]
                      /\ kind' = "echo" => d.to = HostOf[d.line[1]]
    BY DEF Asked
  <2>1. CASE d \in DOMAIN requests
    <3>1. d.line[2] <= typed'[d.line[1]]
      BY <1>2, <1>3, <1>9, <2>1
    <3> QED
      BY <1>1, <1>9, <1>15, <2>1, <3>1 DEF UdpInv, Asked
  <2>2. CASE d \in S
    <3>1. d.line[1] = c /\ d.line[2] = n /\ typed'[c] = n
      BY <1>3, <1>7, <2>2
    <3> QED
      BY <1>1, <1>2, <1>7, <1>15, <2>2, <3>1
  <2> QED
    BY <1>8, <2>1, <2>2
<1>17. Answered'
  <2> SUFFICES ASSUME NEW d \in DOMAIN replies
               PROVE  /\ d.line[2] <= typed'[d.line[1]]
                      /\ IF kind = "echo" THEN d.to = Udp!Address(d.line[1])' ELSE d.to[2] = port[d.line[1]]
    BY <1>1 DEF Answered
  <2>1. d.line[2] <= typed'[d.line[1]]
    BY <1>2, <1>3, <1>10
  <2> QED
    BY <1>10, <1>15, <2>1 DEF UdpInv, Answered
<1>18. InStep'
  BY <1>1 DEF UdpInv, InStep, Udp!InStep, Udp!Askers
<1>19. ASSUME NEW e \in Clients, Alone(e)' PROVE OneUnderWay(e)'
  <2>1. Alone(e) /\ OneUnderWay(e)
    BY <1>1, <1>19 DEF Alone, Udp!Askers, UdpInv
  <2>2. \A r \in DOMAIN replies' : ToShow(e, r)' <=> ToShow(e, r)
    BY <1>15 DEF ToShow
  <2>3. CASE e = c
    <3>1. (\A d \in DOMAIN requests : ~ToAnswer(c, d)) /\ (\A d \in DOMAIN replies : ~ToShow(c, d))
      BY <1>1, <2>1, <2>3 DEF OneUnderWay
    <3>2. \A d \in DOMAIN requests' : ToAnswer(c, d) => d \in S
      BY <1>8, <3>1
    <3>3. \A d \in S : d.line[2] = n
      BY <1>7
    <3> QED
      BY <1>1, <1>3, <1>4, <1>12, <2>2, <2>3, <3>1, <3>2, <3>3 DEF OneUnderWay, ToAnswer
  <2>4. CASE e # c
    <3>1. \A d \in S : ~ToAnswer(e, d)
      BY <1>7, <2>4 DEF ToAnswer
    <3>2. cpc'[e] = cpc[e] /\ typed'[e] = typed[e]
      BY <1>3, <1>4, <2>4
    <3> QED
      BY <1>1, <1>8, <2>1, <2>2, <3>1, <3>2 DEF OneUnderWay, ToAnswer
  <2> QED
    BY <2>3, <2>4
<1> QED
  BY <1>13, <1>14, <1>16, <1>17, <1>18, <1>19 DEF UdpInv

\* What Serve does, with the set of the replies it sends: one or none.
LEMMA ServeEffect ==
  ASSUME UdpInv, NEW h \in Hosts, Udp!Serve(h)
  PROVE  \E d \in DOMAIN requests :
           /\ d.to = h /\ Drops(requests, requests', d)
           /\ \/ \E S \in SUBSET {Udp!Reply(h, d)} : Adds(replies, replies', S) /\ UNCHANGED lost
              \/ lost' = TRUE /\ UNCHANGED replies
           /\ UNCHANGED <<kind, serving, port, cpc, typed, shown, doubled, missed>>
<1> DEFINE Sent(d) == \E S \in SUBSET {Udp!Reply(h, d)} : Adds(replies, replies', S)
<1>1. ASSUME NEW r, NEW b, b = Udp!Arriving(r)
      PROVE  b = SetToBag({r}) \/ b = SetToBag({})
  BY <1>1 DEF Udp!Arriving, Udp!EmptyBag, Udp!SetToBag, SetToBag
<1>2. PICK d \in DOMAIN requests :
        /\ d.to = h
        /\ requests' = requests (-) SetToBag({d})
        /\ \/ (\E b : b = Udp!Arriving(Udp!Reply(h, d)) /\ replies' = replies (+) b) /\ UNCHANGED lost
           \/ lost' = TRUE /\ UNCHANGED replies
        /\ UNCHANGED <<kind, serving, port, cpc, typed, shown, doubled, missed>>
  BY Zenon DEF Udp!Serve, Udp!BagToSet, Udp!(-), (-), Udp!(+), (+), Udp!SetToBag, SetToBag
<1>3. Drops(requests, requests', d)
  BY <1>2, UdpTyped, TakingDrops
<1>4. ASSUME NEW b, b = Udp!Arriving(Udp!Reply(h, d)), replies' = replies (+) b
      PROVE  \E S \in SUBSET {Udp!Reply(h, d)} : Adds(replies, replies', S)
  <2>1. PICK S \in SUBSET {Udp!Reply(h, d)} : b = SetToBag(S)
    BY <1>1, <1>4
  <2>2. Adds(replies, replies (+) SetToBag(S), S)
    BY UdpTyped, AddingAdds
  <2> QED
    BY <1>4, <2>1, <2>2
<1> QED
  BY <1>2, <1>3, <1>4

LEMMA ServeKeeps ==
  ASSUME UdpInv, NEW h \in Hosts, Udp!Serve(h)
  PROVE  UdpInv'
<1>1. PICK d \in DOMAIN requests :
        /\ d.to = h /\ Drops(requests, requests', d)
        /\ \/ \E S \in SUBSET {Udp!Reply(h, d)} : Adds(replies, replies', S) /\ UNCHANGED lost
           \/ lost' = TRUE /\ UNCHANGED replies
        /\ UNCHANGED <<kind, serving, port, cpc, typed, shown, doubled, missed>>
  BY ServeEffect
<1>2. CASE lost' = TRUE /\ UNCHANGED replies
  BY <1>1, <1>2, UdpTyped, DropsFewer, SameFewer, FewerKeeps
<1>3. CASE \E S \in SUBSET {Udp!Reply(h, d)} : Adds(replies, replies', S) /\ UNCHANGED lost
  <2>1. PICK S \in SUBSET {Udp!Reply(h, d)} : Adds(replies, replies', S)
    BY <1>3
  <2>2. PICK r : r = Udp!Reply(h, d)
    OBVIOUS
  <2>3. S \subseteq {r} /\ lost' = lost
    BY <1>3, <2>1, <2>2
  <2>4. /\ Bag(requests') /\ DOMAIN requests' \subseteq DOMAIN requests
        /\ \A e \in DOMAIN requests' : e # d => requests'[e] = requests[e]
        /\ requests[d] = 1 => d \notin DOMAIN requests'
    BY <1>1 DEF Drops
  <2>5. /\ Bag(replies') /\ DOMAIN replies' = DOMAIN replies \cup S
        /\ \A e \in DOMAIN replies' : e \notin S => replies'[e] = replies[e]
        /\ \A e \in S : e \notin DOMAIN replies => replies'[e] = 1
    BY <2>1 DEF Adds
  <2>6. /\ d.to \in serving /\ d.line \in Udp!Lines /\ d.line[1] \in Clients
        /\ d.line = <<d.line[1], d.line[2]>> /\ d.line[2] <= typed[d.line[1]]
        /\ d.from = Udp!Address(d.line[1])
        /\ kind = "echo" => d.to = HostOf[d.line[1]]
    <3>1. d \in Request
      BY UdpTyped
    <3>2. d.to \in serving /\ d.line \in Udp!Lines
      BY <3>1 DEF Request
    <3> QED
      BY <3>2, LineOf DEF UdpInv, Asked
  <2>7. /\ r.line = d.line /\ r = [to |-> r.to, line |-> r.line]
        /\ kind = "echo" => r.to = Udp!Address(d.line[1])
        /\ kind # "echo" => r.to = <<h, port[d.line[1]]>>
    <3>1. r = [to |-> Udp!ReplyTo(h, d.from), line |-> d.line]
      BY <2>2 DEF Udp!Reply
    <3>2. Udp!ReplyTo(h, d.from) = IF kind = "echo" THEN d.from ELSE <<h, d.from[2]>>
      BY DEF Udp!ReplyTo
    <3>3. d.from[2] = port[d.line[1]]
      BY <2>6 DEF Udp!Address
    <3> QED
      BY <2>6, <3>1, <3>2, <3>3
  <2>8. r \in Reply
    <3>1. Udp!Address(d.line[1]) \in Hosts \X Ports
      BY <2>6, UdpTyped DEF Udp!Address
    <3>2. <<h, port[d.line[1]]>> \in Hosts \X Ports
      BY <2>6, UdpTyped
    <3> QED
      BY <2>6, <2>7, <3>1, <3>2 DEF Reply
  <2>9. \A e \in Clients : Udp!Address(e)' = Udp!Address(e) /\ Udp!Askers(e)' = Udp!Askers(e)
    BY <1>1 DEF Udp!Address, Udp!Askers
  <2>10. Udp!TypeOK'
    <3>1. (DOMAIN requests \subseteq Request)' /\ (DOMAIN replies \subseteq Reply)'
      BY <1>1, <2>3, <2>4, <2>5, <2>8, UdpTyped DEF Request, Reply
    <3>2. /\ kind' \in {"echo", "broadcast"} /\ serving' \subseteq Hosts /\ port' \in [Clients -> Ports]
          /\ cpc' \in [Clients -> {"input", "wait", "closed"}]
          /\ \A c \in Clients : typed'[c] \in 0 .. MaxLines[c]
          /\ \A c \in Clients : shown'[c] \subseteq [line : Udp!Lines, after : 1 .. MaxLines[c]]
          /\ \A c \in Clients : \A s \in shown'[c] : s.line[2] <= typed'[s.line[1]]
          /\ lost' \in BOOLEAN /\ doubled' \in 0 .. MaxDoubled[kind'] /\ missed' \subseteq Clients
      BY <1>1, <2>3 DEF UdpInv, Udp!TypeOK
    <3> QED
      BY <2>4, <2>5, <3>1, <3>2, BagTypes DEF Udp!TypeOK
  <2>11. OwnAddresses'
    BY <1>1 DEF UdpInv, OwnAddresses, Udp!Address
  <2>12. Asked'
    BY <1>1, <2>4 DEF UdpInv, Asked, Udp!Address
  <2>13. Answered'
    <3> SUFFICES ASSUME NEW q \in DOMAIN replies'
                 PROVE  /\ q.line[2] <= typed[q.line[1]]
                        /\ IF kind = "echo" THEN q.to = Udp!Address(q.line[1]) ELSE q.to[2] = port[q.line[1]]
      BY <1>1 DEF Answered, Udp!Address
    <3>1. CASE q \in DOMAIN replies
      BY <3>1 DEF UdpInv, Answered
    <3>2. CASE q = r
      BY <2>6, <2>7, <3>2
    <3> QED
      BY <2>3, <2>5, <3>1, <3>2
  <2>14. InStep'
    BY <1>1 DEF UdpInv, InStep, Udp!InStep, Udp!Askers
  <2>15. ASSUME NEW e \in Clients, Alone(e)' PROVE OneUnderWay(e)'
    <3>1. Alone(e) /\ OneUnderWay(e)
      BY <1>1, <2>9, <2>15 DEF Alone, UdpInv
    <3>2. CASE r \in S /\ ToShow(e, r)
      <4>1. d.line[1] = e /\ d.to = HostOf[e]
        <5>1. CASE kind = "echo"
          <6>1. Udp!Address(d.line[1]) = Udp!Address(e)
            BY <2>7, <3>2, <5>1 DEF ToShow
          <6> QED
            BY <2>6, <5>1, <6>1 DEF UdpInv, OwnAddresses
        <5>2. CASE kind # "echo"
          <6>1. h = HostOf[e] /\ port[d.line[1]] = port[e]
            BY <2>7, <3>2, <5>2 DEF ToShow, Udp!Address
          <6>2. d.line[1] \in Udp!Askers(e)
            BY <2>6, <5>2, <6>1 DEF Udp!Askers
          <6> QED
            BY <1>1, <3>1, <6>1, <6>2 DEF Alone
        <5> QED
          BY <5>1, <5>2
      <4>2. /\ ToAnswer(e, d) /\ cpc[e] = "wait" /\ d.line[2] = typed[e]
            /\ d \notin DOMAIN requests'
        BY <2>4, <3>1, <4>1 DEF ToAnswer, OneUnderWay
      <4>3. \A q \in DOMAIN requests' : ~ToAnswer(e, q)
        <5> SUFFICES ASSUME NEW q \in DOMAIN requests', ToAnswer(e, q) PROVE FALSE
          OBVIOUS
        <5>1. q \in DOMAIN requests
          BY <2>4
        <5>2. q.to = HostOf[e] /\ q.line[1] = e /\ q.line[2] = typed[e]
          BY <3>1, <5>1 DEF ToAnswer, OneUnderWay
        <5>3. q \in Request /\ d \in Request
          BY <5>1, UdpTyped
        <5>4. q.line = <<q.line[1], q.line[2]>>
          BY <5>3, LineOf DEF Request
        <5>5. q.line = d.line
          BY <2>6, <4>1, <4>2, <5>2, <5>4
        <5>6. q.from = d.from
          BY <2>6, <5>1, <5>5 DEF UdpInv, Asked
        <5>7. q = d
          BY <4>1, <5>2, <5>3, <5>5, <5>6 DEF Request
        <5> QED
          BY <4>2, <5>7
      <4>4. \A q \in DOMAIN replies : ~ToShow(e, q)
        BY <3>1, <4>2 DEF OneUnderWay
      <4>5. r \notin DOMAIN replies
        BY <3>2, <4>4
      <4>6. replies'[r] = 1 /\ r.line = <<e, typed[e]>>
        BY <2>5, <2>6, <2>7, <3>2, <4>1, <4>2, <4>5
      <4>7. \A q \in DOMAIN replies' : ToShow(e, q) => q = r
        BY <2>3, <2>5, <4>4
      <4> QED
        BY <1>1, <2>9, <4>2, <4>3, <4>6, <4>7 DEF OneUnderWay, ToAnswer, ToShow
    <3>3. CASE ~(r \in S /\ ToShow(e, r))
      <4>1. \A q \in DOMAIN replies' : ToShow(e, q) => q \in DOMAIN replies /\ replies'[q] = replies[q]
        BY <2>3, <2>5, <3>3
      <4>2. \A q \in DOMAIN requests' : ToAnswer(e, q) => q \in DOMAIN requests /\ requests'[q] = 1
        BY <2>4, <3>1 DEF OneUnderWay
      <4> QED
        BY <1>1, <2>9, <3>1, <4>1, <4>2 DEF OneUnderWay, ToAnswer, ToShow
    <3> QED
      BY <3>2, <3>3
  <2> QED
    BY <2>10, <2>11, <2>12, <2>13, <2>14, <2>15 DEF UdpInv
<1> QED
  BY <1>1, <1>2, <1>3

\* A datagram comes twice: from now on nobody is sure of being in step.
LEMMA DoubleKeeps == UdpInv /\ Udp!Double => UdpInv'
<1> SUFFICES ASSUME UdpInv, Udp!Double PROVE UdpInv'
  OBVIOUS
<1>1. /\ doubled < MaxDoubled[kind] /\ doubled' = doubled + 1
      /\ UNCHANGED <<kind, serving, port, cpc, typed, shown, lost, missed>>
  BY DEF Udp!Double
<1>2. /\ Bag(requests') /\ DOMAIN requests' = DOMAIN requests
      /\ Bag(replies') /\ DOMAIN replies' = DOMAIN replies
  <2>1. CASE \E d \in DOMAIN requests : requests' = requests (+) SetToBag({d}) /\ UNCHANGED replies
    <3>1. PICK d \in DOMAIN requests : Adds(requests, requests', {d})
      BY <2>1, UdpTyped, AddingAdds
    <3> QED
      BY <2>1, <3>1, UdpTyped DEF Adds
  <2>2. CASE \E d \in DOMAIN replies : replies' = replies (+) SetToBag({d}) /\ UNCHANGED requests
    <3>1. PICK d \in DOMAIN replies : Adds(replies, replies', {d})
      BY <2>2, UdpTyped, AddingAdds
    <3> QED
      BY <2>2, <3>1, UdpTyped DEF Adds
  <2> QED
    BY <2>1, <2>2, Zenon DEF Udp!Double, Udp!BagToSet, Udp!(+), (+), Udp!SetToBag, SetToBag
<1>3. doubled' # 0 /\ doubled' \in 0 .. MaxDoubled[kind]
  <2>1. doubled \in Nat /\ MaxDoubled[kind] \in Nat
    BY UdpTyped, PartsAssumption DEF Udp!UdpAssumption
  <2> QED
    BY <1>1, <2>1
<1>4. Udp!TypeOK'
  <2>1. (DOMAIN requests \subseteq Request)' /\ (DOMAIN replies \subseteq Reply)'
    BY <1>1, <1>2, UdpTyped DEF Request, Reply
  <2>2. /\ kind' \in {"echo", "broadcast"} /\ serving' \subseteq Hosts /\ port' \in [Clients -> Ports]
        /\ cpc' \in [Clients -> {"input", "wait", "closed"}]
        /\ \A c \in Clients : typed'[c] \in 0 .. MaxLines[c]
        /\ \A c \in Clients : shown'[c] \subseteq [line : Udp!Lines, after : 1 .. MaxLines[c]]
        /\ \A c \in Clients : \A s \in shown'[c] : s.line[2] <= typed'[s.line[1]]
        /\ lost' \in BOOLEAN /\ missed' \subseteq Clients
    BY <1>1 DEF UdpInv, Udp!TypeOK
  <2>3. doubled' \in 0 .. MaxDoubled[kind']
    BY <1>1, <1>3
  <2> QED
    BY <1>2, <2>1, <2>2, <2>3, BagTypes DEF Udp!TypeOK
<1>5. OwnAddresses' /\ Asked' /\ Answered'
  BY <1>1, <1>2 DEF UdpInv, OwnAddresses, Asked, Answered, Udp!Address
<1>6. InStep'
  BY <1>1, <1>3 DEF UdpInv, InStep, Udp!InStep, Udp!Askers
<1>7. \A c \in Clients : ~Alone(c)'
  BY <1>3 DEF Alone
<1> QED
  BY <1>4, <1>5, <1>6, <1>7 DEF UdpInv

LEMMA UdpInit == Udp!Init => UdpInv
<1> SUFFICES ASSUME Udp!Init PROVE UdpInv
  OBVIOUS
<1>1. /\ HostOf \in [Clients -> Hosts] /\ Portings \subseteq [Clients -> Ports]
      /\ MaxLines \in [Clients -> Nat] /\ MaxDoubled \in [{"echo", "broadcast"} -> Nat]
  BY PartsAssumption DEF Udp!UdpAssumption
<1>2. DOMAIN requests = {} /\ DOMAIN replies = {} /\ Bag(requests) /\ Bag(replies)
  <2>1. ASSUME NEW b, b = Udp!EmptyBag PROVE DOMAIN b = {} /\ Bag(b)
    <3>1. b = [e \in {} |-> 1]
      BY <2>1 DEF Udp!EmptyBag, Udp!SetToBag
    <3> QED
      BY <3>1 DEF Bag
  <2> QED
    BY <2>1 DEF Udp!Init
<1>3. /\ kind \in {"echo", "broadcast"} /\ serving \subseteq Hosts /\ port \in Portings
      /\ \A c, d \in Clients : Udp!Address(c) = Udp!Address(d) => c = d
      /\ lost = FALSE /\ doubled = 0 /\ missed = {}
  BY DEF Udp!Init
<1>4. typed = [c \in Clients |-> 0]
  BY DEF Udp!Init
<1>5. shown = [c \in Clients |-> {}]
  BY DEF Udp!Init
<1>6. cpc = [c \in Clients |-> "input"]
  BY DEF Udp!Init
<1>7. typed \in [Clients -> Nat] /\ \A c \in Clients : typed[c] \in 0 .. MaxLines[c]
  BY <1>1, <1>4
<1>8. \A c \in Clients : shown[c] = {}
  BY <1>5
<1>9. shown \in [Clients -> SUBSET [line : Udp!Lines, after : Nat]]
  BY <1>5
<1>10. cpc \in [Clients -> {"input", "wait", "closed"}] /\ \A c \in Clients : cpc[c] = "input"
  BY <1>6
<1>11. doubled \in 0 .. MaxDoubled[kind]
  BY <1>1, <1>3
<1>12. Udp!IsABag(requests) /\ Udp!IsABag(replies)
  <2>1. {n \in Nat : n > 0} = Nat \ {0}
    OBVIOUS
  <2> QED
    BY <1>2, <2>1 DEF Udp!IsABag, Bag
<1>13. Udp!TypeOK
  BY <1>1, <1>2, <1>3, <1>7, <1>8, <1>10, <1>11, <1>12 DEF Udp!TypeOK, Udp!BagToSet
<1>14. OwnAddresses
  BY <1>3, <1>7, <1>9, <1>10 DEF OwnAddresses
<1>15. Asked /\ Answered /\ \A c \in Clients : OneUnderWay(c)
  BY <1>2 DEF Asked, Answered, OneUnderWay
<1>16. InStep
  BY <1>8 DEF InStep, Udp!InStep
<1> QED
  BY <1>13, <1>14, <1>15, <1>16 DEF UdpInv

\* Where every datagram of the UDP programs can be, whatever is lost, doubled
\* or reordered and whoever has one port.
THEOREM UdpInvariance == Udp!Spec => []UdpInv
<1>1. UdpInv /\ [Udp!Next]_(Udp!vars) => UdpInv'
  <2> SUFFICES ASSUME UdpInv, [Udp!Next]_(Udp!vars) PROVE UdpInv'
    OBVIOUS
  <2>1. CASE UNCHANGED Udp!vars
    <3>1. /\ UNCHANGED <<kind, serving, port, typed, shown, doubled>>
          /\ requests' = requests /\ replies' = replies /\ cpc' = cpc
          /\ lost' = lost /\ missed' = missed
      BY <2>1 DEF Udp!vars
    <3>2. lost' \in BOOLEAN
      BY <3>1 DEF UdpInv, Udp!TypeOK
    <3> QED
      BY <3>1, <3>2, UdpTyped, SameFewer, FewerKeeps
  <2>2. ASSUME NEW c \in Clients,
               Udp!Ask(c) \/ Udp!AskFails(c) \/ Udp!Receive(c) \/ Udp!ReceiveFails(c) \/ Udp!Quit(c)
        PROVE  UdpInv'
    BY <2>2, AskKeeps, ReceiveKeeps, LossKeeps
  <2>3. ASSUME NEW h \in Hosts, Udp!Serve(h) PROVE UdpInv'
    BY <2>3, ServeKeeps
  <2>4. CASE Udp!Lose
    <3>1. DOMAIN requests # {} \/ DOMAIN replies # {}
      BY <2>4 DEF Udp!Lose, Udp!BagToSet
    <3>2. PICK l : l \in Udp!Lines
      BY <3>1, UdpTyped DEF Request, Reply
    <3>3. l[1] \in Clients
      BY <3>2, LineOf
    <3> QED
      BY <2>4, <3>3, LossKeeps
  <2>5. CASE Udp!Double
    BY <2>5, DoubleKeeps
  <2> QED
    BY <2>1, <2>2, <2>3, <2>4, <2>5 DEF Udp!Next
<1> QED
  BY <1>1, UdpInit, PTL DEF Udp!Spec

\* A client that never looks at who replies stays in step with the servers
\* unless a datagram was doubled, its recvfrom failed or its port is shared.
THEOREM StaysInStep == Udp!Spec => []InStep
<1>1. UdpInv => InStep
  BY DEF UdpInv
<1> QED
  BY <1>1, UdpInvariance, PTL

---------------------------------------------------------------------------
(* The select server, for any clients, slots and descriptors.  Its records *)
(* agree only with what they take for granted, that two descriptors never  *)
(* denote one client and a pending client has none (Connected), and the    *)
(* sockets do not block because what is left of select's answer is still   *)
(* true when the loop comes to it (StillReady): no step of the server or   *)
(* of a client makes a descriptor it has still to serve unreadable.        *)
(* Exchange bounds what is under way per client.                           *)

Connected ==
  /\ \A f, g \in Sel!Fds : fdtab[f] = fdtab[g] /\ fdtab[f] # NoClient => f = g
  /\ \A f \in Sel!Fds : fdtab[f] # NoClient => s_conn[fdtab[f]] = "open"
  /\ \A i \in 1 .. Len(s_backlog) : s_conn[s_backlog[i]] = "backlog"
  /\ \A i, j \in 1 .. Len(s_backlog) : s_backlog[i] = s_backlog[j] => i = j
  /\ \A c \in Peers : s_cpc[c] = "idle" => s_conn[c] = "none"

Exchange ==
  \A c \in Peers :
    /\ s_unread[c] + s_replies[c] <= 1
    /\ s_cpc[c] \in {"idle", "ready"} => s_unread[c] = 0 /\ s_replies[c] = 0

StillReady ==
  /\ s_pc = "accept" => /\ s_backlog # <<>> /\ tempfds \subseteq readfds
                      /\ \A f \in tempfds \cap Sel!Fds : Sel!Readable(f)
  /\ s_pc = "scan" => \A i \in Sel!Slots, f \in Sel!Fds :
                      i >= slot /\ client_fds[i] = f /\ f \in tempfds => Sel!Readable(f)

SelectInv == Sel!TypeOK /\ Sel!RecordsAgree /\ Connected /\ Exchange /\ StillReady

---------------------------------------------------------------------------
(* Numbers *)

LEMMA SelectCardinality == \A S : Sel!Cardinality(S) = Cardinality(S)
BY DEF Sel!Cardinality, Cardinality, Sel!IsFiniteSet, IsFiniteSet

LEMMA SelectNumbers ==
  ASSUME Sel!SelectAssumption
  PROVE  /\ MaxClients \in Nat \ {0} /\ MaxMessages \in Nat \ {0} /\ NoClient \notin Peers
         /\ Sel!Fds \subseteq Nat /\ Sel!Free \notin Sel!Fds
         /\ Sel!ListenFd \notin Sel!Fds /\ Sel!Free # Sel!ListenFd
         /\ Sel!Slots \subseteq Nat /\ IsFiniteSet(Sel!Slots) /\ Cardinality(Sel!Slots) = MaxClients
         /\ \A n \in FdLimits : 4 .. n + 3 \subseteq Sel!Fds
<1>1. /\ MaxClients \in Nat \ {0} /\ MaxMessages \in Nat \ {0} /\ NoClient \notin Peers
      /\ \A n \in FdLimits : n \in Nat
  BY DEF Sel!SelectAssumption
<1>2. \A f \in Sel!Fds : f \in Nat /\ f >= 4
  BY <1>1 DEF Sel!Fds
<1>3. /\ Sel!Fds \subseteq Nat /\ Sel!Free \notin Sel!Fds
      /\ Sel!ListenFd \notin Sel!Fds /\ Sel!Free # Sel!ListenFd
  BY <1>2 DEF Sel!Free, Sel!ListenFd
<1>4. \A n \in FdLimits : 4 .. n + 3 \subseteq Sel!Fds
  BY DEF Sel!Fds
<1>5. Sel!Slots \subseteq Nat /\ IsFiniteSet(Sel!Slots) /\ Cardinality(Sel!Slots) = MaxClients
  <2>1. MaxClients \in Int /\ 1 \in Int /\ MaxClients >= 1
    BY <1>1
  <2> QED
    BY <2>1, FS_Interval DEF Sel!Slots
<1> QED
  BY <1>1, <1>3, <1>4, <1>5

\* What Least chooses exists: less-than is well-founded on the naturals.
LEMMA LeastIsFirst ==
  ASSUME NEW s \in SUBSET Nat, s # {}
  PROVE  Sel!Least(s) \in s /\ \A j \in s : Sel!Least(s) <= j
<1> DEFINE R == {p \in Nat \X Nat : p[1] < p[2]}
<1>1. IsWellFoundedOn(R, Nat)
  BY NatLessThanWellFounded DEF OpToRel
<1>2. ASSUME NEW i \in s, NEW j \in s, j < i
      PROVE  <<j, i>> \in R
  <2>1. <<j, i>> \in Nat \X Nat /\ <<j, i>>[1] < <<j, i>>[2]
    BY <1>2
  <2> QED
    BY <2>1
<1>3. \E i \in s : \A j \in s : i <= j
  <2> HIDE DEF R
  <2>1. PICK i \in s : \A j \in s : ~(<<j, i>> \in R)
    BY <1>1, WFMin
  <2>2. ASSUME NEW j \in s PROVE i <= j
    <3>1. ~(j < i) /\ i \in Nat /\ j \in Nat
      BY <1>2, <2>1
    <3> QED
      BY <3>1
  <2> QED
    BY <2>2
<1> QED
  BY <1>3 DEF Sel!Least

---------------------------------------------------------------------------
(* The initial states *)

LEMMA SelectInit ==
  ASSUME Sel!SelectAssumption, Sel!Init
  PROVE  SelectInv
<1> USE SelectNumbers DEF Sel!Init
<1>1. Sel!TypeOK
  <2>1. s_cpc \in [Peers -> {"idle", "ready", "await", "left"}]
    OBVIOUS
  <2>2. s_conn \in [Peers -> {"none", "backlog", "open", "closed"}]
    OBVIOUS
  <2>3. s_ending \in [Peers -> {"no", "fin", "reset"}]
    OBVIOUS
  <2>4. /\ said \in [Peers -> 0 .. MaxMessages]
        /\ s_unread \in [Peers -> 0 .. 1] /\ s_replies \in [Peers -> 0 .. 1]
    OBVIOUS
  <2>5. s_backlog \in Seq(Peers)
    BY EmptySeq
  <2>6. fdtab \in [Sel!Fds -> Peers \cup {NoClient}]
    OBVIOUS
  <2>7. client_fds \in [Sel!Slots -> Sel!Fds \cup {Sel!Free}]
    OBVIOUS
  <2>8. /\ readfds \subseteq Sel!Fds \cup {Sel!ListenFd}
        /\ tempfds \subseteq Sel!Fds \cup {Sel!ListenFd}
        /\ client_count \in 0 .. MaxClients /\ limit \in FdLimits
        /\ s_pc \in {"select", "accept", "scan", "end"} /\ slot \in 1 .. MaxClients + 1
    OBVIOUS
  <2> HIDE DEF Sel!Init
  <2> QED
    BY <2>1, <2>2, <2>3, <2>4, <2>5, <2>6, <2>7, <2>8 DEF Sel!TypeOK
<1>2. Sel!RecordsAgree
  <2>1. {i \in Sel!Slots : client_fds[i] # Sel!Free} = {}
    OBVIOUS
  <2>2. client_count = Cardinality({i \in Sel!Slots : client_fds[i] # Sel!Free})
    BY <2>1, FS_EmptySet
  <2>3. readfds \ {Sel!ListenFd} = {client_fds[i] : i \in Sel!Slots} \ {Sel!Free}
    OBVIOUS
  <2>4. {f \in Sel!Fds : fdtab[f] # NoClient} = readfds \ {Sel!ListenFd}
    OBVIOUS
  <2> QED
    BY <2>2, <2>3, <2>4, SelectCardinality DEF Sel!RecordsAgree
<1>3. Connected
  BY EmptySeq DEF Connected
<1>4. Exchange
  BY DEF Exchange
<1>5. StillReady
  BY DEF StillReady
<1> QED
  BY <1>1, <1>2, <1>3, <1>4, <1>5 DEF SelectInv

---------------------------------------------------------------------------
(* What the server's steps work on *)

\* A slot whose client the loop has still to serve holds an open descriptor that
\* recv will not block on.
LEMMA ToServeReady ==
  ASSUME Sel!SelectAssumption, SelectInv, s_pc = "scan", NEW k \in Sel!ToServe
  PROVE  /\ k \in Sel!Slots /\ k >= slot /\ client_fds[k] \in Sel!Fds
         /\ client_fds[k] \in readfds /\ Sel!Readable(client_fds[k])
         /\ fdtab[client_fds[k]] \in Peers /\ s_conn[fdtab[client_fds[k]]] = "open"
<1>1. /\ k \in Sel!Slots /\ k >= slot /\ client_fds[k] # Sel!Free /\ client_fds[k] \in tempfds
  BY DEF Sel!ToServe, Sel!ScannedSlots, Sel!SetInTemp
<1>2. client_fds[k] \in Sel!Fds
  BY <1>1 DEF SelectInv, Sel!TypeOK
<1>3. client_fds[k] \in readfds \ {Sel!ListenFd}
  BY <1>1 DEF SelectInv, Sel!RecordsAgree
<1>4. fdtab[client_fds[k]] # NoClient
  BY <1>2, <1>3 DEF SelectInv, Sel!RecordsAgree
<1>5. fdtab[client_fds[k]] \in Peers /\ s_conn[fdtab[client_fds[k]]] = "open"
  BY <1>2, <1>4 DEF SelectInv, Sel!TypeOK, Connected
<1>6. Sel!Readable(client_fds[k])
  BY <1>1, <1>2 DEF SelectInv, StillReady
<1> QED
  BY <1>1, <1>2, <1>3, <1>5, <1>6

LEMMA ServingSlot ==
  ASSUME Sel!SelectAssumption, SelectInv, Sel!Scanning
  PROVE  /\ Sel!Least(Sel!ToServe) \in Sel!Slots /\ Sel!Least(Sel!ToServe) \in Sel!ToServe
         /\ Sel!Least(Sel!ToServe) >= slot /\ Sel!Least(Sel!ToServe) + 1 \in 1 .. MaxClients + 1
         /\ Sel!Current = client_fds[Sel!Least(Sel!ToServe)] /\ Sel!Client = fdtab[Sel!Current]
         /\ Sel!Current \in Sel!Fds /\ Sel!Current \in readfds /\ Sel!Client \in Peers
         /\ s_conn[Sel!Client] = "open" /\ Sel!Readable(Sel!Current)
         /\ \A k \in Sel!Slots : k # Sel!Least(Sel!ToServe) => client_fds[k] # Sel!Current
         /\ \A g \in Sel!Fds : g # Sel!Current => fdtab[g] # Sel!Client
<1>1. Sel!ToServe \subseteq Sel!Slots /\ Sel!ToServe # {} /\ s_pc = "scan"
  BY DEF Sel!Scanning, Sel!ToServe, Sel!ScannedSlots
<1>2. Sel!Least(Sel!ToServe) \in Sel!ToServe
  BY <1>1, SelectNumbers, LeastIsFirst
<1>3. Sel!Current = client_fds[Sel!Least(Sel!ToServe)] /\ Sel!Client = fdtab[Sel!Current]
  BY DEF Sel!Current, Sel!Client
<1>4. /\ Sel!Least(Sel!ToServe) \in Sel!Slots /\ Sel!Least(Sel!ToServe) >= slot
      /\ Sel!Current \in Sel!Fds
      /\ Sel!Current \in readfds /\ Sel!Readable(Sel!Current)
      /\ Sel!Client \in Peers /\ s_conn[Sel!Client] = "open"
  BY <1>1, <1>2, <1>3, ToServeReady
<1>5. \A k \in Sel!Slots : k # Sel!Least(Sel!ToServe) => client_fds[k] # Sel!Current
  BY <1>3, <1>4, SelectNumbers DEF SelectInv, Sel!RecordsAgree
<1>6. \A g \in Sel!Fds : g # Sel!Current => fdtab[g] # Sel!Client
  BY <1>3, <1>4, SelectNumbers DEF SelectInv, Connected
<1>7. Sel!Least(Sel!ToServe) + 1 \in 1 .. MaxClients + 1
  BY <1>4, SelectNumbers DEF Sel!Slots
<1> QED
  BY <1>2, <1>3, <1>4, <1>5, <1>6, <1>7

\* The sockets do not block: a consequence of Answer.
LEMMA NotBlocked ==
  ASSUME Sel!SelectAssumption, SelectInv
  PROVE  Sel!NeverBlocks
<1>1. s_pc = "accept" => s_backlog # <<>>
  BY DEF SelectInv, StillReady
<1>2. Sel!Scanning => Sel!Readable(Sel!Current)
  BY ServingSlot
<1> QED
  BY <1>1, <1>2 DEF Sel!NeverBlocks

LEMMA BacklogEffect ==
  ASSUME Sel!SelectAssumption, SelectInv, s_pc = "accept", s_backlog' = Tail(s_backlog)
  PROVE  /\ Head(s_backlog) \in Peers /\ s_conn[Head(s_backlog)] = "backlog"
         /\ s_backlog' \in Seq(Peers)
         /\ \A k \in 1 .. Len(s_backlog') : /\ s_backlog'[k] \in Peers /\ s_backlog'[k] # Head(s_backlog)
                                           /\ s_conn[s_backlog'[k]] = "backlog"
         /\ \A j, k \in 1 .. Len(s_backlog') : s_backlog'[j] = s_backlog'[k] => j = k
<1>1. s_backlog \in Seq(Peers) /\ Connected /\ s_backlog # <<>>
  BY DEF SelectInv, Sel!TypeOK, StillReady
<1>2. Len(s_backlog) \in Nat \ {0} /\ Len(s_backlog') \in Nat /\ Len(s_backlog) = Len(s_backlog') + 1
  BY <1>1, EmptySeq, HeadTailProperties, LenProperties
<1>3. /\ s_backlog' \in Seq(Peers) /\ Head(s_backlog) = s_backlog[1] /\ Head(s_backlog) \in Peers
      /\ \A k \in 1 .. Len(s_backlog') : s_backlog'[k] = s_backlog[k + 1]
  BY <1>1, <1>2, HeadTailProperties
<1>4. /\ 1 \in 1 .. Len(s_backlog)
      /\ \A k \in 1 .. Len(s_backlog') : k + 1 \in 1 .. Len(s_backlog) /\ k + 1 # 1 /\ k \in Int
  BY <1>2
<1>5. \A k \in 1 .. Len(s_backlog) : s_backlog[k] \in Peers
  BY <1>1, ElementOfSeq
<1>6. \A k \in 1 .. Len(s_backlog') : /\ s_backlog'[k] \in Peers /\ s_backlog'[k] # Head(s_backlog)
                                     /\ s_conn[s_backlog'[k]] = "backlog"
  BY <1>1, <1>3, <1>4, <1>5 DEF Connected
<1>7. ASSUME NEW j \in 1 .. Len(s_backlog'), NEW k \in 1 .. Len(s_backlog'), s_backlog'[j] = s_backlog'[k]
      PROVE  j = k
  <2>1. j + 1 = k + 1 /\ j \in Int /\ k \in Int
    BY <1>1, <1>3, <1>4, <1>7 DEF Connected
  <2> QED
    BY <2>1
<1> QED
  BY <1>1, <1>3, <1>4, <1>6, <1>7 DEF Connected

\* The descriptor and the slot a client gets.
LEMMA AcceptEffect ==
  ASSUME Sel!SelectAssumption, SelectInv, Sel!Accept
  PROVE  /\ Sel!Least(Sel!FreeFds) \in Sel!Fds /\ fdtab[Sel!Least(Sel!FreeFds)] = NoClient
         /\ Sel!Least(Sel!FreeFds) \notin readfds /\ Sel!Least(Sel!FreeFds) \notin tempfds
         /\ Sel!Least(Sel!FreeSlots) \in Sel!Slots
         /\ client_fds[Sel!Least(Sel!FreeSlots)] = Sel!Free
<1>1. s_pc = "accept" /\ Sel!FreeFds # {} /\ Sel!FreeSlots # {}
  BY DEF Sel!Accept
<1>2. Sel!FreeFds \subseteq Sel!Fds /\ \A f \in Sel!FreeFds : fdtab[f] = NoClient
  BY SelectNumbers DEF Sel!FreeFds, SelectInv, Sel!TypeOK
<1>3. Sel!Least(Sel!FreeFds) \in Sel!FreeFds
  BY <1>1, <1>2, SelectNumbers, LeastIsFirst
<1>4. Sel!FreeSlots \subseteq Sel!Slots /\ \A k \in Sel!FreeSlots : client_fds[k] = Sel!Free
  BY DEF Sel!FreeSlots
<1>5. Sel!Least(Sel!FreeSlots) \in Sel!FreeSlots
  BY <1>1, <1>4, SelectNumbers, LeastIsFirst
<1>6. Sel!Least(Sel!FreeFds) \notin readfds
  BY <1>1, <1>2, <1>3, SelectNumbers DEF SelectInv, Sel!RecordsAgree
<1>7. Sel!Least(Sel!FreeFds) \notin tempfds
  BY <1>1, <1>6 DEF SelectInv, StillReady
<1> QED
  BY <1>2, <1>3, <1>4, <1>5, <1>6, <1>7

---------------------------------------------------------------------------
(* The steps *)

\* Where the slots and the descriptors stay, so do the records of them.
LEMMA RecordsKept ==
  ASSUME Sel!RecordsAgree, UNCHANGED <<readfds, client_fds, client_count, fdtab>>,
         s_pc' # "end" => s_pc # "end"
  PROVE  Sel!RecordsAgree'
  BY DEF Sel!RecordsAgree

LEMMA AcceptRecords == ASSUME Sel!SelectAssumption, SelectInv, Sel!Accept PROVE Sel!RecordsAgree'
<1> DEFINE f == Sel!Least(Sel!FreeFds)
           k == Sel!Least(Sel!FreeSlots)
           used == {i \in Sel!Slots : client_fds[i] # Sel!Free}
<1>1. /\ f \in Sel!Fds /\ fdtab[f] = NoClient /\ f \notin readfds
      /\ k \in Sel!Slots /\ client_fds[k] = Sel!Free
  BY AcceptEffect
<1>2. /\ fdtab' = [fdtab EXCEPT ![f] = Head(s_backlog)] /\ readfds' = readfds \cup {f}
      /\ client_fds' = [client_fds EXCEPT ![k] = f] /\ client_count' = client_count + 1
      /\ s_pc = "accept" /\ s_backlog' = Tail(s_backlog)
  BY DEF Sel!Accept
<1>3. Head(s_backlog) \in Peers
  BY <1>2, BacklogEffect
<1> HIDE DEF f, k
<1>4. Sel!RecordsAgree /\ client_fds \in [Sel!Slots -> Sel!Fds \cup {Sel!Free}]
  BY DEF SelectInv, Sel!TypeOK
<1>5. fdtab \in [Sel!Fds -> Peers \cup {NoClient}]
  BY DEF SelectInv, Sel!TypeOK
<1>6. \A i \in Sel!Slots : client_fds'[i] = IF i = k THEN f ELSE client_fds[i]
  BY <1>2, <1>4
<1>7. \A g \in Sel!Fds : fdtab'[g] = IF g = f THEN Head(s_backlog) ELSE fdtab[g]
  BY <1>2, <1>5
<1>8. \A i \in Sel!Slots : client_fds[i] # f
  BY <1>1, <1>4, SelectNumbers DEF Sel!RecordsAgree
<1>9. readfds' \ {Sel!ListenFd} = {client_fds'[i] : i \in Sel!Slots} \ {Sel!Free}
  <2>1. readfds \ {Sel!ListenFd} = {client_fds[i] : i \in Sel!Slots} \ {Sel!Free}
    BY <1>4 DEF Sel!RecordsAgree
  <2>2. readfds' \ {Sel!ListenFd} = (readfds \ {Sel!ListenFd}) \cup {f}
    BY <1>1, <1>2, SelectNumbers
  <2>3. {client_fds'[i] : i \in Sel!Slots} \ {Sel!Free}
        = ({client_fds[i] : i \in Sel!Slots} \ {Sel!Free}) \cup {f}
    BY <1>1, <1>6, SelectNumbers
  <2> QED
    BY <2>1, <2>2, <2>3
<1>10. \A i, j \in Sel!Slots : client_fds'[i] = client_fds'[j] /\ client_fds'[i] # Sel!Free => i = j
  BY <1>4, <1>6, <1>8 DEF Sel!RecordsAgree
<1>11. client_count' = Cardinality({i \in Sel!Slots : client_fds'[i] # Sel!Free})
  <2>1. IsFiniteSet(used) /\ client_count = Cardinality(used)
    BY <1>4, SelectNumbers, SelectCardinality, FS_Subset DEF Sel!RecordsAgree
  <2>2. k \notin used /\ {i \in Sel!Slots : client_fds'[i] # Sel!Free} = used \cup {k}
    BY <1>1, <1>6, SelectNumbers
  <2> HIDE DEF used
  <2>3. Cardinality(used \cup {k}) = Cardinality(used) + 1
    BY <2>1, <2>2, FS_AddElement
  <2> QED
    BY <1>2, <2>1, <2>2, <2>3
<1>12. {g \in Sel!Fds : fdtab'[g] # NoClient} = readfds' \ {Sel!ListenFd}
  <2>1. {g \in Sel!Fds : fdtab[g] # NoClient} = readfds \ {Sel!ListenFd}
    BY <1>2, <1>4 DEF Sel!RecordsAgree
  <2> QED
    BY <1>1, <1>2, <1>3, <1>7, <2>1, SelectNumbers
<1> QED
  BY <1>9, <1>10, <1>11, <1>12, SelectCardinality DEF Sel!RecordsAgree

LEMMA EofRecords == ASSUME Sel!SelectAssumption, SelectInv, Sel!RecvEof PROVE Sel!RecordsAgree'
<1> DEFINE k == Sel!Least(Sel!ToServe)
           f == Sel!Current
           used == {i \in Sel!Slots : client_fds[i] # Sel!Free}
<1>1. /\ k \in Sel!Slots /\ client_fds[k] = f /\ f \in Sel!Fds /\ f \in readfds
      /\ \A i \in Sel!Slots : i # k => client_fds[i] # f
  BY ServingSlot DEF Sel!RecvEof
<1>2. /\ fdtab' = [fdtab EXCEPT ![f] = NoClient] /\ readfds' = readfds \ {f}
      /\ client_fds' = [client_fds EXCEPT ![k] = Sel!Free] /\ client_count' = client_count - 1
      /\ s_pc = "scan"
  BY DEF Sel!RecvEof, Sel!FdClr, Sel!CountDown, Sel!Scanning
<1> HIDE DEF f, k
<1>3. Sel!RecordsAgree /\ client_fds \in [Sel!Slots -> Sel!Fds \cup {Sel!Free}]
  BY DEF SelectInv, Sel!TypeOK
<1>4. fdtab \in [Sel!Fds -> Peers \cup {NoClient}]
  BY DEF SelectInv, Sel!TypeOK
<1>5. \A i \in Sel!Slots : client_fds'[i] = IF i = k THEN Sel!Free ELSE client_fds[i]
  BY <1>2, <1>3
<1>6. \A g \in Sel!Fds : fdtab'[g] = IF g = f THEN NoClient ELSE fdtab[g]
  BY <1>2, <1>4
<1>7. readfds' \ {Sel!ListenFd} = {client_fds'[i] : i \in Sel!Slots} \ {Sel!Free}
  <2>1. readfds \ {Sel!ListenFd} = {client_fds[i] : i \in Sel!Slots} \ {Sel!Free}
    BY <1>3 DEF Sel!RecordsAgree
  <2>2. readfds' \ {Sel!ListenFd} = (readfds \ {Sel!ListenFd}) \ {f}
    BY <1>2
  <2>3. {client_fds'[i] : i \in Sel!Slots} \ {Sel!Free}
        = ({client_fds[i] : i \in Sel!Slots} \ {Sel!Free}) \ {f}
    BY <1>1, <1>5, SelectNumbers
  <2> QED
    BY <2>1, <2>2, <2>3
<1>8. \A i, j \in Sel!Slots : client_fds'[i] = client_fds'[j] /\ client_fds'[i] # Sel!Free => i = j
  BY <1>3, <1>5 DEF Sel!RecordsAgree
<1>9. client_count' = Cardinality({i \in Sel!Slots : client_fds'[i] # Sel!Free})
  <2>1. IsFiniteSet(used) /\ client_count = Cardinality(used)
    BY <1>3, SelectNumbers, SelectCardinality, FS_Subset DEF Sel!RecordsAgree
  <2>2. k \in used /\ {i \in Sel!Slots : client_fds'[i] # Sel!Free} = used \ {k}
    BY <1>1, <1>5, SelectNumbers
  <2> HIDE DEF used
  <2>3. Cardinality(used \ {k}) = Cardinality(used) - 1
    BY <2>1, <2>2, FS_RemoveElement
  <2> QED
    BY <1>2, <2>1, <2>2, <2>3
<1>10. {g \in Sel!Fds : fdtab'[g] # NoClient} = readfds' \ {Sel!ListenFd}
  <2>1. {g \in Sel!Fds : fdtab[g] # NoClient} = readfds \ {Sel!ListenFd}
    BY <1>2, <1>3 DEF Sel!RecordsAgree
  <2> QED
    BY <1>1, <1>2, <1>6, <2>1, SelectNumbers
<1> QED
  BY <1>7, <1>8, <1>9, <1>10, SelectCardinality DEF Sel!RecordsAgree

LEMMA RecordsStep == ASSUME Sel!SelectAssumption, SelectInv, Sel!Next PROVE Sel!RecordsAgree'
<1>1. CASE Sel!Accept
  BY <1>1, AcceptRecords
<1>2. CASE Sel!RecvEof
  BY <1>2, EofRecords
<1>3. CASE Sel!SelectFails
  BY <1>3 DEF Sel!SelectFails, SelectInv, Sel!RecordsAgree, Sel!server
<1>4. CASE \/ Sel!Select \/ Sel!Reject \/ Sel!AcceptFails \/ Sel!AcceptAborted \/ Sel!RecvData
           \/ Sel!RecvError \/ Sel!ScanDone
           \/ \E c \in Peers : \/ Sel!Connect(c) \/ Sel!Say(c) \/ Sel!Hear(c)
                               \/ Sel!Quit(c) \/ Sel!ServerGone(c)
  <2>1. UNCHANGED <<readfds, client_fds, client_count, fdtab>> /\ (s_pc' # "end" => s_pc # "end")
    BY <1>4 DEF Sel!Select, Sel!Reject, Sel!AcceptFails, Sel!AcceptAborted, Sel!NextRound,
       Sel!RecvData, Sel!RecvError, Sel!ScanDone, Sel!Scanning,
       Sel!Scanned, Sel!Connect, Sel!Say, Sel!Hear, Sel!Quit, Sel!ServerGone, Sel!server
  <2> QED
    BY <2>1, RecordsKept DEF SelectInv
<1> QED
  BY <1>1, <1>2, <1>3, <1>4 DEF Sel!Next, Sel!ServerStep

LEMMA TypeStep == ASSUME Sel!SelectAssumption, SelectInv, Sel!Next PROVE Sel!TypeOK'
<1> USE SelectNumbers DEF SelectInv, Sel!TypeOK
<1>1. client_count' \in 0 .. MaxClients
  <2>1. client_count' = Cardinality({i \in Sel!Slots : client_fds'[i] # Sel!Free})
    BY RecordsStep, SelectCardinality DEF Sel!RecordsAgree
  <2>2. IsFiniteSet({i \in Sel!Slots : client_fds'[i] # Sel!Free})
    BY FS_Subset
  <2>3. Cardinality({i \in Sel!Slots : client_fds'[i] # Sel!Free}) <= Cardinality(Sel!Slots)
    BY FS_Subset
  <2>4. Cardinality({i \in Sel!Slots : client_fds'[i] # Sel!Free}) \in Nat
    BY <2>2, FS_CardinalityType
  <2> QED
    BY <2>1, <2>3, <2>4
<1>2. 1 \in 1 .. MaxClients + 1
  OBVIOUS
<1>3. ASSUME NEW c \in Peers, Sel!Connect(c) PROVE Sel!TypeOK'
  <2>1. s_backlog' \in Seq(Peers)
    BY <1>3, AppendProperties DEF Sel!Connect
  <2> QED
    BY <1>3, <2>1 DEF Sel!Connect, Sel!server
<1>4. ASSUME NEW c \in Peers, Sel!Say(c) PROVE Sel!TypeOK'
  <2>1. s_unread[c] = 0
    BY <1>4 DEF Sel!Say, Exchange
  <2>2. s_unread' \in [Peers -> 0 .. 1]
    BY <1>4, <2>1 DEF Sel!Say
  <2>3. said' \in [Peers -> 0 .. MaxMessages]
    BY <1>4 DEF Sel!Say
  <2>4. s_cpc' \in [Peers -> {"idle", "ready", "await", "left"}]
    BY <1>4 DEF Sel!Say
  <2> QED
    BY <1>4, <2>2, <2>3, <2>4 DEF Sel!Say, Sel!server
<1>5. ASSUME NEW c \in Peers, Sel!Hear(c) PROVE Sel!TypeOK'
  <2>1. s_replies' \in [Peers -> 0 .. 1]
    BY <1>5 DEF Sel!Hear
  <2>2. s_cpc' \in [Peers -> {"idle", "ready", "await", "left"}]
    BY <1>5 DEF Sel!Hear
  <2> QED
    BY <1>5, <2>1, <2>2 DEF Sel!Hear, Sel!server
<1>6. ASSUME NEW c \in Peers, Sel!Quit(c) \/ Sel!ServerGone(c) PROVE Sel!TypeOK'
  <2>1. s_ending' \in [Peers -> {"no", "fin", "reset"}]
    BY <1>6 DEF Sel!Quit, Sel!ServerGone
  <2>2. s_cpc' \in [Peers -> {"idle", "ready", "await", "left"}]
    BY <1>6 DEF Sel!Quit, Sel!ServerGone
  <2> QED
    BY <1>6, <2>1, <2>2 DEF Sel!Quit, Sel!ServerGone, Sel!server
<1>7. CASE Sel!Select
  BY <1>2, <1>7 DEF Sel!Select, Sel!client, Sel!server
<1>8. CASE Sel!Accept
  <2> DEFINE f == Sel!Least(Sel!FreeFds)
             k == Sel!Least(Sel!FreeSlots)
  <2>1. f \in Sel!Fds /\ k \in Sel!Slots
    BY <1>8, AcceptEffect
  <2>2. Head(s_backlog) \in Peers /\ s_backlog' \in Seq(Peers)
    BY <1>8, BacklogEffect DEF Sel!Accept
  <2>3. /\ fdtab' = [fdtab EXCEPT ![f] = Head(s_backlog)]
        /\ client_fds' = [client_fds EXCEPT ![k] = f] /\ readfds' = readfds \cup {f}
        /\ s_conn' = [s_conn EXCEPT ![Head(s_backlog)] = "open"] /\ s_pc' = "scan"
        /\ UNCHANGED <<Sel!client, s_unread, s_replies, limit, tempfds, slot>>
    BY <1>8 DEF Sel!Accept
  <2> HIDE DEF f, k
  <2>4. fdtab' \in [Sel!Fds -> Peers \cup {NoClient}]
    BY <2>1, <2>2, <2>3
  <2>5. client_fds' \in [Sel!Slots -> Sel!Fds \cup {Sel!Free}]
    BY <2>1, <2>3
  <2>6. s_conn' \in [Peers -> {"none", "backlog", "open", "closed"}]
    BY <2>3
  <2> QED
    BY <1>1, <2>1, <2>2, <2>3, <2>4, <2>5, <2>6 DEF Sel!client
<1>9. CASE Sel!Reject
  <2>1. s_backlog' \in Seq(Peers)
    BY <1>9, BacklogEffect DEF Sel!Reject
  <2>2. s_conn' \in [Peers -> {"none", "backlog", "open", "closed"}]
    BY <1>9 DEF Sel!Reject
  <2> QED
    BY <1>9, <2>1, <2>2 DEF Sel!Reject, Sel!client, Sel!server
<1>9a. CASE Sel!AcceptAborted
  <2>1. s_backlog' \in Seq(Peers)
    BY <1>9a, BacklogEffect DEF Sel!AcceptAborted
  <2>2. s_conn' \in [Peers -> {"none", "backlog", "open", "closed"}]
    BY <1>9a DEF Sel!AcceptAborted
  <2> QED
    BY <1>2, <1>9a, <2>1, <2>2 DEF Sel!AcceptAborted, Sel!NextRound, Sel!client, Sel!server
<1>10. CASE Sel!AcceptFails \/ Sel!ScanDone
  BY <1>2, <1>10 DEF Sel!AcceptFails, Sel!ScanDone, Sel!NextRound, Sel!client, Sel!server
<1>11. CASE Sel!RecvData
  <2>1. Sel!Client \in Peers /\ s_unread[Sel!Client] > 0 /\ slot' \in 1 .. MaxClients + 1 /\ s_pc' = s_pc
    BY <1>11, ServingSlot DEF Sel!RecvData, Sel!Scanned
  <2>2. /\ s_unread' = [s_unread EXCEPT ![Sel!Client] = 0]
        /\ s_replies' = [s_replies EXCEPT ![Sel!Client] = s_replies[Sel!Client] + 1]
        /\ UNCHANGED <<Sel!client, s_conn, s_backlog, fdtab, limit, Sel!server, tempfds>>
    BY <1>11 DEF Sel!RecvData
  <2>3. Sel!TypeOK /\ Exchange
    OBVIOUS
  <2> HIDE DEF Sel!TypeOK, SelectInv
  <2>4. s_unread \in [Peers -> 0 .. 1] /\ s_replies \in [Peers -> 0 .. 1]
    BY <2>3 DEF Sel!TypeOK
  <2>5. s_replies[Sel!Client] = 0
    BY <2>1, <2>3, <2>4 DEF Exchange
  <2>6. s_replies' \in [Peers -> 0 .. 1]
    BY <2>1, <2>2, <2>4, <2>5
  <2>7. s_unread' \in [Peers -> 0 .. 1]
    BY <2>1, <2>2, <2>4
  <2> QED
    BY <2>1, <2>2, <2>3, <2>6, <2>7 DEF Sel!TypeOK, Sel!client, Sel!server
<1>12. CASE Sel!RecvError
  <2>1. slot' \in 1 .. MaxClients + 1 /\ s_pc' = s_pc
    BY <1>12, ServingSlot DEF Sel!RecvError, Sel!Scanned
  <2>2. s_ending' \in [Peers -> {"no", "fin", "reset"}]
    BY <1>12 DEF Sel!RecvError
  <2> QED
    BY <1>12, <2>1, <2>2 DEF Sel!RecvError, Sel!server
<1>13. CASE Sel!RecvEof
  <2>1. slot' \in 1 .. MaxClients + 1 /\ s_pc' = s_pc
    BY <1>13, ServingSlot DEF Sel!RecvEof, Sel!Scanned
  <2>2. s_conn' \in [Peers -> {"none", "backlog", "open", "closed"}]
    BY <1>13 DEF Sel!RecvEof
  <2>3. fdtab' \in [Sel!Fds -> Peers \cup {NoClient}]
    BY <1>13 DEF Sel!RecvEof
  <2>4. client_fds' \in [Sel!Slots -> Sel!Fds \cup {Sel!Free}]
    BY <1>13 DEF Sel!RecvEof
  <2>5. readfds' \subseteq Sel!Fds \cup {Sel!ListenFd}
    BY <1>13 DEF Sel!RecvEof, Sel!FdClr
  <2> QED
    BY <1>1, <1>13, <2>1, <2>2, <2>3, <2>4, <2>5 DEF Sel!RecvEof, Sel!client
<1>14. CASE Sel!SelectFails
  <2>1. s_conn' \in [Peers -> {"none", "backlog", "open", "closed"}]
    BY <1>14 DEF Sel!SelectFails
  <2>2. fdtab' \in [Sel!Fds -> Peers \cup {NoClient}] /\ s_backlog' \in Seq(Peers)
    BY <1>14, EmptySeq DEF Sel!SelectFails
  <2> QED
    BY <1>14, <2>1, <2>2 DEF Sel!SelectFails, Sel!client, Sel!server
<1> HIDE DEF SelectInv, Sel!TypeOK
<1> QED
  BY <1>3, <1>4, <1>5, <1>6, <1>7, <1>8, <1>9, <1>9a, <1>10, <1>11, <1>12, <1>13, <1>14
  DEF Sel!Next, Sel!ServerStep

LEMMA ConnectedStep == ASSUME Sel!SelectAssumption, SelectInv, Sel!Next PROVE Connected'
<1> USE DEF Connected
<1>1. Connected /\ s_conn \in [Peers -> {"none", "backlog", "open", "closed"}]
  BY DEF SelectInv, Sel!TypeOK
<1>2. s_backlog \in Seq(Peers) /\ fdtab \in [Sel!Fds -> Peers \cup {NoClient}]
  BY DEF SelectInv, Sel!TypeOK
<1>3. s_cpc \in [Peers -> {"idle", "ready", "await", "left"}]
  BY DEF SelectInv, Sel!TypeOK
<1>4. /\ \A k \in 1 .. Len(s_backlog) : s_backlog[k] \in Peers
      /\ \A g \in Sel!Fds : fdtab[g] # NoClient => fdtab[g] \in Peers
  BY <1>2, ElementOfSeq
<1>6. ASSUME NEW c \in Peers, Sel!Connect(c) PROVE Connected'
  <2>1. /\ s_backlog' = Append(s_backlog, c) /\ fdtab' = fdtab /\ s_cpc[c] = "idle"
        /\ \A d \in Peers : s_conn'[d] = IF d = c THEN "backlog" ELSE s_conn[d]
        /\ \A d \in Peers : s_cpc'[d] = IF d = c THEN "ready" ELSE s_cpc[d]
    BY <1>1, <1>3, <1>6 DEF Sel!Connect
  <2>2. /\ \A k \in 1 .. Len(s_backlog) : s_backlog'[k] = s_backlog[k] /\ s_backlog[k] \in Peers
        /\ s_backlog'[Len(s_backlog) + 1] = c
        /\ \A k \in 1 .. Len(s_backlog') : k \in 1 .. Len(s_backlog) \/ k = Len(s_backlog) + 1
    <3>1. Len(s_backlog) \in Nat /\ Len(s_backlog') = Len(s_backlog) + 1
      BY <1>2, <2>1, LenProperties, AppendProperties
    <3> QED
      BY <1>2, <1>4, <2>1, <3>1, AppendProperties
  <2>3. s_conn[c] = "none"
    BY <1>1, <2>1
  <2>4. \A k \in 1 .. Len(s_backlog') : s_conn'[s_backlog'[k]] = "backlog"
    BY <1>1, <2>1, <2>2
  <2>5. \A j, k \in 1 .. Len(s_backlog') : s_backlog'[j] = s_backlog'[k] => j = k
    BY <1>1, <2>2, <2>3
  <2>6. \A g \in Sel!Fds : fdtab'[g] # NoClient => s_conn'[fdtab'[g]] = "open"
    BY <1>1, <1>4, <2>1, <2>3
  <2> QED
    BY <1>1, <2>1, <2>4, <2>5, <2>6
<1>7. ASSUME NEW c \in Peers, Sel!Say(c) \/ Sel!Hear(c) \/ Sel!Quit(c) \/ Sel!ServerGone(c)
      PROVE  Connected'
  <2>1. UNCHANGED <<s_conn, fdtab, s_backlog>>
    BY <1>7 DEF Sel!Say, Sel!Hear, Sel!Quit, Sel!ServerGone
  <2>2. \A d \in Peers : s_cpc'[d] = "idle" => s_cpc[d] = "idle"
    BY <1>3, <1>7 DEF Sel!Say, Sel!Hear, Sel!Quit, Sel!ServerGone
  <2> QED
    BY <1>1, <2>1, <2>2
<1>8. CASE Sel!Accept
  <2> DEFINE f == Sel!Least(Sel!FreeFds)
             c == Head(s_backlog)
  <2>1. f \in Sel!Fds /\ fdtab[f] = NoClient
    BY <1>8, AcceptEffect
  <2>2. /\ c \in Peers /\ s_conn[c] = "backlog"
        /\ \A k \in 1 .. Len(s_backlog') : /\ s_backlog'[k] \in Peers /\ s_backlog'[k] # c
                                          /\ s_conn[s_backlog'[k]] = "backlog"
        /\ \A j, k \in 1 .. Len(s_backlog') : s_backlog'[j] = s_backlog'[k] => j = k
    BY <1>8, BacklogEffect DEF Sel!Accept
  <2>3. /\ fdtab' = [fdtab EXCEPT ![f] = c] /\ s_conn' = [s_conn EXCEPT ![c] = "open"]
        /\ s_cpc' = s_cpc
    BY <1>8 DEF Sel!Accept, Sel!client
  <2> HIDE DEF f, c
  <2>4. \A g \in Sel!Fds : fdtab'[g] = IF g = f THEN c ELSE fdtab[g]
    BY <1>2, <2>3
  <2>5. \A d \in Peers : s_conn'[d] = IF d = c THEN "open" ELSE s_conn[d]
    BY <1>1, <2>3
  <2>6. \A g \in Sel!Fds : fdtab[g] # c
    BY <1>1, <2>2, SelectNumbers
  <2> QED
    BY <1>1, <1>4, <2>1, <2>2, <2>3, <2>4, <2>5, <2>6
<1>9. CASE Sel!Reject \/ Sel!AcceptAborted
  <2> DEFINE c == Head(s_backlog)
  <2>1. /\ c \in Peers /\ s_conn[c] = "backlog"
        /\ \A k \in 1 .. Len(s_backlog') : /\ s_backlog'[k] \in Peers /\ s_backlog'[k] # c
                                          /\ s_conn[s_backlog'[k]] = "backlog"
        /\ \A j, k \in 1 .. Len(s_backlog') : s_backlog'[j] = s_backlog'[k] => j = k
    BY <1>9, BacklogEffect DEF Sel!Reject, Sel!AcceptAborted
  <2>2. /\ fdtab' = fdtab /\ s_cpc' = s_cpc
        /\ \A d \in Peers : s_conn'[d] = IF d = c THEN "closed" ELSE s_conn[d]
    BY <1>1, <1>9 DEF Sel!Reject, Sel!AcceptAborted, Sel!client
  <2> HIDE DEF c
  <2> QED
    BY <1>1, <1>4, <2>1, <2>2
<1>10. CASE Sel!RecvEof
  <2> DEFINE f == Sel!Current
             c == Sel!Client
  <2>1. f \in Sel!Fds /\ c = fdtab[f] /\ c \in Peers /\ s_conn[c] = "open"
    BY <1>10, ServingSlot DEF Sel!RecvEof
  <2>2. /\ s_conn' = [s_conn EXCEPT ![c] = "closed"] /\ fdtab' = [fdtab EXCEPT ![f] = NoClient]
        /\ s_backlog' = s_backlog /\ s_cpc' = s_cpc
    BY <1>10 DEF Sel!RecvEof, Sel!client
  <2> HIDE DEF f, c
  <2>3. \A g \in Sel!Fds : fdtab'[g] = IF g = f THEN NoClient ELSE fdtab[g]
    BY <1>2, <2>2
  <2>4. \A d \in Peers : s_conn'[d] = IF d = c THEN "closed" ELSE s_conn[d]
    BY <1>1, <2>2
  <2>5. \A g \in Sel!Fds : g # f => fdtab[g] # c
    BY <1>1, <2>1, SelectNumbers
  <2>6. \A g, h \in Sel!Fds : fdtab'[g] = fdtab'[h] /\ fdtab'[g] # NoClient => g = h
    BY <1>1, <2>3
  <2>7. \A g \in Sel!Fds : fdtab'[g] # NoClient => s_conn'[fdtab'[g]] = "open"
    BY <1>1, <1>4, <2>3, <2>4, <2>5
  <2>8. \A k \in 1 .. Len(s_backlog') : s_conn'[s_backlog'[k]] = "backlog"
    BY <1>1, <1>4, <2>1, <2>2, <2>4
  <2>9. \A d \in Peers : s_cpc'[d] = "idle" => s_conn'[d] = "none"
    BY <1>1, <2>1, <2>2, <2>4
  <2> QED
    BY <1>1, <2>2, <2>6, <2>7, <2>8, <2>9
<1>11. CASE Sel!SelectFails
  <2>1. /\ s_backlog' = <<>> /\ Len(s_backlog') = 0 /\ s_cpc' = s_cpc
        /\ \A g \in Sel!Fds : fdtab'[g] = NoClient
        /\ \A d \in Peers : s_conn[d] = "none" => s_conn'[d] = "none"
    BY <1>11 DEF Sel!SelectFails, Sel!client
  <2> QED
    BY <1>1, <2>1
<1>12. CASE Sel!Select \/ Sel!AcceptFails \/ Sel!RecvData \/ Sel!RecvError \/ Sel!ScanDone
  <2>1. UNCHANGED <<s_conn, fdtab, s_backlog, s_cpc>>
    BY <1>12 DEF Sel!Select, Sel!AcceptFails, Sel!RecvData, Sel!RecvError, Sel!ScanDone, Sel!client
  <2> QED
    BY <1>1, <2>1
<1> QED
  BY <1>6, <1>7, <1>8, <1>9, <1>10, <1>11, <1>12 DEF Sel!Next, Sel!ServerStep

LEMMA ExchangeStep == ASSUME Sel!SelectAssumption, SelectInv, Sel!Next PROVE Exchange'
<1> USE DEF Exchange
<1>1. Exchange /\ s_unread \in [Peers -> 0 .. 1] /\ s_replies \in [Peers -> 0 .. 1]
  BY DEF SelectInv, Sel!TypeOK
<1>2. s_cpc \in [Peers -> {"idle", "ready", "await", "left"}]
  BY DEF SelectInv, Sel!TypeOK
<1>3. ASSUME NEW c \in Peers, Sel!Connect(c) \/ Sel!Quit(c) \/ Sel!ServerGone(c) PROVE Exchange'
  <2>1. s_unread' = s_unread /\ s_replies' = s_replies
    BY <1>3 DEF Sel!Connect, Sel!Quit, Sel!ServerGone
  <2>2. \A d \in Peers : s_cpc'[d] \in {"idle", "ready"} => s_cpc[d] \in {"idle", "ready"}
    BY <1>2, <1>3 DEF Sel!Connect, Sel!Quit, Sel!ServerGone
  <2> QED
    BY <1>1, <2>1, <2>2
<1>4. ASSUME NEW c \in Peers, Sel!Say(c) PROVE Exchange'
  <2>1. /\ s_replies' = s_replies /\ s_cpc[c] = "ready"
        /\ \A d \in Peers : s_unread'[d] = IF d = c THEN s_unread[c] + 1 ELSE s_unread[d]
    BY <1>1, <1>4 DEF Sel!Say
  <2>2. \A d \in Peers : s_cpc'[d] = IF d = c THEN "await" ELSE s_cpc[d]
    BY <1>2, <1>4 DEF Sel!Say
  <2> QED
    BY <1>1, <2>1, <2>2
<1>5. ASSUME NEW c \in Peers, Sel!Hear(c) PROVE Exchange'
  <2>1. /\ s_unread' = s_unread /\ s_replies[c] > 0
        /\ \A d \in Peers : s_replies'[d] = IF d = c THEN s_replies[c] - 1 ELSE s_replies[d]
    BY <1>1, <1>5 DEF Sel!Hear
  <2>2. \A d \in Peers : s_cpc'[d] = IF d = c THEN "ready" ELSE s_cpc[d]
    BY <1>2, <1>5 DEF Sel!Hear
  <2> QED
    BY <1>1, <2>1, <2>2
<1>6. CASE Sel!RecvData
  <2>1. Sel!Client \in Peers /\ s_unread[Sel!Client] > 0
    BY <1>6, ServingSlot DEF Sel!RecvData
  <2>2. /\ s_unread' = [s_unread EXCEPT ![Sel!Client] = 0]
        /\ s_replies' = [s_replies EXCEPT ![Sel!Client] = s_replies[Sel!Client] + 1] /\ s_cpc' = s_cpc
    BY <1>6 DEF Sel!RecvData, Sel!client
  <2>3. \A d \in Peers :
          IF d = Sel!Client THEN s_unread'[d] = 0 /\ s_replies'[d] = s_replies[d] + 1
          ELSE s_unread'[d] = s_unread[d] /\ s_replies'[d] = s_replies[d]
    BY <1>1, <2>2
  <2> QED
    BY <1>1, <2>1, <2>2, <2>3
<1>7. CASE \/ Sel!Select \/ Sel!Accept \/ Sel!Reject \/ Sel!AcceptFails \/ Sel!AcceptAborted
           \/ Sel!RecvError
           \/ Sel!RecvEof \/ Sel!ScanDone \/ Sel!SelectFails
  <2>1. UNCHANGED <<s_unread, s_replies, s_cpc>>
    BY <1>7 DEF Sel!Select, Sel!Accept, Sel!Reject, Sel!AcceptFails, Sel!AcceptAborted, Sel!RecvError,
       Sel!RecvEof, Sel!ScanDone, Sel!SelectFails,
       Sel!client
  <2> QED
    BY <1>1, <2>1
<1> QED
  BY <1>3, <1>4, <1>5, <1>6, <1>7 DEF Sel!Next, Sel!ServerStep

\* Nothing but its own turn makes a client's descriptor unreadable.
LEMMA StaysReadable ==
  ASSUME Sel!SelectAssumption, SelectInv, NEW f \in Sel!Fds, Sel!Readable(f), fdtab'[f] = fdtab[f],
         \A c \in Peers : s_unread'[c] = s_unread[c] \/ s_unread'[c] > 0 \/ c # fdtab[f],
         \A c \in Peers : s_ending[c] # "no" => s_ending'[c] # "no"
  PROVE  Sel!Readable(f)'
<1>1. fdtab[f] # NoClient /\ (s_unread[fdtab[f]] > 0 \/ s_ending[fdtab[f]] # "no")
  BY SelectNumbers DEF Sel!Readable
<1>2. fdtab[f] \in Peers
  BY <1>1 DEF SelectInv, Sel!TypeOK
<1>3. s_unread'[fdtab[f]] > 0 \/ s_ending'[fdtab[f]] # "no"
  BY <1>1, <1>2
<1> QED
  BY <1>1, <1>3, SelectNumbers DEF Sel!Readable

LEMMA AnswerStep == ASSUME Sel!SelectAssumption, SelectInv, Sel!Next PROVE StillReady'
<1> USE DEF StillReady
<1>1. /\ StillReady /\ readfds \subseteq Sel!Fds \cup {Sel!ListenFd} /\ slot \in 1 .. MaxClients + 1
      /\ s_ending \in [Peers -> {"no", "fin", "reset"}]
  BY DEF SelectInv, Sel!TypeOK
<1>2. s_unread \in [Peers -> 0 .. 1] /\ client_fds \in [Sel!Slots -> Sel!Fds \cup {Sel!Free}]
  BY DEF SelectInv, Sel!TypeOK
<1>3. ASSUME NEW c \in Peers, \/ Sel!Connect(c) \/ Sel!Say(c) \/ Sel!Hear(c)
                              \/ Sel!Quit(c) \/ Sel!ServerGone(c)
      PROVE  StillReady'
  <2>1. UNCHANGED <<fdtab, tempfds, readfds, client_fds, s_pc, slot>>
    BY <1>3 DEF Sel!Connect, Sel!Say, Sel!Hear, Sel!Quit, Sel!ServerGone, Sel!server
  <2>2. s_backlog # <<>> => s_backlog' # <<>>
    <3>1. CASE Sel!Connect(c)
      <4>1. s_backlog \in Seq(Peers) /\ s_backlog' = Append(s_backlog, c)
        BY <3>1 DEF Sel!Connect, SelectInv, Sel!TypeOK
      <4>2. s_backlog' \in Seq(Peers) /\ Len(s_backlog') = Len(s_backlog) + 1 /\ Len(s_backlog) \in Nat
        BY <4>1, AppendProperties, LenProperties
      <4> QED
        BY <4>2, EmptySeq
    <3>2. CASE ~Sel!Connect(c)
      BY <1>3, <3>2 DEF Sel!Say, Sel!Hear, Sel!Quit, Sel!ServerGone
    <3> QED
      BY <3>1, <3>2
  <2>3. \A d \in Peers : s_unread'[d] = s_unread[d] \/ s_unread'[d] > 0
    BY <1>2, <1>3 DEF Sel!Connect, Sel!Say, Sel!Hear, Sel!Quit, Sel!ServerGone
  <2>4. \A d \in Peers : s_ending[d] # "no" => s_ending'[d] # "no"
    BY <1>1, <1>3 DEF Sel!Connect, Sel!Say, Sel!Hear, Sel!Quit, Sel!ServerGone
  <2>5. \A f \in Sel!Fds : Sel!Readable(f) => Sel!Readable(f)'
    BY <2>1, <2>3, <2>4, StaysReadable
  <2> QED
    BY <1>1, <2>1, <2>2, <2>5
<1>4. CASE Sel!Select
  <2>1. /\ tempfds' = {f \in readfds : Sel!Readable(f)} /\ slot' = 1
        /\ s_pc' = IF Sel!ListenFd \in tempfds' THEN "accept" ELSE "scan"
        /\ UNCHANGED <<fdtab, s_unread, s_ending, s_backlog, readfds, client_fds>>
    BY <1>4 DEF Sel!Select, Sel!client, Sel!server
  <2>2. \A f : Sel!Readable(f) => Sel!Readable(f)'
    BY <2>1 DEF Sel!Readable
  <2>3. Sel!ListenFd \in tempfds' => s_backlog' # <<>>
    BY <2>1 DEF Sel!Readable
  <2> QED
    BY <2>1, <2>2, <2>3
<1>5. CASE Sel!Accept
  <2> DEFINE g == Sel!Least(Sel!FreeFds)
             k == Sel!Least(Sel!FreeSlots)
  <2>1. g \in Sel!Fds /\ fdtab[g] = NoClient /\ g \notin tempfds /\ k \in Sel!Slots
    BY <1>5, AcceptEffect
  <2>2. /\ fdtab' = [fdtab EXCEPT ![g] = Head(s_backlog)]
        /\ client_fds' = [client_fds EXCEPT ![k] = g] /\ s_pc = "accept" /\ s_pc' = "scan"
        /\ UNCHANGED <<s_unread, s_ending, tempfds>>
    BY <1>5 DEF Sel!Accept, Sel!client
  <2> HIDE DEF g, k
  <2>3. \A f \in Sel!Fds : f # g => fdtab'[f] = fdtab[f]
    <3>1. fdtab \in [Sel!Fds -> Peers \cup {NoClient}]
      BY DEF SelectInv, Sel!TypeOK
    <3> QED
      BY <2>2, <3>1
  <2>4. \A f \in tempfds \cap Sel!Fds : Sel!Readable(f)
    BY <1>1, <2>2
  <2>5. \A f \in tempfds \cap Sel!Fds : Sel!Readable(f)'
    BY <2>1, <2>2, <2>3, <2>4, StaysReadable
  <2> QED
    BY <2>2, <2>5
<1>6. CASE Sel!Reject
  <2>1. UNCHANGED <<fdtab, s_unread, s_ending, tempfds>> /\ s_pc = "accept" /\ s_pc' = "scan"
    BY <1>6 DEF Sel!Reject, Sel!client
  <2>2. \A f \in tempfds \cap Sel!Fds : Sel!Readable(f)
    BY <1>1, <2>1
  <2>3. \A f \in tempfds \cap Sel!Fds : Sel!Readable(f)'
    BY <2>1, <2>2, StaysReadable
  <2> QED
    BY <2>1, <2>3
<1>7. CASE Sel!AcceptFails \/ Sel!AcceptAborted \/ Sel!ScanDone \/ Sel!SelectFails
  BY <1>7 DEF Sel!AcceptFails, Sel!AcceptAborted, Sel!ScanDone, Sel!NextRound, Sel!SelectFails
<1>8. CASE Sel!RecvData \/ Sel!RecvError \/ Sel!RecvEof
  <2> DEFINE k == Sel!Least(Sel!ToServe)
             h == Sel!Current
             c == Sel!Client
  <2>1. /\ k \in Sel!Slots /\ k >= slot /\ h \in Sel!Fds /\ client_fds[k] = h /\ c = fdtab[h]
        /\ \A g \in Sel!Fds : g # h => fdtab[g] # c
    BY <1>8, ServingSlot DEF Sel!RecvData, Sel!RecvError, Sel!RecvEof
  <2>2. s_pc = "scan" /\ s_pc' = "scan" /\ slot' = k + 1 /\ tempfds' = tempfds
    BY <1>8 DEF Sel!RecvData, Sel!RecvError, Sel!RecvEof, Sel!Scanned, Sel!Scanning
  <2>3. /\ s_unread' = s_unread \/ s_unread' = [s_unread EXCEPT ![c] = 0]
        /\ s_ending' = s_ending \/ s_ending' = [s_ending EXCEPT ![c] = "fin"]
        /\ fdtab' = fdtab \/ fdtab' = [fdtab EXCEPT ![h] = NoClient]
        /\ client_fds' = client_fds \/ client_fds' = [client_fds EXCEPT ![k] = Sel!Free]
    BY <1>8 DEF Sel!RecvData, Sel!RecvError, Sel!RecvEof, Sel!client, Sel!server
  <2> HIDE DEF k, h, c
  <2>4. \A d \in Peers : s_unread'[d] = s_unread[d] \/ d = c
    BY <1>2, <2>3
  <2>5. \A d \in Peers : s_ending[d] # "no" => s_ending'[d] # "no"
    BY <1>1, <2>3
  <2>6. \A f \in Sel!Fds : f # h => fdtab'[f] = fdtab[f]
    <3>1. fdtab \in [Sel!Fds -> Peers \cup {NoClient}]
      BY DEF SelectInv, Sel!TypeOK
    <3> QED
      BY <2>3, <3>1
  <2>7. \A f \in Sel!Fds : f # h /\ Sel!Readable(f) => Sel!Readable(f)'
    BY <2>1, <2>4, <2>5, <2>6, StaysReadable
  <2>8. ASSUME NEW j \in Sel!Slots, NEW f \in Sel!Fds, j >= slot', client_fds'[j] = f, f \in tempfds
        PROVE  Sel!Readable(f)'
    <3>1. j # k /\ j >= slot
      BY <1>1, <2>1, <2>2, <2>8, SelectNumbers
    <3>2. client_fds[j] = f
      BY <1>2, <2>1, <2>3, <2>8, <3>1
    <3>3. f # h
      BY <2>1, <3>1, <3>2, SelectNumbers DEF SelectInv, Sel!RecordsAgree
    <3>4. Sel!Readable(f)
      BY <1>1, <2>2, <2>8, <3>1, <3>2
    <3> QED
      BY <2>7, <3>3, <3>4
  <2> QED
    BY <2>2, <2>8
<1> QED
  BY <1>3, <1>4, <1>5, <1>6, <1>7, <1>8 DEF Sel!Next, Sel!ServerStep

---------------------------------------------------------------------------
\* The select server's inductive invariant holds throughout.
THEOREM SelectInvariance == Sel!Spec => []SelectInv
<1> USE PartsAssumption
<1>1. Sel!Init => SelectInv
  BY SelectInit
<1>2. SelectInv /\ [Sel!Next]_(Sel!vars) => SelectInv'
  <2> SUFFICES ASSUME SelectInv, [Sel!Next]_(Sel!vars) PROVE SelectInv'
    OBVIOUS
  <2>1. CASE UNCHANGED Sel!vars
    BY <2>1 DEF SelectInv, Sel!TypeOK, Sel!RecordsAgree, Connected, Exchange, StillReady,
       Sel!Readable, Sel!vars, Sel!client, Sel!server
  <2>2. CASE Sel!Next
    BY <2>2, TypeStep, RecordsStep, ConnectedStep, ExchangeStep, AnswerStep DEF SelectInv
  <2> QED
    BY <2>1, <2>2
<1> QED
  BY <1>1, <1>2, PTL DEF Sel!Spec

\* The sets, the slots and the open descriptors agree whenever select is called,
\* client_count counts the slots, and neither accept nor recv is ever called on a
\* socket on which it would block (select_concurrent_server/server.c's main).
THEOREM SetsTrusted == Sel!Spec => []NeverMisled
<1>1. SelectInv => NeverMisled
  BY PartsAssumption, NotBlocked DEF SelectInv, NeverMisled, Sel!NeverMisled
<1> QED
  BY <1>1, SelectInvariance, PTL

---------------------------------------------------------------------------
(* The composition *)

\* The composition implements each part.
THEOREM PartsSpec == MCSpec => Spec /\ Udp!Spec /\ Sel!Spec
<1>1. MCInit => Init /\ Udp!Init /\ Sel!Init
  BY DEF MCInit
<1>2. ASSUME [MCNext]_<<vars, udpVars, selVars, part>>
      PROVE  [Next]_vars /\ [Udp!Next]_(Udp!vars) /\ [Sel!Next]_(Sel!vars)
  BY <1>2 DEF MCNext, udpVars, Udp!vars, selVars, Sel!vars, Sel!client, Sel!server
<1> QED
  BY <1>1, <1>2, PTL DEF MCSpec, Spec, Udp!Spec, Sel!Spec

\* The type invariants of both, where both run.
THEOREM TypesCorrect == MCSpec => []TypesOK
<1>1. EpollInv /\ UdpInv => TypesOK
  BY DEF EpollInv, UdpInv, TypesOK
<1> QED
  BY <1>1, PartsSpec, EpollInvariance, UdpInvariance, PTL

===========================================================================
