------------------------- MODULE HttpServerProofs -------------------------
(***************************************************************************)
(* Proofs about HttpServer for any number of clients, descriptors, workers *)
(* and queue slots.                                                        *)
(*                                                                         *)
(* OneHolder counts the holders of a descriptor.  The inductive invariant  *)
(* IInv says the same without counting: the places that hold a number      *)
(* exclude each other (Apart) and hold only open ones, and while the       *)
(* server runs every open one (Known).  The other groups say what a number *)
(* in the events array is (Events), what the threads' places imply         *)
(* (Places), whom a descriptor denotes (Connected), that whoever is handed *)
(* to a worker has been heard of (Heard), how much of it has been read     *)
(* (Counted, Untouched) and that it was not answered yet (Answered).  For  *)
(* HttpPool, Order ties the numbers of the submissions to the ring and the workers.  *)
(***************************************************************************)
EXTENDS HttpPool, SequenceTheorems, FunctionTheorems, FiniteSetTheorems,
        WellFoundedInduction, TLAPS

Queued(q, f)  == \E i \in 1 .. Len(q) : q[i] = f
Serving(j, f) == \E w \in Workers : j[w] = f

Apart ==
  /\ current \notin interest
  /\ \A i \in 1 .. Len(queue) : queue[i] \notin interest /\ queue[i] # current
  /\ \A i \in 1 .. Len(queue), w \in Workers : queue[i] # job[w]
  /\ \A w \in Workers : job[w] \notin interest /\ (job[w] # NoFd => job[w] # current)
  /\ \A i, j \in 1 .. Len(queue) : queue[i] = queue[j] => i = j
  /\ \A w, x \in Workers : job[w] = job[x] /\ job[w] # NoFd => w = x

Known ==
  /\ \A f \in interest : fdtab[f] # NoClient
  /\ current # NoFd => fdtab[current] # NoClient
  /\ \A i \in 1 .. Len(queue) : fdtab[queue[i]] # NoClient
  /\ \A w \in Workers : job[w] # NoFd => fdtab[job[w]] # NoClient
  /\ Up => \A f \in Fds : fdtab[f] # NoClient =>
             f \in interest \/ f = current \/ Queued(queue, f) \/ Serving(job, f)

Events ==
  /\ mpc \in {"wait", "drain", "end"} => batch = <<>>
  /\ \A i \in 1 .. Len(batch) : batch[i] # Listen => batch[i] \in interest \ armed
  /\ \A i, j \in 1 .. Len(batch) : batch[i] = batch[j] => i = j

Places ==
  /\ current = NoFd <=> mpc # "submit"
  /\ \A w \in Workers : job[w] = NoFd <=> wpc[w] = "take"
  /\ ~Up => backlog = <<>> /\ interest = {}

Connected ==
  /\ \A f, g \in Fds : fdtab[f] = fdtab[g] /\ fdtab[f] # NoClient => f = g
  /\ \A f \in Fds : fdtab[f] # NoClient => cstate[fdtab[f]] = "open"
  /\ \A i \in 1 .. Len(backlog) : cstate[backlog[i]] = "backlog"
  /\ \A i, j \in 1 .. Len(backlog) : backlog[i] = backlog[j] => i = j

Reported(f) ==
  \/ f \in interest \ armed \/ f = current
  \/ Queued(queue, f) \/ Serving(job, f)

Heard ==
  \A f \in Fds : Reported(f) => sent[fdtab[f]] > 0 \/ fin[fdtab[f]]

Counted ==
  /\ \A c \in Clients : unread[c] <= sent[c]
  /\ \A w \in Workers : wpc[w] \in {"recv", "respond"} =>
       got[w] + unread[Peer(w)] = sent[Peer(w)]
  /\ \A w \in Workers : wpc[w] = "respond" => sent[Peer(w)] > 0

Untouched ==
  /\ \A c \in Clients : cstate[c] \in {"idle", "backlog"} => unread[c] = sent[c]
  /\ \A f \in Fds : fdtab[f] # NoClient /\ ~Serving(job, f) =>
       unread[fdtab[f]] = sent[fdtab[f]]

Answered ==
  /\ \A c \in Clients : cstate[c] \in {"idle", "backlog"} => reply[c] = "none"
  /\ \A f \in Fds :
       fdtab[f] # NoClient /\ (\A w \in Workers : job[w] = f => wpc[w] \notin {"send", "close"})
         => reply[fdtab[f]] = "none"

IInv == /\ TypeOK /\ Apart /\ Known /\ Events /\ Places
        /\ Connected /\ Heard /\ Counted /\ Untouched /\ Answered

---------------------------------------------------------------------------
(* Sequences, the lowest number, the events array                          *)

LEMMA AppendParts ==
  ASSUME NEW S, NEW q \in Seq(S), NEW e \in S
  PROVE  /\ Append(q, e) \in Seq(S) /\ Len(q) \in Nat
         /\ Len(Append(q, e)) = Len(q) + 1
         /\ \A i \in 1 .. Len(q) : Append(q, e)[i] = q[i] /\ q[i] \in S
         /\ Append(q, e)[Len(q) + 1] = e
         /\ \A i \in 1 .. Len(q) + 1 : i \in 1 .. Len(q) \/ i = Len(q) + 1
<1>1. Len(q) \in Nat /\ \A i \in 1 .. Len(q) : q[i] \in S
  BY LenProperties, ElementOfSeq
<1>2. \A i \in 1 .. Len(q) + 1 : i \in 1 .. Len(q) \/ i = Len(q) + 1
  BY <1>1
<1> QED
  BY <1>1, <1>2, AppendProperties

LEMMA TailParts ==
  ASSUME NEW S, NEW q \in Seq(S), q # <<>>
  PROVE  /\ Tail(q) \in Seq(S) /\ Len(Tail(q)) \in Nat /\ Len(q) = Len(Tail(q)) + 1
         /\ \A i \in 1 .. Len(Tail(q)) : /\ Tail(q)[i] = q[i + 1] /\ i + 1 \in 1 .. Len(q)
                                         /\ i + 1 # 1
         /\ 1 \in 1 .. Len(q) /\ Head(q) = q[1] /\ Head(q) \in S
         /\ \A i \in 1 .. Len(q) :
              i = 1 \/ (i - 1 \in 1 .. Len(Tail(q)) /\ q[i] = Tail(q)[i - 1])
<1>1. Len(q) \in Nat \ {0} /\ Len(Tail(q)) \in Nat
  BY EmptySeq, HeadTailProperties, LenProperties
<1>2. Len(q) = Len(Tail(q)) + 1
  BY <1>1, HeadTailProperties
<1>3. \A i \in 1 .. Len(Tail(q)) : Tail(q)[i] = q[i + 1]
  BY HeadTailProperties
<1>4. ASSUME NEW i \in 1 .. Len(q)
      PROVE  i = 1 \/ (i - 1 \in 1 .. Len(Tail(q)) /\ q[i] = Tail(q)[i - 1])
  <2>1. i = 1 \/ (i - 1 \in 1 .. Len(Tail(q)) /\ (i - 1) + 1 = i)
    BY <1>1, <1>2
  <2> QED
    BY <2>1, <1>3
<1>5. \A i \in 1 .. Len(Tail(q)) : i + 1 \in 1 .. Len(q) /\ i + 1 # 1
  BY <1>1, <1>2
<1>6. Tail(q) \in Seq(S) /\ Head(q) = q[1] /\ Head(q) \in S /\ 1 \in 1 .. Len(q)
  BY <1>1, HeadTailProperties
<1> QED
  BY <1>1, <1>2, <1>3, <1>4, <1>5, <1>6

\* What Lowest chooses exists: less-than is well-founded on the naturals.
LEMMA LowestIsIn ==
  ASSUME NEW fs \in SUBSET Nat, fs # {}
  PROVE  Lowest(fs) \in fs
<1> DEFINE R == {p \in Nat \X Nat : p[1] < p[2]}
<1>0. IsWellFoundedOn(R, Nat)
  BY NatLessThanWellFounded DEF OpToRel
<1>1. \E f \in fs : \A g \in fs : ~(<<g, f>> \in R)
  <2> HIDE DEF R
  <2> QED
    BY <1>0, WFMin
<1>2. ASSUME NEW f \in fs, NEW g \in fs, g < f
      PROVE  <<g, f>> \in R
  <2>1. <<g, f>> \in Nat \X Nat /\ <<g, f>>[1] < <<g, f>>[2]
    BY <1>2
  <2> QED
    BY <2>1
<1>3. \E f \in fs : \A g \in fs : f <= g
  <2> HIDE DEF R
  <2>1. PICK f \in fs : \A g \in fs : ~(<<g, f>> \in R)
    BY <1>1
  <2>2. ASSUME NEW g \in fs PROVE f <= g
    <3>1. ~(g < f)
      BY <1>2, <2>1
    <3>2. f \in Nat /\ g \in Nat
      OBVIOUS
    <3> QED
      BY <3>1, <3>2
  <2> QED
    BY <2>2
<1> QED
  BY <1>3 DEF Lowest

\* An ordering of a finite set is a sequence that has every element once.
LEMMA Ordering ==
  ASSUME NEW S, IsFiniteSet(S), NEW s \in SetToSeqs(S)
  PROVE  /\ s \in Seq(S)
         /\ \A i \in 1 .. Len(s) : s[i] \in S
         /\ \A i, j \in 1 .. Len(s) : s[i] = s[j] => i = j
         /\ \A x \in S : \E i \in 1 .. Len(s) : s[i] = x
<1> DEFINE n == Cardinality(S)
<1>1. n \in Nat
  BY FS_CardinalityType
<1>2. s \in [1 .. n -> S] /\ \A i, j \in 1 .. n : i # j => s[i] # s[j]
  BY DEF SetToSeqs
<1>3. s \in Seq(S) /\ Len(s) = n
  BY <1>1, <1>2
<1>4. s \in Injection(1 .. n, S)
  BY <1>2, Fun_IsInj
<1>5. Cardinality(1 .. n) = n
  BY <1>1, FS_Interval
<1>6. s \in Surjection(1 .. n, S)
  BY <1>4, <1>5, FS_Injection
<1>7. \A x \in S : \E i \in 1 .. n : s[i] = x
  BY <1>6 DEF Surjection
<1> QED
  BY <1>2, <1>3, <1>7

LEMMA Sizes ==
  /\ NFds \in Nat /\ QueueSize \in Nat \ {0} /\ Segments \in Nat \ {0}
  /\ MaxEvents \in Nat \ {0} /\ NoClient \notin Clients
  /\ Fds \subseteq Nat /\ NoFd \notin Fds /\ Listen \notin Fds
  BY ConstantsAssumption DEF ConstantsAssumption, Fds, NoFd, Listen

\* A worker that serves has an open descriptor of its own.
LEMMA AtWork ==
  ASSUME IInv, NEW w \in Workers, wpc[w] # "take"
  PROVE  /\ job[w] \in Fds /\ fdtab[job[w]] \in Clients /\ fdtab[job[w]] # NoClient
         /\ job[w] \notin interest /\ cstate[fdtab[job[w]]] = "open"
         /\ \A x \in Workers : x # w /\ wpc[x] # "take" =>
              job[x] \in Fds /\ job[x] # job[w] /\ fdtab[job[x]] # fdtab[job[w]]
<1> USE DEF IInv
<1>1. \A x \in Workers : wpc[x] # "take" =>
        job[x] \in Fds /\ job[x] # NoFd /\ fdtab[job[x]] # NoClient
  BY DEF TypeOK, Places, Known
<1>2. \A f \in Fds : fdtab[f] # NoClient => fdtab[f] \in Clients
  BY DEF TypeOK
<1>3. \A x \in Workers : x # w /\ wpc[x] # "take" => job[x] # job[w]
  BY <1>1 DEF Apart
<1>4. \A x \in Workers : x # w /\ wpc[x] # "take" => fdtab[job[x]] # fdtab[job[w]]
  BY <1>1, <1>3 DEF Connected
<1>5. job[w] \notin interest /\ cstate[fdtab[job[w]]] = "open"
  BY <1>1 DEF Apart, Connected
<1> QED
  BY <1>1, <1>2, <1>3, <1>4, <1>5

---------------------------------------------------------------------------
(* The initial states *)

LEMMA InitInv == Init => IInv
<1> SUFFICES ASSUME Init PROVE IInv
  OBVIOUS
<1> USE Sizes, EmptySeq DEF Init
<1>1. TypeOK
  <2>1. /\ cstate \in [Clients -> {"idle", "backlog", "open", "closed"}]
        /\ reply \in [Clients -> {"none", "answer", "400"}]
    OBVIOUS
  <2>2. sent \in [Clients -> 0 .. Segments] /\ unread \in [Clients -> 0 .. Segments]
    OBVIOUS
  <2>3. fin \in [Clients -> BOOLEAN] /\ listenEdge \in BOOLEAN
    OBVIOUS
  <2>4. fdtab \in [Fds -> Clients \cup {NoClient}]
    OBVIOUS
  <2>5. /\ backlog \in Seq(Clients) /\ batch \in Seq(Fds \cup {Listen})
        /\ queue \in Seq(Fds) /\ Len(queue) <= QueueSize
    OBVIOUS
  <2>6. /\ interest \subseteq Fds /\ armed \subseteq interest
        /\ current \in Fds \cup {NoFd} /\ mpc = "wait" /\ cutShort \in BOOLEAN
    OBVIOUS
  <2>7. wpc \in [Workers -> {"take", "recv", "respond", "send", "close"}]
    OBVIOUS
  <2>8. job \in [Workers -> Fds \cup {NoFd}]
    OBVIOUS
  <2>9. got \in [Workers -> 0 .. Segments]
    OBVIOUS
  <2> HIDE DEF Init
  <2> QED
    BY <2>1, <2>2, <2>3, <2>4, <2>5, <2>6, <2>7, <2>8, <2>9 DEF TypeOK
<1>2. Apart
  BY DEF Apart
<1>3. Known
  BY DEF Known
<1>4. Events
  BY DEF Events
<1>5. Places
  BY DEF Places, Up
<1>6. Connected
  BY DEF Connected
<1>7. Heard
  BY DEF Heard, Reported, Queued, Serving
<1>8. Counted
  BY DEF Counted
<1>9. Answered
  BY DEF Answered
<1>10. Untouched
  BY DEF Untouched
<1> QED
  BY <1>1, <1>2, <1>3, <1>4, <1>5, <1>6, <1>7, <1>8, <1>9, <1>10 DEF IInv

---------------------------------------------------------------------------
(* The steps.  Each lemma takes the whole invariant and gives one group of *)
(* it back; the actions that leave the group's variables alone are one     *)
(* case.                                                                   *)

LEMMA Finite == IInv => IsFiniteSet(Ready) /\ Ready \subseteq armed \cup {Listen}
<1> SUFFICES ASSUME IInv PROVE IsFiniteSet(Ready) /\ Ready \subseteq armed \cup {Listen}
  OBVIOUS
<1>1. Ready \subseteq armed \cup {Listen}
  BY DEF Ready
<1>2. IsFiniteSet(Fds \cup {Listen})
  <2>1. NFds \in Int /\ 1 \in Int
    BY Sizes
  <2>2. IsFiniteSet(Fds)
    BY <2>1, FS_Interval DEF Fds
  <2> QED
    BY <2>2, FS_AddElement
<1>3. armed \cup {Listen} \subseteq Fds \cup {Listen}
  BY DEF IInv, TypeOK
<1> QED
  BY <1>1, <1>2, <1>3, FS_Subset

\* What epoll_wait puts in the array.
LEMMA WaitEffect ==
  ASSUME IInv, EpollWait
  PROVE  /\ batch' \in Seq(Fds \cup {Listen}) /\ mpc' = "batch" /\ armed' \subseteq armed
         /\ \A i \in 1 .. Len(batch') : batch'[i] # Listen =>
              /\ batch'[i] \in armed \ armed' /\ Readable(batch'[i])
         /\ \A i, j \in 1 .. Len(batch') : batch'[i] = batch'[j] => i = j
         /\ \/ \E i \in 1 .. Len(batch') : batch'[i] = Listen
            \/ listenEdge' = (listenEdge /\ backlog # <<>>)
         /\ \A f \in armed \ armed' : Readable(f)
<1>1. PICK reported \in SUBSET Ready :
        /\ batch' \in SetToSeqs(reported) /\ armed' = armed \ reported
        /\ listenEdge' = (listenEdge /\ backlog # <<>> /\ Listen \notin reported)
  BY DEF EpollWait, Disarm
<1>2. IsFiniteSet(reported) /\ reported \subseteq armed \cup {Listen}
  BY Finite, FS_Subset
<1>3. /\ batch' \in Seq(reported) /\ \A i \in 1 .. Len(batch') : batch'[i] \in reported
      /\ \A i, j \in 1 .. Len(batch') : batch'[i] = batch'[j] => i = j
      /\ \A x \in reported : \E i \in 1 .. Len(batch') : batch'[i] = x
  BY <1>1, <1>2, Ordering
<1>4. armed \subseteq Fds
  BY DEF IInv, TypeOK
<1>5. batch' \in Seq(Fds \cup {Listen})
  BY <1>2, <1>3, <1>4, SeqMonotonic
<1>6. \A f \in reported : f # Listen => f \in armed \ armed' /\ Readable(f)
  BY <1>1, <1>2 DEF Ready
<1>7. \A f \in armed \ armed' : f \in reported /\ f # Listen
  BY <1>1, <1>4, Sizes
<1>8. \/ \E i \in 1 .. Len(batch') : batch'[i] = Listen
      \/ listenEdge' = (listenEdge /\ backlog # <<>>)
  <2>1. CASE Listen \in reported
    BY <2>1, <1>3
  <2>2. CASE Listen \notin reported
    BY <2>2, <1>1
  <2> QED
    BY <2>1, <2>2
<1>9. mpc' = "batch" /\ armed' \subseteq armed
  BY <1>1 DEF EpollWait
<1> QED
  BY <1>3, <1>5, <1>6, <1>7, <1>8, <1>9

\* Which descriptor and which client accept brings together.
LEMMA AcceptEffect ==
  ASSUME IInv, Accept
  PROVE  LET c == Head(backlog)
             f == Lowest(FreeFds)
         IN  /\ c \in Clients /\ cstate[c] = "backlog" /\ c = backlog[1]
             /\ f \in Fds /\ fdtab[f] = NoClient
             /\ cstate' = [cstate EXCEPT ![c] = "open"]
             /\ fdtab' = [fdtab EXCEPT ![f] = c]
             /\ interest' = interest \cup {f} /\ armed' = armed \cup {f}
             /\ f \notin interest /\ f # current /\ ~Queued(queue, f) /\ ~Serving(job, f)
<1> DEFINE c == Head(backlog)
           f == Lowest(FreeFds)
<1>1. c \in Clients /\ c = backlog[1] /\ 1 \in 1 .. Len(backlog)
  BY TailParts DEF IInv, TypeOK, Accept
<1>2. cstate[c] = "backlog"
  BY <1>1 DEF IInv, Connected
<1>3. FreeFds \subseteq Fds /\ \A g \in FreeFds : fdtab[g] = NoClient
  BY DEF FreeFds
<1>4. f \in FreeFds
  BY <1>3, Sizes, LowestIsIn DEF Accept
<1>5. f \notin interest /\ f # current /\ ~Queued(queue, f) /\ ~Serving(job, f)
  <2>1. f \in Fds /\ fdtab[f] = NoClient
    BY <1>3, <1>4
  <2>2. f \notin interest /\ f # current /\ f # NoFd
    BY <2>1, Sizes DEF IInv, Known
  <2>3. ~Queued(queue, f) /\ ~Serving(job, f)
    BY <2>1, Sizes DEF IInv, Known, Queued, Serving
  <2> QED
    BY <2>2, <2>3
<1> QED
  BY <1>1, <1>2, <1>3, <1>4, <1>5 DEF Accept

LEMMA TypeStep == ASSUME IInv, Next PROVE TypeOK'
<1> USE Sizes DEF IInv, TypeOK
<1>1. CASE EpollWait
  BY <1>1, WaitEffect DEF EpollWait, client, worker, Disarm
<1>2. CASE NextEventAccept
  BY <1>2, TailParts DEF NextEventAccept, client, worker, epoll
<1>3. CASE NextEventClient
  <2>1. Head(batch) \in Fds /\ Tail(batch) \in Seq(Fds \cup {Listen})
    BY <1>3, TailParts DEF NextEventClient
  <2>2. interest' \subseteq Fds /\ armed' \subseteq interest'
    BY <1>3 DEF NextEventClient, RemoveFd
  <2> QED
    BY <1>3, <2>1, <2>2 DEF NextEventClient, client, worker
<1>4. CASE Submit
  <2>1. current \in Fds
    BY <1>4 DEF Submit, Places
  <2>2. queue' \in Seq(Fds) /\ Len(queue') = Len(queue) + 1 /\ Len(queue) \in Nat
    BY <1>4, <2>1, AppendParts DEF Submit
  <2>3. Len(queue') <= QueueSize
    BY <1>4, <2>2 DEF Submit, Room
  <2>4. mpc' = "batch" /\ current' = NoFd
        /\ UNCHANGED <<client, backlog, fdtab, epoll, batch, cutShort, worker>>
    BY <1>4 DEF Submit
  <2> QED
    BY <2>2, <2>3, <2>4 DEF client, worker, epoll
<1>5. CASE BatchDone \/ AcceptAgain \/ AcceptFails \/ Finished
  BY <1>5 DEF BatchDone, AcceptAgain, AcceptFails, Finished, vars, client, epoll, main, worker
<1>6. CASE Accept
  BY <1>6, AcceptEffect, TailParts DEF Accept, AfterAccept, client, worker, epoll
<1>7. CASE AcceptDropped \/ AcceptAborted
  <2>1. Head(backlog) \in Clients /\ Tail(backlog) \in Seq(Clients)
    BY <1>7, TailParts DEF AcceptDropped, AcceptAborted
  <2>2. /\ cstate' = [cstate EXCEPT ![Head(backlog)] = "closed"] /\ backlog' = Tail(backlog)
        /\ UNCHANGED <<sent, unread, fin, reply, fdtab, epoll, batch, current, queue, worker>>
        /\ mpc' \in {mpc, "batch"} /\ cutShort' \in {cutShort, TRUE}
    BY <1>7 DEF AcceptDropped, AcceptAborted, main
  <2>3. cstate' \in [Clients -> {"idle", "backlog", "open", "closed"}]
    BY <2>1, <2>2
  <2> QED
    BY <2>1, <2>2, <2>3 DEF worker, epoll
<1>8. CASE Exit
  BY <1>8 DEF Exit, client, worker, epoll
<1>9. CASE WaitFails
  BY <1>9, EmptySeq DEF WaitFails, client, worker, epoll
<1>10. ASSUME NEW w \in Workers, Take(w) PROVE TypeOK'
  <2>1. /\ Head(queue) \in Fds /\ queue' \in Seq(Fds)
        /\ Len(queue') \in Nat /\ Len(queue) = Len(queue') + 1
    BY <1>10, TailParts DEF Take, Dequeued
  <2>2. Len(queue') <= QueueSize
    BY <2>1
  <2>3. job' \in [Workers -> Fds \cup {NoFd}] /\ wpc' \in [Workers -> {"take", "recv", "respond", "send", "close"}]
    BY <1>10, <2>1 DEF Take
  <2>4. got' \in [Workers -> 0 .. Segments]
    BY <1>10 DEF Take
  <2>5. UNCHANGED <<client, backlog, fdtab, epoll, main>>
    BY <1>10 DEF Take
  <2> QED
    BY <2>1, <2>2, <2>3, <2>4, <2>5 DEF client, epoll, main
<1>11. ASSUME NEW w \in Workers, Recv(w) PROVE TypeOK'
  <2>1. fdtab[job[w]] \in Clients
    BY <1>11, AtWork DEF Recv
  <2>2. got[w] + unread[fdtab[job[w]]] \in 0 .. Segments
    BY <1>11, <2>1 DEF Recv, Counted, Peer
  <2>3. got' \in [Workers -> 0 .. Segments]
    BY <1>11, <2>2 DEF Recv, Peer
  <2>4. unread' \in [Clients -> 0 .. Segments]
    BY <1>11, <2>1 DEF Recv, Peer
  <2>5. wpc' \in [Workers -> {"take", "recv", "respond", "send", "close"}]
    BY <1>11 DEF Recv
  <2> QED
    BY <1>11, <2>3, <2>4, <2>5 DEF Recv, epoll, main
<1>12. ASSUME NEW w \in Workers, RecvAgain(w) \/ RecvEnds(w) PROVE TypeOK'
  <2>1. /\ wpc' = [wpc EXCEPT ![w] = wpc'[w]] /\ wpc'[w] \in {"respond", "close"}
        /\ UNCHANGED <<client, backlog, fdtab, epoll, main, queue, job, got>>
    BY <1>12 DEF RecvAgain, RecvEnds
  <2>2. wpc' \in [Workers -> {"take", "recv", "respond", "send", "close"}]
    BY <2>1
  <2> QED
    BY <2>1, <2>2 DEF client, epoll, main
<1>13. ASSUME NEW w \in Workers, Respond(w) PROVE TypeOK'
  <2>1. wpc' \in [Workers -> {"take", "recv", "respond", "send", "close"}]
    BY <1>13 DEF Respond, AfterResponse
  <2>2. reply' \in [Clients -> {"none", "answer", "400"}]
    BY <1>13 DEF Respond
  <2> QED
    BY <1>13, <2>1, <2>2 DEF Respond, epoll, main
<1>18. ASSUME NEW w \in Workers, SendRest(w) PROVE TypeOK'
  BY <1>18 DEF SendRest, AfterResponse, client, epoll, main
<1>14. ASSUME NEW w \in Workers, CloseFd(w) PROVE TypeOK'
  BY <1>14 DEF CloseFd, client, epoll, main
<1>15. ASSUME NEW c \in Clients, Connect(c) PROVE TypeOK'
  BY <1>15, AppendParts DEF Connect, client, epoll, main, worker
<1>16. ASSUME NEW c \in Clients, SendSegment(c) PROVE TypeOK'
  <2>1. unread[c] <= sent[c] /\ sent[c] < Segments /\ sent[c] \in Nat /\ unread[c] \in Nat
    BY <1>16 DEF SendSegment, Counted
  <2>2. sent' \in [Clients -> 0 .. Segments]
    BY <1>16, <2>1 DEF SendSegment
  <2>3. unread' \in [Clients -> 0 .. Segments]
    BY <1>16, <2>1 DEF SendSegment
  <2> QED
    BY <1>16, <2>2, <2>3 DEF SendSegment, epoll, main, worker
<1>17. ASSUME NEW c \in Clients, Finish(c) PROVE TypeOK'
  BY <1>17 DEF Finish, client, epoll, main, worker
<1> HIDE DEF IInv, TypeOK
<1> QED
  BY <1>1, <1>2, <1>3, <1>4, <1>5, <1>6, <1>7, <1>8, <1>9, <1>10, <1>11, <1>12, <1>13,
     <1>14, <1>15, <1>16, <1>17, <1>18
  DEF Next, MainStep, AcceptStep, WorkerStep

\* The descriptor the main thread takes out of the array, and what is left.
LEMMA NextEffect ==
  ASSUME IInv, NextEventAccept \/ NextEventClient
  PROVE  /\ \A i \in 1 .. Len(batch') : i + 1 \in 1 .. Len(batch) /\ batch'[i] = batch[i + 1]
         /\ \A i \in 1 .. Len(batch') : batch'[i] # Head(batch) /\ i \in Int
         /\ \A i \in 1 .. Len(batch) : batch[i] = Head(batch) \/ \E j \in 1 .. Len(batch') : batch'[j] = batch[i]
         /\ Head(batch) # Listen => Head(batch) \in interest \ armed
<1> USE DEF IInv, TypeOK
<1>1. batch # <<>> /\ batch' = Tail(batch)
  BY DEF NextEventAccept, NextEventClient
<1>2. /\ \A i \in 1 .. Len(batch') : /\ batch'[i] = batch[i + 1] /\ i + 1 \in 1 .. Len(batch)
                                      /\ i + 1 # 1
      /\ 1 \in 1 .. Len(batch) /\ Head(batch) = batch[1]
      /\ \A i \in 1 .. Len(batch) :
           i = 1 \/ (i - 1 \in 1 .. Len(batch') /\ batch[i] = batch'[i - 1])
  BY <1>1, TailParts
<1>3. \A i \in 1 .. Len(batch') : batch'[i] # Head(batch) /\ i \in Int
  BY <1>2 DEF Events
<1>4. Head(batch) # Listen => Head(batch) \in interest \ armed
  BY <1>2 DEF Events
<1> QED
  BY <1>2, <1>3, <1>4

LEMMA SubmitEffect ==
  ASSUME IInv, Submit
  PROVE  /\ current \in Fds /\ Len(queue) \in Nat /\ Len(queue') = Len(queue) + 1
         /\ queue'[Len(queue) + 1] = current
         /\ \A i \in 1 .. Len(queue) : queue'[i] = queue[i] /\ queue[i] \in Fds
         /\ \A i \in 1 .. Len(queue') : i \in 1 .. Len(queue) \/ i = Len(queue) + 1
<1>1. current \in Fds
  BY DEF IInv, TypeOK, Places, Submit
<1> QED
  BY <1>1, AppendParts DEF IInv, TypeOK, Submit

LEMMA TakeEffect ==
  ASSUME IInv, NEW w \in Workers, Take(w)
  PROVE  /\ queue[1] \in Fds /\ 1 \in 1 .. Len(queue) /\ job[w] = NoFd
         /\ \A x \in Workers : job'[x] = IF x = w THEN queue[1] ELSE job[x]
         /\ \A i \in 1 .. Len(queue') : /\ queue'[i] = queue[i + 1] /\ i + 1 \in 1 .. Len(queue)
                                         /\ i + 1 # 1 /\ i \in Int
         /\ \A i \in 1 .. Len(queue) :
              i = 1 \/ (i - 1 \in 1 .. Len(queue') /\ queue[i] = queue'[i - 1])
<1>1. queue # <<>> /\ queue' = Tail(queue)
  BY DEF Take, Dequeued
<1>2. job[w] = NoFd
  BY DEF IInv, Places, Take
<1>3. queue \in Seq(Fds) /\ job \in [Workers -> Fds \cup {NoFd}]
  BY DEF IInv, TypeOK
<1>4. queue[1] = Head(queue)
  BY <1>1, <1>3, TailParts
<1>5. \A x \in Workers : job'[x] = IF x = w THEN queue[1] ELSE job[x]
  BY <1>3, <1>4 DEF Take
<1> QED
  BY <1>1, <1>2, <1>3, <1>5, TailParts

LEMMA CloseEffect ==
  ASSUME IInv, NEW w \in Workers, CloseFd(w)
  PROVE  /\ job[w] \in Fds /\ fdtab[job[w]] \in Clients /\ interest' = interest /\ armed' = armed
         /\ fdtab' = [fdtab EXCEPT ![job[w]] = NoClient]
         /\ \A x \in Workers : job'[x] = IF x = w THEN NoFd ELSE job[x]
         /\ cstate' = [c \in Clients |-> IF c = fdtab[job[w]] THEN "closed" ELSE cstate[c]]
<1>1. job[w] \in Fds /\ fdtab[job[w]] \in Clients /\ job[w] \notin interest
  BY AtWork DEF CloseFd
<1>2. armed \subseteq interest /\ job \in [Workers -> Fds \cup {NoFd}]
  BY DEF IInv, TypeOK
<1> QED
  BY <1>1, <1>2 DEF CloseFd, Peer

LEMMA ApartStep == ASSUME IInv, Next PROVE Apart'
<1> USE DEF Apart
<1>0. Apart
  BY DEF IInv
<1>1. CASE UNCHANGED <<interest, current, queue, job>>
  BY <1>0, <1>1
<1>2. CASE NextEventClient
  <2>1. /\ Head(batch) \in interest /\ current' = Head(batch)
        /\ interest' = interest \ {Head(batch)} /\ queue' = queue /\ job' = job
    BY <1>2, NextEffect DEF NextEventClient, RemoveFd, worker
  <2> QED
    BY <1>0, <2>1
<1>3. CASE Submit
  <2>1. interest' = interest /\ job' = job /\ current' = NoFd /\ NoFd \notin interest
    BY <1>3, Sizes DEF Submit, epoll, worker, IInv, TypeOK
  <2> QED
    BY <1>0, <1>3, <2>1, SubmitEffect, Sizes
<1>4. CASE Accept
  <2>1. /\ interest' = interest \cup {Lowest(FreeFds)}
        /\ current' = current /\ queue' = queue /\ job' = job
    BY <1>4, AcceptEffect DEF Accept, worker
  <2> QED
    BY <1>0, <1>4, <2>1, AcceptEffect DEF Queued, Serving
<1>5. CASE WaitFails
  BY <1>0, <1>5 DEF WaitFails, worker
<1>6. ASSUME NEW w \in Workers, Take(w) PROVE Apart'
  <2>1. interest' = interest /\ current' = current
    BY <1>6 DEF Take, epoll, main
  <2>2. \A x \in Workers : job'[x] = IF x = w THEN queue[1] ELSE job[x]
    BY <1>6, TakeEffect
  <2>3. \A i \in 1 .. Len(queue') : /\ queue'[i] = queue[i + 1] /\ i + 1 \in 1 .. Len(queue)
                                     /\ i + 1 # 1 /\ i \in Int
    BY <1>6, TakeEffect
  <2>4. 1 \in 1 .. Len(queue) /\ queue[1] \in Fds
    BY <1>6, TakeEffect
  <2>5. \A i \in 1 .. Len(queue') : queue'[i] \notin interest' /\ queue'[i] # current'
    BY <1>0, <2>1, <2>3
  <2>6. \A i \in 1 .. Len(queue'), x \in Workers : queue'[i] # job'[x]
    BY <1>0, <2>2, <2>3, <2>4
  <2>7. \A x \in Workers : job'[x] \notin interest' /\ (job'[x] # NoFd => job'[x] # current')
    BY <1>0, <2>1, <2>2, <2>4
  <2>8. \A i, j \in 1 .. Len(queue') : queue'[i] = queue'[j] => i = j
    <3> SUFFICES ASSUME NEW i \in 1 .. Len(queue'), NEW j \in 1 .. Len(queue'),
                        queue'[i] = queue'[j]
                 PROVE  i = j
      OBVIOUS
    <3>1. i + 1 = j + 1
      BY <1>0, <2>3
    <3> QED
      BY <3>1, <2>3
  <2>9. \A x, y \in Workers : job'[x] = job'[y] /\ job'[x] # NoFd => x = y
    BY <1>0, <2>2, <2>4
  <2>10. current' \notin interest'
    BY <1>0, <2>1
  <2> QED
    BY <2>5, <2>6, <2>7, <2>8, <2>9, <2>10
<1>7. ASSUME NEW w \in Workers, CloseFd(w) PROVE Apart'
  <2>1. interest' = interest /\ current' = current /\ queue' = queue
    BY <1>7, CloseEffect DEF CloseFd, main
  <2>2. NoFd \notin interest /\ \A i \in 1 .. Len(queue) : queue[i] # NoFd
    <3>1. queue \in Seq(Fds) /\ interest \subseteq Fds
      BY DEF IInv, TypeOK
    <3> QED
      BY <3>1, Sizes, ElementOfSeq
  <2>3. \A x \in Workers : job'[x] = IF x = w THEN NoFd ELSE job[x]
    BY <1>7, CloseEffect
  <2> QED
    BY <1>0, <2>1, <2>2, <2>3
<1> QED
  BY <1>1, <1>2, <1>3, <1>4, <1>5, <1>6, <1>7
  DEF Next, MainStep, AcceptStep, WorkerStep, EpollWait, NextEventAccept, BatchDone,
      AcceptDropped, AcceptAgain, AcceptFails, AcceptAborted, Exit, Recv, RecvAgain, RecvEnds, Respond, SendRest,
      Connect, SendSegment, Finish, Finished, vars, client, epoll, main, worker

LEMMA EventsStep == ASSUME IInv, Next PROVE Events'
<1> USE DEF Events
<1>0. Events /\ Apart /\ armed \subseteq interest /\ interest \subseteq Fds
  BY DEF IInv, TypeOK
<1>1. CASE UNCHANGED <<interest, armed, batch>>
  <2>1. mpc' \in {"wait", "drain", "end"} => mpc \in {"wait", "drain", "end"} \/ batch = <<>>
    BY <1>1 DEF Next, MainStep, AcceptStep, WorkerStep, EpollWait, NextEventAccept,
         NextEventClient, Submit, BatchDone, Accept, AcceptDropped, AcceptAgain, AcceptFails, AcceptAborted,
         AfterAccept, WaitFails, Exit, Take, Recv, RecvAgain, RecvEnds, Respond, SendRest, CloseFd,
         Connect, SendSegment, Finish, Finished, vars, main
  <2> QED
    BY <1>0, <1>1, <2>1
<1>2. CASE EpollWait
  <2>1. interest' = interest
    BY <1>2 DEF EpollWait
  <2> QED
    BY <1>0, <1>2, <2>1, WaitEffect
<1>3. CASE NextEventAccept
  <2>1. interest' = interest /\ armed' = armed /\ mpc' = "accept"
    BY <1>3 DEF NextEventAccept, epoll
  <2>2. \A i, j \in 1 .. Len(batch') : batch'[i] = batch'[j] => i = j
    <3> SUFFICES ASSUME NEW i \in 1 .. Len(batch'), NEW j \in 1 .. Len(batch'),
                        batch'[i] = batch'[j]
                 PROVE  i = j
      OBVIOUS
    <3>1. i + 1 = j + 1 /\ i \in Int /\ j \in Int
      BY <1>0, <1>3, NextEffect
    <3> QED
      BY <3>1
  <2> QED
    BY <1>0, <1>3, <2>1, <2>2, NextEffect
<1>4. CASE NextEventClient
  <2>1. interest' = interest \ {Head(batch)} /\ armed' \subseteq armed /\ mpc' = "submit"
    BY <1>4 DEF NextEventClient, RemoveFd
  <2>2. \A i, j \in 1 .. Len(batch') : batch'[i] = batch'[j] => i = j
    <3> SUFFICES ASSUME NEW i \in 1 .. Len(batch'), NEW j \in 1 .. Len(batch'),
                        batch'[i] = batch'[j]
                 PROVE  i = j
      OBVIOUS
    <3>1. i + 1 = j + 1 /\ i \in Int /\ j \in Int
      BY <1>0, <1>4, NextEffect
    <3> QED
      BY <3>1
  <2> QED
    BY <1>0, <1>4, <2>1, <2>2, NextEffect
<1>5. CASE Accept
  BY <1>0, <1>5, AcceptEffect DEF Accept, AfterAccept
<1>6. CASE WaitFails
  <2>1. batch' = <<>> /\ Len(batch') = 0
    BY <1>0, <1>6 DEF WaitFails
  <2> QED
    BY <2>1
<1>7. ASSUME NEW w \in Workers, CloseFd(w) PROVE Events'
  <2>1. interest' = interest /\ armed' = armed /\ batch' = batch /\ mpc' = mpc
    BY <1>7, CloseEffect DEF CloseFd, main
  <2> QED
    BY <1>0, <2>1
<1> QED
  BY <1>1, <1>2, <1>3, <1>4, <1>5, <1>6, <1>7
  DEF Next, MainStep, AcceptStep, WorkerStep, Submit, BatchDone,
      AcceptDropped, AcceptAgain, AcceptFails, AcceptAborted, Exit, Take, Recv, RecvAgain, RecvEnds, Respond, SendRest,
      Connect, SendSegment, Finish, Finished, vars, client, epoll, main, worker

LEMMA PlacesStep == ASSUME IInv, Next PROVE Places'
<1> USE DEF Places, Up
<1>0. Places /\ job \in [Workers -> Fds \cup {NoFd}]
  BY DEF IInv, TypeOK
<1>1. wpc \in [Workers -> {"take", "recv", "respond", "send", "close"}]
  BY DEF IInv, TypeOK
<1>2. CASE NextEventClient
  <2>1. current' \in Fds /\ mpc = "batch" /\ mpc' = "submit"
    BY <1>2, NextEffect DEF NextEventClient, IInv, TypeOK
  <2> QED
    BY <1>0, <1>2, <2>1, Sizes DEF NextEventClient, worker
<1>3. CASE \/ EpollWait \/ NextEventAccept \/ Submit \/ BatchDone \/ AcceptStep
           \/ Exit \/ WaitFails \/ Finished
  BY <1>0, <1>3 DEF EpollWait, NextEventAccept, Submit, BatchDone, AcceptStep, Accept, AfterAccept,
     AcceptDropped, AcceptAgain, AcceptFails, AcceptAborted, Exit, WaitFails, Finished,
     vars, epoll, main, worker
<1>4. ASSUME NEW w \in Workers, Take(w) PROVE Places'
  <2>1. /\ \A x \in Workers : job'[x] = IF x = w THEN queue[1] ELSE job[x]
        /\ queue[1] # NoFd
    BY <1>4, TakeEffect, Sizes
  <2>2. \A x \in Workers : wpc'[x] = IF x = w THEN "recv" ELSE wpc[x]
    BY <1>1, <1>4 DEF Take
  <2>3. UNCHANGED <<backlog, interest, mpc, current>>
    BY <1>4 DEF Take, epoll, main
  <2> QED
    BY <1>0, <2>1, <2>2, <2>3
<1>5. ASSUME NEW w \in Workers, Recv(w) \/ RecvAgain(w) \/ RecvEnds(w) \/ Respond(w) \/ SendRest(w)
      PROVE  Places'
  <2>1. wpc[w] # "take" /\ job' = job /\ UNCHANGED <<backlog, interest, mpc, current>>
    BY <1>5 DEF Recv, RecvAgain, RecvEnds, Respond, SendRest, epoll, main
  <2>2. /\ wpc'[w] # "take"
        /\ \A x \in Workers : x # w => wpc'[x] = wpc[x]
    BY <1>1, <1>5 DEF Recv, RecvAgain, RecvEnds, Respond, SendRest, AfterResponse
  <2> QED
    BY <1>0, <2>1, <2>2
<1>6. ASSUME NEW w \in Workers, CloseFd(w) PROVE Places'
  <2>1. \A x \in Workers : job'[x] = IF x = w THEN NoFd ELSE job[x]
    BY <1>6, CloseEffect
  <2>2. \A x \in Workers : wpc'[x] = IF x = w THEN "take" ELSE wpc[x]
    BY <1>1, <1>6 DEF CloseFd
  <2>3. UNCHANGED <<backlog, interest, mpc, current>>
    BY <1>6, CloseEffect DEF CloseFd, main
  <2> QED
    BY <1>0, <2>1, <2>2, <2>3
<1>7. ASSUME NEW c \in Clients, Connect(c) \/ SendSegment(c) \/ Finish(c) PROVE Places'
  BY <1>0, <1>7 DEF Connect, SendSegment, Finish, epoll, main, worker
<1> QED
  BY <1>2, <1>3, <1>4, <1>5, <1>6, <1>7 DEF Next, MainStep, WorkerStep

\* What is left of the backlog when its first connection is taken.
LEMMA BacklogEffect ==
  ASSUME IInv, backlog # <<>>, backlog' = Tail(backlog)
  PROVE  /\ Head(backlog) \in Clients /\ cstate[Head(backlog)] = "backlog"
         /\ \A i \in 1 .. Len(backlog') : /\ backlog'[i] \in Clients /\ backlog'[i] # Head(backlog)
                                           /\ cstate[backlog'[i]] = "backlog"
         /\ \A i, j \in 1 .. Len(backlog') : backlog'[i] = backlog'[j] => i = j
<1>1. backlog \in Seq(Clients) /\ Connected
  BY DEF IInv, TypeOK
<1>2. /\ \A i \in 1 .. Len(backlog') : /\ backlog'[i] = backlog[i + 1] /\ i + 1 \in 1 .. Len(backlog)
                                        /\ i + 1 # 1
      /\ 1 \in 1 .. Len(backlog) /\ Head(backlog) = backlog[1] /\ Head(backlog) \in Clients
  BY <1>1, TailParts
<1>3. \A i \in 1 .. Len(backlog) : backlog[i] \in Clients
  BY <1>1, ElementOfSeq
<1>4. ASSUME NEW i \in 1 .. Len(backlog'), NEW j \in 1 .. Len(backlog'), backlog'[i] = backlog'[j]
      PROVE  i = j
  <2>1. i + 1 = j + 1 /\ i \in Int /\ j \in Int
    BY <1>1, <1>2, <1>4 DEF Connected
  <2> QED
    BY <2>1
<1>5. \A i \in 1 .. Len(backlog) : cstate[backlog[i]] = "backlog"
  BY <1>1 DEF Connected
<1>6. ASSUME NEW i \in 1 .. Len(backlog') PROVE backlog'[i] # Head(backlog)
  <2>1. /\ i + 1 \in 1 .. Len(backlog) /\ i + 1 # 1 /\ 1 \in 1 .. Len(backlog)
        /\ backlog'[i] = backlog[i + 1] /\ Head(backlog) = backlog[1]
    BY <1>2
  <2> QED
    BY <1>1, <2>1 DEF Connected
<1>7. \A i \in 1 .. Len(backlog') : backlog'[i] \in Clients /\ cstate[backlog'[i]] = "backlog"
  BY <1>2, <1>3, <1>5
<1>8. Head(backlog) \in Clients /\ cstate[Head(backlog)] = "backlog"
  BY <1>2, <1>5
<1> QED
  BY <1>4, <1>6, <1>7, <1>8

LEMMA ConnectedStep == ASSUME IInv, Next PROVE Connected'
<1> USE DEF Connected
<1>0. Connected /\ cstate \in [Clients -> {"idle", "backlog", "open", "closed"}]
  BY DEF IInv, TypeOK
<1>t. backlog \in Seq(Clients) /\ fdtab \in [Fds -> Clients \cup {NoClient}]
  BY DEF IInv, TypeOK
<1>1. CASE UNCHANGED <<cstate, fdtab, backlog>>
  BY <1>0, <1>1
<1>2. CASE Accept
  <2> DEFINE c == Head(backlog)
             f == Lowest(FreeFds)
  <2>1. /\ c \in Clients /\ cstate[c] = "backlog" /\ f \in Fds /\ fdtab[f] = NoClient
        /\ cstate' = [cstate EXCEPT ![c] = "open"] /\ fdtab' = [fdtab EXCEPT ![f] = c]
    BY <1>2, AcceptEffect
  <2>2. /\ \A i \in 1 .. Len(backlog') : /\ backlog'[i] \in Clients /\ backlog'[i] # c
                                          /\ cstate[backlog'[i]] = "backlog"
        /\ \A i, j \in 1 .. Len(backlog') : backlog'[i] = backlog'[j] => i = j
    BY <1>2, BacklogEffect DEF Accept
  <2> HIDE DEF c, f
  <2>3. \A g \in Fds : fdtab'[g] = IF g = f THEN c ELSE fdtab[g]
    BY <1>t, <2>1
  <2>4. \A d \in Clients : cstate'[d] = IF d = c THEN "open" ELSE cstate[d]
    BY <1>0, <2>1
  <2>5. \A g \in Fds : fdtab[g] # c
    BY <1>0, <2>1, Sizes
  <2>6. \A g \in Fds : fdtab[g] # NoClient => fdtab[g] \in Clients
    BY <1>t
  <2> QED
    BY <1>0, <2>1, <2>2, <2>3, <2>4, <2>5, <2>6
<1>3. CASE AcceptDropped \/ AcceptAborted
  <2>1. /\ Head(backlog) \in Clients /\ cstate[Head(backlog)] = "backlog"
        /\ \A i \in 1 .. Len(backlog') : /\ backlog'[i] \in Clients /\ backlog'[i] # Head(backlog)
                                          /\ cstate[backlog'[i]] = "backlog"
        /\ \A i, j \in 1 .. Len(backlog') : backlog'[i] = backlog'[j] => i = j
    BY <1>3, BacklogEffect DEF AcceptDropped, AcceptAborted
  <2>2. \A d \in Clients : cstate'[d] = IF d = Head(backlog) THEN "closed" ELSE cstate[d]
    BY <1>0, <1>3, <2>1 DEF AcceptDropped, AcceptAborted
  <2>3. fdtab' = fdtab /\ \A g \in Fds : fdtab[g] # NoClient => fdtab[g] \in Clients
    BY <1>t, <1>3 DEF AcceptDropped, AcceptAborted
  <2> QED
    BY <1>0, <2>1, <2>2, <2>3
<1>4. CASE WaitFails
  <2>1. backlog' = <<>> /\ Len(backlog') = 0 /\ fdtab' = fdtab
    BY <1>4 DEF WaitFails
  <2>2. \A d \in Clients : cstate[d] = "open" => cstate'[d] = "open"
    BY <1>4 DEF WaitFails
  <2>3. \A g \in Fds : fdtab[g] # NoClient => fdtab[g] \in Clients
    BY <1>t
  <2> QED
    BY <1>0, <2>1, <2>2, <2>3
<1>5. CASE Exit
  <2>1. backlog' = <<>> /\ Len(backlog') = 0
    BY <1>5 DEF Exit, IInv, Places, Up
  <2> QED
    BY <1>5, <2>1 DEF Exit
<1>6. ASSUME NEW w \in Workers, CloseFd(w) PROVE Connected'
  <2>0. backlog' = backlog
    BY <1>6 DEF CloseFd
  <2>1. /\ job[w] \in Fds /\ fdtab[job[w]] \in Clients /\ backlog' = backlog
        /\ \A g \in Fds : fdtab'[g] = IF g = job[w] THEN NoClient ELSE fdtab[g]
        /\ \A d \in Clients : cstate'[d] = IF d = fdtab[job[w]] THEN "closed" ELSE cstate[d]
    <3> HIDE DEF Connected
    <3> QED
      BY <1>t, <1>6, <2>0, CloseEffect
  <2>2. \A i \in 1 .. Len(backlog) : backlog[i] \in Clients
    BY <1>t, ElementOfSeq
  <2>3. cstate[fdtab[job[w]]] = "open"
    BY <1>0, <2>1, Sizes
  <2>4. \A g \in Fds : fdtab[g] # NoClient => fdtab[g] \in Clients
    BY <1>t
  <2>5. \A i \in 1 .. Len(backlog') : cstate'[backlog'[i]] = "backlog"
    BY <1>0, <2>1, <2>2, <2>3
  <2>6. \A g \in Fds : fdtab'[g] # NoClient => cstate'[fdtab'[g]] = "open"
    BY <1>0, <2>1, <2>4
  <2>7. \A f, g \in Fds : fdtab'[f] = fdtab'[g] /\ fdtab'[f] # NoClient => f = g
    BY <1>0, <2>1
  <2> QED
    BY <1>0, <2>1, <2>5, <2>6, <2>7
<1>7. ASSUME NEW c \in Clients, Connect(c) PROVE Connected'
  <2>1. /\ \A i \in 1 .. Len(backlog) : backlog'[i] = backlog[i] /\ backlog[i] \in Clients
        /\ backlog'[Len(backlog) + 1] = c
        /\ \A i \in 1 .. Len(backlog') : i \in 1 .. Len(backlog) \/ i = Len(backlog) + 1
    BY <1>t, <1>7, AppendParts DEF Connect
  <2>2. /\ cstate[c] = "idle" /\ fdtab' = fdtab
        /\ \A d \in Clients : cstate'[d] = IF d = c THEN "backlog" ELSE cstate[d]
    BY <1>0, <1>7 DEF Connect
  <2>3. \A g \in Fds : fdtab[g] # NoClient => fdtab[g] \in Clients
    BY <1>t
  <2>4. \A i \in 1 .. Len(backlog') : cstate'[backlog'[i]] = "backlog"
    BY <1>0, <2>1, <2>2
  <2>5. \A i, j \in 1 .. Len(backlog') : backlog'[i] = backlog'[j] => i = j
    BY <1>0, <2>1, <2>2
  <2>6. \A g \in Fds : fdtab'[g] # NoClient => cstate'[fdtab'[g]] = "open"
    BY <1>0, <2>2, <2>3
  <2> QED
    BY <1>0, <2>2, <2>4, <2>5, <2>6
<1> QED
  BY <1>1, <1>2, <1>3, <1>4, <1>5, <1>6, <1>7
  DEF Next, MainStep, AcceptStep, WorkerStep, EpollWait, NextEventAccept, NextEventClient,
      Submit, BatchDone, AcceptAgain, AcceptFails, Take, Recv, RecvAgain, RecvEnds, Respond, SendRest,
      SendSegment, Finish, Finished, vars, client

LEMMA KnownStep == ASSUME IInv, Next PROVE Known'
<1> USE DEF Known, Queued, Serving
<1>0. /\ Known /\ Apart /\ fdtab \in [Fds -> Clients \cup {NoClient}]
      /\ interest \subseteq Fds /\ current \in Fds \cup {NoFd}
  BY DEF IInv, TypeOK
<1>1. CASE UNCHANGED <<interest, current, queue, job, fdtab>>
  <2>1. Up' => Up
    BY <1>1 DEF Next, MainStep, AcceptStep, WorkerStep, EpollWait, NextEventAccept,
         NextEventClient, Submit, BatchDone, Accept, AfterAccept, AcceptDropped, AcceptAgain,
         AcceptFails, AcceptAborted, WaitFails, Exit, Take, Recv, RecvAgain, RecvEnds, Respond, SendRest, CloseFd,
         Connect, SendSegment, Finish, Finished, vars, main, Up
  <2> QED
    BY <1>0, <1>1, <2>1
<1>2. CASE NextEventClient
  <2>1. /\ Head(batch) \in interest /\ current' = Head(batch) /\ current = NoFd /\ Up
        /\ interest' = interest \ {Head(batch)} /\ queue' = queue /\ job' = job /\ fdtab' = fdtab
    BY <1>2, NextEffect DEF NextEventClient, RemoveFd, worker, IInv, Places, Up
  <2>2. \A f \in Fds : f # NoFd
    BY Sizes
  <2> QED
    BY <1>0, <2>1, <2>2
<1>3. CASE Submit
  <2>1. /\ interest' = interest /\ job' = job /\ current' = NoFd /\ fdtab' = fdtab
        /\ (Up' => Up)
    BY <1>3 DEF Submit, epoll, worker, Up
  <2>2. /\ current \in Fds /\ 1 \in 1 .. Len(queue') /\ Len(queue) + 1 \in 1 .. Len(queue')
        /\ queue'[Len(queue) + 1] = current
        /\ \A i \in 1 .. Len(queue) : queue'[i] = queue[i] /\ queue[i] \in Fds /\ i \in 1 .. Len(queue')
        /\ \A i \in 1 .. Len(queue') : i \in 1 .. Len(queue) \/ i = Len(queue) + 1
    BY <1>3, SubmitEffect
  <2>3. \A i \in 1 .. Len(queue') : fdtab'[queue'[i]] # NoClient
    BY <1>0, <2>1, <2>2, Sizes
  <2>4. ASSUME Up', NEW f \in Fds, fdtab'[f] # NoClient
        PROVE  f \in interest' \/ f = current' \/ Queued(queue', f) \/ Serving(job', f)
    <3>1. f \in interest \/ f = current \/ Queued(queue, f) \/ Serving(job, f)
      BY <1>0, <2>1, <2>4
    <3> QED
      BY <2>1, <2>2, <3>1
  <2> QED
    BY <1>0, <2>1, <2>3, <2>4
<1>4. CASE Accept
  <2> DEFINE f == Lowest(FreeFds)
  <2>1. /\ interest' = interest \cup {f} /\ f \in Fds /\ fdtab[f] = NoClient
        /\ fdtab' = [fdtab EXCEPT ![f] = Head(backlog)] /\ Head(backlog) \in Clients
    BY <1>4, AcceptEffect
  <2>2. current' = current /\ queue' = queue /\ job' = job /\ (Up' => Up)
    BY <1>4 DEF Accept, worker, Up
  <2> HIDE DEF f
  <2>3. \A g \in Fds : fdtab'[g] = IF g = f THEN Head(backlog) ELSE fdtab[g]
    BY <1>0, <2>1
  <2>4. /\ \A i \in 1 .. Len(queue) : queue[i] \in Fds
        /\ \A w \in Workers : job[w] \in Fds \cup {NoFd}
    BY ElementOfSeq DEF IInv, TypeOK
  <2>5. Head(backlog) # NoClient
    BY <2>1, Sizes
  <2> QED
    BY <1>0, <2>1, <2>2, <2>3, <2>4, <2>5
<1>5. CASE WaitFails
  <2>1. /\ interest' = {} /\ current' = current /\ queue' = queue /\ job' = job
        /\ fdtab' = fdtab /\ ~Up'
    BY <1>5 DEF WaitFails, worker, Up
  <2> QED
    BY <1>0, <2>1
<1>6. CASE Exit
  <2>1. /\ interest' = {} /\ current' = NoFd /\ queue' = <<>> /\ Len(queue') = 0 /\ ~Up'
        /\ \A w \in Workers : job'[w] = NoFd
    BY <1>6 DEF Exit, IInv, Places, Up, epoll, worker
  <2> QED
    BY <2>1
<1>7. ASSUME NEW w \in Workers, Take(w) PROVE Known'
  <2>1. interest' = interest /\ current' = current /\ fdtab' = fdtab /\ (Up' => Up)
    BY <1>7 DEF Take, epoll, main, Up
  <2>2. /\ 1 \in 1 .. Len(queue) /\ job[w] = NoFd
        /\ \A x \in Workers : job'[x] = IF x = w THEN queue[1] ELSE job[x]
        /\ \A i \in 1 .. Len(queue') : queue'[i] = queue[i + 1] /\ i + 1 \in 1 .. Len(queue)
        /\ \A i \in 1 .. Len(queue) :
              i = 1 \/ (i - 1 \in 1 .. Len(queue') /\ queue[i] = queue'[i - 1])
    BY <1>7, TakeEffect
  <2>3. \A i \in 1 .. Len(queue') : fdtab'[queue'[i]] # NoClient
    BY <1>0, <2>1, <2>2
  <2>4. \A x \in Workers : job'[x] # NoFd => fdtab'[job'[x]] # NoClient
    BY <1>0, <2>1, <2>2
  <2>5. ASSUME Up', NEW f \in Fds, fdtab'[f] # NoClient
        PROVE  f \in interest' \/ f = current' \/ Queued(queue', f) \/ Serving(job', f)
    <3>1. f \in interest \/ f = current \/ Queued(queue, f) \/ Serving(job, f)
      BY <1>0, <2>1, <2>5
    <3>2. Queued(queue, f) => Queued(queue', f) \/ Serving(job', f)
      BY <2>2
    <3>3. Serving(job, f) => Serving(job', f)
      BY <2>2, Sizes
    <3> QED
      BY <2>1, <3>1, <3>2, <3>3
  <2> QED
    BY <1>0, <2>1, <2>3, <2>4, <2>5
<1>8. ASSUME NEW w \in Workers, CloseFd(w) PROVE Known'
  <2>1. current' = current /\ queue' = queue /\ (Up' => Up)
    BY <1>8 DEF CloseFd, main, Up
  <2>2. /\ job[w] \in Fds /\ interest' = interest /\ job[w] # NoFd
        /\ \A x \in Workers : job'[x] = IF x = w THEN NoFd ELSE job[x]
        /\ fdtab' = [fdtab EXCEPT ![job[w]] = NoClient]
    BY <1>8, CloseEffect, Sizes
  <2>3. \A g \in Fds : fdtab'[g] = IF g = job[w] THEN NoClient ELSE fdtab[g]
    BY <1>0, <2>2
  <2>4. /\ \A i \in 1 .. Len(queue) : queue[i] \in Fds
        /\ \A x \in Workers : job[x] \in Fds \cup {NoFd}
    BY ElementOfSeq DEF IInv, TypeOK
  <2>5. /\ job[w] \notin interest /\ job[w] # current
        /\ \A i \in 1 .. Len(queue) : queue[i] # job[w]
        /\ \A x \in Workers : x # w => job[x] # job[w]
    BY <1>0, <2>2 DEF Apart
  <2>6. ASSUME Up', NEW f \in Fds, fdtab'[f] # NoClient
        PROVE  f \in interest' \/ f = current' \/ Queued(queue', f) \/ Serving(job', f)
    <3>1. f # job[w] /\ fdtab[f] # NoClient
      BY <2>2, <2>3, <2>6
    <3>2. f \in interest \/ f = current \/ Queued(queue, f) \/ Serving(job, f)
      BY <1>0, <2>1, <2>6, <3>1
    <3> QED
      BY <2>1, <2>2, <3>1, <3>2
  <2> QED
    BY <1>0, <2>1, <2>2, <2>3, <2>4, <2>5, <2>6
<1> QED
  BY <1>1, <1>2, <1>3, <1>4, <1>5, <1>6, <1>7, <1>8
  DEF Next, MainStep, AcceptStep, WorkerStep, EpollWait, NextEventAccept, BatchDone,
      AcceptDropped, AcceptAgain, AcceptFails, AcceptAborted, Recv, RecvAgain, RecvEnds, Respond, SendRest,
      Connect, SendSegment, Finish, Finished, vars, client, epoll, main, worker

\* What a client has sent, and that it has finished, is never taken back.
LEMMA Monotone ==
  ASSUME IInv, Next
  PROVE  \A c \in Clients : sent[c] \in Nat /\ sent'[c] >= sent[c] /\ (fin[c] => fin'[c])
<1>0. sent \in [Clients -> 0 .. Segments] /\ Segments \in Nat
  BY Sizes DEF IInv, TypeOK
<1>f. fin \in [Clients -> BOOLEAN]
  BY DEF IInv, TypeOK
<1>1. CASE UNCHANGED <<sent, fin>>
  BY <1>0, <1>1
<1>2. ASSUME NEW c \in Clients, SendSegment(c)
      PROVE  \A d \in Clients : sent'[d] >= sent[d] /\ (fin[d] => fin'[d])
  BY <1>0, <1>2 DEF SendSegment
<1>3. ASSUME NEW c \in Clients, Finish(c)
      PROVE  \A d \in Clients : sent'[d] >= sent[d] /\ (fin[d] => fin'[d])
  <2>1. sent' = sent /\ fin' = [fin EXCEPT ![c] = TRUE]
    BY <1>3 DEF Finish
  <2>2. \A d \in Clients : sent'[d] >= sent[d]
    BY <1>0, <2>1
  <2>3. \A d \in Clients : fin[d] => fin'[d]
    BY <1>f, <2>1
  <2> QED
    BY <2>2, <2>3
<1>4. \A c \in Clients : sent[c] \in Nat
  BY <1>0
<1> QED
  BY <1>1, <1>2, <1>3, <1>4
  DEF Next, MainStep, AcceptStep, WorkerStep, EpollWait, NextEventAccept, NextEventClient,
      Submit, BatchDone, Accept, AcceptDropped, AcceptAgain, AcceptFails, AcceptAborted, WaitFails, Exit,
      Take, Recv, RecvAgain, RecvEnds, Respond, SendRest, CloseFd, Connect, Finished, vars, client

\* Whoever is in the array, on its way to a worker or with one is known to have
\* sent something, or to have hung up.
LEMMA HeardStep == ASSUME IInv, Next PROVE Heard'
<1> USE DEF Heard, Reported, Queued, Serving
<1>0. /\ Apart /\ Known /\ fdtab \in [Fds -> Clients \cup {NoClient}] /\ armed \subseteq interest
      /\ interest \subseteq Fds
  BY DEF IInv, TypeOK
<1>1. \A f \in Fds : Reported(f) => fdtab[f] \in Clients /\ (sent[fdtab[f]] > 0 \/ fin[fdtab[f]])
  <2>1. \A f \in Fds : Reported(f) => fdtab[f] # NoClient
    BY <1>0, Sizes DEF Known
  <2> QED
    BY <1>0, <2>1 DEF IInv
<1>2. ASSUME NEW f \in Fds, fdtab[f] \in Clients, sent[fdtab[f]] > 0 \/ fin[fdtab[f]]
      PROVE  sent'[fdtab[f]] > 0 \/ fin'[fdtab[f]]
  <2>1. sent[fdtab[f]] \in Nat /\ sent'[fdtab[f]] >= sent[fdtab[f]] /\ (fin[fdtab[f]] => fin'[fdtab[f]])
    BY <1>2, Monotone
  <2>2. sent'[fdtab[f]] \in Nat
    BY <1>2, TypeStep, Sizes DEF TypeOK
  <2> QED
    BY <1>2, <2>1, <2>2
<1>3. ASSUME NEW f \in Fds, Reported(f), fdtab'[f] = fdtab[f]
      PROVE  sent'[fdtab'[f]] > 0 \/ fin'[fdtab'[f]]
  BY <1>1, <1>2, <1>3
<1>4. CASE UNCHANGED <<interest, armed, current, queue, job, fdtab>>
  BY <1>3, <1>4
<1>5. CASE EpollWait
  <2> SUFFICES ASSUME NEW f \in Fds, Reported(f)', ~Reported(f)
               PROVE  sent'[fdtab'[f]] > 0 \/ fin'[fdtab'[f]]
    BY <1>3, <1>5 DEF EpollWait
  <2>1. f \in armed \ armed' /\ fdtab' = fdtab
    BY <1>5 DEF EpollWait, worker
  <2>2. fdtab[f] \in Clients /\ (unread[fdtab[f]] > 0 \/ fin[fdtab[f]])
    BY <1>0, <1>5, <2>1, WaitEffect DEF Readable
  <2>3. unread[fdtab[f]] > 0 => sent[fdtab[f]] > 0
    <3>1. unread[fdtab[f]] \in Nat /\ sent[fdtab[f]] \in Nat
      BY <2>2, Sizes DEF IInv, TypeOK
    <3> QED
      BY <2>2, <3>1 DEF IInv, Counted
  <2> QED
    BY <1>2, <2>1, <2>2, <2>3
<1>6. CASE NextEventClient
  <2>1. /\ Head(batch) \in interest \ armed /\ current' = Head(batch)
        /\ interest' = interest \ {Head(batch)} /\ armed' = armed \cap interest'
        /\ queue' = queue /\ job' = job /\ fdtab' = fdtab
    BY <1>6, NextEffect DEF NextEventClient, RemoveFd, worker
  <2>2. \A f \in Fds : Reported(f)' => Reported(f)
    BY <2>1
  <2> QED
    BY <1>3, <2>1, <2>2
<1>7. CASE Submit
  <2>1. /\ interest' = interest /\ armed' = armed /\ job' = job /\ current' = NoFd /\ fdtab' = fdtab
    BY <1>7 DEF Submit, epoll, worker
  <2>2. \A f \in Fds : Reported(f)' => Reported(f)
    BY <1>7, <2>1, SubmitEffect, Sizes
  <2> QED
    BY <1>3, <2>1, <2>2
<1>8. CASE Accept
  <2> DEFINE g == Lowest(FreeFds)
  <2>1. /\ interest' = interest \cup {g} /\ armed' = armed \cup {g} /\ g \in Fds
        /\ fdtab' = [fdtab EXCEPT ![g] = Head(backlog)]
        /\ g # current /\ ~Queued(queue, g) /\ ~Serving(job, g)
    BY <1>8, AcceptEffect
  <2>2. current' = current /\ queue' = queue /\ job' = job
    BY <1>8 DEF Accept, worker
  <2> HIDE DEF g
  <2>3. \A f \in Fds : f # g => fdtab'[f] = fdtab[f]
    BY <1>0, <2>1
  <2>4. \A f \in Fds : Reported(f)' => f # g /\ Reported(f)
    BY <2>1, <2>2
  <2> QED
    BY <1>3, <2>3, <2>4
<1>9. CASE WaitFails
  <2>1. /\ interest' = {} /\ current' = current /\ queue' = queue /\ job' = job /\ fdtab' = fdtab
    BY <1>9 DEF WaitFails, worker
  <2> QED
    BY <1>3, <2>1
<1>10. CASE Exit
  <2>1. /\ interest' = {} /\ current' = NoFd /\ queue' = <<>> /\ Len(queue') = 0
        /\ \A w \in Workers : job'[w] = NoFd
    BY <1>10 DEF Exit, IInv, Places, Up, epoll, worker
  <2> QED
    BY <2>1, Sizes
<1>11. ASSUME NEW w \in Workers, Take(w)
       PROVE  Heard'
  <2>1. interest' = interest /\ armed' = armed /\ current' = current /\ fdtab' = fdtab
    BY <1>11 DEF Take, epoll, main
  <2>2. \A f \in Fds : Reported(f)' => Reported(f)
    BY <1>11, <2>1, TakeEffect
  <2> QED
    BY <1>3, <2>1, <2>2
<1>12. ASSUME NEW w \in Workers, CloseFd(w)
       PROVE  Heard'
  <2>1. current' = current /\ queue' = queue
    BY <1>12 DEF CloseFd, main
  <2>2. /\ job[w] \in Fds /\ interest' = interest /\ armed' = armed
        /\ \A x \in Workers : job'[x] = IF x = w THEN NoFd ELSE job[x]
        /\ fdtab' = [fdtab EXCEPT ![job[w]] = NoClient]
    BY <1>12, CloseEffect
  <2>3. \A f \in Fds : f # job[w] => fdtab'[f] = fdtab[f]
    BY <1>0, <2>2
  <2>4. /\ job[w] \notin interest /\ job[w] # current /\ job[w] # NoFd
        /\ \A i \in 1 .. Len(queue) : queue[i] # job[w]
        /\ \A x \in Workers : x # w => job[x] # job[w]
    BY <1>0, <2>2, Sizes DEF Apart
  <2>5. \A f \in Fds : Reported(f)' => f # job[w] /\ Reported(f)
    BY <2>1, <2>2, <2>4, Sizes
  <2> QED
    BY <1>3, <2>3, <2>5
<1> HIDE DEF Heard
<1> QED
  BY <1>4, <1>5, <1>6, <1>7, <1>8, <1>9, <1>10, <1>11, <1>12
  DEF Next, MainStep, AcceptStep, WorkerStep, NextEventAccept, BatchDone,
      AcceptDropped, AcceptAgain, AcceptFails, AcceptAborted, Recv, RecvAgain, RecvEnds, Respond, SendRest,
      Connect, SendSegment, Finish, Finished, vars, client, epoll, main, worker

\* What a worker has received and what its client's socket still holds were
\* sent; nobody gets a reply of whom nothing was received.
LEMMA CountedStep == ASSUME IInv, Next PROVE Counted'
<1> USE DEF Counted, Peer
<1>0. Counted /\ fdtab \in [Fds -> Clients \cup {NoClient}]
  BY DEF IInv, TypeOK
<1>1. /\ sent \in [Clients -> Nat] /\ unread \in [Clients -> Nat] /\ got \in [Workers -> Nat]
  <2>1. 0 .. Segments \subseteq Nat
    BY Sizes
  <2> QED
    BY <2>1 DEF IInv, TypeOK
<1>2. wpc \in [Workers -> {"take", "recv", "respond", "send", "close"}]
  BY DEF IInv, TypeOK
<1>3. \A x \in Workers : wpc[x] # "take" => job[x] \in Fds /\ fdtab[job[x]] \in Clients
  BY AtWork
<1>4. CASE UNCHANGED <<sent, unread, got, wpc, job, fdtab>>
  BY <1>0, <1>4
<1>5. CASE Accept
  <2> DEFINE g == Lowest(FreeFds)
  <2>1. /\ fdtab' = [fdtab EXCEPT ![g] = Head(backlog)] /\ fdtab[g] = NoClient
    BY <1>5, AcceptEffect
  <2>2. UNCHANGED <<sent, unread, got, wpc, job>>
    BY <1>5 DEF Accept, worker
  <2> HIDE DEF g
  <2>3. \A x \in Workers : wpc[x] # "take" => fdtab'[job[x]] = fdtab[job[x]]
    BY <1>0, <1>3, <2>1, Sizes
  <2> QED
    BY <1>0, <2>2, <2>3
<1>6. CASE Exit
  <2>1. UNCHANGED <<sent, unread, wpc>> /\ \A w \in Workers : wpc[w] = "take"
    BY <1>6 DEF Exit, worker
  <2> QED
    BY <1>0, <2>1
<1>7. ASSUME NEW w \in Workers, Take(w) PROVE Counted'
  <2>1. UNCHANGED <<sent, unread, fdtab>>
    BY <1>7 DEF Take, client
  <2>2. /\ \A x \in Workers : wpc'[x] = IF x = w THEN "recv" ELSE wpc[x]
        /\ \A x \in Workers : got'[x] = IF x = w THEN 0 ELSE got[x]
    BY <1>1, <1>2, <1>7 DEF Take
  <2>3. \A x \in Workers : job'[x] = IF x = w THEN queue[1] ELSE job[x]
    BY <1>7, TakeEffect
  <2>4. fdtab[queue[1]] \in Clients
    BY <1>0, <1>7, TakeEffect DEF IInv, Known
  <2>5. got'[w] + unread'[fdtab'[job'[w]]] = sent'[fdtab'[job'[w]]]
    <3>1. unread[fdtab[queue[1]]] = sent[fdtab[queue[1]]]
      <4>1. queue[1] \in Fds /\ fdtab[queue[1]] # NoClient /\ ~Serving(job, queue[1])
        BY <1>7, <2>4, TakeEffect, Sizes DEF Serving, IInv, Apart
      <4> QED
        BY <4>1 DEF IInv, Untouched
    <3> QED
      BY <1>1, <2>1, <2>2, <2>3, <2>4, <3>1
  <2> QED
    BY <1>0, <2>1, <2>2, <2>3, <2>5
<1>8. ASSUME NEW w \in Workers, Recv(w) PROVE Counted'
  <2> DEFINE c == fdtab[job[w]]
  <2>1. UNCHANGED <<sent, job, fdtab>> /\ wpc[w] = "recv" /\ unread[c] > 0
    BY <1>8 DEF Recv, Arrived
  <2>2. /\ c \in Clients
        /\ \A x \in Workers : x # w /\ wpc[x] # "take" => fdtab[job[x]] # c
    BY <2>1, AtWork
  <2>3. /\ \A x \in Workers : got'[x] = IF x = w THEN got[w] + unread[c] ELSE got[x]
        /\ \A d \in Clients : unread'[d] = IF d = c THEN 0 ELSE unread[d]
    BY <1>1, <1>8, <2>2 DEF Recv
  <2>4. \A x \in Workers : wpc'[x] = IF x # w THEN wpc[x]
                                     ELSE IF got'[w] = Segments THEN "respond" ELSE "recv"
    BY <1>2, <1>8 DEF Recv
  <2> HIDE DEF c
  <2>5. got'[w] = sent[c] /\ got'[w] > 0 /\ got'[w] \in Nat /\ sent[c] \in Nat
    <3>1. got[w] + unread[c] = sent[c]
      BY <1>0, <2>1 DEF c
    <3> QED
      BY <1>1, <2>1, <2>2, <2>3, <3>1
  <2>6. \A d \in Clients : unread'[d] <= sent[d]
    BY <1>0, <1>1, <2>3
  <2>7. got'[w] + unread'[c] = sent[c] /\ sent[c] > 0
    BY <2>2, <2>3, <2>5
  <2>8. ASSUME NEW x \in Workers, x # w, wpc[x] # "take"
        PROVE  /\ got'[x] = got[x] /\ unread'[fdtab[job[x]]] = unread[fdtab[job[x]]]
               /\ wpc'[x] = wpc[x]
    BY <1>3, <2>2, <2>3, <2>4, <2>8
  <2>9. /\ \A x \in Workers : wpc'[x] \in {"recv", "respond"} =>
             got'[x] + unread'[fdtab[job[x]]] = sent[fdtab[job[x]]]
        /\ \A x \in Workers : wpc'[x] = "respond" => sent[fdtab[job[x]]] > 0
    <3> SUFFICES ASSUME NEW x \in Workers, wpc'[x] \in {"recv", "respond"}
                 PROVE  /\ got'[x] + unread'[fdtab[job[x]]] = sent[fdtab[job[x]]]
                        /\ wpc'[x] = "respond" => sent[fdtab[job[x]]] > 0
      OBVIOUS
    <3>1. CASE x = w
      BY <2>7, <3>1 DEF c
    <3>2. CASE x # w
      BY <1>0, <2>4, <2>8, <3>2
    <3> QED
      BY <3>1, <3>2
  <2> QED
    BY <2>1, <2>6, <2>9
<1>9. ASSUME NEW w \in Workers, RecvAgain(w) PROVE Counted'
  <2>1. UNCHANGED <<sent, unread, got, job, fdtab>> /\ wpc[w] = "recv" /\ ~fin[fdtab[job[w]]]
    BY <1>9 DEF RecvAgain, client
  <2>2. \A x \in Workers : wpc'[x] = IF x = w THEN "respond" ELSE wpc[x]
    BY <1>2, <1>9 DEF RecvAgain
  <2>3. sent[fdtab[job[w]]] > 0
    BY <1>3, <2>1 DEF IInv, Heard, Reported, Serving
  <2> QED
    BY <1>0, <2>1, <2>2, <2>3
<1>10. ASSUME NEW w \in Workers, RecvEnds(w) \/ Respond(w) \/ SendRest(w) PROVE Counted'
  <2>1. UNCHANGED <<sent, unread, got, job, fdtab>>
    BY <1>10 DEF RecvEnds, Respond, SendRest, client
  <2>2. \A x \in Workers : wpc'[x] = wpc[x] \/ wpc'[x] \in {"send", "close"}
    BY <1>2, <1>10 DEF RecvEnds, Respond, SendRest, AfterResponse
  <2> QED
    BY <1>0, <2>1, <2>2
<1>11. ASSUME NEW w \in Workers, CloseFd(w) PROVE Counted'
  <2>1. UNCHANGED <<sent, unread, got>> /\ wpc[w] = "close"
    BY <1>11 DEF CloseFd
  <2>2. \A x \in Workers : wpc'[x] = IF x = w THEN "take" ELSE wpc[x]
    BY <1>2, <1>11 DEF CloseFd
  <2>3. /\ \A x \in Workers : job'[x] = IF x = w THEN NoFd ELSE job[x]
        /\ job[w] \in Fds /\ fdtab' = [fdtab EXCEPT ![job[w]] = NoClient]
    BY <1>11, CloseEffect
  <2>4. \A x \in Workers : x # w /\ wpc[x] # "take" => fdtab'[job'[x]] = fdtab[job[x]]
    <3> SUFFICES ASSUME NEW x \in Workers, x # w, wpc[x] # "take"
                 PROVE  fdtab'[job'[x]] = fdtab[job[x]]
      OBVIOUS
    <3>1. job[x] \in Fds /\ job[x] # job[w]
      BY <2>1, AtWork
    <3> QED
      BY <1>0, <2>3, <3>1
  <2> QED
    BY <1>0, <2>1, <2>2, <2>4
<1>12. ASSUME NEW c \in Clients, SendSegment(c) PROVE Counted'
  <2>1. UNCHANGED <<got, wpc, job, fdtab>>
    BY <1>12 DEF SendSegment, worker
  <2>2. \A d \in Clients : IF d = c THEN sent'[d] = sent[d] + 1 /\ unread'[d] = unread[d] + 1
                           ELSE sent'[d] = sent[d] /\ unread'[d] = unread[d]
    BY <1>1, <1>12 DEF SendSegment
  <2>3. \A d \in Clients : unread'[d] <= sent'[d]
    BY <1>0, <1>1, <2>2
  <2>4. ASSUME NEW x \in Workers, wpc[x] \in {"recv", "respond"}
        PROVE  /\ got[x] + unread'[fdtab[job[x]]] = sent'[fdtab[job[x]]]
               /\ wpc[x] = "respond" => sent'[fdtab[job[x]]] > 0
    <3>1. /\ fdtab[job[x]] \in Clients
          /\ got[x] + unread[fdtab[job[x]]] = sent[fdtab[job[x]]]
          /\ wpc[x] = "respond" => sent[fdtab[job[x]]] > 0
      BY <1>0, <1>3, <2>4
    <3>2. got[x] \in Nat /\ unread[fdtab[job[x]]] \in Nat /\ sent[fdtab[job[x]]] \in Nat
      BY <1>1, <3>1
    <3> QED
      BY <2>2, <3>1, <3>2
  <2> QED
    BY <2>1, <2>3, <2>4
<1> HIDE DEF Counted
<1> QED
  BY <1>4, <1>5, <1>6, <1>7, <1>8, <1>9, <1>10, <1>11, <1>12
  DEF Next, MainStep, AcceptStep, WorkerStep, EpollWait, NextEventAccept, NextEventClient,
      Submit, BatchDone, AcceptDropped, AcceptAgain, AcceptFails, AcceptAborted, WaitFails,
      Connect, Finish, Finished, vars, client, epoll, main, worker

\* What a client sends stays in its socket until a worker has the descriptor.
LEMMA UntouchedStep == ASSUME IInv, Next PROVE Untouched'
<1> USE DEF Untouched, Serving
<1>0. Untouched /\ fdtab \in [Fds -> Clients \cup {NoClient}]
  BY DEF IInv, TypeOK
<1>1. /\ sent \in [Clients -> Nat] /\ unread \in [Clients -> Nat]
      /\ cstate \in [Clients -> {"idle", "backlog", "open", "closed"}]
  <2>1. 0 .. Segments \subseteq Nat
    BY Sizes
  <2> QED
    BY <2>1 DEF IInv, TypeOK
<1>2. \A f \in Fds : fdtab[f] # NoClient => fdtab[f] \in Clients
  BY <1>0
<1>3. CASE UNCHANGED <<cstate, sent, unread, fdtab, job>>
  BY <1>0, <1>3
<1>4. CASE Accept
  <2> DEFINE g == Lowest(FreeFds)
             c == Head(backlog)
  <2>1. /\ fdtab' = [fdtab EXCEPT ![g] = c] /\ g \in Fds /\ c \in Clients
        /\ cstate' = [cstate EXCEPT ![c] = "open"] /\ cstate[c] = "backlog"
    BY <1>4, AcceptEffect
  <2>2. UNCHANGED <<sent, unread, job>>
    BY <1>4 DEF Accept, worker
  <2> HIDE DEF g, c
  <2>3. \A f \in Fds : fdtab'[f] = IF f = g THEN c ELSE fdtab[f]
    BY <1>0, <2>1
  <2>4. \A d \in Clients : cstate'[d] = IF d = c THEN "open" ELSE cstate[d]
    BY <1>1, <2>1
  <2> QED
    BY <1>0, <2>1, <2>2, <2>3, <2>4
<1>5. CASE AcceptDropped \/ AcceptAborted \/ WaitFails \/ Exit
  <2>1. /\ UNCHANGED <<sent, unread, job>>
        /\ fdtab' = fdtab \/ \A f \in Fds : fdtab'[f] = NoClient
    BY <1>5 DEF AcceptDropped, AcceptAborted, WaitFails, Exit, worker
  <2>2. \A d \in Clients : cstate'[d] \in {cstate[d], "closed"}
    BY <1>1, <1>5 DEF AcceptDropped, AcceptAborted, WaitFails, Exit
  <2> QED
    BY <1>0, <2>1, <2>2
<1>6. ASSUME NEW w \in Workers, Take(w) PROVE Untouched'
  <2>1. UNCHANGED <<cstate, sent, unread, fdtab>>
    BY <1>6 DEF Take, client
  <2>2. /\ \A x \in Workers : job'[x] = IF x = w THEN queue[1] ELSE job[x]
        /\ job[w] = NoFd
    BY <1>6, TakeEffect
  <2>3. ASSUME NEW f \in Fds, ~Serving(job', f) PROVE ~Serving(job, f)
    BY <2>2, <2>3, Sizes
  <2> QED
    BY <1>0, <2>1, <2>3
<1>7. ASSUME NEW w \in Workers, Recv(w) PROVE Untouched'
  <2> DEFINE c == fdtab[job[w]]
  <2>1. UNCHANGED <<cstate, sent, job, fdtab>> /\ wpc[w] = "recv"
    BY <1>7 DEF Recv
  <2>2. /\ job[w] \in Fds /\ c \in Clients /\ cstate[c] = "open"
        /\ \A f \in Fds : fdtab[f] = c => f = job[w]
    <3>1. /\ job[w] \in Fds /\ fdtab[job[w]] \in Clients /\ fdtab[job[w]] # NoClient
          /\ cstate[fdtab[job[w]]] = "open"
      BY <2>1, AtWork
    <3> QED
      BY <3>1 DEF IInv, Connected
  <2>3. \A d \in Clients : d # c => unread'[d] = unread[d]
    BY <1>1, <1>7 DEF Recv, Peer
  <2> QED
    BY <1>0, <1>2, <2>1, <2>2, <2>3
<1>8. ASSUME NEW w \in Workers, CloseFd(w) PROVE Untouched'
  <2>1. /\ job[w] \in Fds /\ fdtab[job[w]] \in Clients
        /\ fdtab' = [fdtab EXCEPT ![job[w]] = NoClient]
        /\ \A x \in Workers : job'[x] = IF x = w THEN NoFd ELSE job[x]
        /\ cstate' = [c \in Clients |-> IF c = fdtab[job[w]] THEN "closed" ELSE cstate[c]]
    BY <1>8, CloseEffect
  <2>2. \A f \in Fds : fdtab'[f] = IF f = job[w] THEN NoClient ELSE fdtab[f]
    BY <1>0, <2>1
  <2>3. UNCHANGED <<sent, unread>>
    BY <1>8 DEF CloseFd
  <2>4. \A d \in Clients : cstate'[d] \in {cstate[d], "closed"}
    BY <2>1
  <2>5. ASSUME NEW f \in Fds, f # job[w], ~Serving(job', f) PROVE ~Serving(job, f)
    BY <2>1, <2>5
  <2> QED
    BY <1>0, <2>2, <2>3, <2>4, <2>5
<1>9. ASSUME NEW c \in Clients, Connect(c) PROVE Untouched'
  <2>1. /\ UNCHANGED <<sent, unread, fdtab, job>> /\ cstate[c] = "idle"
        /\ \A d \in Clients : cstate'[d] = IF d = c THEN "backlog" ELSE cstate[d]
    BY <1>1, <1>9 DEF Connect, worker
  <2> QED
    BY <1>0, <2>1
<1>10. ASSUME NEW c \in Clients, SendSegment(c) PROVE Untouched'
  <2>1. UNCHANGED <<cstate, job, fdtab>>
    BY <1>10 DEF SendSegment, worker
  <2>2. \A d \in Clients : unread[d] = sent[d] => unread'[d] = sent'[d]
    BY <1>1, <1>10 DEF SendSegment
  <2> QED
    BY <1>0, <1>2, <2>1, <2>2
<1> HIDE DEF Untouched
<1> QED
  BY <1>3, <1>4, <1>5, <1>6, <1>7, <1>8, <1>9, <1>10
  DEF Next, MainStep, AcceptStep, WorkerStep, EpollWait, NextEventAccept, NextEventClient,
      Submit, BatchDone, AcceptAgain, AcceptFails, RecvAgain, RecvEnds, Respond, SendRest,
      Finish, Finished, vars, client, epoll, main, worker

LEMMA AnsweredStep == ASSUME IInv, Next PROVE Answered'
<1> USE DEF Answered
<1>0. Answered /\ fdtab \in [Fds -> Clients \cup {NoClient}]
  BY DEF IInv, TypeOK
<1>1. /\ cstate \in [Clients -> {"idle", "backlog", "open", "closed"}]
      /\ wpc \in [Workers -> {"take", "recv", "respond", "send", "close"}]
  BY DEF IInv, TypeOK
<1>2. \A x \in Workers : wpc[x] # "take" => job[x] \in Fds /\ fdtab[job[x]] \in Clients
  BY AtWork
<1>3. \A f \in Fds : fdtab[f] # NoClient => fdtab[f] \in Clients
  BY <1>0
<1>4. CASE UNCHANGED <<cstate, reply, fdtab, job, wpc>>
  BY <1>0, <1>4
<1>5. CASE Accept
  <2> DEFINE g == Lowest(FreeFds)
             c == Head(backlog)
  <2>1. /\ fdtab' = [fdtab EXCEPT ![g] = c] /\ g \in Fds /\ c \in Clients
        /\ cstate' = [cstate EXCEPT ![c] = "open"] /\ cstate[c] = "backlog"
    BY <1>5, AcceptEffect
  <2>2. UNCHANGED <<reply, wpc, job>>
    BY <1>5 DEF Accept, worker
  <2> HIDE DEF g, c
  <2>3. \A f \in Fds : fdtab'[f] = IF f = g THEN c ELSE fdtab[f]
    BY <1>0, <2>1
  <2>4. \A d \in Clients : cstate'[d] = IF d = c THEN "open" ELSE cstate[d]
    BY <1>1, <2>1
  <2> QED
    BY <1>0, <2>1, <2>2, <2>3, <2>4
<1>6. CASE AcceptDropped \/ AcceptAborted \/ WaitFails \/ Exit
  <2>1. /\ UNCHANGED <<reply, wpc, job>>
        /\ fdtab' = fdtab \/ \A f \in Fds : fdtab'[f] = NoClient
    BY <1>6 DEF AcceptDropped, AcceptAborted, WaitFails, Exit, worker
  <2>2. \A d \in Clients : cstate'[d] \in {cstate[d], "closed"}
    BY <1>1, <1>6 DEF AcceptDropped, AcceptAborted, WaitFails, Exit
  <2> QED
    BY <1>0, <2>1, <2>2
<1>7. ASSUME NEW w \in Workers, Take(w) PROVE Answered'
  <2>1. UNCHANGED <<cstate, reply, fdtab>>
    BY <1>7 DEF Take, client
  <2>2. \A x \in Workers : wpc'[x] = IF x = w THEN "recv" ELSE wpc[x]
    BY <1>1, <1>7 DEF Take
  <2>3. /\ \A x \in Workers : job'[x] = IF x = w THEN queue[1] ELSE job[x]
        /\ job[w] = NoFd
    BY <1>7, TakeEffect
  <2>4. ASSUME NEW f \in Fds, \A x \in Workers : job'[x] = f => wpc'[x] \notin {"send", "close"}
        PROVE  \A x \in Workers : job[x] = f => wpc[x] \notin {"send", "close"}
    BY <2>2, <2>3, <2>4, Sizes
  <2> QED
    BY <1>0, <2>1, <2>4
<1>8. ASSUME NEW w \in Workers, Recv(w) \/ RecvAgain(w) \/ RecvEnds(w) PROVE Answered'
  <2>1. UNCHANGED <<cstate, reply, fdtab, job>> /\ wpc[w] = "recv"
    BY <1>8 DEF Recv, RecvAgain, RecvEnds, client
  <2>2. \A x \in Workers : wpc[x] \in {"send", "close"} => wpc'[x] = wpc[x]
    BY <1>1, <1>8, <2>1 DEF Recv, RecvAgain, RecvEnds
  <2> QED
    BY <1>0, <2>1, <2>2
<1>9. ASSUME NEW w \in Workers, Respond(w) PROVE Answered'
  <2>1. UNCHANGED <<cstate, fdtab, job>> /\ wpc[w] = "respond"
    BY <1>9 DEF Respond
  <2>2. wpc'[w] \in {"send", "close"} /\ \A x \in Workers : x # w => wpc'[x] = wpc[x]
    BY <1>1, <1>9 DEF Respond, AfterResponse
  <2>3. \A d \in Clients : d # fdtab[job[w]] => reply'[d] = reply[d]
    BY <1>9 DEF Respond, Peer
  <2>4. /\ cstate[fdtab[job[w]]] = "open" /\ job[w] \in Fds
        /\ \A f \in Fds : fdtab[f] = fdtab[job[w]] => f = job[w]
    <3>1. job[w] \in Fds /\ fdtab[job[w]] # NoClient /\ cstate[fdtab[job[w]]] = "open"
      BY <2>1, AtWork
    <3> QED
      BY <3>1 DEF IInv, Connected
  <2> QED
    BY <1>0, <1>3, <2>1, <2>2, <2>3, <2>4
<1>10. ASSUME NEW w \in Workers, CloseFd(w) PROVE Answered'
  <2>1. /\ job[w] \in Fds /\ fdtab[job[w]] \in Clients
        /\ fdtab' = [fdtab EXCEPT ![job[w]] = NoClient]
        /\ \A x \in Workers : job'[x] = IF x = w THEN NoFd ELSE job[x]
        /\ cstate' = [c \in Clients |-> IF c = fdtab[job[w]] THEN "closed" ELSE cstate[c]]
    BY <1>10, CloseEffect
  <2>2. \A f \in Fds : fdtab'[f] = IF f = job[w] THEN NoClient ELSE fdtab[f]
    BY <1>0, <2>1
  <2>3. reply' = reply
    BY <1>10 DEF CloseFd
  <2>4. \A x \in Workers : wpc'[x] = IF x = w THEN "take" ELSE wpc[x]
    BY <1>1, <1>10 DEF CloseFd
  <2>5. \A d \in Clients : cstate'[d] \in {cstate[d], "closed"}
    BY <2>1
  <2>6. ASSUME NEW f \in Fds, f # job[w], \A x \in Workers : job'[x] = f => wpc'[x] \notin {"send", "close"}
        PROVE  \A x \in Workers : job[x] = f => wpc[x] \notin {"send", "close"}
    BY <2>1, <2>4, <2>6
  <2> QED
    BY <1>0, <2>2, <2>3, <2>5, <2>6
<1>11. ASSUME NEW c \in Clients, Connect(c) PROVE Answered'
  <2>1. /\ UNCHANGED <<reply, fdtab, wpc, job>> /\ cstate[c] = "idle"
        /\ \A d \in Clients : cstate'[d] = IF d = c THEN "backlog" ELSE cstate[d]
    BY <1>1, <1>11 DEF Connect, worker
  <2> QED
    BY <1>0, <2>1
<1>12. ASSUME NEW w \in Workers, SendRest(w) PROVE Answered'
  <2>1. UNCHANGED <<cstate, reply, fdtab, job>> /\ wpc[w] = "send"
    BY <1>12 DEF SendRest, client
  <2>2. wpc'[w] = "close" /\ \A x \in Workers : x # w => wpc'[x] = wpc[x]
    BY <1>1, <1>12 DEF SendRest, AfterResponse
  <2> QED
    BY <1>0, <2>1, <2>2
<1> HIDE DEF Answered
<1> QED
  BY <1>4, <1>5, <1>6, <1>7, <1>8, <1>9, <1>10, <1>11, <1>12
  DEF Next, MainStep, AcceptStep, WorkerStep, EpollWait, NextEventAccept, NextEventClient,
      Submit, BatchDone, AcceptAgain, AcceptFails,
      SendSegment, Finish, Finished, vars, client, epoll, main, worker

---------------------------------------------------------------------------
\* The inductive invariant holds throughout, whatever the clients send, when
\* they leave and which calls fail.
THEOREM Invariance == Spec => []IInv
<1>1. Init => IInv
  BY InitInv
<1>2. IInv /\ [Next]_vars => IInv'
  <2> SUFFICES ASSUME IInv, [Next]_vars PROVE IInv'
    OBVIOUS
  <2>1. CASE UNCHANGED vars
    BY <2>1 DEF IInv, TypeOK, Apart, Known, Events, Places, Connected, Heard, Counted, Untouched,
       Answered, Reported, Queued, Serving, Peer, Up, vars, client, epoll, main, worker
  <2>2. CASE Next
    BY <2>2, TypeStep, ApartStep, KnownStep, EventsStep, PlacesStep, ConnectedStep,
       HeardStep, CountedStep, UntouchedStep, AnsweredStep DEF IInv
  <2> QED
    BY <2>1, <2>2
<1> QED
  BY <1>1, <1>2, PTL DEF Spec

\* The types of http_server's connections; the ring holds at most QueueSize.
THEOREM TypeCorrect == Spec => []TypeOK
<1>1. IInv => TypeOK
  BY DEF IInv
<1> QED
  BY <1>1, Invariance, PTL

---------------------------------------------------------------------------
(* One holder: from the places that exclude each other to the count of them. *)

LEMMA AtMostOne ==
  ASSUME NEW S, \A x, y \in S : x = y
  PROVE  IsFiniteSet(S) /\ Cardinality(S) = IF S = {} THEN 0 ELSE 1
<1>1. CASE S = {}
  BY <1>1, FS_EmptySet
<1>2. CASE S # {}
  <2>1. PICK x \in S : TRUE
    BY <1>2
  <2>2. S = {x}
    BY <2>1
  <2> QED
    BY <1>2, <2>2, FS_Singleton
<1> QED
  BY <1>1, <1>2

LEMMA Count ==
  ASSUME IInv, NEW f \in Fds
  PROVE  Holders(f) = IF f \in interest \/ f = current \/ Queued(queue, f) \/ Serving(job, f)
                      THEN 1 ELSE 0
<1> DEFINE Qs == {i \in DOMAIN queue : queue[i] = f}
           Ws == {w \in Workers : job[w] = f}
<1>1. DOMAIN queue = 1 .. Len(queue)
  BY LenProperties DEF IInv, TypeOK
<1>2. f # NoFd
  BY Sizes
<1>3. Cardinality(Qs) = IF Queued(queue, f) THEN 1 ELSE 0
  <2>1. \A i, j \in Qs : i = j
    BY <1>1 DEF IInv, Apart
  <2>2. Qs = {} <=> ~Queued(queue, f)
    BY <1>1 DEF Queued
  <2> HIDE DEF Qs
  <2> QED
    BY <2>1, <2>2, AtMostOne
<1>4. Cardinality(Ws) = IF Serving(job, f) THEN 1 ELSE 0
  <2>1. \A w, x \in Ws : w = x
    BY <1>2 DEF IInv, Apart
  <2>2. Ws = {} <=> ~Serving(job, f)
    BY DEF Serving
  <2> HIDE DEF Ws
  <2> QED
    BY <2>1, <2>2, AtMostOne
<1>5. /\ ~(f \in interest /\ f = current) /\ ~(f \in interest /\ Queued(queue, f))
      /\ ~(f \in interest /\ Serving(job, f)) /\ ~(f = current /\ Queued(queue, f))
      /\ ~(f = current /\ Serving(job, f)) /\ ~(Queued(queue, f) /\ Serving(job, f))
  BY <1>2 DEF IInv, Apart, Queued, Serving
<1>6. Holders(f) = (IF f \in interest THEN 1 ELSE 0) + (IF current = f THEN 1 ELSE 0)
                   + Cardinality(Qs) + Cardinality(Ws)
  BY DEF Holders
<1> HIDE DEF Qs, Ws
<1> QED
  BY <1>3, <1>4, <1>5, <1>6

\* While the server runs an open descriptor has one holder and a free number
\* none, so main and the workers close each connection once and never another's
\* (server.c: removefd before the submit, close_client_fd by the worker alone).
THEOREM HeldOnce == Spec => []OneHolder
<1>1. IInv => OneHolder
  <2> SUFFICES ASSUME IInv PROVE OneHolder
    OBVIOUS
  <2>1. ASSUME Up, NEW f \in Fds
        PROVE  Holders(f) = IF fdtab[f] = NoClient THEN 0 ELSE 1
    <3>1. fdtab[f] # NoClient <=>
            f \in interest \/ f = current \/ Queued(queue, f) \/ Serving(job, f)
      BY <2>1, Sizes DEF IInv, Known, Queued, Serving
    <3> QED
      BY <3>1, Count
  <2>2. DOMAIN batch = 1 .. Len(batch)
    BY LenProperties DEF IInv, TypeOK
  <2>3. \A i \in DOMAIN batch : batch[i] # Listen => batch[i] \in interest \ armed
    BY <2>2 DEF IInv, Events
  <2> QED
    BY <2>1, <2>3 DEF OneHolder
<1> QED
  BY <1>1, Invariance, PTL

---------------------------------------------------------------------------
(* One reply *)

LEMMA RespondEffect ==
  ASSUME IInv, NEW w \in Workers, Respond(w), NEW c \in Clients, reply'[c] # reply[c]
  PROVE  /\ reply[c] = "none" /\ cstate[c] = "open" /\ cstate'[c] = "open"
         /\ sent[c] > 0
         /\ reply'[c] = "answer" <=> c \notin Long /\ sent[c] = Segments /\ unread[c] = 0
<1>1. wpc[w] = "respond" /\ cstate' = cstate
  BY DEF Respond
<1>2. c = fdtab[job[w]]
  BY DEF Respond, Peer
<1>3. /\ job[w] \in Fds /\ fdtab[job[w]] # NoClient /\ cstate[c] = "open"
      /\ \A x \in Workers : x # w /\ wpc[x] # "take" => job[x] # job[w]
  BY <1>1, <1>2, AtWork
<1>4. \A x \in Workers : job[x] = job[w] => wpc[x] \notin {"send", "close"}
  BY <1>1, <1>3
<1>5. reply[c] = "none"
  BY <1>2, <1>3, <1>4 DEF IInv, Answered
<1>6. sent[c] > 0
  BY <1>1, <1>2 DEF IInv, Counted, Peer
<1>7. reply'[c] = "answer" <=> c \notin Long /\ sent[c] = Segments /\ unread[c] = 0
  <2>1. reply'[c] = IF WholeHead(w) THEN "answer" ELSE "400"
    BY <1>2 DEF Respond, Peer
  <2>2. got[w] + unread[c] = sent[c]
    BY <1>1, <1>2 DEF IInv, Counted, Peer
  <2>3. got[w] \in 0 .. Segments /\ unread[c] \in 0 .. Segments /\ sent[c] \in 0 .. Segments
    BY DEF IInv, TypeOK
  <2>4. got[w] = Segments <=> sent[c] = Segments /\ unread[c] = 0
    BY <2>2, <2>3, Sizes
  <2> QED
    BY <1>2, <2>1, <2>4 DEF WholeHead, Peer
<1> QED
  BY <1>1, <1>3, <1>5, <1>6, <1>7

\* A client is answered at most once, while its connection is open, and with 400
\* exactly when part of its head was not read, so that nobody is told 400 who has
\* sent nothing or of whom all was read (process_client_connection).
THEOREM AnsweredOnce == Spec => ReplyOnce
<1>1. IInv /\ [Next]_vars =>
        [\A c \in Clients : reply'[c] # reply[c] =>
           /\ reply[c] = "none" /\ cstate[c] = "open" /\ cstate'[c] = "open"
           /\ sent[c] > 0
           /\ reply'[c] = "answer" <=> c \notin Long /\ sent[c] = Segments /\ unread[c] = 0]_vars
  <2> SUFFICES ASSUME IInv, Next, NEW c \in Clients, reply'[c] # reply[c]
               PROVE  /\ reply[c] = "none" /\ cstate[c] = "open" /\ cstate'[c] = "open"
                      /\ sent[c] > 0
                      /\ reply'[c] = "answer" <=>
                           c \notin Long /\ sent[c] = Segments /\ unread[c] = 0
    OBVIOUS
  <2>1. PICK w \in Workers : Respond(w)
    BY DEF Next, MainStep, AcceptStep, WorkerStep, EpollWait, NextEventAccept,
       NextEventClient, Submit, BatchDone, Accept, AcceptDropped, AcceptAgain, AcceptFails,
       AcceptAborted, WaitFails, Exit, Take, Recv, RecvAgain, RecvEnds, SendRest, CloseFd,
       Connect, SendSegment, Finish, Finished, vars, client
  <2> QED
    BY <2>1, RespondEffect
<1> QED
  BY <1>1, Invariance, PTL DEF Spec, ReplyOnce

---------------------------------------------------------------------------
(* The edge-triggered listening socket *)

InBatch(b) == \E i \in 1 .. Len(b) : b[i] = Listen

LEMMA StrandedStep ==
  ASSUME IInv, Next,
         backlog # <<>> => listenEdge \/ mpc = "accept" \/ InBatch(batch) \/ cutShort
  PROVE  backlog' # <<>> => listenEdge' \/ mpc' = "accept" \/ InBatch(batch') \/ cutShort'
<1> USE DEF InBatch
<1>1. CASE UNCHANGED <<backlog, listenEdge, batch, mpc, cutShort>>
  BY <1>1
<1>2. CASE EpollWait
  <2>1. /\ UNCHANGED <<backlog, cutShort>> /\ mpc = "wait"
        /\ batch = <<>> /\ Len(batch) = 0
    BY <1>2 DEF EpollWait, IInv, Events
  <2>2. backlog # <<>> => listenEdge \/ cutShort
    BY <2>1
  <2>3. InBatch(batch') \/ listenEdge' = (listenEdge /\ backlog # <<>>)
    BY <1>2, WaitEffect
  <2> HIDE DEF InBatch
  <2> QED
    BY <2>1, <2>2, <2>3
<1>3. CASE NextEventAccept \/ Accept \/ AcceptDropped
  BY <1>3 DEF NextEventAccept, Accept, AfterAccept, AcceptDropped, main
<1>4. CASE NextEventClient
  <2>1. UNCHANGED <<backlog, listenEdge, cutShort>> /\ Head(batch) # Listen /\ mpc = "batch"
    BY <1>4 DEF NextEventClient
  <2> QED
    BY <1>4, <2>1, NextEffect
<1>5. CASE Submit
  BY <1>5 DEF Submit, epoll
<1>6. CASE BatchDone
  <2>1. /\ UNCHANGED <<backlog, listenEdge, cutShort>> /\ mpc = "batch"
        /\ batch = <<>> /\ Len(batch) = 0
    BY <1>6 DEF BatchDone, epoll
  <2> QED
    BY <2>1
<1>7. CASE AcceptAgain
  BY <1>7 DEF AcceptAgain
<1>8. CASE AcceptFails \/ AcceptAborted
  BY <1>8 DEF AcceptFails, AcceptAborted
<1>9. CASE WaitFails
  BY <1>9 DEF WaitFails
<1>10. CASE Exit
  BY <1>10 DEF Exit, IInv, Places, Up
<1>11. ASSUME NEW c \in Clients, Connect(c)
       PROVE  backlog' # <<>> => listenEdge' \/ mpc' = "accept" \/ InBatch(batch') \/ cutShort'
  BY <1>11 DEF Connect
<1> QED
  BY <1>1, <1>2, <1>3, <1>4, <1>5, <1>6, <1>7, <1>8, <1>9, <1>10, <1>11
  DEF Next, MainStep, AcceptStep, WorkerStep, Take, Recv, RecvAgain, RecvEnds, Respond, SendRest,
      CloseFd, SendSegment, Finish, Finished, vars, client, epoll, main, worker

\* The edge-triggered listening socket strands nobody, however many descriptors
\* there are and whatever fails, unless an error and not EAGAIN ended the last
\* accept loop (server.c:834); HttpServerEmfile.cfg shows that it then does.
THEOREM NobodyStranded == Spec => []NoStrandedConnection
<1> DEFINE J == backlog # <<>> => listenEdge \/ mpc = "accept" \/ InBatch(batch) \/ cutShort
<1>1. Init => J
  BY DEF Init
<1>2. IInv /\ J /\ [Next]_vars => J'
  <2> SUFFICES ASSUME IInv, J, [Next]_vars PROVE J'
    OBVIOUS
  <2>1. CASE UNCHANGED vars
    BY <2>1 DEF vars, epoll, main, InBatch
  <2>2. CASE Next
    BY <2>2, StrandedStep
  <2> QED
    BY <2>1, <2>2
<1>3. IInv /\ J => NoStrandedConnection
  <2> SUFFICES ASSUME IInv, J PROVE NoStrandedConnection
    OBVIOUS
  <2>1. DOMAIN batch = 1 .. Len(batch)
    BY LenProperties DEF IInv, TypeOK
  <2> QED
    BY <2>1 DEF NoStrandedConnection, ListenReported, InBatch
<1> HIDE DEF J
<1> QED
  BY <1>1, <1>2, <1>3, Invariance, PTL DEF Spec

---------------------------------------------------------------------------
(* The server as a user of the pool.  Order says where the clients of the  *)
(* submissions are: the last ones in the queue, in order, each other one   *)
(* started, none of them still to be submitted.                            *)

Order ==
  /\ order \in Seq(Clients) /\ Len(queue) <= Len(order)
  /\ \A i, j \in 1 .. Len(order) : order[i] = order[j] => i = j
  /\ \A i \in 1 .. Len(queue) : order[Started + i] = fdtab[queue[i]]
  /\ \A w \in Workers : job[w] # NoFd => \E k \in 1 .. Started : order[k] = fdtab[job[w]]
  /\ \A i \in 1 .. Len(order) :
       /\ cstate[order[i]] \notin {"idle", "backlog"}
       /\ \A f \in Fds : fdtab[f] = order[i] => f \notin interest /\ f # current

LEMMA OrderInit == NumberedInit => Order
<1> SUFFICES ASSUME NumberedInit PROVE Order
  OBVIOUS
<1>1. /\ order = <<>> /\ queue = <<>> /\ order \in Seq(Clients) /\ Len(order) = 0 /\ Len(queue) = 0
      /\ \A w \in Workers : job[w] = NoFd
  BY DEF NumberedInit, Init
<1> QED
  BY <1>1 DEF Order

\* Only a submission is numbered.
LEMMA OrderEffect ==
  ASSUME NumberedNext
  PROVE  /\ Next
         /\ \/ Submit /\ order' = Append(order, fdtab[current])
            \/ ~Submit /\ order' = order
<1>1. Next /\ order' = IF mpc = "submit" /\ mpc' # "submit" THEN Append(order, fdtab[current]) ELSE order
  BY DEF NumberedNext
<1>2. CASE Submit
  BY <1>1, <1>2 DEF Submit
<1>3. CASE ~Submit
  <2>1. mpc = "submit" => mpc' = "submit"
    BY <1>1, <1>3
    DEF Next, MainStep, AcceptStep, WorkerStep, EpollWait, NextEventAccept, NextEventClient,
        BatchDone, Accept, AcceptDropped, AcceptAgain, AcceptFails, AcceptAborted, WaitFails, Exit,
        Take, Recv, RecvAgain, RecvEnds, Respond, SendRest, CloseFd, Connect, SendSegment, Finish,
        Finished, vars, main
  <2> QED
    BY <1>1, <1>3, <2>1
<1> QED
  BY <1>2, <1>3

LEMMA OrderLengths ==
  ASSUME IInv, Order
  PROVE  /\ Len(order) \in Nat /\ Len(queue) \in Nat /\ Started \in Nat
         /\ Started + Len(queue) = Len(order)
         /\ \A i \in 1 .. Len(order) : order[i] \in Clients
         /\ \A i \in 1 .. Len(queue) : Started + i \in 1 .. Len(order) /\ queue[i] \in Fds
<1>1. Len(order) \in Nat /\ Len(queue) \in Nat /\ Len(queue) <= Len(order)
  BY LenProperties DEF IInv, TypeOK, Order
<1>2. \A i \in 1 .. Len(order) : order[i] \in Clients
  BY ElementOfSeq DEF Order
<1>3. \A i \in 1 .. Len(queue) : queue[i] \in Fds
  BY ElementOfSeq DEF IInv, TypeOK
<1> QED
  BY <1>1, <1>2, <1>3 DEF Started

LEMMA OrderSubmit ==
  ASSUME IInv, Order, Submit, order' = Append(order, fdtab[current])
  PROVE  Order'
<1> DEFINE c == fdtab[current]
<1>1. /\ current \in Fds /\ c \in Clients /\ cstate[c] = "open" /\ c # NoClient
      /\ current \notin interest
  <2>1. current \in Fds /\ current # NoFd
    BY SubmitEffect, Sizes
  <2>2. fdtab[current] # NoClient /\ fdtab[current] \in Clients \cup {NoClient}
    BY <2>1 DEF IInv, TypeOK, Known
  <2> QED
    BY <2>1, <2>2 DEF IInv, Apart, Connected
<1>2. /\ UNCHANGED <<cstate, fdtab, interest, job>> /\ current' = NoFd
  BY DEF Submit, client, epoll, worker
<1>3. /\ Len(queue') = Len(queue) + 1 /\ queue'[Len(queue) + 1] = current
      /\ \A i \in 1 .. Len(queue) : queue'[i] = queue[i]
      /\ \A i \in 1 .. Len(queue') : i \in 1 .. Len(queue) \/ i = Len(queue) + 1
  BY SubmitEffect
<1>4. /\ order' \in Seq(Clients) /\ Len(order') = Len(order) + 1 /\ order'[Len(order) + 1] = c
      /\ \A i \in 1 .. Len(order) : order'[i] = order[i]
      /\ \A i \in 1 .. Len(order') : i \in 1 .. Len(order) \/ i = Len(order) + 1
  <2>1. order \in Seq(Clients)
    BY DEF Order
  <2> QED
    BY <1>1, <2>1, AppendParts
<1>5. /\ Len(order) \in Nat /\ Len(queue) \in Nat /\ Started \in Nat
      /\ Started + Len(queue) = Len(order)
      /\ \A i \in 1 .. Len(queue) : Started + i \in 1 .. Len(order)
  BY OrderLengths
<1>6. Started' = Started
  BY <1>3, <1>4, <1>5 DEF Started
<1>7. \A i \in 1 .. Len(order) : order[i] # c
  BY <1>1 DEF Order
<1> HIDE DEF c
<1>8. \A i, j \in 1 .. Len(order') : order'[i] = order'[j] => i = j
  BY <1>4, <1>7 DEF Order
<1>9. \A i \in 1 .. Len(queue') : order'[Started' + i] = fdtab'[queue'[i]]
  <2> SUFFICES ASSUME NEW i \in 1 .. Len(queue') PROVE order'[Started + i] = fdtab[queue'[i]]
    BY <1>2, <1>6
  <2>1. CASE i \in 1 .. Len(queue)
    BY <1>3, <1>4, <1>5, <2>1 DEF Order
  <2>2. CASE i = Len(queue) + 1
    <3>1. Started + i = Len(order) + 1
      BY <1>5, <2>2
    <3> QED
      BY <1>3, <1>4, <2>2, <3>1 DEF c
  <2> QED
    BY <1>3, <2>1, <2>2
<1>10. \A w \in Workers : job'[w] # NoFd => \E k \in 1 .. Started' : order'[k] = fdtab'[job'[w]]
  <2> SUFFICES ASSUME NEW w \in Workers, job[w] # NoFd
               PROVE  \E k \in 1 .. Started : order'[k] = fdtab[job[w]]
    BY <1>2, <1>6
  <2>1. PICK k \in 1 .. Started : order[k] = fdtab[job[w]]
    BY DEF Order
  <2>2. k \in 1 .. Len(order)
    BY <1>5
  <2> QED
    BY <1>4, <2>1, <2>2
<1>11. \A i \in 1 .. Len(order') :
         /\ cstate'[order'[i]] \notin {"idle", "backlog"}
         /\ \A f \in Fds : fdtab'[f] = order'[i] => f \notin interest' /\ f # current'
  <2> SUFFICES ASSUME NEW i \in 1 .. Len(order')
               PROVE  /\ cstate[order'[i]] \notin {"idle", "backlog"}
                      /\ \A f \in Fds : fdtab[f] = order'[i] => f \notin interest
    BY <1>2, Sizes
  <2>1. CASE i \in 1 .. Len(order)
    BY <1>4, <2>1 DEF Order
  <2>2. CASE i = Len(order) + 1
    <3>1. \A f \in Fds : fdtab[f] = c => f = current
      BY <1>1 DEF IInv, Connected, c
    <3> QED
      BY <1>1, <1>4, <2>2, <3>1
  <2> QED
    BY <1>4, <2>1, <2>2
<1>12. Len(queue') <= Len(order')
  BY <1>3, <1>4, <1>5
<1> QED
  BY <1>4, <1>8, <1>9, <1>10, <1>11, <1>12 DEF Order

LEMMA OrderTake ==
  ASSUME IInv, Order, NEW w \in Workers, Take(w), order' = order
  PROVE  Order'
<1>1. UNCHANGED <<cstate, fdtab, interest, current>>
  BY DEF Take, client, epoll, main
<1>2. /\ 1 \in 1 .. Len(queue) /\ queue[1] \in Fds
      /\ \A x \in Workers : job'[x] = IF x = w THEN queue[1] ELSE job[x]
      /\ \A i \in 1 .. Len(queue') : queue'[i] = queue[i + 1] /\ i + 1 \in 1 .. Len(queue) /\ i \in Int
  BY TakeEffect
<1>3. Len(queue) = Len(queue') + 1 /\ Len(queue') \in Nat
  BY TailParts DEF IInv, TypeOK, Take, Dequeued
<1>4. /\ Len(order) \in Nat /\ Len(queue) \in Nat /\ Started \in Nat
      /\ Started + Len(queue) = Len(order)
  BY OrderLengths
<1>5. Started' = Started + 1 /\ Len(queue') <= Len(order)
  BY <1>3, <1>4 DEF Started
<1>6. \A i \in 1 .. Len(queue') : order[Started' + i] = fdtab[queue'[i]]
  <2> SUFFICES ASSUME NEW i \in 1 .. Len(queue') PROVE order[Started' + i] = fdtab[queue'[i]]
    OBVIOUS
  <2>1. Started' + i = Started + (i + 1)
    BY <1>2, <1>4, <1>5
  <2> QED
    BY <1>2, <2>1 DEF Order
<1>7. \A x \in Workers : job'[x] # NoFd => \E k \in 1 .. Started' : order[k] = fdtab[job'[x]]
  <2> SUFFICES ASSUME NEW x \in Workers, job'[x] # NoFd
               PROVE  \E k \in 1 .. Started' : order[k] = fdtab[job'[x]]
    OBVIOUS
  <2>1. CASE x = w
    <3>1. order[Started + 1] = fdtab[job'[x]]
      BY <1>2, <2>1 DEF Order
    <3> QED
      BY <1>4, <1>5, <3>1
  <2>2. CASE x # w
    <3>1. PICK k \in 1 .. Started : order[k] = fdtab[job'[x]]
      BY <1>2, <2>2 DEF Order
    <3>2. k \in 1 .. Started'
      BY <1>4, <1>5
    <3> QED
      BY <3>1, <3>2
  <2> QED
    BY <2>1, <2>2
<1> QED
  BY <1>1, <1>5, <1>6, <1>7 DEF Order

LEMMA OrderClose ==
  ASSUME IInv, Order, NEW w \in Workers, CloseFd(w), order' = order
  PROVE  Order'
<1>1. /\ job[w] \in Fds /\ interest' = interest /\ queue' = queue /\ current' = current
      /\ fdtab' = [fdtab EXCEPT ![job[w]] = NoClient]
      /\ \A x \in Workers : job'[x] = IF x = w THEN NoFd ELSE job[x]
      /\ cstate' = [c \in Clients |-> IF c = fdtab[job[w]] THEN "closed" ELSE cstate[c]]
  BY CloseEffect DEF CloseFd, main
<1>2. /\ Started' = Started /\ \A i \in 1 .. Len(order) : order[i] \in Clients
      /\ \A i \in 1 .. Len(queue) : queue[i] \in Fds
  BY <1>1, OrderLengths DEF Started
<1>3. \A f \in Fds : fdtab'[f] = IF f = job[w] THEN NoClient ELSE fdtab[f]
  BY <1>1 DEF IInv, TypeOK
<1>4. \A i \in 1 .. Len(queue) : fdtab'[queue[i]] = fdtab[queue[i]]
  BY <1>2, <1>3 DEF IInv, Apart
<1>5. \A x \in Workers : job'[x] # NoFd => fdtab'[job'[x]] = fdtab[job[x]] /\ job[x] # NoFd
  <2> SUFFICES ASSUME NEW x \in Workers, job'[x] # NoFd
               PROVE  fdtab'[job'[x]] = fdtab[job[x]] /\ job[x] # NoFd
    OBVIOUS
  <2>1. x # w /\ job'[x] = job[x] /\ job[x] \in Fds /\ job[x] # job[w]
    BY <1>1, Sizes DEF IInv, TypeOK, Apart
  <2> QED
    BY <1>3, <2>1, Sizes
<1>6. \A i \in 1 .. Len(order) :
         /\ cstate'[order[i]] \notin {"idle", "backlog"}
         /\ \A f \in Fds : fdtab'[f] = order[i] => f \notin interest /\ f # current
  BY <1>1, <1>2, <1>3, Sizes DEF Order
<1>7. \A x \in Workers : job'[x] # NoFd => \E k \in 1 .. Started : order[k] = fdtab'[job'[x]]
  BY <1>5 DEF Order
<1>8. \A i \in 1 .. Len(queue) : order[Started + i] = fdtab'[queue[i]]
  BY <1>4 DEF Order
<1> QED
  BY <1>1, <1>2, <1>6, <1>7, <1>8 DEF Order

LEMMA OrderAccept ==
  ASSUME IInv, Order, Accept, order' = order
  PROVE  Order'
<1> DEFINE c == Head(backlog)
           f == Lowest(FreeFds)
<1>1. /\ c \in Clients /\ cstate[c] = "backlog" /\ f \in Fds /\ fdtab[f] = NoClient
      /\ cstate' = [cstate EXCEPT ![c] = "open"] /\ fdtab' = [fdtab EXCEPT ![f] = c]
      /\ interest' = interest \cup {f}
      /\ f # current /\ ~Queued(queue, f) /\ ~Serving(job, f)
  BY AcceptEffect
<1>2. UNCHANGED <<queue, job, current>>
  BY DEF Accept, worker
<1> HIDE DEF c, f
<1>3. /\ Started' = Started /\ \A i \in 1 .. Len(order) : order[i] \in Clients
      /\ \A i \in 1 .. Len(queue) : queue[i] \in Fds
  BY <1>2, OrderLengths DEF Started
<1>4. /\ \A g \in Fds : fdtab'[g] = IF g = f THEN c ELSE fdtab[g]
      /\ \A d \in Clients : cstate'[d] = IF d = c THEN "open" ELSE cstate[d]
  BY <1>1 DEF IInv, TypeOK
<1>5. \A i \in 1 .. Len(queue) : fdtab'[queue[i]] = fdtab[queue[i]]
  BY <1>1, <1>3, <1>4 DEF Queued
<1>6. \A x \in Workers : job[x] # NoFd => fdtab'[job[x]] = fdtab[job[x]]
  <2>1. \A x \in Workers : job[x] \in Fds \cup {NoFd}
    BY DEF IInv, TypeOK
  <2> QED
    BY <1>1, <1>4, <2>1 DEF Serving
<1>7. \A i \in 1 .. Len(order) : order[i] # c
  BY <1>1 DEF Order
<1>8. \A i \in 1 .. Len(order) :
         /\ cstate'[order[i]] \notin {"idle", "backlog"}
         /\ \A g \in Fds : fdtab'[g] = order[i] => g \notin interest' /\ g # current
  BY <1>1, <1>3, <1>4, <1>7 DEF Order
<1>9. \A x \in Workers : job[x] # NoFd => \E k \in 1 .. Started : order[k] = fdtab'[job[x]]
  BY <1>6 DEF Order
<1>10. \A i \in 1 .. Len(queue) : order[Started + i] = fdtab'[queue[i]]
  BY <1>5 DEF Order
<1> QED
  BY <1>2, <1>3, <1>8, <1>9, <1>10 DEF Order

LEMMA OrderExit ==
  ASSUME IInv, Order, Exit, order' = order
  PROVE  Order'
<1>1. /\ queue = <<>> /\ queue' = queue /\ job' = job /\ Len(queue) = 0 /\ Started' = Started
      /\ \A f \in Fds : fdtab'[f] = NoClient
  BY DEF Exit, worker, Started
<1>2. \A w \in Workers : job[w] = NoFd
  BY DEF Exit, IInv, Places
<1>3. \A i \in 1 .. Len(order) : order[i] \in Clients /\ order[i] # NoClient
  BY OrderLengths, Sizes
<1>4. \A d \in Clients : cstate'[d] = IF cstate[d] = "open" THEN "closed" ELSE cstate[d]
  BY DEF Exit
<1>5. \A i \in 1 .. Len(order) :
         /\ cstate'[order[i]] \notin {"idle", "backlog"}
         /\ \A f \in Fds : fdtab'[f] = order[i] => f \notin interest' /\ f # current'
  BY <1>1, <1>3, <1>4 DEF Order
<1> QED
  BY <1>1, <1>2, <1>5 DEF Order

LEMMA OrderStep == IInv /\ Order /\ [NumberedNext]_<<vars, order>> => Order'
<1> SUFFICES ASSUME IInv, Order, [NumberedNext]_<<vars, order>> PROVE Order'
  OBVIOUS
<1>1. CASE UNCHANGED <<vars, order>>
  BY <1>1 DEF Order, Started, vars, client, epoll, main, worker
<1>2. CASE NumberedNext
  <2>1. /\ Next
        /\ \/ Submit /\ order' = Append(order, fdtab[current])
           \/ ~Submit /\ order' = order
    BY <1>2, OrderEffect
  <2>2. CASE Submit
    <3>1. order' = Append(order, fdtab[current])
      BY <2>1, <2>2
    <3> QED
      BY <2>2, <3>1, OrderSubmit
  <2>3. ASSUME order' = order, NEW w \in Workers, Take(w) \/ CloseFd(w) PROVE Order'
    BY <2>3, OrderTake, OrderClose
  <2>4. CASE order' = order /\ (Accept \/ Exit)
    BY <2>4, OrderAccept, OrderExit
  <2>5. CASE /\ UNCHANGED <<order, queue, job, fdtab>>
             /\ \A d \in Clients : cstate'[d] \in {"idle", "backlog"} => cstate[d] \in {"idle", "backlog"}
             /\ interest' \subseteq interest
             /\ current' = current \/ current' \in interest \ interest'
    <3>1. \A i \in 1 .. Len(order) : order[i] \in Clients
      BY OrderLengths
    <3>2. Started' = Started
      BY <2>5 DEF Started
    <3>3. \A i \in 1 .. Len(order) :
            /\ cstate'[order[i]] \notin {"idle", "backlog"}
            /\ \A f \in Fds : fdtab[f] = order[i] => f \notin interest' /\ f # current'
      BY <2>5, <3>1 DEF Order
    <3> QED
      BY <2>5, <3>2, <3>3 DEF Order
  <2>6. CASE order' = order /\ (NextEventAccept \/ NextEventClient)
    <3>1. NextEventClient => Head(batch) \in interest
      BY NextEffect DEF NextEventClient
    <3>2. /\ UNCHANGED <<cstate, queue, job, fdtab>> /\ interest' \subseteq interest
          /\ current' = current \/ current' \in interest \ interest'
      BY <2>6, <3>1 DEF NextEventAccept, NextEventClient, RemoveFd, client, epoll, worker
    <3> QED
      BY <2>5, <2>6, <3>2
  <2>7. CASE /\ order' = order
             /\ AcceptDropped \/ AcceptAborted \/ WaitFails \/ \E c \in Clients : Connect(c)
    <3>1. cstate \in [Clients -> {"idle", "backlog", "open", "closed"}]
      BY DEF IInv, TypeOK
    <3>2. \A d \in Clients : cstate'[d] \in {"idle", "backlog"} => cstate[d] \in {"idle", "backlog"}
      BY <2>7, <3>1 DEF AcceptDropped, AcceptAborted, WaitFails, Connect
    <3>3. UNCHANGED <<queue, job, fdtab, current>> /\ interest' \subseteq interest
      BY <2>7 DEF AcceptDropped, AcceptAborted, WaitFails, Connect, epoll, main, worker
    <3> QED
      BY <2>5, <2>7, <3>2, <3>3
  <2>8. CASE /\ order' = order
             /\ \/ EpollWait \/ BatchDone \/ AcceptAgain \/ AcceptFails \/ Finished
                \/ \E w \in Workers : Recv(w) \/ RecvAgain(w) \/ RecvEnds(w) \/ Respond(w) \/ SendRest(w)
                \/ \E c \in Clients : SendSegment(c) \/ Finish(c)
    <3>1. UNCHANGED <<cstate, queue, job, fdtab, current, interest>>
      BY <2>8 DEF EpollWait, BatchDone, AcceptAgain, AcceptFails, Finished, Recv, RecvAgain,
                  RecvEnds, Respond, SendRest, SendSegment, Finish, vars, client, epoll, main, worker
    <3> QED
      BY <2>5, <2>8, <3>1
  <2> QED
    BY <2>1, <2>2, <2>3, <2>4, <2>6, <2>7, <2>8 DEF Next, MainStep, AcceptStep, WorkerStep
<1> QED
  BY <1>1, <1>2

\* The number of a worker's task is that of its client's submission.
Tasks ==
  /\ \A w \in Workers : job[w] = NoFd => TaskOf(w) = NoTask
  /\ \A w \in Workers : job[w] # NoFd =>
       /\ TaskOf(w) \in 1 .. Started /\ TaskOf(w) \in 1 .. Len(order)
       /\ TaskOf(w) # NoTask /\ order[TaskOf(w)] = fdtab[job[w]]
  /\ \A w, x \in Workers : job[w] # NoFd /\ TaskOf(w) = TaskOf(x) => w = x

LEMMA TaskFacts == IInv /\ Order => Tasks
<1> SUFFICES ASSUME IInv, Order PROVE Tasks
  OBVIOUS
<1>1. \A w \in Workers : job[w] = NoFd => TaskOf(w) = NoTask
  BY DEF TaskOf
<1>2. ASSUME NEW w \in Workers, job[w] # NoFd
      PROVE  /\ TaskOf(w) \in 1 .. Started /\ TaskOf(w) \in 1 .. Len(order)
             /\ TaskOf(w) # NoTask /\ order[TaskOf(w)] = fdtab[job[w]]
  <2>1. /\ Len(order) \in Nat /\ Started \in Nat /\ Started <= Len(order)
        /\ DOMAIN order = 1 .. Len(order)
    BY OrderLengths, LenProperties DEF Order
  <2>2. PICK k \in 1 .. Started : order[k] = fdtab[job[w]]
    BY <1>2 DEF Order
  <2>3. k \in DOMAIN order
    BY <2>1
  <2>4. TaskOf(w) \in DOMAIN order /\ order[TaskOf(w)] = fdtab[job[w]]
    BY <1>2, <2>2, <2>3, Zenon DEF TaskOf, Peer
  <2>5. TaskOf(w) = k
    BY <2>1, <2>2, <2>3, <2>4 DEF Order
  <2> QED
    BY <2>1, <2>2, <2>4, <2>5, NoTaskAssumption DEF NoTaskAssumption
<1>3. ASSUME NEW w \in Workers, NEW x \in Workers, job[w] # NoFd, TaskOf(w) = TaskOf(x)
      PROVE  w = x
  <2>1. job[x] # NoFd
    BY <1>1, <1>2, <1>3
  <2>2. fdtab[job[w]] = fdtab[job[x]]
    BY <1>2, <1>3, <2>1
  <2>3. job[w] \in Fds /\ job[x] \in Fds /\ fdtab[job[w]] # NoClient
    BY <1>3, <2>1 DEF IInv, TypeOK, Known
  <2> QED
    BY <1>3, <2>2, <2>3 DEF IInv, Connected, Apart
<1> QED
  BY <1>1, <1>2, <1>3 DEF Tasks

\* A worker keeps the number of its task while it keeps the descriptor.
LEMMA TaskKept ==
  ASSUME IInv, Order, IInv', Order', NEW w \in Workers, job'[w] = job[w],
         job[w] # NoFd => fdtab'[job[w]] = fdtab[job[w]],
         Len(order) <= Len(order'), \A i \in 1 .. Len(order) : order'[i] = order[i]
  PROVE  TaskOf(w)' = TaskOf(w)
<1>1. CASE job[w] = NoFd
  BY <1>1 DEF TaskOf
<1>2. CASE job[w] # NoFd
  <2>1. TaskOf(w) \in 1 .. Len(order) /\ order[TaskOf(w)] = fdtab[job[w]]
    BY <1>2, TaskFacts DEF Tasks
  <2>2. Tasks'
    BY TaskFacts, PTL
  <2>3. TaskOf(w)' \in 1 .. Len(order') /\ order'[TaskOf(w)'] = fdtab[job[w]]
    BY <1>2, <2>2 DEF Tasks
  <2>4. Len(order') \in Nat /\ TaskOf(w) \in 1 .. Len(order')
    BY <2>1, OrderLengths, LenProperties DEF Order
  <2> QED
    BY <2>1, <2>3, <2>4 DEF Order
<1> QED
  BY <1>1, <1>2

---------------------------------------------------------------------------
(* Each step of the server is one of TaskPool, or leaves it alone *)

Running == [w \in Workers |-> TaskOf(w)]
Ended   == (1 .. Started) \ {TaskOf(w) : w \in Workers}

LEMMA PoolSubmit ==
  ASSUME IInv, Order, IInv', Order', Submit, order' = Append(order, fdtab[current])
  PROVE  Pool!Accept
<1>1. /\ mpc = "submit" /\ mpc' = "batch" /\ Room /\ UNCHANGED <<fdtab, job>>
      /\ Len(queue) \in Nat /\ Len(queue') = Len(queue) + 1
  BY SubmitEffect DEF Submit, worker
<1>2. /\ Len(order') = Len(order) + 1 /\ \A i \in 1 .. Len(order) : order'[i] = order[i]
      /\ Len(order) \in Nat /\ Started = Len(order) - Len(queue)
  <2>1. fdtab[current] \in Clients
    <3>1. current \in Fds /\ current # NoFd
      BY SubmitEffect, Sizes
    <3> QED
      BY <3>1 DEF IInv, TypeOK, Known
  <2>2. order \in Seq(Clients)
    BY DEF Order
  <2> QED
    BY <2>1, <2>2, AppendParts DEF Started
<1>3. Started' = Started /\ Len(order) - Started < QueueSize
  BY <1>1, <1>2 DEF Started, Room
<1>4. \A w \in Workers : TaskOf(w)' = TaskOf(w)
  BY <1>1, <1>2, TaskKept
<1>5. Running' = Running /\ Ended' = Ended
  BY <1>3, <1>4 DEF Running, Ended
<1> QED
  BY <1>1, <1>2, <1>3, <1>5 DEF Pool!Accept, Running, Ended

LEMMA PoolTake ==
  ASSUME IInv, Order, IInv', Order', NEW w \in Workers, Take(w), order' = order
  PROVE  Pool!Start(w)
<1>1. /\ mpc' = mpc /\ fdtab' = fdtab /\ queue[1] \in Fds /\ 1 \in 1 .. Len(queue) /\ job[w] = NoFd
      /\ \A x \in Workers : job'[x] = IF x = w THEN queue[1] ELSE job[x]
  BY TakeEffect DEF Take, main
<1>2. Len(queue) = Len(queue') + 1 /\ Len(queue') \in Nat
  BY TailParts DEF IInv, TypeOK, Take, Dequeued
<1>3. /\ Len(order) \in Nat /\ Started \in Nat /\ Started = Len(order) - Len(queue)
      /\ Started' = Started + 1 /\ Started < Len(order)
  BY <1>2, OrderLengths DEF Started
<1>4. Tasks /\ Tasks'
  BY TaskFacts, PTL
<1>5. \A x \in Workers \ {w} : TaskOf(x)' = TaskOf(x)
  BY <1>1, <1>3, TaskKept
<1>6. TaskOf(w)' = Started + 1
  <2>1. order[Started + 1] = fdtab[queue[1]]
    BY <1>1 DEF Order
  <2>2. job'[w] = queue[1] /\ job'[w] # NoFd
    BY <1>1, Sizes
  <2>3. TaskOf(w)' \in 1 .. Len(order) /\ order[TaskOf(w)'] = fdtab[queue[1]]
    BY <1>1, <1>4, <2>2 DEF Tasks
  <2>4. Started + 1 \in 1 .. Len(order)
    BY <1>3
  <2> QED
    BY <2>1, <2>3, <2>4 DEF Order
<1>7. TaskOf(w) = NoTask
  BY <1>1, <1>4 DEF Tasks
<1>8. Running' = [Running EXCEPT ![w] = Started + 1] /\ Running[w] = NoTask
  BY <1>5, <1>6, <1>7 DEF Running
<1>9. Ended' = Ended
  <2>1. \A t \in 1 .. Started : (\E x \in Workers : t = TaskOf(x)') <=> \E x \in Workers : t = TaskOf(x)
    <3> SUFFICES ASSUME NEW t \in 1 .. Started
                 PROVE  (\E x \in Workers : t = TaskOf(x)') <=> \E x \in Workers : t = TaskOf(x)
      OBVIOUS
    <3>1. t # Started + 1 /\ t # NoTask
      BY <1>3, NoTaskAssumption DEF NoTaskAssumption
    <3> QED
      BY <1>5, <1>6, <1>7, <3>1
  <2>2. \A t : t \in Ended' <=> t \in 1 .. Started + 1 /\ ~\E x \in Workers : t = TaskOf(x)'
    BY <1>3 DEF Ended
  <2>3. \A t : t \in Ended <=> t \in 1 .. Started /\ ~\E x \in Workers : t = TaskOf(x)
    BY DEF Ended
  <2>4. \A t : t \in 1 .. Started + 1 <=> t \in 1 .. Started \/ t = Started + 1
    BY <1>3
  <2>5. Started + 1 \notin 1 .. Started
    BY <1>3
  <2>6. \A t : t \in Ended' <=> t \in Ended
    BY <1>6, <2>1, <2>2, <2>3, <2>4, <2>5
  <2> QED
    BY <2>6 DEF Ended
<1> QED
  BY <1>1, <1>3, <1>8, <1>9 DEF Pool!Start, Running, Ended

LEMMA PoolClose ==
  ASSUME IInv, Order, IInv', Order', NEW w \in Workers, CloseFd(w), order' = order
  PROVE  Pool!Finish(w)
<1>1. /\ mpc' = mpc /\ queue' = queue /\ job[w] \in Fds /\ job[w] # NoFd
      /\ fdtab' = [fdtab EXCEPT ![job[w]] = NoClient]
      /\ \A x \in Workers : job'[x] = IF x = w THEN NoFd ELSE job[x]
  BY CloseEffect, Sizes DEF CloseFd, main
<1>2. Started' = Started /\ Started \in Nat /\ Len(order) \in Nat
  BY <1>1, OrderLengths DEF Started
<1>3. Tasks /\ Tasks'
  BY TaskFacts, PTL
<1>4. ASSUME NEW x \in Workers \ {w} PROVE TaskOf(x)' = TaskOf(x)
  <2>1. job'[x] = job[x] /\ (job[x] # NoFd => job[x] \in Fds /\ job[x] # job[w])
    BY <1>1, <1>4 DEF IInv, TypeOK, Apart
  <2>2. job[x] # NoFd => fdtab'[job[x]] = fdtab[job[x]]
    BY <1>1, <2>1 DEF IInv, TypeOK
  <2> QED
    BY <1>2, <2>1, <2>2, TaskKept
<1>5. TaskOf(w)' = NoTask
  BY <1>1, <1>3 DEF Tasks
<1>6. /\ TaskOf(w) \in 1 .. Started /\ TaskOf(w) # NoTask
      /\ \A x \in Workers \ {w} : TaskOf(x) # TaskOf(w)
  BY <1>1, <1>3 DEF Tasks
<1>7. Running' = [Running EXCEPT ![w] = NoTask] /\ Running[w] # NoTask /\ Running[w] = TaskOf(w)
  BY <1>4, <1>5, <1>6 DEF Running
<1>8. Ended' = Ended \cup {TaskOf(w)}
  <2>1. \A t : t \in Ended' <=> t \in 1 .. Started /\ ~\E x \in Workers : t = TaskOf(x)'
    BY <1>2 DEF Ended
  <2>2. \A t : t \in Ended <=> t \in 1 .. Started /\ ~\E x \in Workers : t = TaskOf(x)
    BY DEF Ended
  <2>3. \A t \in 1 .. Started : t # NoTask
    BY <1>2, NoTaskAssumption DEF NoTaskAssumption
  <2>4. \A t : t \in Ended' <=> t \in Ended \cup {TaskOf(w)}
    BY <1>4, <1>5, <1>6, <2>1, <2>2, <2>3
  <2> QED
    BY <2>4 DEF Ended
<1> QED
  BY <1>1, <1>2, <1>7, <1>8 DEF Pool!Finish, Running, Ended

LEMMA PoolQuiet ==
  ASSUME IInv, Order, IInv', Order', UNCHANGED <<order, queue, job>>,
         \A w \in Workers : job[w] # NoFd => fdtab'[job[w]] = fdtab[job[w]]
  PROVE  UNCHANGED <<Started, Running, Ended>>
<1>1. Started' = Started
  BY DEF Started
<1>2. \A w \in Workers : TaskOf(w)' = TaskOf(w)
  BY OrderLengths, TaskKept
<1> QED
  BY <1>1, <1>2 DEF Running, Ended

LEMMA PoolStep ==
  ASSUME IInv, Order, IInv', Order', NumberedNext
  PROVE  Pool!Next \/ UNCHANGED Pool!vars
<1>1. /\ Next
      /\ \/ Submit /\ order' = Append(order, fdtab[current])
         \/ ~Submit /\ order' = order
  BY OrderEffect
<1>2. CASE Submit
  <2>1. order' = Append(order, fdtab[current])
    BY <1>1, <1>2
  <2> QED
    BY <1>2, <2>1, PoolSubmit DEF Pool!Next
<1>3. ASSUME order' = order, NEW w \in Workers, Take(w) PROVE Pool!Next
  BY <1>3, PoolTake DEF Pool!Next
<1>4. ASSUME order' = order, NEW w \in Workers, CloseFd(w) PROVE Pool!Next
  BY <1>4, PoolClose DEF Pool!Next
<1>5. CASE order' = order /\ WaitFails
  <2>1. UNCHANGED <<order, queue, job, fdtab>> /\ mpc = "wait" /\ mpc' = "drain"
    BY <1>5 DEF WaitFails, worker
  <2>2. UNCHANGED <<Started, Running, Ended>>
    BY <2>1, PoolQuiet
  <2> QED
    BY <2>1, <2>2 DEF Pool!Next, Pool!Close, Running, Ended
<1>6. CASE order' = order /\ Accept
  <2>1. /\ UNCHANGED <<order, queue, job>> /\ mpc = "accept" /\ mpc' = "accept"
        /\ \A w \in Workers : job[w] # NoFd => fdtab'[job[w]] = fdtab[job[w]]
    <3>1. UNCHANGED <<order, queue, job>> /\ mpc = "accept" /\ mpc' = "accept"
      BY <1>6 DEF Accept, AfterAccept, worker
    <3>2. /\ fdtab' = [fdtab EXCEPT ![Lowest(FreeFds)] = Head(backlog)]
          /\ ~Serving(job, Lowest(FreeFds))
      BY <1>6, AcceptEffect
    <3>3. /\ \A w \in Workers : job[w] # NoFd => job[w] \in Fds
          /\ fdtab \in [Fds -> Clients \cup {NoClient}]
      BY DEF IInv, TypeOK
    <3> QED
      BY <3>1, <3>2, <3>3 DEF Serving
  <2>2. UNCHANGED <<Started, Running, Ended>>
    BY <2>1, PoolQuiet
  <2> QED
    BY <2>1, <2>2 DEF Pool!vars, Running, Ended
<1>7. CASE order' = order /\ Exit
  <2>1. /\ UNCHANGED <<order, queue, job>> /\ mpc = "drain" /\ mpc' = "end"
        /\ \A w \in Workers : job[w] = NoFd
    BY <1>7 DEF Exit, worker, IInv, Places
  <2>2. UNCHANGED <<Started, Running, Ended>>
    BY <2>1, PoolQuiet
  <2> QED
    BY <2>1, <2>2 DEF Pool!vars, Running, Ended
<1>8. CASE /\ UNCHANGED <<order, queue, job, fdtab>>
           /\ mpc' \in {"drain", "end"} <=> mpc \in {"drain", "end"}
  <2>1. UNCHANGED <<Started, Running, Ended>>
    BY <1>8, PoolQuiet
  <2> QED
    BY <1>8, <2>1 DEF Pool!vars, Running, Ended
<1>9. CASE /\ order' = order
           /\ \/ NextEventAccept \/ NextEventClient \/ EpollWait \/ BatchDone
              \/ AcceptAgain \/ AcceptFails \/ AcceptDropped \/ AcceptAborted \/ Finished
              \/ \E w \in Workers : Recv(w) \/ RecvAgain(w) \/ RecvEnds(w) \/ Respond(w) \/ SendRest(w)
              \/ \E c \in Clients : Connect(c) \/ SendSegment(c) \/ Finish(c)
  <2>1. /\ UNCHANGED <<order, queue, job, fdtab>>
        /\ mpc' \in {"drain", "end"} <=> mpc \in {"drain", "end"}
    BY <1>9 DEF NextEventAccept, NextEventClient, EpollWait, BatchDone, AcceptAgain, AcceptFails, AcceptAborted,
                AcceptDropped, Finished, Recv, RecvAgain, RecvEnds, Respond, SendRest, Connect, SendSegment,
                Finish, vars, client, epoll, main, worker
  <2> QED
    BY <1>8, <2>1
<1> QED
  BY <1>1, <1>2, <1>3, <1>4, <1>5, <1>6, <1>7, <1>9 DEF Next, MainStep, AcceptStep, WorkerStep

\* The hand-over is a behaviour of the abstract pool (its safety part): the
\* server submits only while the pool is open and has room, workers take the
\* descriptors in that order and each is done with once, and after the loop nothing
\* is submitted.  With ImplementsSafely of ThreadPool the two can be put together.
THEOREM UsesPoolSafely == NumberedSpec => Pool!SafeSpec
<1>1. NumberedInit => Pool!Init
  <2> SUFFICES ASSUME NumberedInit PROVE Pool!Init
    OBVIOUS
  <2>1. /\ mpc = "wait" /\ Len(order) = 0 /\ Len(queue) = 0 /\ \A w \in Workers : job[w] = NoFd
    BY DEF NumberedInit, Init
  <2>2. Started = 0 /\ \A w \in Workers : TaskOf(w) = NoTask
    BY <2>1 DEF Started, TaskOf
  <2>3. (1 .. Started) \ {TaskOf(w) : w \in Workers} = {}
    BY <2>2
  <2> QED
    BY <2>1, <2>2, <2>3 DEF Pool!Init
<1>2. NumberedSpec => Spec
  <2>1. NumberedInit => Init
    BY DEF NumberedInit
  <2>2. [NumberedNext]_<<vars, order>> => [Next]_vars
    BY DEF NumberedNext
  <2> QED
    BY <2>1, <2>2, PTL DEF NumberedSpec, Spec
<1>3. NumberedSpec => []Order
  BY <1>2, OrderInit, OrderStep, Invariance, PTL DEF NumberedSpec
<1>4. IInv /\ Order /\ IInv' /\ Order' /\ [NumberedNext]_<<vars, order>> => [Pool!Next]_(Pool!vars)
  <2> SUFFICES ASSUME IInv, Order, IInv', Order', [NumberedNext]_<<vars, order>>
               PROVE  Pool!Next \/ UNCHANGED Pool!vars
    OBVIOUS
  <2>1. CASE UNCHANGED <<vars, order>>
    <3>1. UNCHANGED <<order, queue, job, fdtab, mpc>>
      BY <2>1 DEF vars, main, worker
    <3>2. UNCHANGED <<Started, Running, Ended>>
      BY <3>1, PoolQuiet
    <3> QED
      BY <3>1, <3>2 DEF Pool!vars, Running, Ended
  <2>2. CASE NumberedNext
    BY <2>2, PoolStep
  <2> QED
    BY <2>1, <2>2
<1> QED
  BY <1>1, <1>2, <1>3, <1>4, Invariance, PTL DEF NumberedSpec, Pool!SafeSpec

=============================================================================
