---------------------------- MODULE EpollServer ----------------------------
(***************************************************************************)
(* The two servers of epoll_concurrent_server, both edge-triggered and of  *)
(* one thread.  Version 1 (server.c) has blocking sockets, takes one       *)
(* connection per event of the listening socket and receives once per      *)
(* event of a client.  Version 2 (server_v2.c) has non-blocking sockets,   *)
(* loops until EAGAIN in both places and answers what it receives.  No     *)
(* descriptor number is in two events of a batch and nobody else closes    *)
(* one, so a client stands for its descriptor.                             *)
(***************************************************************************)
EXTENDS Integers, Sequences, FiniteSets, SequencesExt

CONSTANTS
  Clients,
  Versions,        \* the programs: 1 is server.c, 2 is server_v2.c
  Chunk,           \* units one recv takes (sizeof cmd, BUFFER_SIZE - 1)
  MaxEvents,       \* MAX_CLIENTS of server_v2.c
  MaxSends,        \* bound: units a client sends
  Faults,          \* what may go wrong: reset, wait, accept, register
  Listen           \* listen_fd

ASSUME ConstantsAssumption ==
  /\ Versions \subseteq {1, 2} /\ Versions # {}
  /\ {Chunk, MaxEvents} \subseteq Nat \ {0} /\ MaxSends \in Nat
  /\ Faults \subseteq {"reset", "wait", "accept", "register"}
  /\ IsFiniteSet(Clients) /\ Listen \notin Clients

VARIABLES
  version,
  conn,            \* connection: none, backlog, open, closed
  ending,          \* what the client's end did: no, fin, reset; a reset that
                   \* a send has reported is broken
  sent, unread,    \* units sent; units not received
  backlog,
  edges,           \* who has an event that epoll_wait has not reported
  pc, batch,       \* server: wait, batch, accept, recv, answer, end; events left
  curfds,          \* version 1: the maxevents of epoll_wait
  acceptFailed     \* history: accept has returned an error other than EAGAIN

server == <<pc, batch, curfds, acceptFailed>>
vars   == <<version, conn, ending, sent, unread, backlog, edges, server>>

\* Before its loop a server has registered the listening socket and nothing else.
Listening ==
  /\ edges = {} /\ curfds = 1
  /\ pc = "wait" /\ batch = <<>> /\ acceptFailed = FALSE

Init ==
  /\ version \in Versions
  /\ conn = [c \in Clients |-> "none"] /\ ending = [c \in Clients |-> "no"]
  /\ sent = [c \in Clients |-> 0] /\ unread = [c \in Clients |-> 0]
  /\ backlog = <<>>
  /\ Listening

---------------------------------------------------------------------------
(* The clients and the kernel *)

Connect(c) ==
  /\ conn[c] = "none" /\ pc # "end"
  /\ conn' = [conn EXCEPT ![c] = "backlog"]
  /\ backlog' = Append(backlog, c)
  /\ edges' = edges \cup {Listen}
  /\ UNCHANGED <<version, ending, sent, unread, server>>

\* What arrives is an event once the socket is registered.
Arrives(c) == edges' = IF conn[c] = "open" THEN edges \cup {c} ELSE edges

Send(c) ==
  /\ conn[c] \in {"backlog", "open"} /\ ending[c] = "no" /\ sent[c] < MaxSends
  /\ sent' = [sent EXCEPT ![c] = @ + 1]
  /\ unread' = [unread EXCEPT ![c] = @ + 1]
  /\ Arrives(c)
  /\ UNCHANGED <<version, conn, ending, backlog, server>>

Leave(c) ==
  /\ conn[c] \in {"backlog", "open"} /\ ending[c] = "no"
  /\ \E e \in {"fin"} \cup (Faults \cap {"reset"}) :
       ending' = [ending EXCEPT ![c] = e]
  /\ Arrives(c)
  /\ UNCHANGED <<version, conn, sent, unread, backlog, server>>

HasData(c) == unread[c] > 0 \/ ending[c] # "no"

Readable(f) == IF f = Listen THEN backlog # <<>> ELSE HasData(f)

MaxReported == IF version = 1 THEN curfds ELSE MaxEvents

EpollWait ==       \* at most MaxReported of the events that still hold
  /\ pc = "wait" /\ \E f \in edges : Readable(f)
  /\ LET ready == {f \in edges : Readable(f)}
         n     == Cardinality(ready)
     IN  \E reported \in SUBSET ready :
           /\ Cardinality(reported) = IF n < MaxReported THEN n ELSE MaxReported
           /\ batch' \in SetToSeqs(reported)
           /\ edges' = ready \ reported
  /\ pc' = "batch"
  /\ UNCHANGED <<version, conn, ending, sent, unread, backlog, curfds, acceptFailed>>

Stops ==           \* the process ends and the kernel closes what is open
  /\ pc' = "end" /\ batch' = <<>>
  /\ conn' = [c \in Clients |-> IF conn[c] = "none" THEN "none" ELSE "closed"]
  /\ backlog' = <<>> /\ edges' = {}
  /\ UNCHANGED <<version, ending, sent, unread, curfds, acceptFailed>>

WaitFails == pc = "wait" /\ "wait" \in Faults /\ Stops

---------------------------------------------------------------------------
(* The loop over the events *)

NextEvent ==
  /\ pc = "batch" /\ batch # <<>>
  /\ pc' = IF Head(batch) = Listen THEN "accept" ELSE "recv"
  /\ UNCHANGED <<version, conn, ending, sent, unread, backlog, edges, batch,
                 curfds, acceptFailed>>

BatchDone ==
  /\ pc = "batch" /\ batch = <<>>
  /\ pc' = "wait"
  /\ UNCHANGED <<version, conn, ending, sent, unread, backlog, edges, batch,
                 curfds, acceptFailed>>

EventHandled == pc' = "batch" /\ batch' = Tail(batch)

\* What follows an accept: the next event, or another accept.
AcceptsOnce == EventHandled

AcceptsOn == UNCHANGED <<pc, batch>>

AfterAccept == IF version = 1 THEN AcceptsOnce ELSE AcceptsOn

Accept ==          \* in version 1 this blocks when nobody is pending
  /\ pc = "accept" /\ backlog # <<>>
  /\ conn' = [conn EXCEPT ![Head(backlog)] = "open"]
  /\ edges' = IF HasData(Head(backlog)) THEN edges \cup {Head(backlog)} ELSE edges
  /\ backlog' = Tail(backlog)
  /\ curfds' = IF version = 1 THEN curfds + 1 ELSE curfds
  /\ AfterAccept
  /\ UNCHANGED <<version, ending, sent, unread, acceptFailed>>

AcceptDone ==      \* EAGAIN
  /\ version = 2 /\ pc = "accept" /\ backlog = <<>>
  /\ EventHandled
  /\ UNCHANGED <<version, conn, ending, sent, unread, backlog, edges, curfds,
                 acceptFailed>>

StopsAccepting ==  \* version 1: accept or the registration failed
  /\ version = 1 /\ pc = "accept" /\ {"accept", "register"} \cap Faults # {}
  /\ Stops

AcceptFails ==     \* version 2: EMFILE, with the connections still pending
  /\ version = 2 /\ pc = "accept" /\ "accept" \in Faults
  /\ EventHandled
  /\ acceptFailed' = TRUE
  /\ UNCHANGED <<version, conn, ending, sent, unread, backlog, edges, curfds>>

RegisterFails ==   \* version 2: the client is closed and accepting goes on
  /\ version = 2 /\ pc = "accept" /\ backlog # <<>> /\ "register" \in Faults
  /\ conn' = [conn EXCEPT ![Head(backlog)] = "closed"]
  /\ backlog' = Tail(backlog)
  /\ UNCHANGED <<version, ending, sent, unread, edges, server>>

---------------------------------------------------------------------------
(* A client's event *)

From == Head(batch)

\* What one recv leaves of n units.
LeftUnchecked(n) == n - Chunk

Left(n) == IF n > Chunk THEN n - Chunk ELSE 0

AfterRecv == IF version = 1 THEN EventHandled ELSE pc' = "answer" /\ UNCHANGED batch

RecvData ==
  /\ pc = "recv" /\ unread[From] > 0
  /\ unread' = [unread EXCEPT ![From] = Left(@)]
  /\ AfterRecv
  /\ UNCHANGED <<version, conn, ending, sent, backlog, edges, curfds, acceptFailed>>

\* What follows an answer: another recv.
RecvsOnce == EventHandled

RecvsOn == pc' = "recv" /\ UNCHANGED batch

\* send on a connection: a peer that closed may answer with a reset, the first
\* send after a reset reports it, and the next one is SIGPIPE.
AfterSend(e) ==
  IF e = "no" THEN {"no"}
  ELSE IF e = "fin" THEN {"fin"} \cup (Faults \cap {"reset"})
  ELSE IF e = "reset" THEN {"broken"} ELSE {}

Answer ==
  /\ pc = "answer"
  /\ \E e \in AfterSend(ending[From]) :
       /\ ending' = [ending EXCEPT ![From] = e]
       /\ edges' = IF e # ending[From] /\ e = "reset" THEN edges \cup {From} ELSE edges
  /\ RecvsOn
  /\ UNCHANGED <<version, conn, sent, unread, backlog, curfds, acceptFailed>>

Sigpipe == pc = "answer" /\ ending[From] = "broken" /\ Stops

RecvDone ==        \* EAGAIN
  /\ version = 2 /\ pc = "recv" /\ ~HasData(From)
  /\ EventHandled
  /\ UNCHANGED <<version, conn, ending, sent, unread, backlog, edges, curfds,
                 acceptFailed>>

CountDown == IF version = 1 THEN curfds - 1 ELSE curfds

CloseClient ==
  /\ conn' = [conn EXCEPT ![From] = "closed"]
  /\ edges' = edges \ {From}
  /\ EventHandled
  /\ UNCHANGED <<version, ending, sent, unread, backlog, acceptFailed>>

RecvEof ==
  /\ pc = "recv" /\ unread[From] = 0 /\ ending[From] \in {"fin", "broken"}
  /\ CloseClient
  /\ curfds' = CountDown

RecvFails ==       \* version 1 returns, version 2 closes the client
  /\ pc = "recv" /\ unread[From] = 0 /\ ending[From] = "reset"
  /\ \/ version = 1 /\ Stops
     \/ version = 2 /\ CloseClient /\ UNCHANGED curfds

---------------------------------------------------------------------------
ServerStep ==
  \/ EpollWait \/ NextEvent \/ BatchDone
  \/ Accept \/ AcceptDone
  \/ RecvData \/ Answer \/ Sigpipe \/ RecvDone \/ RecvEof \/ RecvFails

Fault == WaitFails \/ StopsAccepting \/ AcceptFails \/ RegisterFails

Next ==
  \/ ServerStep \/ Fault
  \/ \E c \in Clients : Connect(c) \/ Send(c) \/ Leave(c)

Spec == Init /\ [][Next]_vars

\* The server runs; clients owe nothing.
FairSpec == Spec /\ WF_vars(ServerStep)

---------------------------------------------------------------------------
(* Properties *)

\* The type invariant; unread never below zero and curfds between 1 and the
\* number of clients and the listening socket.
TypeOK ==
  /\ version \in Versions
  /\ conn \in [Clients -> {"none", "backlog", "open", "closed"}]
  /\ ending \in [Clients -> {"no", "fin", "reset", "broken"}]
  /\ sent \in [Clients -> 0 .. MaxSends] /\ unread \in [Clients -> 0 .. MaxSends]
  /\ backlog \in Seq(Clients) /\ edges \subseteq Clients \cup {Listen}
  /\ pc \in {"wait", "batch", "accept", "recv", "answer", "end"}
  /\ batch \in Seq(Clients \cup {Listen})
  /\ curfds \in 1 .. Cardinality(Clients) + 1 /\ acceptFailed \in BOOLEAN

\* curfds of server.c is epoll_wait's maxevents and must not be 0 or exceed the
\* array: it counts the listening socket and the clients that are open.
CountMatches ==
  version = 1 /\ pc # "end" =>
    curfds = 1 + Cardinality({c \in Clients : conn[c] = "open"})

\* server.c calls accept and recv on blocking sockets only when they return at
\* once, so that no client holds up the others; server_v2.c never goes back to
\* epoll_wait with something to accept or to receive that no event will report
\* (unless accept itself has failed).
EdgesSuffice ==
  /\ version = 1 =>
       /\ pc = "accept" => backlog # <<>>
       /\ pc = "recv" => HasData(From)
  /\ version = 2 /\ pc = "wait" =>
       /\ backlog # <<>> => Listen \in edges \/ acceptFailed
       /\ \A c \in Clients : conn[c] = "open" /\ HasData(c) => c \in edges

\* Neither server blocks on one client or forgets one, and server.c counts them.
NeverBlocksNorForgets == CountMatches /\ EdgesSuffice

\* server_v2.c closes every connection whose client has left.
EveryLeaverClosed ==
  \A c \in Clients :
    version = 2 /\ conn[c] = "open" /\ ending[c] # "no" ~> conn[c] = "closed"

===========================================================================
