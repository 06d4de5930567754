---------------------------- MODULE HttpServer ----------------------------
(***************************************************************************)
(* The connections of http_server/server.c: the main thread's epoll loop   *)
(* (edge-triggered listening socket, one-shot client descriptors), the     *)
(* hand-over of ready descriptors to the pool and process_client_connection *)
(* in the workers.  ThreadPool shows that the pool is a bounded FIFO whose *)
(* tasks are each run once, so here it is a sequence of descriptors.       *)
(*                                                                         *)
(* A descriptor number is free again as soon as it is closed and accept    *)
(* returns the lowest free number, so a number kept anywhere after its     *)
(* close would denote another client.                                      *)
(***************************************************************************)
EXTENDS Integers, Sequences, FiniteSets, SequencesExt

CONSTANTS
  Clients,         \* each connects at most once
  Long,            \* clients whose request head does not fit BUFFER_SIZE
  NFds,            \* descriptors the process may have open for clients
  NWorkers,        \* THREAD_POOL_SIZE
  QueueSize,       \* TASK_QUEUE_SIZE
  MaxEvents,       \* MAX_CLIENTS, the size of the events array
  Segments,        \* bound: TCP segments a request head arrives in
  RegisterMayFail, \* may fcntl or epoll_ctl fail for an accepted socket?
  WaitMayFail,     \* may epoll_wait fail (a signal: EINTR)?
  AcceptMayFail,   \* may accept fail though a descriptor is free (ENFILE, EINTR)?
  NoClient

ASSUME ConstantsAssumption ==
  /\ Long \subseteq Clients /\ NoClient \notin Clients
  /\ {NFds, NWorkers, QueueSize, MaxEvents, Segments} \subseteq Nat \ {0}
  /\ {RegisterMayFail, WaitMayFail, AcceptMayFail} \subseteq BOOLEAN

Fds     == 1 .. NFds
Workers == 1 .. NWorkers
Listen  == 0              \* server_fd
NoFd    == -1

VARIABLES
  cstate,                 \* client's connection: idle, backlog, open, closed
  sent,                   \* segments each client has sent
  unread,                 \* segments in the socket's receive buffer
  fin,                    \* has the client closed its side?
  reply,                  \* what the client was sent: none, answer or 400
  backlog, listenEdge,    \* accept queue; an edge epoll has not reported
  fdtab,                  \* the client each descriptor denotes, or NoClient
  interest, armed,        \* registered with epoll; not yet reported (one-shot)
  mpc, batch, current,    \* main thread: place, events left, fd to submit
  cutShort,               \* history: did accept's last round end with an error?
  queue,                  \* the pool's pending descriptors
  wpc, job, got           \* worker: place, client_fd, segments received

client == <<cstate, sent, unread, fin, reply>>
epoll  == <<listenEdge, interest, armed>>
main   == <<mpc, batch, current, cutShort>>
worker == <<wpc, job, got>>
vars   == <<client, backlog, fdtab, epoll, main, queue, worker>>

Init ==
  /\ cstate = [c \in Clients |-> "idle"]
  /\ sent = [c \in Clients |-> 0] /\ unread = [c \in Clients |-> 0]
  /\ fin = [c \in Clients |-> FALSE]
  /\ reply = [c \in Clients |-> "none"]
  /\ backlog = <<>> /\ listenEdge = FALSE
  /\ fdtab = [f \in Fds |-> NoClient]
  /\ interest = {} /\ armed = {}
  /\ mpc = "wait" /\ batch = <<>> /\ current = NoFd /\ cutShort = FALSE
  /\ queue = <<>>
  /\ wpc = [w \in Workers |-> "take"]
  /\ job = [w \in Workers |-> NoFd]
  /\ got = [w \in Workers |-> 0]

Up == mpc \notin {"drain", "end"}      \* the listening socket is open

---------------------------------------------------------------------------
(* The clients and the network *)

Connect(c) ==        \* the handshake ends: the listening socket has an edge
  /\ cstate[c] = "idle" /\ Up
  /\ cstate' = [cstate EXCEPT ![c] = "backlog"]
  /\ backlog' = Append(backlog, c)
  /\ listenEdge' = TRUE
  /\ UNCHANGED <<sent, unread, fin, reply, fdtab, interest, armed, main, queue, worker>>

SendSegment(c) ==
  /\ cstate[c] \in {"backlog", "open"} /\ ~fin[c] /\ sent[c] < Segments
  /\ sent' = [sent EXCEPT ![c] = @ + 1]
  /\ unread' = [unread EXCEPT ![c] = @ + 1]
  /\ UNCHANGED <<cstate, fin, reply, backlog, fdtab, epoll, main, queue, worker>>

Finish(c) ==         \* the client shuts its side down, perhaps mid-request
  /\ cstate[c] \in {"backlog", "open"} /\ ~fin[c]
  /\ fin' = [fin EXCEPT ![c] = TRUE]
  /\ UNCHANGED <<cstate, sent, unread, reply, backlog, fdtab, epoll, main, queue, worker>>

Readable(f) == fdtab[f] # NoClient /\ (unread[fdtab[f]] > 0 \/ fin[fdtab[f]])

---------------------------------------------------------------------------
(* The main thread's event loop *)

Ready == {f \in armed : Readable(f)}
         \cup (IF listenEdge /\ backlog # <<>> THEN {Listen} ELSE {})

\* The one-shot registration: a reported descriptor is not reported again.
Disarm(reported) == armed \ reported

EpollWait ==         \* as many of the ready descriptors as the array holds;
                     \* an edge whose cause is gone is dropped
  /\ mpc = "wait" /\ Ready # {}
  /\ \E reported \in SUBSET Ready :
       /\ Cardinality(reported) = IF Cardinality(Ready) < MaxEvents
                                  THEN Cardinality(Ready) ELSE MaxEvents
       /\ batch' \in SetToSeqs(reported)
       /\ armed' = Disarm(reported)
       /\ listenEdge' = (listenEdge /\ backlog # <<>> /\ Listen \notin reported)
  /\ mpc' = "batch"
  /\ UNCHANGED <<client, backlog, fdtab, interest, current, cutShort, queue, worker>>

NextEventAccept ==
  /\ mpc = "batch" /\ batch # <<>> /\ Head(batch) = Listen
  /\ batch' = Tail(batch) /\ mpc' = "accept" /\ cutShort' = FALSE
  /\ UNCHANGED <<client, backlog, fdtab, epoll, current, queue, worker>>

StaysRegistered(f) == interest

RemoveFd(f) == interest \ {f}          \* removefd

NextEventClient ==   \* removefd, then thread_pool_submit is called
  /\ mpc = "batch" /\ batch # <<>> /\ Head(batch) # Listen
  /\ current' = Head(batch)
  /\ interest' = RemoveFd(Head(batch))
  /\ armed' = armed \cap interest'
  /\ batch' = Tail(batch) /\ mpc' = "submit"
  /\ UNCHANGED <<client, backlog, fdtab, listenEdge, cutShort, queue, worker>>

OneTooMany == Len(queue) <= QueueSize

Room == Len(queue) < QueueSize

Submit ==            \* blocks while the ring is full
  /\ mpc = "submit" /\ Room
  /\ queue' = Append(queue, current)
  /\ current' = NoFd /\ mpc' = "batch"
  /\ UNCHANGED <<client, backlog, fdtab, epoll, batch, cutShort, worker>>

BatchDone ==
  /\ mpc = "batch" /\ batch = <<>>
  /\ mpc' = "wait"
  /\ UNCHANGED <<client, backlog, fdtab, epoll, batch, current, cutShort, queue, worker>>

FreeFds == {f \in Fds : fdtab[f] = NoClient}
Lowest(fs) == CHOOSE f \in fs : \A g \in fs : f <= g

\* The loop goes on until accept fails.
AcceptOnce == "batch"

AfterAccept == "accept"

Accept ==            \* accept, O_NONBLOCK, EPOLL_CTL_ADD, and round again
  /\ mpc = "accept" /\ backlog # <<>> /\ FreeFds # {}
  /\ LET c == Head(backlog)
         f == Lowest(FreeFds)
     IN  /\ cstate' = [cstate EXCEPT ![c] = "open"]
         /\ fdtab' = [fdtab EXCEPT ![f] = c]
         /\ interest' = interest \cup {f} /\ armed' = armed \cup {f}
  /\ backlog' = Tail(backlog)
  /\ mpc' = AfterAccept
  /\ UNCHANGED <<sent, unread, fin, reply, listenEdge, batch, current, cutShort, queue, worker>>

AcceptDropped ==     \* fcntl or epoll_ctl fails: close, and round again
  /\ mpc = "accept" /\ backlog # <<>> /\ FreeFds # {} /\ RegisterMayFail
  /\ cstate' = [cstate EXCEPT ![Head(backlog)] = "closed"]
  /\ backlog' = Tail(backlog)
  /\ UNCHANGED <<sent, unread, fin, reply, fdtab, epoll, main, queue, worker>>

AcceptAgain ==       \* EAGAIN: no more pending connections in this round
  /\ mpc = "accept" /\ backlog = <<>> /\ FreeFds # {}
  /\ mpc' = "batch"
  /\ UNCHANGED <<client, backlog, fdtab, epoll, batch, current, cutShort, queue, worker>>

AcceptFails ==       \* EMFILE, found before the backlog is looked at, or any
                     \* other error: the loop is left as it is for EAGAIN
  /\ mpc = "accept" /\ (FreeFds = {} \/ AcceptMayFail)
  /\ mpc' = "batch" /\ cutShort' = TRUE
  /\ UNCHANGED <<client, backlog, fdtab, epoll, batch, current, queue, worker>>

AcceptAborted ==     \* ECONNABORTED: the error takes the connection with it
  /\ mpc = "accept" /\ backlog # <<>> /\ FreeFds # {} /\ AcceptMayFail
  /\ cstate' = [cstate EXCEPT ![Head(backlog)] = "closed"]
  /\ backlog' = Tail(backlog)
  /\ mpc' = "batch" /\ cutShort' = TRUE
  /\ UNCHANGED <<sent, unread, fin, reply, fdtab, epoll, batch, current, queue, worker>>

WaitFails ==         \* the loop ends: server_fd and epoll_fd are closed
  /\ mpc = "wait" /\ WaitMayFail
  /\ mpc' = "drain"
  /\ cstate' = [c \in Clients |-> IF cstate[c] = "backlog" THEN "closed" ELSE cstate[c]]
  /\ backlog' = <<>> /\ listenEdge' = FALSE
  /\ interest' = {} /\ armed' = {}
  /\ UNCHANGED <<sent, unread, fin, reply, fdtab, batch, current, cutShort, queue, worker>>

Exit ==              \* the pool is destroyed; the kernel closes what is open
  /\ mpc = "drain" /\ queue = <<>> /\ \A w \in Workers : wpc[w] = "take"
  /\ mpc' = "end"
  /\ cstate' = [c \in Clients |-> IF cstate[c] = "open" THEN "closed" ELSE cstate[c]]
  /\ fdtab' = [f \in Fds |-> NoClient]
  /\ UNCHANGED <<sent, unread, fin, reply, backlog, epoll, batch, current, cutShort, queue, worker>>

---------------------------------------------------------------------------
(* worker_routine and process_client_connection *)

StillQueued == queue

Dequeued == Tail(queue)

Take(w) ==
  /\ wpc[w] = "take" /\ queue # <<>>
  /\ job' = [job EXCEPT ![w] = Head(queue)]
  /\ queue' = Dequeued
  /\ wpc' = [wpc EXCEPT ![w] = "recv"]
  /\ got' = [got EXCEPT ![w] = 0]
  /\ UNCHANGED <<client, backlog, fdtab, epoll, main>>

\* The client behind the worker's descriptor; NoClient (EBADF) were it stale.
Peer(w) == fdtab[job[w]]
Arrived(w) == Peer(w) # NoClient /\ unread[Peer(w)] > 0

Recv(w) ==           \* the loop ends at the blank line or at a full buffer
  /\ wpc[w] = "recv" /\ Arrived(w)
  /\ got' = [got EXCEPT ![w] = @ + unread[Peer(w)]]
  /\ unread' = [unread EXCEPT ![Peer(w)] = 0]
  /\ wpc' = [wpc EXCEPT ![w] = IF got'[w] = Segments THEN "respond" ELSE "recv"]
  /\ UNCHANGED <<cstate, sent, fin, reply, backlog, fdtab, epoll, main, queue, job>>

RecvAgain(w) ==      \* EAGAIN: what has arrived is all there will be
  /\ wpc[w] = "recv" /\ ~Arrived(w) /\ Peer(w) # NoClient /\ ~fin[Peer(w)]
  /\ wpc' = [wpc EXCEPT ![w] = "respond"]
  /\ UNCHANGED <<client, backlog, fdtab, epoll, main, queue, job, got>>

RecvEnds(w) ==       \* 0 bytes or a hard error: close without a word
  /\ wpc[w] = "recv" /\ ~Arrived(w) /\ (Peer(w) # NoClient => fin[Peer(w)])
  /\ wpc' = [wpc EXCEPT ![w] = "close"]
  /\ UNCHANGED <<client, backlog, fdtab, epoll, main, queue, job, got>>

WholeHead(w) == got[w] = Segments /\ Peer(w) \notin Long

ReadsOn == "recv"

AfterResponse == "close"

Respond(w) ==        \* handle_request, or 400 for an incomplete head; what does
                     \* not fit the socket's buffer is left to send_all's loop
  /\ wpc[w] = "respond"
  /\ reply' = [c \in Clients |->
                 IF c # Peer(w) THEN reply[c]
                 ELSE IF WholeHead(w) THEN "answer" ELSE "400"]
  /\ \E next \in {AfterResponse, "send"} : wpc' = [wpc EXCEPT ![w] = next]
  /\ UNCHANGED <<cstate, sent, unread, fin, backlog, fdtab, epoll, main, queue, job, got>>

SendRest(w) ==       \* send_all ends: the client has read, or is gone
  /\ wpc[w] = "send"
  /\ wpc' = [wpc EXCEPT ![w] = AfterResponse]
  /\ UNCHANGED <<client, backlog, fdtab, epoll, main, queue, job, got>>

CloseFd(w) ==        \* close_client_fd
  /\ wpc[w] = "close"
  /\ cstate' = [c \in Clients |-> IF c = Peer(w) THEN "closed" ELSE cstate[c]]
  /\ fdtab' = [fdtab EXCEPT ![job[w]] = NoClient]
  /\ interest' = interest \ {job[w]} /\ armed' = armed \ {job[w]}
  /\ wpc' = [wpc EXCEPT ![w] = "take"]
  /\ job' = [job EXCEPT ![w] = NoFd]
  /\ UNCHANGED <<sent, unread, fin, reply, backlog, listenEdge, main, queue, got>>

Finished == mpc = "end" /\ UNCHANGED vars

---------------------------------------------------------------------------
AcceptStep == Accept \/ AcceptDropped \/ AcceptAgain \/ AcceptFails \/ AcceptAborted
MainStep   == EpollWait \/ NextEventAccept \/ NextEventClient \/ Submit
              \/ BatchDone \/ AcceptStep \/ Exit
WorkerStep(w) == Take(w) \/ Recv(w) \/ RecvAgain(w) \/ RecvEnds(w)
                 \/ Respond(w) \/ CloseFd(w)

Next ==
  \/ MainStep \/ WaitFails
  \/ \E w \in Workers : WorkerStep(w) \/ SendRest(w)
  \/ \E c \in Clients : Connect(c) \/ SendSegment(c) \/ Finish(c)
  \/ Finished

\* The threads run; the clients and the failures owe nothing.  send_all retries
\* EAGAIN for as long as the client neither reads nor leaves, so SendRest is the
\* client's to make possible and is not fair.
Fairness == WF_vars(MainStep) /\ \A w \in Workers : WF_vars(WorkerStep(w))

Spec     == Init /\ [][Next]_vars
FairSpec == Spec /\ Fairness

---------------------------------------------------------------------------
(* Properties *)

\* The type invariant; the ring never holds more than QueueSize descriptors and
\* only registered descriptors are armed.
TypeOK ==
  /\ cstate \in [Clients -> {"idle", "backlog", "open", "closed"}]
  /\ sent \in [Clients -> 0 .. Segments] /\ unread \in [Clients -> 0 .. Segments]
  /\ fin \in [Clients -> BOOLEAN]
  /\ reply \in [Clients -> {"none", "answer", "400"}]
  /\ backlog \in Seq(Clients) /\ listenEdge \in BOOLEAN
  /\ fdtab \in [Fds -> Clients \cup {NoClient}]
  /\ interest \subseteq Fds /\ armed \subseteq interest
  /\ mpc \in {"wait", "batch", "accept", "submit", "drain", "end"}
  /\ batch \in Seq(Fds \cup {Listen}) /\ current \in Fds \cup {NoFd}
  /\ cutShort \in BOOLEAN
  /\ queue \in Seq(Fds) /\ Len(queue) <= QueueSize
  /\ wpc \in [Workers -> {"take", "recv", "respond", "send", "close"}]
  /\ job \in [Workers -> Fds \cup {NoFd}]
  /\ got \in [Workers -> 0 .. Segments]

\* Where a descriptor number is held: epoll, main's local, the queue, workers.
Holders(f) ==
  (IF f \in interest THEN 1 ELSE 0) + (IF current = f THEN 1 ELSE 0)
  + Cardinality({i \in DOMAIN queue : queue[i] = f})
  + Cardinality({w \in Workers : job[w] = f})

\* While the server runs, an open client descriptor is held in exactly one
\* place and a closed number nowhere: it will be closed once, by one thread,
\* and a reused number never reaches a stale holder.
OneHolder ==
  /\ Up => \A f \in Fds : Holders(f) = IF fdtab[f] = NoClient THEN 0 ELSE 1
  /\ \A i \in DOMAIN batch : batch[i] # Listen => batch[i] \in interest \ armed

\* No connection is answered twice and a closed one is not answered at all,
\* whatever descriptor numbers were reused in between; and the answer is to what
\* was asked: a client whose whole head was read is answered, and 400 is for a
\* head of which something is missing or does not fit the buffer, never for a
\* worker that was handed the descriptor before anything was sent.
ReplyOnce ==
  [][\A c \in Clients : reply'[c] # reply[c] =>
       /\ reply[c] = "none" /\ cstate[c] = "open" /\ cstate'[c] = "open"
       /\ sent[c] > 0
       /\ reply'[c] = "answer" <=> c \notin Long /\ sent[c] = Segments /\ unread[c] = 0]_vars

ListenReported == \E i \in DOMAIN batch : batch[i] = Listen

\* The edge-triggered listening socket strands nobody: while a connection is
\* pending, an edge is still to be reported, is in the batch being handled, or
\* the accept loop is running; or it was an error, not EAGAIN, that ended that
\* loop (server.c:834), which is the one way to lose the edge.
NoStrandedConnection ==
  backlog # <<>> => listenEdge \/ mpc = "accept" \/ ListenReported \/ cutShort

\* A pending connection is accepted once a descriptor is free, unless others take
\* the descriptors: the main thread's task, as server.c:832 describes its loop.
EveryConnectionAccepted ==
  \A c \in Clients :
    cstate[c] = "backlog" /\ FreeFds # {} ~> cstate[c] # "backlog" \/ FreeFds = {}

\* No client leaves a worker in send_all for ever by staying and not reading.
EveryoneReads == \A w \in Workers : []<>(wpc[w] # "send")

Stranded == cutShort /\ ~listenEdge /\ mpc # "accept" /\ ~ListenReported

\* A connected client that sent anything, or hung up, is eventually closed by the
\* server, if everyone reads what he is sent; one-shot registration loses no event,
\* and only an accept loop ended by an error leaves anybody behind.
EveryRequestConcluded ==
  EveryoneReads =>
    \A c \in Clients :
      cstate[c] \in {"backlog", "open"} /\ (sent[c] > 0 \/ fin[c])
        ~> cstate[c] = "closed" \/ (cstate[c] = "backlog" /\ Stranded)

===========================================================================
