---------------------------- MODULE SelectServer ----------------------------
(***************************************************************************)
(* select_concurrent_server: one thread that accepts at most one client    *)
(* and then serves every ready client each time select returns, with       *)
(* blocking sockets; the clients of client.c send a message and wait for   *)
(* its reply before they send the next.                                    *)
(***************************************************************************)
EXTENDS Integers, Sequences, FiniteSets

CONSTANTS
  Clients,
  MaxClients,      \* MAX_CLIENTS, the length of client_fds
  FdLimits,        \* how many descriptors the process may get for clients
  MaxMessages,     \* bound: messages a client sends
  SelectMayFail,   \* may select fail (EINTR)?
  NoClient

SelectAssumption ==
  /\ {MaxClients, MaxMessages} \cup FdLimits \subseteq Nat \ {0}
  /\ SelectMayFail \in BOOLEAN /\ NoClient \notin Clients

ASSUME ConstantsAssumption == SelectAssumption

ListenFd == 3                   \* after the three standard descriptors
Fds      == UNION {4 .. n + 3 : n \in FdLimits}
Slots    == 1 .. MaxClients
Free     == -1

VARIABLES
  cpc,                       \* client: idle, backlog, ready, await, left
  conn,                      \* its connection: none, backlog, open, closed
  ending,                    \* how its side of the stream ends: no, fin, reset
  said, unread, replies,     \* messages sent, not yet received, reply unread
  backlog, fdtab,            \* pending connections; who an fd denotes
  limit,                     \* RLIMIT_NOFILE: descriptors left for clients
  readfds, tempfds,          \* the select sets
  client_fds, client_count,
  pc, slot                   \* server: select, accept, scan, end; loop index i

client == <<cpc, ending, said>>
server == <<readfds, client_fds, client_count>>
vars   == <<client, conn, unread, replies, backlog, fdtab, limit, server, tempfds, pc, slot>>

Init ==
  /\ cpc = [c \in Clients |-> "idle"] /\ conn = [c \in Clients |-> "none"]
  /\ ending = [c \in Clients |-> "no"]
  /\ said = [c \in Clients |-> 0] /\ unread = [c \in Clients |-> 0]
  /\ replies = [c \in Clients |-> 0]
  /\ backlog = <<>> /\ fdtab = [f \in Fds |-> NoClient] /\ limit \in FdLimits
  /\ readfds = {ListenFd} /\ tempfds = {}
  /\ client_fds = [i \in Slots |-> Free] /\ client_count = 0
  /\ pc = "select" /\ slot = 1

---------------------------------------------------------------------------
(* The clients *)

Connect(c) ==
  /\ cpc[c] = "idle" /\ pc # "end"
  /\ cpc' = [cpc EXCEPT ![c] = "ready"]
  /\ conn' = [conn EXCEPT ![c] = "backlog"]
  /\ backlog' = Append(backlog, c)
  /\ UNCHANGED <<ending, said, unread, replies, fdtab, limit, server, tempfds, pc, slot>>

Say(c) ==              \* send, then wait in recv
  /\ cpc[c] = "ready" /\ conn[c] # "closed" /\ said[c] < MaxMessages
  /\ said' = [said EXCEPT ![c] = @ + 1]
  /\ unread' = [unread EXCEPT ![c] = @ + 1]
  /\ cpc' = [cpc EXCEPT ![c] = "await"]
  /\ UNCHANGED <<conn, ending, replies, backlog, fdtab, limit, server, tempfds, pc, slot>>

Hear(c) ==
  /\ cpc[c] = "await" /\ replies[c] > 0
  /\ replies' = [replies EXCEPT ![c] = @ - 1]
  /\ cpc' = [cpc EXCEPT ![c] = "ready"]
  /\ UNCHANGED <<conn, ending, said, unread, backlog, fdtab, limit, server, tempfds, pc, slot>>

Quit(c) ==             \* "quit", or killed while it waits
  /\ cpc[c] \in {"ready", "await"} /\ conn[c] # "closed"
  /\ cpc' = [cpc EXCEPT ![c] = "left"]
  /\ ending' \in {[ending EXCEPT ![c] = "fin"], [ending EXCEPT ![c] = "reset"]}
  /\ UNCHANGED <<conn, said, unread, replies, backlog, fdtab, limit, server, tempfds, pc, slot>>

ServerGone(c) ==       \* recv returns 0: the server closed the connection
  /\ cpc[c] = "await" /\ replies[c] = 0 /\ conn[c] = "closed"
  /\ cpc' = [cpc EXCEPT ![c] = "left"]
  /\ UNCHANGED <<conn, ending, said, unread, replies, backlog, fdtab, limit, server, tempfds, pc, slot>>

---------------------------------------------------------------------------
(* The server *)

Readable(f) ==
  IF f = ListenFd THEN backlog # <<>>
  ELSE fdtab[f] # NoClient /\ (unread[fdtab[f]] > 0 \/ ending[fdtab[f]] # "no")

Select ==
  /\ pc = "select" /\ \E f \in readfds : Readable(f)
  /\ tempfds' = {f \in readfds : Readable(f)}
  /\ pc' = IF ListenFd \in tempfds' THEN "accept" ELSE "scan"
  /\ slot' = 1
  /\ UNCHANGED <<client, conn, unread, replies, backlog, fdtab, limit, server>>

FreeFds   == {f \in 4 .. limit + 3 : fdtab[f] = NoClient}
FreeSlots == {i \in Slots : client_fds[i] = Free}
Least(s)  == CHOOSE i \in s : \A j \in s : i <= j

Accept ==              \* a client found a slot
  /\ pc = "accept" /\ FreeFds # {} /\ FreeSlots # {}
  /\ LET f == Least(FreeFds)
     IN  /\ fdtab' = [fdtab EXCEPT ![f] = Head(backlog)]
         /\ client_fds' = [client_fds EXCEPT ![Least(FreeSlots)] = f]
         /\ readfds' = readfds \cup {f}
  /\ conn' = [conn EXCEPT ![Head(backlog)] = "open"]
  /\ client_count' = client_count + 1
  /\ backlog' = Tail(backlog)
  /\ pc' = "scan"
  /\ UNCHANGED <<client, unread, replies, limit, tempfds, slot>>

Reject ==              \* "Too many clients, reject!"
  /\ pc = "accept" /\ FreeFds # {} /\ FreeSlots = {}
  /\ conn' = [conn EXCEPT ![Head(backlog)] = "closed"]
  /\ backlog' = Tail(backlog)
  /\ pc' = "scan"
  /\ UNCHANGED <<client, unread, replies, fdtab, limit, server, tempfds, slot>>

NextRound == pc' = "select" /\ tempfds' = {} /\ slot' = 1   \* assigned anew

AcceptFails ==         \* for want of a descriptor or anything else: continue, past
  /\ pc = "accept"     \* the loop over the clients
  /\ NextRound
  /\ UNCHANGED <<client, conn, unread, replies, backlog, fdtab, limit, server>>

AcceptAborted ==       \* ECONNABORTED: the error takes the connection with it
  /\ pc = "accept" /\ FreeFds # {}
  /\ conn' = [conn EXCEPT ![Head(backlog)] = "closed"]
  /\ backlog' = Tail(backlog)
  /\ NextRound
  /\ UNCHANGED <<client, unread, replies, fdtab, limit, server>>

\* The descriptors the loop over the slots receives from.
SetAtAll(f) == f \in readfds

SetInTemp(f) == f \in tempfds

\* The loop goes through all of client_fds.
SlotsButLast == 1 .. MaxClients - 1

ScannedSlots == Slots

ToServe  == {i \in ScannedSlots : i >= slot /\ client_fds[i] # Free /\ SetInTemp(client_fds[i])}
Scanning == pc = "scan" /\ ToServe # {}
Current  == client_fds[Least(ToServe)]
Client   == fdtab[Current]
Scanned  == slot' = Least(ToServe) + 1 /\ UNCHANGED pc

RecvData ==            \* receive what there is, send one reply
  /\ Scanning /\ unread[Client] > 0
  /\ unread' = [unread EXCEPT ![Client] = 0]
  /\ replies' = [replies EXCEPT ![Client] = @ + 1]
  /\ Scanned
  /\ UNCHANGED <<client, conn, backlog, fdtab, limit, server, tempfds>>

RecvError ==           \* ECONNRESET is reported once; the next recv returns 0
  /\ Scanning /\ unread[Client] = 0 /\ ending[Client] = "reset"
  /\ ending' = [ending EXCEPT ![Client] = "fin"]
  /\ Scanned
  /\ UNCHANGED <<cpc, conn, said, unread, replies, backlog, fdtab, limit, server, tempfds>>

FdClr(f) == readfds \ {f}

CountDown == client_count - 1

RecvEof ==             \* close, FD_CLR and a free slot
  /\ Scanning /\ unread[Client] = 0 /\ ending[Client] = "fin"
  /\ conn' = [conn EXCEPT ![Client] = "closed"]
  /\ fdtab' = [fdtab EXCEPT ![Current] = NoClient]
  /\ readfds' = FdClr(Current)
  /\ client_fds' = [client_fds EXCEPT ![Least(ToServe)] = Free]
  /\ client_count' = CountDown
  /\ Scanned
  /\ UNCHANGED <<client, unread, replies, backlog, limit, tempfds>>

ScanDone ==
  /\ pc = "scan" /\ ToServe = {}
  /\ NextRound
  /\ UNCHANGED <<client, conn, unread, replies, backlog, fdtab, limit, server>>

SelectFails ==         \* the loop ends and everything is closed
  /\ pc = "select" /\ SelectMayFail
  /\ pc' = "end"
  /\ conn' = [c \in Clients |-> IF conn[c] = "none" THEN "none" ELSE "closed"]
  /\ fdtab' = [f \in Fds |-> NoClient]
  /\ backlog' = <<>>
  /\ UNCHANGED <<client, unread, replies, limit, server, tempfds, slot>>

---------------------------------------------------------------------------
ServerStep == Select \/ Accept \/ Reject \/ AcceptFails \/ AcceptAborted
              \/ RecvData \/ RecvError \/ RecvEof \/ ScanDone

Next ==
  \/ ServerStep \/ SelectFails
  \/ \E c \in Clients : Connect(c) \/ Say(c) \/ Hear(c) \/ Quit(c) \/ ServerGone(c)

Spec == Init /\ [][Next]_vars

\* The server runs; clients owe nothing.
FairSpec == Spec /\ WF_vars(ServerStep)

---------------------------------------------------------------------------
(* Properties *)

\* The type invariant; client_count never leaves 0 .. MAX_CLIENTS and a client
\* has at most one message and one reply under way.
TypeOK ==
  /\ cpc \in [Clients -> {"idle", "ready", "await", "left"}]
  /\ conn \in [Clients -> {"none", "backlog", "open", "closed"}]
  /\ ending \in [Clients -> {"no", "fin", "reset"}]
  /\ said \in [Clients -> 0 .. MaxMessages]
  /\ unread \in [Clients -> 0 .. 1] /\ replies \in [Clients -> 0 .. 1]
  /\ backlog \in Seq(Clients) /\ fdtab \in [Fds -> Clients \cup {NoClient}]
  /\ readfds \subseteq Fds \cup {ListenFd} /\ tempfds \subseteq Fds \cup {ListenFd}
  /\ client_fds \in [Slots -> Fds \cup {Free}]
  /\ client_count \in 0 .. MaxClients
  /\ limit \in FdLimits
  /\ pc \in {"select", "accept", "scan", "end"} /\ slot \in 1 .. MaxClients + 1

\* The three records of who is connected agree whenever select is called:
\* readfds, the slots and the descriptors that are open.
RecordsAgree ==
  /\ readfds \ {ListenFd} = {client_fds[i] : i \in Slots} \ {Free}
  /\ \A i, j \in Slots : client_fds[i] = client_fds[j] /\ client_fds[i] # Free => i = j
  /\ client_count = Cardinality({i \in Slots : client_fds[i] # Free})
  /\ pc # "end" => {f \in Fds : fdtab[f] # NoClient} = readfds \ {ListenFd}

\* The sockets block, so accept and recv are called only when they will not:
\* one quiet client never holds up the others.
NeverBlocks ==
  /\ pc = "accept" => backlog # <<>>
  /\ Scanning => Readable(Current)

\* The descriptor sets never mislead the loop: neither the one it keeps nor the
\* copy select has left it.
NeverMisled == TypeOK /\ RecordsAgree /\ NeverBlocks

\* A connection is pending: among finitely many clients, for ever only when accept
\* fails each time it is called; the loop then never gets as far as the clients.
Starved == backlog # <<>>

\* A message is answered or its client sees the connection closed, and a client
\* that left is closed and its slot is free again, unless accept keeps failing
\* from some time on.
EveryClientServed ==
  \A c \in Clients :
    /\ unread[c] > 0 ~> unread[c] = 0 \/ conn[c] = "closed" \/ []Starved
    /\ ending[c] # "no" /\ conn[c] \in {"backlog", "open"}
         ~> conn[c] = "closed" \/ []Starved

===========================================================================
