------------------------------ MODULE UdpEcho ------------------------------
(***************************************************************************)
(* udp_server and udp_broadcast: clients that send a line in one datagram  *)
(* and wait for one reply, without a timeout and without a look at who     *)
(* replies; servers that answer every datagram.  The network loses,        *)
(* duplicates and reorders.  A line is who typed it and its number.        *)
(***************************************************************************)
EXTENDS Naturals, FiniteSets, Bags

CONSTANTS
  Clients, Hosts,
  HostOf,              \* where each client runs
  Ports, Portings,     \* the ports, and how the kernels may give them to sockets
  MaxLines,            \* bound: lines sent by each client
  MaxDoubled           \* bound: datagrams the network doubles, by kind

\* What is assumed of the constants; the MC module that instantiates this one
\* has it checked.
UdpAssumption ==
  /\ HostOf \in [Clients -> Hosts] /\ Portings \subseteq [Clients -> Ports]
  /\ MaxLines \in [Clients -> Nat] /\ MaxDoubled \in [{"echo", "broadcast"} -> Nat]

VARIABLES
  kind,                \* "echo" (udp_server) or "broadcast" (udp_broadcast)
  serving,             \* the hosts that run a server
  port,                \* the port the kernel gave to each client's socket
  requests, replies,   \* bags of datagrams under way
  cpc,                 \* client: input, wait, closed
  typed,               \* lines sent by each client
  shown,               \* the replies each client has printed, and after how
                       \* many lines
  lost, doubled,       \* history: a datagram was lost; how many were doubled
  missed               \* history: clients whose recvfrom has failed

vars == <<kind, serving, port, requests, replies, cpc, typed, shown, lost, doubled, missed>>

Address(c) == <<HostOf[c], port[c]>>

Lines == UNION {{c} \X (1 .. MaxLines[c]) : c \in Clients}

Init ==
  /\ kind \in {"echo", "broadcast"} /\ serving \in SUBSET Hosts
  /\ port \in Portings
  /\ \A c, d \in Clients : Address(c) = Address(d) => c = d
  /\ requests = EmptyBag /\ replies = EmptyBag
  /\ cpc = [c \in Clients |-> "input"] /\ typed = [c \in Clients |-> 0]
  /\ shown = [c \in Clients |-> {}]
  /\ lost = FALSE /\ doubled = 0 /\ missed = {}

---------------------------------------------------------------------------
(* The client *)

ReachedEverywhere(c) == serving

\* 127.0.0.1 is the client's own host, 255.255.255.255 every host.
Reached(c) == IF kind = "echo" THEN serving \cap {HostOf[c]} ELSE serving

CanType(c) == cpc[c] = "input" /\ typed[c] < MaxLines[c]

Ask(c) ==            \* sendto, then recvfrom
  /\ CanType(c) /\ typed' = [typed EXCEPT ![c] = @ + 1]
  /\ requests' = requests (+)
       SetToBag({[to |-> h, from |-> Address(c), line |-> <<c, typed'[c]>>] : h \in Reached(c)})
  /\ cpc' = [cpc EXCEPT ![c] = "wait"]
  /\ UNCHANGED <<kind, serving, port, replies, shown, lost, doubled, missed>>

\* Where the client goes when sendto has failed.
WaitAnyway == "wait"

AfterRefusal == "input"

AskFails(c) ==       \* nothing was sent: continue
  /\ CanType(c)
  /\ cpc' = [cpc EXCEPT ![c] = AfterRefusal]
  /\ UNCHANGED <<kind, serving, port, requests, replies, typed, shown, lost, doubled, missed>>

Receive(c) ==        \* whatever arrives first is printed as the answer
  /\ cpc[c] = "wait"
  /\ \E d \in BagToSet(replies) :
       /\ d.to = Address(c)
       /\ replies' = replies (-) SetToBag({d})
       /\ shown' = [shown EXCEPT ![c] = @ \cup {[line |-> d.line, after |-> typed[c]]}]
  /\ cpc' = [cpc EXCEPT ![c] = "input"]
  /\ UNCHANGED <<kind, serving, port, requests, typed, lost, doubled, missed>>

ReceiveFails(c) ==   \* continue, with the reply still to come
  /\ cpc[c] = "wait"
  /\ cpc' = [cpc EXCEPT ![c] = "input"] /\ missed' = missed \cup {c}
  /\ UNCHANGED <<kind, serving, port, requests, replies, typed, shown, lost, doubled>>

Quit(c) ==           \* close: what arrives for the socket is discarded
  /\ cpc[c] = "input" /\ cpc' = [cpc EXCEPT ![c] = "closed"]
  /\ replies' = [d \in {e \in BagToSet(replies) : e.to # Address(c)} |-> replies[d]]
  /\ UNCHANGED <<kind, serving, port, requests, typed, shown, lost, doubled, missed>>

---------------------------------------------------------------------------
(* The server *)

\* udp_broadcast passes 4 as the length of client_addr: recvfrom stores the
\* family and the port, and the address stays 0.0.0.0, the server's own host.
ReplyTo(h, from) == IF kind = "echo" THEN from ELSE <<h, from[2]>>

Reply(h, d) == [to |-> ReplyTo(h, d.from), line |-> d.line]

\* A reply to an address that no open socket has is discarded.
Arriving(r) ==
  IF \E c \in Clients : cpc[c] # "closed" /\ Address(c) = r.to THEN SetToBag({r}) ELSE EmptyBag

Serve(h) ==          \* recvfrom, snprintf, sendto
  \E d \in BagToSet(requests) :
    /\ d.to = h
    /\ requests' = requests (-) SetToBag({d})
    /\ \/ replies' = replies (+) Arriving(Reply(h, d)) /\ UNCHANGED lost
       \/ lost' = TRUE /\ UNCHANGED replies          \* sendto failed
    /\ UNCHANGED <<kind, serving, port, cpc, typed, shown, doubled, missed>>

---------------------------------------------------------------------------
(* The network *)

Lose ==
  /\ \/ \E d \in BagToSet(requests) : requests' = requests (-) SetToBag({d}) /\ UNCHANGED replies
     \/ \E d \in BagToSet(replies) : replies' = replies (-) SetToBag({d}) /\ UNCHANGED requests
  /\ lost' = TRUE
  /\ UNCHANGED <<kind, serving, port, cpc, typed, shown, doubled, missed>>

Double ==
  /\ doubled < MaxDoubled[kind] /\ doubled' = doubled + 1
  /\ \/ \E d \in BagToSet(requests) : requests' = requests (+) SetToBag({d}) /\ UNCHANGED replies
     \/ \E d \in BagToSet(replies) : replies' = replies (+) SetToBag({d}) /\ UNCHANGED requests
  /\ UNCHANGED <<kind, serving, port, cpc, typed, shown, lost, missed>>

---------------------------------------------------------------------------
Next ==
  \/ \E c \in Clients : Ask(c) \/ AskFails(c) \/ Receive(c) \/ ReceiveFails(c) \/ Quit(c)
  \/ \E h \in Hosts : Serve(h)
  \/ Lose \/ Double

Spec == Init /\ [][Next]_vars

\* A datagram that is not lost arrives, and both programs read their sockets.
Fairness ==
  /\ \A h \in Hosts : WF_vars(Serve(h))
  /\ \A c \in Clients : WF_vars(Receive(c))

FairSpec == Spec /\ Fairness

---------------------------------------------------------------------------
(* Properties *)

\* The type invariant; nobody prints a reply to a line that was not yet sent.
TypeOK ==
  /\ kind \in {"echo", "broadcast"} /\ serving \subseteq Hosts
  /\ port \in [Clients -> Ports]
  /\ IsABag(requests)
  /\ BagToSet(requests) \subseteq [to : serving, from : Hosts \X Ports, line : Lines]
  /\ IsABag(replies) /\ BagToSet(replies) \subseteq [to : Hosts \X Ports, line : Lines]
  /\ cpc \in [Clients -> {"input", "wait", "closed"}]
  /\ \A c \in Clients : typed[c] \in 0 .. MaxLines[c]
  /\ \A c \in Clients : shown[c] \subseteq [line : Lines, after : 1 .. MaxLines[c]]
  /\ \A c \in Clients : \A r \in shown[c] : r.line[2] <= typed[r.line[1]]
  /\ lost \in BOOLEAN /\ doubled \in 0 .. MaxDoubled[kind] /\ missed \subseteq Clients

\* Who may have asked what a client prints: the client, but another host's
\* client with the same port as well if the broadcast server answers.
Askers(c) == IF kind = "echo" THEN {c} ELSE {d \in Clients : port[d] = port[c]}

\* A client stays in step although it never looks at who replies: lost or
\* reordered, a reply it prints is the one to its last line, unless a datagram
\* was doubled, a recvfrom of its own failed, or (broadcast) two hosts' clients
\* have one port; and then it still is to a line of these clients.
InStep ==
  \A c \in Clients : \A r \in shown[c] :
    /\ r.line[1] \in Askers(c)
    /\ r.line[1] = c => r.line[2] <= r.after
    /\ doubled = 0 /\ c \notin missed /\ Askers(c) = {c} => r.line = <<c, r.after>>

\* While nothing is lost, a client whose host runs a server gets out of recvfrom.
EveryLineAnswered ==
  \A c \in Clients :
    HostOf[c] \in serving => (cpc[c] = "wait" ~> cpc[c] # "wait" \/ lost)

===========================================================================
