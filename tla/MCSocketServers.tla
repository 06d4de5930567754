-------------------------- MODULE MCSocketServers --------------------------
(***************************************************************************)
(* The instance for TLC of the epoll servers, the select server and the    *)
(* UDP programs, which do not interact: a behaviour runs one of them, the  *)
(* others stay as they start, and then no fair step of them is enabled.    *)
(***************************************************************************)
EXTENDS EpollServer, TLC

CONSTANTS
  c1, c2, c3, h1, h2,
  Peers, MaxClients, FdLimits, MaxMessages, SelectMayFail, NoClient, \* SelectServer
  Hosts, HostOf, Ports, Portings, MaxLines, MaxDoubled    \* UdpEcho

VARIABLES
  part,                                         \* which of them runs
  kind, serving, port, requests, replies, cpc,  \* UdpEcho
  typed, shown, lost, doubled, missed,
  s_cpc, s_conn, s_ending, said, s_unread,      \* SelectServer
  s_replies, s_backlog, fdtab, limit,
  readfds, tempfds, client_fds, client_count, s_pc, slot

udpVars == <<kind, serving, port, requests, replies, cpc, typed, shown, lost, doubled, missed>>

selVars == <<s_cpc, s_conn, s_ending, said, s_unread, s_replies, s_backlog, fdtab, limit,
             readfds, tempfds, client_fds, client_count, s_pc, slot>>

Udp == INSTANCE UdpEcho

Sel == INSTANCE SelectServer
         WITH Clients <- Peers, cpc <- s_cpc, conn <- s_conn, ending <- s_ending,
              unread <- s_unread, replies <- s_replies, backlog <- s_backlog, pc <- s_pc

ASSUME PartsAssumption == Udp!UdpAssumption /\ Sel!SelectAssumption

TwoClients   == {c1, c2}
ThreeClients == {c1, c2, c3}
BothVersions == {1, 2}
AllFaults    == {"reset", "wait", "accept", "register"}

\* The select server has fewer descriptors than slots, or more.
FewOrEnough == {1, 3}

\* The clients of the UDP programs are on two hosts, with one port or two.
TwoHosts   == {h1, h2}
TwoPorts   == {1, 2}
OnOneEach  == (c1 :> h1) @@ (c2 :> h2)
SamePort   == (c1 :> 1) @@ (c2 :> 1)
OneOrTwo   == {SamePort, (c1 :> 1) @@ (c2 :> 2)}
TwoAndOne  == (c1 :> 2) @@ (c2 :> 1)
EchoDouble == [echo |-> 1, broadcast |-> 0]

Idle(p) ==
  CASE p = "epoll"  -> version = 2
    [] p = "udp"    -> kind = "echo" /\ serving = {} /\ port = SamePort
    [] p = "select" -> limit = CHOOSE n \in FdLimits : TRUE

MCInit ==
  /\ Init /\ Udp!Init /\ Sel!Init
  /\ part \in {"epoll", "udp", "select"}
  /\ \A p \in {"epoll", "udp", "select"} \ {part} : Idle(p)

MCNext ==
  /\ UNCHANGED part
  /\ \/ part = "epoll"  /\ Next     /\ UNCHANGED udpVars /\ UNCHANGED selVars
     \/ part = "udp"    /\ Udp!Next /\ UNCHANGED vars    /\ UNCHANGED selVars
     \/ part = "select" /\ Sel!Next /\ UNCHANGED vars    /\ UNCHANGED udpVars

MCSpec ==
  /\ MCInit /\ [][MCNext]_<<vars, udpVars, selVars, part>>
  /\ WF_vars(ServerStep) /\ Udp!Fairness

\* The type invariants of the epoll servers and of the UDP programs.
TypesOK == TypeOK /\ Udp!TypeOK

\* A UDP client stays in step with the servers.
InStep == Udp!InStep

\* The select server's sets never mislead its loop.
NeverMisled == Sel!NeverMisled

\* Version 2 of the epoll server closes whoever has left; while nothing is lost, a
\* UDP client whose host runs a server gets an answer.
EveryoneServed == EveryLeaverClosed /\ Udp!EveryLineAnswered

===========================================================================
