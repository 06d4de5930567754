------------------------- MODULE FileTransferProofs -------------------------
(***************************************************************************)
(* Proofs about FileTransfer for any number of clients, files of any size  *)
(* and any chunk and buffer.                                               *)
(*                                                                         *)
(* The stream keeps no boundaries, so what makes a download whole is where *)
(* both programs are in the same answer: of marker, size and contents, the *)
(* client has taken a beginning, the server has written a longer one, and  *)
(* what lies between them is in the stream, in order (Exchange).  Between  *)
(* two downloads nothing is under way (Quiet), so that the next answer     *)
(* starts an empty stream; or a file that grew has left data in it, and    *)
(* the client cannot but slip with its next read (Spoiled).                *)
(***************************************************************************)
EXTENDS FileTransfer, SequenceTheorems, TLAPS

Units ==
  {Mark, Unknown} \cup {SizeOf(n) : n \in Sizes}
    \cup {Data(p[1], p[2]) : p \in Commands \X (1 .. MaxSize + MaxGrowth)}

States ==
  [pc : {"off", "menu", "await", "size", "body", "closed", "reset"},
   asks : Nat, cmd : Commands \cup {Missing}, want : 0 .. MaxSize + 1, got : Nat,
   saved : Seq(Units), result : {"none", "failed", "received"}, slipped : BOOLEAN,
   lost : BOOLEAN]

ShapeOf(c) ==
  client[c] \in States /\ toServer[c] \in Seq(Commands) /\ toClient[c] \in Seq(Units)

LimitsOf(c) ==
  /\ Len(client[c].saved) <= client[c].got /\ client[c].got <= client[c].want
  /\ Len(toClient[c]) <= IF Gone(c) THEN 0 ELSE Buffer

\* A new answer starts with an empty file; it is received only at its end.
FreshOf(c) ==
  /\ client[c].pc \in {"await", "size"} =>
       client[c].saved = <<>> /\ client[c].got = 0 /\ ~client[c].lost
  /\ Downloading(c) => client[c].result = "none" /\ client[c].cmd \in Commands

WholeOf(c) ==
  client[c].result = "received" /\ ~client[c].slipped
    => /\ InOrder(client[c].cmd, client[c].saved)
       /\ ~client[c].lost => client[c].saved = Contents(client[c].cmd)

\* Where the server is, and for whom.
Serving ==
  /\ disk \in [Commands -> {Missing} \cup Sizes]
  /\ backlog \in Seq(Clients) /\ serving \in Clients \cup {Nobody}
  /\ spc \in {"accept", "read", "mark", "error", "size", "data", "dead"}
  /\ off \in 0 .. MaxSize + MaxGrowth
  /\ spc = "accept" <=> serving = Nobody
  /\ spc = "dead" => Gone(serving)
  /\ spc \in {"mark", "size", "data"} => scmd \in Commands
  /\ spc = "data" => disk[scmd] # Missing

\* The unit at place i of the answer to a command.
AnswerAt(cmd, i) ==
  IF i = 1 THEN Mark ELSE IF i = 2 THEN SizeOf(disk[cmd]) ELSE Data(cmd, i - 2)

\* How much of the answer the client has taken and the server has written.
Taken(c) ==
  IF client[c].pc = "await" THEN 0
  ELSE IF client[c].pc = "size" THEN 1 ELSE 2 + client[c].got

Given(cmd) ==
  IF spc = "mark" THEN 0
  ELSE IF spc = "size" THEN 1
  ELSE IF spc = "data" THEN 2 + off
  ELSE IF disk[cmd] = Missing THEN 1 ELSE 2 + off

\* The server, if it serves this client, is through with the answer or has only
\* contents left to write.
Resting(c) == serving = c => spc \in {"read", "data"}

Quiet(c) == toServer[c] = <<>> /\ toClient[c] = <<>> /\ Resting(c)

Asking(c) ==
  /\ client[c].pc = "await"
  /\ toServer[c] = <<client[c].cmd>> /\ toClient[c] = <<>> /\ Resting(c)

\* The next read begins with contents of an earlier answer.
Spoiled(c) ==
  /\ client[c].pc \in {"off", "menu", "await"}
  /\ Len(toClient[c]) > 0 /\ toClient[c][1].kind = "data"

\* What is in the file after so many units of the contents have been received.
Kept(cmd, units, got, lost) ==
  /\ \A i \in 1 .. Len(units) : \E n \in 1 .. got : units[i] = Data(cmd, n)
  /\ \A i, j \in 1 .. Len(units) : i < j => units[i].n < units[j].n
  /\ ~lost => Len(units) = got /\ \A i \in 1 .. Len(units) : units[i] = Data(cmd, i)

Exchange(c) ==
  LET cmd == client[c].cmd
  IN  /\ toServer[c] = <<>> /\ serving = c
      /\ spc \in {"mark", "size", "data", "read"}
      /\ scmd = cmd
      /\ Taken(c) + Len(toClient[c]) = Given(cmd)
      /\ \A i \in 1 .. Len(toClient[c]) : toClient[c][i] = AnswerAt(cmd, Taken(c) + i)
      /\ client[c].pc = "body" =>
           /\ disk[cmd] # Missing /\ client[c].want = disk[cmd]
           /\ client[c].got < client[c].want
           /\ Kept(cmd, client[c].saved, client[c].got, client[c].lost)

OrderOf(c) ==
  ~client[c].slipped =>
    /\ client[c].pc \in {"off", "menu"} => Quiet(c) \/ Spoiled(c)
    /\ Downloading(c) => Asking(c) \/ Exchange(c) \/ Spoiled(c)

Local(c) == ShapeOf(c) /\ LimitsOf(c) /\ FreshOf(c) /\ WholeOf(c) /\ OrderOf(c)

Functions ==
  /\ client = [c \in Clients |-> client[c]]
  /\ toServer = [c \in Clients |-> toServer[c]]
  /\ toClient = [c \in Clients |-> toClient[c]]

IInv == Functions /\ Serving /\ \A c \in Clients : Local(c)

---------------------------------------------------------------------------
(* What does not change *)

LEMMA Types == IInv => TypeOK
<1> SUFFICES ASSUME IInv PROVE TypeOK
  OBVIOUS
<1>1. ASSUME NEW c \in Clients
      PROVE  /\ client[c].pc \in {"off", "menu", "await", "size", "body", "closed", "reset"}
             /\ client[c].asks \in Nat /\ client[c].want \in 0 .. MaxSize + 1
             /\ client[c].result \in {"none", "failed", "received"}
             /\ Len(client[c].saved) <= client[c].got /\ client[c].got <= client[c].want
             /\ toServer[c] \in Seq(Commands)
             /\ Len(toClient[c]) <= IF Gone(c) THEN 0 ELSE Buffer
  <2>1. client[c] \in States /\ LimitsOf(c) /\ toServer[c] \in Seq(Commands)
    BY DEF IInv, Local, ShapeOf
  <2> QED
    BY <2>1 DEF States, LimitsOf
<1>2. Serving
  BY DEF IInv
<1>3. spc \notin {"accept", "dead"} => serving # Nobody
  BY <1>2 DEF Serving
<1> QED
  BY <1>1, <1>2, <1>3 DEF TypeOK, Serving

\* Only this client and its streams change.
Touches(c) ==
  /\ client' = [client EXCEPT ![c] = client'[c]]
  /\ toServer' = [toServer EXCEPT ![c] = toServer'[c]]
  /\ toClient' = [toClient EXCEPT ![c] = toClient'[c]]
  /\ UNCHANGED <<disk, serving, spc, scmd, off>>

\* Nobody notices what another client does.
LEMMA OneClient ==
  ASSUME IInv, NEW c \in Clients, Touches(c), backlog' \in Seq(Clients),
         Gone(c) => Gone(c)', Local(c)'
  PROVE  IInv'
<1>0. Functions /\ Serving
  BY DEF IInv
<1>1. Functions'
  BY <1>0 DEF Functions, Touches
<1>2. ASSUME NEW d \in Clients, d # c
      PROVE  client'[d] = client[d] /\ toServer'[d] = toServer[d] /\ toClient'[d] = toClient[d]
  BY <1>0, <1>2 DEF Functions, Touches
<1>3. Serving'
  <2>1. Gone(serving) /\ serving \in Clients => Gone(serving)'
    BY <1>2 DEF Gone, Touches
  <2> QED
    BY <1>0, <2>1 DEF Serving, Touches
<1>4. ASSUME NEW d \in Clients, d # c
      PROVE  Local(d)'
  <2>1. Local(d)
    BY DEF IInv
  <2>2. /\ client'[d] = client[d] /\ toServer'[d] = toServer[d] /\ toClient'[d] = toClient[d]
        /\ UNCHANGED <<disk, serving, spc, scmd, off>>
    BY <1>2, <1>4 DEF Touches
  <2>3. ShapeOf(d)' /\ LimitsOf(d)' /\ FreshOf(d)' /\ WholeOf(d)'
    BY <2>1, <2>2
       DEF Local, ShapeOf, LimitsOf, FreshOf, WholeOf, Gone, Downloading, Contents, InOrder
  <2>4. (Quiet(d) => Quiet(d)') /\ (Asking(d) => Asking(d)') /\ (Spoiled(d) => Spoiled(d)')
    BY <2>2 DEF Quiet, Asking, Resting, Spoiled
  <2>5. Exchange(d) => Exchange(d)'
    BY <2>2 DEF Exchange, Taken, Given, AnswerAt, Kept
  <2>6. OrderOf(d)'
    BY <2>1, <2>2, <2>4, <2>5 DEF Local, OrderOf, Downloading
  <2> QED
    BY <2>3, <2>6 DEF Local
<1> QED
  BY <1>1, <1>3, <1>4 DEF IInv

\* The server leaves alone whom it does not serve.
LEMMA OneServed ==
  ASSUME IInv, UNCHANGED <<client, disk>>, Serving', NEW c \in Clients,
         toServer' = [toServer EXCEPT ![c] = toServer'[c]],
         toClient' = [toClient EXCEPT ![c] = toClient'[c]],
         serving \in {c, Nobody}, serving' \in {c, Nobody}, Local(c)'
  PROVE  IInv'
<1>0. Functions
  BY DEF IInv
<1>1. Functions'
  BY <1>0 DEF Functions
<1>2. ASSUME NEW d \in Clients, d # c
      PROVE  Local(d)'
  <2>1. Local(d)
    BY DEF IInv
  <2>2. /\ client'[d] = client[d] /\ toServer'[d] = toServer[d] /\ toClient'[d] = toClient[d]
        /\ disk' = disk
    BY <1>0, <1>2 DEF Functions
  <2>3. ShapeOf(d)' /\ LimitsOf(d)' /\ FreshOf(d)' /\ WholeOf(d)'
    BY <2>1, <2>2
       DEF Local, ShapeOf, LimitsOf, FreshOf, WholeOf, Gone, Downloading, Contents, InOrder
  <2>4. serving # d /\ serving' # d
    BY <1>2, ConstantsAssumption
  <2>5. OrderOf(d)'
    BY <2>1, <2>2, <2>4
       DEF Local, OrderOf, Downloading, Quiet, Asking, Exchange, Resting, Spoiled
  <2> QED
    BY <2>3, <2>5 DEF Local
<1> QED
  BY <1>1, <1>2 DEF IInv

---------------------------------------------------------------------------
(* The client's actions *)

LEMMA ConnectStep ==
  ASSUME IInv, NEW c \in Clients, Connect(c)
  PROVE  IInv'
<1>0. Functions /\ Serving /\ Local(c)
  BY DEF IInv
<1>1. /\ client'[c] = [client[c] EXCEPT !.pc = "menu"] /\ client[c].pc = "off"
      /\ client[c] \in States
      /\ UNCHANGED <<disk, toServer, toClient, serving, spc, scmd, off>>
  BY <1>0 DEF Connect, Functions, Local, ShapeOf
<1>2. Touches(c)
  BY <1>0 DEF Connect, Functions, Touches
<1>3. backlog' \in Seq(Clients)
  BY <1>0 DEF Connect, Serving
<1>4. /\ client'[c] \in States /\ client'[c].pc = "menu"
      /\ client'[c].asks = client[c].asks /\ client'[c].cmd = client[c].cmd
      /\ client'[c].want = client[c].want /\ client'[c].saved = client[c].saved
      /\ client'[c].got = client[c].got /\ client'[c].lost = client[c].lost
      /\ client'[c].result = client[c].result /\ client'[c].slipped = client[c].slipped
  BY <1>1 DEF States
<1>5. ShapeOf(c)' /\ FreshOf(c)' /\ WholeOf(c)'
  BY <1>0, <1>1, <1>4 DEF Local, ShapeOf, FreshOf, WholeOf, Downloading, Contents, InOrder
<1>6. LimitsOf(c)'
  BY <1>0, <1>1, <1>4 DEF Local, LimitsOf, Gone
<1>7. OrderOf(c)'
  BY <1>0, <1>1, <1>4 DEF Local, OrderOf, Downloading, Quiet, Resting, Spoiled
<1>8. Local(c)' /\ ~Gone(c)
  BY <1>1, <1>5, <1>6, <1>7 DEF Local, Gone
<1> QED
  BY <1>2, <1>3, <1>8, OneClient

LEMMA AskRecord ==
  ASSUME NEW r \in States, NEW cmd \in Commands, NEW n \in Nat, NEW e \in Seq(Units)
  PROVE  [r EXCEPT !.pc = "await", !.asks = n, !.cmd = cmd, !.got = 0,
                   !.saved = e, !.result = "none", !.lost = FALSE] \in States
  BY DEF States

LEMMA DataFields ==
  ASSUME NEW cmd, NEW k
  PROVE  Data(cmd, k).kind = "data" /\ Data(cmd, k).n = k
  BY DEF Data

LEMMA AskStep ==
  ASSUME IInv, NEW c \in Clients, NEW cmd \in Commands, Ask(c, cmd)
  PROVE  IInv'
<1>0. Functions /\ Serving /\ Local(c)
  BY DEF IInv
<1>1. /\ client'[c] = [client[c] EXCEPT !.pc = "await", !.asks = @ - 1, !.cmd = cmd, !.got = 0,
                                        !.saved = <<>>, !.result = "none", !.lost = FALSE]
      /\ client[c].pc = "menu" /\ client[c].asks > 0 /\ client[c] \in States
      /\ toServer'[c] = Append(toServer[c], cmd) /\ toServer[c] \in Seq(Commands)
      /\ toClient[c] \in Seq(Units)
      /\ UNCHANGED <<disk, toClient, backlog, serving, spc, scmd, off>>
  BY <1>0 DEF Ask, Functions, Local, ShapeOf, server
<1>2. Touches(c)
  BY <1>0 DEF Ask, Functions, Touches, server
<1>3. backlog' \in Seq(Clients)
  BY <1>0, <1>1 DEF Serving
<1>4. /\ client'[c].pc = "await" /\ client'[c].cmd = cmd
      /\ client'[c].saved = <<>> /\ client'[c].result = "none"
      /\ client'[c].got = 0 /\ client'[c].lost = FALSE
      /\ client'[c].slipped = client[c].slipped
      /\ client'[c].want = client[c].want /\ client'[c].asks = client[c].asks - 1
  BY <1>1 DEF States
<1>5. client'[c] \in States
  <2>1. <<>> \in Seq(Units) /\ client[c].asks - 1 \in Nat /\ 0 \in Nat
    BY <1>1 DEF States
  <2>2. [client[c] EXCEPT !.pc = "await", !.asks = client[c].asks - 1, !.cmd = cmd, !.got = 0,
                          !.saved = <<>>, !.result = "none", !.lost = FALSE] \in States
    BY <1>1, <2>1, AskRecord, Zenon
  <2> QED
    BY ONLY <1>1, <2>2, Zenon
<1>6. toServer'[c] \in Seq(Commands)
  BY <1>1
<1>7. ShapeOf(c)' /\ FreshOf(c)' /\ WholeOf(c)'
  BY <1>0, <1>1, <1>4, <1>5, <1>6 DEF Local, ShapeOf, FreshOf, WholeOf, Downloading
<1>8. LimitsOf(c)'
  <2>1. Len(<<>>) <= 0 /\ 0 <= client[c].want
    BY <1>1, ConstantsAssumption DEF States
  <2> QED
    BY <1>0, <1>1, <1>4, <2>1 DEF Local, LimitsOf, Gone
<1>9. OrderOf(c)'
  <2> SUFFICES ASSUME ~client[c].slipped PROVE Asking(c)' \/ Spoiled(c)'
    BY <1>4 DEF OrderOf, Downloading
  <2>1. Quiet(c) \/ Spoiled(c)
    BY <1>0, <1>1 DEF Local, OrderOf
  <2>2. CASE Quiet(c)
    <3>1. toServer'[c] = <<cmd>>
      BY <1>1, <2>2 DEF Quiet
    <3> QED
      BY <1>1, <1>4, <2>2, <3>1 DEF Asking, Quiet, Resting
  <2>3. CASE Spoiled(c)
    BY <1>1, <1>4, <2>3 DEF Spoiled
  <2> QED
    BY <2>1, <2>2, <2>3
<1>10. Local(c)' /\ ~Gone(c)
  BY <1>1, <1>7, <1>8, <1>9 DEF Local, Gone
<1> QED
  BY <1>2, <1>3, <1>10, OneClient

LEMMA LeaveStep ==
  ASSUME IInv, NEW c \in Clients, Leave(c)
  PROVE  IInv'
<1>0. Functions /\ Serving /\ Local(c)
  BY DEF IInv
<1> DEFINE p == IF toClient[c] = <<>> THEN "closed" ELSE "reset"
<1>1. /\ client'[c] = [client[c] EXCEPT !.pc = p]
      /\ client[c] \in States /\ ~Gone(c)
      /\ toServer'[c] = toServer[c] /\ toClient'[c] = <<>>
      /\ UNCHANGED <<disk, backlog, serving, spc, scmd, off>>
  BY <1>0 DEF Leave, Functions, Local, ShapeOf, server, Gone
<1>2. Touches(c)
  BY <1>0 DEF Leave, Functions, Touches, server
<1>3. backlog' \in Seq(Clients)
  BY <1>0, <1>1 DEF Serving
<1>p. p \in {"closed", "reset"}
  OBVIOUS
<1> HIDE DEF p
<1>4. /\ client'[c] \in States /\ client'[c].pc \in {"closed", "reset"}
      /\ client'[c].asks = client[c].asks /\ client'[c].cmd = client[c].cmd
      /\ client'[c].want = client[c].want /\ client'[c].saved = client[c].saved
      /\ client'[c].got = client[c].got /\ client'[c].lost = client[c].lost
      /\ client'[c].result = client[c].result /\ client'[c].slipped = client[c].slipped
  BY <1>1, <1>p DEF States
<1>5. <<>> \in Seq(Units) /\ Len(<<>>) = 0
  OBVIOUS
<1>6. ShapeOf(c)' /\ FreshOf(c)' /\ WholeOf(c)'
  BY <1>0, <1>1, <1>4, <1>5 DEF Local, ShapeOf, FreshOf, WholeOf, Downloading, Contents, InOrder
<1>7. LimitsOf(c)'
  BY <1>0, <1>1, <1>4, <1>5 DEF Local, LimitsOf, Gone
<1>8. OrderOf(c)'
  BY <1>4 DEF OrderOf, Downloading
<1>9. Local(c)'
  BY <1>6, <1>7, <1>8 DEF Local
<1> QED
  BY <1>1, <1>2, <1>3, <1>9, OneClient

\* What a read leaves of a stream.
LEMMA Rest ==
  ASSUME NEW S, NEW s \in Seq(S), NEW k \in 1 .. Len(s)
  PROVE  /\ SubSeq(s, k + 1, Len(s)) \in Seq(S)
         /\ Len(s) \in Nat /\ Len(SubSeq(s, k + 1, Len(s))) = Len(s) - k
         /\ \A i \in 1 .. Len(s) - k : SubSeq(s, k + 1, Len(s))[i] = s[k + i]
         /\ SubSeq(s, 1, k) \in Seq(S) /\ Len(SubSeq(s, 1, k)) = k
         /\ \A i \in 1 .. k : SubSeq(s, 1, k)[i] = s[i]
<1>1. Len(s) \in Nat /\ \A i \in 1 .. Len(s) : s[i] \in S
  BY LenProperties, ElementOfSeq
<1>2. /\ SubSeq(s, k + 1, Len(s)) \in Seq(S)
      /\ Len(SubSeq(s, k + 1, Len(s))) = IF k + 1 <= Len(s) THEN Len(s) - (k + 1) + 1 ELSE 0
      /\ \A i \in 1 .. Len(s) - (k + 1) + 1 : SubSeq(s, k + 1, Len(s))[i] = s[k + 1 + i - 1]
  BY <1>1, SubSeqProperties
<1>3. /\ SubSeq(s, 1, k) \in Seq(S)
      /\ Len(SubSeq(s, 1, k)) = IF 1 <= k THEN k - 1 + 1 ELSE 0
      /\ \A i \in 1 .. k - 1 + 1 : SubSeq(s, 1, k)[i] = s[1 + i - 1]
  BY <1>1, SubSeqProperties
<1>4. Len(SubSeq(s, k + 1, Len(s))) = Len(s) - k
  BY <1>1, <1>2
<1>5. ASSUME NEW i \in 1 .. Len(s) - k PROVE SubSeq(s, k + 1, Len(s))[i] = s[k + i]
  <2>1. i \in 1 .. Len(s) - (k + 1) + 1 /\ k + 1 + i - 1 = k + i
    BY <1>1
  <2> QED
    BY <1>2, <2>1
<1>6. Len(SubSeq(s, 1, k)) = k
  BY <1>1, <1>3
<1>7. ASSUME NEW i \in 1 .. k PROVE SubSeq(s, 1, k)[i] = s[i]
  <2>1. i \in 1 .. k - 1 + 1 /\ 1 + i - 1 = i
    BY <1>1
  <2> QED
    BY <1>3, <2>1
<1> QED
  BY <1>1, <1>2, <1>3, <1>4, <1>5, <1>6, <1>7

LEMMA ReadResponseStep ==
  ASSUME IInv, NEW c \in Clients, ReadResponse(c)
  PROVE  IInv'
<1>0. Functions /\ Serving /\ Local(c)
  BY DEF IInv
<1>1. PICK k \in 1 .. Len(toClient[c]) :
        /\ toClient' = [toClient EXCEPT ![c] = SubSeq(@, k + 1, Len(@))]
        /\ \/ client' = [client EXCEPT
                           ![c].pc = "size",
                           ![c].slipped = @ \/ SubSeq(toClient[c], 1, k) # <<Mark>>]
           \/ client' = [client EXCEPT ![c].pc = "menu", ![c].slipped = TRUE]
  BY DEF ReadResponse
<1>2. /\ client[c].pc = "await" /\ client[c] \in States /\ toClient[c] \in Seq(Units)
      /\ toServer'[c] = toServer[c] /\ toServer[c] \in Seq(Commands)
      /\ UNCHANGED <<disk, toServer, backlog, serving, spc, scmd, off>>
  BY <1>0 DEF ReadResponse, Local, ShapeOf, server
<1>3. toClient'[c] = SubSeq(toClient[c], k + 1, Len(toClient[c]))
  BY <1>0, <1>1 DEF Functions
<1>4. /\ toClient'[c] \in Seq(Units)
      /\ Len(toClient[c]) \in Nat /\ Len(toClient'[c]) = Len(toClient[c]) - k
      /\ \A i \in 1 .. Len(toClient[c]) - k : toClient'[c][i] = toClient[c][k + i]
      /\ Len(SubSeq(toClient[c], 1, k)) = k
      /\ \A i \in 1 .. k : SubSeq(toClient[c], 1, k)[i] = toClient[c][i]
  BY <1>2, <1>3, Rest
<1>5. Touches(c)
  BY <1>0, <1>1, <1>2 DEF Functions, Touches
<1>6. /\ client'[c] \in States /\ client'[c].pc \in {"size", "menu"}
      /\ client'[c].asks = client[c].asks /\ client'[c].cmd = client[c].cmd
      /\ client'[c].want = client[c].want /\ client'[c].saved = client[c].saved
      /\ client'[c].got = client[c].got /\ client'[c].lost = client[c].lost
      /\ client'[c].result = client[c].result
      /\ ~client'[c].slipped =>
           /\ ~client[c].slipped /\ client'[c].pc = "size"
           /\ SubSeq(toClient[c], 1, k) = <<Mark>>
  <2>1. CASE client' = [client EXCEPT
                          ![c].pc = "size",
                          ![c].slipped = @ \/ SubSeq(toClient[c], 1, k) # <<Mark>>]
    <3> DEFINE b == client[c].slipped \/ SubSeq(toClient[c], 1, k) # <<Mark>>
    <3>1. client'[c] = [client[c] EXCEPT !.pc = "size", !.slipped = b]
      BY <1>0, <2>1 DEF Functions
    <3>2. b \in BOOLEAN
      BY <1>2 DEF States
    <3>3. ~b => ~client[c].slipped /\ SubSeq(toClient[c], 1, k) = <<Mark>>
      OBVIOUS
    <3> HIDE DEF b
    <3> QED
      BY <1>2, <3>1, <3>2, <3>3 DEF States
  <2>2. CASE client' = [client EXCEPT ![c].pc = "menu", ![c].slipped = TRUE]
    <3>1. client'[c] = [client[c] EXCEPT !.pc = "menu", !.slipped = TRUE]
      BY <1>0, <2>2 DEF Functions
    <3> QED
      BY <1>2, <3>1 DEF States
  <2> QED
    BY <1>1, <2>1, <2>2
<1>7. backlog' \in Seq(Clients)
  BY <1>0, <1>2 DEF Serving
<1>8. ShapeOf(c)' /\ FreshOf(c)' /\ WholeOf(c)'
  BY <1>0, <1>2, <1>4, <1>6 DEF Local, ShapeOf, FreshOf, WholeOf, Downloading, Contents, InOrder
<1>9. LimitsOf(c)'
  BY <1>0, <1>2, <1>4, <1>6, ConstantsAssumption DEF Local, LimitsOf, Gone
<1>10. OrderOf(c)'
  <2> SUFFICES ASSUME ~client'[c].slipped PROVE Exchange(c)'
    BY <1>6 DEF OrderOf, Downloading
  <2>1. k = 1 /\ ~client[c].slipped /\ client'[c].pc = "size"
    BY <1>4, <1>6
  <2>2. Exchange(c)
    <3>1. Asking(c) \/ Exchange(c) \/ Spoiled(c)
      BY <1>0, <1>2, <2>1 DEF Local, OrderOf, Downloading
    <3>2. ~Asking(c)
      BY <1>1, <1>4 DEF Asking
    <3>3. ~Spoiled(c)
      <4>1. toClient[c][1] = Mark
        <5>1. 1 \in 1 .. k /\ SubSeq(toClient[c], 1, k)[1] = Mark
          <6>1. SubSeq(toClient[c], 1, k) = <<Mark>> /\ <<Mark>>[1] = Mark
            BY <1>6
          <6>2. 1 \in 1 .. k
            BY <2>1
          <6>3. SubSeq(toClient[c], 1, k)[1] = <<Mark>>[1]
            BY <6>1, Zenon
          <6> QED
            BY <6>1, <6>2, <6>3, Zenon
        <5> QED
          BY <1>4, <5>1
      <4> QED
        BY <4>1 DEF Spoiled, Mark
    <3> QED
      BY <3>1, <3>2, <3>3
  <2>3. Taken(c) = 0 /\ Taken(c)' = 1
    BY <1>2, <2>1 DEF Taken
  <2>4. Given(client[c].cmd)' = Given(client[c].cmd)
    BY <1>2, <1>6 DEF Given
  <2>5. /\ Len(toClient[c]) = Given(client[c].cmd)
        /\ \A i \in 1 .. Len(toClient[c]) : toClient[c][i] = AnswerAt(client[c].cmd, i)
    BY <1>4, <2>2, <2>3 DEF Exchange
  <2>6. 1 + Len(toClient'[c]) = Given(client[c].cmd)
    BY <1>4, <2>1, <2>5
  <2>7. ASSUME NEW i \in 1 .. Len(toClient'[c])
        PROVE  toClient'[c][i] = AnswerAt(client[c].cmd, 1 + i)'
    <3>1. 1 + i \in 1 .. Len(toClient[c]) /\ toClient'[c][i] = toClient[c][1 + i]
      BY <1>4, <2>1, SMTT(20)
    <3> QED
      BY <1>2, <1>6, <2>5, <3>1 DEF AnswerAt
  <2> QED
    BY <1>2, <1>6, <2>1, <2>2, <2>3, <2>4, <2>6, <2>7 DEF Exchange
<1>11. Local(c)' /\ ~Gone(c)
  BY <1>2, <1>8, <1>9, <1>10 DEF Local, Gone
<1> QED
  BY <1>5, <1>7, <1>11, OneClient

\* What receive_file may take for a size.
LEMMA SizesRead ==
  ASSUME NEW unit \in Units, NEW n \in SizeRead(unit)
  PROVE  n \in 0 .. MaxSize + 1 /\ n \in Nat
<1>1. Sizes \subseteq 0 .. MaxSize /\ MaxSize \in Nat
  BY ConstantsAssumption
<1>2. CASE unit.kind = "size"
  <2>1. n = unit.n
    BY <1>2 DEF SizeRead
  <2>2. unit.n \in Sizes
    BY <1>2 DEF Units, Mark, Unknown, SizeOf, Data
  <2>3. n \in 0 .. MaxSize
    BY <1>1, <2>1, <2>2
  <2> QED
    BY <1>1, <2>3
<1>3. CASE unit.kind # "size"
  BY <1>1, <1>3 DEF SizeRead
<1> QED
  BY <1>2, <1>3

LEMMA ReadSizeStep ==
  ASSUME IInv, NEW c \in Clients, ReadSize(c)
  PROVE  IInv'
<1>0. Functions /\ Serving /\ Local(c)
  BY DEF IInv
<1> DEFINE unit == Head(toClient[c])
<1>1. PICK n \in SizeRead(unit), opens \in BOOLEAN :
        client' = [client EXCEPT
          ![c].pc      = IF n > 0 /\ opens THEN "body" ELSE "menu",
          ![c].want    = n,
          ![c].result  = IF n > 0 /\ opens THEN @ ELSE "failed",
          ![c].slipped = @ \/ unit.kind # "size" \/ (n > 0 /\ ~opens)]
  BY DEF ReadSize
<1>2. /\ client[c].pc = "size" /\ client[c] \in States /\ toClient[c] \in Seq(Units)
      /\ toClient[c] # <<>> /\ toClient' = [toClient EXCEPT ![c] = Tail(@)]
      /\ toServer'[c] = toServer[c] /\ toServer[c] \in Seq(Commands)
      /\ UNCHANGED <<disk, toServer, backlog, serving, spc, scmd, off>>
  BY <1>0 DEF ReadSize, Local, ShapeOf, server
<1>3. toClient'[c] = Tail(toClient[c])
  BY <1>0, <1>2 DEF Functions
<1>4. /\ toClient'[c] \in Seq(Units) /\ unit \in Units /\ unit = toClient[c][1]
      /\ Len(toClient[c]) \in Nat /\ Len(toClient[c]) > 0
      /\ Len(toClient'[c]) = Len(toClient[c]) - 1
      /\ \A i \in 1 .. Len(toClient[c]) - 1 : toClient'[c][i] = toClient[c][1 + i]
  <2>1. /\ Head(toClient[c]) \in Units /\ Tail(toClient[c]) \in Seq(Units)
        /\ Len(Tail(toClient[c])) = Len(toClient[c]) - 1
        /\ \A i \in 1 .. Len(Tail(toClient[c])) : Tail(toClient[c])[i] = toClient[c][i + 1]
    BY <1>2, HeadTailProperties
  <2>2. Len(toClient[c]) \in Nat /\ Len(toClient[c]) > 0
    BY <1>2, LenProperties
  <2>3. ASSUME NEW i \in 1 .. Len(toClient[c]) - 1
        PROVE  Tail(toClient[c])[i] = toClient[c][1 + i]
    <3>1. i \in 1 .. Len(Tail(toClient[c])) /\ i + 1 = 1 + i
      BY <2>1, <2>2
    <3> QED
      BY <2>1, <3>1
  <2> QED
    BY <1>3, <2>1, <2>2, <2>3
<1>5. Touches(c)
  BY <1>0, <1>1, <1>2 DEF Functions, Touches
<1>n. n \in 0 .. MaxSize + 1 /\ n \in Nat
  BY <1>4, SizesRead
<1> DEFINE goes == n > 0 /\ opens
           off2 == client[c].slipped \/ unit.kind # "size" \/ (n > 0 /\ ~opens)
<1>6. /\ client'[c].pc = IF goes THEN "body" ELSE "menu"
      /\ client'[c].want = n
      /\ client'[c].result = IF goes THEN client[c].result ELSE "failed"
      /\ client'[c].slipped = off2
      /\ client'[c].asks = client[c].asks /\ client'[c].cmd = client[c].cmd
      /\ client'[c].saved = client[c].saved
      /\ client'[c].got = client[c].got /\ client'[c].lost = client[c].lost
      /\ client'[c] \in States
  <2>1. client'[c] = [client[c] EXCEPT
                        !.pc      = IF goes THEN "body" ELSE "menu",
                        !.want    = n,
                        !.result  = IF goes THEN @ ELSE "failed",
                        !.slipped = off2]
    BY <1>0, <1>1 DEF Functions
  <2>2. off2 \in BOOLEAN
    BY <1>2 DEF States
  <2> HIDE DEF goes, off2
  <2> QED
    BY <1>2, <1>n, <2>1, <2>2 DEF States
<1>7. backlog' \in Seq(Clients)
  BY <1>0, <1>2 DEF Serving
<1>8. /\ client[c].saved = <<>> /\ client[c].got = 0 /\ ~client[c].lost
      /\ client[c].result = "none" /\ client[c].cmd \in Commands
  BY <1>0, <1>2 DEF Local, FreshOf, Downloading
<1>9. ShapeOf(c)' /\ FreshOf(c)' /\ WholeOf(c)'
  <2> HIDE DEF goes, off2
  <2> QED
    BY <1>2, <1>4, <1>6, <1>8 DEF ShapeOf, FreshOf, WholeOf, Downloading
<1>10. LimitsOf(c)'
  <2>1. Len(client[c].saved) = 0
    BY <1>8
  <2>2. client'[c].pc \notin {"closed", "reset"}
    BY <1>6
  <2>3. Len(toClient'[c]) <= Buffer
    <3>1. Len(toClient[c]) <= Buffer
      BY <1>0, <1>2 DEF Local, LimitsOf, Gone
    <3> QED
      BY <1>4, <3>1, ConstantsAssumption
  <2>4. Len(client'[c].saved) <= client'[c].got /\ client'[c].got <= client'[c].want
    BY <1>6, <1>8, <1>n, <2>1
  <2> HIDE DEF goes, off2
  <2> QED
    BY <1>6, <2>2, <2>3, <2>4 DEF LimitsOf, Gone
<1>11. OrderOf(c)'
  <2> SUFFICES ASSUME ~off2
               PROVE  IF goes THEN Exchange(c)' ELSE Quiet(c)' \/ Spoiled(c)'
    BY <1>6 DEF OrderOf, Downloading
  <2> DEFINE cmd == client[c].cmd
  <2>1. Exchange(c)
    BY <1>0, <1>2 DEF Local, OrderOf, Downloading, Asking, Spoiled
  <2>2. Taken(c) = 1
    BY <1>2 DEF Taken
  <2>3. /\ 1 + Len(toClient[c]) = Given(cmd)
        /\ \A i \in 1 .. Len(toClient[c]) : toClient[c][i] = AnswerAt(cmd, 1 + i)
        /\ toServer[c] = <<>> /\ serving = c
        /\ spc \in {"mark", "size", "data", "read"} /\ scmd = cmd
    BY <2>1, <2>2 DEF Exchange
  <2>4. unit = SizeOf(disk[cmd])
    <3>1. 1 \in 1 .. Len(toClient[c]) /\ 1 + 1 = 2
      BY <1>4
    <3>2. toClient[c][1] = AnswerAt(cmd, 2)
      BY <2>3, <3>1
    <3> QED
      BY <1>4, <3>2 DEF AnswerAt
  <2>5. n = disk[cmd]
    BY <1>1, <2>4 DEF SizeRead, SizeOf
  <2>6. disk[cmd] # Missing
    BY <1>n, <2>5, ConstantsAssumption
  <2>7. goes <=> n > 0
    OBVIOUS
  <2>8. Given(cmd)' = Given(cmd)
    BY <1>2, <1>6 DEF Given
  <2>9. 2 + Len(toClient'[c]) = Given(cmd)
    BY <1>4, <2>3
  <2>10. ASSUME NEW i \in 1 .. Len(toClient'[c])
         PROVE  toClient'[c][i] = AnswerAt(cmd, 2 + i)'
    <3>1. 1 + i \in 1 .. Len(toClient[c]) /\ toClient'[c][i] = toClient[c][1 + i]
          /\ 1 + (1 + i) = 2 + i
      <4>1. PICK t \in Nat : t = Len(toClient[c])
        BY <1>4
      <4>2. Len(toClient'[c]) = t - 1
        BY <1>4, <4>1
      <4>3. i \in 1 .. t - 1
        BY <4>2
      <4>4. 1 + i \in 1 .. t /\ 1 + (1 + i) = 2 + i
        BY <4>3
      <4>5. toClient'[c][i] = toClient[c][1 + i]
        BY <1>4, <4>1, <4>3
      <4> QED
        BY <4>1, <4>4, <4>5
    <3>2. toClient[c][1 + i] = AnswerAt(cmd, 2 + i)
      BY <2>3, <3>1
    <3> QED
      BY <1>2, <1>6, <3>1, <3>2 DEF AnswerAt
  <2>11. CASE goes
    <3>1. client'[c].pc = "body" /\ client'[c].want = disk[cmd] /\ client'[c].want > 0
      BY <1>6, <2>5, <2>7, <2>11
    <3>2. client'[c].got = 0 /\ client'[c].saved = <<>> /\ ~client'[c].lost
      BY <1>6, <1>8
    <3>3. Taken(c)' = 2
      BY <3>1, <3>2 DEF Taken
    <3>4. /\ client'[c].got < client'[c].want
          /\ Kept(cmd, client'[c].saved, client'[c].got, client'[c].lost)
      BY <3>1, <3>2, <1>n, <1>6 DEF Kept
    <3>5. Taken(c)' + Len(toClient'[c]) = Given(client[c].cmd)'
      BY <2>8, <2>9, <3>3
    <3>6. \A i \in 1 .. Len(toClient'[c]) : toClient'[c][i] = AnswerAt(cmd, Taken(c) + i)'
      BY <2>10, <3>3 DEF AnswerAt
    <3>7. client'[c].cmd = cmd
      BY <1>6
    <3> HIDE DEF cmd, goes, unit, off2
    <3>8. Exchange(c)'
      BY <1>2, <2>3, <2>6, <3>1, <3>4, <3>5, <3>6, <3>7 DEF Exchange, AnswerAt, cmd
    <3> QED
      BY <2>11, <3>8
  <2>12. CASE ~goes
    <3>1. spc \in {"data", "read"}
      <4>1. Given(cmd) # 0 /\ Given(cmd) # 1
        BY <1>4, <2>3
      <4> QED
        BY <2>3, <4>1 DEF Given
    <3>0. toServer'[c] = <<>> /\ UNCHANGED <<serving, spc>>
      BY <1>2, <2>3
    <3>2. CASE toClient'[c] = <<>>
      BY <2>12, <3>0, <3>1, <3>2 DEF Quiet, Resting
    <3>3. CASE toClient'[c] # <<>>
      <4>1. 1 \in 1 .. Len(toClient'[c])
        BY <1>4, <3>3, LenProperties
      <4>2. toClient'[c][1] = AnswerAt(cmd, 3)
        <5>1. toClient'[c][1] = AnswerAt(cmd, 2 + 1)'
          BY <2>10, <4>1
        <5>2. AnswerAt(cmd, 3)' = AnswerAt(cmd, 3)
          BY <1>2, <1>6 DEF AnswerAt
        <5> QED
          BY <5>1, <5>2
      <4> QED
        BY <1>6, <2>12, <4>1, <4>2 DEF Spoiled, AnswerAt, Data
    <3> QED
      BY <2>12, <3>2, <3>3
  <2> QED
    BY <2>11, <2>12
<1>12. Local(c)' /\ ~Gone(c)
  BY <1>2, <1>9, <1>10, <1>11 DEF Local, Gone
<1> QED
  BY <1>5, <1>7, <1>12, OneClient

\* A block of the contents, of which the file takes a beginning.
LEMMA KeptMore ==
  ASSUME NEW cmd, NEW units \in Seq(Units), NEW got \in Nat, NEW lost \in BOOLEAN,
         Kept(cmd, units, got, lost), NEW k \in Nat, NEW j \in 0 .. k,
         NEW block \in Seq(Units), Len(block) = j,
         \A i \in 1 .. j : block[i] = Data(cmd, got + i)
  PROVE  Kept(cmd, units \o block, got + k, lost \/ j < k)
<1> DEFINE new == units \o block
           u == Len(units)
<1>1. u \in Nat /\ j \in Nat /\ j <= k
  BY LenProperties
<1>2. Len(new) = u + j /\ \A i \in 1 .. u + j : new[i] = IF i <= u THEN units[i] ELSE block[i - u]
  BY ConcatProperties
<1>3. ASSUME NEW i \in 1 .. u
      PROVE  new[i] = units[i] /\ \E n \in 1 .. got : new[i] = Data(cmd, n)
  BY <1>1, <1>2 DEF Kept
<1>4. ASSUME NEW i \in u + 1 .. u + j
      PROVE  new[i] = Data(cmd, got + (i - u)) /\ i - u \in 1 .. j
  <2>1. i \in 1 .. u + j /\ ~(i <= u) /\ i - u \in 1 .. j
    BY <1>1
  <2> QED
    BY <1>2, <2>1
<1>5. \A i \in 1 .. u + j : i \in 1 .. u \/ i \in u + 1 .. u + j
  BY <1>1
<1> HIDE DEF new, u
<1>6. ASSUME NEW i \in 1 .. Len(new) PROVE \E n \in 1 .. got + k : new[i] = Data(cmd, n)
  <2>1. CASE i \in 1 .. u
    <3>1. PICK n \in 1 .. got : new[i] = Data(cmd, n)
      BY <1>3, <2>1
    <3>2. n \in 1 .. got + k
      OBVIOUS
    <3> QED
      BY <3>1, <3>2
  <2>2. CASE i \in u + 1 .. u + j
    <3>1. got + (i - u) \in 1 .. got + k
      BY <1>1, <1>4, <2>2
    <3> QED
      BY <1>4, <2>2, <3>1
  <2> QED
    BY <1>2, <1>5, <2>1, <2>2
<1>7. ASSUME NEW a \in 1 .. Len(new), NEW b \in 1 .. Len(new), a < b
      PROVE  new[a].n < new[b].n
  <2>1. CASE b \in 1 .. u
    <3>1. a \in 1 .. u
      BY <1>1, <1>7, <2>1
    <3>2. units[a].n < units[b].n
      BY <1>7, <2>1, <3>1 DEF Kept, u
    <3> QED
      BY <1>3, <2>1, <3>1, <3>2
  <2>2. CASE b \in u + 1 .. u + j
    <3>0. new[b] = Data(cmd, got + (b - u)) /\ b - u \in 1 .. j
      BY <1>4, <2>2
    <3>1. new[b].n = got + (b - u) /\ b - u \in 1 .. j
      BY <3>0, DataFields
    <3>2. CASE a \in 1 .. u
      <4>1. PICK n \in 1 .. got : new[a] = Data(cmd, n)
        BY <1>3, <3>2
      <4>2. new[a].n = n
        BY <4>1 DEF Data
      <4> QED
        BY <3>1, <4>2
    <3>3. CASE a \in u + 1 .. u + j
      <4>0. new[a] = Data(cmd, got + (a - u)) /\ a - u \in 1 .. j
        BY <1>4, <3>3
      <4>1. new[a].n = got + (a - u) /\ a - u \in 1 .. j
        BY <4>0, DataFields
      <4> QED
        BY <1>1, <1>7, <3>1, <4>1
    <3> QED
      BY <1>2, <1>5, <3>2, <3>3
  <2> QED
    BY <1>2, <1>5, <2>1, <2>2
<1>8. ASSUME ~(lost \/ j < k)
      PROVE  Len(new) = got + k /\ \A i \in 1 .. Len(new) : new[i] = Data(cmd, i)
  <2>1. j = k /\ u = got /\ \A i \in 1 .. u : units[i] = Data(cmd, i)
    BY <1>1, <1>8 DEF Kept, u
  <2>2. ASSUME NEW i \in 1 .. Len(new) PROVE new[i] = Data(cmd, i)
    <3>1. CASE i \in 1 .. u
      BY <1>3, <2>1, <3>1
    <3>2. CASE i \in u + 1 .. u + j
      <4>1. got + (i - u) = i
        BY <2>1
      <4> QED
        BY <1>4, <3>2, <4>1
    <3> QED
      BY <1>2, <1>5, <3>1, <3>2
  <2> QED
    BY <1>2, <2>1, <2>2
<1> QED
  BY <1>6, <1>7, <1>8 DEF Kept, new

\* The file once everything has been received.
LEMMA KeptWhole ==
  ASSUME NEW cmd, NEW units \in Seq(Units), NEW lost \in BOOLEAN, Kept(cmd, units, disk[cmd], lost)
  PROVE  InOrder(cmd, units) /\ (~lost => units = Contents(cmd))
<1>1. DOMAIN units = 1 .. Len(units)
  BY LenProperties
<1>2. InOrder(cmd, units)
  BY <1>1 DEF Kept, InOrder
<1>3. ASSUME ~lost PROVE units = Contents(cmd)
  <2>1. Len(units) = disk[cmd] /\ \A i \in 1 .. Len(units) : units[i] = Data(cmd, i)
    BY <1>3 DEF Kept
  <2>2. units = [i \in 1 .. Len(units) |-> units[i]]
    BY LenProperties
  <2> QED
    BY <2>1, <2>2 DEF Contents
<1> QED
  BY <1>2, <1>3

LEMMA ReadBodyStep ==
  ASSUME IInv, NEW c \in Clients, ReadBody(c)
  PROVE  IInv'
<1>0. Functions /\ Serving /\ Local(c)
  BY DEF IInv
<1>1. PICK k \in 1 .. Asked(c), j \in 0 .. Asked(c) :
        /\ k <= Len(toClient[c]) /\ j <= k
        /\ client' = [client EXCEPT
             ![c].got = @ + k,
             ![c].saved = @ \o SubSeq(toClient[c], 1, j),
             ![c].lost = @ \/ j < k,
             ![c].pc = IF client[c].got + k >= client[c].want THEN "menu" ELSE @,
             ![c].result = IF client[c].got + k >= client[c].want THEN "received" ELSE @]
        /\ toClient' = [toClient EXCEPT ![c] = SubSeq(@, k + 1, Len(@))]
  BY DEF ReadBody, Whole
<1>2. /\ client[c].pc = "body" /\ client[c] \in States /\ toClient[c] \in Seq(Units)
      /\ toServer'[c] = toServer[c] /\ toServer[c] \in Seq(Commands)
      /\ UNCHANGED <<disk, toServer, backlog, serving, spc, scmd, off>>
  BY <1>0 DEF ReadBody, Local, ShapeOf, server
<1>3. toClient'[c] = SubSeq(toClient[c], k + 1, Len(toClient[c]))
  BY <1>0, <1>1 DEF Functions
<1> DEFINE old == client[c].saved
           block == SubSeq(toClient[c], 1, j)
           new == old \o block
           got == client[c].got
           want == client[c].want
           whole == got + k >= want
           lost == client[c].lost \/ j < k
           cmd == client[c].cmd
<1>4. /\ old \in Seq(Units) /\ Len(old) \in Nat /\ want \in Nat /\ got \in Nat
      /\ Len(old) <= got /\ got <= want /\ client[c].lost \in BOOLEAN
      /\ k \in Nat /\ k >= 1 /\ k <= want - got /\ Len(toClient[c]) \in Nat
      /\ j \in Nat /\ j \in 0 .. k
  <2>1. old \in Seq(Units) /\ want \in Nat /\ got \in Nat /\ Len(old) <= got /\ got <= want
        /\ client[c].lost \in BOOLEAN
    BY <1>0, <1>2, ConstantsAssumption DEF States, Local, LimitsOf
  <2>2. Len(old) \in Nat /\ Len(toClient[c]) \in Nat
    BY <1>2, <2>1, LenProperties
  <2>3. Asked(c) \in Int /\ Asked(c) <= want - got
    BY <2>1, <2>2, ConstantsAssumption, SMTT(20) DEF Asked
  <2>4. k \in Nat /\ k >= 1 /\ k <= Asked(c) /\ j \in Nat /\ j \in 0 .. k
    BY <1>1, <2>3
  <2> QED
    BY <2>1, <2>2, <2>3, <2>4
<1>5. /\ toClient'[c] \in Seq(Units)
      /\ Len(toClient'[c]) = Len(toClient[c]) - k
      /\ \A i \in 1 .. Len(toClient[c]) - k : toClient'[c][i] = toClient[c][k + i]
  <2>1. k \in 1 .. Len(toClient[c])
    BY <1>1, <1>4
  <2> QED
    BY <1>2, <1>3, <2>1, Rest
<1>6. block \in Seq(Units) /\ Len(block) = j /\ \A i \in 1 .. j : block[i] = toClient[c][i]
  <2>1. CASE j = 0
    <3>1. block = <<>> /\ <<>> \in Seq(Units) /\ Len(<<>>) = 0
      BY <2>1
    <3> QED
      BY <2>1, <3>1
  <2>2. CASE j # 0
    <3>1. j \in 1 .. Len(toClient[c])
      BY <1>1, <1>4, <2>2
    <3> QED
      BY <1>2, <3>1, Rest
  <2> QED
    BY <2>1, <2>2
<1> HIDE DEF block
<1>7. new \in Seq(Units) /\ Len(new) = Len(old) + j
  BY <1>4, <1>6, ConcatProperties
<1> HIDE DEF new, lost, whole
<1>8. Touches(c)
  BY <1>0, <1>1, <1>2 DEF Functions, Touches
<1>9. /\ client'[c].pc = IF whole THEN "menu" ELSE "body"
      /\ client'[c].result = IF whole THEN "received" ELSE client[c].result
      /\ client'[c].saved = new /\ client'[c].want = want /\ client'[c].cmd = cmd
      /\ client'[c].got = got + k /\ client'[c].lost = lost
      /\ client'[c].asks = client[c].asks /\ client'[c].slipped = client[c].slipped
      /\ client'[c] \in States
  <2>1. client'[c] = [client[c] EXCEPT !.got = got + k, !.saved = new, !.lost = lost,
                                       !.pc = IF whole THEN "menu" ELSE @,
                                       !.result = IF whole THEN "received" ELSE @]
    BY <1>0, <1>1 DEF Functions, new, block, lost, whole
  <2>2. lost \in BOOLEAN /\ got + k \in Nat
    BY <1>4 DEF lost
  <2> QED
    BY <1>2, <1>7, <2>1, <2>2 DEF States
<1>10. backlog' \in Seq(Clients)
  BY <1>0, <1>2 DEF Serving
<1>11. whole <=> got + k = want
  BY <1>4 DEF whole
<1>12. client[c].result = "none" /\ cmd \in Commands
  BY <1>0, <1>2 DEF Local, FreshOf, Downloading
<1>13. ShapeOf(c)' /\ FreshOf(c)'
  BY <1>2, <1>5, <1>9, <1>12 DEF ShapeOf, FreshOf, Downloading
<1>14. LimitsOf(c)'
  <2>1. Len(new) <= got + k /\ got + k <= want /\ client'[c].pc \notin {"closed", "reset"}
    BY <1>4, <1>7, <1>9, SMTT(20)
  <2>2. Len(toClient'[c]) <= Buffer
    <3>1. Len(toClient[c]) <= Buffer
      BY <1>0, <1>2 DEF Local, LimitsOf, Gone
    <3> QED
      BY <1>4, <1>5, <3>1, ConstantsAssumption
  <2> QED
    BY <1>0, <1>9, <2>1, <2>2 DEF Local, LimitsOf, Gone
<1>15. ASSUME ~client[c].slipped
       PROVE  /\ IF whole THEN Quiet(c)' \/ Spoiled(c)' ELSE Exchange(c)'
              /\ Kept(cmd, new, got + k, lost)
              /\ want = disk[cmd]
  <2>1. Exchange(c)
    BY <1>0, <1>2, <1>15 DEF Local, OrderOf, Downloading, Asking, Spoiled
  <2>2. Taken(c) = 2 + got
    BY <1>2 DEF Taken
  <2>3. /\ 2 + got + Len(toClient[c]) = Given(cmd)
        /\ \A i \in 1 .. Len(toClient[c]) : toClient[c][i] = AnswerAt(cmd, 2 + got + i)
        /\ toServer[c] = <<>> /\ serving = c
        /\ spc \in {"mark", "size", "data", "read"} /\ scmd = cmd
        /\ disk[cmd] # Missing /\ want = disk[cmd]
        /\ Kept(cmd, old, got, client[c].lost)
    BY <1>2, <2>1, <2>2 DEF Exchange
  <2>4. ASSUME NEW i \in 1 .. Len(toClient[c])
        PROVE  toClient[c][i] = Data(cmd, got + i)
    <3>1. PICK g \in Nat : g = got
      BY <1>4
    <3>2. 2 + g + i # 1 /\ 2 + g + i # 2 /\ 2 + g + i - 2 = g + i
      OBVIOUS
    <3>3. AnswerAt(cmd, 2 + g + i) = Data(cmd, g + i)
      BY <3>2 DEF AnswerAt
    <3> QED
      BY <2>3, <3>1, <3>3
  <2>5. Kept(cmd, new, got + k, lost)
    <3>1. ASSUME NEW i \in 1 .. j PROVE block[i] = Data(cmd, got + i)
      <4>1. i \in 1 .. Len(toClient[c])
        BY <1>1, <1>4
      <4> QED
        BY <1>6, <2>4, <4>1
    <3> HIDE DEF old, got, cmd, want
    <3>2. Kept(cmd, old \o block, got + k, client[c].lost \/ j < k)
      BY <1>4, <1>6, <2>3, <3>1, KeptMore
    <3> QED
      BY <3>2 DEF new, lost
  <2>6. Given(cmd)' = Given(cmd)
    BY <1>2, <1>9 DEF Given
  <2>7. 2 + (got + k) + Len(toClient'[c]) = Given(cmd)
    <3>1. PICK g \in Nat, t \in Nat : g = got /\ t = Len(toClient[c])
      BY <1>4
    <3>2. Len(toClient'[c]) = t - k /\ 2 + g + t = Given(cmd)
      BY <1>5, <2>3, <3>1
    <3>3. 2 + (g + k) + (t - k) = 2 + g + t
      BY <1>4, <3>1, SMTT(20)
    <3> QED
      BY <3>1, <3>2, <3>3
  <2>8. ASSUME NEW i \in 1 .. Len(toClient'[c])
        PROVE  toClient'[c][i] = Data(cmd, (got + k) + i)
    <3>1. PICK g \in Nat, t \in Nat : g = got /\ t = Len(toClient[c])
      BY <1>4
    <3>2. i \in 1 .. t - k
      BY <1>5, <3>1
    <3>3. k + i \in 1 .. t /\ g + (k + i) = (g + k) + i
      BY <1>4, <3>1, <3>2
    <3>4. toClient'[c][i] = toClient[c][k + i]
      BY <1>5, <3>1, <3>2
    <3>5. toClient[c][k + i] = Data(cmd, got + (k + i))
      BY <2>4, <3>1, <3>3
    <3> QED
      BY <3>1, <3>3, <3>4, <3>5
  <2>9. CASE ~whole
    <3>1. client'[c].pc = "body" /\ got + k < want
      BY <1>4, <1>9, <1>11, <2>9
    <3>2. Taken(c)' = 2 + (got + k)
      BY <1>9, <3>1 DEF Taken
    <3>3. ASSUME NEW i \in 1 .. Len(toClient'[c])
          PROVE  toClient'[c][i] = AnswerAt(cmd, Taken(c) + i)'
      <4>1. PICK g \in Nat : g = got + k
        BY <1>4
      <4>2. 2 + g + i # 1 /\ 2 + g + i # 2 /\ 2 + g + i - 2 = g + i
        OBVIOUS
      <4>3. AnswerAt(cmd, 2 + g + i)' = Data(cmd, g + i)
        BY <1>9, <4>2 DEF AnswerAt
      <4>4. AnswerAt(cmd, Taken(c) + i)' = AnswerAt(cmd, 2 + g + i)'
        BY <3>2, <4>1
      <4> QED
        BY <2>8, <4>1, <4>3, <4>4
    <3>4. Taken(c)' + Len(toClient'[c]) = Given(cmd)'
      BY <2>6, <2>7, <3>2
    <3>5. /\ client'[c].cmd = cmd /\ client'[c].saved = new /\ client'[c].want = want
          /\ client'[c].got = got + k /\ client'[c].lost = lost
      BY <1>9
    <3>6. /\ toServer'[c] = <<>> /\ serving' = c
          /\ spc' \in {"mark", "size", "data", "read"} /\ scmd' = cmd
          /\ disk' = disk /\ disk[cmd] # Missing /\ want = disk[cmd]
      BY <1>2, <2>3
    <3> HIDE DEF cmd, got, want
    <3>7. Exchange(c)'
      BY <2>5, <3>1, <3>3, <3>4, <3>5, <3>6 DEF Exchange, cmd, Kept, Data
    <3> QED
      BY <2>3, <2>5, <2>9, <3>7
  <2>10. CASE whole
    <3>1. spc \in {"data", "read"}
      <4>0. Len(toClient'[c]) \in Nat
        BY <1>5, LenProperties
      <4>1. PICK g \in Nat, r \in Nat : g = got + k /\ r = Len(toClient'[c])
        BY <1>4, <4>0
      <4>2. 2 + g + r # 0 /\ 2 + g + r # 1
        OBVIOUS
      <4>3. Given(cmd) = 2 + g + r
        BY <2>7, <4>1
      <4> QED
        BY <2>3, <4>2, <4>3 DEF Given
    <3>2. CASE toClient'[c] = <<>>
      BY <1>2, <2>3, <2>5, <2>10, <3>1, <3>2 DEF Quiet, Resting
    <3>3. CASE toClient'[c] # <<>>
      <4>1. Len(toClient'[c]) > 0 /\ 1 \in 1 .. Len(toClient'[c])
        BY <1>5, <3>3, LenProperties
      <4>2. toClient'[c][1].kind = "data"
        <5>1. toClient'[c][1] = Data(cmd, (got + k) + 1)
          BY <2>8, <4>1
        <5> QED
          BY <5>1, DataFields
      <4> QED
        BY <1>9, <2>3, <2>5, <2>10, <4>1, <4>2 DEF Spoiled
    <3> QED
      BY <3>2, <3>3
  <2> QED
    BY <2>9, <2>10
<1>16. OrderOf(c)'
  BY <1>9, <1>15 DEF OrderOf, Downloading
<1>17. WholeOf(c)'
  <2>1. CASE whole
    <3>1. ~client[c].slipped => InOrder(cmd, new) /\ (~lost => new = Contents(cmd))
      <4>1. ASSUME ~client[c].slipped PROVE Kept(cmd, new, disk[cmd], lost)
        BY <1>11, <1>15, <2>1, <4>1
      <4> HIDE DEF cmd
      <4>2. ASSUME Kept(cmd, new, disk[cmd], lost)
            PROVE  InOrder(cmd, new) /\ (~lost => new = Contents(cmd))
        <5>1. new \in Seq(Units) /\ lost \in BOOLEAN
          BY <1>4, <1>7 DEF lost
        <5> QED
          BY ONLY <5>1, <4>2, KeptWhole
      <4> QED
        BY <4>1, <4>2
    <3> QED
      BY <1>2, <1>9, <3>1 DEF WholeOf, Contents, InOrder
  <2>2. CASE ~whole
    BY <1>9, <1>12, <2>2 DEF WholeOf
  <2> QED
    BY <2>1, <2>2
<1>18. Local(c)' /\ ~Gone(c)
  BY <1>2, <1>13, <1>14, <1>16, <1>17 DEF Local, Gone
<1> QED
  BY <1>8, <1>10, <1>18, OneClient

LEMMA ReadEndStep ==
  ASSUME IInv, NEW c \in Clients, ReadEnd(c)
  PROVE  IInv'
<1>0. Functions /\ Serving /\ Local(c)
  BY DEF IInv
<1>1. /\ spc = "dead" /\ toClient[c] = <<>> /\ client[c] \in States
      /\ client[c].pc \in {"await", "size", "body"}
      /\ UNCHANGED <<disk, toServer, toClient, backlog, serving, spc, scmd, off>>
  BY <1>0 DEF ReadEnd, Local, ShapeOf, server
<1>2. \/ /\ client[c].pc = "await"
         /\ client' = [client EXCEPT ![c].pc = "closed"]
      \/ /\ client[c].pc # "await"
         /\ client' = [client EXCEPT ![c].pc = "menu", ![c].result = "failed"]
  BY DEF ReadEnd
<1>3. /\ client'[c] \in States
      /\ client'[c].pc = IF client[c].pc = "await" THEN "closed" ELSE "menu"
      /\ client'[c].result = IF client[c].pc = "await" THEN client[c].result ELSE "failed"
      /\ client'[c].asks = client[c].asks /\ client'[c].cmd = client[c].cmd
      /\ client'[c].want = client[c].want /\ client'[c].saved = client[c].saved
      /\ client'[c].slipped = client[c].slipped
      /\ client'[c].got = client[c].got /\ client'[c].lost = client[c].lost
  <2>1. CASE client[c].pc = "await"
    <3>1. client'[c] = [client[c] EXCEPT !.pc = "closed"]
      BY <1>0, <1>2, <2>1 DEF Functions
    <3> QED
      BY <1>1, <2>1, <3>1 DEF States
  <2>2. CASE client[c].pc # "await"
    <3>1. client'[c] = [client[c] EXCEPT !.pc = "menu", !.result = "failed"]
      BY <1>0, <1>2, <2>2 DEF Functions
    <3> QED
      BY <1>1, <2>2, <3>1 DEF States
  <2> QED
    BY <2>1, <2>2
<1>4. Touches(c)
  BY <1>0, <1>1, <1>2 DEF Functions, Touches
<1>5. backlog' \in Seq(Clients)
  BY <1>0, <1>1 DEF Serving
<1>6. ShapeOf(c)' /\ FreshOf(c)' /\ WholeOf(c)'
  BY <1>0, <1>1, <1>3 DEF Local, ShapeOf, FreshOf, WholeOf, Downloading, Contents, InOrder
<1>7. LimitsOf(c)'
  <2>1. Len(toClient[c]) = 0
    BY <1>1
  <2> QED
    BY <1>0, <1>1, <1>3, <2>1, ConstantsAssumption DEF Local, LimitsOf, Gone
<1>8. OrderOf(c)'
  <2>1. CASE client[c].pc = "await"
    BY <1>3, <2>1 DEF OrderOf, Downloading
  <2>2. CASE client[c].pc # "await"
    <3>1. ~Exchange(c)
      BY <1>1 DEF Exchange
    <3>2. ~Asking(c)
      BY <2>2 DEF Asking
    <3>3. client[c].slipped
      BY <1>0, <1>1, <2>2, <3>1, <3>2 DEF Local, OrderOf, Downloading, Spoiled
    <3> QED
      BY <1>3, <3>3 DEF OrderOf
  <2> QED
    BY <2>1, <2>2
<1>9. Local(c)' /\ ~Gone(c)
  BY <1>1, <1>6, <1>7, <1>8 DEF Local, Gone
<1> QED
  BY <1>4, <1>5, <1>9, OneClient

---------------------------------------------------------------------------
(* The server's actions *)

LEMMA AcceptStep == IInv /\ Accept => IInv'
<1> SUFFICES ASSUME IInv, Accept PROVE IInv'
  OBVIOUS
<1>0. Functions /\ Serving
  BY DEF IInv
<1>1. /\ spc = "accept" /\ backlog # <<>> /\ backlog \in Seq(Clients)
      /\ serving' = Head(backlog) /\ backlog' = Tail(backlog) /\ spc' = "read"
      /\ UNCHANGED <<disk, client, toServer, toClient, scmd, off>>
  BY <1>0 DEF Accept, Serving
<1>2. Head(backlog) \in Clients /\ Tail(backlog) \in Seq(Clients)
  BY <1>1, HeadTailProperties
<1>c. PICK c \in Clients : c = Head(backlog)
  BY <1>2
<1>3. serving = Nobody /\ Nobody \notin Clients
  BY <1>0, <1>1, ConstantsAssumption DEF Serving
<1>4. Serving'
  BY <1>0, <1>1, <1>2, <1>3 DEF Serving
<1>5. Local(c)
  BY DEF IInv
<1>6. ShapeOf(c)' /\ LimitsOf(c)' /\ FreshOf(c)' /\ WholeOf(c)'
  BY <1>1, <1>5 DEF Local, ShapeOf, LimitsOf, FreshOf, WholeOf, Gone, Downloading, Contents, InOrder
<1>7. OrderOf(c)'
  <2>1. ~Exchange(c)
    BY <1>3 DEF Exchange
  <2> QED
    BY <1>1, <1>5, <2>1 DEF Local, OrderOf, Downloading, Quiet, Asking, Resting, Spoiled
<1>8. Local(c)'
  BY <1>6, <1>7 DEF Local
<1>9. /\ toServer' = [toServer EXCEPT ![c] = toServer'[c]]
      /\ toClient' = [toClient EXCEPT ![c] = toClient'[c]]
  BY <1>0, <1>1 DEF Functions
<1> QED
  BY <1>1, <1>c, <1>3, <1>4, <1>8, <1>9, OneServed

LEMMA ReadCommandStep == IInv /\ ReadCommand => IInv'
<1> SUFFICES ASSUME IInv, ReadCommand PROVE IInv'
  OBVIOUS
<1>0. Functions /\ Serving
  BY DEF IInv
<1> DEFINE c == serving
<1>1. /\ spc = "read"
      /\ UNCHANGED <<disk, client, toClient, backlog, serving, off>>
  BY DEF ReadCommand
<1>2. c \in Clients
  BY <1>0, <1>1 DEF Serving
<1>3. Local(c)
  BY <1>2 DEF IInv
<1>4. toServer[c] \in Seq(Commands) /\ Len(toServer[c]) \in Nat
  BY <1>3, LenProperties DEF Local, ShapeOf
<1>5. PICK k \in 1 .. Len(toServer[c]) :
        /\ toServer' = [toServer EXCEPT ![c] = SubSeq(@, k + 1, Len(@))]
        /\ scmd' = Head(toServer[c])
        /\ spc' = IF k = 1 THEN "mark" ELSE "error"
  BY DEF ReadCommand
<1>6. toServer'[c] = SubSeq(toServer[c], k + 1, Len(toServer[c]))
  BY <1>0, <1>2, <1>5 DEF Functions
<1>7. /\ toServer'[c] \in Seq(Commands)
      /\ Len(toServer'[c]) = Len(toServer[c]) - k
  BY <1>4, <1>6, Rest
<1>8. toServer[c] # <<>>
  BY <1>5
<1>9. scmd' \in Commands
  BY <1>4, <1>5, <1>8, HeadTailProperties
<1>10. Serving'
  BY <1>0, <1>1, <1>2, <1>5, <1>9, ConstantsAssumption DEF Serving
<1>11. ShapeOf(c)' /\ LimitsOf(c)' /\ FreshOf(c)' /\ WholeOf(c)'
  BY <1>1, <1>3, <1>7
     DEF Local, ShapeOf, LimitsOf, FreshOf, WholeOf, Gone, Downloading, Contents, InOrder
<1>12. OrderOf(c)'
  <2>1. ASSUME ~client[c].slipped, client[c].pc \in {"off", "menu"}
        PROVE  Spoiled(c)'
    BY <1>1, <1>3, <1>8, <2>1 DEF Local, OrderOf, Quiet, Spoiled
  <2>2. ASSUME ~client[c].slipped, Downloading(c), ~Spoiled(c)
        PROVE  Exchange(c)'
    <3>1. Asking(c)
      BY <1>3, <1>8, <2>2 DEF Local, OrderOf, Exchange
    <3>2. client[c].pc = "await" /\ toServer[c] = <<client[c].cmd>> /\ toClient[c] = <<>>
      BY <3>1 DEF Asking
    <3>3. k = 1 /\ Len(toServer[c]) = 1 /\ Head(toServer[c]) = client[c].cmd
      BY <1>5, <3>2
    <3>4. toServer'[c] = <<>>
      BY <1>7, <3>3
    <3>5. spc' = "mark" /\ scmd' = client[c].cmd
      BY <1>5, <3>3
    <3>6. Taken(c)' = 0 /\ Given(client[c].cmd)' = 0 /\ Len(toClient[c]) = 0
      BY <1>1, <3>2, <3>5 DEF Taken, Given
    <3> QED
      BY <1>1, <3>2, <3>4, <3>5, <3>6 DEF Exchange
  <2> QED
    BY <1>1, <2>1, <2>2 DEF OrderOf, Downloading, Spoiled
<1>13. Local(c)'
  BY <1>11, <1>12 DEF Local
<1>14. /\ toServer' = [toServer EXCEPT ![c] = toServer'[c]]
       /\ toClient' = [toClient EXCEPT ![c] = toClient'[c]]
  BY <1>0, <1>1, <1>5 DEF Functions
<1> QED
  BY <1>1, <1>2, <1>10, <1>13, <1>14, OneServed

LEMMA ClientExitStep == IInv /\ ClientExit => IInv'
<1> SUFFICES ASSUME IInv, ClientExit PROVE IInv'
  OBVIOUS
<1>0. Functions /\ Serving
  BY DEF IInv
<1> DEFINE c == serving
<1>1. /\ spc = "read" /\ client[serving].pc \in {"closed", "reset"}
      /\ toServer' = [toServer EXCEPT ![serving] = <<>>]
      /\ serving' = Nobody /\ spc' = "accept"
      /\ UNCHANGED <<disk, client, toClient, backlog, scmd, off>>
  BY DEF ClientExit
<1>2. serving \in Clients
  BY <1>0, <1>1 DEF Serving
<1>3. PICK d \in Clients : d = serving
  BY <1>2
<1>4. Local(d)
  BY DEF IInv
<1>5. toServer'[d] = <<>> /\ <<>> \in Seq(Commands)
  BY <1>0, <1>1, <1>3 DEF Functions
<1>6. Serving'
  BY <1>0, <1>1 DEF Serving
<1>7. ShapeOf(d)' /\ LimitsOf(d)' /\ FreshOf(d)' /\ WholeOf(d)'
  BY <1>1, <1>4, <1>5
     DEF Local, ShapeOf, LimitsOf, FreshOf, WholeOf, Gone, Downloading, Contents, InOrder
<1>8. OrderOf(d)'
  BY <1>1, <1>3 DEF OrderOf, Downloading
<1>9. Local(d)'
  BY <1>7, <1>8 DEF Local
<1>10. /\ toServer' = [toServer EXCEPT ![d] = toServer'[d]]
       /\ toClient' = [toClient EXCEPT ![d] = toClient'[d]]
  BY <1>0, <1>1, <1>3, <1>5 DEF Functions
<1> QED
  BY <1>1, <1>3, <1>6, <1>9, <1>10, OneServed

\* One unit more of the answer in the stream.
LEMMA Extended ==
  ASSUME NEW c \in Clients, toClient[c] \in Seq(Units), Taken(c) \in Nat, Exchange(c),
         NEW unit \in Units, unit = AnswerAt(client[c].cmd, Given(client[c].cmd) + 1),
         UNCHANGED <<client, disk, toServer, serving, scmd>>,
         toClient'[c] = Append(toClient[c], unit),
         spc # "read", spc' \in {"size", "data"},
         Given(client[c].cmd)' = Given(client[c].cmd) + 1
  PROVE  Exchange(c)'
<1> DEFINE cmd == client[c].cmd
<1>1. /\ toServer[c] = <<>> /\ serving = c /\ scmd = cmd
      /\ Taken(c) + Len(toClient[c]) = Given(cmd)
      /\ \A i \in 1 .. Len(toClient[c]) : toClient[c][i] = AnswerAt(cmd, Taken(c) + i)
      /\ client[c].pc = "body" =>
           /\ disk[cmd] # Missing /\ client[c].want = disk[cmd]
           /\ client[c].got < client[c].want
           /\ Kept(cmd, client[c].saved, client[c].got, client[c].lost)
  BY DEF Exchange
<1>2. Len(toClient[c]) \in Nat
  BY LenProperties
<1>3. /\ Len(toClient'[c]) = Len(toClient[c]) + 1
      /\ \A i \in 1 .. Len(toClient[c]) : toClient'[c][i] = toClient[c][i]
      /\ toClient'[c][Len(toClient[c]) + 1] = unit
  BY <1>2, AppendProperties
<1>4. Taken(c)' = Taken(c)
  BY DEF Taken
<1>5. PICK t \in Nat, n \in Nat : t = Taken(c) /\ n = Len(toClient[c])
  BY <1>2
<1>6. t + n = Given(cmd) /\ t + (n + 1) = Given(cmd)'
  <2>1. t + n = Given(cmd)
    BY <1>1, <1>5
  <2>2. Given(cmd)' = (t + n) + 1
    BY <2>1
  <2> QED
    BY <2>1, <2>2
<1>7. ASSUME NEW i \in 1 .. n + 1
      PROVE  toClient'[c][i] = AnswerAt(cmd, t + i)
  <2>1. CASE i \in 1 .. n
    BY <1>1, <1>3, <1>5, <2>1
  <2>2. CASE i = n + 1
    <3>1. t + i = (t + n) + 1
      BY <2>2
    <3>2. unit = AnswerAt(cmd, t + i)
      BY <1>6, <3>1
    <3> QED
      BY <1>3, <1>5, <2>2, <3>2
  <2>3. i \in 1 .. n \/ i = n + 1
    OBVIOUS
  <2> QED
    BY <2>1, <2>2, <2>3
<1>8. /\ Taken(c)' + Len(toClient'[c]) = Given(cmd)'
      /\ \A i \in 1 .. Len(toClient'[c]) : toClient'[c][i] = AnswerAt(cmd, Taken(c)' + i)
  BY <1>3, <1>4, <1>5, <1>6, <1>7
<1>9. ASSUME NEW i PROVE AnswerAt(cmd, i)' = AnswerAt(cmd, i)
  BY DEF AnswerAt
<1>10. client'[c].cmd = cmd
  OBVIOUS
<1> QED
  BY <1>1, <1>8, <1>10 DEF Exchange, AnswerAt, Kept

\* A write: the next unit of the answer, unless the client is gone.
LEMMA WriteStep ==
  ASSUME IInv, NEW unit \in Units, NEW next \in {"read", "size", "data"},
         serving \in Clients, Write(unit, next), Idle, Serving', spc # "read",
         spc = "data" => unit.kind = "data",
         Exchange(serving) /\ spc' = next =>
           LET cmd == client[serving].cmd
           IN  /\ next \in {"size", "data"}
               /\ Given(cmd)' = Given(cmd) + 1 /\ unit = AnswerAt(cmd, Given(cmd) + 1)
  PROVE  IInv'
<1>0. Functions
  BY DEF IInv
<1>1. UNCHANGED <<disk, client, toServer, backlog, serving, scmd>>
  BY DEF Idle
<1>2. PICK c \in Clients : c = serving
  OBVIOUS
<1>3. Local(c)
  BY DEF IInv
<1>4. toClient' = [toClient EXCEPT ![c] = toClient'[c]]
  BY <1>0, <1>2 DEF Write, Functions
<1>5. toServer' = [toServer EXCEPT ![c] = toServer'[c]]
  BY <1>0, <1>1 DEF Functions
<1>6. Local(c)'
  <2>1. CASE Gone(c)
    <3>1. toClient'[c] = toClient[c]
      BY <1>2, <2>1 DEF Write
    <3>2. ShapeOf(c)' /\ LimitsOf(c)' /\ FreshOf(c)' /\ WholeOf(c)'
      BY <1>1, <1>3, <3>1
         DEF Local, ShapeOf, LimitsOf, FreshOf, WholeOf, Gone, Downloading, Contents, InOrder
    <3>3. OrderOf(c)'
      BY <1>1, <2>1 DEF OrderOf, Downloading, Gone
    <3> QED
      BY <3>2, <3>3 DEF Local
  <2>2. CASE ~Gone(c)
    <3>1. /\ toClient' = [toClient EXCEPT ![c] = Append(@, unit)]
          /\ Len(toClient[c]) < Buffer /\ spc' = next
      BY <1>2, <2>2 DEF Write
    <3>2. toClient'[c] = Append(toClient[c], unit) /\ toClient[c] \in Seq(Units)
          /\ client[c] \in States
      BY <1>0, <1>3, <3>1 DEF Functions, Local, ShapeOf
    <3>3. toClient'[c] \in Seq(Units) /\ Len(toClient'[c]) = Len(toClient[c]) + 1
          /\ Len(toClient[c]) \in Nat
      BY <3>2, AppendProperties, LenProperties
    <3>4. Len(toClient'[c]) <= Buffer
      BY <3>1, <3>3, ConstantsAssumption
    <3>5. ShapeOf(c)' /\ LimitsOf(c)' /\ FreshOf(c)' /\ WholeOf(c)'
      BY <1>1, <1>3, <2>2, <3>3, <3>4
         DEF Local, ShapeOf, LimitsOf, FreshOf, WholeOf, Gone, Downloading, Contents, InOrder
    <3>6. OrderOf(c)'
      <4>0. spc # "read" /\ (spc = "data" => unit.kind = "data")
        OBVIOUS
      <4>1. /\ Len(toClient'[c]) > 0
            /\ toClient[c] = <<>> => toClient'[c][1] = unit
            /\ Len(toClient[c]) > 0 => toClient'[c][1] = toClient[c][1]
        <5>1. toClient[c] = <<>> => Len(toClient[c]) = 0
          OBVIOUS
        <5> QED
          BY <3>2, <3>3, <5>1, AppendProperties
      <4>2. ASSUME client[c].pc \in {"off", "menu", "await"}, Quiet(c) \/ Asking(c) \/ Spoiled(c)
            PROVE  Spoiled(c)'
        <5>1. CASE Quiet(c) \/ Asking(c)
          <6>1. toClient[c] = <<>> /\ spc = "data"
            BY <1>2, <4>0, <5>1 DEF Quiet, Asking, Resting
          <6> QED
            BY <1>1, <4>0, <4>1, <4>2, <6>1 DEF Spoiled
        <5>2. CASE Spoiled(c)
          BY <1>1, <4>1, <5>2 DEF Spoiled
        <5> QED
          BY <4>2, <5>1, <5>2
      <4>3. ASSUME ~client[c].slipped, Exchange(c)
            PROVE  Exchange(c)'
        <5>2. Taken(c) \in Nat
          <6>1. client[c].got \in Nat
            BY <3>2 DEF States
          <6> QED
            BY <6>1 DEF Taken
        <5>3. /\ next \in {"size", "data"}
              /\ Given(client[c].cmd)' = Given(client[c].cmd) + 1
              /\ unit = AnswerAt(client[c].cmd, Given(client[c].cmd) + 1)
          BY <1>1, <1>2, <3>1, <4>3
        <5> QED
          BY <1>1, <3>1, <3>2, <4>0, <4>3, <5>2, <5>3, Extended
      <4> QED
        BY <1>1, <1>3, <4>2, <4>3 DEF Local, OrderOf, Downloading, Asking, Spoiled
    <3> QED
      BY <3>5, <3>6 DEF Local
  <2> QED
    BY <2>1, <2>2
<1> QED
  BY <1>1, <1>2, <1>4, <1>5, <1>6, OneServed

\* The server is done, or gives up: it goes back to reading.
LEMMA DoneStep ==
  ASSUME IInv, Idle, UNCHANGED <<toClient, off>>, spc' = "read",
         \/ spc = "size" /\ disk[scmd] = Missing
         \/ spc = "data"
  PROVE  IInv'
<1>0. Functions /\ Serving
  BY DEF IInv
<1>1. UNCHANGED <<disk, client, toServer, toClient, backlog, serving, scmd, off>>
  BY DEF Idle
<1>2. PICK c \in Clients : c = serving
  BY <1>0 DEF Serving
<1>3. Local(c)
  BY DEF IInv
<1>4. Serving'
  BY <1>0, <1>1 DEF Serving
<1>5. /\ toServer' = [toServer EXCEPT ![c] = toServer'[c]]
      /\ toClient' = [toClient EXCEPT ![c] = toClient'[c]]
  BY <1>0, <1>1 DEF Functions
<1>6. ShapeOf(c)' /\ LimitsOf(c)' /\ FreshOf(c)' /\ WholeOf(c)'
  BY <1>1, <1>3 DEF Local, ShapeOf, LimitsOf, FreshOf, WholeOf, Gone, Downloading, Contents, InOrder
<1>7. ASSUME Exchange(c) PROVE Exchange(c)'
  <2> DEFINE cmd == client[c].cmd
  <2>1. scmd = cmd
    BY <1>7 DEF Exchange
  <2>2. spc = "data" => disk[cmd] # Missing
    BY <1>0, <2>1 DEF Serving
  <2>3. Given(cmd)' = Given(cmd)
    BY <1>1, <2>1, <2>2 DEF Given
  <2>4. Taken(c)' = Taken(c)
    BY <1>1 DEF Taken
  <2>5. /\ Taken(c)' + Len(toClient'[c]) = Given(cmd)'
        /\ \A i \in 1 .. Len(toClient'[c]) : toClient'[c][i] = AnswerAt(cmd, Taken(c) + i)'
    BY <1>1, <1>7, <2>3, <2>4 DEF Exchange, AnswerAt
  <2> QED
    BY <1>1, <1>7, <2>5 DEF Exchange, Kept
<1>8. OrderOf(c)'
  BY <1>1, <1>3, <1>7 DEF Local, OrderOf, Downloading, Quiet, Asking, Resting, Spoiled
<1>9. Local(c)'
  BY <1>6, <1>8 DEF Local
<1> QED
  BY <1>1, <1>2, <1>4, <1>5, <1>9, OneServed

LEMMA UnitsWritten ==
  ASSUME IInv
  PROVE  /\ Mark \in Units /\ Unknown \in Units
         /\ spc = "size" /\ disk[scmd] # Missing =>
              SizeOf(disk[scmd]) \in Units /\ disk[scmd] \in Nat
         /\ spc = "data" /\ off < disk[scmd] + MaxGrowth =>
              Data(scmd, off + 1) \in Units /\ off + 1 \in 0 .. MaxSize + MaxGrowth
<1>0. Serving
  BY DEF IInv
<1>1. Mark \in Units /\ Unknown \in Units
  BY DEF Units
<1>2. ASSUME scmd \in Commands, disk[scmd] # Missing
      PROVE  disk[scmd] \in Sizes /\ disk[scmd] \in 0 .. MaxSize /\ disk[scmd] \in Nat
  <2>1. disk[scmd] \in Sizes
    BY <1>0, <1>2 DEF Serving
  <2>2. Sizes \subseteq 0 .. MaxSize /\ MaxSize \in Nat
    BY ConstantsAssumption
  <2>3. disk[scmd] \in 0 .. MaxSize
    BY <2>1, <2>2
  <2> QED
    BY <2>1, <2>2, <2>3
<1>3. ASSUME spc = "size", disk[scmd] # Missing
      PROVE  SizeOf(disk[scmd]) \in Units /\ disk[scmd] \in Nat
  <2>1. disk[scmd] \in Sizes /\ disk[scmd] \in Nat
    BY <1>0, <1>2, <1>3 DEF Serving
  <2> QED
    BY <2>1 DEF Units
<1>4. ASSUME spc = "data", off < disk[scmd] + MaxGrowth
      PROVE  Data(scmd, off + 1) \in Units /\ off + 1 \in 0 .. MaxSize + MaxGrowth
  <2>1. scmd \in Commands /\ disk[scmd] \in 0 .. MaxSize /\ off \in 0 .. MaxSize + MaxGrowth
    BY <1>0, <1>2, <1>4 DEF Serving
  <2>2. off + 1 \in 1 .. MaxSize + MaxGrowth /\ off + 1 \in 0 .. MaxSize + MaxGrowth
    BY <1>4, <2>1, ConstantsAssumption
  <2>3. PICK k \in 1 .. MaxSize + MaxGrowth : k = off + 1
    BY <2>2
  <2>4. Data(scmd, k) \in {Data(p[1], p[2]) : p \in Commands \X (1 .. MaxSize + MaxGrowth)}
    <3>1. <<scmd, k>> \in Commands \X (1 .. MaxSize + MaxGrowth)
      BY <2>1
    <3>2. <<scmd, k>>[1] = scmd /\ <<scmd, k>>[2] = k
      OBVIOUS
    <3> QED
      BY <3>1, <3>2
  <2> QED
    BY <2>1, <2>2, <2>3, <2>4 DEF Units
<1> QED
  BY <1>1, <1>3, <1>4

LEMMA AnswerStep == IInv /\ (AnswerMark \/ AnswerError \/ SendSize \/ SendData) => IInv'
<1> SUFFICES ASSUME IInv, AnswerMark \/ AnswerError \/ SendSize \/ SendData PROVE IInv'
  OBVIOUS
<1> DEFINE cmd == client[serving].cmd
<1>0. Serving /\ Idle /\ UNCHANGED <<disk, client, toServer, backlog, serving, scmd>>
  BY DEF IInv, AnswerMark, AnswerError, SendSize, SendData, Idle
<1>1. /\ spc \in {"mark", "error", "size", "data"} /\ serving \in Clients
      /\ off \in Nat /\ MaxSize \in Nat
  BY <1>0, ConstantsAssumption
     DEF AnswerMark, AnswerError, SendSize, SendData, Serving
<1>2. ASSUME NEW unit, NEW next, Write(unit, next)
      PROVE  spc' = next \/ (spc' = "dead" /\ Gone(serving)')
  BY <1>0, <1>2 DEF Write, Gone
<1>3. CASE AnswerMark
  <2>1. Write(Mark, "size") /\ spc = "mark" /\ off' = off
    BY <1>3 DEF AnswerMark
  <2>2. Serving'
    <3>1. spc' = "size" \/ (spc' = "dead" /\ Gone(serving)')
      BY <1>2, <2>1
    <3> QED
      BY <1>0, <1>1, <2>1, <3>1, ConstantsAssumption DEF Serving
  <2>4. ASSUME spc' = "size"
        PROVE  Given(cmd) = 0 /\ Given(cmd)' = 1 /\ Mark = AnswerAt(cmd, 1)
    BY <2>1, <2>4 DEF Given, AnswerAt
  <2>5. spc' = "size" =>
          Given(cmd)' = Given(cmd) + 1 /\ Mark = AnswerAt(cmd, Given(cmd) + 1)
    BY <2>4
  <2> QED
    BY <1>0, <1>1, <2>1, <2>2, <2>5, UnitsWritten, WriteStep
<1>4. CASE AnswerError
  <2>1. Write(Unknown, "read") /\ spc = "error" /\ off' = off
    BY <1>4 DEF AnswerError
  <2>2. Serving'
    <3>1. spc' = "read" \/ (spc' = "dead" /\ Gone(serving)')
      BY <1>2, <2>1
    <3> QED
      BY <1>0, <1>1, <2>1, <3>1, ConstantsAssumption DEF Serving
  <2>3. ~Exchange(serving)
    BY <2>1 DEF Exchange
  <2> QED
    BY <1>0, <1>1, <2>1, <2>2, <2>3, UnitsWritten, WriteStep
<1>5. CASE SendSize
  <2>0. spc = "size"
    BY <1>5 DEF SendSize
  <2>1. CASE disk[scmd] = Missing /\ spc' = "read" /\ UNCHANGED <<toClient, off>>
    BY <1>0, <2>0, <2>1, DoneStep
  <2>2. CASE disk[scmd] # Missing /\ Write(SizeOf(disk[scmd]), "data") /\ off' = 0
    <3>1. SizeOf(disk[scmd]) \in Units /\ disk[scmd] \in Nat
      BY <2>0, <2>2, UnitsWritten
    <3>2. Serving'
      <4>1. spc' = "data" \/ (spc' = "dead" /\ Gone(serving)')
        BY <1>2, <2>2
      <4>2. 0 \in 0 .. MaxSize + MaxGrowth /\ scmd \in Commands
        BY <1>0, <1>1, <2>0, <3>1, ConstantsAssumption DEF Serving
      <4> QED
        BY <1>0, <1>1, <2>2, <4>1, <4>2, ConstantsAssumption DEF Serving
    <3>4. ASSUME Exchange(serving), spc' = "data"
          PROVE  /\ Given(cmd) = 1 /\ Given(cmd)' = 2
                 /\ SizeOf(disk[scmd]) = AnswerAt(cmd, 2)
      <4>1. scmd = cmd
        BY <2>0, <3>4 DEF Exchange
      <4>2. Given(cmd) = 1
        BY <2>0 DEF Given
      <4>3. Given(cmd)' = 2 + off'
        BY <3>4 DEF Given
      <4>4. Given(cmd)' = 2
        BY <2>2, <4>3
      <4>5. SizeOf(disk[scmd]) = AnswerAt(cmd, 2)
        BY <4>1 DEF AnswerAt
      <4> QED
        BY <4>2, <4>4, <4>5
    <3>5. Exchange(serving) /\ spc' = "data" =>
            /\ Given(cmd)' = Given(cmd) + 1
            /\ SizeOf(disk[scmd]) = AnswerAt(cmd, Given(cmd) + 1)
      BY <3>4
    <3> QED
      BY <1>0, <1>1, <2>0, <2>2, <3>1, <3>2, <3>5, WriteStep
  <2> QED
    BY <1>5, <2>1, <2>2 DEF SendSize
<1>6. CASE SendData
  <2>0. spc = "data"
    BY <1>6 DEF SendData
  <2>1. CASE spc' = "read" /\ UNCHANGED <<toClient, off>>
    BY <1>0, <2>0, <2>1, DoneStep
  <2>2. CASE off < disk[scmd] + MaxGrowth /\ Write(Data(scmd, off + 1), "data") /\ off' = off + 1
    <3>1. Data(scmd, off + 1) \in Units /\ off + 1 \in 0 .. MaxSize + MaxGrowth
      BY <1>1, <2>0, <2>2, UnitsWritten
    <3>2. Serving'
      <4>1. spc' = "data" \/ (spc' = "dead" /\ Gone(serving)')
        BY <1>2, <2>2
      <4>2. scmd \in Commands /\ disk[scmd] # Missing
        BY <1>0, <2>0 DEF Serving
      <4> QED
        BY <1>0, <1>1, <2>2, <3>1, <4>1, <4>2, ConstantsAssumption DEF Serving
    <3>3. Data(scmd, off + 1).kind = "data"
      BY DEF Data
    <3>4. ASSUME Exchange(serving), spc' = "data"
          PROVE  /\ Given(cmd) = 2 + off /\ Given(cmd)' = (2 + off) + 1
                 /\ Data(scmd, off + 1) = AnswerAt(cmd, (2 + off) + 1)
      <4>1. scmd = cmd
        BY <2>0, <3>4 DEF Exchange
      <4>2. Given(cmd) = 2 + off
        BY <2>0 DEF Given
      <4>3. Given(cmd)' = 2 + off'
        BY <3>4 DEF Given
      <4>4. 2 + off' = (2 + off) + 1
        BY <1>1, <2>2
      <4>5. (2 + off) + 1 # 1 /\ (2 + off) + 1 # 2 /\ (2 + off) + 1 - 2 = off + 1
        BY <1>1
      <4>6. Data(scmd, off + 1) = AnswerAt(cmd, (2 + off) + 1)
        <5>1. PICK j \in Nat : j = (2 + off) + 1
          BY <1>1
        <5>2. AnswerAt(cmd, j) = Data(cmd, j - 2)
          BY <4>5, <5>1 DEF AnswerAt
        <5>3. j - 2 = off + 1
          BY <1>1, <5>1
        <5>4. Data(cmd, j - 2) = Data(scmd, off + 1)
          BY <4>1, <5>3, Zenon
        <5> QED
          BY <5>1, <5>2, <5>4, Zenon
      <4> QED
        BY <4>2, <4>3, <4>4, <4>6
    <3>5. Exchange(serving) /\ spc' = "data" =>
            /\ Given(cmd)' = Given(cmd) + 1
            /\ Data(scmd, off + 1) = AnswerAt(cmd, Given(cmd) + 1)
      BY <3>4
    <3> QED
      BY <1>0, <1>1, <2>0, <2>2, <3>1, <3>2, <3>3, <3>5, WriteStep
  <2> QED
    BY <1>6, <2>1, <2>2 DEF SendData
<1> QED
  BY <1>3, <1>4, <1>5, <1>6

---------------------------------------------------------------------------
(* The theorems *)

LEMMA Start == Init => IInv
<1> SUFFICES ASSUME Init PROVE IInv
  OBVIOUS
<1>1. Functions
  BY DEF Init, Functions
<1>2. Serving
  <2>1. <<>> \in Seq(Clients) /\ 0 \in 0 .. MaxSize
    BY ConstantsAssumption
  <2> QED
    BY <2>1, ConstantsAssumption DEF Init, Serving
<1>3. ASSUME NEW c \in Clients PROVE Local(c)
  <2>0. PICK plan \in Plans : client = [d \in Clients |-> [NewClient EXCEPT !.asks = plan[d]]]
    BY DEF Init
  <2> DEFINE new == [NewClient EXCEPT !.asks = plan[c]]
  <2>1. client[c] = new /\ toServer[c] = <<>> /\ toClient[c] = <<>> /\ serving # c
    BY <2>0, ConstantsAssumption DEF Init
  <2>2. new \in States
    <3>1. <<>> \in Seq(Units) /\ 0 \in Nat /\ 0 \in 0 .. MaxSize + 1 /\ plan[c] \in Nat
      BY ConstantsAssumption
    <3> QED
      BY <3>1 DEF NewClient, States
  <2>3. <<>> \in Seq(Units) /\ <<>> \in Seq(Commands) /\ Len(<<>>) = 0
    OBVIOUS
  <2>4. ShapeOf(c)
    BY <2>1, <2>2, <2>3 DEF ShapeOf
  <2>5. LimitsOf(c)
    BY <2>1, <2>2, <2>3, ConstantsAssumption DEF LimitsOf, NewClient, Gone
  <2>6. FreshOf(c) /\ WholeOf(c)
    BY <2>1 DEF FreshOf, WholeOf, NewClient, Downloading
  <2>7. OrderOf(c)
    BY <2>1 DEF OrderOf, NewClient, Downloading, Quiet, Resting
  <2> QED
    BY <2>4, <2>5, <2>6, <2>7 DEF Local
<1> QED
  BY <1>1, <1>2, <1>3 DEF IInv

LEMMA Stutter == IInv /\ UNCHANGED vars => IInv'
  BY DEF vars, IInv, Functions, Serving, Local, ShapeOf, LimitsOf, FreshOf, WholeOf, OrderOf,
         Gone, Downloading, Contents, InOrder, Spoiled, Kept, Quiet, Asking, Exchange, Resting, Taken, Given, AnswerAt

LEMMA Step == IInv /\ [Next]_vars => IInv'
<1> SUFFICES ASSUME IInv, [Next]_vars PROVE IInv'
  OBVIOUS
<1>1. CASE ServerNext
  BY <1>1, AcceptStep, ReadCommandStep, ClientExitStep, AnswerStep DEF ServerNext
<1>2. ASSUME NEW c \in Clients, Connect(c) \/ Leave(c) \/ ClientRead(c)
      PROVE  IInv'
  BY <1>2, ConnectStep, LeaveStep, ReadResponseStep, ReadSizeStep, ReadBodyStep, ReadEndStep
     DEF ClientRead
<1>3. ASSUME NEW c \in Clients, NEW cmd \in Commands, Ask(c, cmd)
      PROVE  IInv'
  BY <1>3, AskStep
<1>4. CASE UNCHANGED vars
  BY <1>4, Stutter
<1> QED
  BY <1>1, <1>2, <1>3, <1>4 DEF Next

\* The stream and both programs stay in the same answer: Exchange, or nothing
\* is under way.
THEOREM Invariance == Spec => []IInv
  BY Start, Step, PTL DEF Spec

\* Every buffer keeps its size and nothing waits for a client that is gone, and
\* the server reads and writes only while it serves somebody.
THEOREM TypeCorrect == Spec => []TypeOK
  BY Invariance, Types, PTL

\* What a client reports as received is the file it asked for, all of it,
\* however the stream is cut, as long as it reads in step.
THEOREM DownloadWhole == Spec => []WholeInStep
<1>1. IInv => WholeInStep
  BY DEF IInv, Local, WholeOf, WholeInStep
<1> QED
  BY <1>1, Invariance, PTL

=============================================================================
