---------------------------- MODULE FileTransfer ----------------------------
(***************************************************************************)
(* network-programming: server_demo.c serves one client at a time, and     *)
(* client_demo.c asks it for one of three files.  An answer is a marker,   *)
(* the size and the contents, three kinds of writes on a stream that keeps *)
(* no boundaries: one read of the client may return several of them.       *)
(* A unit stands for eight bytes or more of the stream, of one write.      *)
(***************************************************************************)
EXTENDS Naturals, Sequences, SequencesExt

CONSTANTS
  Clients, Commands,
  Sizes, MaxSize,    \* bounds: the sizes of files, in units, and the largest
  MaxGrowth,         \* bound: units a file grows by while it is being sent
  Plans,             \* bound: how many commands each client sends, one way or another
  Chunk,             \* MAX_CNT, in units
  Buffer,            \* units a socket takes before write blocks
  Missing, Nobody

ASSUME ConstantsAssumption ==
  /\ {MaxSize, MaxGrowth} \subseteq Nat /\ Plans \subseteq [Clients -> Nat]
  /\ Sizes \subseteq 0 .. MaxSize
  /\ {Chunk, Buffer} \subseteq Nat \ {0}
  /\ Nobody \notin Clients /\ Missing \notin Nat

VARIABLES
  disk,              \* the size fstat finds for the file of each command, or Missing
  client,            \* the local state of each client
  toServer, toClient, \* the two streams of each connection
  backlog, serving,  \* connections not accepted, and connect_fd
  spc, scmd, off     \* server: where it is, the command, units of it sent

vars == <<disk, client, toServer, toClient, backlog, serving, spc, scmd, off>>

server == <<backlog, serving, spc, scmd, off>>

Mark    == [kind |-> "mark"]
Unknown == [kind |-> "error"]
SizeAndOne(n) == [kind |-> "size", n |-> n + 1]
SizeOf(n)     == [kind |-> "size", n |-> n]
Data(cmd, k) == [kind |-> "data", cmd |-> cmd, n |-> k]

Contents(cmd) == [k \in 1 .. disk[cmd] |-> Data(cmd, k)]

\* asks: commands it still sends; got: total_received; saved: the file it writes.  History: slipped, it has read
\* the stream out of step; lost, a write of its own did not take everything.
NewClient == [pc |-> "off", asks |-> 0, cmd |-> Missing, want |-> 0, got |-> 0,
              saved |-> <<>>, result |-> "none", slipped |-> FALSE, lost |-> FALSE]

Gone(c) == client[c].pc \in {"closed", "reset"}

Init ==
  /\ disk \in [Commands -> {Missing} \cup Sizes]
  /\ \E plan \in Plans : client = [c \in Clients |-> [NewClient EXCEPT !.asks = plan[c]]]
  /\ toServer = [c \in Clients |-> <<>>] /\ toClient = [c \in Clients |-> <<>>]
  /\ backlog = <<>> /\ serving = Nobody /\ spc = "accept" /\ scmd = Missing /\ off = 0

---------------------------------------------------------------------------
(* The client *)

Connect(c) ==
  /\ client[c].pc = "off" /\ spc # "dead"
  /\ client' = [client EXCEPT ![c].pc = "menu"]
  /\ backlog' = Append(backlog, c)
  /\ UNCHANGED <<disk, toServer, toClient, serving, spc, scmd, off>>

Ask(c, cmd) ==       \* a valid command is sent; others never leave the menu
  /\ client[c].pc = "menu" /\ client[c].asks > 0
  /\ client' = [client EXCEPT ![c].pc = "await", ![c].asks = @ - 1, ![c].cmd = cmd, ![c].got = 0,
                              ![c].saved = <<>>, ![c].result = "none", ![c].lost = FALSE]
  /\ toServer' = [toServer EXCEPT ![c] = Append(@, cmd)]
  /\ UNCHANGED <<disk, toClient, server>>

\* q at the menu, or the user ends the program anywhere.  Closing a socket with
\* something unread in it resets the connection.
Leave(c) ==
  /\ client[c].pc \notin {"off", "closed", "reset"}
  /\ client' = [client EXCEPT ![c].pc = IF toClient[c] = <<>> THEN "closed" ELSE "reset"]
  /\ toClient' = [toClient EXCEPT ![c] = <<>>]
  /\ UNCHANGED <<disk, toServer, server>>

\* What strstr finds: nothing behind a size, which has zero bytes; behind
\* contents it depends on what they are.
MayFind(units) ==
  \E i \in DOMAIN units : units[i] = Mark /\ \A j \in 1 .. i - 1 : units[j].kind # "size"

MustFind(units) == units # <<>> /\ units[1] = Mark

ReadResponse(c) ==   \* one read, of whatever has arrived
  /\ client[c].pc = "await"
  /\ \E k \in 1 .. Len(toClient[c]) :
       LET got == SubSeq(toClient[c], 1, k)
       IN  /\ toClient' = [toClient EXCEPT ![c] = SubSeq(@, k + 1, Len(@))]
           /\ \/ /\ MayFind(got)
                 /\ client' = [client EXCEPT ![c].pc = "size",
                                             ![c].slipped = @ \/ got # <<Mark>>]
              \/ /\ ~MustFind(got)
                 /\ client' = [client EXCEPT ![c].pc = "menu", ![c].slipped = TRUE]
  /\ UNCHANGED <<disk, toServer, server>>

\* receive_file reads eight bytes: the size, or what stands where it was.
SizeRead(unit) == IF unit.kind = "size" THEN {unit.n} ELSE 0 .. MaxSize + 1

ReadSize(c) ==
  /\ client[c].pc = "size" /\ toClient[c] # <<>>
  /\ \E n \in SizeRead(Head(toClient[c])), opens \in BOOLEAN :
       client' = [client EXCEPT
         ![c].pc      = IF n > 0 /\ opens THEN "body" ELSE "menu",
         ![c].want    = n,
         ![c].result  = IF n > 0 /\ opens THEN @ ELSE "failed",
         ![c].slipped = @ \/ Head(toClient[c]).kind # "size" \/ (n > 0 /\ ~opens)]
  /\ toClient' = [toClient EXCEPT ![c] = Tail(@)]
  /\ UNCHANGED <<disk, toServer, server>>

AskedChunk(c) == Chunk

\* How much one read of the body asks for.
Asked(c) ==
  LET left == client[c].want - client[c].got
  IN  IF left > Chunk THEN Chunk ELSE left

AnyBlock(c, got) == TRUE

Whole(c, got) == got >= client[c].want

\* A block is read and written to the file.  Nobody looks at what write took of
\* it, j units: on a full disk that is less, and still counted as received.
ReadBody(c) ==
  /\ client[c].pc = "body"
  /\ \E k \in 1 .. Asked(c), j \in 0 .. Asked(c) :
       /\ k <= Len(toClient[c]) /\ j <= k
       /\ LET whole == Whole(c, client[c].got + k)
          IN  client' = [client EXCEPT ![c].got = @ + k,
                                       ![c].saved = @ \o SubSeq(toClient[c], 1, j),
                                       ![c].lost = @ \/ j < k,
                                       ![c].pc = IF whole THEN "menu" ELSE @,
                                       ![c].result = IF whole THEN "received" ELSE @]
       /\ toClient' = [toClient EXCEPT ![c] = SubSeq(@, k + 1, Len(@))]
  /\ UNCHANGED <<disk, toServer, server>>

\* The server is gone: read tells, the response's and the file's end differently.
ReadEnd(c) ==
  /\ spc = "dead" /\ toClient[c] = <<>>
  /\ \/ /\ client[c].pc = "await"
        /\ client' = [client EXCEPT ![c].pc = "closed"]
     \/ /\ client[c].pc \in {"size", "body"}
        /\ client' = [client EXCEPT ![c].pc = "menu", ![c].result = "failed"]
  /\ UNCHANGED <<disk, toServer, toClient, server>>

---------------------------------------------------------------------------
(* The server *)

Accept ==
  /\ spc = "accept" /\ backlog # <<>>
  /\ serving' = Head(backlog) /\ backlog' = Tail(backlog) /\ spc' = "read"
  /\ UNCHANGED <<disk, client, toServer, toClient, scmd, off>>

ReadCommand ==       \* more than one command in one read is an unknown one
  /\ spc = "read"
  /\ \E k \in 1 .. Len(toServer[serving]) :
       /\ toServer' = [toServer EXCEPT ![serving] = SubSeq(@, k + 1, Len(@))]
       /\ scmd' = Head(toServer[serving])
       /\ spc' = IF k = 1 THEN "mark" ELSE "error"
  /\ UNCHANGED <<disk, client, toClient, backlog, serving, off>>

ClientExit ==        \* read returns 0, or fails after a reset
  /\ spc = "read"
  /\ \/ client[serving].pc = "closed" /\ toServer[serving] = <<>>
     \/ client[serving].pc = "reset"
  /\ toServer' = [toServer EXCEPT ![serving] = <<>>]
  /\ serving' = Nobody /\ spc' = "accept"
  /\ UNCHANGED <<disk, client, toClient, backlog, scmd, off>>

\* A write blocks while the client does not read.  Nobody looks at its result:
\* once the client is gone it is lost, or SIGPIPE ends the server.
Write(unit, next) ==
  \/ /\ ~Gone(serving) /\ Len(toClient[serving]) < Buffer
     /\ toClient' = [toClient EXCEPT ![serving] = Append(@, unit)]
     /\ spc' = next
  \/ /\ Gone(serving)
     /\ spc' \in {next, "dead"}
     /\ UNCHANGED toClient

Idle == UNCHANGED <<disk, client, toServer, backlog, serving, scmd>>

AnswerMark  == spc = "mark" /\ Write(Mark, "size") /\ Idle /\ UNCHANGED off

AnswerError == spc = "error" /\ Write(Unknown, "read") /\ Idle /\ UNCHANGED off

SendSize ==          \* send_file gives up silently when the file is missing
  /\ spc = "size"
  /\ \/ disk[scmd] = Missing /\ spc' = "read" /\ UNCHANGED <<toClient, off>>
     \/ disk[scmd] # Missing /\ Write(SizeOf(disk[scmd]), "data") /\ off' = 0
  /\ Idle

\* The loop runs as long as read returns something, whatever size was announced:
\* it ends early on an error (a directory, a bad disk) or when the file has been
\* truncated, and goes on when the file has grown.
SendData ==
  /\ spc = "data"
  /\ \/ /\ off < disk[scmd] + MaxGrowth
        /\ Write(Data(scmd, off + 1), "data") /\ off' = off + 1
     \/ spc' = "read" /\ UNCHANGED <<toClient, off>>
  /\ Idle

---------------------------------------------------------------------------
ClientRead(c) == ReadResponse(c) \/ ReadSize(c) \/ ReadBody(c) \/ ReadEnd(c)

ServerNext ==
  \/ Accept \/ ReadCommand \/ ClientExit
  \/ AnswerMark \/ AnswerError \/ SendSize \/ SendData

Next ==
  \/ ServerNext
  \/ \E c \in Clients : Connect(c) \/ Leave(c) \/ ClientRead(c)
  \/ \E c \in Clients, cmd \in Commands : Ask(c, cmd)

Spec == Init /\ [][Next]_vars

\* The two programs run on; the user need not do anything.
FairSpec == Spec /\ WF_vars(ServerNext) /\ \A c \in Clients : WF_vars(ClientRead(c))

---------------------------------------------------------------------------
(* Properties *)

\* The type invariant; only a client that is not gone has an answer under way.
TypeOK ==
  /\ disk \in [Commands -> {Missing} \cup Sizes]
  /\ \A c \in Clients :
       /\ client[c].pc \in {"off", "menu", "await", "size", "body", "closed", "reset"}
       /\ client[c].asks \in Nat /\ client[c].want \in 0 .. MaxSize + 1
       /\ client[c].result \in {"none", "failed", "received"}
       /\ Len(client[c].saved) <= client[c].got /\ client[c].got <= client[c].want
       /\ toServer[c] \in Seq(Commands)
       /\ Len(toClient[c]) <= IF Gone(c) THEN 0 ELSE Buffer
  /\ backlog \in Seq(Clients) /\ serving \in Clients \cup {Nobody}
  /\ spc \in {"accept", "read", "mark", "error", "size", "data", "dead"}
  /\ spc \notin {"accept", "dead"} => serving # Nobody
  /\ off \in 0 .. MaxSize + MaxGrowth

\* These are units of this command's file, in order and none twice.
InOrder(cmd, units) ==
  /\ \A i \in DOMAIN units : \E n \in 1 .. disk[cmd] : units[i] = Data(cmd, n)
  /\ \A i, j \in DOMAIN units : i < j => units[i].n < units[j].n

\* A client that reports a file as received has nothing but parts of the file it
\* asked for, in order, and all of it unless a write of its own lost something, as
\* long as it has read marker, size and contents in step; other clients, and
\* commands before this one, leave no trace in the file.
WholeInStep ==
  \A c \in Clients :
    client[c].result = "received" /\ ~client[c].slipped
      => /\ InOrder(client[c].cmd, client[c].saved)
         /\ ~client[c].lost => client[c].saved = Contents(client[c].cmd)

Downloading(c) == client[c].pc \in {"await", "size", "body"}

\* The server has ended the answer before the size it announced was reached.
CutShort(cmd) == spc = "read" /\ scmd = cmd /\ off < disk[cmd]

\* The client being served gets to its menu again, unless the file is missing,
\* the answer is cut short or it is out of step: then both may wait for the
\* other for ever.
EveryDownloadEnds ==
  \A c \in Clients :
    serving = c /\ Downloading(c)
      ~> \/ ~Downloading(c) \/ client[c].slipped
         \/ disk[client[c].cmd] = Missing \/ CutShort(client[c].cmd)

=============================================================================
