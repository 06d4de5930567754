---------------------------- MODULE HttpResponse ----------------------------
(***************************************************************************)
(* A worker of http_server/server.c answering one request: handle_request, *)
(* send_response_ex, send_file and send_all, while the client reads, hangs *)
(* up or resets, and somebody edits the file.  The header is one unit on   *)
(* the wire; a body is the sequence of the positions of its bytes.         *)
(***************************************************************************)
EXTENDS RangeHeader, Sequences, SequencesExt

CONSTANTS
  MaxSize,     \* bound: bytes of a file
  Chunk,       \* BUFFER_SIZE in send_file
  SockBuf,     \* units the socket send buffer holds
  TextLen,     \* bytes of a literal text answer
  Numbers,     \* numbers in Range headers
  MaxEdits,    \* bound: edits of the file while it is served
  Kinds        \* what a path may name: "absent", "file", "directory"

ASSUME ConstantsAssumption ==
  /\ {MaxSize, MaxEdits} \subseteq Nat
  /\ {Chunk, SockBuf, TextLen} \subseteq Nat \ {0}
  /\ Numbers \subseteq Int
  /\ Kinds \subseteq {"absent", "file", "directory"}

VARIABLES
  req,         \* method, route and Range header
  kind, size,  \* what the path names; bytes now in the file (or directory)
  edits,       \* edits so far
  pc,          \* request, parsed, header, read, send, done, killed
  hdr,         \* status, length, start, end of the response header
  text,        \* is the body a literal text?
  todo,        \* content_len: bytes of the file still to be sent
  off,         \* the file offset
  chunk,       \* bytes handed to send_all and not yet taken by the socket
  sent,        \* body bytes the socket has taken
  inflight,    \* units in the socket buffer
  peer,        \* reading, closed, broken (closed and reset), aborted
  cut          \* did a send fail?

file == <<kind, size, edits>>
conn == <<inflight, peer>>
vars == <<req, file, pc, hdr, text, todo, off, chunk, sent, conn, cut>>

Methods == {"GET", "HEAD", "POST"}
Routes  == {"malformed", "encoding", "/", "/hello", "/image", "/video",
            "relative", "dotted", "baseless", "toolong", "outside", "other"}
FileRoutes == {"/", "/image", "/video", "other"}

NoHdr == [status |-> 0, length |-> 0, start |-> 0, end |-> 0]
Positions(start, n) == [i \in 1 .. n |-> start + i - 1]

Init ==
  /\ req \in [method : Methods, route : Routes, range : RangeHeaders(Numbers)]
  /\ req.route # "/video" => req.range = NoRange
  /\ kind \in Kinds
  /\ req.route \notin FileRoutes => kind = "absent"
  /\ req.route # "other" => kind # "directory"
  /\ size \in IF kind = "absent" THEN {0} ELSE 0 .. MaxSize
  /\ edits = 0
  /\ pc = "request" /\ hdr = NoHdr /\ text = FALSE
  /\ todo = 0 /\ off = 0 /\ chunk = <<>> /\ sent = <<>>
  /\ inflight = 0 /\ peer = "reading" /\ cut = FALSE

---------------------------------------------------------------------------
(* The worker *)

IsHead == req.method = "HEAD"

\* decode_uri_path: escapes are whole and hexadecimal, and the result fits.
Decodes == req.route # "encoding"

\* build_safe_file_path, by the first of its tests that fails: a leading slash,
\* no "..", a base directory, room for the name, and parent and file inside.
BuildSafeFilePath ==
  IF req.route \in {"relative", "toolong"} THEN 400
  ELSE IF req.route \in {"dotted", "outside"} THEN 403
  ELSE IF req.route = "baseless" THEN 500 ELSE 0

\* The answer of handle_request that needs no file, in the order it tests.
LiteralStatus ==
  IF req.route = "malformed" \/ ~Decodes THEN 400
  ELSE IF req.method \notin {"GET", "HEAD"} THEN 405
  ELSE IF req.route = "/hello" THEN 200 ELSE BuildSafeFilePath

\* send_response: the text follows; send_response_head: it does not.
AnswerText(status, body) ==
  /\ hdr' = [status |-> status, length |-> TextLen, start |-> 0, end |-> TextLen - 1]
  /\ text' = TRUE
  /\ chunk' = IF body THEN Positions(0, TextLen) ELSE <<>>
  /\ pc' = "header"

AnswerLiteral ==     \* only /hello looks at the method
  /\ pc = "request" /\ LiteralStatus # 0
  /\ AnswerText(LiteralStatus, LiteralStatus = 200 => ~IsHead)
  /\ UNCHANGED <<req, file, todo, off, sent, conn, cut>>

OpenFails ==         \* 404, whatever the method
  /\ pc = "request" /\ LiteralStatus = 0 /\ kind = "absent"
  /\ AnswerText(404, TRUE)
  /\ UNCHANGED <<req, file, todo, off, sent, conn, cut>>

\* Range is looked at for /video only (enable_range).
Requested == IF req.route = "/video" THEN ParseRange(req.range, size) ELSE Ignored

OpenFile ==          \* open, fstat and the response header
  /\ pc = "request" /\ LiteralStatus = 0 /\ kind # "absent" /\ Requested.result >= 0
  /\ LET r == Requested
         whole == r.result = 0
         start == IF whole THEN 0 ELSE r.start
         end   == IF whole THEN size - 1 ELSE r.end
     IN  /\ hdr' = [status |-> IF whole THEN 200 ELSE 206,
                    length |-> end - start + 1, start |-> start, end |-> end]
         /\ todo' = end - start + 1
  /\ pc' = "header"
  /\ UNCHANGED <<req, file, text, off, chunk, sent, conn, cut>>

OpenOutOfRange ==    \* 416 and no body
  /\ pc = "request" /\ LiteralStatus = 0 /\ kind # "absent" /\ Requested.result < 0
  /\ hdr' = [NoHdr EXCEPT !.status = 416]
  /\ text' = TRUE /\ pc' = "header"
  /\ UNCHANGED <<req, file, todo, off, chunk, sent, conn, cut>>

Room == SockBuf - inflight
CanSend == peer \in {"reading", "closed"} /\ Room > 0

SendBody == ~IsHead  \* the send_body argument of send_file

SendHeader ==        \* send_all of the header; send_file then seeks
  /\ pc = "header" /\ CanSend
  /\ inflight' = inflight + 1
  /\ IF text THEN pc' = (IF chunk = <<>> THEN "done" ELSE "send") /\ UNCHANGED off
     ELSE IF SendBody THEN pc' = "read" /\ off' = hdr.start
     ELSE pc' = "done" /\ UNCHANGED off
  /\ UNCHANGED <<req, file, hdr, text, todo, chunk, sent, peer, cut>>

\* What read returns: up to the end of the file; EISDIR for a directory.
Unlimited(n) == Chunk

Wanted(n) == SmallerOf(n, Chunk)

ReadLen == IF kind = "directory" THEN 0
           ELSE LargerOf(0, SmallerOf(Wanted(todo), size - off))

ReadChunk ==
  /\ pc = "read" /\ todo > 0 /\ ReadLen > 0
  /\ chunk' = Positions(off, ReadLen)
  /\ off' = off + ReadLen
  /\ pc' = "send"
  /\ UNCHANGED <<req, file, hdr, text, todo, sent, conn, cut>>

OnlyWhenSent == todo <= 0

NoMoreToRead == todo <= 0 \/ ReadLen = 0

ReadEnds ==          \* everything sent, or the file ended early
  /\ pc = "read" /\ NoMoreToRead
  /\ pc' = "done"
  /\ UNCHANGED <<req, file, hdr, text, todo, off, chunk, sent, conn, cut>>

\* What send_all still has to send after n of the bytes of s were taken.
RestartSend(s, n) == IF n < Len(s) THEN s ELSE <<>>

RestOf(s, n) == SubSeq(s, n + 1, Len(s))

SendChunk ==         \* one send: as much as fits; EAGAIN sleeps and retries
  /\ pc = "send" /\ CanSend
  /\ LET n == SmallerOf(Len(chunk), Room)
         finished == RestOf(chunk, n) = <<>>
     IN  /\ sent' = sent \o SubSeq(chunk, 1, n)
         /\ inflight' = inflight + n
         /\ chunk' = RestOf(chunk, n)
         /\ todo' = IF text THEN todo ELSE todo - n
         /\ pc' = IF ~finished THEN "send" ELSE IF text THEN "done" ELSE "read"
  /\ UNCHANGED <<req, file, hdr, text, off, peer, cut>>

SendFails ==         \* ECONNRESET: give up on the answer
  /\ pc \in {"header", "send"} /\ peer = "aborted"
  /\ cut' = TRUE /\ pc' = "done"
  /\ UNCHANGED <<req, file, hdr, text, todo, off, chunk, sent, conn>>

Sigpipe ==           \* EPIPE comes with SIGPIPE, which is neither ignored nor
                     \* suppressed: the process is killed
  /\ pc \in {"header", "send"} /\ peer = "broken"
  /\ cut' = TRUE /\ pc' = "killed"
  /\ UNCHANGED <<req, file, hdr, text, todo, off, chunk, sent, conn>>

---------------------------------------------------------------------------
(* The client, its kernel and whoever edits the file *)

PeerReads ==
  /\ peer = "reading" /\ inflight > 0
  /\ inflight' = inflight - 1
  /\ UNCHANGED <<req, file, pc, hdr, text, todo, off, chunk, sent, peer, cut>>

PeerLeaves ==        \* by close, or by a reset
  /\ peer = "reading"
  /\ peer' \in {"closed", "aborted"}
  /\ UNCHANGED <<req, file, pc, hdr, text, todo, off, chunk, sent, inflight, cut>>

PeerResets ==        \* data that reaches a closed peer is answered by RST
  /\ peer = "closed" /\ inflight > 0
  /\ peer' = "broken"
  /\ UNCHANGED <<req, file, pc, hdr, text, todo, off, chunk, sent, inflight, cut>>

EditFile ==          \* after fstat: the file shrinks or grows
  /\ kind = "file" /\ pc # "request" /\ edits < MaxEdits
  /\ size' \in (0 .. MaxSize) \ {size}
  /\ edits' = edits + 1
  /\ UNCHANGED <<req, kind, pc, hdr, text, todo, off, chunk, sent, conn, cut>>

---------------------------------------------------------------------------
WorkerStep == AnswerLiteral \/ OpenFails \/ OpenFile \/ OpenOutOfRange \/ SendHeader
              \/ ReadChunk \/ ReadEnds \/ SendChunk \/ SendFails \/ Sigpipe

Next == WorkerStep \/ PeerReads \/ PeerLeaves \/ PeerResets \/ EditFile

Spec == Init /\ [][Next]_vars

\* The worker runs and TCP delivers; a client that stays reads.
FairSpec == Spec /\ WF_vars(WorkerStep) /\ WF_vars(PeerReads) /\ WF_vars(PeerResets)

---------------------------------------------------------------------------
(* Properties *)

\* The type invariant; todo (content_len) never goes below zero.
TypeOK ==
  /\ kind \in {"absent", "file", "directory"} /\ size \in 0 .. MaxSize
  /\ edits \in 0 .. MaxEdits
  /\ pc \in {"request", "header", "read", "send", "done", "killed"}
  /\ hdr.status \in {0, 200, 206, 400, 403, 404, 405, 416, 500}
  /\ hdr.length \in Nat
  /\ {text, cut} \subseteq BOOLEAN
  /\ todo \in 0 .. MaxSize /\ off \in 0 .. MaxSize
  /\ chunk \in Seq(Nat) /\ sent \in Seq(Nat)
  /\ Len(chunk) <= LargerOf(Chunk, TextLen)
  /\ inflight \in 0 .. SockBuf
  /\ peer \in {"reading", "closed", "broken", "aborted"}

\* Whatever the short sends, the body is the run of consecutive bytes that
\* starts where the header says: send_all repeats none and skips none; and it
\* never outgrows Content-Length, even if the file grows meanwhile.
BodyInOrder ==
  /\ sent = Positions(hdr.start, Len(sent))
  /\ Len(sent) + Len(chunk) <= hdr.length

\* A finished answer is whole unless a send failed, the file was edited or the
\* answer has no body (HEAD, 416).
CompleteUnlessCut ==
  (pc = "done" /\ ~cut /\ edits = 0 /\ req.method = "GET" /\ kind # "directory")
    => Len(sent) = hdr.length

\* The body of every answer: in order, no longer than announced, and whole.
BodySound == BodyInOrder /\ CompleteUnlessCut

\* A legal Range of the (non-empty) video is answered by 206 with the bytes it
\* selects, or by 416 when it selects none; no other route does either.
RangeAnswered ==
  /\ hdr.status \in {206, 416} => req.route = "/video" /\ req.range # NoRange
  /\ (hdr.status \in {200, 206, 416} /\ kind = "file" /\ size > 0 /\ edits = 0
     /\ LegalRange(req.range)) =>
       IF SelectedBytes(req.range, size) = {}
       THEN hdr.status = 416
       ELSE hdr.status = 206 /\ hdr.start .. hdr.end = SelectedBytes(req.range, size)

\* A worker is done with its request provided the client reads or leaves.
WorkerReleased == <>(pc \in {"done", "killed"})

===========================================================================
