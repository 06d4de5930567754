------------------------- MODULE HttpResponseProofs -------------------------
(***************************************************************************)
(* What parse_range_header returns, for every header and every file size,  *)
(* and what a worker sends, for every size of file, chunk and socket       *)
(* buffer and any number of edits of the file.                             *)
(*                                                                         *)
(* BodySound is not inductive: that a send continues where the last one    *)
(* ended is a relation between what was sent, what send_all still holds,   *)
(* the file offset and content_len (Body), and that a short file is the    *)
(* only reason to stop early needs the announced range to lie inside the   *)
(* file for as long as nobody edits it (Inside).                           *)
(***************************************************************************)
EXTENDS HttpResponse, SequenceTheorems, TLAPS

IsHeader(h) ==
  /\ h.form \in {"none", "garbage", "suffix", "from", "span"}
  /\ h.a \in Int /\ h.b \in Int /\ h.digits \in BOOLEAN

\* Every range accepted for a file that has bytes lies inside the file: the
\* lseek of send_file is legal and Content-Length is positive.
THEOREM RangeInsideFile ==
  ASSUME NEW h, IsHeader(h), NEW n \in Nat \ {0}, ParseRange(h, n).result = 1
  PROVE  /\ ParseRange(h, n).start \in 0 .. n - 1
         /\ ParseRange(h, n).end \in ParseRange(h, n).start .. n - 1
<1>1. CASE h.form \in {"none", "garbage"}
  BY <1>1 DEF ParseRange, Ignored, Refused
<1>2. CASE h.form = "suffix"
  BY <1>2 DEF IsHeader, ParseRange, SuffixRange, LargerOf, Refused, Range1
<1>3. CASE h.form = "from"
  BY <1>3 DEF IsHeader, ParseRange, SpanRange, ClipEnd, SmallerOf, Refused, Range1
<1>4. CASE h.form = "span"
  BY <1>4 DEF IsHeader, ParseRange, SpanRange, ClipEnd, SmallerOf, Refused, Range1
<1> QED
  BY <1>1, <1>2, <1>3, <1>4 DEF IsHeader

\* A legal range that selects bytes of the file is accepted, and the bytes
\* from start to end are exactly those it selects.
THEOREM RangeExact ==
  ASSUME NEW h, IsHeader(h), NEW n \in Nat, LegalRange(h),
         SelectedBytes(h, n) # {}
  PROVE  /\ ParseRange(h, n).result = 1
         /\ ParseRange(h, n).start .. ParseRange(h, n).end
              = SelectedBytes(h, n)
<1> USE DEF IsHeader, ParseRange, SelectedBytes, LegalRange
<1>1. n > 0
  <2>1. PICK i : i \in SelectedBytes(h, n)
    OBVIOUS
  <2> QED
    BY <2>1
<1>2. CASE h.form = "suffix"
  BY <1>1, <1>2 DEF SuffixRange, LargerOf, Range1
<1>3. CASE h.form = "from"
  BY <1>1, <1>3 DEF SpanRange, ClipEnd, SmallerOf, Refused, Range1
<1>4. CASE h.form = "span"
  BY <1>1, <1>4 DEF SpanRange, ClipEnd, SmallerOf, Refused, Range1
<1> QED
  BY <1>2, <1>3, <1>4 DEF LegalRange

\* A legal range that selects no byte is refused, unless the file is empty and
\* the range is a suffix: then it is accepted as 0-(-1), which is why the
\* theorem excepts it.
THEOREM RangeRefused ==
  ASSUME NEW h, IsHeader(h), NEW n \in Nat, LegalRange(h),
         SelectedBytes(h, n) = {}, h.form = "suffix" => n > 0
  PROVE  ParseRange(h, n).result = -1
<1>1. CASE h.form = "suffix"
  <2>1. n > 0 /\ n - 1 \in 0 .. n - 1 /\ n - 1 >= n - h.a
    BY <1>1 DEF LegalRange, IsHeader
  <2> QED
    BY <1>1, <2>1 DEF SelectedBytes, IsHeader
<1>2. CASE h.form \in {"from", "span"}
  <2>1. h.a \in Nat /\ (h.form = "span" => h.b >= h.a)
    BY <1>2 DEF LegalRange, IsHeader
  <2>2. ~(h.a < n)
    <3>1. ASSUME h.a < n PROVE h.a \in SelectedBytes(h, n)
      BY <1>2, <2>1, <3>1 DEF SelectedBytes
    <3> QED
      BY <3>1
  <2> QED
    BY <1>2, <2>1, <2>2 DEF ParseRange, SpanRange, Refused, IsHeader
<1> QED
  BY <1>1, <1>2 DEF LegalRange

---------------------------------------------------------------------------
(* The inductive invariant *)

Asked ==
  /\ req \in [method : Methods, route : Routes, range : RangeHeaders(Numbers)]
  /\ req.route # "/video" => req.range = NoRange
  /\ req.route \notin FileRoutes => kind = "absent"
  /\ hdr \in [status : {0, 200, 206, 400, 403, 404, 405, 416, 500},
              length : Nat, start : Nat, end : Int]

Body ==
  /\ sent = Positions(hdr.start, Len(sent))
  /\ chunk = Positions(hdr.start + Len(sent), Len(chunk))
  /\ pc = "request" => hdr = NoHdr /\ ~text /\ todo = 0 /\ sent = <<>> /\ chunk = <<>>
  /\ pc = "header" => sent = <<>>
  /\ pc = "header" /\ ~text => chunk = <<>>
  /\ pc = "read" => ~text /\ chunk = <<>>
  /\ pc # "request" /\ ~text => todo = hdr.length - Len(sent)
  /\ pc \in {"read", "send"} /\ ~text => off = hdr.start + Len(sent) + Len(chunk)
  /\ Len(sent) + Len(chunk) <= hdr.length
  /\ text /\ req.method = "GET" => Len(sent) + Len(chunk) = hdr.length

Inside ==
  ~text => /\ hdr.start + hdr.length <= MaxSize
           /\ edits = 0 /\ pc # "request" => hdr.start + hdr.length <= size

IInv == TypeOK /\ Asked /\ Body /\ Inside /\ CompleteUnlessCut /\ RangeAnswered

---------------------------------------------------------------------------
(* Numbers, headers and runs of positions *)

LEMMA Constants ==
  /\ MaxSize \in Nat /\ MaxEdits \in Nat /\ Chunk \in Nat \ {0}
  /\ SockBuf \in Nat \ {0} /\ TextLen \in Nat \ {0} /\ Numbers \subseteq Int
  /\ Kinds \subseteq {"absent", "file", "directory"}
BY ConstantsAssumption DEF ConstantsAssumption

LEMMA HeadersAreHeaders == \A h \in RangeHeaders(Numbers) : IsHeader(h)
<1>1. \A n \in Numbers \cup {0} : n \in Int
  BY Constants
<1> QED
  BY <1>1, Zenon DEF RangeHeaders, IsHeader

\* What is announced for an accepted range lies inside the file, also when the
\* file is empty.
LEMMA AcceptedFits ==
  ASSUME NEW h, IsHeader(h), NEW n \in Nat
  PROVE  LET r == ParseRange(h, n)
         IN  /\ r.result \in {-1, 0, 1} /\ r.start \in Nat /\ r.end \in Int
             /\ r.result = 0 => h.form = "none"
             /\ r.result = 1 => /\ r.end - r.start + 1 >= 0
                                /\ r.end + 1 <= n
             /\ r.result # 0 => h.form # "none"
<1> USE DEF ParseRange, SuffixRange, SpanRange, ClipEnd, SmallerOf, LargerOf,
            Refused, Range1, Ignored
<1>1. CASE h.form \in {"none", "garbage"}
  BY <1>1
<1>2. CASE h.form = "suffix"
  BY <1>2 DEF IsHeader
<1>3. CASE h.form = "from"
  BY <1>3 DEF IsHeader
<1>4. CASE h.form = "span"
  BY <1>4 DEF IsHeader
<1> QED
  BY <1>1, <1>2, <1>3, <1>4 DEF IsHeader

LEMMA PositionsFacts ==
  ASSUME NEW s \in Nat, NEW n \in Nat
  PROVE  /\ Positions(s, n) \in Seq(Nat) /\ Len(Positions(s, n)) = n
         /\ n = 0 => Positions(s, n) = <<>>
BY DEF Positions

\* send_all splits a run of positions into two that follow each other.
LEMMA PositionsSplit ==
  ASSUME NEW s \in Nat, NEW m \in Nat, NEW n \in 0 .. m
  PROVE  /\ SubSeq(Positions(s, m), 1, n) = Positions(s, n)
         /\ SubSeq(Positions(s, m), n + 1, m) = Positions(s + n, m - n)
BY DEF Positions

LEMMA PositionsJoin ==
  ASSUME NEW s \in Nat, NEW m \in Nat, NEW n \in Nat
  PROVE  Positions(s, m) \o Positions(s + m, n) = Positions(s, m + n)
BY DEF Positions

LEMMA EmptyIsLen0 == \A s \in Seq(Nat) : s = <<>> <=> Len(s) = 0
BY EmptySeq

---------------------------------------------------------------------------
(* Initiation *)

LEMMA InitInv == Init => IInv
<1> SUFFICES ASSUME Init PROVE IInv
  OBVIOUS
<1> USE DEF Init
<1>1. Asked
  <2>1. hdr \in [status : {0, 200, 206, 400, 403, 404, 405, 416, 500},
                length : Nat, start : Nat, end : Int]
    BY DEF NoHdr
  <2> QED
    BY <2>1 DEF Asked
<1>2. TypeOK
  <2>1. size \in 0 .. MaxSize /\ kind \in {"absent", "file", "directory"}
    BY Constants
  <2>2. chunk \in Seq(Nat) /\ sent \in Seq(Nat) /\ Len(chunk) = 0
    OBVIOUS
  <2>3. {text, cut} \subseteq BOOLEAN
    OBVIOUS
  <2>4. Len(chunk) <= LargerOf(Chunk, TextLen)
    BY <2>2, Constants DEF LargerOf
  <2> QED
    BY <2>1, <2>2, <2>3, <2>4, Constants DEF TypeOK, NoHdr
<1>3. Body
  <2>1. Len(sent) = 0 /\ Len(chunk) = 0
    OBVIOUS
  <2>2. hdr.start = 0 /\ hdr.length = 0 /\ Positions(0, 0) = <<>>
    BY PositionsFacts DEF NoHdr
  <2> QED
    BY <2>1, <2>2 DEF Body
<1>4. Inside
  BY Constants DEF Inside, NoHdr
<1>5. CompleteUnlessCut /\ RangeAnswered
  BY DEF CompleteUnlessCut, RangeAnswered, NoHdr
<1> QED
  BY <1>1, <1>2, <1>3, <1>4, <1>5 DEF IInv

---------------------------------------------------------------------------
(* Consecution: the choice of an answer *)

\* A text, with or without its body, for which no file was needed.
LEMMA AnswerTextStep ==
  ASSUME IInv, NEW status \in {200, 400, 403, 404, 405, 500}, pc = "request",
         hdr' = [status |-> status, length |-> TextLen, start |-> 0, end |-> TextLen - 1],
         text' = TRUE, pc' = "header", chunk' \in {Positions(0, TextLen), <<>>},
         req.method = "GET" => chunk' = Positions(0, TextLen), status = 200 => req.route = "/hello",
         UNCHANGED <<req, file, todo, off, sent, conn, cut>>
  PROVE  IInv'
<1> USE DEF IInv, file, conn
<1>1. /\ hdr' = [status |-> status, length |-> TextLen, start |-> 0, end |-> TextLen - 1]
      /\ text' = TRUE /\ pc' = "header" /\ sent' = <<>> /\ Len(sent') = 0
      /\ hdr'.status = status /\ hdr'.length = TextLen /\ hdr'.start = 0
  BY DEF Body
<1>2. /\ chunk' \in Seq(Nat) /\ chunk' = Positions(0, Len(chunk'))
      /\ Len(chunk') \in {0, TextLen} /\ (req.method = "GET" => Len(chunk') = TextLen)
  <2>1. /\ Positions(0, TextLen) \in Seq(Nat) /\ Len(Positions(0, TextLen)) = TextLen
        /\ Positions(0, 0) = <<>> /\ Len(Positions(0, 0)) = 0 /\ Positions(0, 0) \in Seq(Nat)
    BY PositionsFacts, Constants
  <2> QED
    BY <2>1
<1>3. TypeOK'
  <2>1. Len(chunk') <= LargerOf(Chunk, TextLen)
    BY <1>2, Constants DEF LargerOf
  <2>2. text' \in BOOLEAN /\ cut' \in BOOLEAN
    BY <1>1 DEF TypeOK
  <2>3. hdr'.status \in {0, 200, 206, 400, 403, 404, 405, 416, 500} /\ hdr'.length \in Nat
    BY <1>1, Constants
  <2> QED
    BY <1>1, <1>2, <2>1, <2>2, <2>3 DEF TypeOK
<1>4. Asked'
  <2>1. hdr' \in [status : {0, 200, 206, 400, 403, 404, 405, 416, 500},
                 length : Nat, start : Nat, end : Int]
    BY <1>1, Constants
  <2> QED
    BY <2>1 DEF Asked
<1>5. Body'
  <2>1. Positions(0, 0) = <<>>
    BY PositionsFacts
  <2> QED
    BY <1>1, <1>2, <2>1, Constants DEF Body
<1>6. Inside' /\ CompleteUnlessCut'
  BY <1>1 DEF Inside, CompleteUnlessCut
<1>7. RangeAnswered'
  <2>1. status = 200 => kind = "absent"
    BY DEF Asked, FileRoutes
  <2> QED
    BY <1>1, <2>1 DEF RangeAnswered
<1> QED
  BY <1>3, <1>4, <1>5, <1>6, <1>7

LEMMA LiteralAnswers ==
  /\ LiteralStatus \in {0, 200, 400, 403, 405, 500}
  /\ LiteralStatus = 200 => req.route = "/hello"
  /\ LiteralStatus = 0 => req.route # "/hello" /\ req.method \in {"GET", "HEAD"}
<1>1. BuildSafeFilePath \in {0, 400, 403, 500}
  BY DEF BuildSafeFilePath
<1> QED
  BY <1>1 DEF LiteralStatus

LEMMA AnswerLiteralStep == IInv /\ AnswerLiteral => IInv'
<1> SUFFICES ASSUME IInv, AnswerLiteral PROVE IInv'
  OBVIOUS
<1>1. /\ pc = "request" /\ LiteralStatus \in {200, 400, 403, 404, 405, 500}
      /\ UNCHANGED <<req, file, todo, off, sent, conn, cut>>
  BY LiteralAnswers DEF AnswerLiteral
<1>2. /\ hdr' = [status |-> LiteralStatus, length |-> TextLen, start |-> 0, end |-> TextLen - 1]
      /\ text' = TRUE /\ pc' = "header" /\ chunk' \in {Positions(0, TextLen), <<>>}
      /\ req.method = "GET" => chunk' = Positions(0, TextLen)
  BY DEF AnswerLiteral, AnswerText, IsHead
<1> QED
  BY <1>1, <1>2, LiteralAnswers, AnswerTextStep

LEMMA OpenFailsStep == IInv /\ OpenFails => IInv'
<1> SUFFICES ASSUME IInv, OpenFails PROVE IInv'
  OBVIOUS
<1>1. /\ pc = "request" /\ UNCHANGED <<req, file, todo, off, sent, conn, cut>>
      /\ hdr' = [status |-> 404, length |-> TextLen, start |-> 0, end |-> TextLen - 1]
      /\ text' = TRUE /\ pc' = "header" /\ chunk' = Positions(0, TextLen)
  BY DEF OpenFails, AnswerText
<1> QED
  BY <1>1, AnswerTextStep

\* What is announced for a file that was opened lies inside it.
LEMMA Opened ==
  ASSUME IInv, pc = "request"
  PROVE  /\ Requested.result \in {-1, 0, 1} /\ Requested.start \in Nat /\ Requested.end \in Int
         /\ Requested.result = 0 => req.range = NoRange
         /\ Requested.result # 0 => req.route = "/video" /\ req.range # NoRange
         /\ Requested.result = 1 => /\ Requested.end - Requested.start + 1 >= 0
                                    /\ Requested.end + 1 <= size
<1>1. size \in Nat /\ req.range \in RangeHeaders(Numbers)
  BY DEF IInv, TypeOK, Asked
<1>2. CASE req.route = "/video"
  <2>1. Requested = ParseRange(req.range, size)
    BY <1>2 DEF Requested
  <2>2. req.range.form # "none" => req.range # NoRange
    BY DEF NoRange
  <2>3. req.range.form = "none" => req.range = NoRange
    BY <1>1 DEF RangeHeaders, NoRange
  <2> QED
    BY <1>1, <1>2, <2>1, <2>2, <2>3, HeadersAreHeaders, AcceptedFits
<1>3. CASE req.route # "/video"
  BY <1>3 DEF Requested, Ignored, IInv, Asked
<1> QED
  BY <1>2, <1>3

LEMMA OpenFileStep == IInv /\ OpenFile => IInv'
<1> SUFFICES ASSUME IInv, OpenFile PROVE IInv'
  OBVIOUS
<1> DEFINE whole == Requested.result = 0
           start == IF whole THEN 0 ELSE Requested.start
           end   == IF whole THEN size - 1 ELSE Requested.end
<1>1. /\ pc = "request" /\ LiteralStatus = 0 /\ kind # "absent" /\ Requested.result >= 0
      /\ hdr' = [status |-> IF whole THEN 200 ELSE 206,
                 length |-> end - start + 1, start |-> start, end |-> end]
      /\ todo' = end - start + 1 /\ pc' = "header"
      /\ UNCHANGED <<req, file, text, off, chunk, sent, conn, cut>>
  BY DEF OpenFile
<1>2. /\ size \in 0 .. MaxSize /\ MaxSize \in Nat
      /\ Requested.start \in Nat /\ Requested.end \in Int
  BY <1>1, Opened, Constants DEF IInv, TypeOK
<1>3. /\ start \in Nat /\ end \in Int /\ end - start + 1 \in Nat
      /\ start + (end - start + 1) <= size
  BY <1>1, <1>2, Opened
<1> HIDE DEF start, end
<1>4. /\ hdr'.status = (IF whole THEN 200 ELSE 206) /\ hdr'.length = end - start + 1
      /\ hdr'.start = start /\ hdr'.end = end
      /\ hdr' \in [status : {0, 200, 206, 400, 403, 404, 405, 416, 500},
                   length : Nat, start : Nat, end : Int]
  BY <1>1, <1>3
<1>5. /\ ~text /\ text' = text /\ chunk = <<>> /\ sent = <<>> /\ chunk' = chunk /\ sent' = sent
      /\ Len(chunk) = 0 /\ Len(sent) = 0
  BY <1>1 DEF IInv, Body
<1>6. TypeOK'
  <2>1. todo' \in 0 .. MaxSize
    BY <1>1, <1>2, <1>3
  <2>2. hdr'.status \in {0, 200, 206, 400, 403, 404, 405, 416, 500} /\ hdr'.length \in Nat
    BY <1>3, <1>4
  <2>3. {text, cut}' \subseteq BOOLEAN
    BY <1>1 DEF IInv, TypeOK
  <2>4. Len(chunk') <= LargerOf(Chunk, TextLen)
    BY <1>1 DEF IInv, TypeOK
  <2> QED
    BY <1>1, <2>1, <2>2, <2>3, <2>4 DEF IInv, TypeOK, file, conn
<1>7. Asked'
  BY <1>1, <1>4 DEF IInv, Asked, file
<1>8. Body'
  <2>1. Positions(start, 0) = <<>>
    BY <1>3, PositionsFacts
  <2> QED
    BY <1>1, <1>3, <1>4, <1>5, <2>1 DEF Body
<1>9. Inside'
  BY <1>1, <1>2, <1>3, <1>4 DEF Inside, file
<1>10. CompleteUnlessCut'
  BY <1>1 DEF CompleteUnlessCut
<1>11. RangeAnswered'
  <2>1. /\ req' = req /\ kind' = kind /\ size' = size
        /\ hdr'.status = 206 => req.route = "/video" /\ req.range # NoRange
        /\ hdr'.status \in {200, 206}
    BY <1>1, <1>4, Opened DEF file
  <2>2. ASSUME size > 0, LegalRange(req.range)
        PROVE  /\ SelectedBytes(req.range, size) # {}
               /\ hdr'.status = 206 /\ hdr'.start .. hdr'.end = SelectedBytes(req.range, size)
    <3>1. IsHeader(req.range) /\ req.range # NoRange
      BY <2>2, HeadersAreHeaders DEF IInv, Asked, LegalRange, NoRange
    <3>2. ~whole /\ req.route = "/video"
      BY <1>1, <3>1, Opened
    <3>3. Requested = ParseRange(req.range, size) /\ Requested.result = 1
      BY <1>1, <3>2, Opened DEF Requested
    <3>4. SelectedBytes(req.range, size) # {}
      BY <1>2, <2>2, <3>1, <3>3, RangeRefused
    <3> QED
      BY <1>2, <1>4, <2>2, <3>1, <3>2, <3>3, <3>4, RangeExact DEF start, end
  <2> QED
    BY <2>1, <2>2 DEF RangeAnswered
<1> QED
  BY <1>6, <1>7, <1>8, <1>9, <1>10, <1>11 DEF IInv

LEMMA OpenOutOfRangeStep == IInv /\ OpenOutOfRange => IInv'
<1> SUFFICES ASSUME IInv, OpenOutOfRange PROVE IInv'
  OBVIOUS
<1>1. /\ pc = "request" /\ LiteralStatus = 0 /\ kind # "absent" /\ Requested.result < 0
      /\ hdr' = [status |-> 416, length |-> 0, start |-> 0, end |-> 0]
      /\ hdr'.status = 416 /\ hdr'.length = 0 /\ hdr'.start = 0
      /\ text' = TRUE /\ pc' = "header"
      /\ UNCHANGED <<req, file, todo, off, chunk, sent, conn, cut>>
  BY DEF OpenOutOfRange, NoHdr
<1>2. /\ chunk = <<>> /\ sent = <<>> /\ Len(chunk) = 0 /\ Len(sent) = 0
  BY <1>1 DEF IInv, Body
<1>3. TypeOK'
  <2>1. {text, cut}' \subseteq BOOLEAN
    BY <1>1 DEF IInv, TypeOK
  <2> QED
    BY <1>1, <2>1 DEF IInv, TypeOK, file, conn
<1>4. Asked'
  BY <1>1 DEF IInv, Asked, file
<1>5. Body'
  BY <1>1, <1>2, PositionsFacts DEF Body
<1>6. Inside' /\ CompleteUnlessCut'
  BY <1>1 DEF Inside, CompleteUnlessCut
<1>7. RangeAnswered'
  <2>1. /\ req' = req /\ kind' = kind /\ size' = size /\ size \in Nat
        /\ req.route = "/video" /\ req.range # NoRange /\ Requested = ParseRange(req.range, size)
        /\ IsHeader(req.range)
    BY <1>1, Opened, HeadersAreHeaders, SMTT(20) DEF IInv, TypeOK, Asked, Requested, file
  <2>2. LegalRange(req.range) => SelectedBytes(req.range, size) = {}
    BY <1>1, <2>1, RangeExact
  <2> QED
    BY <1>1, <2>1, <2>2 DEF RangeAnswered
<1> QED
  BY <1>3, <1>4, <1>5, <1>6, <1>7 DEF IInv

---------------------------------------------------------------------------
(* Consecution: sending it *)

LEMMA SendHeaderStep == IInv /\ SendHeader => IInv'
<1> SUFFICES ASSUME IInv, SendHeader PROVE IInv'
  OBVIOUS
<1> USE DEF IInv, file
<1>1. /\ pc = "header" /\ peer' = peer /\ inflight' = inflight + 1 /\ inflight < SockBuf
      /\ UNCHANGED <<req, file, hdr, text, todo, chunk, sent, cut>>
  BY Constants DEF SendHeader, CanSend, Room, TypeOK
<1>2. \/ text /\ pc' = (IF chunk = <<>> THEN "done" ELSE "send") /\ off' = off
      \/ ~text /\ ~IsHead /\ pc' = "read" /\ off' = hdr.start
      \/ ~text /\ IsHead /\ pc' = "done" /\ off' = off
  BY DEF SendHeader, SendBody
<1>3. hdr.start \in Nat /\ hdr.length \in Nat /\ sent = <<>> /\ Len(sent) = 0
  BY <1>1 DEF Asked, Body
<1>4. TypeOK'
  <2>1. off' \in 0 .. MaxSize
    BY <1>2, <1>3, Constants DEF TypeOK, Inside
  <2>2. inflight' \in 0 .. SockBuf
    BY <1>1, Constants DEF TypeOK
  <2>3. {text, cut}' \subseteq BOOLEAN
    BY <1>1 DEF TypeOK
  <2>4. pc' \in {"request", "header", "read", "send", "done", "killed"}
    BY <1>2
  <2> QED
    BY <1>1, <2>1, <2>2, <2>3, <2>4 DEF TypeOK
<1>5. Asked' /\ RangeAnswered'
  BY <1>1 DEF Asked, RangeAnswered
<1>6. Body'
  <2>1. ~text => chunk = <<>> /\ Len(chunk) = 0
    BY <1>1 DEF Body
  <2> QED
    BY <1>1, <1>2, <1>3, <2>1 DEF Body
<1>7. Inside'
  BY <1>1 DEF Inside
<1>8. CompleteUnlessCut'
  <2>1. text /\ chunk = <<>> /\ req.method = "GET" => Len(sent) = hdr.length
    BY <1>3 DEF Body
  <2> QED
    BY <1>1, <1>2, <2>1 DEF CompleteUnlessCut, IsHead
<1> QED
  BY <1>4, <1>5, <1>6, <1>7, <1>8

LEMMA ReadChunkStep == IInv /\ ReadChunk => IInv'
<1> SUFFICES ASSUME IInv, ReadChunk PROVE IInv'
  OBVIOUS
<1> USE DEF IInv, file, conn
<1>1. /\ pc = "read" /\ todo > 0 /\ ReadLen > 0
      /\ chunk' = Positions(off, ReadLen) /\ off' = off + ReadLen /\ pc' = "send"
      /\ UNCHANGED <<req, file, hdr, text, todo, sent, conn, cut>>
  BY DEF ReadChunk
<1>2. /\ size \in Nat /\ size <= MaxSize /\ off \in Nat /\ todo \in Nat /\ MaxSize \in Nat
      /\ Chunk \in Nat
  BY Constants DEF TypeOK
<1>3. /\ ReadLen \in Nat /\ ReadLen <= Chunk /\ ReadLen <= todo /\ off + ReadLen <= size
  BY <1>1, <1>2 DEF ReadLen, LargerOf, SmallerOf, Wanted
<1>4. /\ ~text /\ Len(chunk) = 0 /\ todo = hdr.length - Len(sent) /\ off = hdr.start + Len(sent)
      /\ hdr.start \in Nat /\ hdr.length \in Nat /\ Len(sent) \in Nat
  <2>1. ~text /\ chunk = <<>> /\ Len(chunk) = 0 /\ hdr.start \in Nat /\ hdr.length \in Nat
    BY <1>1 DEF Body, Asked
  <2>2. Len(sent) \in Nat
    BY LenProperties DEF TypeOK
  <2> QED
    BY <1>1, <2>1, <2>2 DEF Body
<1>5. Len(chunk') = ReadLen /\ chunk' \in Seq(Nat)
  BY <1>1, <1>2, <1>3, PositionsFacts
<1>6. TypeOK'
  <2>1. Len(chunk') <= LargerOf(Chunk, TextLen)
    BY <1>3, <1>5, Constants DEF LargerOf
  <2>2. off' \in 0 .. MaxSize
    BY <1>1, <1>2, <1>3
  <2>3. {text, cut}' \subseteq BOOLEAN
    BY <1>1 DEF TypeOK
  <2> QED
    BY <1>1, <1>5, <2>1, <2>2, <2>3 DEF TypeOK
<1>7. Asked' /\ RangeAnswered' /\ Inside' /\ CompleteUnlessCut'
  BY <1>1 DEF Asked, RangeAnswered, Inside, CompleteUnlessCut
<1>8. Body'
  <2>1. sent' = Positions(hdr'.start, Len(sent')) /\ hdr' = hdr /\ sent' = sent
    BY <1>1 DEF Body
  <2>2. chunk' = Positions(hdr'.start + Len(sent'), Len(chunk'))
    BY <1>1, <1>4, <1>5
  <2>3. pc' = "send" /\ text' = text /\ todo' = todo /\ todo' = hdr'.length - Len(sent')
    BY <1>1, <1>4
  <2>4. off' = hdr'.start + Len(sent') + Len(chunk')
    BY <1>1, <1>4, <1>5
  <2>5. Len(sent') + Len(chunk') <= hdr'.length
    <3>1. PICK r \in Nat, s \in Nat, h \in Nat : r = ReadLen /\ s = Len(sent) /\ h = hdr.length
      BY <1>3, <1>4
    <3>2. r <= h - s
      BY <1>3, <1>4, <3>1
    <3>3. Len(sent') = s /\ Len(chunk') = r /\ hdr'.length = h
      BY <1>5, <2>1, <3>1
    <3> QED
      BY <3>1, <3>2, <3>3
  <2> QED
    BY <1>4, <2>1, <2>2, <2>3, <2>4, <2>5 DEF Body
<1> QED
  BY <1>6, <1>7, <1>8

LEMMA ReadEndsStep == IInv /\ ReadEnds => IInv'
<1> SUFFICES ASSUME IInv, ReadEnds PROVE IInv'
  OBVIOUS
<1> USE DEF IInv, file, conn
<1>1. /\ pc = "read" /\ pc' = "done" /\ (todo <= 0 \/ ReadLen = 0)
      /\ UNCHANGED <<req, file, hdr, text, todo, off, chunk, sent, conn, cut>>
  BY DEF ReadEnds, NoMoreToRead
<1>2. /\ size \in Nat /\ off \in Nat /\ todo \in Nat /\ Chunk \in Nat \ {0}
  BY Constants DEF TypeOK
<1>3. /\ ~text /\ Len(chunk) = 0 /\ todo = hdr.length - Len(sent) /\ off = hdr.start + Len(sent)
      /\ hdr.start \in Nat /\ hdr.length \in Nat /\ Len(sent) \in Nat
  <2>1. ~text /\ chunk = <<>> /\ Len(chunk) = 0 /\ hdr.start \in Nat /\ hdr.length \in Nat
    BY <1>1 DEF Body, Asked
  <2>2. Len(sent) \in Nat
    BY LenProperties DEF TypeOK
  <2> QED
    BY <1>1, <2>1, <2>2 DEF Body
<1>4. TypeOK'
  <2>1. {text, cut}' \subseteq BOOLEAN
    BY <1>1 DEF TypeOK
  <2> QED
    BY <1>1, <2>1 DEF TypeOK
<1>5. Asked' /\ RangeAnswered' /\ Inside'
  BY <1>1 DEF Asked, RangeAnswered, Inside
<1>6. Body'
  BY <1>1, <1>3 DEF Body
<1>7. CompleteUnlessCut'
  <2> SUFFICES ASSUME edits = 0, kind # "directory" PROVE Len(sent) = hdr.length
    BY <1>1 DEF CompleteUnlessCut
  <2>1. hdr.start + hdr.length <= size
    BY <1>1, <1>3 DEF Inside
  <2>2. CASE todo > 0
    <3>1. size - off > 0
      BY <1>2, <1>3, <2>1, <2>2
    <3> QED
      BY <1>1, <1>2, <2>2, <3>1 DEF ReadLen, LargerOf, SmallerOf, Wanted
  <2> QED
    BY <1>2, <1>3, <2>2
<1> QED
  BY <1>4, <1>5, <1>6, <1>7

LEMMA SendChunkStep == IInv /\ SendChunk => IInv'
<1> SUFFICES ASSUME IInv, SendChunk PROVE IInv'
  OBVIOUS
<1> USE DEF IInv, file, conn
<1> DEFINE n == SmallerOf(Len(chunk), Room)
<1>1. /\ pc = "send" /\ Room > 0
      /\ sent' = sent \o SubSeq(chunk, 1, n) /\ inflight' = inflight + n
      /\ chunk' = SubSeq(chunk, n + 1, Len(chunk))
      /\ todo' = IF text THEN todo ELSE todo - n
      /\ pc' = IF chunk' # <<>> THEN "send" ELSE IF text THEN "done" ELSE "read"
      /\ UNCHANGED <<req, file, hdr, text, off, peer, cut>>
  BY DEF SendChunk, CanSend, RestOf
<1>2. /\ Len(chunk) \in Nat /\ Len(sent) \in Nat /\ hdr.start \in Nat /\ hdr.length \in Nat
      /\ inflight \in Nat /\ SockBuf \in Nat /\ Room \in Nat /\ inflight + Room = SockBuf
  <2>1. Len(chunk) \in Nat /\ Len(sent) \in Nat
    BY LenProperties DEF TypeOK
  <2>2. hdr.start \in Nat /\ hdr.length \in Nat
    BY DEF Asked
  <2> QED
    BY <1>1, <2>1, <2>2, Constants DEF TypeOK, Room
<1>3. n \in 0 .. Len(chunk) /\ n \in Nat /\ n <= Room
  BY <1>2 DEF SmallerOf
<1> HIDE DEF n
<1>4. /\ sent = Positions(hdr.start, Len(sent)) /\ chunk = Positions(hdr.start + Len(sent), Len(chunk))
  BY DEF Body
<1>5. /\ SubSeq(chunk, 1, n) = Positions(hdr.start + Len(sent), n)
      /\ chunk' = Positions(hdr.start + Len(sent) + n, Len(chunk) - n)
  <2>1. hdr.start + Len(sent) \in Nat
    BY <1>2
  <2>2. /\ SubSeq(Positions(hdr.start + Len(sent), Len(chunk)), 1, n)
              = Positions(hdr.start + Len(sent), n)
        /\ SubSeq(Positions(hdr.start + Len(sent), Len(chunk)), n + 1, Len(chunk))
              = Positions(hdr.start + Len(sent) + n, Len(chunk) - n)
    <3>1. Len(chunk) \in Nat /\ n \in 0 .. Len(chunk)
      BY <1>2, <1>3
    <3> QED
      BY <2>1, <3>1, PositionsSplit, Zenon
  <2> QED
    BY <1>1, <1>4, <2>2
<1>6. sent' = Positions(hdr.start, Len(sent) + n)
  <2>1. Positions(hdr.start, Len(sent)) \o Positions(hdr.start + Len(sent), n)
          = Positions(hdr.start, Len(sent) + n)
    <3>1. hdr.start \in Nat /\ Len(sent) \in Nat /\ n \in Nat
      BY <1>2, <1>3
    <3> QED
      BY <3>1, PositionsJoin, Zenon
  <2> QED
    BY <1>1, <1>4, <1>5, <2>1
<1>7. /\ Len(sent') = Len(sent) + n /\ sent' \in Seq(Nat)
      /\ Len(chunk') = Len(chunk) - n /\ chunk' \in Seq(Nat)
      /\ chunk' = <<>> <=> Len(chunk) = n
  <2>1. /\ Len(sent) + n \in Nat /\ hdr.start + Len(sent) + n \in Nat /\ Len(chunk) - n \in Nat
    BY <1>2, <1>3
  <2>2. /\ Len(sent') = Len(sent) + n /\ sent' \in Seq(Nat)
        /\ Len(chunk') = Len(chunk) - n /\ chunk' \in Seq(Nat)
    BY <1>2, <1>5, <1>6, <2>1, PositionsFacts
  <2>3. chunk' = <<>> <=> Len(chunk') = 0
    BY <2>2, EmptyIsLen0
  <2> QED
    BY <1>2, <1>3, <2>2, <2>3
<1>8. ~text => todo = hdr.length - Len(sent) /\ off = hdr.start + Len(sent) + Len(chunk)
  BY <1>1 DEF Body
<1>9. Len(sent) + Len(chunk) <= hdr.length
  BY DEF Body
<1>10. TypeOK'
  <2>1. todo' \in 0 .. MaxSize
    <3>1. todo \in 0 .. MaxSize /\ MaxSize \in Nat
      BY Constants DEF TypeOK
    <3>2. CASE text
      BY <1>1, <3>1, <3>2
    <3>3. CASE ~text
      <4>1. todo' = todo - n /\ todo = hdr.length - Len(sent)
        BY <1>1, <1>8, <3>3
      <4>2. PICK l \in Nat, s \in Nat, h \in Nat :
              l = Len(chunk) /\ s = Len(sent) /\ h = hdr.length
        BY <1>2
      <4>3. n \in Nat /\ n <= l /\ s + l <= h
        BY <1>3, <1>9, <4>2
      <4>4. n <= h - s
        BY <4>2, <4>3
      <4>5. n <= todo
        BY <4>1, <4>2, <4>4
      <4> QED
        BY <3>1, <4>1, <4>3, <4>5
    <3> QED
      BY <3>2, <3>3
  <2>2. inflight' \in 0 .. SockBuf
    BY <1>1, <1>2, <1>3
  <2>3. {text, cut}' \subseteq BOOLEAN
    BY <1>1 DEF TypeOK
  <2>4. Len(chunk') <= LargerOf(Chunk, TextLen)
    <3>1. Len(chunk) <= LargerOf(Chunk, TextLen) /\ LargerOf(Chunk, TextLen) \in Nat
      BY Constants DEF TypeOK, LargerOf
    <3> QED
      BY <1>2, <1>3, <1>7, <3>1
  <2>5. pc' \in {"request", "header", "read", "send", "done", "killed"}
    BY <1>1
  <2> QED
    <3>1. /\ kind' \in {"absent", "file", "directory"} /\ size' \in 0 .. MaxSize
          /\ edits' \in 0 .. MaxEdits /\ off' \in 0 .. MaxSize
      BY <1>1 DEF TypeOK
    <3>2. /\ hdr'.status \in {0, 200, 206, 400, 403, 404, 405, 416, 500} /\ hdr'.length \in Nat
          /\ peer' \in {"reading", "closed", "broken", "aborted"}
      BY <1>1 DEF TypeOK
    <3> QED
      BY <1>7, <2>1, <2>2, <2>3, <2>4, <2>5, <3>1, <3>2 DEF TypeOK
<1>11. Asked' /\ RangeAnswered' /\ Inside'
  BY <1>1 DEF Asked, RangeAnswered, Inside
<1>12. Body'
  <2>1. sent' = Positions(hdr'.start, Len(sent')) /\ chunk' = Positions(hdr'.start + Len(sent'), Len(chunk'))
    <3>1. hdr.start + Len(sent) + n = hdr.start + (Len(sent) + n)
      BY <1>2, <1>3
    <3> QED
      BY <1>1, <1>5, <1>6, <1>7, <3>1
  <2>2. Len(sent') + Len(chunk') = Len(sent) + Len(chunk)
    BY <1>2, <1>3, <1>7
  <2>3. text /\ req.method = "GET" => Len(sent) + Len(chunk) = hdr.length
    BY DEF Body
  <2>4. ~text => todo' = hdr.length - Len(sent') /\ off = hdr.start + Len(sent') + Len(chunk')
    <3> SUFFICES ASSUME ~text PROVE todo' = hdr.length - Len(sent') /\ off = hdr.start + Len(sent') + Len(chunk')
      OBVIOUS
    <3>1. todo' = todo - n
      BY <1>1
    <3>2. Len(sent') = Len(sent) + n /\ Len(chunk') = Len(chunk) - n
      BY <1>7
    <3> QED
      BY <1>2, <1>3, <1>8, <3>1, <3>2, SMTT(20)
  <2>5. pc' = "read" => ~text /\ chunk' = <<>>
    BY <1>1
  <2>6. pc' \in {"send", "done", "read"} /\ text' = text /\ hdr' = hdr /\ off' = off /\ req' = req
    BY <1>1
  <2> QED
    BY <1>9, <2>1, <2>2, <2>3, <2>4, <2>5, <2>6 DEF Body
<1>13. CompleteUnlessCut'
  <2>1. pc' = "done" => text /\ Len(chunk) = n
    BY <1>1, <1>7
  <2>2. text /\ req.method = "GET" => Len(sent) + Len(chunk) = hdr.length
    BY DEF Body
  <2> QED
    BY <1>1, <1>2, <1>7, <2>1, <2>2 DEF CompleteUnlessCut
<1> QED
  BY <1>10, <1>11, <1>12, <1>13

---------------------------------------------------------------------------
(* Consecution: the rest *)

LEMMA QuietStep ==
  IInv /\ (SendFails \/ Sigpipe \/ PeerReads \/ PeerLeaves \/ PeerResets \/ UNCHANGED vars) => IInv'
<1> SUFFICES ASSUME IInv, SendFails \/ Sigpipe \/ PeerReads \/ PeerLeaves \/ PeerResets \/ UNCHANGED vars
             PROVE  IInv'
  OBVIOUS
<1> USE DEF IInv, file, conn
<1>1. /\ UNCHANGED <<req, file, hdr, text, todo, off, chunk, sent>>
      /\ \/ pc' = pc /\ cut' = cut
         \/ pc \in {"header", "send"} /\ cut' = TRUE /\ pc' \in {"done", "killed"}
      /\ inflight' \in {inflight, inflight - 1} /\ (inflight' = inflight \/ inflight > 0)
      /\ peer' \in {peer, "closed", "aborted", "broken"}
  BY DEF SendFails, Sigpipe, PeerReads, PeerLeaves, PeerResets, vars
<1>2. TypeOK'
  <2>1. inflight' \in 0 .. SockBuf
    BY <1>1, Constants DEF TypeOK
  <2>2. text' \in BOOLEAN /\ cut' \in BOOLEAN
    <3>1. text \in BOOLEAN /\ cut \in BOOLEAN
      BY DEF TypeOK
    <3>2. text' = text /\ (cut' = cut \/ cut' = TRUE)
      BY <1>1
    <3> QED
      BY <3>1, <3>2
  <2>3. peer' \in {"reading", "closed", "broken", "aborted"}
    BY <1>1 DEF TypeOK
  <2>4. pc' \in {"request", "header", "read", "send", "done", "killed"}
    BY <1>1 DEF TypeOK
  <2> QED
    BY <1>1, <2>1, <2>2, <2>3, <2>4 DEF TypeOK
<1>3. Asked' /\ RangeAnswered' /\ Inside'
  BY <1>1 DEF Asked, RangeAnswered, Inside
<1>4. Body'
  BY <1>1 DEF Body
<1>5. CompleteUnlessCut'
  BY <1>1 DEF CompleteUnlessCut
<1> QED
  BY <1>2, <1>3, <1>4, <1>5

LEMMA EditFileStep == IInv /\ EditFile => IInv'
<1> SUFFICES ASSUME IInv, EditFile PROVE IInv'
  OBVIOUS
<1> USE DEF IInv, conn
<1>1. /\ edits' = edits + 1 /\ edits < MaxEdits /\ size' \in 0 .. MaxSize /\ edits' # 0
      /\ edits' \in 0 .. MaxEdits
      /\ UNCHANGED <<req, kind, pc, hdr, text, todo, off, chunk, sent, conn, cut>>
  BY Constants DEF EditFile, TypeOK
<1>2. TypeOK'
  <2>1. text' \in BOOLEAN /\ cut' \in BOOLEAN
    BY <1>1 DEF TypeOK
  <2> QED
    BY <1>1, <2>1 DEF TypeOK
<1>3. Asked' /\ RangeAnswered' /\ Inside'
  BY <1>1 DEF Asked, RangeAnswered, Inside
<1>4. Body'
  BY <1>1 DEF Body
<1>5. CompleteUnlessCut'
  BY <1>1 DEF CompleteUnlessCut
<1> QED
  BY <1>2, <1>3, <1>4, <1>5

LEMMA Consecution == IInv /\ [Next]_vars => IInv'
<1> SUFFICES ASSUME IInv, [Next]_vars PROVE IInv'
  OBVIOUS
<1>1. CASE AnswerLiteral \/ OpenFails \/ OpenFile \/ OpenOutOfRange
  BY <1>1, AnswerLiteralStep, OpenFailsStep, OpenFileStep, OpenOutOfRangeStep
<1>2. CASE SendHeader \/ ReadChunk \/ ReadEnds \/ SendChunk
  BY <1>2, SendHeaderStep, ReadChunkStep, ReadEndsStep, SendChunkStep
<1>3. CASE EditFile
  BY <1>3, EditFileStep
<1>4. CASE SendFails \/ Sigpipe \/ PeerReads \/ PeerLeaves \/ PeerResets \/ UNCHANGED vars
  BY <1>4, QuietStep
<1> QED
  BY <1>1, <1>2, <1>3, <1>4 DEF Next, WorkerStep

---------------------------------------------------------------------------
(* The results *)

\* The inductive invariant: what was sent, what send_all holds, the file offset
\* and content_len add up, and an unedited file has all that was announced.
THEOREM Invariance == Spec => []IInv
BY InitInv, Consecution, PTL DEF Spec

\* The types are right for every size of file, chunk and buffer; content_len
\* never goes below zero and the offset never past the largest file.
THEOREM TypeCorrect == Spec => []TypeOK
<1>1. IInv => TypeOK
  BY DEF IInv
<1> QED
  BY <1>1, Invariance, PTL

\* send_file and send_all: the body is the announced run of bytes, none
\* repeated or skipped, never more than Content-Length, and all of it unless a
\* send failed, the file was edited or the answer has no body.
THEOREM BodyCorrect == Spec => []BodySound
<1>1. IInv => BodySound
  BY DEF IInv, Body, BodySound, BodyInOrder
<1> QED
  BY <1>1, Invariance, PTL

\* handle_request answers a legal range of the video by exactly its bytes, or by
\* 416 when it selects none, and no other route does either.
THEOREM RangesAnswered == Spec => []RangeAnswered
<1>1. IInv => RangeAnswered
  BY DEF IInv
<1> QED
  BY <1>1, Invariance, PTL

=============================================================================
