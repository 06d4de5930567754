---------------------------- MODULE RangeHeader ----------------------------
(***************************************************************************)
(* parse_range_header of http_server/server.c.  A header is kept as what   *)
(* strtoll and the comparisons see of it:                                  *)
(*   "suffix"  bytes=-n        n = 0 when strtoll finds no digits           *)
(*   "from"    bytes=a-        followed by CR                               *)
(*   "span"    bytes=a-b       b = 0 when strtoll finds no digits           *)
(* and a string with no number or no dash is "garbage".                    *)
(***************************************************************************)
EXTENDS Integers

NoRange == [form |-> "none", a |-> 0, b |-> 0, digits |-> TRUE]

\* The headers whose numbers are in numbers; digits: did b have any?  What has no
\* number, or none that strtoll finds, counts as 0.
RangeHeaders(numbers) ==
  {h \in [form : {"none", "garbage", "suffix", "from", "span"},
          a : numbers \cup {0}, b : numbers \cup {0}, digits : BOOLEAN] :
     /\ h.form \in {"none", "garbage"} => h.a = 0
     /\ h.form # "span" => h.b = 0 /\ h.digits
     /\ ~h.digits => h.b = 0}

Refused == [result |-> -1, start |-> 0, end |-> 0]
Ignored == [result |-> 0, start |-> 0, end |-> 0]
Range1(start, end) == [result |-> 1, start |-> start, end |-> end]

SmallerOf(x, y) == IF x < y THEN x ELSE y
LargerOf(x, y)  == IF x > y THEN x ELSE y

\* The end is the last byte even when the header asks for more.
KeepEnd(end, size) == end
ClipEnd(end, size) == SmallerOf(end, size - 1)

SuffixRange(n, size) ==
  IF n <= 0 THEN Refused ELSE Range1(LargerOf(size - n, 0), size - 1)

SpanRange(a, b, size) ==
  IF a < 0 \/ b < a \/ a >= size THEN Refused ELSE Range1(a, ClipEnd(b, size))

ParseRange(h, size) ==
  IF h.form = "none" THEN Ignored
  ELSE IF h.form = "suffix" THEN SuffixRange(h.a, size)
  ELSE IF h.form = "from" THEN SpanRange(h.a, size - 1, size)
  ELSE IF h.form = "span" THEN SpanRange(h.a, h.b, size)
  ELSE Refused       \* "garbage"

---------------------------------------------------------------------------
(* What a single-part byte range means, apart from how it is parsed *)

LegalRange(h) ==
  \/ h.form = "suffix" /\ h.a > 0
  \/ h.form = "from" /\ h.a >= 0
  \/ h.form = "span" /\ h.digits /\ 0 <= h.a /\ h.a <= h.b

\* The positions of a file of size bytes that a legal header selects.
SelectedBytes(h, size) ==
  {i \in 0 .. size - 1 :
     \/ h.form = "suffix" /\ i >= size - h.a
     \/ h.form = "from" /\ i >= h.a
     \/ h.form = "span" /\ h.a <= i /\ i <= h.b}

===========================================================================
