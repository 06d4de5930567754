------------------------------ MODULE PipeCopy -----------------------------
(***************************************************************************)
(* IO_programming: pipe_demo.c, whose child writes a message into a pipe   *)
(* that the parent copies to its output, and cat_fd.c, whose loop is the   *)
(* parent's over a file.  A read of a pipe ends only when no process has   *)
(* the write end open, and fork leaves both ends open in both processes.   *)
(* EINTR is retried and changes nothing, so it is no step.                 *)
(***************************************************************************)
EXTENDS Naturals, Sequences, SequencesExt

CONSTANTS
  Size,                \* units of the message or the file
  Buf,                 \* units of one read
  Sources,             \* the program: \subseteq {"pipe", "file"}
  Faults               \* what may fail: \subseteq {"read", "write"}

\* What is assumed of the constants; the MC module that instantiates this one
\* has it checked.
PipeAssumption ==
  /\ Size \in Nat /\ Buf \in Nat \ {0}
  /\ Sources \subseteq {"pipe", "file"} /\ Faults \subseteq {"read", "write"}

VARIABLES
  source,
  input,               \* what is in the pipe, or left of the file
  ends,                \* open ends of the pipe, as <<process, direction>>
  child,               \* start, write, close, fail, exit
  parent,              \* start, read, write, close, wait, done
  buf,                 \* what write_all has still to write
  output,
  failed               \* the loop was left by an error

pipeVars == <<source, input, ends, child, parent, buf, output, failed>>

Message == [i \in 1 .. Size |-> i]

AllEnds == {"child", "parent"} \X {"read", "write"}

Open(direction) == \E e \in ends : e[2] = direction

\* After fork; cat_fd has opened its file and has no child.
Init ==
  /\ source \in Sources
  /\ IF source = "pipe"
     THEN input = <<>> /\ ends = AllEnds /\ child = "start" /\ parent = "start"
     ELSE input = Message /\ ends = {} /\ child = "exit" /\ parent = "read"
  /\ buf = <<>> /\ output = <<>> /\ failed = FALSE

---------------------------------------------------------------------------
(* The child *)

childUnchanged == <<source, parent, buf, output, failed>>

ChildStart ==
  /\ child = "start" /\ child' = "write"
  /\ ends' = ends \ {<<"child", "read">>}
  /\ UNCHANGED input /\ UNCHANGED childUnchanged

\* A message below PIPE_BUF goes into the pipe whole.  Without a reader the child
\* is killed by SIGPIPE or, where that is ignored, write_all answers -1.
ChildWrite ==
  /\ child = "write"
  /\ \/ /\ Open("read")
        /\ input' = Message /\ child' = "close" /\ UNCHANGED ends
     \/ /\ ~Open("read")
        /\ child' = "fail" /\ UNCHANGED <<input, ends>>
     \/ /\ ~Open("read")
        /\ child' = "exit" /\ ends' = ends \ {<<"child", "write">>}
        /\ UNCHANGED input
  /\ UNCHANGED childUnchanged

ChildClose ==        \* and return, with 0 or after an error with 1
  /\ child \in {"close", "fail"} /\ child' = "exit"
  /\ ends' = ends \ {<<"child", "write">>}
  /\ UNCHANGED input /\ UNCHANGED childUnchanged

---------------------------------------------------------------------------
(* The parent, and cat_fd *)

\* What the parent closes before it reads.
WriteEnd == {<<"parent", "write">>}

ParentStart ==
  /\ parent = "start" /\ parent' = "read"
  /\ ends' = ends \ WriteEnd
  /\ UNCHANGED <<source, input, child, buf, output, failed>>

LeaveLoop(error) == parent' = "close" /\ failed' = error

ReadSome ==
  /\ parent = "read"
  /\ \E n \in 1 .. Buf :
       /\ n <= Len(input)
       /\ buf' = SubSeq(input, 1, n) /\ input' = SubSeq(input, n + 1, Len(input))
  /\ parent' = "write"
  /\ UNCHANGED <<source, ends, child, output, failed>>

ReadEnd ==           \* 0
  /\ parent = "read" /\ input = <<>> /\ ~Open("write")
  /\ LeaveLoop(FALSE)
  /\ UNCHANGED <<source, input, ends, child, buf, output>>

\* A call fails, and the loop ends.
Fails ==
  /\ parent \in Faults
  /\ LeaveLoop(TRUE)
  /\ UNCHANGED <<source, input, ends, child, buf, output>>

\* p and left of write_all after n units were written.
StartAgain(s, n) == IF n < Len(s) THEN s ELSE <<>>

Rest(s, n) == SubSeq(s, n + 1, Len(s))

WriteAll ==          \* one write, which may be short
  /\ parent = "write"
  /\ \E n \in 1 .. Buf :
       /\ n <= Len(buf)
       /\ output' = output \o SubSeq(buf, 1, n)
       /\ buf' = Rest(buf, n)
  /\ parent' = IF buf' = <<>> THEN "read" ELSE "write"
  /\ UNCHANGED <<source, input, ends, child, failed>>

CloseRead ==
  /\ parent = "close" /\ parent' = "wait"
  /\ ends' = ends \ {<<"parent", "read">>}
  /\ UNCHANGED <<source, input, child, buf, output, failed>>

Wait ==              \* waitpid; cat_fd just returns
  /\ parent = "wait" /\ child = "exit"
  /\ parent' = "done"
  /\ UNCHANGED <<source, input, ends, child, buf, output, failed>>

---------------------------------------------------------------------------
ChildStep  == ChildStart \/ ChildWrite \/ ChildClose
ParentStep == ParentStart \/ ReadSome \/ ReadEnd \/ WriteAll \/ CloseRead \/ Wait

Next == ChildStep \/ ParentStep \/ Fails

Spec == Init /\ [][Next]_pipeVars

\* Both processes run on, and the output takes what it is given; a read that
\* blocks owes no error.
Fairness == WF_pipeVars(ChildStep) /\ WF_pipeVars(ParentStep)

---------------------------------------------------------------------------
(* Properties *)

\* The type invariant.
TypeOK ==
  /\ source \in Sources /\ ends \subseteq AllEnds /\ failed \in BOOLEAN
  /\ child \in {"start", "write", "close", "fail", "exit"}
  /\ parent \in {"start", "read", "write", "close", "wait", "done"}
  /\ {input, buf, output} \subseteq Seq(1 .. Size)

\* However reads and writes are cut, the output is the beginning of the input, and
\* all of it when the loop ended by itself: the end the parent sees is never one
\* that comes before the child's message.
CopiedInOrder ==
  /\ IsPrefix(output, Message)
  /\ parent \in {"close", "wait", "done"} /\ ~failed => output = Message

Done == parent = "done"

\* The program ends: the parent sees the end of the pipe because nobody holds its
\* write end any more, and its child never waits for a reader that is gone.
Ends == <>Done

===========================================================================
