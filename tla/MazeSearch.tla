----------------------------- MODULE MazeSearch -----------------------------
(***************************************************************************)
(* mazeDemo.c: MazePath looks for a way through a maze, depth first, with  *)
(* a stack of the squares on the way and the direction in which each was   *)
(* left.  A square is <<x, y>>.  One step is one turn of its loop.         *)
(***************************************************************************)
EXTENDS Integers, Sequences, FiniteSets, Functions

CONSTANTS
  Rows, Columns,
  Mazes,             \* the mazes: their open squares, start and end
  InitSize, Increment \* of the stack

VARIABLES
  maze,
  footprint,         \* the squares marked
  stack,             \* of squares with the direction last tried
  stacksize,
  curpos,
  verdict            \* "searching", "TRUE", "FALSE", or "outside" once a square
                     \* that does not exist has been looked at

vars == <<maze, footprint, stack, stacksize, curpos, verdict>>

Grid == (0 .. Rows - 1) \X (0 .. Columns - 1)

NextPos(pos, d) ==
  CASE d = 1 -> <<pos[1] + 1, pos[2]>>
    [] d = 2 -> <<pos[1], pos[2] + 1>>
    [] d = 3 -> <<pos[1] - 1, pos[2]>>
    [] d = 4 -> <<pos[1], pos[2] - 1>>

Pass(pos) == pos \notin footprint /\ pos \in maze.open

\* Push makes room first when the stack is full.
Room(s) == IF Len(s) > stacksize THEN stacksize + Increment ELSE stacksize

FootPrint(pos) == footprint \cup {pos}

MarkPrint(givenUp) == footprint \cup {givenUp[i].seat : i \in DOMAIN givenUp}

\* PrintFoot keeps the marks of the way alone, to print them.
PrintFoot(way) == {way[i].seat : i \in DOMAIN way}

InitStack == stack = <<>> /\ stacksize = InitSize

Init ==
  /\ maze \in Mazes
  /\ footprint = {} /\ InitStack
  /\ curpos = maze.start /\ verdict = "searching"

\* The square can be walked on: it is marked and pushed; is it the end?
Advance ==
  /\ verdict = "searching" /\ curpos \in Grid /\ Pass(curpos)
  /\ stack' = Append(stack, [seat |-> curpos, di |-> 1])
  /\ stacksize' = Room(stack')
  /\ \/ /\ curpos # maze.end /\ curpos' = NextPos(curpos, 1)
        /\ footprint' = FootPrint(curpos)
        /\ UNCHANGED verdict
     \/ /\ curpos = maze.end /\ verdict' = "TRUE"
        /\ footprint' = PrintFoot(stack')
        /\ UNCHANGED curpos
  /\ UNCHANGED maze

UntriedButNorth(e) == e.di < 3

Untried(e) == e.di < 4

\* It cannot: back to the last square with a direction left, which is tried.
\* The squares given up stay marked.
Backtrack ==
  /\ verdict = "searching" /\ curpos \in Grid /\ ~Pass(curpos)
  /\ LET left == {i \in DOMAIN stack : Untried(stack[i])}
     IN  IF left = {}
         THEN /\ stack' = <<>> /\ verdict' = "FALSE"
              /\ footprint' = MarkPrint(SubSeq(stack, 2, Len(stack)))
              /\ UNCHANGED curpos
         ELSE LET i == CHOOSE i \in left : \A j \in left : j <= i
              IN  /\ stack' = [SubSeq(stack, 1, i) EXCEPT ![i].di = @ + 1]
                  /\ curpos' = NextPos(stack[i].seat, stack[i].di + 1)
                  /\ footprint' = MarkPrint(SubSeq(stack, i + 1, Len(stack)))
                  /\ UNCHANGED verdict
  /\ UNCHANGED <<maze, stacksize>>

\* Pass only stops at a square beyond Rows or Columns, not at Rows, at Columns
\* or below 0: it reads outside the arrays.
Stray ==
  /\ verdict = "searching" /\ curpos \notin Grid
  /\ verdict' = "outside"
  /\ UNCHANGED <<maze, footprint, stack, stacksize, curpos>>

Next == Advance \/ Backtrack \/ Stray

Spec == Init /\ [][Next]_vars

---------------------------------------------------------------------------
(* What is assumed of the constants; the module that instantiates this one *)
(* for TLC has it checked.                                                 *)

\* Beyond the edge there is something to look at only from the start, and only
\* once no direction of the start is left that is open: as in main's maze, with
\* its wall, and the way out the end.
Enclosed(m) ==
  \A p \in m.open \ {m.end}, d \in 1 .. 4 :
    NextPos(p, d) \notin Grid =>
      p = m.start /\ \A e \in d .. 4 : NextPos(p, e) \notin m.open

MazeAssumption ==
  /\ Rows \in Nat /\ Columns \in Nat
  /\ InitSize \in Nat /\ Increment \in Nat \ {0}
  /\ \A m \in Mazes : m.open \subseteq Grid /\ Enclosed(m)

---------------------------------------------------------------------------
(* Properties *)

\* The squares that can be reached from the start.
Adjacent(p, q) == \E d \in 1 .. 4 : q = NextPos(p, d)

Reached ==
  LET Spread(S) == S \cup {q \in maze.open : \E p \in S : Adjacent(p, q)}
      within[k \in 0 .. Cardinality(Grid)] ==
        IF k = 0 THEN {maze.start} \cap maze.open ELSE Spread(within[k - 1])
  IN  within[Cardinality(Grid)]

\* TRUE is told with a way in the stack: from the start to the end, square by
\* square, none twice.  FALSE is told only when there is none, and the search
\* leaves the arrays only when there is none.  The stack fits its memory.
SearchDecides ==
  LET seats == [i \in DOMAIN stack |-> stack[i].seat]
  IN  /\ Len(stack) <= stacksize
      /\ verdict = "TRUE" =>
           /\ seats[1] = maze.start /\ seats[Len(seats)] = maze.end
           /\ Range(seats) \subseteq maze.open /\ IsInjective(seats)
           /\ \A i \in 2 .. Len(seats) : Adjacent(seats[i - 1], seats[i])
      /\ verdict \in {"FALSE", "outside"} => maze.end \notin Reached

=============================================================================
