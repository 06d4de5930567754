------------------------- MODULE MCStudentPrograms -------------------------
(***************************************************************************)
(* The instance for TLC of the student system with its file and of the Qt  *)
(* windows with their table, which do not interact: a behaviour runs one   *)
(* of them, the other stays as it starts.                                  *)
(***************************************************************************)
EXTENDS StudentStore, TLC

CONSTANTS ann, bob

\* Someone with no user name, someone who is not a student, and a score from nowhere.
AFewGarbled ==
  {[user |-> NoName, id |-> 0, named |-> FALSE, score |-> 0, student |-> TRUE],
   [user |-> ann,    id |-> 1, named |-> TRUE,  score |-> 0, student |-> FALSE],
   [user |-> bob,    id |-> 0, named |-> FALSE, score |-> 1, student |-> TRUE]}

CONSTANTS AllWindows, Typed, Alice, Bob, MaxId, MaxWrites    \* StudentWindows

VARIABLES
  part,                                       \* which of them runs
  demo, created, table, inserts, pc, opened,  \* StudentWindows
  rows, selected, picked, warned, unseen, writes, mishaps

windowVars == <<demo, created, table, inserts, pc, opened,
                rows, selected, picked, warned, unseen, writes, mishaps>>

Windows == INSTANCE StudentWindows WITH Windows <- AllWindows

ASSUME PartsAssumption == Windows!WindowsAssumption

\* The windows start alike.
AlikeWindows == Permutations(AllWindows)

MCInit ==
  /\ Init /\ Windows!Init
  /\ \/ part = "file" /\ demo = "qml"
     \/ part = "windows"

MCNext ==
  /\ UNCHANGED part
  /\ \/ part = "file"    /\ Next         /\ UNCHANGED windowVars
     \/ part = "windows" /\ Windows!Next /\ UNCHANGED vars

\* Nobody reads temp.dat once another edit begins, nor the contents of an edit that
\* has ended: TLC takes states that differ in nothing else for one.
EditRuns == place \in {"copy", "remove", "rename"}
CopyRead == place = "remove" \/ "students.dat" \notin onDisk

WhatMatters ==
  <<onDisk \ (IF CopyRead THEN {} ELSE {"temp.dat"}), file, IF CopyRead THEN temp ELSE <<>>,
    torn \ (IF CopyRead THEN {} ELSE {"temp.dat"}), place, session,
    IF EditRuns \/ CopyRead THEN edit ELSE <<>>, IF EditRuns THEN back ELSE "main",
    trouble, windowVars, part>>

MCSpec == MCInit /\ [][MCNext]_<<vars, windowVars, part>>

\* The type invariants of both.
TypesOK == TypeOK /\ Windows!TypeOK

\* Update and Delete of a window reach nobody but the student it selected, and a
\* main window that does not show its own write has said so.
WindowsTellTruth == Windows!WindowsTellTruth

\* The samples are put into an empty table, together and once.
SeedsRight == Windows!SeedsRight

===========================================================================
