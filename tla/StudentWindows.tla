--------------------------- MODULE StudentWindows ---------------------------
(***************************************************************************)
(* The student lists of qt_learning: QSqlited_demo (StudentModel behind    *)
(* Main.qml, SQLite) and qt6widget_ui_demo (MainWindow, MySQL).  Several   *)
(* windows may be open, each a process of its own with a copy of the rows  *)
(* it loaded last.  A statement is one step; between an INSERT and the     *)
(* SELECT that refreshes the copy, or between the statements of the start, *)
(* another window may change the table, and every statement may fail.      *)
(***************************************************************************)
EXTENDS Naturals, FiniteSets, FiniteSetsExt

CONSTANTS
  Windows,
  Typed,               \* what a user types into the form
  Alice, Bob,          \* the samples of seedIfEmpty
  MaxId,               \* bound: rows inserted
  MaxWrites            \* bound: rows inserted, changed or deleted by users

\* What is assumed of the constants; the MC module that instantiates this one
\* has it checked.
WindowsAssumption ==
  /\ MaxId \in Nat /\ MaxWrites \in Nat /\ Alice # Bob /\ {Alice, Bob} \cap Typed = {}

VARIABLES
  demo,                \* "qml" or "widget"
  created,             \* the table exists
  table,               \* row of each id: its contents, and which insertion made it
  inserts,             \* insertions so far: the table's counter of ids
  pc,                  \* window: off, create, count, alice, bob, load, refresh, idle
  opened,              \* windows whose connection is open
  rows,                \* m_students, the items of m_table
  selected,            \* qml: selectedId, widget: currentRow; 0 is none
  picked,              \* history: the insertion of the row the user selected
  warned,              \* history: those of unseen that have said that loading failed
  unseen,              \* history: windows that have not loaded since they wrote
  writes, mishaps      \* history: writes by users; "fault", "race"

database == <<created, table, inserts>>
vars     == <<demo, database, pc, opened, rows, selected, picked, warned, unseen, writes, mishaps>>

Empty == [i \in {} |-> {}]

Init ==
  /\ demo \in {"qml", "widget"}
  /\ created = FALSE /\ table = Empty /\ inserts = 0
  /\ pc = [w \in Windows |-> "off"] /\ opened = {}
  /\ rows = [w \in Windows |-> Empty]
  /\ selected = [w \in Windows |-> 0] /\ picked = [w \in Windows |-> 0]
  /\ warned = {} /\ unseen = {} /\ writes = 0 /\ mishaps = {}

---------------------------------------------------------------------------
(* The statements *)

ReusedId == IF DOMAIN table = {} THEN 1 ELSE Max(DOMAIN table) + 1

\* AUTOINCREMENT, AUTO_INCREMENT: an id is not given twice.
FreshId == inserts + 1

Insert(contents) ==
  /\ created /\ inserts < MaxId
  /\ inserts' = inserts + 1
  /\ table' = [i \in DOMAIN table \cup {FreshId} |->
                 IF i = FreshId THEN [is |-> contents, made |-> inserts'] ELSE table[i]]
  /\ UNCHANGED created

\* Both need a row to be affected: MySQL counts the rows that change, SQLite
\* those that match.
Change(id, contents) ==
  /\ id \in DOMAIN table /\ (demo = "widget" => table[id].is # contents)
  /\ table' = [table EXCEPT ![id].is = contents]
  /\ UNCHANGED <<created, inserts>>

Remove(id) ==
  /\ id \in DOMAIN table
  /\ table' = [i \in DOMAIN table \ {id} |-> table[i]]
  /\ UNCHANGED <<created, inserts>>

Goto(w, place) == pc' = [pc EXCEPT ![w] = place]
Warn(w)        == warned' = warned \cup {w}
Reassure(w)    == warned' = warned \ {w}
Deselect(w)    == selected' = [selected EXCEPT ![w] = 0] /\ picked' = [picked EXCEPT ![w] = 0]
Selection      == <<selected, picked>>

---------------------------------------------------------------------------
(* The start: the constructor of StudentModel or MainWindow *)

Start(w) ==
  /\ pc[w] = "off"
  /\ opened' = opened \cup {w} /\ Goto(w, "create")
  /\ UNCHANGED <<demo, database, rows, selected, picked, warned, unseen, writes, mishaps>>

\* initialize returns false: the window shows an empty list and goes on.
StartFails(w) ==
  /\ pc[w] \in {"create", "count", "alice", "bob"}
  /\ \/ UNCHANGED opened
     \/ pc[w] = "create" /\ opened' = opened \ {w}     \* it was open that failed
  /\ Goto(w, "idle")
  /\ mishaps' = mishaps \cup {"fault"}
  /\ UNCHANGED <<demo, database, rows, selected, picked, warned, unseen, writes>>

CreateTable(w) ==    \* IF NOT EXISTS
  /\ pc[w] = "create"
  /\ created' = TRUE /\ Goto(w, "count")
  /\ UNCHANGED <<demo, table, inserts, opened, rows, selected, picked, warned, unseen, writes,
                 mishaps>>

Seeding == {w \in Windows : pc[w] \in {"alice", "bob"}}

AlwaysSeed == TRUE

TableEmpty == DOMAIN table = {}

CountRows(w) ==      \* the first statement of seedIfEmpty
  /\ pc[w] = "count"
  /\ Goto(w, IF TableEmpty THEN "alice" ELSE "load")
  /\ mishaps' = IF TableEmpty /\ Seeding # {} THEN mishaps \cup {"race"} ELSE mishaps
  /\ UNCHANGED <<demo, database, opened, rows, selected, picked, warned, unseen, writes>>

SeedAlice(w) ==
  /\ pc[w] = "alice" /\ Insert(Alice) /\ Goto(w, "bob")
  /\ UNCHANGED <<demo, opened, rows, selected, picked, warned, unseen, writes, mishaps>>

SeedBob(w) ==
  /\ pc[w] = "bob" /\ Insert(Bob) /\ Goto(w, "load")
  /\ UNCHANGED <<demo, opened, rows, selected, picked, warned, unseen, writes, mishaps>>

---------------------------------------------------------------------------
(* Loading: reload, reloadTable *)

KeepCurrent(w) == UNCHANGED Selection

\* The rows of m_table are removed and filled in again, which leaves none
\* selected; selectedId of the form stays, until an operation succeeds.
AfterLoad(w) == IF demo = "widget" \/ pc[w] = "refresh" THEN Deselect(w) ELSE UNCHANGED Selection

Load(w) ==
  /\ pc[w] \in {"load", "refresh"}
  /\ rows' = [rows EXCEPT ![w] = table]
  /\ AfterLoad(w)
  /\ Goto(w, "idle") /\ Reassure(w)
  /\ unseen' = unseen \ {w}
  /\ UNCHANGED <<demo, database, opened, writes, mishaps>>

\* addStudent, updateStudent and removeStudent of StudentModel drop the result
\* of reload and report success, and the form is cleared.
Reassured(w) == pc[w] = "refresh" /\ demo = "qml"

LoadFails(w) ==
  /\ pc[w] \in {"load", "refresh"}
  /\ IF w \in unseen /\ ~Reassured(w) THEN Warn(w) ELSE UNCHANGED warned
  /\ IF demo = "qml" /\ pc[w] = "refresh" THEN Deselect(w) ELSE UNCHANGED Selection
  /\ Goto(w, "idle")
  /\ mishaps' = mishaps \cup {"fault"}
  /\ UNCHANGED <<demo, database, opened, rows, unseen, writes>>

---------------------------------------------------------------------------
(* The user *)

\* The id of a row of m_table; the rows are in the order of their ids.
RowId(w, n) == CHOOSE i \in DOMAIN rows[w] : Cardinality({j \in DOMAIN rows[w] : j <= i}) = n

Aim(w) == IF demo = "qml" THEN selected[w]
          ELSE IF selected[w] \in 1 .. Cardinality(DOMAIN rows[w]) THEN RowId(w, selected[w]) ELSE 0

Select(w) ==
  /\ pc[w] = "idle"
  /\ \E n \in 1 .. Cardinality(DOMAIN rows[w]) :
       /\ selected' = [selected EXCEPT ![w] = IF demo = "qml" THEN RowId(w, n) ELSE n]
       /\ picked' = [picked EXCEPT ![w] = rows[w][RowId(w, n)].made]
  /\ UNCHANGED <<demo, database, pc, opened, rows, warned, unseen, writes, mishaps>>

Clear(w) ==          \* the Clear button of Main.qml
  /\ pc[w] = "idle" /\ demo = "qml" /\ Deselect(w)
  /\ UNCHANGED <<demo, database, pc, opened, rows, warned, unseen, writes, mishaps>>

Reload(w) ==         \* its Reload button
  /\ pc[w] = "idle" /\ demo = "qml"
  /\ IF w \in opened THEN Goto(w, "load") ELSE UNCHANGED pc
  /\ UNCHANGED <<demo, database, opened, rows, selected, picked, warned, unseen, writes, mishaps>>

\* A write has succeeded; the window will refresh its rows.
Wrote(w) ==
  /\ w \in opened /\ writes < MaxWrites
  /\ writes' = writes + 1 /\ unseen' = unseen \cup {w} /\ Reassure(w)
  /\ Goto(w, "refresh")
  /\ UNCHANGED <<demo, opened, rows, selected, picked, mishaps>>

Add(w) == pc[w] = "idle" /\ \E v \in Typed : Insert(v) /\ Wrote(w)

\* The whole form is written over the row, as typed.
Update(w) == pc[w] = "idle" /\ \E v \in Typed : Change(Aim(w), v) /\ Wrote(w)

Delete(w) == pc[w] = "idle" /\ Remove(Aim(w)) /\ Wrote(w)

\* Nothing changes but the message: nothing selected, a form that is not
\* valid, no connection, no row affected, or a statement that fails.
Refused(w) ==
  /\ pc[w] = "idle"
  /\ UNCHANGED vars

Exit(w) ==           \* closed, or killed in the middle of its start
  /\ pc[w] # "off"
  /\ Goto(w, "off") /\ Reassure(w) /\ Deselect(w)
  /\ rows' = [rows EXCEPT ![w] = Empty]
  /\ opened' = opened \ {w} /\ unseen' = unseen \ {w}
  /\ mishaps' = IF w \in Seeding THEN mishaps \cup {"fault"} ELSE mishaps
  /\ UNCHANGED <<demo, database, writes>>

---------------------------------------------------------------------------
Starting(w) ==
  Start(w) \/ StartFails(w) \/ CreateTable(w) \/ CountRows(w) \/ SeedAlice(w) \/ SeedBob(w)

Using(w) == Select(w) \/ Clear(w) \/ Reload(w) \/ Add(w) \/ Update(w) \/ Delete(w) \/ Refused(w)

Next == \E w \in Windows : Starting(w) \/ Load(w) \/ LoadFails(w) \/ Using(w) \/ Exit(w)

Spec == Init /\ [][Next]_vars

---------------------------------------------------------------------------
(* Properties *)

Rows == [is : Typed \cup {Alice, Bob}, made : 1 .. MaxId]

IsRows(t) == DOMAIN t \subseteq 1 .. MaxId /\ \A i \in DOMAIN t : t[i] \in Rows

\* The type invariant; nothing is in a table that was not created, and a window
\* without a connection shows nothing.
TypeOK ==
  /\ demo \in {"qml", "widget"} /\ created \in BOOLEAN
  /\ IsRows(table) /\ (~created => table = Empty) /\ inserts \in 0 .. MaxId
  /\ pc \in [Windows -> {"off", "create", "count", "alice", "bob", "load", "refresh", "idle"}]
  /\ opened \subseteq Windows /\ unseen \subseteq opened
  /\ \A w \in Windows : IsRows(rows[w]) /\ (rows[w] # Empty => w \in opened)
  /\ selected \in [Windows -> 0 .. MaxId] /\ picked \in [Windows -> 0 .. MaxId]
  /\ warned \subseteq unseen
  /\ writes \in 0 .. MaxWrites /\ mishaps \subseteq {"fault", "race"}

\* Update and Delete reach nobody but the student whose row the user selected,
\* whatever the other windows did to the table and however old the list is: if
\* the student is gone they reach no row at all.
AimsRight ==
  \A w \in Windows : Aim(w) \in DOMAIN table => table[Aim(w)].made = picked[w]

\* A window that is idle and does not show what it has written itself has said
\* so; that holds of MainWindow, while StudentModel reports success.
OwnWritesShown ==
  \A w \in Windows :
    w \in unseen /\ pc[w] = "idle" /\ demo = "widget" => w \in warned

\* What a window shows is whom it acts on, and it owns up to what it lacks.
WindowsTellTruth == AimsRight /\ OwnWritesShown

Samples(v) == {i \in DOMAIN table : table[i].is = v}

\* The samples are put into an empty table, together and once, although counting
\* and inserting are three statements without a transaction, unless two windows
\* start at the same time; while users have written nothing and no statement of
\* a start failed, both are there from the first loaded list on.
SeedsRight ==
  "race" \notin mishaps =>
    /\ writes = 0 => \A v \in {Alice, Bob} : Cardinality(Samples(v)) <= 1
    /\ \A w \in Windows : pc[w] = "alice" /\ writes = 0 => DOMAIN table = {}
    /\ writes = 0 /\ "fault" \notin mishaps /\ Seeding = {}
         /\ (\E w \in Windows : pc[w] \in {"load", "idle"})
       => Samples(Alice) # {} /\ Samples(Bob) # {}

===========================================================================
