---------------------------- MODULE StudentStore ----------------------------
(***************************************************************************)
(* Student_Info_Manament_System: one process whose menus register, log in, *)
(* and edit the records of data/students.dat.  Every edit copies the file  *)
(* to data/temp.dat, removes the file and renames the copy; the process    *)
(* may stop between any two of these steps and is then started again.      *)
(* The three scores are one and a name is whether it is empty.             *)
(*                                                                         *)
(* A record is 72 bytes and stdio writes 4096 at a time, so a file cut     *)
(* short may end in part of a record (torn).  Every reader stops before    *)
(* that part and every copy leaves it out, but register appends behind it: *)
(* what is then read as a record has the end of one and the beginning of   *)
(* another, and any user name, the empty one too.                          *)
(***************************************************************************)
EXTENDS Naturals, Sequences, FiniteSets, SequencesExt

CONSTANTS
  Users, Ids, Scores,
  NoName,            \* the empty user name, which nobody can type
  MaxRecords,        \* bound: records in the file
  Garbled,           \* bound: what a record appended behind a torn one may be
  Faults,            \* what may go wrong: "read", "open", "full", "crash"
  Nobody

\* A record; student is whether its role is ROLE_STUDENT.
Students == [user : Users \cup {NoName}, id : Ids, named : BOOLEAN, score : Scores,
             student : BOOLEAN]

ASSUME ConstantsAssumption ==
  /\ Ids \subseteq Nat /\ Scores \subseteq Nat /\ MaxRecords \in Nat
  /\ 0 \in Ids \cap Scores /\ NoName \notin Users /\ Garbled \subseteq Students
  /\ Faults \subseteq {"read", "open", "full", "crash"} /\ Nobody \notin Students

VARIABLES
  onDisk,            \* which of "students.dat" and "temp.dat" exist
  file, temp,        \* their records; empty while the file does not exist
  torn,              \* which of them end in part of a record
  place,             \* menu, or step of an edit: main, student, admin, copy,
                     \* remove, rename, down
  session,           \* stuinfo: the record of the student logged in
  edit,              \* the contents the running edit, or the one a crash has
                     \* stopped, will give the file
  back,              \* the menu the edit returns to
  trouble            \* history: "loss" since a crash or a short write, "double"
                     \* since a registration left a second or a garbled record,
                     \* "clash" since a score went to an id that several have

vars == <<onDisk, file, temp, torn, place, session, edit, back, trouble>>

Init ==
  /\ onDisk = {} /\ file = <<>> /\ temp = <<>> /\ torn = {}
  /\ place = "main" /\ session = Nobody
  /\ edit = <<>> /\ back = "main" /\ trouble = {}

---------------------------------------------------------------------------
(* Reading the file *)

OfUser(u)  == {i \in DOMAIN file : file[i].user = u}
WithId(id) == {i \in DOMAIN file : file[i].id = id /\ file[i].student}

\* The search loops return the first match.
First(places) == CHOOSE i \in places : \A j \in places : i <= j

---------------------------------------------------------------------------
(* The main menu *)

NameTakenIgnored(u) == FALSE

NameTaken(u) == OfUser(u) # {}

New(u) == [user |-> u, id |-> 0, named |-> FALSE, score |-> 0, student |-> TRUE]

AppendWhole(u) ==
  /\ "students.dat" \notin torn
  /\ file' = Append(file, New(u)) /\ UNCHANGED torn
  /\ trouble' = IF NameTaken(u) THEN trouble \cup {"double"} ELSE trouble

AppendPart ==        \* nothing or a part of a record; a success all the same
  /\ "full" \in Faults
  /\ torn' \in {torn, torn \cup {"students.dat"}} /\ UNCHANGED file
  /\ trouble' = trouble \cup {"loss"}

AppendBehindPart ==  \* the new record or a part of it completes the torn one
  /\ "students.dat" \in torn
  /\ \E garbled \in Garbled : file' = Append(file, garbled)
  /\ torn' \in {torn} \cup (IF "full" \in Faults THEN {torn \ {"students.dat"}} ELSE {})
  /\ trouble' = trouble \cup {"double"}

RegisterFlow(u) ==   \* a file that cannot be read is taken for one that does
                     \* not exist; fclose, which writes, is not checked
  /\ place = "main" /\ Len(file) < MaxRecords
  /\ ~NameTaken(u) \/ "read" \in Faults
  /\ AppendWhole(u) \/ AppendPart \/ AppendBehindPart
  /\ onDisk' = onDisk \cup {"students.dat"}
  /\ UNCHANGED <<temp, place, session, edit, back>>

NotCopied(u) == {session}

\* Of several records with the user's name, the password decides.
LoggedIn(u) == {file[i] : i \in OfUser(u)}

LoginStudent(u) ==   \* login_judge copies the record into the session
  /\ place = "main" /\ OfUser(u) # {}
  /\ session' \in LoggedIn(u)
  /\ place' = "student"
  /\ UNCHANGED <<onDisk, file, temp, torn, edit, back, trouble>>

LoginAdmin ==        \* needs no record
  /\ place = "main"
  /\ place' = "admin"
  /\ UNCHANGED <<onDisk, file, temp, torn, session, edit, back, trouble>>

Logout ==
  /\ place \in {"student", "admin"}
  /\ place' = "main" /\ session' = Nobody
  /\ UNCHANGED <<onDisk, file, temp, torn, edit, back, trouble>>

---------------------------------------------------------------------------
(* The edits, up to the point where the file is rewritten *)

RemoveAtOnce == "remove"

FirstStep == "copy"

Rewrite(contents) ==
  /\ edit' = contents
  /\ place' = FirstStep /\ back' = place
  /\ UNCHANGED <<onDisk, file, temp, torn>>

\* The copying loop: the records at these places are replaced by new.
ReplaceEach(places, new) == [i \in DOMAIN file |-> new]

Replace(places, new) == [i \in DOMAIN file |-> IF i \in places THEN new ELSE file[i]]

\* set_student_info: the session is changed first, saved or not.  Nothing
\* checks that no other student has the id.
SetInfo(id, named) ==
  /\ place = "student"
  /\ session' = [session EXCEPT !.id = id, !.named = named]
  /\ Rewrite(Replace(OfUser(session.user), session'))
  /\ UNCHANGED trouble

\* All records with the id become the first one, 0 being the id of every
\* student who has not set one.
SetScore(id, score) ==
  /\ Rewrite(Replace(WithId(id), [file[First(WithId(id))] EXCEPT !.score = score]))
  /\ trouble' = IF WithId(id) = {First(WithId(id))} THEN trouble ELSE trouble \cup {"clash"}
  /\ UNCHANGED session

AddScore(id, score) ==     \* refuses a student without a name
  /\ place = "admin" /\ WithId(id) # {} /\ file[First(WithId(id))].named
  /\ SetScore(id, score)

ModifyScore(id, score) ==  \* does not
  /\ place = "admin" /\ WithId(id) # {}
  /\ SetScore(id, score)

\* The records at these places, in their order.
Selected(places) ==
  [k \in 1 .. Cardinality(places) |->
     file[CHOOSE i \in places : Cardinality({j \in places : j <= i}) = k]]

KeptById(u) == Selected(DOMAIN file \ WithId(file[First(OfUser(u))].id))

KeptOthers(u) == Selected(DOMAIN file \ OfUser(u))

DeleteStudent(u) ==
  /\ place = "admin" /\ \E i \in OfUser(u) : file[i].student
  /\ Rewrite(KeptOthers(u))
  /\ UNCHANGED <<session, trouble>>

---------------------------------------------------------------------------
(* The rewriting: temp.dat, remove, rename *)

EditNotOpened ==     \* an fopen failed; the other one may have emptied temp.dat
  /\ place = "copy" /\ "open" \in Faults
  /\ place' = back /\ edit' = <<>>
  /\ \/ UNCHANGED <<onDisk, temp, torn>>
     \/ temp' = <<>> /\ torn' = torn \ {"temp.dat"} /\ onDisk' = onDisk \cup {"temp.dat"}
  /\ UNCHANGED <<file, session, back, trouble>>

Parts(s) == {SubSeq(s, 1, n) : n \in 0 .. Len(s) - 1}

\* The copy ends early, between two records or inside one.
PartlyCopied ==
  /\ temp' \in Parts(edit)
  /\ torn' \in {torn \ {"temp.dat"}, torn \cup {"temp.dat"}}

CopyToTemp ==        \* no fwrite or fclose is checked
  /\ place = "copy"
  /\ \/ temp' = edit /\ torn' = torn \ {"temp.dat"} /\ UNCHANGED trouble
     \/ "full" \in Faults /\ PartlyCopied /\ trouble' = trouble \cup {"loss"}
  /\ onDisk' = onDisk \cup {"temp.dat"}
  /\ place' = "remove"
  /\ UNCHANGED <<file, session, edit, back>>

RemoveFile ==
  /\ place = "remove"
  /\ file' = <<>> /\ onDisk' = onDisk \ {"students.dat"}
  /\ torn' = torn \ {"students.dat"}
  /\ place' = "rename"
  /\ UNCHANGED <<temp, session, edit, back, trouble>>

RenameTemp ==
  /\ place = "rename"
  /\ file' = temp /\ temp' = <<>> /\ onDisk' = {"students.dat"}
  /\ torn' = IF "temp.dat" \in torn THEN {"students.dat"} ELSE {}
  /\ place' = back /\ edit' = <<>>
  /\ UNCHANGED <<session, back, trouble>>

Crash ==             \* the process stops, perhaps in the middle of an edit
  /\ "crash" \in Faults /\ place # "down"
  /\ place' = "down" /\ session' = Nobody /\ trouble' = trouble \cup {"loss"}
  /\ \/ UNCHANGED <<onDisk, temp, torn>>
     \/ place = "copy" /\ PartlyCopied /\ onDisk' = onDisk \cup {"temp.dat"}
  /\ UNCHANGED <<file, edit, back>>

Restart ==
  /\ place = "down" /\ place' = "main"
  /\ UNCHANGED <<onDisk, file, temp, torn, session, edit, back, trouble>>

---------------------------------------------------------------------------
Menu ==
  \/ \E u \in Users : RegisterFlow(u) \/ LoginStudent(u) \/ DeleteStudent(u)
  \/ \E id \in Ids, named \in BOOLEAN : SetInfo(id, named)
  \/ \E id \in Ids, s \in Scores : AddScore(id, s) \/ ModifyScore(id, s)
  \/ LoginAdmin \/ Logout

Next == Menu \/ EditNotOpened \/ CopyToTemp \/ RemoveFile \/ RenameTemp
        \/ Crash \/ Restart

Spec == Init /\ [][Next]_vars

---------------------------------------------------------------------------
(* Properties *)

\* The type invariant; the student menu is never entered without a record in the
\* session (stuinfo).
TypeOK ==
  /\ onDisk \subseteq {"students.dat", "temp.dat"}
  /\ {file, temp} \subseteq Seq(Students) /\ torn \subseteq onDisk
  /\ "students.dat" \notin onDisk => file = <<>>
  /\ "temp.dat" \notin onDisk => temp = <<>>
  /\ place \in {"main", "student", "admin", "copy", "remove", "rename", "down"}
  /\ session \in Students \cup {Nobody}
  /\ place = "student" => session # Nobody
  /\ trouble \subseteq {"loss", "double", "clash"}
  /\ edit \in Seq(Students) /\ back \in {"main", "student", "admin"}

\* The development guide's uniqueness check, whatever is edited, interrupted or
\* cut short: records with one user name are one record, several times over once a
\* score was given to an id that several students had and not otherwise.  Only a
\* registration that could not read the file, or that followed a torn record, puts
\* different records under one name.
UsernamesUnique ==
  "double" \notin trouble =>
    \A i, j \in DOMAIN file :
      file[i].user = file[j].user => file[i] = file[j] /\ ("clash" \in trouble \/ i = j)

\* Whenever the data file is missing, temp.dat has all of it that the disk
\* took: a stopped edit can be finished by hand until another one begins.
CopySurvives ==
  "students.dat" \notin onDisk /\ edit # <<>> =>
    /\ "temp.dat" \in onDisk
    /\ temp = edit \/ ("full" \in Faults /\ IsPrefix(temp, edit))

\* The file, or its copy while a running edit has removed it.
Contents == IF "students.dat" \in onDisk THEN file ELSE temp

DirectoryOf(s) ==
  [u \in Users |-> LET here == {i \in DOMAIN s : s[i].user = u}
                   IN IF here = {} THEN Nobody ELSE s[First(here)]]

Directory == INSTANCE StudentDirectory WITH dir <- DirectoryOf(Contents)

\* Every edit is one atomic change of one student, in spite of being a
\* rewriting of the file in three steps; after a crash or a short write students
\* may be missing, and those who are left are as they were, torn records or not.
\* What a garbled record or a shared id may do is bounded too (StudentDirectory).
ImplementsDirectory == Directory!Spec

\* A student who is in the file stays in it until an administrator deletes him:
\* the release notes call the temporary file safe and atomic.
StudentsStay ==
  [][\A u \in Users :
       DirectoryOf(Contents)[u] # Nobody /\ DirectoryOf(Contents)'[u] = Nobody
         => place = "remove" /\ back = "admin" /\ DirectoryOf(edit)[u] = Nobody]_vars

===========================================================================
