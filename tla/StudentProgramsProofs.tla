----------------------- MODULE StudentProgramsProofs -----------------------
(***************************************************************************)
(* Proofs about StudentStore, for any sets of users, ids and scores, any   *)
(* number of records and whatever a garbled record may be, and about       *)
(* StudentWindows, for any set of windows and any number of rows and       *)
(* writes.                                                                 *)
(*                                                                         *)
(* That an edit is one atomic change in spite of its three steps is shown  *)
(* by what holds between them: while a rewriting runs, its contents are    *)
(* one change away from the file (Prepared), once it is copied temp.dat is *)
(* those contents or, after a loss, a beginning of them (Copied), and the  *)
(* session, which set_student_info writes back as a whole, agrees with the *)
(* student's records in what he cannot edit (Mine), as long as these are   *)
(* all one record (Singles).                                               *)
(***************************************************************************)
EXTENDS MCStudentPrograms, SequenceTheorems, FiniteSetTheorems, WellFoundedInduction, TLAPS

Editing == {"copy", "remove", "rename"}

\* Who uses which menu, and when students.dat is there.
Places ==
  /\ place \in {"student", "copy", "remove"} => "students.dat" \in onDisk
  /\ place = "rename" => "students.dat" \notin onDisk
  /\ place \in {"main", "admin", "down"} => session = Nobody
  /\ place \in Editing => back \in {"student", "admin"} /\ (back = "student" <=> session # Nobody)
  /\ "students.dat" \notin onDisk /\ place # "rename" => temp = <<>> \/ "loss" \in trouble
  /\ session # Nobody => session.user \in Users

\* What the copy is worth while the file is replaced.
Copied ==
  place \in {"remove", "rename"} =>
    /\ "temp.dat" \in onDisk
    /\ temp = edit \/ ("full" \in Faults /\ "loss" \in trouble /\ temp \in Parts(edit))

\* The records of a user are one record, once as long as there was no clash.
Alike(s) ==
  \A i, j \in 1 .. Len(s) :
    s[i].user = s[j].user => s[i] = s[j] /\ ("clash" \in trouble \/ i = j)

\* There is nothing but students.
Proper(s) == \A i \in 1 .. Len(s) : s[i].user \in Users /\ s[i].student

Regular(s) == Alike(s) /\ Proper(s)

Singles ==
  "double" \notin trouble => Regular(file) /\ (place \in Editing => Regular(edit))

\* The score of the session's student, who cannot change it.
SameScore(s) == \A i \in 1 .. Len(s) : s[i].user = session.user => s[i].score = session.score

Mine ==
  "double" \notin trouble /\ session # Nobody =>
    session.student /\ SameScore(file) /\ (place \in Editing => SameScore(edit))

\* A score for an id that several students have leaves one of them.
MergeOf(d, u, s) ==
  [v \in Users |-> IF v = u THEN [d[u] EXCEPT !.score = s]
                   ELSE IF d[v] # Nobody /\ d[v].id = d[u].id THEN Nobody
                   ELSE d[v]]

\* What an edit does to the directory, t being the trouble there has been.
ChangeOf(u, d, e, t) ==
  \/ e = [d EXCEPT ![u] = Nobody]
  \/ \E id \in Ids, named \in BOOLEAN : e = [d EXCEPT ![u].id = id, ![u].named = named]
  \/ \E s \in Scores : e = [d EXCEPT ![u].score = s]
  \/ "clash" \in t /\ \E s \in Scores : e = MergeOf(d, u, s)
  \/ "double" \in t /\ \E r \in Directory!Records(u) : e = [d EXCEPT ![u] = r]

OneChange(d, e, t) == e = d \/ \E u \in Users : d[u] # Nobody /\ ChangeOf(u, d, e, t)

MixedUp == {"clash", "double"} \subseteq trouble

Prepared ==
  place \in {"copy", "remove"} /\ ~MixedUp =>
    OneChange(DirectoryOf(file), DirectoryOf(edit), trouble)

IInv == TypeOK /\ Places /\ Copied /\ CopySurvives /\ Singles /\ Mine /\ Prepared

---------------------------------------------------------------------------
(* The operators *)

\* A set of naturals has a least element: less-than is well-founded.
LEMMA FirstIsLeast ==
  ASSUME NEW places \in SUBSET Nat, places # {}
  PROVE  First(places) \in places /\ \A j \in places : First(places) <= j
<1> DEFINE R == {p \in Nat \X Nat : p[1] < p[2]}
<1>0. IsWellFoundedOn(R, Nat)
  BY NatLessThanWellFounded DEF OpToRel
<1>1. \E f \in places : \A g \in places : ~(<<g, f>> \in R)
  <2> HIDE DEF R
  <2> QED
    BY <1>0, WFMin
<1>2. ASSUME NEW f \in places, NEW g \in places, g < f
      PROVE  <<g, f>> \in R
  <2>1. <<g, f>> \in Nat \X Nat /\ <<g, f>>[1] < <<g, f>>[2]
    BY <1>2
  <2> QED
    BY <2>1
<1>3. \E f \in places : \A g \in places : f <= g
  <2> HIDE DEF R
  <2>1. PICK f \in places : \A g \in places : ~(<<g, f>> \in R)
    BY <1>1
  <2>2. ASSUME NEW g \in places PROVE f <= g
    <3>1. ~(g < f)
      BY <1>2, <2>1
    <3>2. f \in Nat /\ g \in Nat
      OBVIOUS
    <3> QED
      BY <3>1, <3>2
  <2> QED
    BY <2>2
<1> QED
  BY <1>3 DEF First

\* The search loops find a record that is in the file.
LEMMA FoundInFile ==
  ASSUME NEW s \in Seq(Students), NEW places \in SUBSET (1 .. Len(s)), places # {}
  PROVE  First(places) \in places /\ s[First(places)] \in Students
<1>1. places \in SUBSET Nat
  OBVIOUS
<1>2. First(places) \in places
  BY <1>1, FirstIsLeast
<1> QED
  BY <1>2, ElementOfSeq

\* The only place is the first.
LEMMA FirstOfOne ==
  ASSUME NEW i \in Nat
  PROVE  First({i}) = i
BY FirstIsLeast

\* A user without a record is not in the directory.
LEMMA DirectoryLacks ==
  ASSUME NEW s \in Seq(Students), NEW u \in Users, \A i \in 1 .. Len(s) : s[i].user # u
  PROVE  DirectoryOf(s)[u] = Nobody
<1>1. {i \in DOMAIN s : s[i].user = u} = {}
  OBVIOUS
<1> QED
  BY <1>1 DEF DirectoryOf

\* Which record of a file is the first of a user.
Leads(s, u, i) ==
  /\ i \in 1 .. Len(s) /\ s[i].user = u
  /\ \A j \in 1 .. Len(s) : s[j].user = u => i <= j

\* The directory has the first record of a user who has any.
LEMMA DirectoryFound ==
  ASSUME NEW s \in Seq(Students), NEW u \in Users, NEW k \in 1 .. Len(s), s[k].user = u
  PROVE  \E i \in 1 .. Len(s) : Leads(s, u, i) /\ DirectoryOf(s)[u] = s[i]
<1> DEFINE here == {j \in DOMAIN s : s[j].user = u}
<1>1. DOMAIN s = 1 .. Len(s)
  BY LenProperties
<1>2. here \in SUBSET Nat /\ here # {}
  BY <1>1
<1>3. DirectoryOf(s)[u] = s[First(here)]
  BY <1>2 DEF DirectoryOf
<1>4. \A j \in 1 .. Len(s) : j \in here <=> s[j].user = u
  BY <1>1
<1>5. here \in SUBSET (1 .. Len(s))
  BY <1>1
<1> HIDE DEF here
<1>6. First(here) \in here /\ \A j \in here : First(here) <= j
  BY <1>2, FirstIsLeast
<1>7. Leads(s, u, First(here)) /\ First(here) \in 1 .. Len(s)
  BY <1>4, <1>5, <1>6 DEF Leads
<1> QED
  BY <1>3, <1>7

LEMMA DirectoryFirst ==
  ASSUME NEW s \in Seq(Students), NEW u \in Users, NEW i, Leads(s, u, i)
  PROVE  DirectoryOf(s)[u] = s[i]
<1>1. i \in 1 .. Len(s) /\ s[i].user = u
  BY DEF Leads
<1>2. PICK k \in 1 .. Len(s) : Leads(s, u, k) /\ DirectoryOf(s)[u] = s[k]
  BY <1>1, DirectoryFound
<1>3. i <= k /\ k <= i
  BY <1>1, <1>2 DEF Leads
<1>4. i = k
  <2>1. i \in Int /\ k \in Int
    BY <1>1
  <2> QED
    BY <1>3, <2>1
<1> QED
  BY <1>2, <1>4

\* A user is in the directory with a record of his or not at all.
LEMMA DirectoryRecord ==
  ASSUME NEW s \in Seq(Students), NEW u \in Users, DirectoryOf(s)[u] # Nobody
  PROVE  \E i \in 1 .. Len(s) : Leads(s, u, i) /\ DirectoryOf(s)[u] = s[i]
<1>1. PICK k \in 1 .. Len(s) : s[k].user = u
  BY DirectoryLacks
<1> QED
  BY <1>1, DirectoryFound

\* A user whose records are all one record is in the directory with it.
LEMMA DirectoryHas ==
  ASSUME NEW s \in Seq(Students), Regular(s), NEW i \in 1 .. Len(s)
  PROVE  s[i] \in Students /\ s[i].user \in Users /\ DirectoryOf(s)[s[i].user] = s[i]
<1>1. s[i] \in Students /\ s[i].user \in Users
  BY ElementOfSeq DEF Regular, Proper
<1>2. PICK k \in 1 .. Len(s) :
         Leads(s, s[i].user, k) /\ DirectoryOf(s)[s[i].user] = s[k]
  BY <1>1, DirectoryFound
<1>3. s[k] = s[i]
  BY <1>2 DEF Leads, Regular, Alike
<1> QED
  BY <1>1, <1>2, <1>3

\* A directory is a function on the user names.
LEMMA DirectoryDomain ==
  ASSUME NEW s
  PROVE  DirectoryOf(s) = [u \in Users |-> DirectoryOf(s)[u]]
BY DEF DirectoryOf

\* Directories that agree on every user are the same.
LEMMA SameDirectory ==
  ASSUME NEW s, NEW d, d = [u \in Users |-> d[u]],
         \A u \in Users : DirectoryOf(s)[u] = d[u]
  PROVE  DirectoryOf(s) = d
BY DirectoryDomain

\* A user whose records are where they were is in the directory as he was.
Same(s, t, u) ==
  \A i \in 1 .. Len(s) : (s[i].user = u \/ t[i].user = u) => t[i] = s[i]

LEMMA SameUser ==
  ASSUME NEW s \in Seq(Students), NEW t \in Seq(Students), Len(t) = Len(s),
         NEW u \in Users, Same(s, t, u)
  PROVE  DirectoryOf(t)[u] = DirectoryOf(s)[u]
<1>1. CASE \E i \in 1 .. Len(s) : s[i].user = u
  <2>1. PICK i \in 1 .. Len(s) : Leads(s, u, i) /\ DirectoryOf(s)[u] = s[i]
    BY <1>1, DirectoryFound
  <2>2. t[i] = s[i] /\ Leads(t, u, i)
    BY <2>1 DEF Leads, Same
  <2> QED
    BY <2>1, <2>2, DirectoryFirst
<1>2. CASE \A i \in 1 .. Len(s) : s[i].user # u
  <2>1. \A i \in 1 .. Len(t) : t[i].user # u
    BY <1>2 DEF Same
  <2> QED
    BY <1>2, <2>1, DirectoryLacks
<1> QED
  BY <1>1, <1>2

\* The copying loop gives a file as long as the old one.
LEMMA ReplaceFacts ==
  ASSUME file \in Seq(Students), NEW P \in SUBSET (1 .. Len(file)), NEW new \in Students
  PROVE  /\ Replace(P, new) \in Seq(Students)
         /\ Len(Replace(P, new)) = Len(file)
         /\ \A i \in 1 .. Len(file) : Replace(P, new)[i] = (IF i \in P THEN new ELSE file[i])
<1> DEFINE r == Replace(P, new)
<1>1. /\ r = [i \in 1 .. Len(file) |-> IF i \in P THEN new ELSE file[i]]
      /\ \A i \in 1 .. Len(file) : file[i] \in Students
  BY ElementOfSeq, LenProperties DEF Replace
<1>2. Len(file) \in Nat
  BY LenProperties
<1>3. r \in Seq(Students) /\ Len(r) = Len(file)
  <2>1. \A i \in 1 .. Len(file) : r[i] \in Students
    BY <1>1
  <2>2. r \in [1 .. Len(file) -> Students]
    BY <1>1, <2>1
  <2> QED
    BY <1>1, <1>2, <2>2, IsASeq, LenProperties
<1> QED
  BY <1>1, <1>3

\* Replacing all of a user's records replaces him in the directory, if he is in it.
LEMMA ReplaceUser ==
  ASSUME file \in Seq(Students), NEW u \in Users, NEW new \in Students, new.user = u
  PROVE  DirectoryOf(Replace(OfUser(u), new))
           = IF OfUser(u) = {} THEN DirectoryOf(file) ELSE [DirectoryOf(file) EXCEPT ![u] = new]
<1> DEFINE P == OfUser(u)
           t == Replace(P, new)
           d == IF P = {} THEN DirectoryOf(file) ELSE [DirectoryOf(file) EXCEPT ![u] = new]
<1>1. P \in SUBSET (1 .. Len(file)) /\ \A i \in 1 .. Len(file) : i \in P <=> file[i].user = u
  BY LenProperties DEF OfUser
<1> HIDE DEF P
<1>2. /\ t \in Seq(Students) /\ Len(t) = Len(file)
      /\ \A i \in 1 .. Len(file) : t[i] = (IF i \in P THEN new ELSE file[i])
  BY <1>1, ReplaceFacts
<1>3. d = [v \in Users |-> IF v = u /\ P # {} THEN new ELSE DirectoryOf(file)[v]]
  BY DirectoryDomain
<1> HIDE DEF t, d
<1>4. ASSUME NEW v \in Users PROVE DirectoryOf(t)[v] = d[v]
  <2>1. CASE v # u
    <3>1. Same(file, t, v)
      BY <1>1, <1>2, <2>1 DEF Same
    <3>2. DirectoryOf(t)[v] = DirectoryOf(file)[v]
      BY <1>2, <3>1, SameUser
    <3> QED
      BY <1>3, <2>1, <3>2
  <2>2. CASE v = u /\ P = {}
    <3>1. Same(file, t, v)
      BY <1>2, <2>2 DEF Same
    <3>2. DirectoryOf(t)[v] = DirectoryOf(file)[v]
      BY <1>2, <3>1, SameUser
    <3> QED
      BY <1>3, <2>2, <3>2
  <2>3. CASE v = u /\ P # {}
    <3>1. PICK k \in 1 .. Len(file) : k \in P
      BY <1>1, <2>3
    <3>2. k \in 1 .. Len(t) /\ t[k].user = u
      BY <1>2, <3>1
    <3>3. PICK i \in 1 .. Len(t) : Leads(t, u, i) /\ DirectoryOf(t)[u] = t[i]
      BY <1>2, <3>2, DirectoryFound
    <3>4. t[i] = new
      BY <1>1, <1>2, <3>3 DEF Leads
    <3> QED
      BY <1>3, <2>3, <3>3, <3>4
  <2> QED
    BY <2>1, <2>2, <2>3
<1>5. d = [v \in Users |-> d[v]]
  BY <1>3
<1>6. DirectoryOf(t) = d
  BY <1>4, <1>5, SameDirectory
<1> QED
  BY <1>6 DEF t, d, P

\* Replacing one record by another of the same user replaces him in the directory, or
\* nothing there when it is not his first.
LEMMA ReplaceOne ==
  ASSUME file \in Seq(Students), NEW k \in 1 .. Len(file), NEW new \in Students,
         new.user = file[k].user
  PROVE  \/ DirectoryOf(Replace({k}, new)) = DirectoryOf(file)
         \/ /\ new.user \in Users /\ DirectoryOf(file)[new.user] = file[k]
            /\ DirectoryOf(Replace({k}, new)) = [DirectoryOf(file) EXCEPT ![new.user] = new]
<1> DEFINE t == Replace({k}, new)
           u == new.user
<1>1. {k} \in SUBSET (1 .. Len(file))
  OBVIOUS
<1>2. /\ t \in Seq(Students) /\ Len(t) = Len(file)
      /\ \A i \in 1 .. Len(file) : t[i] = (IF i \in {k} THEN new ELSE file[i])
  BY <1>1, ReplaceFacts
<1> HIDE DEF t
<1>3. ASSUME NEW v \in Users, v # u PROVE DirectoryOf(t)[v] = DirectoryOf(file)[v]
  <2>1. Same(file, t, v)
    BY <1>2, <1>3 DEF Same
  <2> QED
    BY <1>2, <2>1, SameUser
<1>4. \A i \in 1 .. Len(file) : t[i].user = file[i].user
  BY <1>2
<1>5. CASE u \notin Users
  <2>1. \A v \in Users : DirectoryOf(t)[v] = DirectoryOf(file)[v]
    BY <1>3, <1>5
  <2>2. DirectoryOf(t) = DirectoryOf(file)
    BY <2>1, DirectoryDomain, SameDirectory
  <2> QED
    BY <2>2 DEF t
<1>6. CASE u \in Users
  <2>0. file[k].user = u
    OBVIOUS
  <2>1. PICK i \in 1 .. Len(file) : Leads(file, u, i) /\ DirectoryOf(file)[u] = file[i]
    BY <1>6, <2>0, DirectoryFound
  <2>2. Leads(t, u, i)
    BY <1>2, <1>4, <2>1 DEF Leads
  <2>3. DirectoryOf(t)[u] = t[i]
    BY <1>2, <1>6, <2>2, DirectoryFirst
  <2>4. CASE i # k
    <3>1. \A v \in Users : DirectoryOf(t)[v] = DirectoryOf(file)[v]
      BY <1>2, <1>3, <2>1, <2>3, <2>4
    <3>2. DirectoryOf(t) = DirectoryOf(file)
      BY <3>1, DirectoryDomain, SameDirectory
    <3> QED
      BY <3>2 DEF t
  <2>5. CASE i = k
    <3> DEFINE d == [DirectoryOf(file) EXCEPT ![u] = new]
    <3>1. d = [v \in Users |-> IF v = u THEN new ELSE DirectoryOf(file)[v]]
      BY DirectoryDomain
    <3>2. d = [v \in Users |-> d[v]]
      BY <3>1
    <3>3. t[k] = new
      BY <1>2
    <3>4. \A v \in Users : DirectoryOf(t)[v] = d[v]
      BY <1>3, <2>3, <2>5, <3>1, <3>3
    <3> HIDE DEF d
    <3>5. DirectoryOf(t) = d
      BY <3>2, <3>4, SameDirectory
    <3> QED
      BY <1>6, <2>1, <2>5, <3>5 DEF t, d
  <2> QED
    BY <2>4, <2>5
<1> QED
  BY <1>5, <1>6

\* Giving a record with a new score to all who have its id leaves one of them.
Merged(k, new, score, t) ==
  /\ new.user \in Users /\ DirectoryOf(file)[new.user] = file[k]
  /\ DirectoryOf(t) = MergeOf(DirectoryOf(file), new.user, score)
  /\ \A i, j \in 1 .. Len(t) : t[i].user = t[j].user => t[i] = t[j]
  /\ Proper(t)

LEMMA ReplaceAlike ==
  ASSUME file \in Seq(Students), Regular(file),
         NEW id \in Ids, NEW k \in WithId(id), NEW score \in Scores,
         NEW new, new = [file[k] EXCEPT !.score = score],
         NEW t, t = Replace(WithId(id), new)
  PROVE  Merged(k, new, score, t)
<1> DEFINE P == WithId(id)
           u == new.user
           d == MergeOf(DirectoryOf(file), u, score)
<1>1. P \in SUBSET (1 .. Len(file)) /\ k \in 1 .. Len(file)
      /\ \A i \in 1 .. Len(file) : i \in P <=> file[i].id = id
  BY LenProperties DEF WithId, Regular, Proper
<1>2. /\ file[k] \in Students /\ file[k].user \in Users
      /\ DirectoryOf(file)[file[k].user] = file[k] /\ file[k].student
  BY <1>1, DirectoryHas DEF Regular, Proper
<1>3. /\ new \in Students /\ new.user = file[k].user /\ new.student = file[k].student
      /\ file[k].id = id /\ k \in P
  BY <1>1, <1>2 DEF Students
<1> HIDE DEF P
<1>4. /\ t \in Seq(Students) /\ Len(t) = Len(file)
      /\ \A i \in 1 .. Len(file) : t[i] = (IF i \in P THEN new ELSE file[i])
  BY <1>1, <1>3, ReplaceFacts DEF P
<1>5. Proper(t)
  BY <1>2, <1>3, <1>4 DEF Regular, Proper
<1>6. ASSUME NEW i \in 1 .. Len(file), file[i].user = u PROVE file[i] = file[k] /\ i \in P
  <2>1. file[i] = file[k]
    BY <1>1, <1>3, <1>6 DEF Regular, Alike
  <2> QED
    BY <1>1, <1>3, <2>1
<1>7. ASSUME NEW i \in 1 .. Len(t), NEW j \in 1 .. Len(t), t[i].user = t[j].user
      PROVE  t[i] = t[j]
  <2>1. CASE i \in P /\ j \in P
    BY <1>4, <2>1
  <2>2. CASE i \in P /\ j \notin P
    BY <1>4, <1>6, <1>7, <2>2
  <2>3. CASE i \notin P /\ j \in P
    BY <1>4, <1>6, <1>7, <2>3
  <2>4. CASE i \notin P /\ j \notin P
    <3>1. /\ i \in 1 .. Len(file) /\ j \in 1 .. Len(file)
          /\ t[i] = file[i] /\ t[j] = file[j] /\ file[i].user = file[j].user
      BY <1>4, <1>7, <2>4
    <3>2. Alike(file)
      BY DEF Regular
    <3> QED
      BY <3>1, <3>2 DEF Alike
  <2> QED
    BY <2>1, <2>2, <2>3, <2>4
<1>8. ASSUME NEW v \in Users PROVE DirectoryOf(t)[v] = d[v]
  <2>1. CASE v = u
    <3>1. k \in 1 .. Len(t) /\ t[k].user = u /\ t[k] = new
      BY <1>1, <1>3, <1>4
    <3>2. PICK i \in 1 .. Len(t) : Leads(t, u, i) /\ DirectoryOf(t)[u] = t[i]
      BY <1>4, <2>1, <3>1, DirectoryFound
    <3>3. t[i] = new
      BY <1>7, <3>1, <3>2 DEF Leads
    <3>4. d[v] = [file[k] EXCEPT !.score = score]
      BY <1>2, <1>3, <2>1 DEF MergeOf
    <3> QED
      BY <2>1, <3>2, <3>3, <3>4
  <2>2. CASE v # u /\ \E i \in 1 .. Len(file) : file[i].user = v
    <3>1. PICK i \in 1 .. Len(file) : file[i].user = v
      BY <2>2
    <3>2. DirectoryOf(file)[v] = file[i] /\ file[i] # Nobody
      BY <3>1, DirectoryHas, ConstantsAssumption
    <3>3. \A j \in 1 .. Len(file) : file[j].user = v => file[j] = file[i]
      BY <3>1 DEF Regular, Alike
    <3>4. DirectoryOf(file)[u] = file[k]
      BY <1>2, <1>3
    <3>5. CASE file[i].id = id
      <4>1. d[v] = Nobody
        BY <1>3, <2>2, <3>2, <3>4, <3>5 DEF MergeOf
      <4>2. ASSUME NEW j \in 1 .. Len(t) PROVE t[j].user # v
        <5>1. j \in 1 .. Len(file) /\ t[j] = (IF j \in P THEN new ELSE file[j])
          BY <1>4
        <5>2. CASE j \in P
          BY <2>2, <5>1, <5>2
        <5>3. CASE j \notin P
          <6>1. file[j].id # id /\ t[j] = file[j]
            BY <1>1, <5>1, <5>3
          <6> QED
            BY <3>3, <3>5, <5>1, <6>1
        <5> QED
          BY <5>2, <5>3
      <4> QED
        BY <1>4, <4>1, <4>2, DirectoryLacks
    <3>6. CASE file[i].id # id
      <4>1. d[v] = DirectoryOf(file)[v]
        BY <1>3, <2>2, <3>2, <3>4, <3>6 DEF MergeOf
      <4>2. Same(file, t, v)
        BY <1>1, <1>4, <2>2, <3>3, <3>6 DEF Same
      <4> QED
        BY <1>4, <4>1, <4>2, SameUser
    <3> QED
      BY <3>5, <3>6
  <2>3. CASE v # u /\ \A i \in 1 .. Len(file) : file[i].user # v
    <3>1. DirectoryOf(file)[v] = Nobody
      BY <2>3, DirectoryLacks
    <3>2. \A i \in 1 .. Len(t) : t[i].user # v
      BY <1>4, <2>3
    <3>3. DirectoryOf(t)[v] = Nobody
      BY <1>4, <3>2, DirectoryLacks
    <3> QED
      BY <2>3, <3>1, <3>3 DEF MergeOf
  <2> QED
    BY <2>1, <2>2, <2>3
<1>9. d = [v \in Users |-> d[v]]
  BY DEF MergeOf
<1> HIDE DEF d
<1>10. DirectoryOf(t) = d
  BY <1>8, <1>9, SameDirectory
<1>11. u \in Users /\ DirectoryOf(file)[u] = file[k]
  BY <1>2, <1>3
<1>12. \A i, j \in 1 .. Len(t) : t[i].user = t[j].user => t[i] = t[j]
  BY <1>7
<1> QED
  BY <1>5, <1>10, <1>11, <1>12 DEF d, Merged

\* A record behind all others shows in the directory if there was none of its user.
LEMMA AppendDirectory ==
  ASSUME NEW s \in Seq(Students), NEW r \in Students
  PROVE  DirectoryOf(Append(s, r))
           = IF r.user \in Users /\ DirectoryOf(s)[r.user] = Nobody
             THEN [DirectoryOf(s) EXCEPT ![r.user] = r] ELSE DirectoryOf(s)
<1> DEFINE t == Append(s, r)
           u == r.user
           shows == u \in Users /\ DirectoryOf(s)[u] = Nobody
           d == IF shows THEN [DirectoryOf(s) EXCEPT ![u] = r] ELSE DirectoryOf(s)
<1>1. /\ t \in Seq(Students) /\ Len(t) = Len(s) + 1 /\ Len(s) \in Nat
      /\ \A i \in 1 .. Len(s) : t[i] = s[i]
      /\ t[Len(s) + 1] = r
  BY AppendProperties, LenProperties
<1>2. d = [v \in Users |-> IF v = u /\ shows THEN r ELSE DirectoryOf(s)[v]]
  BY DirectoryDomain
<1> HIDE DEF t, d
<1>3. ASSUME NEW v \in Users PROVE DirectoryOf(t)[v] = d[v]
  <2>1. CASE DirectoryOf(s)[v] # Nobody
    <3>1. PICK i \in 1 .. Len(s) : Leads(s, v, i) /\ DirectoryOf(s)[v] = s[i]
      BY <2>1, DirectoryRecord
    <3>2. \A j \in 1 .. Len(t) : j \in 1 .. Len(s) \/ j = Len(s) + 1
      BY <1>1
    <3>3. i \in 1 .. Len(t) /\ i <= Len(s) + 1 /\ t[i] = s[i]
      BY <1>1
    <3>4. Leads(t, v, i)
      BY <1>1, <3>1, <3>2, <3>3 DEF Leads
    <3>5. DirectoryOf(t)[v] = s[i]
      BY <1>1, <3>3, <3>4, DirectoryFirst
    <3> QED
      BY <1>2, <2>1, <3>1, <3>5
  <2>2. CASE DirectoryOf(s)[v] = Nobody
    <3>1. ASSUME NEW i \in 1 .. Len(s) PROVE s[i].user # v
      <4>1. ASSUME s[i].user = v PROVE FALSE
        <5>1. PICK k \in 1 .. Len(s) : DirectoryOf(s)[v] = s[k]
          BY <4>1, DirectoryFound
        <5> QED
          BY <2>2, <5>1, ElementOfSeq, ConstantsAssumption
      <4> QED
        BY <4>1
    <3>2. \A j \in 1 .. Len(t) : j \in 1 .. Len(s) \/ j = Len(s) + 1
      BY <1>1
    <3>3. CASE v = u
      <4>1. Len(s) + 1 \in 1 .. Len(t)
        BY <1>1
      <4>2. PICK k \in 1 .. Len(t) : Leads(t, v, k) /\ DirectoryOf(t)[v] = t[k]
        BY <1>1, <3>3, <4>1, DirectoryFound
      <4>3. t[k] = r
        BY <1>1, <3>1, <3>2, <4>2 DEF Leads
      <4> QED
        BY <1>2, <2>2, <3>3, <4>2, <4>3
    <3>4. CASE v # u
      <4>1. \A j \in 1 .. Len(t) : t[j].user # v
        BY <1>1, <3>1, <3>2, <3>4
      <4>2. DirectoryOf(t)[v] = Nobody
        BY <1>1, <4>1, DirectoryLacks
      <4> QED
        BY <1>2, <2>2, <3>4, <4>2
    <3> QED
      BY <3>3, <3>4
  <2> QED
    BY <2>1, <2>2
<1>4. d = [v \in Users |-> d[v]]
  BY <1>2
<1>5. DirectoryOf(t) = d
  BY <1>3, <1>4, SameDirectory
<1> QED
  BY <1>5 DEF t, d

\* The records selected stand in the new file one by one and in their order.
LEMMA SelectedPlaces ==
  ASSUME file \in Seq(Students), NEW places \in SUBSET (1 .. Len(file))
  PROVE  /\ Cardinality(places) \in Nat
         /\ \E at \in [1 .. Cardinality(places) -> places] :
              /\ Selected(places) = [k \in 1 .. Cardinality(places) |-> file[at[k]]]
              /\ \A k, l \in 1 .. Cardinality(places) : k < l => at[k] < at[l]
              /\ \A i \in places : \E k \in 1 .. Cardinality(places) : at[k] = i
<1> DEFINE n == Cardinality(places)
           upTo(i) == {j \in places : j <= i}
           rank == [i \in places |-> Cardinality(upTo(i))]
           at == [k \in 1 .. n |-> CHOOSE i \in places : rank[i] = k]
<1>1. Len(file) \in Nat
  BY LenProperties
<1>2. IsFiniteSet(places) /\ places \in SUBSET Nat
  <2>1. IsFiniteSet(1 .. Len(file))
    BY <1>1, FS_Interval
  <2>2. IsFiniteSet(places)
    BY <2>1, FS_Subset, Zenon
  <2> QED
    BY <2>2
<1>3. n \in Nat
  BY <1>2, FS_CardinalityType
<1>4. \A i \in places : IsFiniteSet(upTo(i)) /\ Cardinality(upTo(i)) \in 1 .. n
  <2> TAKE i \in places
  <2>1. upTo(i) \in SUBSET places /\ i \in upTo(i)
    BY <1>2
  <2> HIDE DEF upTo
  <2>2. IsFiniteSet(upTo(i)) /\ Cardinality(upTo(i)) <= n
    BY <1>2, <2>1, FS_Subset
  <2>3. Cardinality(upTo(i)) \in Nat /\ Cardinality(upTo(i)) # 0
    BY <2>1, <2>2, FS_CardinalityType, FS_EmptySet
  <2> QED
    BY <1>3, <2>2, <2>3
<1>5. \A i, k \in places : i < k => Cardinality(upTo(i)) < Cardinality(upTo(k))
  <2> SUFFICES ASSUME NEW i \in places, NEW k \in places, i < k
               PROVE  Cardinality(upTo(i)) < Cardinality(upTo(k))
    OBVIOUS
  <2>1. upTo(i) \in SUBSET upTo(k) /\ upTo(i) # upTo(k)
    <3>1. i \in Nat /\ k \in Nat
      BY <1>2
    <3>2. ASSUME NEW j \in upTo(i) PROVE j \in upTo(k)
      BY <1>2, <3>1
    <3>3. k \in upTo(k) /\ k \notin upTo(i)
      BY <3>1
    <3> QED
      BY <3>2, <3>3
  <2>2. IsFiniteSet(upTo(k))
    BY <1>4
  <2> HIDE DEF upTo
  <2>3. Cardinality(upTo(i)) \in Nat /\ Cardinality(upTo(k)) \in Nat
    BY <1>4, FS_CardinalityType
  <2>4. /\ Cardinality(upTo(i)) <= Cardinality(upTo(k))
        /\ Cardinality(upTo(k)) = Cardinality(upTo(i)) => upTo(k) = upTo(i)
    BY <2>1, <2>2, FS_Subset, Zenon
  <2> QED
    BY <2>1, <2>3, <2>4
<1>6. rank \in [places -> 1 .. n]
  BY <1>4
<1>7. \A i, k \in places : rank[i] <= rank[k] => i <= k
  <2> TAKE i, k \in places
  <2> HAVE rank[i] <= rank[k]
  <2>1. rank[i] = Cardinality(upTo(i)) /\ rank[k] = Cardinality(upTo(k))
    OBVIOUS
  <2> HIDE DEF upTo, rank
  <2>2. rank[i] \in Nat /\ rank[k] \in Nat
    BY <1>3, <1>6
  <2>3. ~(k < i)
    BY <1>5, <2>1, <2>2
  <2>4. i \in Nat /\ k \in Nat
    BY <1>2
  <2> QED
    BY <2>3, <2>4
<1>7a. \A i, k \in places : rank[i] = rank[k] => i = k
  <2> TAKE i, k \in places
  <2> HAVE rank[i] = rank[k]
  <2> HIDE DEF rank
  <2>1. rank[i] \in Nat /\ rank[k] \in Nat /\ i \in Nat /\ k \in Nat
    BY <1>2, <1>3, <1>6
  <2>2. rank[i] <= rank[k] /\ rank[k] <= rank[i]
    BY <2>1
  <2>3. i <= k /\ k <= i
    BY <1>7, <2>2
  <2> QED
    BY <2>1, <2>3
<1>8. \A k \in 1 .. n : \E i \in places : rank[i] = k
  <2> HIDE DEF rank
  <2>1. rank \in Injection(places, 1 .. n)
    BY <1>6, <1>7a DEF Injection, IsInjective
  <2>2. IsFiniteSet(1 .. n) /\ Cardinality(1 .. n) = n
    BY <1>3, FS_Interval
  <2>3. rank \in Surjection(places, 1 .. n)
    BY <2>1, <2>2, FS_Injection
  <2> QED
    BY <2>3 DEF Surjection
<1>9. \A k \in 1 .. n : at[k] \in places /\ rank[at[k]] = k
  <2> HIDE DEF rank
  <2> QED
    BY <1>8
<1>10. at \in [1 .. n -> places]
  <2> HIDE DEF rank
  <2>1. \A k \in 1 .. n : (CHOOSE i \in places : rank[i] = k) \in places
    BY <1>8
  <2> QED
    BY <2>1
<1>11. \A k, l \in 1 .. n : k < l => at[k] < at[l]
  <2> TAKE k, l \in 1 .. n
  <2> HAVE k < l
  <2> HIDE DEF at, rank
  <2>1. at[k] \in places /\ at[l] \in places /\ rank[at[k]] = k /\ rank[at[l]] = l
    BY <1>9
  <2>2. k \in Nat /\ l \in Nat /\ at[k] \in Nat /\ at[l] \in Nat
    <3>1. k \in Nat /\ l \in Nat
      BY <1>3
    <3> QED
      BY <1>2, <2>1, <3>1
  <2>3. ~(at[l] <= at[k])
    <3>1. ASSUME at[l] <= at[k] PROVE FALSE
      <4>1. CASE at[l] = at[k]
        BY <2>1, <2>2, <4>1
      <4>2. CASE at[l] < at[k]
        <5>1. rank[at[l]] < rank[at[k]]
          BY <1>5, <2>1, <4>2 DEF rank
        <5> QED
          BY <2>1, <2>2, <5>1
      <4> QED
        BY <2>2, <3>1, <4>1, <4>2
    <3> QED
      BY <3>1
  <2> QED
    BY <2>2, <2>3
<1>12. \A i \in places : \E k \in 1 .. n : at[k] = i
  <2> TAKE i \in places
  <2>1. rank[i] \in 1 .. n
    BY <1>6
  <2> HIDE DEF at, rank
  <2>2. at[rank[i]] \in places /\ rank[at[rank[i]]] = rank[i]
    BY <1>9, <2>1
  <2> QED
    BY <1>7a, <2>1, <2>2
<1>13. Selected(places) = [k \in 1 .. n |-> file[at[k]]]
  <2>1. \A k \in 1 .. n :
          (CHOOSE i \in places : Cardinality({j \in places : j <= i}) = k) = at[k]
    <3> TAKE k \in 1 .. n
    <3>1. \A i \in places : rank[i] = Cardinality({j \in places : j <= i})
      OBVIOUS
    <3>2. at[k] = CHOOSE i \in places : rank[i] = k
      OBVIOUS
    <3> HIDE DEF rank, at
    <3> QED
      BY <3>1, <3>2
  <2>2. Selected(places)
          = [k \in 1 .. n |->
               file[CHOOSE i \in places : Cardinality({j \in places : j <= i}) = k]]
    BY DEF Selected
  <2> HIDE DEF at
  <2> QED
    BY <2>1, <2>2
<1> HIDE DEF at, rank, upTo
<1>14. \E a \in [1 .. n -> places] :
          /\ Selected(places) = [k \in 1 .. n |-> file[a[k]]]
          /\ \A k, l \in 1 .. n : k < l => a[k] < a[l]
          /\ \A i \in places : \E k \in 1 .. n : a[k] = i
  <2> WITNESS at \in [1 .. n -> places]
  <2> QED
    BY <1>11, <1>12, <1>13
<1> QED
  BY <1>3, <1>14

\* What is selected is a file.
LEMMA SelectedType ==
  ASSUME file \in Seq(Students), NEW places \in SUBSET (1 .. Len(file))
  PROVE  Selected(places) \in Seq(Students)
<1> DEFINE n == Cardinality(places)
<1>1. PICK at \in [1 .. n -> places] : Selected(places) = [k \in 1 .. n |-> file[at[k]]]
  BY SelectedPlaces
<1>2. \A k \in 1 .. n : file[at[k]] \in Students
  BY ElementOfSeq
<1>3. n \in Nat
  BY SelectedPlaces
<1>4. [k \in 1 .. n |-> file[at[k]]] \in Seq(Students)
  <2> HIDE DEF n
  <2> QED
    BY <1>2, <1>3, IsASeq
<1> QED
  BY <1>1, <1>4

\* Deleting a student takes all his records, and nobody else's.
LEMMA KeptDirectory ==
  ASSUME file \in Seq(Students), NEW u \in Users
  PROVE  /\ Regular(file) => Regular(KeptOthers(u))
         /\ DirectoryOf(KeptOthers(u)) = [DirectoryOf(file) EXCEPT ![u] = Nobody]
<1> DEFINE places == DOMAIN file \ OfUser(u)
           n == Cardinality(places)
           s == KeptOthers(u)
           d == [DirectoryOf(file) EXCEPT ![u] = Nobody]
<1>1. places \in SUBSET (1 .. Len(file)) /\ \A i \in 1 .. Len(file) : i \in places <=> file[i].user # u
  BY LenProperties DEF OfUser
<1>2. s = Selected(places)
  BY DEF KeptOthers
<1> HIDE DEF places, s
<1>3. PICK at \in [1 .. n -> places] :
         /\ s = [k \in 1 .. n |-> file[at[k]]]
         /\ \A k, l \in 1 .. n : k < l => at[k] < at[l]
         /\ \A i \in places : \E k \in 1 .. n : at[k] = i
  BY <1>1, <1>2, SelectedPlaces
<1>4. s \in Seq(Students) /\ n \in Nat
  BY <1>1, <1>2, SelectedType, SelectedPlaces
<1> HIDE DEF n
<1>5. Len(s) = n
  BY <1>3, <1>4
<1>6. \A k \in 1 .. n : at[k] \in 1 .. Len(file) /\ at[k] \in places /\ s[k] = file[at[k]]
  BY <1>1, <1>3
<1>7. ASSUME Regular(file) PROVE Regular(s)
  <2>1. ASSUME NEW k \in 1 .. n, NEW l \in 1 .. n, s[k].user = s[l].user
        PROVE  s[k] = s[l] /\ ("clash" \in trouble \/ k = l)
    <3>1. s[k] = file[at[k]] /\ s[l] = file[at[l]] /\ at[k] \in 1 .. Len(file) /\ at[l] \in 1 .. Len(file)
      BY <1>6
    <3>2. file[at[k]] = file[at[l]] /\ ("clash" \in trouble \/ at[k] = at[l])
      BY <1>7, <2>1, <3>1 DEF Regular, Alike
    <3>3. ASSUME at[k] = at[l] PROVE k = l
      <4>1. ~(k < l) /\ ~(l < k)
        BY <1>3, <3>1, <3>3
      <4>2. k \in Int /\ l \in Int
        OBVIOUS
      <4> QED
        BY <4>1, <4>2
    <3> QED
      BY <3>1, <3>2, <3>3
  <2>2. Alike(s)
    BY <1>5, <2>1 DEF Alike
  <2>3. Proper(s)
    BY <1>5, <1>6, <1>7 DEF Regular, Proper
  <2> QED
    BY <2>2, <2>3 DEF Regular
<1>8. d = [v \in Users |-> IF v = u THEN Nobody ELSE DirectoryOf(file)[v]]
  BY DirectoryDomain
<1>9. ASSUME NEW v \in Users PROVE DirectoryOf(s)[v] = d[v]
  <2>1. CASE v # u /\ \E i \in 1 .. Len(file) : file[i].user = v
    <3>1. PICK i \in 1 .. Len(file) : Leads(file, v, i) /\ DirectoryOf(file)[v] = file[i]
      BY <2>1, DirectoryFound
    <3>2. i \in places
      BY <1>1, <2>1, <3>1 DEF Leads
    <3>3. PICK k \in 1 .. n : at[k] = i
      BY <1>3, <3>2
    <3>4. s[k] = file[i] /\ s[k].user = v
      BY <1>6, <3>1, <3>3 DEF Leads
    <3>5. ASSUME NEW l \in 1 .. n, s[l].user = v PROVE k <= l
      <4>1. i <= at[l]
        BY <1>6, <3>1, <3>5 DEF Leads
      <4>2. ~(at[l] < i)
        <5>1. at[l] \in Int /\ i \in Int
          BY <1>6
        <5> QED
          BY <4>1, <5>1
      <4>3. ~(l < k)
        BY <1>3, <3>3, <4>2
      <4>4. k \in Int /\ l \in Int
        OBVIOUS
      <4> QED
        BY <4>3, <4>4
    <3>6. Leads(s, v, k)
      BY <1>5, <3>4, <3>5 DEF Leads
    <3>7. DirectoryOf(s)[v] = file[i]
      BY <1>4, <3>4, <3>6, DirectoryFirst
    <3> QED
      BY <1>8, <2>1, <3>1, <3>7
  <2>2. CASE v = u
    <3>1. \A k \in 1 .. Len(s) : s[k].user # v
      BY <1>1, <1>5, <1>6, <2>2
    <3>2. DirectoryOf(s)[v] = Nobody
      BY <1>4, <3>1, DirectoryLacks
    <3> QED
      BY <1>8, <2>2, <3>2
  <2>3. CASE v # u /\ ~ \E i \in 1 .. Len(file) : file[i].user = v
    <3>1. \A k \in 1 .. Len(s) : s[k].user # v
      BY <1>5, <1>6, <2>3
    <3>2. DirectoryOf(s)[v] = Nobody
      BY <1>4, <3>1, DirectoryLacks
    <3>3. DirectoryOf(file)[v] = Nobody
      BY <2>3, DirectoryLacks
    <3> QED
      BY <1>8, <2>3, <3>2, <3>3
  <2> QED
    BY <2>1, <2>2, <2>3
<1>10. d = [v \in Users |-> d[v]]
  BY <1>8
<1> HIDE DEF d
<1>11. DirectoryOf(s) = d
  BY <1>9, <1>10, SameDirectory
<1> QED
  BY <1>7, <1>11 DEF s, d

\* A beginning of a file is a file with the same records as far as it goes.
LEMMA PartFacts ==
  ASSUME NEW s \in Seq(Students), NEW t \in Parts(s)
  PROVE  /\ t \in Seq(Students)
         /\ Len(t) \in Nat /\ Len(t) <= Len(s)
         /\ \A i \in 1 .. Len(t) : t[i] = s[i]
         /\ IsPrefix(t, s)
         /\ Regular(s) => Regular(t)
<1>1. PICK n \in 0 .. Len(s) - 1 : t = SubSeq(s, 1, n)
  BY DEF Parts
<1>2. Len(s) \in Nat /\ \A i \in 1 .. Len(s) : s[i] \in Students
  BY LenProperties, ElementOfSeq
<1>3. n \in Nat /\ n <= Len(s) /\ \A i \in 1 .. n : s[i] \in Students
  BY <1>2
<1>4. /\ SubSeq(s, 1, n) \in Seq(Students)
      /\ Len(SubSeq(s, 1, n)) = IF 1 <= n THEN n - 1 + 1 ELSE 0
      /\ \A i \in 1 .. n - 1 + 1 : SubSeq(s, 1, n)[i] = s[1 + i - 1]
  BY <1>3, SubSeqProperties
<1>5. t \in Seq(Students) /\ Len(t) = n /\ \A i \in 1 .. n : t[i] = s[i]
  <2>1. Len(t) = n
    BY <1>1, <1>3, <1>4
  <2>2. ASSUME NEW i \in 1 .. n PROVE t[i] = s[i]
    <3>1. i \in 1 .. n - 1 + 1 /\ 1 + i - 1 = i
      BY <1>3
    <3> QED
      BY <1>1, <1>4, <3>1
  <2> QED
    BY <1>1, <1>4, <2>1, <2>2
<1>6. IsPrefix(t, s)
  <2>1. SubSeq(t, 1, n) = t
    BY <1>5, <1>3, SubSeqFull
  <2> QED
    BY <1>1, <1>3, <1>5, <2>1 DEF IsPrefix
<1>7. ASSUME Regular(s) PROVE Regular(t)
  <2>1. \A i \in 1 .. n : i \in 1 .. Len(s)
    BY <1>2, <1>3
  <2>2. Alike(t)
    BY <1>5, <1>7, <2>1 DEF Regular, Alike
  <2>3. Proper(t)
    BY <1>5, <1>7, <2>1 DEF Regular, Proper
  <2> QED
    BY <2>2, <2>3 DEF Regular
<1> QED
  BY <1>3, <1>5, <1>6, <1>7

\* A directory in which some have been lost.
Without(d, lost) == [u \in Users |-> IF u \in lost THEN Nobody ELSE d[u]]

\* The beginning of a file has lost some students, and those who are left are as they were.
LEMMA PartDirectory ==
  ASSUME NEW s \in Seq(Students), NEW t \in Parts(s)
  PROVE  \E lost \in SUBSET Users : DirectoryOf(t) = Without(DirectoryOf(s), lost)
<1> DEFINE lost == {u \in Users : \A i \in 1 .. Len(t) : t[i].user # u}
           d == Without(DirectoryOf(s), lost)
<1>1. /\ t \in Seq(Students) /\ Len(t) <= Len(s) /\ Len(t) \in Nat /\ Len(s) \in Nat
      /\ \A i \in 1 .. Len(t) : i \in 1 .. Len(s) /\ t[i] = s[i]
  BY PartFacts, LenProperties
<1>2. ASSUME NEW u \in Users PROVE DirectoryOf(t)[u] = d[u]
  <2>1. CASE u \in lost
    <3>1. DirectoryOf(t)[u] = Nobody
      BY <1>1, <2>1, DirectoryLacks
    <3> QED
      BY <2>1, <3>1 DEF Without
  <2>2. CASE u \notin lost
    <3>1. PICK i \in 1 .. Len(t) : t[i].user = u
      BY <2>2
    <3>2. PICK k \in 1 .. Len(t) : Leads(t, u, k) /\ DirectoryOf(t)[u] = t[k]
      BY <1>1, <3>1, DirectoryFound
    <3>3. k \in 1 .. Len(s) /\ s[k] = t[k] /\ s[k].user = u
      BY <1>1, <3>2 DEF Leads
    <3>4. ASSUME NEW j \in 1 .. Len(s), s[j].user = u PROVE k <= j
      <4>1. CASE j \in 1 .. Len(t)
        BY <1>1, <3>2, <3>4, <4>1 DEF Leads
      <4>2. CASE j \notin 1 .. Len(t)
        BY <1>1, <4>2
      <4> QED
        BY <4>1, <4>2
    <3>5. Leads(s, u, k)
      BY <3>3, <3>4 DEF Leads
    <3>6. DirectoryOf(s)[u] = t[k]
      BY <3>3, <3>5, DirectoryFirst
    <3> QED
      BY <2>2, <3>2, <3>6 DEF Without
  <2> QED
    BY <2>1, <2>2
<1>3. d = [u \in Users |-> d[u]]
  BY DEF Without
<1> HIDE DEF d
<1>4. DirectoryOf(t) = d
  BY <1>2, <1>3, SameDirectory
<1> QED
  BY <1>4 DEF d

---------------------------------------------------------------------------
(* The invariant *)

\* More trouble does not undo a change.
LEMMA MoreTrouble ==
  ASSUME NEW d, NEW e, NEW t, NEW more, t \subseteq more, OneChange(d, e, t)
  PROVE  OneChange(d, e, more)
<1>1. ASSUME NEW u \in Users, ChangeOf(u, d, e, t) PROVE ChangeOf(u, d, e, more)
  <2>1. "clash" \in t => "clash" \in more
    OBVIOUS
  <2>2. "double" \in t => "double" \in more
    OBVIOUS
  <2> QED
    BY ONLY <1>1, <2>1, <2>2, Zenon DEF ChangeOf
<1> QED
  BY <1>1, Zenon DEF OneChange

LEMMA Start == Init => IInv
<1> SUFFICES ASSUME Init PROVE IInv
  OBVIOUS
<1>1. TypeOK
  <2>1. <<>> \in Seq(Students)
    OBVIOUS
  <2> QED
    BY <2>1 DEF Init, TypeOK
<1>2. Regular(file)
  BY DEF Init, Regular, Alike, Proper
<1> QED
  BY <1>1, <1>2 DEF Init, IInv, Places, Copied, CopySurvives, Singles, Mine, Prepared, Editing

\* A new record of a new user is one more.
LEMMA AppendRegular ==
  ASSUME file \in Seq(Students), Regular(file), NEW r \in Students,
         r.user \in Users, r.student, \A i \in 1 .. Len(file) : file[i].user # r.user
  PROVE  Regular(Append(file, r))
<1> DEFINE t == Append(file, r)
<1>1. /\ Len(file) \in Nat /\ Len(t) = Len(file) + 1
      /\ \A i \in 1 .. Len(file) : t[i] = file[i]
      /\ t[Len(file) + 1] = r
  BY AppendProperties, LenProperties
<1> HIDE DEF t
<1>2. \A i \in 1 .. Len(t) : i \in 1 .. Len(file) \/ i = Len(file) + 1
  BY <1>1
<1>3. Alike(t)
  <2> SUFFICES ASSUME NEW i \in 1 .. Len(t), NEW j \in 1 .. Len(t), t[i].user = t[j].user
               PROVE  t[i] = t[j] /\ ("clash" \in trouble \/ i = j)
    BY DEF Alike
  <2> QED
    BY <1>1, <1>2 DEF Regular, Alike
<1>4. Proper(t)
  BY <1>1, <1>2 DEF Regular, Proper
<1> QED
  BY <1>3, <1>4 DEF Regular, t

LEMMA RegisterStep ==
  ASSUME IInv, NEW u \in Users, RegisterFlow(u)
  PROVE  IInv'
<1>0. /\ TypeOK /\ Places /\ Singles
      /\ place = "main" /\ place' = "main" /\ session' = session /\ session = Nobody
      /\ onDisk' = onDisk \cup {"students.dat"} /\ UNCHANGED <<temp, edit, back>>
      /\ AppendWhole(u) \/ AppendPart \/ AppendBehindPart
  BY DEF IInv, RegisterFlow, Places
<1>1. file \in Seq(Students) /\ torn \subseteq onDisk /\ trouble \subseteq {"loss", "double", "clash"}
  BY <1>0 DEF TypeOK
<1>2. New(u) \in Students /\ New(u).user = u /\ New(u).student
  BY ConstantsAssumption DEF New, Students
<1>3. /\ file' \in Seq(Students) /\ torn' \subseteq onDisk'
      /\ trouble' \subseteq {"loss", "double", "clash"}
  <2>1. CASE AppendWhole(u)
    BY <1>0, <1>1, <1>2, <2>1, AppendProperties DEF AppendWhole
  <2>2. CASE AppendPart
    BY <1>0, <1>1, <2>2 DEF AppendPart
  <2>3. CASE AppendBehindPart
    <3>1. PICK r \in Garbled : file' = Append(file, r)
      BY <2>3 DEF AppendBehindPart
    <3>2. file' \in Seq(Students)
      BY <1>1, <3>1, AppendProperties, ConstantsAssumption
    <3>3. torn' \subseteq torn /\ trouble' = trouble \cup {"double"}
      BY <2>3 DEF AppendBehindPart
    <3> QED
      BY <1>0, <1>1, <3>2, <3>3
  <2> QED
    BY <1>0, <2>1, <2>2, <2>3
<1>4. TypeOK'
  <2>1. /\ onDisk' \subseteq {"students.dat", "temp.dat"} /\ "students.dat" \in onDisk'
        /\ ("temp.dat" \in onDisk' <=> "temp.dat" \in onDisk)
        /\ temp' \in Seq(Students) /\ edit' \in Seq(Students)
        /\ temp' = temp /\ back' \in {"main", "student", "admin"}
    BY <1>0 DEF TypeOK
  <2>2. "temp.dat" \notin onDisk => temp = <<>>
    BY <1>0 DEF TypeOK
  <2> QED
    BY <1>0, <1>3, <2>1, <2>2 DEF TypeOK
<1>5. Singles'
  <2> SUFFICES ASSUME "double" \notin trouble' PROVE Regular(file)'
    BY <1>0 DEF Singles, Editing
  <2>1. CASE AppendWhole(u)
    <3>1. ~NameTaken(u) /\ trouble' = trouble /\ file' = Append(file, New(u))
      BY <2>1 DEF AppendWhole
    <3>2. \A i \in 1 .. Len(file) : file[i].user # u
      BY <1>1, <3>1, LenProperties DEF NameTaken, OfUser
    <3>3. Regular(file)
      BY <1>0, <3>1 DEF Singles
    <3>4. Regular(Append(file, New(u)))
      BY <1>1, <1>2, <3>2, <3>3, AppendRegular
    <3> QED
      BY <3>1, <3>4 DEF Regular, Alike, Proper
  <2>2. CASE AppendPart
    <3>1. file' = file /\ trouble' = trouble \cup {"loss"}
      BY <2>2 DEF AppendPart
    <3>2. Regular(file)
      BY <1>0, <3>1 DEF Singles
    <3> QED
      BY <3>1, <3>2 DEF Regular, Alike, Proper
  <2>3. CASE AppendBehindPart
    BY <2>3 DEF AppendBehindPart
  <2> QED
    BY <1>0, <2>1, <2>2, <2>3
<1> QED
  BY <1>0, <1>4, <1>5 DEF IInv, Places, Copied, CopySurvives, Mine, Prepared, Editing

LEMMA LoginStudentStep ==
  ASSUME IInv, NEW u \in Users, LoginStudent(u)
  PROVE  IInv'
<1>0. /\ TypeOK /\ Places /\ Singles
      /\ place = "main" /\ place' = "student"
      /\ UNCHANGED <<onDisk, file, temp, torn, edit, back, trouble>>
  BY DEF IInv, LoginStudent
<1>1. file \in Seq(Students)
  BY <1>0 DEF TypeOK
<1>2. PICK k \in 1 .. Len(file) : session' = file[k] /\ file[k].user = u
  BY <1>1, LenProperties DEF OfUser, LoginStudent, LoggedIn
<1>3. session' \in Students /\ session' # Nobody /\ session'.user \in Users
  BY <1>1, <1>2, ElementOfSeq, ConstantsAssumption
<1>5. "students.dat" \in onDisk
  <2>1. file # <<>>
    BY <1>2
  <2> QED
    BY <1>0, <2>1 DEF TypeOK
<1>6. TypeOK'
  BY <1>0, <1>3 DEF TypeOK
<1>7. Singles'
  BY <1>0 DEF Singles, Editing, Regular, Alike, Proper
<1>8. Mine'
  <2> SUFFICES ASSUME "double" \notin trouble PROVE session'.student /\ SameScore(file)'
    BY <1>0 DEF Mine, Editing
  <2>1. Regular(file)
    BY <1>0 DEF Singles
  <2>2. session'.student
    BY <1>2, <2>1 DEF Regular, Proper
  <2>3. \A i \in 1 .. Len(file) : file[i].user = file[k].user => file[i] = file[k]
    BY <2>1 DEF Regular, Alike
  <2> QED
    BY <1>0, <1>2, <2>2, <2>3 DEF SameScore
<1>9. Places' /\ Copied' /\ Prepared'
  BY <1>0, <1>3, <1>5 DEF Places, Copied, Prepared, Editing
<1>10. CopySurvives'
  BY <1>0, <1>5 DEF CopySurvives
<1> QED
  BY <1>6, <1>7, <1>8, <1>9, <1>10 DEF IInv

\* Between the menus without a student, nothing happens to the file.
LEMMA MenuStep ==
  ASSUME IInv, LoginAdmin \/ Logout \/ Restart
  PROVE  IInv'
<1>0. /\ TypeOK /\ Places /\ CopySurvives /\ Singles
      /\ place' \in {"main", "admin"} /\ session' = Nobody
      /\ UNCHANGED <<onDisk, file, temp, torn, edit, back, trouble>>
  BY DEF IInv, LoginAdmin, Logout, Restart, Places
<1>1. place # "rename"
  BY DEF LoginAdmin, Logout, Restart
<1>2. TypeOK'
  BY <1>0 DEF TypeOK
<1>3. CopySurvives'
  BY <1>0 DEF CopySurvives
<1>4. Singles'
  BY <1>0 DEF Singles, Editing, Regular, Alike, Proper
<1>5. Places' /\ Copied' /\ Mine' /\ Prepared'
  BY <1>0, <1>1 DEF Places, Copied, Mine, Prepared, Editing
<1> QED
  BY <1>2, <1>3, <1>4, <1>5 DEF IInv

LEMMA SetInfoStep ==
  ASSUME IInv, NEW id \in Ids, NEW named \in BOOLEAN, SetInfo(id, named)
  PROVE  IInv'
<1> DEFINE new == [session EXCEPT !.id = id, !.named = named]
           u == session.user
<1>0. /\ TypeOK /\ Places /\ Singles /\ Mine
      /\ place = "student" /\ place' = "copy" /\ back' = "student"
      /\ session' = new /\ edit' = Replace(OfUser(u), new)
      /\ UNCHANGED <<onDisk, file, temp, torn, trouble>>
  <2>1. place' = "copy" /\ back' = "student"
    BY DEF SetInfo, Rewrite, FirstStep
  <2> QED
    BY <2>1 DEF IInv, SetInfo, Rewrite
<1>1. /\ file \in Seq(Students) /\ session \in Students /\ session # Nobody
      /\ "students.dat" \in onDisk /\ u \in Users
  BY <1>0, ConstantsAssumption DEF TypeOK, Places
<1>2. /\ new \in Students /\ new.user = u /\ new.id = id /\ new.named = named
      /\ new.score = session.score /\ new.student = session.student
  BY <1>1 DEF Students
<1>3. /\ session' \in Students /\ session' # Nobody /\ session'.user = u
      /\ session'.score = session.score /\ session'.student = session.student
  BY <1>0, <1>2, ConstantsAssumption
<1> HIDE DEF new, u
<1>4. edit' \in Seq(Students) /\ Len(edit') = Len(file)
      /\ \A i \in 1 .. Len(file) : edit'[i] = (IF file[i].user = u THEN new ELSE file[i])
  <2>1. OfUser(u) \in SUBSET (1 .. Len(file))
        /\ \A i \in 1 .. Len(file) : i \in OfUser(u) <=> file[i].user = u
    BY <1>1, LenProperties DEF OfUser
  <2>2. /\ Replace(OfUser(u), new) \in Seq(Students)
        /\ Len(Replace(OfUser(u), new)) = Len(file)
        /\ \A i \in 1 .. Len(file) :
             Replace(OfUser(u), new)[i] = (IF i \in OfUser(u) THEN new ELSE file[i])
    BY <1>1, <1>2, <2>1, ReplaceFacts
  <2> QED
    BY <1>0, <2>1, <2>2
<1>5. TypeOK'
  BY <1>0, <1>3, <1>4 DEF TypeOK
<1>6. Singles'
  <2> SUFFICES ASSUME "double" \notin trouble PROVE Regular(file)' /\ Regular(edit)'
    BY <1>0 DEF Singles
  <2>1. Regular(file) /\ session.student
    BY <1>0, <1>1 DEF Singles, Mine
  <2>2. Regular(file)'
    BY <1>0, <2>1 DEF Regular, Alike, Proper
  <2>3. \A i \in 1 .. Len(file) : edit'[i].user = file[i].user
    BY <1>2, <1>4
  <2>4. Alike(edit)'
    <3> SUFFICES ASSUME NEW i \in 1 .. Len(file), NEW j \in 1 .. Len(file),
                        edit'[i].user = edit'[j].user
                 PROVE  edit'[i] = edit'[j] /\ ("clash" \in trouble \/ i = j)
      BY <1>0, <1>4 DEF Alike
    <3>1. file[i].user = file[j].user
      BY <2>3
    <3>2. file[i] = file[j] /\ ("clash" \in trouble \/ i = j)
      BY <2>1, <3>1 DEF Regular, Alike
    <3> QED
      BY <1>4, <3>2
  <2>5. Proper(edit)'
    BY <1>1, <1>2, <1>4, <2>1 DEF Regular, Proper
  <2> QED
    BY <2>2, <2>4, <2>5 DEF Regular
<1>7. Mine'
  <2> SUFFICES ASSUME "double" \notin trouble PROVE session'.student /\ SameScore(file)' /\ SameScore(edit)'
    BY <1>0 DEF Mine
  <2>1. /\ session.student
        /\ \A i \in 1 .. Len(file) : file[i].user = u => file[i].score = session.score
    BY <1>0, <1>1 DEF Mine, SameScore, u
  <2>2. SameScore(file)'
    BY <1>0, <1>3, <2>1 DEF SameScore
  <2>3. SameScore(edit)'
    BY <1>2, <1>3, <1>4, <2>1 DEF SameScore
  <2> QED
    BY <1>3, <2>1, <2>2, <2>3
<1>8. Prepared'
  <2> DEFINE d == DirectoryOf(file)
             e == DirectoryOf(edit')
  <2> SUFFICES OneChange(d, e, trouble)
    BY <1>0 DEF Prepared
  <2>1. e = IF OfUser(u) = {} THEN d ELSE [d EXCEPT ![u] = new]
    BY <1>0, <1>1, <1>2, ReplaceUser
  <2>2. CASE OfUser(u) = {}
    BY <2>1, <2>2 DEF OneChange
  <2>3. CASE OfUser(u) # {}
    <3>1. PICK k \in 1 .. Len(file) : file[k].user = u
      BY <1>1, <2>3, LenProperties DEF OfUser
    <3>2. PICK i \in 1 .. Len(file) : Leads(file, u, i) /\ d[u] = file[i]
      BY <1>1, <3>1, DirectoryFound
    <3>3. file[i] \in Students /\ file[i].user = u
      BY <1>1, <3>2, ElementOfSeq DEF Leads
    <3>4. d = [v \in Users |-> d[v]]
      BY DirectoryDomain
    <3> HIDE DEF d, e
    <3>5. ASSUME "double" \in trouble PROVE ChangeOf(u, d, e, trouble)
      <4>1. new \in Directory!Records(u)
        BY <1>2 DEF Directory!Records, Students
      <4>2. e = [d EXCEPT ![u] = new]
        BY <2>1, <2>3
      <4> QED
        BY <3>5, <4>1, <4>2, Zenon DEF ChangeOf
    <3>6. ASSUME "double" \notin trouble PROVE ChangeOf(u, d, e, trouble)
      <4>1. file[i].student /\ session.student /\ file[i].score = session.score
        BY <1>0, <1>1, <3>3, <3>6 DEF Singles, Mine, Regular, Proper, SameScore, u
      <4>2. new = [file[i] EXCEPT !.id = id, !.named = named]
        BY <1>1, <1>2, <3>3, <4>1 DEF Students
      <4>3. e = [d EXCEPT ![u].id = id, ![u].named = named]
        BY <1>1, <2>1, <2>3, <3>2, <3>4, <4>2
      <4> QED
        BY <4>3, Zenon DEF ChangeOf
    <3>7. ChangeOf(u, d, e, trouble)
      BY <3>5, <3>6
    <3>8. d[u] # Nobody
      BY <3>2, <3>3, ConstantsAssumption
    <3> QED
      BY <1>1, <3>7, <3>8, Zenon DEF OneChange
  <2> QED
    BY <2>2, <2>3
<1>9. Places' /\ Copied' /\ CopySurvives'
  BY <1>0, <1>1, <1>3 DEF Places, Copied, CopySurvives, Editing
<1> QED
  BY <1>5, <1>6, <1>7, <1>8, <1>9 DEF IInv

\* Both menus that give a student a score.
LEMMA SetScoreStep ==
  ASSUME IInv, NEW id \in Ids, NEW score \in Scores,
         AddScore(id, score) \/ ModifyScore(id, score)
  PROVE  IInv'
<1> DEFINE k == First(WithId(id))
           new == [file[k] EXCEPT !.score = score]
<1>0. /\ TypeOK /\ Places /\ Singles
      /\ place = "admin" /\ place' = "copy" /\ back' = "admin"
      /\ edit' = Replace(WithId(id), new)
      /\ trouble' = IF WithId(id) = {k} THEN trouble ELSE trouble \cup {"clash"}
      /\ UNCHANGED <<onDisk, file, temp, torn, session>> /\ session = Nobody
  <2>1. place = "admin" /\ SetScore(id, score)
    BY DEF AddScore, ModifyScore
  <2>2. place' = "copy" /\ back' = "admin"
    BY <2>1 DEF SetScore, Rewrite, FirstStep
  <2> QED
    BY <2>1, <2>2 DEF IInv, SetScore, Rewrite, Places
<1>1. file \in Seq(Students)
  BY <1>0 DEF TypeOK
<1>2. WithId(id) \in SUBSET (1 .. Len(file)) /\ WithId(id) # {}
  BY <1>1, LenProperties DEF WithId, AddScore, ModifyScore
<1>3. k \in 1 .. Len(file) /\ file[k] \in Students /\ k \in WithId(id)
  BY <1>1, <1>2, FoundInFile
<1>4. new \in Students /\ new.user = file[k].user /\ new.student = file[k].student
  BY <1>3 DEF Students
<1>5. "students.dat" \in onDisk
  <2>1. file # <<>>
    BY <1>3
  <2> QED
    BY <1>0, <2>1 DEF TypeOK
<1>5a. file[k].student
  BY <1>3 DEF WithId
<1>5b. new = [file[k] EXCEPT !.score = score]
  OBVIOUS
<1> HIDE DEF new, k
<1>6. /\ edit' \in Seq(Students) /\ Len(edit') = Len(file)
      /\ \A i \in 1 .. Len(file) : edit'[i] = (IF i \in WithId(id) THEN new ELSE file[i])
  BY <1>0, <1>1, <1>2, <1>4, ReplaceFacts
<1>7. TypeOK'
  <2>1. trouble' \subseteq {"loss", "double", "clash"}
    BY <1>0 DEF TypeOK
  <2> QED
    BY <1>0, <1>6, <2>1 DEF TypeOK
<1> DEFINE d == DirectoryOf(file)
           e == DirectoryOf(edit')
<1>8. ASSUME "clash" \in trouble', "double" \notin trouble'
      PROVE  Regular(file)' /\ Regular(edit)' /\ OneChange(d, e, trouble')
  <2>1. Regular(file)
    BY <1>0, <1>8 DEF Singles
  <2>2. Merged(k, new, score, edit')
    <3>1. file \in Seq(Students) /\ Regular(file) /\ id \in Ids /\ score \in Scores
      BY <1>1, <2>1
    <3>2. k \in WithId(id) /\ edit' = Replace(WithId(id), new)
      BY <1>0, <1>3
    <3> QED
      BY ONLY <3>1, <3>2, <1>5b, ReplaceAlike, Zenon
  <2>3. /\ new.user \in Users /\ d[new.user] = file[k]
        /\ e = MergeOf(d, new.user, score)
        /\ \A i, j \in 1 .. Len(edit') : edit'[i].user = edit'[j].user => edit'[i] = edit'[j]
        /\ Proper(edit')
    BY <2>2 DEF Merged
  <2>4. Regular(file)' /\ Regular(edit)'
    BY <1>0, <1>8, <2>1, <2>3 DEF Regular, Alike, Proper
  <2>5. d[new.user] # Nobody
    BY <1>3, <2>3, ConstantsAssumption
  <2> HIDE DEF d, e
  <2>6. ChangeOf(new.user, d, e, trouble')
    BY <1>8, <2>3, Zenon DEF ChangeOf
  <2>7. OneChange(d, e, trouble')
    BY <2>3, <2>5, <2>6, Zenon DEF OneChange
  <2> QED
    BY <2>4, <2>7
<1>9. ASSUME "clash" \notin trouble'
      PROVE  /\ trouble' = trouble /\ WithId(id) = {k}
             /\ "double" \notin trouble' => Regular(file)' /\ Regular(edit)'
             /\ OneChange(d, e, trouble')
  <2>1. trouble' = trouble /\ WithId(id) = {k}
    BY <1>0, <1>9
  <2>2. ASSUME "double" \notin trouble' PROVE Regular(file)' /\ Regular(edit)'
    <3>1. Regular(file)
      BY <1>0, <2>1, <2>2 DEF Singles
    <3>2. Regular(file)'
      BY <1>0, <2>1, <3>1 DEF Regular, Alike, Proper
    <3>3. \A i \in 1 .. Len(file) : edit'[i].user = file[i].user
      BY <1>4, <1>6, <2>1
    <3>4. Alike(edit)'
      BY <1>6, <1>9, <2>1, <3>1, <3>3 DEF Regular, Alike
    <3>5. Proper(edit)'
      BY <1>3, <1>4, <1>5a, <1>6, <3>1 DEF Regular, Proper
    <3> QED
      BY <3>2, <3>4, <3>5 DEF Regular
  <2>3. \/ e = d
        \/ new.user \in Users /\ d[new.user] = file[k] /\ e = [d EXCEPT ![new.user] = new]
    BY <1>0, <1>1, <1>3, <1>4, <2>1, ReplaceOne
  <2> HIDE DEF e
  <2>4. CASE e = d
    BY <2>1, <2>2, <2>4 DEF OneChange
  <2>5. CASE new.user \in Users /\ d[new.user] = file[k] /\ e = [d EXCEPT ![new.user] = new]
    <3>1. e = [d EXCEPT ![new.user].score = score]
      BY <1>5b, <2>5
    <3>2. d[new.user] # Nobody
      BY <1>3, <2>5, ConstantsAssumption
    <3> HIDE DEF d
    <3>3. ChangeOf(new.user, d, e, trouble')
      BY <3>1, Zenon DEF ChangeOf
    <3>4. OneChange(d, e, trouble')
      BY <2>5, <3>2, <3>3, Zenon DEF OneChange
    <3> QED
      BY <2>1, <2>2, <3>4
  <2> QED
    BY <2>3, <2>4, <2>5
<1>10. Singles' /\ Mine'
  BY <1>0, <1>8, <1>9 DEF Singles, Mine
<1>11. Prepared'
  <2> SUFFICES ASSUME ~MixedUp' PROVE OneChange(d, e, trouble')
    BY <1>0 DEF Prepared
  <2> QED
    BY <1>8, <1>9 DEF MixedUp
<1>12. Places' /\ Copied' /\ CopySurvives'
  BY <1>0, <1>5 DEF Places, Copied, CopySurvives, Editing
<1> QED
  BY <1>7, <1>10, <1>11, <1>12 DEF IInv

LEMMA DeleteStep ==
  ASSUME IInv, NEW u \in Users, DeleteStudent(u)
  PROVE  IInv'
<1>0. /\ TypeOK /\ Places /\ Singles
      /\ place = "admin" /\ place' = "copy" /\ back' = "admin"
      /\ edit' = KeptOthers(u)
      /\ UNCHANGED <<onDisk, file, temp, torn, session, trouble>> /\ session = Nobody
  <2>1. place' = "copy" /\ back' = "admin"
    BY DEF DeleteStudent, Rewrite, FirstStep
  <2> QED
    BY <2>1 DEF IInv, DeleteStudent, Rewrite, Places
<1>1. file \in Seq(Students)
  BY <1>0 DEF TypeOK
<1>2. PICK k \in 1 .. Len(file) : file[k].user = u
  BY <1>1, LenProperties DEF DeleteStudent, OfUser
<1>3. "students.dat" \in onDisk
  <2>1. file # <<>>
    BY <1>2
  <2> QED
    BY <1>0, <2>1 DEF TypeOK
<1>4. edit' \in Seq(Students)
  <2>1. DOMAIN file \ OfUser(u) \in SUBSET (1 .. Len(file))
    BY <1>1, LenProperties
  <2> QED
    BY <1>0, <1>1, <2>1, SelectedType DEF KeptOthers
<1>5. TypeOK'
  BY <1>0, <1>4 DEF TypeOK
<1>6. /\ Regular(file) => Regular(edit')
      /\ DirectoryOf(edit') = [DirectoryOf(file) EXCEPT ![u] = Nobody]
  BY <1>0, <1>1, KeptDirectory
<1>7. Singles' /\ Mine'
  <2>1. ASSUME Regular(file) PROVE Regular(file)' /\ Regular(edit)'
    BY <1>0, <1>6, <2>1 DEF Regular, Alike, Proper
  <2> QED
    BY <1>0, <2>1 DEF Singles, Mine
<1>8. Prepared'
  <2> DEFINE d == DirectoryOf(file)
             e == DirectoryOf(edit')
  <2> SUFFICES OneChange(d, e, trouble)
    BY <1>0 DEF Prepared
  <2>1. PICK i \in 1 .. Len(file) : d[u] = file[i]
    BY <1>1, <1>2, DirectoryFound
  <2>2. d[u] # Nobody
    BY <1>1, <2>1, ElementOfSeq, ConstantsAssumption
  <2>3. e = [d EXCEPT ![u] = Nobody]
    BY <1>6
  <2> HIDE DEF d, e
  <2>4. ChangeOf(u, d, e, trouble)
    BY <2>3, Zenon DEF ChangeOf
  <2> QED
    BY <2>2, <2>4, Zenon DEF OneChange
<1>9. Places' /\ Copied' /\ CopySurvives'
  BY <1>0, <1>3 DEF Places, Copied, CopySurvives, Editing
<1> QED
  BY <1>5, <1>7, <1>8, <1>9 DEF IInv

LEMMA EditNotOpenedStep ==
  ASSUME IInv, EditNotOpened
  PROVE  IInv'
<1>0. /\ TypeOK /\ Places /\ Singles /\ Mine
      /\ place = "copy" /\ place' = back /\ edit' = <<>>
      /\ UNCHANGED <<file, session, back, trouble>>
      /\ \/ UNCHANGED <<onDisk, temp, torn>>
         \/ temp' = <<>> /\ torn' = torn \ {"temp.dat"} /\ onDisk' = onDisk \cup {"temp.dat"}
  BY DEF IInv, EditNotOpened
<1>1. /\ "students.dat" \in onDisk /\ "students.dat" \in onDisk'
      /\ back \in {"student", "admin"} /\ (back = "student" <=> session # Nobody)
  BY <1>0 DEF Places, Editing
<1>2. TypeOK'
  <2>1. onDisk' \subseteq {"students.dat", "temp.dat"} /\ torn' \subseteq onDisk'
        /\ ("temp.dat" \notin onDisk' => temp' = <<>>)
    BY <1>0 DEF TypeOK
  <2>2. temp' \in Seq(Students) /\ edit' \in Seq(Students)
    <3>1. <<>> \in Seq(Students) /\ temp \in Seq(Students)
      BY <1>0 DEF TypeOK
    <3> QED
      BY <1>0, <3>1
  <2> QED
    BY <1>0, <1>1, <2>1, <2>2 DEF TypeOK
<1>3. Singles' /\ Mine'
  BY <1>0, <1>1 DEF Singles, Mine, Editing, Regular, Alike, Proper, SameScore
<1>4. Places' /\ Copied' /\ CopySurvives' /\ Prepared'
  BY <1>0, <1>1 DEF Places, Copied, CopySurvives, Prepared, Editing
<1> QED
  BY <1>2, <1>3, <1>4 DEF IInv

LEMMA CopyStep ==
  ASSUME IInv, CopyToTemp
  PROVE  IInv'
<1>0. /\ TypeOK /\ Places /\ Singles /\ Mine /\ Prepared
      /\ place = "copy" /\ place' = "remove"
      /\ onDisk' = onDisk \cup {"temp.dat"}
      /\ UNCHANGED <<file, session, edit, back>>
      /\ torn' \in {torn \ {"temp.dat"}, torn \cup {"temp.dat"}}
      /\ \/ temp' = edit /\ UNCHANGED trouble
         \/ "full" \in Faults /\ temp' \in Parts(edit) /\ trouble' = trouble \cup {"loss"}
  BY DEF IInv, CopyToTemp, PartlyCopied
<1>1. /\ "students.dat" \in onDisk'
      /\ back \in {"student", "admin"} /\ (back = "student" <=> session # Nobody)
  BY <1>0 DEF Places, Editing
<1>2. /\ trouble \subseteq trouble' /\ ("double" \in trouble' <=> "double" \in trouble)
      /\ ("clash" \in trouble' <=> "clash" \in trouble)
  BY <1>0
<1>3. TypeOK'
  <2>1. edit \in Seq(Students)
    BY <1>0 DEF TypeOK
  <2>2. temp' \in Seq(Students) /\ trouble' \subseteq {"loss", "double", "clash"}
    BY <1>0, <2>1, PartFacts DEF TypeOK
  <2>3. /\ onDisk' \subseteq {"students.dat", "temp.dat"} /\ "temp.dat" \in onDisk'
        /\ torn' \subseteq onDisk'
    BY <1>0 DEF TypeOK
  <2> QED
    BY <1>0, <1>1, <2>2, <2>3 DEF TypeOK
<1>4. Singles'
  BY <1>0, <1>2 DEF Singles, Editing, Regular, Alike, Proper
<1>5. Mine'
  BY <1>0, <1>2 DEF Mine, Editing, SameScore
<1>6. Copied'
  BY <1>0 DEF Copied
<1>7. Prepared'
  <2> SUFFICES ASSUME ~MixedUp' PROVE OneChange(DirectoryOf(file), DirectoryOf(edit), trouble')
    BY <1>0 DEF Prepared
  <2>1. OneChange(DirectoryOf(file), DirectoryOf(edit), trouble)
    BY <1>0, <1>2 DEF Prepared, MixedUp
  <2> QED
    BY <1>2, <2>1, MoreTrouble
<1>8. Places' /\ CopySurvives'
  BY <1>0, <1>1 DEF Places, CopySurvives, Editing
<1> QED
  BY <1>3, <1>4, <1>5, <1>6, <1>7, <1>8 DEF IInv

LEMMA RemoveStep ==
  ASSUME IInv, RemoveFile
  PROVE  IInv'
<1>0. /\ TypeOK /\ Places /\ Copied /\ Singles /\ Mine
      /\ place = "remove" /\ place' = "rename"
      /\ file' = <<>> /\ onDisk' = onDisk \ {"students.dat"}
      /\ torn' = torn \ {"students.dat"}
      /\ UNCHANGED <<temp, session, edit, back, trouble>>
  BY DEF IInv, RemoveFile
<1>1. /\ "temp.dat" \in onDisk'
      /\ temp = edit \/ ("full" \in Faults /\ "loss" \in trouble /\ temp \in Parts(edit))
  BY <1>0 DEF Copied
<1>2. TypeOK'
  <2>1. file' \in Seq(Students) /\ torn' \subseteq onDisk'
    BY <1>0 DEF TypeOK
  <2> QED
    BY <1>0, <1>1, <2>1 DEF TypeOK
<1>3. Singles' /\ Mine'
  BY <1>0 DEF Singles, Mine, Editing, SameScore, Regular, Alike, Proper
<1>4. CopySurvives'
  <2>1. temp = edit \/ ("full" \in Faults /\ IsPrefix(temp, edit))
    BY <1>0, <1>1, PartFacts DEF TypeOK
  <2> QED
    BY <1>0, <1>1, <2>1 DEF CopySurvives
<1>5. Places' /\ Copied' /\ Prepared'
  BY <1>0, <1>1 DEF Places, Copied, Prepared, Editing
<1> QED
  BY <1>2, <1>3, <1>4, <1>5 DEF IInv

LEMMA RenameStep ==
  ASSUME IInv, RenameTemp
  PROVE  IInv'
<1>0. /\ TypeOK /\ Places /\ Copied /\ Singles /\ Mine
      /\ place = "rename" /\ place' = back /\ edit' = <<>>
      /\ file' = temp /\ temp' = <<>> /\ onDisk' = {"students.dat"}
      /\ torn' \subseteq {"students.dat"}
      /\ UNCHANGED <<session, back, trouble>>
  BY DEF IInv, RenameTemp
<1>1. /\ back \in {"student", "admin"} /\ (back = "student" <=> session # Nobody)
      /\ temp = edit \/ temp \in Parts(edit)
  BY <1>0 DEF Places, Copied, Editing
<1>2. edit \in Seq(Students) /\ temp \in Seq(Students)
  BY <1>0 DEF TypeOK
<1>3. TypeOK'
  <2>1. temp' \in Seq(Students) /\ edit' \in Seq(Students)
    BY <1>0
  <2> QED
    BY <1>0, <1>1, <1>2, <2>1 DEF TypeOK
<1>4. Singles'
  <2> SUFFICES ASSUME "double" \notin trouble PROVE Regular(file)'
    BY <1>0, <1>1 DEF Singles, Editing
  <2>1. Regular(edit)
    BY <1>0 DEF Singles, Editing
  <2>2. Regular(temp)
    BY <1>1, <1>2, <2>1, PartFacts
  <2> QED
    BY <1>0, <2>2 DEF Regular, Alike, Proper
<1>5. Mine'
  <2> SUFFICES ASSUME "double" \notin trouble, session # Nobody
               PROVE  session.student /\ SameScore(temp)
    BY <1>0, <1>1 DEF Mine, Editing, SameScore
  <2>1. SameScore(edit) /\ session.student
    BY <1>0 DEF Mine, Editing
  <2>2. CASE temp \in Parts(edit)
    <3>1. Len(temp) \in Nat /\ Len(edit) \in Nat /\ Len(temp) <= Len(edit)
          /\ \A i \in 1 .. Len(temp) : temp[i] = edit[i]
      BY <1>2, <2>2, PartFacts, LenProperties
    <3> QED
      BY <2>1, <3>1 DEF SameScore
  <2> QED
    BY <1>1, <2>1, <2>2
<1>6. Places' /\ Copied' /\ CopySurvives' /\ Prepared'
  BY <1>0, <1>1 DEF Places, Copied, CopySurvives, Prepared, Editing
<1> QED
  BY <1>3, <1>4, <1>5, <1>6 DEF IInv

LEMMA CrashStep ==
  ASSUME IInv, Crash
  PROVE  IInv'
<1>0. /\ TypeOK /\ Places /\ Copied /\ CopySurvives /\ Singles
      /\ place' = "down" /\ session' = Nobody /\ trouble' = trouble \cup {"loss"}
      /\ UNCHANGED <<file, edit, back>>
      /\ \/ UNCHANGED <<onDisk, temp, torn>>
         \/ /\ place = "copy" /\ temp' \in Parts(edit)
            /\ torn' \in {torn \ {"temp.dat"}, torn \cup {"temp.dat"}}
            /\ onDisk' = onDisk \cup {"temp.dat"}
  BY DEF IInv, Crash, PartlyCopied
<1>1. edit \in Seq(Students)
  BY <1>0 DEF TypeOK
<1>2. TypeOK'
  <2>1. temp' \in Seq(Students)
    BY <1>0, <1>1, PartFacts DEF TypeOK
  <2>2. /\ onDisk' \subseteq {"students.dat", "temp.dat"} /\ torn' \subseteq onDisk'
        /\ "students.dat" \notin onDisk' => file' = <<>>
        /\ "temp.dat" \notin onDisk' => temp' = <<>>
        /\ trouble' \subseteq {"loss", "double", "clash"}
    BY <1>0 DEF TypeOK
  <2> QED
    BY <1>0, <2>1, <2>2 DEF TypeOK
<1>3. CopySurvives'
  BY <1>0 DEF CopySurvives, Places
<1>4. Singles'
  BY <1>0 DEF Singles, Editing, Regular, Alike, Proper
<1>5. Places' /\ Copied' /\ Mine' /\ Prepared'
  BY <1>0 DEF Places, Copied, Mine, Prepared, Editing
<1> QED
  BY <1>2, <1>3, <1>4, <1>5 DEF IInv

LEMMA StutterStep ==
  ASSUME IInv, UNCHANGED vars
  PROVE  IInv'
<1>0. UNCHANGED <<onDisk, file, temp, torn, place, session, edit, back, trouble>>
  BY DEF vars
<1>1. TypeOK' /\ Places' /\ Copied' /\ CopySurvives'
  BY <1>0 DEF IInv, TypeOK, Places, Copied, CopySurvives, Editing
<1>2. Singles' /\ Mine'
  BY <1>0 DEF IInv, Singles, Mine, Editing, Regular, Alike, Proper, SameScore
<1>3. Prepared'
  BY <1>0 DEF IInv, Prepared, MixedUp
<1> QED
  BY <1>1, <1>2, <1>3 DEF IInv

LEMMA Step == IInv /\ [Next]_vars => IInv'
<1> SUFFICES ASSUME IInv, [Next]_vars PROVE IInv'
  OBVIOUS
<1>1. CASE UNCHANGED vars
  BY <1>1, StutterStep
<1>2. CASE Menu
  BY <1>2, RegisterStep, LoginStudentStep, MenuStep, SetInfoStep, SetScoreStep, DeleteStep
     DEF Menu
<1>3. CASE EditNotOpened \/ CopyToTemp \/ RemoveFile \/ RenameTemp \/ Crash \/ Restart
  BY <1>3, EditNotOpenedStep, CopyStep, RemoveStep, RenameStep, CrashStep, MenuStep
<1> QED
  BY <1>1, <1>2, <1>3 DEF Next

\* The inductive invariant holds throughout: in particular the records of a user are one
\* record until a registration leaves a second or a garbled one (Singles), temp.dat is
\* the whole edit or a beginning of it while the file is replaced (Copied), and an edit
\* that is being written is one change away from the file (Prepared).
THEOREM Invariance == Spec => []IInv
<1>1. Init => IInv
  BY Start
<1>2. IInv /\ [Next]_vars => IInv'
  BY Step
<1> QED
  BY <1>1, <1>2, PTL DEF Spec

\* The state is always of its types, and the student menu is never entered without
\* a record in the session (stuinfo).
THEOREM TypeCorrect == Spec => []TypeOK
<1>1. IInv => TypeOK
  BY DEF IInv
<1> QED
  BY Invariance, <1>1, PTL

\* However edits, crashes, short writes and torn records interleave, records with one
\* user name are one record, and only one as long as no score went to an id that
\* several students had, until a registration could not read the file or was appended
\* behind a torn record.
THEOREM OneRecordEach == Spec => []UsernamesUnique
<1>1. IInv => UsernamesUnique
  <2> SUFFICES ASSUME IInv, "double" \notin trouble
               PROVE  \A i, j \in DOMAIN file :
                        file[i].user = file[j].user => file[i] = file[j] /\ ("clash" \in trouble \/ i = j)
    BY DEF UsernamesUnique
  <2>1. Alike(file) /\ file \in Seq(Students)
    BY DEF IInv, Singles, Regular, TypeOK
  <2> QED
    BY <2>1, LenProperties DEF Alike
<1> QED
  BY Invariance, <1>1, PTL

\* While students.dat is missing, temp.dat has what the last edit meant to write, or
\* after a full disk a beginning of it.
THEOREM CopyKept == Spec => []CopySurvives
<1>1. IInv => CopySurvives
  BY DEF IInv
<1> QED
  BY Invariance, <1>1, PTL

---------------------------------------------------------------------------
(* The file and its copy implement the directory *)

\* After a loss anybody may be missing.
LEMMA AfterLoss ==
  ASSUME NEW lost \in SUBSET Users, "loss" \in trouble'
  PROVE  Without(DirectoryOf(Contents), lost) \in Directory!Left
BY Zenon DEF Directory!Left, Without

\* Nothing need be lost.
LEMMA AsItIs == DirectoryOf(Contents) \in Directory!Left
<1>1. CASE "loss" \notin trouble'
  BY <1>1 DEF Directory!Left
<1>2. CASE "loss" \in trouble'
  <2>1. DirectoryOf(Contents) = Without(DirectoryOf(Contents), {})
    BY DirectoryDomain DEF Without
  <2>2. Without(DirectoryOf(Contents), {}) \in Directory!Left
    BY <1>2, AfterLoss
  <2> QED
    BY <2>1, <2>2
<1> QED
  BY <1>1, <1>2

\* A student changed who is then lost might as well have been lost before, with those
\* who lost their records to him; one who is not is changed as if the loss had come first.
LEMMA ChangeAndLoss ==
  ASSUME NEW d, d = [v \in Users |-> d[v]], NEW e, NEW u \in Users, NEW t, ChangeOf(u, d, e, t),
         NEW lost \in SUBSET Users
  PROVE  \/ \E more \in SUBSET Users : Without(e, lost) = Without(d, more)
         \/ /\ Without(d, lost)[u] = d[u]
            /\ ChangeOf(u, Without(d, lost), Without(e, lost), t)
<1> DEFINE w == Without(d, lost)
<1>1. w = [v \in Users |-> w[v]] /\ \A v \in Users : w[v] = (IF v \in lost THEN Nobody ELSE d[v])
  BY DEF Without
<1>2. CASE u \in lost
  <2> DEFINE more == lost \cup {v \in Users : e[v] = Nobody}
  <2>1. ASSUME NEW v \in Users, v # u PROVE e[v] = d[v] \/ e[v] = Nobody
    <3>1. CASE \E s \in Scores : e = MergeOf(d, u, s)
      BY <2>1, <3>1 DEF MergeOf
    <3>2. CASE ~ \E s \in Scores : e = MergeOf(d, u, s)
      BY <2>1, <3>2 DEF ChangeOf
    <3> QED
      BY <3>1, <3>2
  <2>2. Without(e, lost) = Without(d, more)
    BY <1>2, <2>1 DEF Without
  <2>3. more \in SUBSET Users
    OBVIOUS
  <2> QED
    BY <2>2, <2>3
<1>3. CASE u \notin lost
  <2>1. w[u] = d[u]
    BY <1>1, <1>3
  <2>2. CASE e = [d EXCEPT ![u] = Nobody]
    <3>1. Without(e, lost) = [w EXCEPT ![u] = Nobody]
      BY <1>3, <2>2 DEF Without
    <3> QED
      BY <2>1, <3>1 DEF ChangeOf
  <2>3. CASE \E id \in Ids, named \in BOOLEAN :
               e = [d EXCEPT ![u].id = id, ![u].named = named]
    <3>1. PICK id \in Ids, named \in BOOLEAN :
            e = [d EXCEPT ![u].id = id, ![u].named = named]
      BY <2>3
    <3>2. Without(e, lost) = [w EXCEPT ![u].id = id, ![u].named = named]
      BY <1>3, <3>1 DEF Without
    <3>3. ChangeOf(u, w, Without(e, lost), t)
      BY <3>2, Zenon DEF ChangeOf
    <3> QED
      BY <2>1, <3>3
  <2>4. CASE \E s \in Scores : e = [d EXCEPT ![u].score = s]
    <3>1. PICK s \in Scores : e = [d EXCEPT ![u].score = s]
      BY <2>4
    <3>2. Without(e, lost) = [w EXCEPT ![u].score = s]
      BY <1>3, <3>1 DEF Without
    <3>3. ChangeOf(u, w, Without(e, lost), t)
      BY <3>2, Zenon DEF ChangeOf
    <3> QED
      BY <2>1, <3>3
  <2>5. CASE "clash" \in t /\ \E s \in Scores : e = MergeOf(d, u, s)
    <3>1. PICK s \in Scores : e = MergeOf(d, u, s)
      BY <2>5
    <3>2. ASSUME NEW v \in Users
          PROVE  Without(e, lost)[v] = MergeOf(w, u, s)[v]
      <4>1. /\ Without(e, lost)[v] = (IF v \in lost THEN Nobody ELSE e[v])
            /\ w[v] = (IF v \in lost THEN Nobody ELSE d[v])
        BY DEF Without
      <4>2. e[v] = (IF v = u THEN [d[u] EXCEPT !.score = s]
                    ELSE IF d[v] # Nobody /\ d[v].id = d[u].id THEN Nobody ELSE d[v])
        BY <3>1 DEF MergeOf
      <4>3. MergeOf(w, u, s)[v]
              = (IF v = u THEN [w[u] EXCEPT !.score = s]
                 ELSE IF w[v] # Nobody /\ w[v].id = w[u].id THEN Nobody ELSE w[v])
        BY DEF MergeOf
      <4> HIDE DEF w
      <4>4. CASE v = u
        BY <1>3, <2>1, <4>1, <4>2, <4>3, <4>4
      <4>5. CASE v # u /\ v \in lost
        BY <4>1, <4>3, <4>5
      <4>6. CASE v # u /\ v \notin lost
        BY <2>1, <4>1, <4>2, <4>3, <4>6
      <4> QED
        BY <4>4, <4>5, <4>6
    <3>3. Without(e, lost) = [v \in Users |-> Without(e, lost)[v]]
      BY DEF Without
    <3>4. MergeOf(w, u, s) = [v \in Users |-> MergeOf(w, u, s)[v]]
      BY DEF MergeOf
    <3> HIDE DEF w
    <3>5. Without(e, lost) = MergeOf(w, u, s)
      BY <3>2, <3>3, <3>4
    <3>6. ChangeOf(u, w, Without(e, lost), t)
      BY <2>5, <3>5, Zenon DEF ChangeOf
    <3> QED
      BY <2>1, <3>6 DEF w
  <2>6. CASE "double" \in t /\ \E r \in Directory!Records(u) : e = [d EXCEPT ![u] = r]
    <3>1. PICK r \in Directory!Records(u) : e = [d EXCEPT ![u] = r]
      BY <2>6
    <3>2. Without(e, lost) = [w EXCEPT ![u] = r]
      BY <1>3, <3>1 DEF Without
    <3>3. ChangeOf(u, w, Without(e, lost), t)
      BY <2>6, <3>2, Zenon DEF ChangeOf
    <3> QED
      BY <2>1, <3>3
  <2> QED
    BY <2>2, <2>3, <2>4, <2>5, <2>6 DEF ChangeOf
<1> QED
  BY <1>2, <1>3

\* What may become of one student in a step of the directory.
OneStep(u) ==
  \/ Directory!Register(u) \/ Directory!Delete(u) \/ Directory!Garble(u)
  \/ \E id \in Ids, named \in BOOLEAN : Directory!SetInfo(u, id, named)
  \/ \E s \in Scores : Directory!SetScore(u, s) \/ Directory!Merge(u, s)

\* A change of what is left is an operation of the directory.
LEMMA ChangeIsOperation ==
  ASSUME NEW u \in Users, NEW d, d \in Directory!Left, d[u] # Nobody,
         ChangeOf(u, d, DirectoryOf(Contents)', trouble')
  PROVE  OneStep(u)
<1>1. CASE DirectoryOf(Contents)' = [d EXCEPT ![u] = Nobody]
  BY <1>1, Zenon DEF Directory!Delete, OneStep
<1>2. CASE \E id \in Ids, named \in BOOLEAN :
             DirectoryOf(Contents)' = [d EXCEPT ![u].id = id, ![u].named = named]
  BY <1>2, Zenon DEF Directory!SetInfo, OneStep
<1>3. CASE \E s \in Scores : DirectoryOf(Contents)' = [d EXCEPT ![u].score = s]
  BY <1>3, Zenon DEF Directory!SetScore, OneStep
<1>4. CASE "clash" \in trouble' /\ \E s \in Scores : DirectoryOf(Contents)' = MergeOf(d, u, s)
  BY <1>4, Zenon DEF Directory!Merge, MergeOf, OneStep
<1>5. CASE /\ "double" \in trouble'
           /\ \E r \in Directory!Records(u) : DirectoryOf(Contents)' = [d EXCEPT ![u] = r]
  BY <1>5, Zenon DEF Directory!Garble, OneStep
<1> QED
  BY <1>1, <1>2, <1>3, <1>4, <1>5, Zenon DEF ChangeOf

\* A registration adds a student, shows somebody garbled, or nobody new.
LEMMA RegisterImplements ==
  ASSUME IInv, NEW u \in Users, RegisterFlow(u)
  PROVE  Directory!Lose \/ \E v \in Users : OneStep(v)
<1> DEFINE d == DirectoryOf(file)
<1>0. /\ TypeOK /\ Places /\ place = "main" /\ "students.dat" \in onDisk'
      /\ AppendWhole(u) \/ AppendPart \/ AppendBehindPart
  BY DEF IInv, RegisterFlow
<1>1. /\ file \in Seq(Students) /\ torn \subseteq onDisk
      /\ DirectoryOf(Contents)' = DirectoryOf(file')
  BY <1>0 DEF TypeOK, Contents
<1>2. trouble \subseteq trouble'
  BY <1>0 DEF AppendWhole, AppendPart, AppendBehindPart
<1>3. d \in Directory!Left
  <2>1. CASE "students.dat" \in onDisk
    BY <2>1, AsItIs DEF Contents
  <2>2. CASE "students.dat" \notin onDisk
    <3>1. file = <<>> /\ Contents = temp /\ (temp = <<>> \/ "loss" \in trouble)
      BY <1>0, <2>2 DEF TypeOK, Places, Contents
    <3>2. CASE temp = <<>>
      BY <3>1, <3>2, AsItIs
    <3>3. CASE "loss" \in trouble
      <4>0. \A i \in 1 .. Len(file) : FALSE
        BY <3>1
      <4>1. \A v \in Users : d[v] = Nobody
        BY <1>1, <4>0, DirectoryLacks
      <4>2. d = Without(DirectoryOf(Contents), Users)
        BY <4>1, DirectoryDomain DEF Without
      <4> QED
        BY <1>2, <3>3, <4>2, AfterLoss
    <3> QED
      BY <3>1, <3>2, <3>3
  <2> QED
    BY <2>1, <2>2
<1>4. ASSUME NEW r \in Students, file' = Append(file, r)
      PROVE  \/ DirectoryOf(Contents)' = d
             \/ /\ r.user \in Users /\ d[r.user] = Nobody
                /\ DirectoryOf(Contents)' = [d EXCEPT ![r.user] = r]
  <2>1. DirectoryOf(Append(file, r))
          = IF r.user \in Users /\ d[r.user] = Nobody THEN [d EXCEPT ![r.user] = r] ELSE d
    BY <1>1, AppendDirectory
  <2> QED
    BY <1>1, <1>4, <2>1
<1> HIDE DEF d
<1>5. ASSUME DirectoryOf(Contents)' = d PROVE Directory!Lose
  BY <1>3, <1>5 DEF Directory!Lose
<1>6. CASE AppendWhole(u)
  <2>1. New(u) \in Students /\ New(u).user = u /\ New(u) = Directory!New(u)
    BY ConstantsAssumption DEF New, Directory!New, Students
  <2>2. \/ DirectoryOf(Contents)' = d
        \/ d[u] = Nobody /\ DirectoryOf(Contents)' = [d EXCEPT ![u] = Directory!New(u)]
    BY <1>4, <1>6, <2>1 DEF AppendWhole
  <2>3. ASSUME d[u] = Nobody, DirectoryOf(Contents)' = [d EXCEPT ![u] = Directory!New(u)]
        PROVE  OneStep(u)
    BY <1>3, <2>3, Zenon DEF Directory!Register, OneStep
  <2> QED
    BY <1>5, <2>2, <2>3
<1>7. CASE AppendPart
  BY <1>1, <1>5, <1>7 DEF AppendPart, d
<1>8. CASE AppendBehindPart
  <2>1. PICK r \in Garbled : file' = Append(file, r)
    BY <1>8 DEF AppendBehindPart
  <2>2. r \in Students /\ "double" \in trouble'
    BY <1>8, ConstantsAssumption DEF AppendBehindPart
  <2>3. \/ DirectoryOf(Contents)' = d
        \/ r.user \in Users /\ DirectoryOf(Contents)' = [d EXCEPT ![r.user] = r]
    BY <1>4, <2>1, <2>2
  <2>4. r \in Directory!Records(r.user)
    BY <2>2 DEF Directory!Records, Students
  <2>5. ASSUME r.user \in Users, DirectoryOf(Contents)' = [d EXCEPT ![r.user] = r]
        PROVE  OneStep(r.user)
    BY <1>3, <2>2, <2>4, <2>5, Zenon DEF Directory!Garble, OneStep
  <2> QED
    BY <1>5, <2>3, <2>5
<1> QED
  BY <1>0, <1>6, <1>7, <1>8

LEMMA RemoveImplements ==
  ASSUME IInv, RemoveFile, ~MixedUp
  PROVE  Directory!Lose \/ \E u \in Users : OneStep(u)
<1> DEFINE d == DirectoryOf(file)
           e == DirectoryOf(edit)
<1>1. /\ Contents = file /\ Contents' = temp /\ trouble' = trouble
      /\ edit \in Seq(Students)
      /\ temp = edit \/ ("loss" \in trouble /\ temp \in Parts(edit))
      /\ OneChange(d, e, trouble')
  <2>1. place = "remove" /\ "students.dat" \in onDisk
    BY DEF IInv, RemoveFile, Places
  <2> QED
    BY <2>1 DEF IInv, RemoveFile, Copied, Prepared, TypeOK, Contents
<1>2. d = [v \in Users |-> d[v]] /\ e = [v \in Users |-> e[v]]
  BY DirectoryDomain
<1>3. DirectoryOf(Contents) = d /\ DirectoryOf(Contents)' = DirectoryOf(temp)
  BY <1>1
<1>4. d \in Directory!Left
  BY <1>3, AsItIs
<1> HIDE DEF d, e
<1>5. CASE temp = edit
  <2>1. DirectoryOf(Contents)' = e
    BY <1>3, <1>5 DEF e
  <2>2. ASSUME NEW u \in Users, d[u] # Nobody, ChangeOf(u, d, e, trouble')
        PROVE  OneStep(u)
    BY <1>4, <2>1, <2>2, ChangeIsOperation
  <2>3. CASE e = d
    BY <1>4, <2>1, <2>3 DEF Directory!Lose
  <2>4. CASE \E u \in Users : d[u] # Nobody /\ ChangeOf(u, d, e, trouble')
    BY <2>2, <2>4
  <2> QED
    BY <1>1, <2>3, <2>4 DEF OneChange
<1>6. CASE "loss" \in trouble /\ temp \in Parts(edit)
  <2>1. PICK lost \in SUBSET Users : DirectoryOf(temp) = Without(e, lost)
    BY <1>1, <1>6, PartDirectory DEF e
  <2>2. ASSUME NEW more \in SUBSET Users, Without(e, lost) = Without(d, more)
        PROVE  Directory!Lose
    <3>1. Without(d, more) \in Directory!Left
      BY <1>1, <1>3, <1>6, AfterLoss
    <3> QED
      BY <1>3, <2>1, <2>2, <3>1 DEF Directory!Lose
  <2>3. CASE e = d
    BY <2>2, <2>3
  <2>4. CASE \E u \in Users : d[u] # Nobody /\ ChangeOf(u, d, e, trouble')
    <3>1. PICK u \in Users : d[u] # Nobody /\ ChangeOf(u, d, e, trouble')
      BY <2>4
    <3>2. ASSUME Without(d, lost)[u] = d[u],
                 ChangeOf(u, Without(d, lost), Without(e, lost), trouble')
          PROVE  OneStep(u)
      <4>1. Without(d, lost) \in Directory!Left
        BY <1>1, <1>3, <1>6, AfterLoss
      <4>2. ChangeOf(u, Without(d, lost), DirectoryOf(Contents)', trouble')
        BY <1>3, <2>1, <3>2
      <4> QED
        BY <3>1, <3>2, <4>1, <4>2, ChangeIsOperation
    <3>3. \/ \E more \in SUBSET Users : Without(e, lost) = Without(d, more)
          \/ /\ Without(d, lost)[u] = d[u]
             /\ ChangeOf(u, Without(d, lost), Without(e, lost), trouble')
      BY <1>2, <3>1, ChangeAndLoss
    <3> QED
      BY <2>2, <3>2, <3>3
  <2> QED
    BY <1>1, <2>3, <2>4 DEF OneChange
<1> QED
  BY <1>1, <1>5, <1>6

\* Every other step leaves the directory alone.
LEMMA OthersImplement ==
  ASSUME IInv, [Next]_vars, ~RemoveFile, \A u \in Users : ~RegisterFlow(u)
  PROVE  DirectoryOf(Contents)' = DirectoryOf(Contents)
<1>0. TypeOK /\ Places /\ Copied
  BY DEF IInv
<1>1. CASE UNCHANGED vars
  BY <1>1 DEF vars, Contents
<1>2. CASE Menu
  <2>1. ASSUME NEW u \in Users, LoginStudent(u) \/ DeleteStudent(u)
        PROVE  UNCHANGED <<file, temp, onDisk>>
    BY <2>1 DEF LoginStudent, DeleteStudent, Rewrite
  <2>2. ASSUME NEW id \in Ids, NEW named \in BOOLEAN, SetInfo(id, named)
        PROVE  UNCHANGED <<file, temp, onDisk>>
    BY <2>2 DEF SetInfo, Rewrite
  <2>3. ASSUME NEW id \in Ids, NEW s \in Scores, AddScore(id, s) \/ ModifyScore(id, s)
        PROVE  UNCHANGED <<file, temp, onDisk>>
    BY <2>3 DEF AddScore, ModifyScore, SetScore, Rewrite
  <2>4. ASSUME LoginAdmin \/ Logout
        PROVE  UNCHANGED <<file, temp, onDisk>>
    BY <2>4 DEF LoginAdmin, Logout
  <2>5. UNCHANGED <<file, temp, onDisk>>
    BY <1>2, <2>1, <2>2, <2>3, <2>4 DEF Menu
  <2> QED
    BY <2>5 DEF Contents
<1>3. CASE EditNotOpened \/ CopyToTemp
  <2>1. "students.dat" \in onDisk /\ "students.dat" \in onDisk' /\ file' = file
    BY <1>0, <1>3 DEF Places, EditNotOpened, CopyToTemp
  <2> QED
    BY <2>1 DEF Contents
<1>4. CASE RenameTemp
  BY <1>0, <1>4 DEF Places, RenameTemp, Contents
<1>5. CASE Crash
  <2>1. /\ file' = file
        /\ "students.dat" \in onDisk <=> "students.dat" \in onDisk'
        /\ temp' = temp \/ "students.dat" \in onDisk
    BY <1>0, <1>5 DEF Places, Crash
  <2> QED
    BY <2>1 DEF Contents
<1>6. CASE Restart
  BY <1>6 DEF Restart, Contents
<1> QED
  BY <1>1, <1>2, <1>3, <1>4, <1>5, <1>6 DEF Next

\* What has gone wrong is never forgotten.
LEMMA TroubleGrows ==
  ASSUME [Next]_vars
  PROVE  trouble \subseteq trouble'
BY DEF Next, Menu, vars, RegisterFlow, AppendWhole, AppendPart, AppendBehindPart, LoginStudent,
       DeleteStudent, SetInfo, AddScore, ModifyScore, SetScore, LoginAdmin, Logout,
       EditNotOpened, CopyToTemp, RemoveFile, RenameTemp, Crash, Restart

LEMMA StepImplements == IInv /\ [Next]_vars => [Directory!Next]_(Directory!vars)
<1> SUFFICES ASSUME IInv, [Next]_vars PROVE [Directory!Next]_(Directory!vars)
  OBVIOUS
<1>1. trouble \subseteq trouble'
  BY TroubleGrows
<1>2. CASE Directory!MixUp
  BY <1>1, <1>2, Zenon DEF Directory!Next
<1>3. CASE Directory!Lose \/ \E u \in Users : OneStep(u)
  <2>1. CASE Directory!Lose
    BY <1>1, <2>1, Zenon DEF Directory!Next
  <2>2. CASE \E u \in Users : OneStep(u)
    BY <1>1, <2>2, Zenon DEF Directory!Next, OneStep
  <2> QED
    BY <1>3, <2>1, <2>2
<1>4. CASE \E u \in Users : RegisterFlow(u)
  BY <1>3, <1>4, RegisterImplements
<1>5. CASE RemoveFile
  <2>1. trouble' = trouble
    BY <1>5 DEF RemoveFile
  <2>2. CASE MixedUp
    BY <1>2, <2>1, <2>2 DEF Directory!MixUp, MixedUp
  <2>3. CASE ~MixedUp
    BY <1>3, <1>5, <2>3, RemoveImplements
  <2> QED
    BY <2>2, <2>3
<1>6. CASE ~RemoveFile /\ \A u \in Users : ~RegisterFlow(u)
  <2>1. DirectoryOf(Contents)' = DirectoryOf(Contents)
    BY <1>6, OthersImplement
  <2>2. Directory!Lose
    BY <2>1, AsItIs DEF Directory!Lose
  <2> QED
    BY <1>3, <2>2
<1> QED
  BY <1>4, <1>5, <1>6

\* Every edit is one atomic change of one student although it rewrites the file in
\* three steps: the file, or its copy while an edit has removed it, is a directory that
\* registers, edits and deletes one student at a time.  After a crash or a short write
\* students may be missing, and those who are left are as they were; a registration
\* appended behind a torn record shows at most one more student, whatever it then is; a
\* score for a shared id costs those who share it.  Nothing is said of a directory that
\* has seen both of the last two.
THEOREM Implements == Spec => ImplementsDirectory
<1>1. Init => Directory!Init
  <2> SUFFICES ASSUME Init PROVE Directory!Init
    OBVIOUS
  <2>1. Contents = <<>> /\ trouble = {}
    BY DEF Init, Contents
  <2>2. <<>> \in Seq(Students) /\ \A i \in 1 .. Len(<<>>) : FALSE
    OBVIOUS
  <2>3. \A u \in Users : DirectoryOf(<<>>)[u] = Nobody
    BY <2>2, DirectoryLacks
  <2>4. DirectoryOf(<<>>) = [u \in Users |-> Nobody]
    BY <2>3, DirectoryDomain
  <2> QED
    BY <2>1, <2>4 DEF Directory!Init
<1>2. Spec => []IInv
  BY Invariance
<1>3. IInv /\ [Next]_vars => [Directory!Next]_(Directory!vars)
  BY StepImplements
<1> QED
  BY <1>1, <1>2, <1>3, PTL DEF Spec, ImplementsDirectory, Directory!Spec

---------------------------------------------------------------------------
(* The windows.  An id is the number of an insertion, in the table and in  *)
(* every list (Numbered): this is why an old list aims at whom it shows    *)
(* (Aimed).  Stations says what a window has at each place of its start and  *)
(* of a reload; OneSeeds and Sown follow the samples, which are inserted   *)
(* long after the rows were counted.                                       *)

Numbered ==
  /\ \A i \in DOMAIN table : i <= inserts /\ table[i].made = i
  /\ DOMAIN rows = AllWindows
  /\ \A w \in AllWindows : \A i \in DOMAIN rows[w] : rows[w][i].made = i

Aimed == \A w \in AllWindows : Windows!Aim(w) # 0 => Windows!Aim(w) = picked[w]

Stations ==
  \A w \in AllWindows :
    /\ pc[w] \in {"off", "create", "count", "alice", "bob"} =>
         rows[w] = Windows!Empty /\ w \notin unseen
    /\ pc[w] \in {"create", "count", "alice", "bob", "load", "refresh"} => w \in opened

Quiet == "race" \notin mishaps

OneSeeds == Quiet => \A w, x \in Windows!Seeding : w = x

Sown ==
  Quiet /\ writes = 0 =>
    /\ \A v \in {Alice, Bob} : \A i, j \in Windows!Samples(v) : i = j
    /\ \A w \in AllWindows : pc[w] = "alice" => DOMAIN table = {}
    /\ \A w \in AllWindows :
         pc[w] = "bob" => Windows!Samples(Alice) # {} /\ Windows!Samples(Bob) = {}
    /\ "fault" \notin mishaps =>
         /\ (\E w \in AllWindows : pc[w] \in {"load", "refresh", "idle"}) => DOMAIN table # {}
         /\ DOMAIN table # {} =>
              \/ \E w \in AllWindows : pc[w] = "bob"
              \/ Windows!Samples(Alice) # {} /\ Windows!Samples(Bob) # {}

WindowInv ==
  /\ Windows!TypeOK /\ Numbered /\ Aimed /\ Windows!OwnWritesShown
  /\ Stations /\ OneSeeds /\ Sown

\* An instance has its own copy of the operators its module extends.
LEMMA SameCardinality == ASSUME NEW S PROVE Windows!Cardinality(S) = Cardinality(S)
  BY DEF Windows!Cardinality, Cardinality

\* The row of a list that a user selects, and the id that a selection stands for.
Nth(D, n) == CHOOSE i \in D : Windows!Cardinality({j \in D : j <= i}) = n

AimIn(d, list, s) ==
  IF d = "qml" THEN s
  ELSE IF s \in 1 .. Windows!Cardinality(DOMAIN list) THEN Nth(DOMAIN list, s) ELSE 0

\* Every row of a list has its id: of the bounds below which there are n ids or
\* more the first one is an id, the n-th.
LEMMA NthIsThere ==
  ASSUME NEW m \in Nat, NEW D \in SUBSET (1 .. m), NEW n \in 1 .. Windows!Cardinality(D)
  PROVE  Nth(D, n) \in D /\ n <= m
<1> DEFINE Below(k) == {j \in D : j <= k}
           Ks == {k \in Nat : Cardinality(Below(k)) >= n}
<1>0. \A j \in D : j \in Nat /\ 1 <= j /\ j <= m
  OBVIOUS
<1>1. IsFiniteSet(D) /\ Cardinality(D) \in Nat /\ Cardinality(D) <= m
  <2>1. IsFiniteSet(1 .. m) /\ Cardinality(1 .. m) = m
    BY FS_Interval
  <2> QED
    BY <2>1, FS_Subset, FS_CardinalityType
<1>2. n \in Nat /\ n >= 1 /\ n <= Cardinality(D)
  BY <1>1, SameCardinality
<1>3. ASSUME NEW k \in Nat PROVE IsFiniteSet(Below(k)) /\ Cardinality(Below(k)) \in Nat
  BY <1>1, FS_Subset, FS_CardinalityType
<1>4. \A k \in Nat : k \in Ks <=> Cardinality(Below(k)) >= n
  OBVIOUS
<1>5. Ks \subseteq Nat
  OBVIOUS
<1>6. \A k \in Nat : \A j : j \in Below(k) <=> j \in D /\ j <= k
  OBVIOUS
<1> HIDE DEF Below, Ks
<1>7. m \in Ks
  <2>1. Below(m) = D
    BY <1>0, <1>6
  <2> QED
    BY <1>2, <1>4, <2>1
<1>8. PICK k : k = First(Ks)
  OBVIOUS
<1>9. k \in Nat /\ k \in Ks /\ \A j \in Ks : k <= j
  BY <1>5, <1>7, <1>8, FirstIsLeast
<1>10. k # 0
  <2>1. Below(0) = {}
    <3> SUFFICES ASSUME NEW j \in Below(0) PROVE FALSE
      OBVIOUS
    <3>1. j \in D /\ j <= 0
      BY <1>6
    <3> QED
      BY <1>0, <3>1
  <2>2. Cardinality(Below(0)) = 0
    BY <2>1, FS_EmptySet
  <2> QED
    BY <1>2, <1>4, <1>9, <2>2
<1>11. PICK b \in Nat : b = k - 1
  BY <1>9, <1>10
<1>12. Cardinality(Below(b)) < n /\ Cardinality(Below(b)) \in Nat
  <2>1. b \notin Ks
    BY <1>9, <1>11
  <2>2. Cardinality(Below(b)) \in Nat
    BY <1>3
  <2> QED
    BY <1>2, <1>4, <2>1, <2>2
<1>13. \A j \in D : j <= k <=> j <= b \/ j = k
  BY <1>0, <1>9, <1>11
<1>14. k \in D
  <2> SUFFICES ASSUME k \notin D PROVE FALSE
    OBVIOUS
  <2>1. Below(k) = Below(b)
    BY <1>6, <1>9, <1>13
  <2>2. Cardinality(Below(k)) >= n
    BY <1>4, <1>9
  <2> QED
    BY <1>2, <1>12, <2>1, <2>2
<1>15. Below(k) = Below(b) \cup {k}
  <2>1. \A j : j \in Below(k) <=> j \in Below(b) \cup {k}
    BY <1>6, <1>9, <1>13, <1>14
  <2> QED
    BY <2>1
<1>16. k \notin Below(b)
  BY <1>6, <1>9, <1>11
<1>17. Cardinality(Below(k)) = Cardinality(Below(b)) + 1
  <2>1. IsFiniteSet(Below(b))
    BY <1>3
  <2>2. Cardinality(Below(b) \cup {k}) = Cardinality(Below(b)) + 1
    BY <1>16, <2>1, FS_AddElement
  <2> QED
    BY <1>15, <2>2
<1>18. Cardinality(Below(k)) = n
  <2>1. Cardinality(Below(k)) >= n
    BY <1>4, <1>9
  <2> QED
    BY <1>2, <1>12, <1>17, <2>1
<1>19. Windows!Cardinality({j \in D : j <= k}) = n
  BY <1>18, SameCardinality DEF Below
<1> QED
  BY <1>1, <1>2, <1>14, <1>19 DEF Nth

LEMMA AimOf ==
  /\ \A w \in AllWindows : Windows!Aim(w) = AimIn(demo, rows[w], selected[w])
  /\ \A w \in AllWindows : Windows!Aim(w)' = AimIn(demo', rows'[w], selected'[w])
BY DEF Windows!Aim, Windows!RowId, AimIn, Nth

LEMMA AimNone == \A d, list : AimIn(d, list, 0) = 0
BY DEF AimIn

\* A window whose list and selection are left alone aims as before.
LEMMA AimKept ==
  ASSUME WindowInv, NEW w \in AllWindows, demo' = demo,
         \/ rows'[w] = rows[w] /\ selected'[w] = selected[w] /\ picked'[w] = picked[w]
         \/ demo = "qml" /\ selected'[w] = selected[w] /\ picked'[w] = picked[w]
         \/ selected'[w] = 0
  PROVE  Windows!Aim(w)' # 0 => Windows!Aim(w)' = picked'[w]
<1>1. Windows!Aim(w) # 0 => Windows!Aim(w) = picked[w]
  BY DEF WindowInv, Aimed
<1>2. CASE rows'[w] = rows[w] /\ selected'[w] = selected[w] /\ picked'[w] = picked[w]
  BY <1>1, <1>2, AimOf
<1>3. CASE demo = "qml" /\ selected'[w] = selected[w] /\ picked'[w] = picked[w]
  BY <1>1, <1>3, AimOf DEF AimIn
<1>4. CASE selected'[w] = 0
  BY <1>4, AimOf, AimNone
<1> QED
  BY <1>2, <1>3, <1>4

---------------------------------------------------------------------------
(* What steps of the windows have in common *)

Spots == {"off", "create", "count", "alice", "bob", "load", "refresh", "idle"}

LEMMA WindowTypes ==
  ASSUME WindowInv
  PROVE  /\ MaxId \in Nat /\ MaxWrites \in Nat /\ Alice # Bob
         /\ demo \in {"qml", "widget"} /\ created \in BOOLEAN
         /\ Windows!IsRows(table) /\ (~created => table = Windows!Empty)
         /\ inserts \in Nat /\ inserts <= MaxId
         /\ pc \in [AllWindows -> Spots]
         /\ opened \subseteq AllWindows /\ unseen \subseteq opened /\ warned \subseteq unseen
         /\ DOMAIN rows = AllWindows
         /\ \A w \in AllWindows : Windows!IsRows(rows[w])
         /\ \A w \in AllWindows : rows[w] # Windows!Empty => w \in opened
         /\ selected \in [AllWindows -> 0 .. MaxId] /\ picked \in [AllWindows -> 0 .. MaxId]
         /\ writes \in Nat /\ writes <= MaxWrites /\ mishaps \subseteq {"fault", "race"}
<1>1. MaxId \in Nat /\ MaxWrites \in Nat /\ Alice # Bob
  BY PartsAssumption DEF Windows!WindowsAssumption
<1> QED
  BY <1>1 DEF WindowInv, Windows!TypeOK, Numbered, Spots

LEMMA Went ==
  ASSUME WindowInv, NEW w \in AllWindows, NEW spot \in Spots, Windows!Goto(w, spot)
  PROVE  /\ pc' \in [AllWindows -> Spots]
         /\ pc'[w] = spot /\ \A x \in AllWindows : x # w => pc'[x] = pc[x]
<1>1. pc' = [pc EXCEPT ![w] = spot]
  BY DEF Windows!Goto
<1> QED
  BY <1>1, WindowTypes

LEMMA Deselected ==
  ASSUME WindowInv, NEW w \in AllWindows, Windows!Deselect(w)
  PROVE  /\ selected' \in [AllWindows -> 0 .. MaxId] /\ picked' \in [AllWindows -> 0 .. MaxId]
         /\ selected'[w] = 0
         /\ \A x \in AllWindows : x # w => selected'[x] = selected[x] /\ picked'[x] = picked[x]
<1>1. selected' = [selected EXCEPT ![w] = 0]
  BY DEF Windows!Deselect
<1>2. picked' = [picked EXCEPT ![w] = 0]
  BY DEF Windows!Deselect
<1>3. 0 \in 0 .. MaxId
  BY WindowTypes
<1>4. selected' \in [AllWindows -> 0 .. MaxId] /\ picked' \in [AllWindows -> 0 .. MaxId]
  BY <1>1, <1>2, <1>3, WindowTypes
<1>5. \A x \in AllWindows : /\ selected'[x] = IF x = w THEN 0 ELSE selected[x]
                            /\ picked'[x] = IF x = w THEN 0 ELSE picked[x]
  BY <1>1, <1>2, WindowTypes
<1> QED
  BY <1>4, <1>5

\* What a window finds in the table or shows is left alone, and so is its aim.
LEMMA ListsKept ==
  ASSUME WindowInv, UNCHANGED <<demo, table, inserts, rows, selected, picked>>
  PROVE  Numbered' /\ Aimed'
<1>1. Numbered'
  BY DEF WindowInv, Numbered
<1>2. Aimed'
  BY AimKept DEF Aimed
<1> QED
  BY <1>1, <1>2

\* A step that does not touch the table, nor makes its window one that seeds.
LEMMA SeedsKept ==
  ASSUME WindowInv, NEW w \in AllWindows, NEW spot \in Spots \ {"alice", "bob"},
         Windows!Goto(w, spot), UNCHANGED <<table, writes>>, mishaps \subseteq mishaps',
         pc[w] \in {"alice", "bob"} => "fault" \in mishaps',
         spot \in {"load", "refresh", "idle"} =>
           \/ pc[w] \in {"load", "refresh", "idle"} \/ "fault" \in mishaps' \/ DOMAIN table # {}
  PROVE  OneSeeds' /\ Sown'
<1>1. pc'[w] = spot /\ \A x \in AllWindows : x # w => pc'[x] = pc[x]
  BY Went
<1>2. \A x \in AllWindows : pc'[x] \in {"alice", "bob"} => pc[x] \in {"alice", "bob"} /\ pc'[x] = pc[x]
  BY <1>1
<1>3. Quiet' => Quiet
  BY DEF Quiet
<1>4. OneSeeds'
  BY <1>2, <1>3 DEF WindowInv, OneSeeds, Windows!Seeding
<1>5. \A v : Windows!Samples(v)' = Windows!Samples(v)
  BY DEF Windows!Samples
<1>6. ASSUME Quiet', writes' = 0
      PROVE  /\ \A v \in {Alice, Bob} : \A i, j \in Windows!Samples(v)' : i = j
             /\ \A x \in AllWindows : pc'[x] = "alice" => DOMAIN table = {}
             /\ \A x \in AllWindows :
                  pc'[x] = "bob" => Windows!Samples(Alice) # {} /\ Windows!Samples(Bob) = {}
  BY <1>2, <1>3, <1>5, <1>6 DEF WindowInv, Sown
<1>7. ASSUME Quiet', writes' = 0, "fault" \notin mishaps'
      PROVE  /\ (\E x \in AllWindows : pc'[x] \in {"load", "refresh", "idle"}) => DOMAIN table # {}
             /\ DOMAIN table # {} =>
                  \/ \E x \in AllWindows : pc'[x] = "bob"
                  \/ Windows!Samples(Alice) # {} /\ Windows!Samples(Bob) # {}
  <2>1. "fault" \notin mishaps /\ Quiet /\ writes = 0 /\ pc[w] \notin {"alice", "bob"}
    BY <1>3, <1>7
  <2>2. /\ (\E x \in AllWindows : pc[x] \in {"load", "refresh", "idle"}) => DOMAIN table # {}
        /\ DOMAIN table # {} =>
             \/ \E x \in AllWindows : pc[x] = "bob"
             \/ Windows!Samples(Alice) # {} /\ Windows!Samples(Bob) # {}
    BY <2>1 DEF WindowInv, Sown
  <2>3. (\E x \in AllWindows : pc'[x] \in {"load", "refresh", "idle"}) => DOMAIN table # {}
    BY <1>1, <1>7, <2>2
  <2>4. (\E x \in AllWindows : pc[x] = "bob") => \E x \in AllWindows : pc'[x] = "bob"
    BY <1>1, <2>1
  <2> QED
    BY <2>2, <2>3, <2>4
<1>8. Sown'
  BY <1>5, <1>6, <1>7 DEF Sown
<1> QED
  BY <1>4, <1>8

\* Users write only where nobody seeds; from then on the samples are theirs.
LEMMA WritingKeeps ==
  ASSUME WindowInv, NEW w \in AllWindows, Windows!Goto(w, "refresh"), pc[w] = "idle",
         writes' = writes + 1, UNCHANGED mishaps
  PROVE  OneSeeds' /\ Sown'
<1>1. pc'[w] = "refresh" /\ \A x \in AllWindows : x # w => pc'[x] = pc[x]
  BY Went DEF Spots
<1>2. \A x \in AllWindows : pc'[x] \in {"alice", "bob"} => pc[x] \in {"alice", "bob"}
  BY <1>1
<1>3. OneSeeds'
  BY <1>2 DEF WindowInv, OneSeeds, Windows!Seeding, Quiet
<1>4. writes' # 0
  BY WindowTypes
<1> QED
  BY <1>3, <1>4 DEF Sown

---------------------------------------------------------------------------
(* The steps of a window *)

LEMMA StartingKeeps ==
  ASSUME WindowInv, NEW w \in AllWindows,
         Windows!Start(w) \/ Windows!StartFails(w) \/ Windows!CreateTable(w)
  PROVE  WindowInv'
<1>0. UNCHANGED <<demo, table, inserts, rows, selected, picked, warned, unseen, writes>>
  BY DEF Windows!Start, Windows!StartFails, Windows!CreateTable, Windows!database
<1>1. PICK spot \in {"create", "count", "idle"} :
        /\ Windows!Goto(w, spot) /\ mishaps \subseteq mishaps' /\ mishaps' \subseteq {"fault", "race"}
        /\ created' \in BOOLEAN /\ (created => created')
        /\ opened' \subseteq AllWindows /\ \A x \in AllWindows : x # w => (x \in opened' <=> x \in opened)
        /\ pc[w] \in {"off", "create", "count", "alice", "bob"}
        /\ spot = "idle" => "fault" \in mishaps'
        /\ spot # "idle" => w \in opened' /\ pc[w] \notin {"alice", "bob"}
  <2>1. CASE Windows!Start(w)
    <3>1. Windows!Goto(w, "create") /\ opened' = opened \cup {w} /\ pc[w] = "off"
          /\ UNCHANGED <<created, mishaps>>
      BY <2>1 DEF Windows!Start, Windows!database
    <3> QED
      BY <3>1, WindowTypes
  <2>2. CASE Windows!StartFails(w)
    <3>1. /\ Windows!Goto(w, "idle") /\ (opened' = opened \/ opened' = opened \ {w})
          /\ mishaps' = mishaps \cup {"fault"} /\ UNCHANGED created
          /\ pc[w] \in {"create", "count", "alice", "bob"}
      BY <2>2 DEF Windows!StartFails, Windows!database
    <3> QED
      BY <3>1, WindowTypes
  <2>3. CASE Windows!CreateTable(w)
    <3>1. /\ Windows!Goto(w, "count") /\ created' = TRUE /\ pc[w] = "create"
          /\ UNCHANGED <<opened, mishaps>>
      BY <2>3 DEF Windows!CreateTable
    <3>2. w \in opened
      BY <3>1 DEF WindowInv, Stations
    <3> QED
      BY <3>1, <3>2, WindowTypes
  <2> QED
    BY <2>1, <2>2, <2>3
<1>2. /\ pc' \in [AllWindows -> Spots]
      /\ pc'[w] = spot /\ \A x \in AllWindows : x # w => pc'[x] = pc[x]
  BY <1>1, Went DEF Spots
<1>3. rows[w] = Windows!Empty /\ w \notin unseen
  BY <1>1 DEF WindowInv, Stations
<1>4. Windows!TypeOK'
  <2>1. /\ demo' \in {"qml", "widget"} /\ Windows!IsRows(table)' /\ inserts' \in 0 .. MaxId
        /\ selected' \in [AllWindows -> 0 .. MaxId] /\ picked' \in [AllWindows -> 0 .. MaxId]
        /\ warned' \subseteq unseen' /\ writes' \in 0 .. MaxWrites
        /\ \A x \in AllWindows : Windows!IsRows(rows[x])'
    BY <1>0 DEF WindowInv, Windows!TypeOK, Windows!IsRows
  <2>2. ~created' => table' = Windows!Empty
    BY <1>0, <1>1, WindowTypes
  <2>3. unseen' \subseteq opened'
    BY <1>0, <1>1, <1>3, WindowTypes
  <2>4. \A x \in AllWindows : rows'[x] # Windows!Empty => x \in opened'
    BY <1>0, <1>1, <1>3, WindowTypes
  <2> QED
    BY <1>1, <1>2, <2>1, <2>2, <2>3, <2>4 DEF Windows!TypeOK, Spots, Windows!Empty
<1>5. Numbered' /\ Aimed'
  BY <1>0, ListsKept
<1>6. Windows!OwnWritesShown'
  BY <1>0, <1>2, <1>3 DEF WindowInv, Windows!OwnWritesShown
<1>7. Stations'
  BY <1>0, <1>1, <1>2, <1>3 DEF WindowInv, Stations, Windows!Empty
<1>8. OneSeeds' /\ Sown'
  BY <1>0, <1>1, SeedsKept DEF Spots
<1> QED
  BY <1>4, <1>5, <1>6, <1>7, <1>8 DEF WindowInv

LEMMA CountKeeps ==
  ASSUME WindowInv, NEW w \in AllWindows, Windows!CountRows(w)
  PROVE  WindowInv'
<1>1. /\ pc[w] = "count" /\ Windows!Goto(w, IF DOMAIN table = {} THEN "alice" ELSE "load")
      /\ mishaps' = IF DOMAIN table = {} /\ Windows!Seeding # {} THEN mishaps \cup {"race"} ELSE mishaps
      /\ UNCHANGED <<demo, created, table, inserts, opened, rows, selected, picked, warned, unseen,
                     writes>>
  BY DEF Windows!CountRows, Windows!TableEmpty, Windows!database
<1>2. PICK spot \in {"alice", "load"} : spot = IF DOMAIN table = {} THEN "alice" ELSE "load"
  OBVIOUS
<1>3. /\ Windows!Goto(w, spot) /\ pc' \in [AllWindows -> Spots]
      /\ pc'[w] = spot /\ \A x \in AllWindows : x # w => pc'[x] = pc[x]
  BY <1>1, <1>2, Went DEF Spots
<1>4. rows[w] = Windows!Empty /\ w \notin unseen /\ w \in opened
  BY <1>1 DEF WindowInv, Stations
<1>5. mishaps \subseteq mishaps' /\ mishaps' \subseteq {"fault", "race"}
  BY <1>1, WindowTypes
<1>6. Windows!TypeOK'
  <2>1. /\ demo' \in {"qml", "widget"} /\ Windows!IsRows(table)' /\ inserts' \in 0 .. MaxId
        /\ created' \in BOOLEAN /\ (~created' => table' = Windows!Empty)
        /\ opened' \subseteq AllWindows /\ unseen' \subseteq opened'
        /\ selected' \in [AllWindows -> 0 .. MaxId] /\ picked' \in [AllWindows -> 0 .. MaxId]
        /\ warned' \subseteq unseen' /\ writes' \in 0 .. MaxWrites
        /\ \A x \in AllWindows : Windows!IsRows(rows[x])' /\ (rows'[x] # Windows!Empty => x \in opened')
    BY <1>1 DEF WindowInv, Windows!TypeOK, Windows!IsRows
  <2> QED
    BY <1>3, <1>5, <2>1 DEF Windows!TypeOK, Spots, Windows!Empty
<1>7. Numbered' /\ Aimed'
  BY <1>1, ListsKept
<1>8. Windows!OwnWritesShown'
  BY <1>1, <1>3, <1>4 DEF WindowInv, Windows!OwnWritesShown
<1>9. Stations'
  BY <1>1, <1>3, <1>4 DEF WindowInv, Stations, Windows!Empty
<1>10. OneSeeds' /\ Sown'
  <2>1. CASE spot = "load"
    <3>1. DOMAIN table # {} /\ UNCHANGED <<table, writes>>
      BY <1>1, <1>2, <2>1
    <3> QED
      BY <1>1, <1>3, <1>5, <2>1, <3>1, SeedsKept DEF Spots
  <2>2. CASE spot = "alice"
    <3>1. DOMAIN table = {}
      BY <1>2, <2>2
    <3>2. Quiet' => Windows!Seeding = {} /\ Quiet /\ mishaps' = mishaps
      BY <1>1, <3>1 DEF Quiet
    <3>3. Quiet' => \A x \in AllWindows : pc'[x] \in {"alice", "bob"} => x = w
      BY <1>3, <3>2 DEF Windows!Seeding
    <3>4. OneSeeds'
      BY <3>3 DEF OneSeeds, Windows!Seeding
    <3>5. \A v : Windows!Samples(v)' = {}
      BY <1>1, <3>1 DEF Windows!Samples
    <3>6. ASSUME Quiet', writes' = 0, "fault" \notin mishaps'
          PROVE  \A x \in AllWindows : pc'[x] \notin {"load", "refresh", "idle"}
      BY <1>1, <1>3, <2>2, <3>1, <3>2, <3>6 DEF WindowInv, Sown
    <3> QED
      BY <1>1, <1>3, <2>2, <3>1, <3>3, <3>4, <3>5, <3>6 DEF Sown
  <2> QED
    BY <2>1, <2>2
<1> QED
  BY <1>6, <1>7, <1>8, <1>9, <1>10 DEF WindowInv

\* An insertion: its number is the id of the new row.
LEMMA Inserted ==
  ASSUME WindowInv, NEW v \in Typed \cup {Alice, Bob}, Windows!Insert(v)
  PROVE  /\ created /\ UNCHANGED created /\ inserts' \in Nat /\ inserts' <= MaxId
         /\ Windows!IsRows(table)' /\ inserts' \notin DOMAIN table
         /\ DOMAIN table' = DOMAIN table \cup {inserts'}
         /\ \A i \in DOMAIN table' : i <= inserts' /\ table'[i].made = i
         /\ \A u : Windows!Samples(u)' =
                     Windows!Samples(u) \cup (IF u = v THEN {inserts'} ELSE {})
<1>1. /\ created /\ inserts < MaxId /\ inserts' = inserts + 1 /\ UNCHANGED created
      /\ table' = [i \in DOMAIN table \cup {inserts + 1} |->
                     IF i = inserts + 1 THEN [is |-> v, made |-> inserts'] ELSE table[i]]
  BY DEF Windows!Insert, Windows!FreshId
<1>2. inserts' \in Nat /\ inserts' <= MaxId /\ inserts' \in 1 .. MaxId /\ inserts' > inserts
  BY <1>1, WindowTypes
<1>3. inserts' \notin DOMAIN table
  <2>1. \A i \in DOMAIN table : i \in Nat /\ i <= inserts
    BY WindowTypes DEF WindowInv, Numbered, Windows!IsRows
  <2> QED
    BY <1>1, <2>1, WindowTypes
<1>4. /\ DOMAIN table' = DOMAIN table \cup {inserts'}
      /\ table'[inserts'] = [is |-> v, made |-> inserts']
      /\ \A i \in DOMAIN table : table'[i] = table[i]
  BY <1>1, <1>3
<1>5. \A i \in DOMAIN table : i \in 1 .. MaxId /\ table[i] \in Windows!Rows
  BY WindowTypes DEF Windows!IsRows
<1>6. [is |-> v, made |-> inserts'] \in Windows!Rows
  BY <1>2 DEF Windows!Rows
<1>7. \A i \in DOMAIN table' : i \in 1 .. MaxId /\ table'[i] \in Windows!Rows
  BY <1>2, <1>4, <1>5, <1>6
<1>8. Windows!IsRows(table)'
  BY <1>7 DEF Windows!IsRows
<1>9. \A i \in DOMAIN table' : i <= inserts' /\ table'[i].made = i
  <2>1. \A i \in DOMAIN table : i <= inserts /\ table[i].made = i
    BY DEF WindowInv, Numbered
  <2>2. \A i \in DOMAIN table : i <= inserts'
    BY <1>2, <1>5, <2>1, WindowTypes
  <2> QED
    BY <1>2, <1>4, <2>1, <2>2
<1>10. ASSUME NEW u
       PROVE  Windows!Samples(u)' = Windows!Samples(u) \cup (IF u = v THEN {inserts'} ELSE {})
  <2>1. \A i : i \in Windows!Samples(u)' <=> i \in DOMAIN table' /\ table'[i].is = u
    BY DEF Windows!Samples
  <2>2. \A i : i \in Windows!Samples(u) <=> i \in DOMAIN table /\ table[i].is = u
    BY DEF Windows!Samples
  <2>3. table'[inserts'].is = v
    BY <1>4
  <2>4. \A i : i \in Windows!Samples(u)' <=>
                 i \in Windows!Samples(u) \cup (IF u = v THEN {inserts'} ELSE {})
    BY <1>3, <1>4, <2>1, <2>2, <2>3
  <2>5. Windows!Samples(u)' \subseteq DOMAIN table' /\ Windows!Samples(u) \subseteq DOMAIN table
    BY DEF Windows!Samples
  <2> QED
    BY <2>4
<1> QED
  BY <1>1, <1>2, <1>3, <1>4, <1>8, <1>9, <1>10

\* The table may change as long as its rows keep their numbers: whoever has a list
\* aims as before.
LEMMA TableChanges ==
  ASSUME WindowInv, UNCHANGED <<demo, rows, selected, picked>>,
         \A i \in DOMAIN table' : i <= inserts' /\ table'[i].made = i
  PROVE  Numbered' /\ Aimed'
<1>1. Numbered'
  BY DEF WindowInv, Numbered
<1>2. Aimed'
  BY AimKept DEF Aimed
<1> QED
  BY <1>1, <1>2

LEMMA SeedingKeeps ==
  ASSUME WindowInv, NEW w \in AllWindows, Windows!SeedAlice(w) \/ Windows!SeedBob(w)
  PROVE  WindowInv'
<1>1. PICK v \in {Alice, Bob}, spot \in {"bob", "load"} :
        /\ Windows!Insert(v) /\ Windows!Goto(w, spot)
        /\ pc[w] = IF v = Alice THEN "alice" ELSE "bob"
        /\ spot = IF v = Alice THEN "bob" ELSE "load"
  BY WindowTypes DEF Windows!SeedAlice, Windows!SeedBob
<1>2. UNCHANGED <<demo, opened, rows, selected, picked, warned, unseen, writes, mishaps>>
  BY DEF Windows!SeedAlice, Windows!SeedBob
<1>3. /\ pc' \in [AllWindows -> Spots]
      /\ pc'[w] = spot /\ \A x \in AllWindows : x # w => pc'[x] = pc[x]
  BY <1>1, Went DEF Spots
<1>4. rows[w] = Windows!Empty /\ w \notin unseen /\ w \in opened /\ pc[w] \in {"alice", "bob"}
  BY <1>1 DEF WindowInv, Stations
<1>5. /\ created /\ UNCHANGED created /\ inserts' \in Nat /\ inserts' <= MaxId
      /\ Windows!IsRows(table)' /\ inserts' \notin DOMAIN table
      /\ DOMAIN table' = DOMAIN table \cup {inserts'}
      /\ \A i \in DOMAIN table' : i <= inserts' /\ table'[i].made = i
      /\ \A u : Windows!Samples(u)' = Windows!Samples(u) \cup (IF u = v THEN {inserts'} ELSE {})
  BY <1>1, Inserted
<1>6. Windows!TypeOK'
  <2>1. /\ demo' \in {"qml", "widget"}
        /\ opened' \subseteq AllWindows /\ unseen' \subseteq opened'
        /\ selected' \in [AllWindows -> 0 .. MaxId] /\ picked' \in [AllWindows -> 0 .. MaxId]
        /\ warned' \subseteq unseen' /\ writes' \in 0 .. MaxWrites /\ mishaps' \subseteq {"fault", "race"}
        /\ \A x \in AllWindows : Windows!IsRows(rows[x])' /\ (rows'[x] # Windows!Empty => x \in opened')
    BY <1>2 DEF WindowInv, Windows!TypeOK, Windows!IsRows
  <2>2. inserts' \in 0 .. MaxId /\ created' \in BOOLEAN /\ created'
    BY <1>5, WindowTypes
  <2> QED
    BY <1>3, <1>5, <2>1, <2>2 DEF Windows!TypeOK, Spots, Windows!Empty
<1>7. Numbered' /\ Aimed'
  BY <1>2, <1>5, TableChanges
<1>8. Windows!OwnWritesShown'
  BY <1>2, <1>3, <1>4 DEF WindowInv, Windows!OwnWritesShown
<1>9. Stations'
  BY <1>1, <1>2, <1>3, <1>4 DEF WindowInv, Stations, Windows!Empty
<1>10. \A x \in AllWindows : pc'[x] \in {"alice", "bob"} => pc[x] \in {"alice", "bob"}
  BY <1>3, <1>4
<1>11. OneSeeds'
  BY <1>2, <1>10 DEF WindowInv, OneSeeds, Windows!Seeding, Quiet
<1>12. Sown'
  <2> SUFFICES ASSUME Quiet', writes' = 0
               PROVE  /\ \A u \in {Alice, Bob} : \A i, j \in Windows!Samples(u)' : i = j
                      /\ \A x \in AllWindows : pc'[x] = "alice" => DOMAIN table' = {}
                      /\ \A x \in AllWindows :
                           pc'[x] = "bob" => Windows!Samples(Alice)' # {} /\ Windows!Samples(Bob)' = {}
                      /\ "fault" \notin mishaps' =>
                           /\ (\E x \in AllWindows : pc'[x] \in {"load", "refresh", "idle"})
                                => DOMAIN table' # {}
                           /\ DOMAIN table' # {} =>
                                \/ \E x \in AllWindows : pc'[x] = "bob"
                                \/ Windows!Samples(Alice)' # {} /\ Windows!Samples(Bob)' # {}
    BY DEF Sown
  <2>1. Quiet /\ writes = 0
    BY <1>2 DEF Quiet
  <2>2. \A x \in AllWindows : x # w => pc'[x] \notin {"alice", "bob"}
    BY <1>3, <1>4, <2>1 DEF WindowInv, OneSeeds, Windows!Seeding
  <2>3. Alice # Bob
    BY WindowTypes
  <2>4. DOMAIN table' # {}
    BY <1>5
  <2>5. CASE v = Alice
    <3>1. DOMAIN table = {} /\ spot = "bob"
      BY <1>1, <2>1, <2>5 DEF WindowInv, Sown
    <3>2. Windows!Samples(Alice) = {} /\ Windows!Samples(Bob) = {}
      BY <3>1 DEF Windows!Samples
    <3>3. Windows!Samples(Alice)' = {inserts'} /\ Windows!Samples(Bob)' = {}
      BY <1>5, <2>3, <2>5, <3>2
    <3> QED
      BY <1>3, <2>2, <2>4, <3>1, <3>3
  <2>6. CASE v = Bob
    <3>1. pc[w] = "bob" /\ spot = "load"
      BY <1>1, <2>3, <2>6
    <3>2. /\ Windows!Samples(Alice) # {} /\ Windows!Samples(Bob) = {}
          /\ \A i, j \in Windows!Samples(Alice) : i = j
      BY <2>1, <3>1 DEF WindowInv, Sown
    <3>3. Windows!Samples(Alice)' = Windows!Samples(Alice) /\ Windows!Samples(Bob)' = {inserts'}
      BY <1>5, <2>3, <2>6, <3>2
    <3> QED
      BY <1>3, <2>2, <2>4, <3>1, <3>2, <3>3
  <2> QED
    BY <2>5, <2>6
<1> QED
  BY <1>6, <1>7, <1>8, <1>9, <1>11, <1>12 DEF WindowInv

LEMMA LoadKeeps ==
  ASSUME WindowInv, NEW w \in AllWindows, Windows!Load(w)
  PROVE  WindowInv'
<1>1. /\ pc[w] \in {"load", "refresh"} /\ rows' = [rows EXCEPT ![w] = table]
      /\ IF demo = "widget" \/ pc[w] = "refresh" THEN Windows!Deselect(w)
         ELSE UNCHANGED <<selected, picked>>
      /\ Windows!Goto(w, "idle") /\ warned' = warned \ {w} /\ unseen' = unseen \ {w}
      /\ UNCHANGED <<demo, created, table, inserts, opened, writes, mishaps>>
  BY DEF Windows!Load, Windows!AfterLoad, Windows!Reassure, Windows!Selection, Windows!database
<1>2. /\ pc' \in [AllWindows -> Spots]
      /\ pc'[w] = "idle" /\ \A x \in AllWindows : x # w => pc'[x] = pc[x]
  BY <1>1, Went DEF Spots
<1>3. w \in opened
  BY <1>1 DEF WindowInv, Stations
<1>4. DOMAIN rows' = AllWindows /\ \A x \in AllWindows : rows'[x] = IF x = w THEN table ELSE rows[x]
  BY <1>1, WindowTypes
<1>5. /\ selected' \in [AllWindows -> 0 .. MaxId] /\ picked' \in [AllWindows -> 0 .. MaxId]
      /\ \A x \in AllWindows : x # w => selected'[x] = selected[x] /\ picked'[x] = picked[x]
      /\ \/ selected'[w] = 0
         \/ demo = "qml" /\ selected'[w] = selected[w] /\ picked'[w] = picked[w]
  <2>1. CASE demo = "widget" \/ pc[w] = "refresh"
    BY <1>1, <2>1, Deselected
  <2>2. CASE ~(demo = "widget" \/ pc[w] = "refresh")
    BY <1>1, <2>2, WindowTypes
  <2> QED
    BY <2>1, <2>2
<1>6. Windows!TypeOK'
  <2>1. /\ demo' \in {"qml", "widget"} /\ Windows!IsRows(table)' /\ inserts' \in 0 .. MaxId
        /\ created' \in BOOLEAN /\ (~created' => table' = Windows!Empty)
        /\ writes' \in 0 .. MaxWrites /\ mishaps' \subseteq {"fault", "race"}
    BY <1>1 DEF WindowInv, Windows!TypeOK, Windows!IsRows
  <2>2. opened' \subseteq AllWindows /\ unseen' \subseteq opened' /\ warned' \subseteq unseen'
    BY <1>1, WindowTypes
  <2>3. \A x \in AllWindows : Windows!IsRows(rows'[x]) /\ (rows'[x] # Windows!Empty => x \in opened')
    BY <1>1, <1>3, <1>4, WindowTypes
  <2> QED
    BY <1>2, <1>5, <2>1, <2>2, <2>3 DEF Windows!TypeOK, Spots, Windows!Empty, Windows!IsRows
<1>7. Numbered'
  BY <1>1, <1>4 DEF WindowInv, Numbered
<1>8. Aimed'
  BY <1>1, <1>4, <1>5, AimKept DEF Aimed
<1>9. Windows!OwnWritesShown'
  BY <1>1, <1>2 DEF WindowInv, Windows!OwnWritesShown
<1>10. Stations'
  BY <1>1, <1>2, <1>4 DEF WindowInv, Stations, Windows!Empty
<1>11. OneSeeds' /\ Sown'
  BY <1>1, SeedsKept DEF Spots
<1> QED
  BY <1>6, <1>7, <1>8, <1>9, <1>10, <1>11 DEF WindowInv

LEMMA LoadFailsKeeps ==
  ASSUME WindowInv, NEW w \in AllWindows, Windows!LoadFails(w)
  PROVE  WindowInv'
<1>1. /\ pc[w] \in {"load", "refresh"}
      /\ IF w \in unseen /\ ~(pc[w] = "refresh" /\ demo = "qml") THEN warned' = warned \cup {w}
         ELSE UNCHANGED warned
      /\ IF demo = "qml" /\ pc[w] = "refresh" THEN Windows!Deselect(w)
         ELSE UNCHANGED <<selected, picked>>
      /\ Windows!Goto(w, "idle") /\ mishaps' = mishaps \cup {"fault"}
      /\ UNCHANGED <<demo, created, table, inserts, opened, rows, unseen, writes>>
  BY DEF Windows!LoadFails, Windows!Reassured, Windows!Warn, Windows!Selection, Windows!database
<1>2. /\ pc' \in [AllWindows -> Spots]
      /\ pc'[w] = "idle" /\ \A x \in AllWindows : x # w => pc'[x] = pc[x]
  BY <1>1, Went DEF Spots
<1>3. /\ selected' \in [AllWindows -> 0 .. MaxId] /\ picked' \in [AllWindows -> 0 .. MaxId]
      /\ \A x \in AllWindows : x # w => selected'[x] = selected[x] /\ picked'[x] = picked[x]
      /\ selected'[w] = 0 \/ (selected'[w] = selected[w] /\ picked'[w] = picked[w])
  <2>1. CASE demo = "qml" /\ pc[w] = "refresh"
    BY <1>1, <2>1, Deselected
  <2>2. CASE ~(demo = "qml" /\ pc[w] = "refresh")
    BY <1>1, <2>2, WindowTypes
  <2> QED
    BY <2>1, <2>2
<1>4. mishaps' \subseteq {"fault", "race"} /\ warned \subseteq warned' /\ warned' \subseteq unseen'
  BY <1>1, WindowTypes
<1>5. Windows!TypeOK'
  <2>1. /\ demo' \in {"qml", "widget"} /\ Windows!IsRows(table)' /\ inserts' \in 0 .. MaxId
        /\ created' \in BOOLEAN /\ (~created' => table' = Windows!Empty)
        /\ opened' \subseteq AllWindows /\ unseen' \subseteq opened' /\ writes' \in 0 .. MaxWrites
        /\ \A x \in AllWindows : Windows!IsRows(rows[x])' /\ (rows'[x] # Windows!Empty => x \in opened')
    BY <1>1 DEF WindowInv, Windows!TypeOK, Windows!IsRows
  <2> QED
    BY <1>2, <1>3, <1>4, <2>1 DEF Windows!TypeOK, Spots, Windows!Empty
<1>6. Numbered'
  BY <1>1 DEF WindowInv, Numbered
<1>7. Aimed'
  BY <1>1, <1>3, AimKept DEF Aimed
<1>8. Windows!OwnWritesShown'
  <2> SUFFICES ASSUME NEW x \in AllWindows, x \in unseen', pc'[x] = "idle", demo' = "widget"
               PROVE  x \in warned'
    BY DEF Windows!OwnWritesShown
  <2>1. CASE x = w
    BY <1>1, <2>1
  <2>2. CASE x # w
    BY <1>1, <1>2, <1>4, <2>2 DEF WindowInv, Windows!OwnWritesShown
  <2> QED
    BY <2>1, <2>2
<1>9. Stations'
  BY <1>1, <1>2 DEF WindowInv, Stations, Windows!Empty
<1>10. OneSeeds' /\ Sown'
  BY <1>1, SeedsKept DEF Spots
<1> QED
  BY <1>5, <1>6, <1>7, <1>8, <1>9, <1>10 DEF WindowInv

LEMMA ExitKeeps ==
  ASSUME WindowInv, NEW w \in AllWindows, Windows!Exit(w)
  PROVE  WindowInv'
<1>1. /\ pc[w] # "off" /\ Windows!Goto(w, "off") /\ Windows!Deselect(w)
      /\ warned' = warned \ {w} /\ rows' = [rows EXCEPT ![w] = Windows!Empty]
      /\ opened' = opened \ {w} /\ unseen' = unseen \ {w}
      /\ mishaps' = IF w \in Windows!Seeding THEN mishaps \cup {"fault"} ELSE mishaps
      /\ UNCHANGED <<demo, created, table, inserts, writes>>
  BY DEF Windows!Exit, Windows!Reassure, Windows!database
<1>2. /\ pc' \in [AllWindows -> Spots]
      /\ pc'[w] = "off" /\ \A x \in AllWindows : x # w => pc'[x] = pc[x]
  BY <1>1, Went DEF Spots
<1>3. /\ selected' \in [AllWindows -> 0 .. MaxId] /\ picked' \in [AllWindows -> 0 .. MaxId]
      /\ \A x \in AllWindows : x # w => selected'[x] = selected[x] /\ picked'[x] = picked[x]
      /\ selected'[w] = 0
  BY <1>1, Deselected
<1>4. /\ DOMAIN rows' = AllWindows
      /\ \A x \in AllWindows : rows'[x] = IF x = w THEN Windows!Empty ELSE rows[x]
  BY <1>1, WindowTypes
<1>5. DOMAIN Windows!Empty = {}
  BY DEF Windows!Empty
<1>6. /\ mishaps \subseteq mishaps' /\ mishaps' \subseteq {"fault", "race"}
      /\ pc[w] \in {"alice", "bob"} => "fault" \in mishaps'
  BY <1>1, WindowTypes DEF Windows!Seeding
<1>7. Windows!TypeOK'
  <2>1. /\ demo' \in {"qml", "widget"} /\ Windows!IsRows(table)' /\ inserts' \in 0 .. MaxId
        /\ created' \in BOOLEAN /\ (~created' => table' = Windows!Empty) /\ writes' \in 0 .. MaxWrites
    BY <1>1 DEF WindowInv, Windows!TypeOK, Windows!IsRows
  <2>2. opened' \subseteq AllWindows /\ unseen' \subseteq opened' /\ warned' \subseteq unseen'
    BY <1>1, WindowTypes
  <2>3. Windows!IsRows(Windows!Empty)
    BY <1>5 DEF Windows!IsRows
  <2>4. \A x \in AllWindows : Windows!IsRows(rows'[x]) /\ (rows'[x] # Windows!Empty => x \in opened')
    BY <1>1, <1>4, <2>3, WindowTypes
  <2> QED
    BY <1>2, <1>3, <1>6, <2>1, <2>2, <2>4 DEF Windows!TypeOK, Spots, Windows!Empty, Windows!IsRows
<1>8. Numbered'
  BY <1>1, <1>4, <1>5 DEF WindowInv, Numbered
<1>9. Aimed'
  BY <1>1, <1>3, <1>4, AimKept DEF Aimed
<1>10. Windows!OwnWritesShown'
  BY <1>1, <1>2 DEF WindowInv, Windows!OwnWritesShown
<1>11. Stations'
  BY <1>1, <1>2, <1>4 DEF WindowInv, Stations, Windows!Empty
<1>12. OneSeeds' /\ Sown'
  BY <1>1, <1>6, SeedsKept DEF Spots
<1> QED
  BY <1>7, <1>8, <1>9, <1>10, <1>11, <1>12 DEF WindowInv

\* The user selects a row: its id, which is the insertion that he means.
LEMMA SelectKeeps ==
  ASSUME WindowInv, NEW w \in AllWindows, Windows!Select(w)
  PROVE  WindowInv'
<1>1. UNCHANGED <<demo, created, table, inserts, pc, opened, rows, warned, unseen, writes, mishaps>>
  BY DEF Windows!Select, Windows!database
<1>2. PICK n \in 1 .. Windows!Cardinality(DOMAIN rows[w]) :
        /\ selected' = [selected EXCEPT ![w] = IF demo = "qml" THEN Windows!RowId(w, n) ELSE n]
        /\ picked' = [picked EXCEPT ![w] = rows[w][Windows!RowId(w, n)].made]
  BY DEF Windows!Select
<1>3. PICK id : id = Windows!RowId(w, n)
  OBVIOUS
<1>4. id = Nth(DOMAIN rows[w], n)
  BY <1>3 DEF Windows!RowId, Nth
<1>5. DOMAIN rows[w] \in SUBSET (1 .. MaxId) /\ MaxId \in Nat
  BY WindowTypes DEF Windows!IsRows
<1>6. id \in DOMAIN rows[w] /\ n <= MaxId
  BY <1>4, <1>5, NthIsThere
<1>7. n \in Int /\ n >= 1
  OBVIOUS
<1>8. id \in 0 .. MaxId /\ n \in 0 .. MaxId /\ id # 0
  BY <1>5, <1>6, <1>7
<1>9. rows[w][id].made = id
  BY <1>6 DEF WindowInv, Numbered
<1>10. selected' = [selected EXCEPT ![w] = IF demo = "qml" THEN id ELSE n]
  BY <1>2, <1>3
<1>11. picked' = [picked EXCEPT ![w] = id]
  BY <1>2, <1>3, <1>9
<1>12. selected' \in [AllWindows -> 0 .. MaxId]
  BY <1>8, <1>10, WindowTypes
<1>13. picked' \in [AllWindows -> 0 .. MaxId]
  BY <1>8, <1>11, WindowTypes
<1>14. /\ selected'[w] = (IF demo = "qml" THEN id ELSE n) /\ picked'[w] = id
       /\ \A x \in AllWindows : x # w => selected'[x] = selected[x] /\ picked'[x] = picked[x]
  BY <1>10, <1>11, WindowTypes
<1>15. Windows!Aim(w)' = picked'[w]
  <2>1. Windows!Aim(w)' = AimIn(demo, rows[w], selected'[w])
    BY <1>1, AimOf
  <2>2. CASE demo = "qml"
    BY <1>14, <2>1, <2>2 DEF AimIn
  <2>3. CASE demo # "qml"
    <3>1. selected'[w] = n
      BY <1>14, <2>3
    <3>2. AimIn(demo, rows[w], n) = Nth(DOMAIN rows[w], n)
      BY <2>3, Zenon DEF AimIn
    <3> QED
      BY <1>4, <1>14, <2>1, <3>1, <3>2, Zenon
  <2> QED
    BY <2>2, <2>3
<1>16. Windows!TypeOK'
  BY <1>1, <1>12, <1>13 DEF WindowInv, Windows!TypeOK, Windows!IsRows
<1>17. Numbered'
  BY <1>1 DEF WindowInv, Numbered
<1>18. Aimed'
  BY <1>1, <1>14, <1>15, AimKept DEF Aimed
<1>19. Windows!OwnWritesShown' /\ Stations'
  BY <1>1 DEF WindowInv, Windows!OwnWritesShown, Stations, Windows!Empty
<1>20. OneSeeds' /\ Sown'
  BY <1>1 DEF WindowInv, OneSeeds, Sown, Quiet, Windows!Seeding, Windows!Samples
<1> QED
  BY <1>16, <1>17, <1>18, <1>19, <1>20 DEF WindowInv

LEMMA ClearKeeps ==
  ASSUME WindowInv, NEW w \in AllWindows, Windows!Clear(w)
  PROVE  WindowInv'
<1>1. /\ Windows!Deselect(w)
      /\ UNCHANGED <<demo, created, table, inserts, pc, opened, rows, warned, unseen, writes, mishaps>>
  BY DEF Windows!Clear, Windows!database
<1>2. /\ selected' \in [AllWindows -> 0 .. MaxId] /\ picked' \in [AllWindows -> 0 .. MaxId]
      /\ \A x \in AllWindows : x # w => selected'[x] = selected[x] /\ picked'[x] = picked[x]
      /\ selected'[w] = 0
  BY <1>1, Deselected
<1>3. Windows!TypeOK'
  BY <1>1, <1>2 DEF WindowInv, Windows!TypeOK, Windows!IsRows
<1>4. Numbered'
  BY <1>1 DEF WindowInv, Numbered
<1>5. Aimed'
  BY <1>1, <1>2, AimKept DEF Aimed
<1>6. Windows!OwnWritesShown' /\ Stations'
  BY <1>1 DEF WindowInv, Windows!OwnWritesShown, Stations, Windows!Empty
<1>7. OneSeeds' /\ Sown'
  BY <1>1 DEF WindowInv, OneSeeds, Sown, Quiet, Windows!Seeding, Windows!Samples
<1> QED
  BY <1>3, <1>4, <1>5, <1>6, <1>7 DEF WindowInv

LEMMA NothingKeeps ==
  ASSUME WindowInv, UNCHANGED Windows!vars
  PROVE  WindowInv'
<1>1. UNCHANGED <<demo, created, table, inserts, pc, opened, rows, selected, picked, warned, unseen,
                  writes, mishaps>>
  BY DEF Windows!vars, Windows!database
<1>2. Windows!TypeOK'
  BY <1>1 DEF WindowInv, Windows!TypeOK, Windows!IsRows
<1>3. Numbered' /\ Aimed'
  BY <1>1, ListsKept
<1>4. Windows!OwnWritesShown' /\ Stations'
  BY <1>1 DEF WindowInv, Windows!OwnWritesShown, Stations, Windows!Empty
<1>5. OneSeeds' /\ Sown'
  BY <1>1 DEF WindowInv, OneSeeds, Sown, Quiet, Windows!Seeding, Windows!Samples
<1> QED
  BY <1>2, <1>3, <1>4, <1>5 DEF WindowInv

LEMMA ReloadKeeps ==
  ASSUME WindowInv, NEW w \in AllWindows, Windows!Reload(w)
  PROVE  WindowInv'
<1>1. /\ pc[w] = "idle" /\ demo = "qml"
      /\ IF w \in opened THEN Windows!Goto(w, "load") ELSE UNCHANGED pc
      /\ UNCHANGED <<demo, created, table, inserts, opened, rows, selected, picked, warned, unseen,
                     writes, mishaps>>
  BY DEF Windows!Reload, Windows!database
<1>2. CASE w \notin opened
  <2>1. UNCHANGED Windows!vars
    BY <1>1, <1>2 DEF Windows!vars, Windows!database
  <2> QED
    BY <2>1, NothingKeeps
<1>3. CASE w \in opened
  <2>1. /\ Windows!Goto(w, "load") /\ pc' \in [AllWindows -> Spots]
        /\ pc'[w] = "load" /\ \A x \in AllWindows : x # w => pc'[x] = pc[x]
    BY <1>1, <1>3, Went DEF Spots
  <2>2. Windows!TypeOK'
    BY <1>1, <2>1 DEF WindowInv, Windows!TypeOK, Windows!IsRows, Spots
  <2>3. Numbered' /\ Aimed'
    BY <1>1, ListsKept
  <2>4. Windows!OwnWritesShown'
    BY <1>1, <2>1 DEF WindowInv, Windows!OwnWritesShown
  <2>5. Stations'
    BY <1>1, <1>3, <2>1 DEF WindowInv, Stations, Windows!Empty
  <2>6. OneSeeds' /\ Sown'
    BY <1>1, <2>1, SeedsKept DEF Spots
  <2> QED
    BY <2>2, <2>3, <2>4, <2>5, <2>6 DEF WindowInv
<1> QED
  BY <1>2, <1>3

\* A write of a user, whatever it does to the rows that are already there.
LEMMA WroteKeeps ==
  ASSUME WindowInv, NEW w \in AllWindows, Windows!Wrote(w), pc[w] = "idle",
         created, UNCHANGED created, Windows!IsRows(table)', inserts' \in 0 .. MaxId,
         \A i \in DOMAIN table' : i <= inserts' /\ table'[i].made = i
  PROVE  WindowInv'
<1>1. /\ w \in opened /\ writes < MaxWrites /\ writes' = writes + 1
      /\ unseen' = unseen \cup {w} /\ warned' = warned \ {w} /\ Windows!Goto(w, "refresh")
      /\ UNCHANGED <<demo, opened, rows, selected, picked, mishaps>>
  BY DEF Windows!Wrote, Windows!Reassure
<1>2. /\ pc' \in [AllWindows -> Spots]
      /\ pc'[w] = "refresh" /\ \A x \in AllWindows : x # w => pc'[x] = pc[x]
  BY <1>1, Went DEF Spots
<1>3. Windows!TypeOK'
  <2>1. /\ demo' \in {"qml", "widget"} /\ created' \in BOOLEAN /\ created'
        /\ opened' \subseteq AllWindows /\ mishaps' \subseteq {"fault", "race"}
        /\ selected' \in [AllWindows -> 0 .. MaxId] /\ picked' \in [AllWindows -> 0 .. MaxId]
        /\ \A x \in AllWindows : Windows!IsRows(rows[x])' /\ (rows'[x] # Windows!Empty => x \in opened')
    BY <1>1 DEF WindowInv, Windows!TypeOK, Windows!IsRows
  <2>2. unseen' \subseteq opened' /\ warned' \subseteq unseen'
    BY <1>1, WindowTypes
  <2>3. writes' \in 0 .. MaxWrites
    BY <1>1, WindowTypes
  <2> QED
    BY <1>2, <2>1, <2>2, <2>3 DEF Windows!TypeOK, Spots, Windows!Empty
<1>4. Numbered' /\ Aimed'
  BY <1>1, TableChanges
<1>5. Windows!OwnWritesShown'
  BY <1>1, <1>2 DEF WindowInv, Windows!OwnWritesShown
<1>6. Stations'
  BY <1>1, <1>2 DEF WindowInv, Stations, Windows!Empty
<1>7. OneSeeds' /\ Sown'
  BY <1>1, WritingKeeps
<1> QED
  BY <1>3, <1>4, <1>5, <1>6, <1>7 DEF WindowInv

LEMMA WritesKeep ==
  ASSUME WindowInv, NEW w \in AllWindows, Windows!Add(w) \/ Windows!Update(w) \/ Windows!Delete(w)
  PROVE  WindowInv'
<1>0. /\ \A i \in DOMAIN table : i \in 1 .. MaxId /\ table[i] \in Windows!Rows
      /\ \A i \in DOMAIN table : i <= inserts /\ table[i].made = i
      /\ inserts \in 0 .. MaxId
  BY WindowTypes DEF WindowInv, Numbered, Windows!IsRows
<1>1. ASSUME DOMAIN table # {} PROVE created
  BY <1>1, WindowTypes DEF Windows!Empty
<1>2. CASE Windows!Add(w)
  <2>1. PICK v \in Typed : Windows!Insert(v) /\ Windows!Wrote(w) /\ pc[w] = "idle"
    BY <1>2 DEF Windows!Add
  <2>2. /\ created /\ UNCHANGED created /\ inserts' \in Nat /\ inserts' <= MaxId
        /\ Windows!IsRows(table)' /\ \A i \in DOMAIN table' : i <= inserts' /\ table'[i].made = i
    BY <2>1, Inserted
  <2>3. inserts' \in 0 .. MaxId
    BY <2>2, WindowTypes
  <2> QED
    BY <2>1, <2>2, <2>3, WroteKeeps
<1>3. CASE Windows!Update(w)
  <2>1. PICK v \in Typed : Windows!Change(Windows!Aim(w), v) /\ Windows!Wrote(w) /\ pc[w] = "idle"
    BY <1>3 DEF Windows!Update
  <2>2. PICK id \in DOMAIN table :
          table' = [table EXCEPT ![id].is = v] /\ UNCHANGED <<created, inserts>>
    BY <2>1 DEF Windows!Change
  <2>3. /\ DOMAIN table' = DOMAIN table
        /\ \A i \in DOMAIN table : table'[i] = IF i = id THEN [table[id] EXCEPT !.is = v] ELSE table[i]
    BY <2>2
  <2>4. /\ [table[id] EXCEPT !.is = v] \in Windows!Rows
        /\ [table[id] EXCEPT !.is = v].made = table[id].made
    BY <1>0 DEF Windows!Rows
  <2>5. \A i \in DOMAIN table' : table'[i] \in Windows!Rows /\ i <= inserts' /\ table'[i].made = i
    BY <1>0, <2>2, <2>3, <2>4
  <2>6. Windows!IsRows(table)'
    BY <1>0, <2>3, <2>5 DEF Windows!IsRows
  <2> QED
    BY <1>0, <1>1, <2>1, <2>2, <2>5, <2>6, WroteKeeps
<1>4. CASE Windows!Delete(w)
  <2>1. Windows!Remove(Windows!Aim(w)) /\ Windows!Wrote(w) /\ pc[w] = "idle"
    BY <1>4 DEF Windows!Delete
  <2>2. PICK id \in DOMAIN table :
          table' = [i \in DOMAIN table \ {id} |-> table[i]] /\ UNCHANGED <<created, inserts>>
    BY <2>1 DEF Windows!Remove
  <2>3. DOMAIN table' = DOMAIN table \ {id} /\ \A i \in DOMAIN table' : table'[i] = table[i]
    BY <2>2
  <2>4. \A i \in DOMAIN table' : table'[i] \in Windows!Rows /\ i <= inserts' /\ table'[i].made = i
    BY <1>0, <2>2, <2>3
  <2>5. Windows!IsRows(table)'
    BY <1>0, <2>3, <2>4 DEF Windows!IsRows
  <2> QED
    BY <1>0, <1>1, <2>1, <2>2, <2>4, <2>5, WroteKeeps
<1> QED
  BY <1>2, <1>3, <1>4

LEMMA WindowsStart == Windows!Init => WindowInv
<1> SUFFICES ASSUME Windows!Init PROVE WindowInv
  OBVIOUS
<1>1. /\ MaxId \in Nat /\ MaxWrites \in Nat
      /\ demo \in {"qml", "widget"} /\ created = FALSE /\ table = Windows!Empty /\ inserts = 0
      /\ opened = {} /\ warned = {} /\ unseen = {} /\ writes = 0 /\ mishaps = {}
  BY PartsAssumption DEF Windows!WindowsAssumption, Windows!Init
<1>2. pc = [w \in AllWindows |-> "off"]
  BY DEF Windows!Init
<1>3. pc \in [AllWindows -> Spots] /\ \A w \in AllWindows : pc[w] = "off"
  BY <1>2 DEF Spots
<1>4. rows = [w \in AllWindows |-> Windows!Empty]
  BY DEF Windows!Init
<1>5. DOMAIN rows = AllWindows /\ \A w \in AllWindows : rows[w] = Windows!Empty
  BY <1>4
<1>6. DOMAIN Windows!Empty = {}
  BY DEF Windows!Empty
<1>7. selected = [w \in AllWindows |-> 0]
  BY DEF Windows!Init
<1>8. picked = [w \in AllWindows |-> 0]
  BY DEF Windows!Init
<1>9. selected \in [AllWindows -> 0 .. MaxId] /\ \A w \in AllWindows : selected[w] = 0
  BY <1>1, <1>7
<1>10. picked \in [AllWindows -> 0 .. MaxId]
  BY <1>1, <1>8
<1>11. Windows!TypeOK
  <2>1. Windows!IsRows(Windows!Empty)
    BY <1>6 DEF Windows!IsRows
  <2>2. \A w \in AllWindows : Windows!IsRows(rows[w]) /\ (rows[w] # Windows!Empty => w \in opened)
    BY <1>5, <2>1
  <2>3. inserts \in 0 .. MaxId /\ writes \in 0 .. MaxWrites /\ created \in BOOLEAN
    <3>1. inserts = 0 /\ writes = 0 /\ MaxId \in Nat /\ MaxWrites \in Nat /\ created = FALSE
      BY <1>1, Zenon
    <3>2. 0 \in 0 .. MaxId /\ 0 \in 0 .. MaxWrites
      BY <3>1
    <3> QED
      BY <3>1, <3>2, Zenon
  <2>4. /\ mishaps \subseteq {"fault", "race"}
        /\ opened \subseteq AllWindows /\ unseen \subseteq opened /\ warned \subseteq unseen
    BY <1>1, Zenon
  <2>5. Windows!IsRows(table)
    BY <1>1, <2>1
  <2> QED
    BY <1>1, <1>3, <1>9, <1>10, <2>2, <2>3, <2>4, <2>5 DEF Windows!TypeOK, Spots
<1>12. Numbered
  BY <1>1, <1>5, <1>6 DEF Numbered
<1>13. Aimed
  BY <1>9, AimOf, AimNone DEF Aimed
<1>14. Windows!OwnWritesShown /\ Stations
  BY <1>1, <1>3, <1>5 DEF Windows!OwnWritesShown, Stations
<1>15. OneSeeds /\ Sown
  BY <1>1, <1>3, <1>6 DEF OneSeeds, Sown, Windows!Seeding, Windows!Samples
<1> QED
  BY <1>11, <1>12, <1>13, <1>14, <1>15 DEF WindowInv

\* What every list, every selection and the samples rest on, for any number of
\* windows of either demo, any interleaving of their statements and any faults.
THEOREM WindowInvariance == Windows!Spec => []WindowInv
<1>1. WindowInv /\ [Windows!Next]_(Windows!vars) => WindowInv'
  <2> SUFFICES ASSUME WindowInv, [Windows!Next]_(Windows!vars) PROVE WindowInv'
    OBVIOUS
  <2>1. CASE UNCHANGED Windows!vars
    BY <2>1, NothingKeeps
  <2>2. ASSUME NEW w \in AllWindows,
               \/ Windows!Starting(w) \/ Windows!Load(w) \/ Windows!LoadFails(w)
               \/ Windows!Using(w) \/ Windows!Exit(w)
        PROVE  WindowInv'
    <3>1. CASE Windows!Starting(w)
      BY <3>1, StartingKeeps, CountKeeps, SeedingKeeps DEF Windows!Starting
    <3>2. CASE Windows!Using(w)
      <4>1. CASE Windows!Refused(w)
        BY <4>1, NothingKeeps DEF Windows!Refused
      <4> QED
        BY <3>2, <4>1, SelectKeeps, ClearKeeps, ReloadKeeps, WritesKeep DEF Windows!Using
    <3> QED
      BY <2>2, <3>1, <3>2, LoadKeeps, LoadFailsKeeps, ExitKeeps
  <2> QED
    BY <2>1, <2>2 DEF Windows!Next
<1> QED
  BY <1>1, WindowsStart, PTL DEF Windows!Spec

---------------------------------------------------------------------------
(* The composition *)

\* The composition implements each part.
THEOREM PartsSpec == MCSpec => Spec /\ Windows!Spec
<1>1. MCInit => Init /\ Windows!Init
  BY DEF MCInit
<1>2. ASSUME [MCNext]_<<vars, windowVars, part>>
      PROVE  [Next]_vars /\ [Windows!Next]_(Windows!vars)
  BY <1>2 DEF MCNext, windowVars, Windows!vars, Windows!database
<1> QED
  BY <1>1, <1>2, PTL DEF MCSpec, Spec, Windows!Spec

\* The type invariants of both, where both run.
THEOREM TypesCorrect == MCSpec => []TypesOK
<1>1. IInv /\ WindowInv => TypesOK
  BY DEF IInv, WindowInv, TypesOK
<1> QED
  BY <1>1, PartsSpec, Invariance, WindowInvariance, PTL

\* Update and Delete of a window reach nobody but the student whose row the user
\* selected, however old its list is; and MainWindow tells when it does not show
\* what it has written itself.
THEOREM TruthTold == MCSpec => []WindowsTellTruth
<1>1. WindowInv => WindowsTellTruth
  <2> SUFFICES ASSUME WindowInv, NEW w \in AllWindows, Windows!Aim(w) \in DOMAIN table
               PROVE  table[Windows!Aim(w)].made = picked[w]
    BY DEF WindowInv, WindowsTellTruth, Windows!WindowsTellTruth, Windows!AimsRight
  <2>1. PICK id : id = Windows!Aim(w)
    OBVIOUS
  <2>2. id \in DOMAIN table /\ id # 0
    BY <2>1, WindowTypes DEF Windows!IsRows
  <2>3. id = picked[w] /\ table[id].made = id
    BY <2>1, <2>2 DEF WindowInv, Aimed, Numbered
  <2> QED
    BY <2>1, <2>3
<1> QED
  BY <1>1, PartsSpec, WindowInvariance, PTL

\* seedIfEmpty puts both samples into an empty table, together and once, although
\* it is three statements, unless two windows start at the same time.
THEOREM SamplesRight == MCSpec => []SeedsRight
<1>1. WindowInv => SeedsRight
  <2> SUFFICES ASSUME WindowInv, "race" \notin mishaps, writes = 0
               PROVE  /\ \A v \in {Alice, Bob} : Windows!Cardinality(Windows!Samples(v)) <= 1
                      /\ \A w \in AllWindows : pc[w] = "alice" => DOMAIN table = {}
                      /\ "fault" \notin mishaps /\ Windows!Seeding = {}
                           /\ (\E w \in AllWindows : pc[w] \in {"load", "idle"})
                         => Windows!Samples(Alice) # {} /\ Windows!Samples(Bob) # {}
    BY DEF SeedsRight, Windows!SeedsRight
  <2>1. \A v \in {Alice, Bob} : \A i, j \in Windows!Samples(v) : i = j
    BY DEF WindowInv, Sown, Quiet
  <2>2. ASSUME NEW v \in {Alice, Bob}
        PROVE  Windows!Cardinality(Windows!Samples(v)) <= 1
    <3>1. CASE Windows!Samples(v) = {}
      <4>1. Cardinality(Windows!Samples(v)) = 0
        BY <3>1, FS_EmptySet
      <4> QED
        BY <4>1, SameCardinality
    <3>2. CASE Windows!Samples(v) # {}
      <4>1. PICK i : Windows!Samples(v) = {i}
        BY <2>1, <3>2
      <4>2. Cardinality(Windows!Samples(v)) = 1
        BY <4>1, FS_Singleton
      <4> QED
        BY <4>2, SameCardinality
    <3> QED
      BY <3>1, <3>2
  <2>3. \A w \in AllWindows : pc[w] = "alice" => DOMAIN table = {}
    BY DEF WindowInv, Sown, Quiet
  <2>4. ASSUME "fault" \notin mishaps, Windows!Seeding = {}, NEW w \in AllWindows,
               pc[w] \in {"load", "idle"}
        PROVE  Windows!Samples(Alice) # {} /\ Windows!Samples(Bob) # {}
    <3>1. \A x \in AllWindows : pc[x] # "bob"
      BY <2>4 DEF Windows!Seeding
    <3>2. DOMAIN table # {}
      BY <2>4 DEF WindowInv, Sown, Quiet
    <3> QED
      BY <2>4, <3>1, <3>2 DEF WindowInv, Sown, Quiet
  <2> QED
    BY <2>2, <2>3, <2>4
<1> QED
  BY <1>1, PartsSpec, WindowInvariance, PTL

===========================================================================
