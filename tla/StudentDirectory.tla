-------------------------- MODULE StudentDirectory --------------------------
(***************************************************************************)
(* What the student information system promises: a directory from user     *)
(* names to students in which every operation is atomic and changes one    *)
(* student.  After a crash or a full disk students may be missing, but     *)
(* those who are there are as they were: nothing mixes them up or brings   *)
(* back an old state.  A score for an id that several students have (a     *)
(* clash) leaves one of them.  A registration that ends in a second or a   *)
(* garbled record (a double) touches nobody who is there, but may show one *)
(* more student as anything, and the edits of a student go by one of his   *)
(* records.  Nothing is promised after both.                               *)
(***************************************************************************)
EXTENDS Naturals

CONSTANTS Users, Ids, Scores, Nobody

VARIABLES
  dir,         \* the student of each user name, or Nobody
  trouble      \* what there has been: a loss, a double, a clash

vars == <<dir, trouble>>

Records(u) == [user : {u}, id : Ids, named : BOOLEAN, score : Scores, student : BOOLEAN]

New(u) == [user |-> u, id |-> 0, named |-> FALSE, score |-> 0, student |-> TRUE]

Init == dir = [u \in Users |-> Nobody] /\ trouble = {}

\* What may be left of the directory before an operation.
Left == IF "loss" \notin trouble' THEN {dir}
        ELSE {[u \in Users |-> IF u \in lost THEN Nobody ELSE dir[u]] : lost \in SUBSET Users}

Register(u) ==
  \E d \in Left : d[u] = Nobody /\ dir' = [d EXCEPT ![u] = New(u)]

SetInfo(u, id, named) ==
  \E d \in Left : d[u] # Nobody /\ dir' = [d EXCEPT ![u].id = id, ![u].named = named]

SetScore(u, s) ==
  \E d \in Left : d[u] # Nobody /\ dir' = [d EXCEPT ![u].score = s]

Delete(u) == \E d \in Left : d[u] # Nobody /\ dir' = [d EXCEPT ![u] = Nobody]

\* The score goes to a student whose id others have, and these are lost.
Merge(u, s) ==
  /\ "clash" \in trouble'
  /\ \E d \in Left :
       /\ d[u] # Nobody
       /\ dir' = [v \in Users |-> IF v = u THEN [d[u] EXCEPT !.score = s]
                                  ELSE IF d[v] # Nobody /\ d[v].id = d[u].id THEN Nobody
                                  ELSE d[v]]

\* A garbled record shows, or an edit goes by a second one.
Garble(u) ==
  /\ "double" \in trouble'
  /\ \E d \in Left, r \in Records(u) : dir' = [d EXCEPT ![u] = r]

Lose == dir' \in Left       \* or nothing shows yet

MixUp == {"clash", "double"} \subseteq trouble'

Next ==
  /\ trouble \subseteq trouble'
  /\ \/ Lose \/ MixUp
     \/ \E u \in Users :
          \/ Register(u) \/ Delete(u) \/ Garble(u)
          \/ \E id \in Ids, named \in BOOLEAN : SetInfo(u, id, named)
          \/ \E s \in Scores : SetScore(u, s) \/ Merge(u, s)

Spec == Init /\ [][Next]_vars

===========================================================================
