-------------------------- MODULE AbstractSequence --------------------------
(***************************************************************************)
(* What every container of src/Data_Structure promises its caller: it      *)
(* holds a sequence, an insertion puts one value at one position, a        *)
(* deletion takes one out, and a question is answered from the sequence    *)
(* alone.  Positions count from 0, as in the C code.  `call` is the last   *)
(* call with its answer; "void" is the answer of a function that returns   *)
(* nothing, whose caller cannot tell a refusal.                            *)
(***************************************************************************)
EXTENDS Integers, Sequences, SequencesExt

CONSTANTS Values, Positions

VARIABLES
  items,
  call,
  room         \* so many values find room whatever malloc does

Inside(at) == at \in 0 .. Len(items) - 1

Asked(op, at, val) == call'.op = op /\ call'.at = at /\ call'.val = val

Told(res, got) == call'.res = res /\ call'.got = got

\* A refusal, told by a function that returns something, changes nothing.
Refuse == UNCHANGED items /\ \E res \in {"refused", "void"} : Told(res, 0)

Init ==
  items = <<>> /\ call = [op |-> "none", at |-> 0, val |-> 0, res |-> "void", got |-> 0]

Start ==
  /\ \E op \in {"create", "destroy"} : Asked(op, 0, 0)
  /\ items' = <<>> /\ Told("ok", 0)

Fail == Asked("create", 0, 0) /\ Refuse

\* An insertion fails out of range, and in range only for want of room.
Insert(at, val) ==
  /\ Asked("insert", at, val)
  /\ \/ /\ at \in 0 .. Len(items)
        /\ items' = InsertAt(items, at + 1, val)
        /\ \E res \in {"ok", "void"} : Told(res, 0)
     \/ ~(at \in 0 .. Len(items) /\ Len(items) < room) /\ Refuse

\* A deletion in range never fails; it hands out what was there, or nothing.
Delete(at) ==
  /\ Asked("delete", at, 0)
  /\ \/ /\ Inside(at)
        /\ items' = RemoveAt(items, at + 1)
        /\ Told("ok", items[at + 1]) \/ Told("void", 0)
     \/ ~Inside(at) /\ Refuse

Get(at) ==
  /\ Asked("get", at, 0)
  /\ \/ Inside(at) /\ UNCHANGED items /\ Told("ok", items[at + 1])
     \/ ~Inside(at) /\ Refuse

\* The first occurrence, or -1.
Find(val) ==
  /\ Asked("find", 0, val)
  /\ UNCHANGED items
  /\ LET at == {i \in DOMAIN items : items[i] = val}
     IN  Told("ok", IF at = {} THEN -1 ELSE (CHOOSE i \in at : \A j \in at : i <= j) - 1)

Set(at, val) ==
  /\ Asked("set", at, val)
  /\ \/ Inside(at) /\ items' = [items EXCEPT ![at + 1] = val] /\ Told("ok", 0)
     \/ ~Inside(at) /\ Refuse

Clear == Asked("clear", 0, 0) /\ items' = <<>> /\ Told("void", 0)

Next ==
  \/ Start \/ Fail \/ Clear
  \/ \E at \in Positions : Delete(at) \/ Get(at)
  \/ \E at \in Positions, val \in Values : Insert(at, val) \/ Set(at, val)
  \/ \E val \in Values : Find(val)

Spec == Init /\ [][Next]_<<items, call>>

=============================================================================
