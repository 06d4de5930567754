-------------------------- MODULE MCSelectServer --------------------------
(* The instance of SelectServer for TLC. *)
EXTENDS SelectServer

CONSTANTS c1, c2, c3

TwoClients   == {c1, c2}
ThreeClients == {c1, c2, c3}

\* Fewer descriptors than slots, and more.
FewOrEnough  == {1, 3}

===========================================================================
