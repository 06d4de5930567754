--------------------------- MODULE MCHttpServer ---------------------------
(* The instances of HttpServer for TLC: clients are model values. *)
EXTENDS HttpServer

CONSTANTS c1, c2, c3

TwoClients   == {c1, c2}
ThreeClients == {c1, c2, c3}
OneLong      == {c1}
Nobody       == {}

===========================================================================
