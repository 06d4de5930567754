---------------------------- MODULE MCHttpPool -----------------------------
(* The instance of HttpPool for TLC. *)
EXTENDS HttpPool, MCHttpServer

===========================================================================
