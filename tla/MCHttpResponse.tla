-------------------------- MODULE MCHttpResponse --------------------------
(* The instance of HttpResponse for TLC. *)
EXTENDS HttpResponse

SmallNumbers   == -1 .. 5
AllKinds       == {"absent", "file", "directory"}
===========================================================================
