--------------------------- MODULE MCFileTransfer ---------------------------
(* The instance of FileTransfer for TLC. *)
EXTENDS FileTransfer, TLC

CONSTANTS c1, c2

TwoClients  == {c1, c2}
TwoCommands == {1, 2}

\* Three commands between the two; or all by one, who can send the last two of them
\* in one piece once the second has been answered by what the first left over.
ThreeCommands == {(c1 :> 2) @@ (c2 :> 1), (c1 :> 3) @@ (c2 :> 0)}

=============================================================================
