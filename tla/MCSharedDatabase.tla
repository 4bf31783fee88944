--------------------------- MODULE MCSharedDatabase ---------------------------
(* An instance of SharedDatabase for TLC.                                  *)
EXTENDS SharedDatabase

CONSTANTS n1, n2

(* The same profile is configured again, or another one; or two profiles   *)
(* at first, whose processes may outlive their explorer.                   *)
MCHistories == {<<{n1}, {n1}>>, <<{n1}, {n2}>>, <<{n1, n2}, {}>>}

=============================================================================
