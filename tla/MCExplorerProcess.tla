------------------------- MODULE MCExplorerProcess -------------------------
(* An instance of ExplorerProcess for TLC.                                 *)
EXTENDS ExplorerProcess


=============================================================================
