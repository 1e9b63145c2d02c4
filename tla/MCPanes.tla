-------------------------------- MODULE MCPanes --------------------------------
(* TLC instances of the process panes. *)
EXTENDS Panes

CONSTANTS p1, p3
=============================================================================
