--------------------------- MODULE MCToolRefresh ---------------------------
(* Model values for the runs of ToolRefresh. *)
EXTENDS ToolRefresh
CONSTANTS f1, r1
=============================================================================
