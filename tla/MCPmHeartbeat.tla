--------------------------- MODULE MCPmHeartbeat ----------------------------
(***************************************************************************)
(* Instances of PmHeartbeat for TLC.                                       *)
(***************************************************************************)
EXTENDS PmHeartbeat

CONSTANTS p1, p2, p3

=============================================================================
