--------------------------- MODULE MCRegistration ---------------------------
(***************************************************************************)
(* Values for model checking Registration: three devices with segmented    *)
(* xTEDS and an application whose xTEDS fits in one message.               *)
(***************************************************************************)
EXTENDS Registration

CONSTANTS d1, d2, d3, app

Components == Device \cup Application
SegmentsOf == [c \in Components |-> CASE c = d1 -> 3 [] c = app -> 0 [] OTHER -> 2]
ShortOf == [c \in Components |-> 2]
=============================================================================
