-------------------------- MODULE MCProcessManager --------------------------
(***************************************************************************)
(* Instances of ProcessManager for TLC.                                    *)
(***************************************************************************)
EXTENDS ProcessManager

CONSTANTS a, b

OneTask == <<a>>
\* Two or three tasks with one executable, or with one each.
SameName == <<a, a>>
ThreeOfOne == <<a, a, a>>
OwnNames == <<a, b>>

=============================================================================
