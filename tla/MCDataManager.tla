--------------------------- MODULE MCDataManager ---------------------------
(***************************************************************************)
(* Values for model checking DataManager: two applications, two sensors of *)
(* one Sensor Manager, the Data Manager and an observer.                   *)
(***************************************************************************)
EXTENDS DataManager, TLC

CONSTANTS a, b, s1, s2, o

\* Every component has its own name and its own notification.
OwnName == [c \in Comp |-> c]
OwnMsg == [c \in Comp |-> c]
\* Components of one kind provide the same notification.
KindMsg == [c \in Comp |-> IF c \in Sensor THEN "reading" ELSE c]
\* The two applications are instances of one program.
SameName == [c \in Comp |-> IF c = b THEN a ELSE c]
AllNames == Comp

\* Applications leave the low byte of their id 0; a Sensor Manager numbers
\* its sensors.
Locals == [c \in Comp |-> CASE c = DM -> 1 [] c = s1 -> 1 [] c = s2 -> 2
                            [] OTHER -> 0]
\* Clients ask for everything but the Data Manager.
WantsOthers == [x \in Client |-> Name \ {DM}]

\* How often components start.
Once == [c \in App \cup Sensor |-> 1]
Twice == [c \in App \cup Sensor |-> 2]
FirstTwice == [c \in App \cup Sensor |-> IF c = a THEN 2 ELSE 1]
SensorTwice == [c \in App \cup Sensor |-> IF c = s1 THEN 2 ELSE 1]

Symmetry == Permutations(XThread)
=============================================================================
