---------------------------- MODULE RegContract ----------------------------
(***************************************************************************)
(* What the Data Manager promises to components that ask to register: each *)
(* waits in line once, devices are asked for their xTEDS before            *)
(* applications, and those of a kind in the order they came.  Nobody is    *)
(* asked who did not say Hello, and nobody is forgotten.                   *)
(***************************************************************************)
EXTENDS Sequences

CONSTANTS Device, Application, Nobody

VARIABLES devices, applications, turn

contractVars == <<devices, applications, turn>>

Init ==
  /\ devices = << >>
  /\ applications = << >>
  /\ turn = Nobody

Waits(line, c) == \E i \in DOMAIN line : line[i] = c

DeviceHello(c) ==
  /\ ~Waits(devices, c)
  /\ devices' = Append(devices, c)
  /\ UNCHANGED <<applications, turn>>

ApplicationHello(c) ==
  /\ ~Waits(applications, c)
  /\ applications' = Append(applications, c)
  /\ UNCHANGED <<devices, turn>>

Ask ==
  \/ /\ devices # << >>
     /\ turn' = Head(devices)
     /\ devices' = Tail(devices)
     /\ UNCHANGED applications
  \/ /\ devices = << >> /\ applications # << >>
     /\ turn' = Head(applications)
     /\ applications' = Tail(applications)
     /\ UNCHANGED devices

Next ==
  \/ \E c \in Device : DeviceHello(c)
  \/ \E c \in Application : ApplicationHello(c)
  \/ Ask

Spec == Init /\ [][Next]_contractVars
=============================================================================
