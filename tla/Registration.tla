---------------------------- MODULE Registration ----------------------------
(***************************************************************************)
(* How components come to register with the Data Manager (dm/DM.cpp): the  *)
(* listener queues a Hello, RegistrationHandler asks the components in the *)
(* queues for their xTEDS one at a time, and an xTEDS thread puts the      *)
(* segments it is sent together.  What is done with a whole xTEDS is the   *)
(* subject of DataManager.                                                 *)
(*                                                                         *)
(* A component says Hello until it has the acknowledgement, and is asked   *)
(* by one SDMRegister; both are datagrams and may be lost.  Datagrams with *)
(* segments may be lost, repeated and reordered at will: the model lets    *)
(* any segment of a component that was asked arrive at any time.           *)
(***************************************************************************)
EXTENDS Integers, Sequences, FiniteSets, SDMRegQueue, xTEDSSegmentBuilder

CONSTANTS
  Device, Application,  \* components, by the type of their Hello
  Segments,     \* per component: the segments of its xTEDS, 0 if it is sent
                \* in one piece
  MaxHellos,    \* bound: messages Hello
  Replaceable   \* devices that may be replaced, once, by another one that
                \* has the same id

Comp == Device \cup Application

ASSUME CompAssumption ==
  Device \cap Application = {} /\ Device \cup Application = Id
ASSUME SegmentsAssumption == Segments \in [Comp -> Nat]
ASSUME HelloAssumption == MaxHellos \in Nat
ASSUME ReplacedAssumption == Replaceable \subseteq Device

VARIABLES
  deviceQueue, applicationQueue,
  registerNext,
  expired,      \* GetCurTime() >= endTime
  pc,           \* RegistrationHandler: "boot", "check" or "sent"
  turn,         \* componentToRegister
  NodeList,     \* xTEDSBuilder
  documents,    \* <<component, text>> put together from segments
  acked,        \* environment: components that know their Hello arrived
  asked,        \* environment: components that have an SDMRegister
  hellos,       \* environment: so far
  version       \* environment: per component, 1 once it was replaced

queueVars == <<deviceQueue, applicationQueue, turn>>
handlerVars == <<registerNext, expired, pc>>
envVars == <<acked, asked, hellos, version>>
vars == <<queueVars, handlerVars, NodeList, documents, envVars>>

Init ==
  /\ deviceQueue = EmptyRing
  /\ applicationQueue = EmptyRing
  /\ registerNext = TRUE
  /\ expired = TRUE
  /\ pc = "boot"
  /\ turn = NoId
  /\ NodeList = NoNodes(NoId)
  /\ documents = {}
  /\ acked = {}
  /\ asked = {}
  /\ hellos = 0
  /\ version = [c \in Comp |-> 0]

-----------------------------------------------------------------------------
(* The listener.                                                           *)

QueuedAgain(q, c) == add(q, c)
\* A Hello of a component that is in the queue already is ignored.
Queued(q, c) == IF find(q, c) THEN q ELSE add(q, c)

\* c says Hello; the acknowledgement may be lost.
Hello(c) ==
  /\ c \notin acked /\ hellos < MaxHellos
  /\ hellos' = hellos + 1
  /\ \/ /\ c \in Device
        /\ deviceQueue' = Queued(deviceQueue, c)
        /\ UNCHANGED applicationQueue
     \/ /\ c \in Application
        /\ applicationQueue' = Queued(applicationQueue, c)
        /\ UNCHANGED deviceQueue
  /\ acked' \in {acked, acked \cup {c}}
  /\ UNCHANGED <<turn, handlerVars, NodeList, documents, asked, version>>

-----------------------------------------------------------------------------
(* RegistrationHandler.                                                    *)

HandlerStarts ==
  /\ pc = "boot"
  /\ registerNext' = TRUE
  /\ pc' = "check"
  /\ UNCHANGED <<queueVars, expired, NodeList, documents, envVars>>

\* The component at the front is asked; the SDMRegister may be lost.
AskFront(q) ==
  /\ turn' = front(q)
  /\ asked' \in {asked, asked \cup {front(q)}}

Dequeue ==
  \/ /\ size(deviceQueue) # 0
     /\ AskFront(deviceQueue)
     /\ deviceQueue' = dequeue(deviceQueue)
     /\ UNCHANGED applicationQueue
  \/ /\ size(deviceQueue) = 0 /\ size(applicationQueue) # 0
     /\ AskFront(applicationQueue)
     /\ applicationQueue' = dequeue(applicationQueue)
     /\ UNCHANGED deviceQueue

NextOnAnswer == registerNext
\* registerNext as the handler sees it after its look at the clock.
NextOrTimeOut == registerNext \/ expired

HandlerSends ==
  /\ pc = "check" /\ NextOrTimeOut
  /\ Dequeue
  /\ registerNext' = TRUE
  /\ pc' = "sent"
  /\ UNCHANGED <<expired, NodeList, documents, acked, hellos, version>>

HandlerIdles ==
  /\ pc = "check" /\ expired /\ ~registerNext
  /\ size(deviceQueue) = 0 /\ size(applicationQueue) = 0
  /\ registerNext' = TRUE
  /\ UNCHANGED <<queueVars, expired, pc, NodeList, documents, envVars>>

\* registerNext is cleared after the message has been sent: an answer that is
\* dealt with before goes unnoticed until the time is over.
HandlerWaits ==
  /\ pc = "sent"
  /\ registerNext' = FALSE
  /\ expired' = FALSE
  /\ pc' = "check"
  /\ UNCHANGED <<queueVars, NodeList, documents, envVars>>

TimeOut ==
  /\ ~expired
  /\ expired' = TRUE
  /\ UNCHANGED <<queueVars, registerNext, pc, NodeList, documents, envVars>>

-----------------------------------------------------------------------------
(* The xTEDS thread, up to the point where it has a whole xTEDS.           *)

\* The text of c's segment k.
Text(c, k) == <<version[c], k>>

\* Whatever becomes of the message, the next component may register.
WholexTEDS(c) ==
  /\ c \in asked /\ Segments[c] = 0
  /\ registerNext' = TRUE
  /\ UNCHANGED <<queueVars, expired, pc, NodeList, documents, envVars>>

SegmentedxTEDS(c, k) ==
  /\ c \in asked /\ k < Segments[c]
  /\ registerNext' = TRUE
  /\ UNCHANGED <<queueVars, expired, pc, envVars>>
  /\ \E n \in {FindNodeEntry(NodeList, c)} :
     \E applied \in {ApplySegment(NodeList, n, c, k, Segments[c], Text(c, k))} :
       \/ /\ applied.ok /\ CheckIsFinished(applied.list, c)
          /\ documents' = documents \cup {<<c, GetFullxTEDS(applied.list, c)>>}
          /\ NodeList' = DeleteNode(applied.list, c)
       \/ /\ ~(applied.ok /\ CheckIsFinished(applied.list, c))
          /\ NodeList' = applied.list
          /\ UNCHANGED documents

\* Another device, with another xTEDS, is plugged in in place of c, and has
\* the same id.
Replace(c) ==
  /\ c \in Replaceable /\ version[c] = 0
  /\ version' = [version EXCEPT ![c] = 1]
  /\ acked' = acked \ {c}
  /\ asked' = asked \ {c}
  /\ UNCHANGED <<queueVars, handlerVars, NodeList, documents, hellos>>

Handler == HandlerStarts \/ HandlerSends \/ HandlerIdles \/ HandlerWaits

Receive(c) ==
  WholexTEDS(c) \/ \E k \in 0..(Segments[c] - 1) : SegmentedxTEDS(c, k)

Next ==
  \/ \E c \in Comp : Hello(c) \/ Receive(c) \/ Replace(c)
  \/ Handler
  \/ TimeOut

Spec == Init /\ [][Next]_vars

\* The handler's loop goes on and time passes; a component that was asked
\* repeats the segments of its xTEDS, so that one the builder can use arrives.
Useful(c) == Receive(c) /\ (NodeList' # NodeList \/ documents' # documents)
Fairness ==
  /\ WF_vars(Handler)
  /\ WF_vars(TimeOut)
  /\ \A c \in {x \in Comp : Segments[x] > 0} : WF_vars(Useful(c))
FairSpec == Spec /\ Fairness

-----------------------------------------------------------------------------
(* Properties.                                                             *)

NodeType == [IsInUse : BOOLEAN, xTEDSID : Id \cup {NoId}, NumSegments : Nat,
             received : SUBSET Nat, buffer : Seq(Nat \X Nat)]

TypeOK ==
  /\ deviceQueue \in Ring /\ applicationQueue \in Ring
  /\ turn \in Id \cup {NoId}
  /\ registerNext \in BOOLEAN /\ expired \in BOOLEAN
  /\ pc \in {"boot", "check", "sent"}
  /\ NodeList \in [1..MAX_SEGMENT_NODES -> NodeType]
  /\ \A n \in 1..MAX_SEGMENT_NODES :
       Cardinality(NodeList[n].received) = Len(NodeList[n].buffer)
  /\ documents \subseteq Comp \X Seq(Nat \X Nat)
  /\ acked \subseteq Comp /\ asked \subseteq Comp \cup {NoId}
  /\ hellos \in 0..MaxHellos
  /\ version \in [Comp -> {0, 1}]

\* The queues, the handler's choice between them and the test for duplicates
\* keep the contract, for as long as the ring has not gone round: NotWorn bounds
\* the ids that are queued in the Data Manager's life.
NotWorn == MaxHellos < SIZE - 1
Contract == INSTANCE RegContract WITH
  Nobody <- NoId, devices <- Contents(deviceQueue),
  applications <- Contents(applicationQueue), turn <- turn
ServedInOrder == Contract!Spec

\* The whole xTEDS of c.
Document(c, v) == [k \in 1..Segments[c] |-> <<v, k - 1>>]

\* A document that is handed over is the one its sender sent, each segment
\* once and in order, whatever the order and number in which its segments and
\* those of others arrived: unless a device was replaced by another.
WholeDocument ==
  \A d \in documents : version[d[1]] = 0
                         => d[2] = Document(d[1], 0)

\* The same for devices that were replaced: one document is from one device.
OneSource ==
  \A d \in documents : \E v \in {0, 1} : d[2] = Document(d[1], v)

\* Components whose Hello was queued are all asked to register, whatever
\* becomes of the messages to and from the ones before them: they leave the
\* queues in no other way, and the queues keep running empty.
HellosServed == []<>(size(deviceQueue) = 0 /\ size(applicationQueue) = 0)

\* "Multiple transmissions can occur simultaneously": every component that was
\* asked and repeats its segments gets its xTEDS through.
Delivered(c) == \E d \in documents : d[1] = c
TransfersFinish ==
  []<>(\A c \in Comp : c \in asked /\ Segments[c] > 0 => Delivered(c))
=============================================================================
