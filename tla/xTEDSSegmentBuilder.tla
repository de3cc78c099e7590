------------------------ MODULE xTEDSSegmentBuilder ------------------------
(***************************************************************************)
(* Reassembly of an xTEDS too large for a datagram                         *)
(* (dm/xTEDSSegmentBuilder.cpp).  A node of NodeList collects one          *)
(* document.  The text of segment k of a document is the token the sender  *)
(* gives it.                                                               *)
(***************************************************************************)
EXTENDS Integers, Sequences, FiniteSets, SequencesExt

CONSTANTS
  MAX_SEGMENT_NODES,    \* nodes there are
  MAX_NUMBER_SEGMENTS   \* segments a node has room for, and also the number of
                        \* nodes FindNodeEntry looks at

ASSUME NodesAssumption ==
  /\ MAX_SEGMENT_NODES \in Nat /\ MAX_NUMBER_SEGMENTS \in Nat \ {0}
  /\ MAX_NUMBER_SEGMENTS <= MAX_SEGMENT_NODES

FreeNode(none) == [IsInUse |-> FALSE, xTEDSID |-> none, NumSegments |-> 0,
                   received |-> {}, buffer |-> << >>]
NoNodes(none) == [n \in 1..MAX_SEGMENT_NODES |-> FreeNode(none)]

IsNodeOf(node, id) == node.IsInUse /\ node.xTEDSID = id
FindNodeEntryFirst(list, id) ==
  SelectInSubSeq(list, 1, 1, LAMBDA x : IsNodeOf(x, id))
\* 0 if there is none.
FindNodeEntry(list, id) ==
  SelectInSubSeq(list, 1, MAX_NUMBER_SEGMENTS, LAMBDA x : IsNodeOf(x, id))

\* 0 if all are in use.
AddSegmentNode(list) == SelectInSeq(list, LAMBDA x : ~x.IsInUse)

DeleteNode(list, id) ==
  LET n == FindNodeEntry(list, id)
  IN  IF n = 0 THEN list ELSE [list EXCEPT ![n].IsInUse = FALSE]

AlreadyReceived(k, node) == k \in node.received
SentInOrderAnyway(k, node) == k \notin node.received
SentInOrder(k, node) == node.received = 0..(k - 1)

ApplyUnmarked(list, n, k, text) ==
  [list EXCEPT ![n].buffer = Append(@, text)]
\* Segment k, with its text, goes to the end of node n.
Apply(list, n, k, text) ==
  [list EXCEPT ![n].received = @ \cup {k}, ![n].buffer = Append(@, text)]

\* The result of ApplySegment for segment k of total: [ok, list].
FirstSegment(list, id, k, total, text) ==
  LET n == AddSegmentNode(list)
      new == [IsInUse |-> TRUE, xTEDSID |-> id, NumSegments |-> total,
              received |-> {}, buffer |-> << >>]
      added == [list EXCEPT ![n] = new]
  IN  IF k # 0 \/ n = 0 THEN [ok |-> FALSE, list |-> list]
      ELSE IF total > MAX_NUMBER_SEGMENTS
      THEN [ok |-> FALSE, list |-> DeleteNode(added, id)]
      ELSE [ok |-> TRUE, list |-> Apply(added, n, k, text)]

\* n is the node FindNodeEntry finds.
ApplySegment(list, n, id, k, total, text) ==
  IF n = 0 THEN FirstSegment(list, id, k, total, text)
  ELSE IF AlreadyReceived(k, list[n]) THEN [ok |-> TRUE, list |-> list]
  ELSE IF ~SentInOrder(k, list[n]) THEN [ok |-> FALSE, list |-> list]
  ELSE [ok |-> TRUE, list |-> Apply(list, n, k, text)]

CheckIsFinished(list, id) ==
  LET n == FindNodeEntry(list, id)
  IN  n # 0 /\ \A k \in 0..(list[n].NumSegments - 1) : k \in list[n].received

\* The document handed over; its node is deleted.
GetFullxTEDS(list, id) == list[FindNodeEntry(list, id)].buffer
=============================================================================
