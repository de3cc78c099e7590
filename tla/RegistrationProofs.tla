------------------------- MODULE RegistrationProofs -------------------------
(***************************************************************************)
(* Theorems about Registration, for any number of components, Hellos,      *)
(* nodes and segments: the state is well-typed, the rings keep RegContract *)
(* while they are not worn, and a document is put together as it was sent. *)
(***************************************************************************)
EXTENDS Registration, FiniteSetTheorems, WellFoundedInduction, TLAPS

-----------------------------------------------------------------------------
(* The ring.                                                               *)

\* A ring keeps its type, worn or not.
LEMMA RingKept ==
  ASSUME NEW q \in Ring, NEW c \in Id
  PROVE  add(q, c) \in Ring /\ Queued(q, c) \in Ring
<1>1. q.tail \in 0..(SIZE - 1) /\ q.head \in 0..(SIZE - 2)
  BY DEF Ring
<1>2. Put(q, c) \in Ring
  <2> DEFINE t == IF q.tail = SIZE - 1 THEN 0 ELSE q.tail
  <2>1. t \in 0..(SIZE - 2) /\ t + 1 \in 0..(SIZE - 1)
    BY <1>1, RingSizeAssumption
  <2>2. Put(q, c) = [q EXCEPT !.queue = [@ EXCEPT ![t] = c], !.tail = t + 1]
    BY DEF Put
  <2> HIDE DEF t
  <2> QED
    BY <2>1, <2>2 DEF Ring
<1> QED
  BY <1>2 DEF add, Queued

\* A ring stays a ring when its front is taken.
LEMMA DequeueKept ==
  ASSUME NEW q \in Ring
  PROVE  dequeue(q) \in Ring /\ front(q) \in Id \cup {NoId}
<1>1. q.tail \in 0..(SIZE - 1) /\ q.head \in 0..(SIZE - 2)
  BY DEF Ring
<1>2. dequeue(q) \in Ring
  BY <1>1, RingSizeAssumption DEF dequeue, Ring
<1>3. front(q) \in Id \cup {NoId}
  BY <1>1, RingSizeAssumption DEF front, Ring
<1> QED
  BY <1>2, <1>3

\* A ring that has not gone round.
Straight(q) == q \in Ring /\ q.head <= q.tail

\* Its contents are a sequence, empty when size says so.
LEMMA ContentsSeq ==
  ASSUME NEW q, Straight(q)
  PROVE  /\ Contents(q) \in Seq(Id \cup {NoId})
         /\ Len(Contents(q)) = q.tail - q.head
         /\ size(q) = q.tail - q.head
         /\ DOMAIN Contents(q) = 1..(q.tail - q.head)
<1>1. /\ q.tail \in 0..(SIZE - 1) /\ q.head \in 0..(SIZE - 2)
      /\ q.queue \in [0..(SIZE - 1) -> Id \cup {NoId}] /\ q.head <= q.tail
  BY DEF Straight, Ring
<1>2. q.tail - q.head \in Nat
  BY <1>1, RingSizeAssumption
<1>3. Contents(q) \in [1..(q.tail - q.head) -> Id \cup {NoId}]
  BY <1>1, RingSizeAssumption DEF Contents
<1>4. Contents(q) \in Seq(Id \cup {NoId}) /\ Len(Contents(q)) = q.tail - q.head
  <2> DEFINE m == q.tail - q.head
             f == Contents(q)
  <2>1. m \in Nat /\ f \in [1..m -> Id \cup {NoId}]
    BY <1>2, <1>3
  <2> HIDE DEF m, f
  <2>2. f \in Seq(Id \cup {NoId}) /\ Len(f) = m
    BY <2>1
  <2> QED
    BY <2>2 DEF m, f
<1>5. size(q) = q.tail - q.head
  BY <1>1 DEF size
<1> QED
  BY <1>3, <1>4, <1>5

\* add puts an id at the end, as long as there is room before the end of the
\* array.
LEMMA AddAppends ==
  ASSUME NEW q, Straight(q), NEW c \in Id, q.tail < SIZE - 2
  PROVE  /\ Straight(add(q, c))
         /\ add(q, c).tail = q.tail + 1
         /\ Contents(add(q, c)) = Append(Contents(q), c)
<1>1. /\ q.tail \in 0..(SIZE - 1) /\ q.head \in 0..(SIZE - 2)
      /\ q.queue \in [0..(SIZE - 1) -> Id \cup {NoId}] /\ q.head <= q.tail
      /\ q \in Ring
  BY DEF Straight, Ring
<1>2. ~IsFull(q) /\ q.tail # SIZE - 1
  BY <1>1, RingSizeAssumption DEF IsFull
<1>3. add(q, c) = [q EXCEPT !.queue = [@ EXCEPT ![q.tail] = c], !.tail = q.tail + 1]
  BY <1>2 DEF add, Put
<1> DEFINE p == add(q, c)
<1>4. /\ p.head = q.head /\ p.tail = q.tail + 1
      /\ p.queue = [q.queue EXCEPT ![q.tail] = c]
  BY <1>1, <1>3 DEF Ring
<1>5. Straight(p)
  <2>1. p \in Ring
    BY <1>1, RingKept
  <2> HIDE DEF p
  <2>2. p.head <= p.tail
    BY <1>1, <1>4
  <2> QED
    BY <2>1, <2>2 DEF Straight
<1> HIDE DEF p
<1>6. /\ Contents(p) \in Seq(Id \cup {NoId}) /\ Len(Contents(p)) = q.tail + 1 - q.head
      /\ Contents(q) \in Seq(Id \cup {NoId}) /\ Len(Contents(q)) = q.tail - q.head
  <2>1. p.tail - p.head = q.tail + 1 - q.head
    BY <1>1, <1>4
  <2>2. Contents(p) \in Seq(Id \cup {NoId}) /\ Len(Contents(p)) = p.tail - p.head
    BY <1>5, ContentsSeq
  <2>3. Contents(q) \in Seq(Id \cup {NoId}) /\ Len(Contents(q)) = q.tail - q.head
    BY ContentsSeq
  <2> QED
    BY <2>1, <2>2, <2>3
<1>7. \A i \in 1..(q.tail + 1 - q.head) : Contents(p)[i] = Append(Contents(q), c)[i]
  <2> TAKE i \in 1..(q.tail + 1 - q.head)
  <2>1. Contents(p)[i] = p.queue[q.head + i - 1]
    <3>1. p.tail - p.head = q.tail + 1 - q.head
      BY <1>1, <1>4
    <3>2. i \in 1..(p.tail - p.head)
      BY <3>1
    <3>3. Contents(p)[i] = p.queue[p.head + i - 1]
      BY <3>2 DEF Contents
    <3> QED
      BY <1>4, <3>3
  <2>2. CASE i = q.tail + 1 - q.head
    <3>1. Append(Contents(q), c)[i] = c
      BY <1>6, <2>2, <1>1
    <3>2. q.head + i - 1 = q.tail
      BY <1>1, <2>2
    <3> QED
      BY <1>1, <1>4, <2>1, <3>1, <3>2
  <2>3. CASE i # q.tail + 1 - q.head
    <3>1. i \in 1..(q.tail - q.head)
      BY <1>1, <2>3
    <3>2. Append(Contents(q), c)[i] = Contents(q)[i]
      BY <1>6, <3>1
    <3>3. Contents(q)[i] = q.queue[q.head + i - 1]
      BY <3>1 DEF Contents
    <3>4. q.head + i - 1 # q.tail /\ q.head + i - 1 \in 0..(SIZE - 1)
      BY <1>1, <3>1, RingSizeAssumption
    <3> QED
      BY <1>1, <1>4, <2>1, <3>2, <3>3, <3>4
  <2> QED
    BY <2>2, <2>3
<1>8. Contents(p) = Append(Contents(q), c)
  <2> DEFINE f == Contents(p)
             g == Contents(q)
             m == q.tail - q.head
  <2>1. /\ f \in Seq(Id \cup {NoId}) /\ Len(f) = m + 1 /\ m \in Nat
        /\ g \in Seq(Id \cup {NoId}) /\ Len(g) = m
        /\ \A i \in 1..(m + 1) : f[i] = Append(g, c)[i]
    BY <1>1, <1>6, <1>7, RingSizeAssumption
  <2> HIDE DEF f, g, m
  <2>2. f = Append(g, c)
    BY <2>1
  <2> QED
    BY <2>2 DEF f, g
<1> QED
  BY <1>4, <1>5, <1>8 DEF p

\* dequeue takes the id at the front, as long as the array's end is not met.
LEMMA DequeueTails ==
  ASSUME NEW q, Straight(q), q.head < q.tail, q.tail <= SIZE - 2
  PROVE  /\ Straight(dequeue(q)) /\ dequeue(q).tail = q.tail
         /\ Contents(q) # << >>
         /\ front(q) = Head(Contents(q))
         /\ Contents(dequeue(q)) = Tail(Contents(q))
<1>1. /\ q.tail \in 0..(SIZE - 1) /\ q.head \in 0..(SIZE - 2)
      /\ q.queue \in [0..(SIZE - 1) -> Id \cup {NoId}] /\ q \in Ring
  BY DEF Straight, Ring
<1> DEFINE p == dequeue(q)
<1>2. p.head = q.head + 1 /\ p.tail = q.tail /\ p.queue = q.queue
  BY <1>1, RingSizeAssumption DEF dequeue, Ring
<1>3. p \in Ring
  BY <1>1, <1>2, RingSizeAssumption DEF dequeue, Ring
<1>4. Straight(p)
  BY <1>1, <1>2, <1>3 DEF Straight
<1>5. /\ Contents(p) \in Seq(Id \cup {NoId}) /\ Len(Contents(p)) = q.tail - (q.head + 1)
      /\ Contents(q) \in Seq(Id \cup {NoId}) /\ Len(Contents(q)) = q.tail - q.head
  BY <1>2, <1>4, ContentsSeq
<1>6. \A i \in 1..(q.tail - q.head - 1) : Contents(p)[i] = Contents(q)[i + 1]
  <2> TAKE i \in 1..(q.tail - q.head - 1)
  <2>1. p.tail - p.head = q.tail - q.head - 1
    BY <1>1, <1>2
  <2>2. Contents(p)[i] = p.queue[p.head + i - 1]
    BY <2>1 DEF Contents
  <2>3. i + 1 \in 1..(q.tail - q.head)
    BY <1>1
  <2>4. Contents(q)[i + 1] = q.queue[q.head + (i + 1) - 1]
    BY <2>3 DEF Contents
  <2>5. p.head + i - 1 = q.head + (i + 1) - 1
    BY <1>1, <1>2
  <2> QED
    BY <1>2, <2>2, <2>4, <2>5
<1>7. Contents(q)[1] = front(q)
  BY <1>1 DEF Contents, front
<1>8. Contents(p) = Tail(Contents(q)) /\ Contents(q) # << >> /\ front(q) = Head(Contents(q))
  <2> DEFINE f == Contents(p)
             g == Contents(q)
             m == q.tail - q.head
  <2>1. /\ f \in Seq(Id \cup {NoId}) /\ Len(f) = m - 1 /\ m \in Nat /\ m > 0
        /\ g \in Seq(Id \cup {NoId}) /\ Len(g) = m
        /\ \A i \in 1..(m - 1) : f[i] = g[i + 1]
        /\ front(q) = g[1]
    BY <1>1, <1>5, <1>6, <1>7, RingSizeAssumption
  <2> HIDE DEF f, g, m
  <2>2. g # << >> /\ front(q) = Head(g)
    BY <2>1
  <2>3. Tail(g) \in Seq(Id \cup {NoId}) /\ Len(Tail(g)) = m - 1
        /\ \A i \in 1..(m - 1) : Tail(g)[i] = g[i + 1]
    BY <2>1, <2>2
  <2>4. f = Tail(g)
    BY <2>1, <2>3
  <2> QED
    BY <2>2, <2>4 DEF f, g
<1> QED
  BY <1>2, <1>4, <1>8

\* find looks for the id among the contents.
LEMMA FindWaits ==
  ASSUME NEW q, Straight(q), NEW c
  PROVE  find(q, c) <=> \E i \in DOMAIN Contents(q) : Contents(q)[i] = c
<1>1. /\ q.tail \in 0..(SIZE - 1) /\ q.head \in 0..(SIZE - 2) /\ q.head <= q.tail
  BY DEF Straight, Ring
<1>2. Searched(q) = q.head..(q.tail - 1)
  BY <1>1 DEF Searched
<1>3. ASSUME NEW i \in q.head..(q.tail - 1), q.queue[i] = c
      PROVE  \E j \in 1..(q.tail - q.head) : Contents(q)[j] = c
  <2>1. i - q.head + 1 \in 1..(q.tail - q.head)
    BY <1>1
  <2>2. Contents(q)[i - q.head + 1] = q.queue[q.head + (i - q.head + 1) - 1]
    BY <2>1 DEF Contents
  <2>3. q.head + (i - q.head + 1) - 1 = i
    BY <1>1
  <2> QED
    BY <1>3, <2>1, <2>2, <2>3
<1>4. ASSUME NEW j \in 1..(q.tail - q.head), Contents(q)[j] = c
      PROVE  \E i \in q.head..(q.tail - 1) : q.queue[i] = c
  <2>1. q.head + j - 1 \in q.head..(q.tail - 1)
    BY <1>1
  <2> QED
    BY <1>4, <2>1 DEF Contents
<1> QED
  BY <1>2, <1>3, <1>4, ContentsSeq DEF find

-----------------------------------------------------------------------------
(* The builder.                                                            *)

\* The least element of a set of naturals is one of them.
LEMMA MinIn ==
  ASSUME NEW S, S \subseteq Nat, S # {}
  PROVE  Min(S) \in S
<1> DEFINE R == {ss \in Nat \X Nat : ss[1] < ss[2]}
<1>1. IsWellFoundedOn(R, Nat)
  BY NatLessThanWellFounded, Zenon DEF OpToRel
<1>2. \A a, b \in Nat : a < b => <<a, b>> \in R
  OBVIOUS
<1> HIDE DEF R
<1>3. PICK x \in S : \A y \in S : ~(<<y, x>> \in R)
  BY <1>1, WFMin
<1>4. \A y \in S : x <= y
  <2> TAKE y \in S
  <2>1. x \in Nat /\ y \in Nat /\ ~(<<y, x>> \in R)
    BY <1>3
  <2>2. ~(y < x)
    BY <1>2, <2>1
  <2> QED
    BY <2>1, <2>2
<1> QED
  BY <1>4 DEF Min

\* FindNodeEntry finds a node of the component.
LEMMA FindIn ==
  ASSUME NEW list, NEW id
  PROVE  /\ FindNodeEntry(list, id) \in 0..MAX_NUMBER_SEGMENTS
         /\ FindNodeEntry(list, id) # 0
              => IsNodeOf(list[FindNodeEntry(list, id)], id)
<1> DEFINE I == {i \in 1..MAX_NUMBER_SEGMENTS : IsNodeOf(list[i], id)}
<1>1. FindNodeEntry(list, id) = IF I # {} THEN Min(I) ELSE 0
  BY DEF FindNodeEntry, SelectInSubSeq
<1>2. I \subseteq Nat /\ I \subseteq 1..MAX_NUMBER_SEGMENTS
  BY NodesAssumption
<1>3. \A i \in I : IsNodeOf(list[i], id)
  OBVIOUS
<1> HIDE DEF I
<1>4. CASE I = {}
  BY <1>1, <1>4, NodesAssumption
<1>5. CASE I # {}
  <2> DEFINE m == FindNodeEntry(list, id)
  <2>1. m \in I
    BY <1>1, <1>2, <1>5, MinIn
  <2>2. m \in 1..MAX_NUMBER_SEGMENTS /\ IsNodeOf(list[m], id)
    BY <1>2, <1>3, <2>1
  <2> HIDE DEF m
  <2>3. m \in 0..MAX_NUMBER_SEGMENTS
    BY <2>2
  <2> QED
    BY <2>2, <2>3 DEF m
<1> QED
  BY <1>4, <1>5

\* AddSegmentNode gives a node of the list, or none.
LEMMA AddIn ==
  ASSUME NEW list, Len(list) = MAX_SEGMENT_NODES
  PROVE  AddSegmentNode(list) \in 0..MAX_SEGMENT_NODES
<1> DEFINE I == {i \in 1..Len(list) : ~list[i].IsInUse}
<1>1. AddSegmentNode(list) = IF I # {} THEN Min(I) ELSE 0
  BY DEF AddSegmentNode, SelectInSeq
<1>2. I \subseteq Nat /\ I \subseteq 1..MAX_SEGMENT_NODES
  BY NodesAssumption
<1> HIDE DEF I
<1> DEFINE m == AddSegmentNode(list)
<1>3. m \in I \/ m = 0
  BY <1>1, <1>2, MinIn, Zenon
<1> HIDE DEF m
<1>4. m \in 1..MAX_SEGMENT_NODES \/ m = 0
  BY <1>2, <1>3
<1>5. m \in 0..MAX_SEGMENT_NODES
  BY <1>4, NodesAssumption
<1> QED
  BY <1>5 DEF m

\* A node holds the first segments of its component's xTEDS, in order, as they
\* are at versions v; a component that was replaced is excepted.
GoodNode(x, v) ==
  /\ x \in NodeType
  /\ x.received = 0..(Len(x.buffer) - 1)
  /\ x.IsInUse =>
       /\ x.xTEDSID \in Comp
       /\ x.NumSegments = Segments[x.xTEDSID]
       /\ Len(x.buffer) <= x.NumSegments
       /\ v[x.xTEDSID] = 0 => \A i \in 1..Len(x.buffer) : x.buffer[i] = <<0, i - 1>>

GoodNodes(list, v) ==
  /\ list \in [1..MAX_SEGMENT_NODES -> NodeType]
  /\ \A n \in 1..MAX_SEGMENT_NODES : GoodNode(list[n], v)

\* One node changed for a good one.
LEMMA GoodExcept ==
  ASSUME NEW v, NEW list, GoodNodes(list, v), NEW n, NEW x, GoodNode(x, v)
  PROVE  GoodNodes([list EXCEPT ![n] = x], v)
  BY DEF GoodNodes, GoodNode

\* Deleting keeps the rest.
LEMMA GoodDelete ==
  ASSUME NEW v, NEW list, GoodNodes(list, v), NEW id
  PROVE  GoodNodes(DeleteNode(list, id), v)
<1> DEFINE n == FindNodeEntry(list, id)
<1>1. n \in 0..MAX_SEGMENT_NODES
  BY FindIn, NodesAssumption
<1> HIDE DEF n
<1>2. CASE n = 0
  BY <1>2 DEF DeleteNode, n
<1>3. CASE n # 0
  <2>1. n \in 1..MAX_SEGMENT_NODES
    BY <1>1, <1>3
  <2>2. GoodNode(list[n], v)
    BY <2>1 DEF GoodNodes
  <2> DEFINE x == [list[n] EXCEPT !.IsInUse = FALSE]
  <2>3. GoodNode(x, v)
    BY <2>2 DEF GoodNode, NodeType
  <2>4. DeleteNode(list, id) = [list EXCEPT ![n] = x]
    BY <1>3 DEF DeleteNode, n
  <2> HIDE DEF x
  <2>5. GoodNodes([list EXCEPT ![n] = x], v)
    BY <2>3, GoodExcept, Zenon
  <2> QED
    BY <2>4, <2>5
<1> QED
  BY <1>2, <1>3

\* Segment k of c at the end of a node of c that has the ones before it.
LEMMA GoodApply ==
  ASSUME NEW v \in [Comp -> {0, 1}], NEW x, GoodNode(x, v), NEW c \in Comp,
         x.IsInUse, x.xTEDSID = c,
         NEW k \in Nat, k < Segments[c], x.received = 0..(k - 1)
  PROVE  GoodNode([x EXCEPT !.received = @ \cup {k},
                            !.buffer = Append(@, <<v[c], k>>)], v)
<1> DEFINE y == [x EXCEPT !.received = @ \cup {k}, !.buffer = Append(@, <<v[c], k>>)]
           m == Len(x.buffer)
<1>1. /\ x \in NodeType /\ x.buffer \in Seq(Nat \X Nat) /\ m \in Nat
      /\ x.received = 0..(m - 1)
  BY DEF GoodNode, NodeType
<1>2. m = k
  <2>1. 0..(m - 1) = 0..(k - 1)
    BY <1>1
  <2> HIDE DEF m
  <2>2. ~(m < k)
    BY <1>1, <2>1
  <2>3. ~(k < m)
    BY <1>1, <2>1
  <2> QED
    BY <1>1, <2>2, <2>3
<1>3. <<v[c], k>> \in Nat \X Nat
  OBVIOUS
<1>4. /\ y.buffer = Append(x.buffer, <<v[c], k>>)
      /\ y.received = 0..k
      /\ y.IsInUse = x.IsInUse /\ y.xTEDSID = c /\ y.NumSegments = x.NumSegments
      /\ y \in NodeType
  <2>1. (0..(k - 1)) \cup {k} = 0..k /\ 0..k \in SUBSET Nat
    OBVIOUS
  <2>2. Append(x.buffer, <<v[c], k>>) \in Seq(Nat \X Nat)
    BY <1>1, <1>3
  <2> QED
    BY <1>1, <2>1, <2>2 DEF NodeType
<1>5. Len(y.buffer) = k + 1
  <2> HIDE DEF y
  <2> QED
    BY <1>1, <1>2, <1>3, <1>4
<1>6. y.NumSegments = Segments[c] /\ k + 1 <= Segments[c]
  BY <1>4, SegmentsAssumption DEF GoodNode
<1>7. ASSUME v[c] = 0
      PROVE  \A i \in 1..(k + 1) : y.buffer[i] = <<0, i - 1>>
  <2> TAKE i \in 1..(k + 1)
  <2>1. CASE i = k + 1
    BY <1>1, <1>2, <1>4, <1>7, <2>1
  <2>2. CASE i # k + 1
    <3>1. i \in 1..m
      BY <1>2, <2>2
    <3>2. x.buffer[i] = <<0, i - 1>>
      BY <1>7, <3>1 DEF GoodNode
    <3>3. y.buffer[i] = x.buffer[i]
      BY <1>1, <1>4, <3>1
    <3> QED
      BY <3>2, <3>3
  <2> QED
    BY <2>1, <2>2
<1> HIDE DEF y, m
<1>8. y.received = 0..(Len(y.buffer) - 1)
  BY <1>4, <1>5
<1>9. GoodNode(y, v)
  BY <1>4, <1>5, <1>6, <1>7, <1>8 DEF GoodNode
<1> QED
  BY <1>9 DEF y

\* What a segment of c does to the nodes.
LEMMA GoodFirst ==
  ASSUME NEW v \in [Comp -> {0, 1}], NEW list, GoodNodes(list, v), NEW c \in Comp,
         NEW k \in Nat, k < Segments[c]
  PROVE  GoodNodes(FirstSegment(list, c, k, Segments[c], <<v[c], k>>).list, v)
<1> DEFINE n == AddSegmentNode(list)
           new == [IsInUse |-> TRUE, xTEDSID |-> c, NumSegments |-> Segments[c],
                   received |-> {}, buffer |-> << >>]
           added == [list EXCEPT ![n] = new]
           full == [new EXCEPT !.received = @ \cup {k},
                               !.buffer = Append(@, <<v[c], k>>)]
           r == FirstSegment(list, c, k, Segments[c], <<v[c], k>>)
<1>1. n \in 0..MAX_SEGMENT_NODES
  <2>1. Len(list) = MAX_SEGMENT_NODES
    BY NodesAssumption DEF GoodNodes
  <2> QED
    BY <2>1, AddIn
<1>2. n = 0 \/ n \in DOMAIN list
  BY <1>1 DEF GoodNodes
<1>3. GoodNode(new, v)
  <2>1. new \in NodeType
    BY SegmentsAssumption, CompAssumption DEF NodeType, Comp
  <2>2. Len(new.buffer) = 0 /\ new.received = {} /\ new.xTEDSID = c
        /\ new.NumSegments = Segments[c] /\ Segments[c] \in Nat
    BY SegmentsAssumption
  <2> HIDE DEF new
  <2>3. new.received = 0..(Len(new.buffer) - 1)
    BY <2>2
  <2> QED
    BY <2>1, <2>2, <2>3 DEF GoodNode
<1>4. GoodNodes(added, v)
  <2> HIDE DEF new, n
  <2> QED
    BY <1>3, GoodExcept, Zenon
<1>5. CASE k # 0 \/ n = 0
  BY <1>5 DEF FirstSegment
<1>6. CASE ~(k # 0 \/ n = 0) /\ Segments[c] > MAX_NUMBER_SEGMENTS
  <2>1. r.list = DeleteNode(added, c)
    BY <1>6 DEF FirstSegment
  <2> HIDE DEF added, r
  <2>2. GoodNodes(DeleteNode(added, c), v)
    BY <1>4, GoodDelete, Zenon
  <2> QED
    BY <2>1, <2>2 DEF r
<1>7. CASE ~(k # 0 \/ n = 0) /\ ~(Segments[c] > MAX_NUMBER_SEGMENTS)
  <2>1. r.list = Apply(added, n, k, <<v[c], k>>)
    BY <1>7 DEF FirstSegment
  <2>2. GoodNode(full, v)
    <3>1. new.IsInUse /\ new.xTEDSID = c /\ new.received = {} /\ k = 0
      BY <1>7
    <3> HIDE DEF new
    <3>2. new.received = 0..(k - 1)
      BY <3>1
    <3> QED
      BY <1>3, <3>1, <3>2, GoodApply
  <2>3. Apply(added, n, k, <<v[c], k>>) = [list EXCEPT ![n] = full]
    <3> HIDE DEF n, new
    <3> QED
      BY <1>2, <1>7 DEF Apply
  <2>4. GoodNodes([list EXCEPT ![n] = full], v)
    <3> HIDE DEF full, n
    <3> QED
      BY <2>2, GoodExcept, Zenon
  <2> QED
    BY <2>1, <2>3, <2>4
<1> QED
  BY <1>5, <1>6, <1>7

\* A segment added to its node keeps every node good.
LEMMA GoodSegment ==
  ASSUME NEW v \in [Comp -> {0, 1}], NEW list, GoodNodes(list, v), NEW c \in Comp,
         NEW k \in Nat, k < Segments[c]
  PROVE  GoodNodes(ApplySegment(list, FindNodeEntry(list, c), c, k, Segments[c],
                                <<v[c], k>>).list, v)
<1> DEFINE n == FindNodeEntry(list, c)
           text == <<v[c], k>>
           r == ApplySegment(list, n, c, k, Segments[c], text)
           full == [list[n] EXCEPT !.received = @ \cup {k}, !.buffer = Append(@, text)]
<1>1. n \in 0..MAX_SEGMENT_NODES /\ (n # 0 => IsNodeOf(list[n], c))
  BY FindIn, NodesAssumption
<1>2. CASE n = 0
  <2>1. r = FirstSegment(list, c, k, Segments[c], text)
    BY <1>2 DEF ApplySegment
  <2>2. GoodNodes(FirstSegment(list, c, k, Segments[c], text).list, v)
    BY GoodFirst
  <2> QED
    BY <2>1, <2>2
<1>3. CASE n # 0 /\ (AlreadyReceived(k, list[n]) \/ ~SentInOrder(k, list[n]))
  BY <1>3 DEF ApplySegment
<1>4. CASE n # 0 /\ ~AlreadyReceived(k, list[n]) /\ SentInOrder(k, list[n])
  <2>1. r.list = Apply(list, n, k, text)
    BY <1>4 DEF ApplySegment
  <2>2. n \in 1..MAX_SEGMENT_NODES /\ n \in DOMAIN list /\ GoodNode(list[n], v)
    BY <1>1, <1>4 DEF GoodNodes
  <2>3. GoodNode(full, v)
    <3>1. list[n].IsInUse /\ list[n].xTEDSID = c /\ list[n].received = 0..(k - 1)
      BY <1>1, <1>4 DEF IsNodeOf, SentInOrder
    <3> HIDE DEF n
    <3> QED
      BY <2>2, <3>1, GoodApply
  <2>4. Apply(list, n, k, text) = [list EXCEPT ![n] = full]
    <3> HIDE DEF n
    <3> QED
      BY <2>2 DEF Apply
  <2>5. GoodNodes([list EXCEPT ![n] = full], v)
    <3> HIDE DEF full, n
    <3> QED
      BY <2>3, GoodExcept, Zenon
  <2> QED
    BY <2>1, <2>4, <2>5
<1> QED
  BY <1>2, <1>3, <1>4

\* A document that is finished is whole.
LEMMA FinishedIsWhole ==
  ASSUME NEW v \in [Comp -> {0, 1}], NEW list, GoodNodes(list, v), NEW c \in Comp,
         CheckIsFinished(list, c)
  PROVE  /\ GetFullxTEDS(list, c) \in Seq(Nat \X Nat)
         /\ v[c] = 0 => GetFullxTEDS(list, c) = Document(c, 0)
<1> DEFINE n == FindNodeEntry(list, c)
           b == list[n].buffer
<1>1. n # 0 /\ \A k \in 0..(list[n].NumSegments - 1) : k \in list[n].received
  BY DEF CheckIsFinished
<1>2. n \in 1..MAX_SEGMENT_NODES /\ IsNodeOf(list[n], c) /\ GoodNode(list[n], v)
  <2>1. n \in 0..MAX_SEGMENT_NODES /\ (n # 0 => IsNodeOf(list[n], c))
    BY FindIn, NodesAssumption
  <2>2. n \in 1..MAX_SEGMENT_NODES
    BY <1>1, <2>1
  <2> QED
    BY <1>1, <2>1, <2>2 DEF GoodNodes
<1>3. GetFullxTEDS(list, c) = b
  BY DEF GetFullxTEDS
<1> HIDE DEF n
<1>4. /\ b \in Seq(Nat \X Nat) /\ Len(b) \in Nat /\ Len(b) <= Segments[c]
      /\ list[n].received = 0..(Len(b) - 1) /\ list[n].NumSegments = Segments[c]
      /\ Segments[c] \in Nat
      /\ v[c] = 0 => \A i \in 1..Len(b) : b[i] = <<0, i - 1>>
  BY <1>2, SegmentsAssumption DEF GoodNode, NodeType, IsNodeOf
<1> HIDE DEF b
<1>5. Len(b) = Segments[c]
  <2>1. \A k \in 0..(Segments[c] - 1) : k \in 0..(Len(b) - 1)
    BY <1>1, <1>4
  <2> DEFINE m == Len(b)
             t == Segments[c]
  <2>2. m \in Nat /\ t \in Nat /\ m <= t /\ \A k \in 0..(t - 1) : k \in 0..(m - 1)
    BY <1>4, <2>1
  <2> HIDE DEF m, t
  <2>3. m \notin 0..(m - 1)
    BY <2>2
  <2>4. m \notin 0..(t - 1)
    BY <2>2, <2>3
  <2>5. m = t
    BY <2>2, <2>4
  <2> QED
    BY <2>5 DEF m, t
<1>6. ASSUME v[c] = 0
      PROVE  b = Document(c, 0)
  <2> DEFINE f == Document(c, 0)
             t == Segments[c]
  <2>1. DOMAIN f = 1..t /\ f = [i \in 1..t |-> f[i]]
        /\ \A i \in 1..t : f[i] = <<0, i - 1>>
    BY DEF Document
  <2>2. b = [i \in 1..t |-> b[i]] /\ \A i \in 1..t : b[i] = <<0, i - 1>>
    BY <1>4, <1>5, <1>6
  <2> HIDE DEF f, t
  <2>3. b = f
    BY <2>1, <2>2
  <2> QED
    BY <2>3 DEF f
<1> QED
  BY <1>3, <1>4, <1>6

-----------------------------------------------------------------------------
(* Invariants.                                                             *)

OtherTypes ==
  /\ deviceQueue \in Ring /\ applicationQueue \in Ring
  /\ turn \in Id \cup {NoId}
  /\ registerNext \in BOOLEAN /\ expired \in BOOLEAN
  /\ pc \in {"boot", "check", "sent"}
  /\ documents \subseteq Comp \X Seq(Nat \X Nat)
  /\ acked \subseteq Comp /\ asked \subseteq Comp \cup {NoId}
  /\ hellos \in 0..MaxHellos
  /\ version \in [Comp -> {0, 1}]

Inv == OtherTypes /\ GoodNodes(NodeList, version) /\ WholeDocument

\* The segments a node has received are as many as its buffer is long.
LEMMA InvTypeOK == Inv => TypeOK
<1> SUFFICES ASSUME Inv PROVE TypeOK
  OBVIOUS
<1>1. ASSUME NEW n \in 1..MAX_SEGMENT_NODES
      PROVE  Cardinality(NodeList[n].received) = Len(NodeList[n].buffer)
  <2> DEFINE m == Len(NodeList[n].buffer)
  <2>1. NodeList[n].received = 0..(m - 1) /\ m \in Nat
    BY DEF Inv, GoodNodes, GoodNode, NodeType
  <2> HIDE DEF m
  <2>2. Cardinality(0..(m - 1)) = IF 0 > m - 1 THEN 0 ELSE (m - 1) - 0 + 1
    BY <2>1, FS_Interval
  <2>3. Cardinality(0..(m - 1)) = m
    BY <2>1, <2>2
  <2> QED
    BY <2>1, <2>3 DEF m
<1> QED
  BY <1>1 DEF Inv, OtherTypes, GoodNodes, TypeOK

\* The invariant holds initially.
LEMMA InitInv == Init => Inv
<1> SUFFICES ASSUME Init PROVE Inv
  OBVIOUS
<1>1. EmptyRing \in Ring
  BY RingSizeAssumption DEF EmptyRing, Ring
<1>2. OtherTypes
  BY <1>1, HelloAssumption DEF Init, OtherTypes
<1>3. GoodNode(FreeNode(NoId), version)
  <2> DEFINE x == FreeNode(NoId)
  <2>1. x \in NodeType /\ x.received = {} /\ x.buffer = << >> /\ ~x.IsInUse
    BY DEF FreeNode, NodeType
  <2> HIDE DEF x
  <2>2. x.received = 0..(Len(x.buffer) - 1)
    BY <2>1
  <2>3. GoodNode(x, version)
    BY <2>1, <2>2 DEF GoodNode
  <2> QED
    BY <2>3 DEF x
<1>4. GoodNodes(NodeList, version)
  <2>1. NodeList = [n \in 1..MAX_SEGMENT_NODES |-> FreeNode(NoId)]
    BY DEF Init, NoNodes
  <2>2. FreeNode(NoId) \in NodeType
    BY <1>3 DEF GoodNode
  <2> QED
    BY <1>3, <2>1, <2>2 DEF GoodNodes
<1> QED
  BY <1>2, <1>4 DEF Inv, WholeDocument, Init

\* A Hello preserves it.
LEMMA HelloInv ==
  ASSUME Inv, NEW c \in Comp, Hello(c)
  PROVE  Inv'
<1>1. Queued(deviceQueue, c) \in Ring /\ Queued(applicationQueue, c) \in Ring
  BY RingKept, CompAssumption DEF Inv, OtherTypes, Comp
<1>2. OtherTypes'
  BY <1>1, HelloAssumption DEF Inv, OtherTypes, Hello, handlerVars
<1>3. NodeList' = NodeList /\ version' = version /\ documents' = documents
  BY DEF Hello
<1> QED
  BY <1>2, <1>3 DEF Inv, WholeDocument

\* A segment, first, repeated or last, preserves it.
LEMMA SegmentInv ==
  ASSUME Inv, NEW c \in Comp, NEW k \in 0..(Segments[c] - 1), SegmentedxTEDS(c, k)
  PROVE  Inv'
<1> DEFINE list == ApplySegment(NodeList, FindNodeEntry(NodeList, c), c, k,
                                Segments[c], Text(c, k)).list
           ok == ApplySegment(NodeList, FindNodeEntry(NodeList, c), c, k,
                              Segments[c], Text(c, k)).ok
<1>1. version' = version /\ version \in [Comp -> {0, 1}]
  BY DEF SegmentedxTEDS, envVars, Inv, OtherTypes
<1>2. GoodNodes(list, version)
  <2>1. k \in Nat /\ k < Segments[c]
    BY SegmentsAssumption
  <2> QED
    BY <1>1, <2>1, GoodSegment DEF Inv, Text
<1>3. \/ /\ CheckIsFinished(list, c)
         /\ documents' = documents \cup {<<c, GetFullxTEDS(list, c)>>}
         /\ NodeList' = DeleteNode(list, c)
      \/ /\ NodeList' = list
         /\ documents' = documents
  BY DEF SegmentedxTEDS
<1> HIDE DEF list, ok
<1>4. GoodNodes(NodeList', version)
  BY <1>2, <1>3, GoodDelete
<1>5. /\ documents' \subseteq Comp \X Seq(Nat \X Nat)
      /\ WholeDocument'
  <2>1. CASE documents' = documents
    BY <1>1, <2>1 DEF Inv, OtherTypes, WholeDocument
  <2>2. CASE /\ CheckIsFinished(list, c)
             /\ documents' = documents \cup {<<c, GetFullxTEDS(list, c)>>}
    <3>1. /\ GetFullxTEDS(list, c) \in Seq(Nat \X Nat)
          /\ version[c] = 0 => GetFullxTEDS(list, c) = Document(c, 0)
      BY <1>1, <1>2, <2>2, FinishedIsWhole
    <3>2. documents' \subseteq Comp \X Seq(Nat \X Nat)
      BY <2>2, <3>1 DEF Inv, OtherTypes
    <3>3. ASSUME NEW d \in documents', version'[d[1]] = 0
          PROVE  d[2] = Document(d[1], 0)
      <4>1. CASE d \in documents
        BY <1>1, <3>3, <4>1 DEF Inv, WholeDocument
      <4>2. CASE d = <<c, GetFullxTEDS(list, c)>>
        BY <1>1, <3>1, <3>3, <4>2
      <4> QED
        BY <2>2, <4>1, <4>2
    <3> QED
      BY <3>2, <3>3 DEF WholeDocument
  <2> QED
    BY <1>3, <2>1, <2>2
<1>6. OtherTypes'
  BY <1>5 DEF SegmentedxTEDS, queueVars, envVars, Inv, OtherTypes
<1> QED
  BY <1>1, <1>4, <1>5, <1>6 DEF Inv

\* A device that is replaced has no document any more to be held to.
LEMMA ReplaceInv ==
  ASSUME Inv, NEW c \in Comp, Replace(c)
  PROVE  Inv'
<1>1. /\ version \in [Comp -> {0, 1}] /\ version' = [version EXCEPT ![c] = 1]
      /\ NodeList' = NodeList /\ documents' = documents
  BY DEF Replace, Inv, OtherTypes
<1>2. \A d \in Comp : version'[d] = 0 => version[d] = 0
  BY <1>1
<1>3. OtherTypes'
  BY <1>1 DEF Replace, queueVars, handlerVars, Inv, OtherTypes
<1>4. GoodNodes(NodeList, version)
  BY DEF Inv
<1>5. \A x : GoodNode(x, version) => GoodNode(x, version')
  BY <1>2 DEF GoodNode
<1>6. GoodNodes(NodeList', version')
  BY <1>1, <1>4, <1>5 DEF GoodNodes
<1>7. WholeDocument'
  <2>1. \A d \in documents : d[1] \in Comp
    BY DEF Inv, OtherTypes
  <2> QED
    BY <1>1, <1>2, <2>1 DEF Inv, WholeDocument
<1> QED
  BY <1>3, <1>6, <1>7 DEF Inv

\* A request for an xTEDS preserves it.
LEMMA SendsInv ==
  ASSUME Inv, HandlerSends
  PROVE  Inv'
<1>1. NodeList' = NodeList /\ version' = version /\ documents' = documents
  BY DEF HandlerSends
<1>2. /\ front(deviceQueue) \in Id \cup {NoId}
      /\ front(applicationQueue) \in Id \cup {NoId}
      /\ dequeue(deviceQueue) \in Ring /\ dequeue(applicationQueue) \in Ring
  BY DequeueKept DEF Inv, OtherTypes
<1>3. OtherTypes'
  BY <1>2, CompAssumption DEF HandlerSends, Dequeue, AskFront, Inv, OtherTypes, Comp
<1> QED
  BY <1>1, <1>3 DEF Inv, WholeDocument

\* Every step preserves it.
LEMMA NextInv == Inv /\ [Next]_vars => Inv'
<1> SUFFICES ASSUME Inv, [Next]_vars PROVE Inv'
  OBVIOUS
<1>1. ASSUME NEW c \in Comp, Hello(c) PROVE Inv'
  BY <1>1, HelloInv
<1>2. ASSUME NEW c \in Comp, WholexTEDS(c) PROVE Inv'
  BY <1>2 DEF WholexTEDS, queueVars, envVars, Inv, OtherTypes, WholeDocument
<1>3. ASSUME NEW c \in Comp, NEW k \in 0..(Segments[c] - 1), SegmentedxTEDS(c, k)
      PROVE  Inv'
  BY <1>3, SegmentInv
<1>4. ASSUME NEW c \in Comp, Replace(c) PROVE Inv'
  BY <1>4, ReplaceInv
<1>5. CASE HandlerStarts \/ HandlerIdles \/ HandlerWaits
  BY <1>5 DEF HandlerStarts, HandlerIdles, HandlerWaits, queueVars, envVars, Inv,
              OtherTypes, WholeDocument
<1>6. CASE HandlerSends
  BY <1>6, SendsInv
<1>7. CASE TimeOut
  BY <1>7 DEF TimeOut, queueVars, envVars, Inv, OtherTypes, WholeDocument
<1>8. CASE UNCHANGED vars
  BY <1>8 DEF vars, queueVars, handlerVars, envVars, Inv, OtherTypes, WholeDocument
<1> QED
  BY <1>1, <1>2, <1>3, <1>4, <1>5, <1>6, <1>7, <1>8 DEF Next, Handler, Receive

\* The state is well-typed; a node's marks and its buffer agree.
THEOREM Spec_TypeOK == Spec => []TypeOK
<1> QED
  BY InitInv, NextInv, InvTypeOK, PTL DEF Spec

\* WholeDocument: what the builder hands over is what the component sent, for
\* any number of senders at a time and any loss, repetition and reordering of
\* their segments.
THEOREM Spec_WholeDocument == Spec => []WholeDocument
<1>1. Inv => WholeDocument
  BY DEF Inv
<1> QED
  BY <1>1, InitInv, NextInv, PTL DEF Spec

-----------------------------------------------------------------------------
(* The contract.                                                           *)

\* While the rings are not worn they are straight: a Hello uses up at most one
\* slot.
RingInv ==
  /\ Straight(deviceQueue) /\ Straight(applicationQueue)
  /\ deviceQueue.tail <= hellos /\ applicationQueue.tail <= hellos
  /\ hellos \in 0..MaxHellos

\* Initially the rings are straight.
LEMMA InitRing == Init => RingInv
<1> SUFFICES ASSUME Init PROVE RingInv
  OBVIOUS
<1>1. EmptyRing \in Ring /\ EmptyRing.head = 0 /\ EmptyRing.tail = 0
  BY RingSizeAssumption DEF EmptyRing, Ring
<1> QED
  BY <1>1, HelloAssumption DEF Init, RingInv, Straight

\* What queueing an id does, worn out excluded.
LEMMA QueuedLine ==
  ASSUME NEW q, Straight(q), NEW c \in Id, q.tail < SIZE - 2
  PROVE  /\ Straight(Queued(q, c)) /\ Queued(q, c).tail <= q.tail + 1
         /\ \/ Queued(q, c) = q
            \/ /\ ~Contract!Waits(Contents(q), c)
               /\ Contents(Queued(q, c)) = Append(Contents(q), c)
<1>1. q.tail \in Int
  BY RingSizeAssumption DEF Straight, Ring
<1>2. CASE find(q, c)
  BY <1>1, <1>2 DEF Queued
<1>3. CASE ~find(q, c)
  <2>1. Queued(q, c) = add(q, c)
    BY <1>3 DEF Queued
  <2>2. ~Contract!Waits(Contents(q), c)
    BY <1>3, FindWaits DEF Contract!Waits
  <2> QED
    BY <1>1, <2>1, <2>2, AddAppends
<1> QED
  BY <1>2, <1>3

\* A Hello is one of the contract: a place in line, or none for one already
\* in it.
LEMMA HelloContract ==
  ASSUME NotWorn, RingInv, NEW c \in Comp, Hello(c)
  PROVE  RingInv' /\ [Contract!Next]_(Contract!contractVars)
<1>1. /\ hellos \in Nat /\ hellos < MaxHellos /\ hellos' = hellos + 1
      /\ turn' = turn /\ hellos' \in 0..MaxHellos
  BY HelloAssumption DEF RingInv, Hello
<1>2. /\ deviceQueue.tail \in Nat /\ applicationQueue.tail \in Nat
  BY RingSizeAssumption DEF RingInv, Straight, Ring
<1>3. deviceQueue.tail < SIZE - 2 /\ applicationQueue.tail < SIZE - 2
  BY <1>1, <1>2, RingSizeAssumption, HelloAssumption DEF RingInv, NotWorn
<1>4. c \in Id
  BY CompAssumption DEF Comp
<1>5. CASE /\ c \in Device
           /\ deviceQueue' = Queued(deviceQueue, c)
           /\ applicationQueue' = applicationQueue
  <2>1. /\ Straight(deviceQueue') /\ deviceQueue'.tail <= deviceQueue.tail + 1
        /\ \/ deviceQueue' = deviceQueue
           \/ /\ ~Contract!Waits(Contents(deviceQueue), c)
              /\ Contents(deviceQueue') = Append(Contents(deviceQueue), c)
    BY <1>3, <1>4, <1>5, QueuedLine DEF RingInv
  <2>2. deviceQueue'.tail \in Int
    BY <2>1, RingSizeAssumption DEF Straight, Ring
  <2>3. RingInv'
    BY <1>1, <1>2, <1>5, <2>1, <2>2 DEF RingInv
  <2>4. CASE deviceQueue' = deviceQueue
    BY <1>1, <1>5, <2>3, <2>4 DEF Contract!contractVars
  <2>5. CASE /\ ~Contract!Waits(Contents(deviceQueue), c)
             /\ Contents(deviceQueue') = Append(Contents(deviceQueue), c)
    <3>1. Contract!DeviceHello(c)
      BY <1>1, <1>5, <2>5 DEF Contract!DeviceHello
    <3> QED
      BY <1>5, <2>3, <3>1 DEF Contract!Next
  <2> QED
    BY <2>1, <2>4, <2>5
<1>6. CASE /\ c \in Application
           /\ applicationQueue' = Queued(applicationQueue, c)
           /\ deviceQueue' = deviceQueue
  <2>1. /\ Straight(applicationQueue')
        /\ applicationQueue'.tail <= applicationQueue.tail + 1
        /\ \/ applicationQueue' = applicationQueue
           \/ /\ ~Contract!Waits(Contents(applicationQueue), c)
              /\ Contents(applicationQueue') = Append(Contents(applicationQueue), c)
    BY <1>3, <1>4, <1>6, QueuedLine DEF RingInv
  <2>2. applicationQueue'.tail \in Int
    BY <2>1, RingSizeAssumption DEF Straight, Ring
  <2>3. RingInv'
    BY <1>1, <1>2, <1>6, <2>1, <2>2 DEF RingInv
  <2>4. CASE applicationQueue' = applicationQueue
    BY <1>1, <1>6, <2>3, <2>4 DEF Contract!contractVars
  <2>5. CASE /\ ~Contract!Waits(Contents(applicationQueue), c)
             /\ Contents(applicationQueue') = Append(Contents(applicationQueue), c)
    <3>1. Contract!ApplicationHello(c)
      BY <1>1, <1>6, <2>5 DEF Contract!ApplicationHello
    <3> QED
      BY <1>6, <2>3, <3>1 DEF Contract!Next
  <2> QED
    BY <2>1, <2>4, <2>5
<1> QED
  BY <1>5, <1>6 DEF Hello

\* size tells an empty line from one that is not, and the front is its head.
LEMMA LineFront ==
  ASSUME NEW q, Straight(q), q.tail <= SIZE - 2
  PROVE  /\ size(q) = 0 => Contents(q) = << >>
         /\ size(q) # 0 =>
              /\ Straight(dequeue(q)) /\ dequeue(q).tail = q.tail
              /\ Contents(q) # << >> /\ front(q) = Head(Contents(q))
              /\ Contents(dequeue(q)) = Tail(Contents(q))
<1>1. q.head \in Int /\ q.tail \in Int /\ q.head <= q.tail
  BY RingSizeAssumption DEF Straight, Ring
<1>2. /\ Contents(q) \in Seq(Id \cup {NoId}) /\ Len(Contents(q)) = q.tail - q.head
      /\ size(q) = q.tail - q.head
  BY ContentsSeq
<1>3. size(q) = 0 => Contents(q) = << >>
  <2> DEFINE f == Contents(q)
  <2>1. f \in Seq(Id \cup {NoId}) /\ (size(q) = 0 => Len(f) = 0)
    BY <1>2
  <2> HIDE DEF f
  <2>2. size(q) = 0 => f = << >>
    BY <2>1
  <2> QED
    BY <2>2 DEF f
<1>4. size(q) # 0 => q.head < q.tail
  BY <1>1, <1>2
<1> QED
  BY <1>3, <1>4, DequeueTails

\* Asking for an xTEDS is serving the first in line.
LEMMA SendsContract ==
  ASSUME NotWorn, RingInv, HandlerSends
  PROVE  RingInv' /\ Contract!Next
<1>1. hellos \in Nat /\ hellos' = hellos /\ hellos <= MaxHellos
  BY HelloAssumption DEF RingInv, HandlerSends
<1>2. /\ deviceQueue.tail \in Nat /\ applicationQueue.tail \in Nat
  BY RingSizeAssumption DEF RingInv, Straight, Ring
<1>3. deviceQueue.tail <= SIZE - 2 /\ applicationQueue.tail <= SIZE - 2
  BY <1>1, <1>2, RingSizeAssumption, HelloAssumption DEF RingInv, NotWorn
<1>4. CASE /\ size(deviceQueue) # 0 /\ turn' = front(deviceQueue)
           /\ deviceQueue' = dequeue(deviceQueue)
           /\ applicationQueue' = applicationQueue
  <2>1. /\ Straight(deviceQueue') /\ deviceQueue'.tail = deviceQueue.tail
        /\ Contents(deviceQueue) # << >>
        /\ turn' = Head(Contents(deviceQueue))
        /\ Contents(deviceQueue') = Tail(Contents(deviceQueue))
    BY <1>3, <1>4, LineFront DEF RingInv
  <2>2. RingInv'
    BY <1>1, <1>4, <2>1 DEF RingInv
  <2>3. Contract!Ask
    BY <1>4, <2>1 DEF Contract!Ask
  <2> QED
    BY <2>2, <2>3 DEF Contract!Next
<1>5. CASE /\ size(deviceQueue) = 0 /\ size(applicationQueue) # 0
           /\ turn' = front(applicationQueue)
           /\ applicationQueue' = dequeue(applicationQueue)
           /\ deviceQueue' = deviceQueue
  <2>1. /\ Straight(applicationQueue') /\ applicationQueue'.tail = applicationQueue.tail
        /\ Contents(applicationQueue) # << >>
        /\ turn' = Head(Contents(applicationQueue))
        /\ Contents(applicationQueue') = Tail(Contents(applicationQueue))
        /\ Contents(deviceQueue) = << >>
    BY <1>3, <1>5, LineFront DEF RingInv
  <2>2. RingInv'
    BY <1>1, <1>5, <2>1 DEF RingInv
  <2>3. Contract!Ask
    BY <1>5, <2>1 DEF Contract!Ask
  <2> QED
    BY <2>2, <2>3 DEF Contract!Next
<1> QED
  BY <1>4, <1>5 DEF HandlerSends, Dequeue, AskFront

\* Every step is one of the contract, or a stutter.
LEMMA NextContract ==
  ASSUME NotWorn
  PROVE  RingInv /\ [Next]_vars => RingInv' /\ [Contract!Next]_(Contract!contractVars)
<1> SUFFICES ASSUME RingInv, [Next]_vars
             PROVE  RingInv' /\ [Contract!Next]_(Contract!contractVars)
  OBVIOUS
<1>1. ASSUME NEW c \in Comp, Hello(c)
      PROVE  RingInv' /\ [Contract!Next]_(Contract!contractVars)
  BY <1>1, HelloContract
<1>2. CASE HandlerSends
  BY <1>2, SendsContract
<1>3. ASSUME UNCHANGED <<queueVars, hellos>>
      PROVE  RingInv' /\ [Contract!Next]_(Contract!contractVars)
  BY <1>3 DEF queueVars, RingInv, Contract!contractVars
<1>4. ASSUME NEW c \in Comp, Receive(c) \/ Replace(c)
      PROVE  UNCHANGED <<queueVars, hellos>>
  BY <1>4 DEF Receive, WholexTEDS, SegmentedxTEDS, Replace, envVars
<1>5. ASSUME HandlerStarts \/ HandlerIdles \/ HandlerWaits \/ TimeOut
      PROVE  UNCHANGED <<queueVars, hellos>>
  BY <1>5 DEF HandlerStarts, HandlerIdles, HandlerWaits, TimeOut, envVars
<1>6. ASSUME UNCHANGED vars
      PROVE  UNCHANGED <<queueVars, hellos>>
  BY <1>6 DEF vars, envVars
<1> QED
  BY <1>1, <1>2, <1>3, <1>4, <1>5, <1>6 DEF Next, Handler

\* ServedInOrder: as long as fewer Hellos have come than the ring has slots, the
\* two rings and RegistrationHandler implement RegContract.
THEOREM Spec_ServedInOrder ==
  ASSUME NotWorn
  PROVE  Spec => ServedInOrder
<1>1. Init => Contract!Init
  <2> SUFFICES ASSUME Init PROVE Contract!Init
    OBVIOUS
  <2>1. EmptyRing.head = 0 /\ EmptyRing.tail = 0
    BY DEF EmptyRing
  <2>2. Straight(EmptyRing) /\ EmptyRing.tail - EmptyRing.head = 0
    BY <2>1, InitRing DEF Init, RingInv
  <2>3. Contents(EmptyRing) = << >>
    BY <2>1, <2>2 DEF Contents
  <2> QED
    BY <2>3 DEF Init, Contract!Init
<1> QED
  BY <1>1, InitRing, NextContract, PTL DEF Spec, ServedInOrder, Contract!Spec
=============================================================================
