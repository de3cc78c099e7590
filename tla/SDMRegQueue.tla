---------------------------- MODULE SDMRegQueue ----------------------------
(***************************************************************************)
(* The ring of component ids that ask to register (common/SDMRegQueue.cpp; *)
(* SDMCancelQueue.cpp is the same code for pointers).  A queue is a record *)
(* of the array, headIndex and tailIndex, which count from 0.  A value in  *)
(* the array stays there after it was dequeued.                            *)
(***************************************************************************)
EXTENDS Integers, Sequences

CONSTANTS Id, NoId, SIZE

ASSUME RingSizeAssumption == SIZE \in Nat \ {0, 1}
ASSUME NoIdAssumption == NoId \notin Id

Ring == [queue : [0..(SIZE - 1) -> Id \cup {NoId}],
         head : 0..(SIZE - 2), tail : 0..(SIZE - 1)]

EmptyRing == [queue |-> [i \in 0..(SIZE - 1) |-> NoId], head |-> 0, tail |-> 0]

IsFull(q) == q.tail + 1 = q.head \/ (q.tail + 1 = SIZE - 1 /\ q.head = 0)

Put(q, id) ==
  LET t == IF q.tail = SIZE - 1 THEN 0 ELSE q.tail
  IN  [q EXCEPT !.queue = [@ EXCEPT ![t] = id], !.tail = t + 1]
\* A full queue drops the id.
add(q, id) == IF IsFull(q) THEN q ELSE Put(q, id)

\* What dequeue returns, and the queue afterwards.
front(q) == q.queue[q.head]
dequeue(q) == [q EXCEPT !.head = IF @ + 1 = SIZE - 1 THEN 0 ELSE @ + 1]

size(q) ==
  IF q.head <= q.tail THEN q.tail - q.head ELSE (SIZE - q.head) + q.tail

\* The indices find looks at.
Searched(q) ==
  IF q.head <= q.tail THEN q.head..(q.tail - 1)
                      ELSE (q.head..(SIZE - 1)) \cup (0..(q.tail - 1))
find(q, id) == \E i \in Searched(q) : q.queue[i] = id

\* The ids a queue that has not wrapped around holds, in the order they came.
Contents(q) == [i \in 1..(q.tail - q.head) |-> q.queue[q.head + i - 1]]
=============================================================================
