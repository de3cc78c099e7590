--------------------- MODULE DataManagerRegistryProofs ---------------------
(***************************************************************************)
(* Theorems about who is registered in DataManager, and who is told of it, *)
(* for any components, threads and requests and every value of the bounds: *)
(* a component that knows it is registered and runs is registered, one     *)
(* that has ended is not any more once its cancellation is done, and no    *)
(* provider goes on serving it; only the tasks that have ended are posted  *)
(* again; a client is told of every registration it asked for, and of the  *)
(* ends it asked for.                                                      *)
(***************************************************************************)
EXTENDS DataManagerProofs

-----------------------------------------------------------------------------
(* What is assumed of the components.                                      *)

\* A task is not both restarted by its PM after a failure and killed for good,
\* and what is killed for good is started once.
KilledForGood ==
  MayKill \cap MayFail = {} /\ \A c \in MayKill : MaxStarts[c] <= 1

\* A component registers again only after the DM has dealt with the end of its
\* earlier registration, and no two have one name.
Orderly == OwnNames /\ Patient /\ KilledForGood

-----------------------------------------------------------------------------
(* Where a component is.                                                   *)

Member == App \cup Sensor

\* Its cancellation waits, or is at work, or is at work and has found a slot.
Queued(c) == \E m \in Range(cancelQueue) : m.comp = c
Cancelling(c) == pc["cancel"] # "idle" /\ cur["cancel"].comp = c
Reaching(c) == Cancelling(c) /\ ref["cancel"] # 0
Leaving(c) == Queued(c) \/ Cancelling(c)
\* Its failure has been reported and is not dealt with.
Failing(c) == \/ \E m \in Range(pipe) : m.type = "TaskError" /\ m.comp = c
              \/ pc[child] \in {"wait", "publish"} /\ cur[child].comp = c
\* Its xTEDS has come in and has not reached the slots.
Registering(c) == \E t \in XThread : pc[t] \in {"parse", "wait"} /\ cur[t].comp = c
\* It was killed for good.
Gone(c) == life[c] = "off" /\ c \in MayKill /\ starts[c] >= 1

-----------------------------------------------------------------------------
(* The invariant.                                                          *)

LifeInv ==
  /\ life \in [Member -> {"off", "up"}] /\ conf \subseteq Member
  /\ \A c \in Member : life[c] = "up" => starts[c] >= 1
  /\ \A c \in MayKill : starts[c] <= 1

\* A pid names its task, and a PM cancels only for tasks killed for good.
OwnPid(p, c) == p[1] = c /\ (c \in MayKill => p[2] = 1)
OwnCancel(m) == OwnPid(m.pid, m.comp) /\ (m.byPM => m.comp \in MayKill)
SlotPids == \A i \in Slots : OwnPid(lib[i].pid, lib[i].comp)
QueuePids == \A m \in Range(cancelQueue) : OwnCancel(m)
PipePids == \A m \in Range(pipe) : m.type = "TaskError" => OwnPid(m.pid, m.comp)
ThreadPids ==
  /\ \A t \in XThread : pc[t] # "idle" => OwnPid(cur[t].pid, cur[t].comp)
  /\ pc[child] \in {"wait", "publish"} => cur[child].type = "TaskError"
PidInv == SlotPids /\ QueuePids /\ PipePids /\ ThreadPids

\* One registration of a component at a time is at work.
OneThread ==
  \A t, u \in XThread : /\ pc[t] # "idle" /\ pc[u] # "idle"
                        /\ cur[t].comp = cur[u].comp
                        => t = u

\* The slot a cancellation or a failure has found stays its component's.
RefOwn ==
  /\ pc["cancel"] # "idle" /\ ref["cancel"] # 0
       => lib[ref["cancel"]].comp = cur["cancel"].comp
  /\ pc[child] = "wait" /\ ref[child] # 0
       => /\ ~lib[ref[child]].available
          /\ lib[ref[child]].comp = cur[child].comp

\* A component registers, is registered, fails or leaves, one at a time.
Place(c) ==
  /\ Registering(c) => c \notin conf /\ (life[c] = "up" \/ Gone(c))
  /\ Registering(c) /\ life[c] = "up" => ~Leaving(c) /\ ~Failing(c)
  /\ c \in conf /\ life[c] = "up" => IsRegistered(c) /\ ~Leaving(c) /\ ~Failing(c)
  /\ Failing(c) => c \in MayFail /\ life[c] = "up" /\ c \notin conf /\ ~Leaving(c)
  /\ c \in conf /\ life[c] = "off" /\ ~Queued(c) /\ ~Reaching(c) => ~IsRegistered(c)
Places == \A c \in Member : Place(c)

RegInv == LifeInv /\ PidInv /\ OneThread /\ RefOwn /\ Places

\* Nothing is under way initially.
LEMMA RegInvInit == Init => RegInv
<1> SUFFICES ASSUME Init PROVE RegInv
  OBVIOUS
<1>1. /\ lib = <<DmSlot>> /\ cancelQueue = << >> /\ pipe = << >>
      /\ \A t \in Thread : pc[t] = "idle"
      /\ life = [c \in Member |-> "off"] /\ starts = [c \in Member |-> 0] /\ conf = {}
  BY DEF Init, Member
<1>2. Slots = {1} /\ lib[1].pid = <<DM, 0>> /\ lib[1].comp = DM
  BY <1>1 DEF Slots, DmSlot
<1>3. DM \notin MayKill
  BY DmCompAssumption, DmBoundsAssumption
<1>4. Range(cancelQueue) = {} /\ Range(pipe) = {}
  BY <1>1 DEF Range
<1>5. LifeInv
  <2>1. MayKill \subseteq Member
    BY DmBoundsAssumption DEF Member
  <2> QED
    BY <1>1, <2>1 DEF LifeInv
<1>6. PidInv
  BY <1>1, <1>2, <1>3, <1>4, Threads DEF PidInv, SlotPids, QueuePids, PipePids, ThreadPids,
                                       OwnPid
<1>7. OneThread /\ RefOwn
  BY <1>1, Threads DEF OneThread, RefOwn
<1>8. Places
  BY <1>1, <1>4, Threads DEF Places, Place, Registering, Failing
<1> QED
  BY <1>5, <1>6, <1>7, <1>8 DEF RegInv

-----------------------------------------------------------------------------
(* Queues as sets.                                                         *)

LEMMA RangeAppend ==
  ASSUME NEW S, NEW q \in Seq(S), NEW x
  PROVE  Range(Append(q, x)) = Range(q) \cup {x}
<1>1. /\ DOMAIN q = 1..Len(q) /\ Len(q) \in Nat
      /\ DOMAIN Append(q, x) = 1..(Len(q) + 1)
      /\ \A n \in 1..Len(q) : Append(q, x)[n] = q[n]
      /\ Append(q, x)[Len(q) + 1] = x
  OBVIOUS
<1> QED
  BY <1>1 DEF Range

\* What is taken off a queue was in it.
LEMMA RangeTail ==
  ASSUME NEW S, NEW q \in Seq(S), q # << >>
  PROVE  Range(q) = Range(Tail(q)) \cup {Head(q)} /\ Head(q) \in S
<1>1. /\ DOMAIN q = 1..Len(q) /\ Len(q) \in Nat \ {0} /\ Head(q) = q[1]
      /\ DOMAIN Tail(q) = 1..(Len(q) - 1)
      /\ \A n \in 1..(Len(q) - 1) : Tail(q)[n] = q[n + 1]
  OBVIOUS
<1>2. \A n \in 1..Len(q) : n = 1 \/ \E m \in 1..(Len(q) - 1) : n = m + 1
  <2> TAKE n \in 1..Len(q)
  <2>1. n # 1 => n - 1 \in 1..(Len(q) - 1) /\ n = (n - 1) + 1
    BY <1>1
  <2> QED
    BY <2>1
<1>3. Range(q) \subseteq Range(Tail(q)) \cup {Head(q)}
  <2> SUFFICES ASSUME NEW n \in 1..Len(q)
               PROVE  q[n] \in Range(Tail(q)) \cup {Head(q)}
    BY <1>1 DEF Range
  <2>1. CASE n = 1
    BY <1>1, <2>1
  <2>2. CASE n # 1
    <3>1. PICK m \in 1..(Len(q) - 1) : n = m + 1
      BY <1>2, <2>2
    <3>2. m \in DOMAIN Tail(q) /\ Tail(q)[m] = q[n]
      BY <1>1, <3>1
    <3> QED
      BY <3>2 DEF Range
  <2> QED
    BY <2>1, <2>2
<1>4. Range(Tail(q)) \cup {Head(q)} \subseteq Range(q)
  BY <1>1 DEF Range
<1> QED
  BY <1>1, <1>3, <1>4

-----------------------------------------------------------------------------
(* Steps that leave most of it alone.                                      *)

XKept ==
  \A t \in XThread :
    \/ pc'[t] = "idle"
    \/ /\ pc[t] # "idle" /\ cur'[t] = cur[t]
       /\ pc'[t] \in {"parse", "wait"} => pc[t] \in {"parse", "wait"}
CancelKept ==
  /\ pc'["cancel"] = "idle" <=> pc["cancel"] = "idle"
  /\ cur'["cancel"] = cur["cancel"] /\ ref'["cancel"] = ref["cancel"]
ChildKept ==
  \/ pc'[child] \notin {"wait", "publish"}
  \/ /\ pc[child] \in {"wait", "publish"} /\ cur'[child] = cur[child]
     /\ pc'[child] = "wait" => pc[child] = "wait" /\ ref'[child] = ref[child]
PipeKept == \A m \in Range(pipe') : m.type = "TaskError" => m \in Range(pipe)
InUseKept ==
  \A j \in Slots : ~lib[j].available
                     => ~lib'[j].available /\ lib'[j].comp = lib[j].comp

\* Registrations go on or are done with.
LEMMA XFrame ==
  ASSUME OneThread, ThreadPids, XKept
  PROVE  /\ OneThread'
         /\ \A t \in XThread : pc'[t] # "idle" => OwnPid(cur'[t].pid, cur'[t].comp)
         /\ \A c : Registering(c)' => Registering(c)
<1>1. OneThread'
  BY DEF OneThread, XKept
<1>2. \A t \in XThread : pc'[t] # "idle" => OwnPid(cur'[t].pid, cur'[t].comp)
  BY DEF ThreadPids, XKept
<1>3. ASSUME NEW c, Registering(c)' PROVE Registering(c)
  BY <1>3 DEF Registering, XKept
<1> QED
  BY <1>1, <1>2, <1>3

\* Failures go on or are done with.
LEMMA ChildFrame ==
  ASSUME ThreadPids, PipePids, ChildKept, PipeKept
  PROVE  /\ pc'[child] \in {"wait", "publish"} => cur'[child].type = "TaskError"
         /\ PipePids'
         /\ \A c : Failing(c)' => Failing(c)
<1>1. pc'[child] \in {"wait", "publish"} => cur'[child].type = "TaskError"
  BY DEF ThreadPids, ChildKept
<1>2. PipePids'
  BY DEF PipePids, PipeKept
<1>3. ASSUME NEW c, Failing(c)' PROVE Failing(c)
  BY <1>3 DEF Failing, ChildKept, PipeKept
<1> QED
  BY <1>1, <1>2, <1>3

\* Cancellations go on.
LEMMA CancelFrame ==
  ASSUME CancelKept, UNCHANGED cancelQueue
  PROVE  /\ QueuePids => QueuePids'
         /\ \A c : /\ Queued(c)' <=> Queued(c)
                   /\ Cancelling(c)' <=> Cancelling(c)
                   /\ Reaching(c)' <=> Reaching(c)
<1>1. QueuePids => QueuePids'
  BY DEF QueuePids
<1>2. ASSUME NEW c
      PROVE  /\ Queued(c)' <=> Queued(c)
             /\ Cancelling(c)' <=> Cancelling(c)
             /\ Reaching(c)' <=> Reaching(c)
  <2>1. Queued(c)' <=> Queued(c)
    BY DEF Queued
  <2>2. Cancelling(c)' <=> Cancelling(c)
    BY DEF CancelKept, Cancelling
  <2> QED
    BY <2>1, <2>2 DEF CancelKept, Reaching
<1> QED
  BY <1>1, <1>2

\* The slots found stay what they are.
LEMMA RefFrame ==
  ASSUME Types, SlotInv, RefOwn, InUseKept, ChildKept,
         CancelKept \/ pc'["cancel"] = "idle"
  PROVE  RefOwn'
<1>1. ref["cancel"] \in 0..Len(lib) /\ ref[child] \in 0..Len(lib) /\ Slots = 1..Len(lib)
      /\ Len(lib) \in Nat
  BY Threads, ThreadTypes DEF Types, RefType
<1>2. /\ ref["cancel"] # 0 => ref["cancel"] \in Slots
      /\ ref[child] # 0 => ref[child] \in Slots
  BY <1>1
<1>3. pc'["cancel"] # "idle" /\ ref'["cancel"] # 0
        => lib'[ref'["cancel"]].comp = cur'["cancel"].comp
  <2> SUFFICES ASSUME pc'["cancel"] # "idle", ref'["cancel"] # 0
               PROVE  lib'[ref'["cancel"]].comp = cur'["cancel"].comp
    OBVIOUS
  <2>1. /\ pc["cancel"] # "idle" /\ cur'["cancel"] = cur["cancel"]
        /\ ref'["cancel"] = ref["cancel"]
    BY DEF CancelKept
  <2>2. ~lib[ref["cancel"]].available /\ lib[ref["cancel"]].comp = cur["cancel"].comp
    BY <1>2, <2>1 DEF SlotInv, CancelHolds, Cancels, RefOwn
  <2> QED
    BY <1>2, <2>1, <2>2 DEF InUseKept
<1>4. pc'[child] = "wait" /\ ref'[child] # 0
        => ~lib'[ref'[child]].available /\ lib'[ref'[child]].comp = cur'[child].comp
  <2> SUFFICES ASSUME pc'[child] = "wait", ref'[child] # 0
               PROVE  ~lib'[ref'[child]].available /\ lib'[ref'[child]].comp = cur'[child].comp
    OBVIOUS
  <2>1. pc[child] = "wait" /\ cur'[child] = cur[child] /\ ref'[child] = ref[child]
    BY DEF ChildKept
  <2>2. ~lib[ref[child]].available /\ lib[ref[child]].comp = cur[child].comp
    BY <2>1 DEF RefOwn
  <2> QED
    BY <1>2, <2>1, <2>2 DEF InUseKept
<1> QED
  BY <1>3, <1>4 DEF RefOwn

\* Slots that keep their state keep their components.
LEMMA SlotFrame ==
  ASSUME Types, SlotsKept
  PROVE  /\ InUseKept /\ (SlotPids => SlotPids')
         /\ \A c : IsRegistered(c)' <=> IsRegistered(c)
<1>1. Slots' = Slots
  BY DEF SlotsKept, Types, LibType, Slots
<1>2. \A i \in Slots : SlotKept(i)
  BY DEF SlotsKept
<1>3. InUseKept
  BY <1>2 DEF SlotKept, InUseKept
<1>4. SlotPids => SlotPids'
  BY <1>1, <1>2 DEF SlotKept, SlotPids
<1>5. ASSUME NEW c PROVE IsRegistered(c)' <=> IsRegistered(c)
  BY <1>1, <1>2 DEF SlotKept, IsRegistered
<1> QED
  BY <1>3, <1>4, <1>5

\* A component to which nothing new happens stays where it is.
LEMMA PlaceKept ==
  ASSUME NEW c, Place(c),
         Registering(c)' => Registering(c), Failing(c)' => Failing(c),
         Queued(c)' <=> Queued(c), Cancelling(c)' => Cancelling(c),
         Reaching(c)' <=> Reaching(c), IsRegistered(c)' <=> IsRegistered(c),
         life'[c] = life[c], starts'[c] = starts[c], c \in conf' <=> c \in conf
  PROVE  Place(c)'
<1>1. Leaving(c)' => Leaving(c)
  BY DEF Leaving
<1>2. Gone(c)' <=> Gone(c)
  BY DEF Gone
<1> QED
  BY <1>1, <1>2 DEF Place

\* A step that is about none of this.
LEMMA RegFrame ==
  ASSUME Types, SlotInv, RegInv, SlotsKept, XKept, CancelKept, ChildKept, PipeKept,
         UNCHANGED <<cancelQueue, life, starts, conf>>
  PROVE  RegInv'
<1> USE DEF RegInv, PidInv
<1>1. LifeInv'
  BY DEF LifeInv
<1>2. /\ OneThread'
      /\ \A t \in XThread : pc'[t] # "idle" => OwnPid(cur'[t].pid, cur'[t].comp)
      /\ \A c : Registering(c)' => Registering(c)
  BY XFrame
<1>3. /\ pc'[child] \in {"wait", "publish"} => cur'[child].type = "TaskError"
      /\ PipePids'
      /\ \A c : Failing(c)' => Failing(c)
  BY ChildFrame
<1>4. /\ QueuePids'
      /\ \A c : /\ Queued(c)' <=> Queued(c)
                /\ Cancelling(c)' <=> Cancelling(c)
                /\ Reaching(c)' <=> Reaching(c)
  BY CancelFrame
<1>5. /\ InUseKept /\ SlotPids'
      /\ \A c : IsRegistered(c)' <=> IsRegistered(c)
  BY SlotFrame
<1>6. RefOwn'
  BY <1>5, RefFrame
<1>7. ThreadPids'
  BY <1>2, <1>3 DEF ThreadPids
<1>8. ASSUME NEW c \in Member PROVE Place(c)'
  <2>1. Place(c)
    BY DEF Places
  <2> QED
    BY <1>2, <1>3, <1>4, <1>5, <2>1, PlaceKept
<1>9. Places'
  BY <1>8 DEF Places
<1> QED
  BY <1>1, <1>2, <1>3, <1>4, <1>5, <1>6, <1>7, <1>9

\* Another thread than these moves.
LEMMA OtherMoves ==
  ASSUME Types, NEW t \in Thread,
         pc' = pc \/ \E x : pc' = [pc EXCEPT ![t] = x],
         cur' = cur \/ \E m : cur' = [cur EXCEPT ![t] = m],
         ref' = ref \/ \E r : ref' = [ref EXCEPT ![t] = r]
  PROVE  /\ t \notin XThread => XKept
         /\ t # "cancel" => CancelKept
         /\ t # child => ChildKept
<1>1. \A u \in Thread : u # t => pc'[u] = pc[u] /\ cur'[u] = cur[u] /\ ref'[u] = ref[u]
  <2>1. pc \in [Thread -> Pcs] /\ cur \in [Thread -> Message] /\ ref \in [Thread -> 0..Len(lib)]
    BY DEF Types, ThreadType, RefType
  <2> TAKE u \in Thread
  <2> HAVE u # t
  <2>2. pc'[u] = pc[u]
    BY <2>1
  <2>3. cur'[u] = cur[u]
    BY <2>1
  <2>4. ref'[u] = ref[u]
    BY <2>1
  <2> QED
    BY <2>2, <2>3, <2>4
<1>2. t \notin XThread => XKept
  BY <1>1, Threads DEF XKept
<1>3. t # "cancel" => CancelKept
  BY <1>1, Threads DEF CancelKept
<1>4. t # child => ChildKept
  BY <1>1, Threads DEF ChildKept
<1> QED
  BY <1>2, <1>3, <1>4

\* What is sent to the child.
LEMMA PipeSent ==
  ASSUME Types, NEW m, pipe' = Append(pipe, m)
  PROVE  /\ m.type # "TaskError" => PipeKept
         /\ Range(pipe') = Range(pipe) \cup {m}
<1>1. Range(pipe') = Range(pipe) \cup {m}
  BY RangeAppend DEF Types, QueueType
<1> QED
  BY <1>1 DEF PipeKept

\* Parse, xTEDSDone and the publications change nothing of it.
LEMMA QuietThreads ==
  ASSUME Types, SlotInv, RegInv,
         \/ \E t \in XThread : Parse(t) \/ xTEDSDone(t)
         \/ CancelFinish
         \/ \E t \in Thread : Publish(t)
         \/ TaskErrorDone
  PROVE  RegInv'
<1>1. ASSUME NEW t \in XThread, Parse(t) \/ xTEDSDone(t)
      PROVE  RegInv'
  <2>1. /\ lib' = lib /\ UNCHANGED <<cancelQueue, life, starts, conf, pipe>>
        /\ \E x : pc' = [pc EXCEPT ![t] = x]
        /\ cur' = cur \/ \E m : cur' = [cur EXCEPT ![t] = m]
        /\ ref' = ref \/ \E r : ref' = [ref EXCEPT ![t] = r]
    BY <1>1 DEF Parse, xTEDSDone, dmVars, envVars
  <2>2. t \in Thread /\ t # "cancel" /\ t # child
    BY Threads
  <2>3. CancelKept /\ ChildKept
    BY <2>1, <2>2, OtherMoves
  <2>4. XKept
    <3>1. \A u \in XThread : u # t => pc'[u] = pc[u] /\ cur'[u] = cur[u]
      <4>1. pc \in [Thread -> Pcs] /\ cur \in [Thread -> Message]
        BY DEF Types, ThreadType
      <4> QED
        BY <2>1, <4>1, Threads
    <3>2. \/ pc'[t] = "idle"
          \/ pc[t] = "parse" /\ pc'[t] = "wait" /\ cur'[t] = cur[t]
      <4>1. pc \in [Thread -> Pcs]
        BY DEF Types, ThreadType
      <4> QED
        BY <1>1, <2>2, <4>1 DEF Parse, xTEDSDone
    <3> QED
      BY <3>1, <3>2 DEF XKept
  <2>5. SlotsKept /\ PipeKept
    BY <2>1, SameSlots DEF Types, PipeKept
  <2> QED
    BY <2>1, <2>3, <2>4, <2>5, RegFrame
<1>2. CASE CancelFinish
  <2>1. /\ lib' = lib /\ UNCHANGED <<cancelQueue, life, starts, conf, pipe, cur, ref>>
        /\ pc["cancel"] = "publish" /\ pc' = [pc EXCEPT !["cancel"] = "finish"]
    BY <1>2 DEF CancelFinish
  <2>2. XKept /\ ChildKept
    BY <2>1, Threads, OtherMoves
  <2>3. CancelKept
    <3>1. pc \in [Thread -> Pcs]
      BY DEF Types, ThreadType
    <3> QED
      BY <2>1, <3>1, Threads DEF CancelKept
  <2>4. SlotsKept /\ PipeKept
    BY <2>1, SameSlots DEF Types, PipeKept
  <2> QED
    BY <2>1, <2>2, <2>3, <2>4, RegFrame
<1>3. ASSUME NEW t \in Thread, Publish(t)
      PROVE  RegInv'
  <2>1. SlotsKept /\ UNCHANGED <<cancelQueue, pipe, pc, cur, ref, life, starts, conf>>
    BY <1>3, PublishEffect
  <2>2. XKept /\ CancelKept /\ ChildKept /\ PipeKept
    BY <2>1 DEF XKept, CancelKept, ChildKept, PipeKept
  <2> QED
    BY <2>1, <2>2, RegFrame
<1>4. CASE TaskErrorDone
  <2>1. /\ lib' = lib /\ UNCHANGED <<cancelQueue, life, starts, conf, pipe>>
        /\ pc' = [pc EXCEPT ![child] = "idle"] /\ cur' = [cur EXCEPT ![child] = NoMsg]
        /\ ref' = [ref EXCEPT ![child] = 0]
    BY <1>4 DEF TaskErrorDone, ChildIdle, envVars
  <2>2. XKept /\ CancelKept
    BY <2>1, Threads, OtherMoves
  <2>3. pc'[child] = "idle"
    <3>1. pc \in [Thread -> Pcs]
      BY DEF Types, ThreadType
    <3> QED
      BY <2>1, <3>1, Threads
  <2>4. ChildKept /\ SlotsKept /\ PipeKept
    BY <2>1, <2>3, SameSlots DEF ChildKept, Types, PipeKept
  <2> QED
    BY <2>1, <2>2, <2>4, RegFrame
<1> QED
  BY <1>1, <1>2, <1>3, <1>4

\* Nor do requests, searches and subscriptions, of the child and of who sends them.
LEMMA QuietChild ==
  ASSUME Types, SlotInv, RegInv,
         \/ ChildTake /\ ~TakeTaskError(Head(pipe))
         \/ ChildWalk
         \/ ChildPost
         \/ Consume
         \/ \E m : Send(m) /\ m.type # "TaskError"
  PROVE  RegInv'
<1>1. pc \in [Thread -> Pcs] /\ cur \in [Thread -> Message] /\ child \in Thread
  BY Threads DEF Types, ThreadType
<1>2. ASSUME SlotsKept, UNCHANGED <<cancelQueue, life, starts, conf, ref>>, PipeKept,
             pc' = pc \/ \E x : pc' = [pc EXCEPT ![child] = x] /\ x \notin {"wait", "publish"},
             cur' = cur \/ \E m : cur' = [cur EXCEPT ![child] = m],
             pc' = pc => cur' = cur
      PROVE  RegInv'
  <2>1. XKept /\ CancelKept
    BY <1>2, Threads, OtherMoves
  <2>2. ChildKept
    BY <1>1, <1>2 DEF ChildKept
  <2> QED
    BY <1>2, <2>1, <2>2, RegFrame
<1>3. CASE ChildTake /\ ~TakeTaskError(Head(pipe))
  <2> DEFINE m == Head(pipe)
  <2>1. /\ pc[child] = "idle" /\ pipe # << >> /\ pipe' = Tail(pipe)
        /\ TakeRequest(m) \/ TakeUnsubscribe(m) \/ TakeConsume(m)
        /\ UNCHANGED <<lib, cancelQueue, life, starts, conf>>
    BY <1>3 DEF ChildTake
  <2>2. Range(pipe) = Range(pipe') \cup {m}
    BY <2>1, RangeTail DEF Types, QueueType
  <2> HIDE DEF m
  <2>3. PipeKept /\ SlotsKept
    BY <2>1, <2>2, SameSlots DEF PipeKept, Types
  <2>4. /\ ref' = ref
        /\ \/ pc' = pc /\ cur' = cur
           \/ /\ \E x : pc' = [pc EXCEPT ![child] = x] /\ x \in {"walk", "consume"}
              /\ cur' = [cur EXCEPT ![child] = m]
    BY <2>1 DEF TakeRequest, TakeUnsubscribe, TakeConsume
  <2>5. CASE pc' = pc /\ cur' = cur
    BY <1>2, <2>1, <2>3, <2>4, <2>5
  <2>6. ASSUME NEW x, pc' = [pc EXCEPT ![child] = x], x \in {"walk", "consume"},
               cur' = [cur EXCEPT ![child] = m]
        PROVE  RegInv'
    <3>1. pc'[child] = x /\ pc' # pc
      BY <1>1, <2>1, <2>6
    <3> QED
      BY <1>2, <2>1, <2>3, <2>4, <2>6, <3>1
  <2> QED
    BY <2>4, <2>5, <2>6
<1>4. CASE ChildWalk \/ Consume
  <2>1. /\ lib' = lib /\ UNCHANGED <<cancelQueue, life, starts, conf, ref, pipe>>
        /\ pc[child] \in {"walk", "consume"}
        /\ \/ pc' = pc /\ cur' = cur
           \/ /\ \E x : pc' = [pc EXCEPT ![child] = x] /\ x \in {"idle", "post"}
              /\ cur' = cur \/ cur' = [cur EXCEPT ![child] = NoMsg]
    BY <1>4 DEF ChildWalk, Consume, ChildIdle, dmVars
  <2>2. PipeKept /\ SlotsKept
    BY <2>1, SameSlots DEF PipeKept, Types
  <2>3. CASE pc' = pc /\ cur' = cur
    BY <1>2, <2>1, <2>2, <2>3
  <2>4. ASSUME NEW x, pc' = [pc EXCEPT ![child] = x], x \in {"idle", "post"},
               cur' = cur \/ cur' = [cur EXCEPT ![child] = NoMsg]
        PROVE  RegInv'
    <3>1. pc'[child] = x /\ pc' # pc
      BY <1>1, <2>1, <2>4
    <3> QED
      BY <1>2, <2>1, <2>2, <2>4, <3>1
  <2> QED
    BY <2>1, <2>3, <2>4
<1>5. CASE ChildPost
  <2>1. /\ UNCHANGED <<cancelQueue, life, starts, conf, ref, pipe>> /\ pc[child] = "post"
        /\ \/ pc' = pc /\ cur' = cur
           \/ pc' = [pc EXCEPT ![child] = "idle"] /\ cur' = [cur EXCEPT ![child] = NoMsg]
    BY <1>5 DEF ChildPost, ChildIdle
  <2>2. PipeKept /\ SlotsKept
    BY <1>5, <2>1, ChildPostSlots DEF PipeKept
  <2>3. CASE pc' = pc /\ cur' = cur
    BY <1>2, <2>1, <2>2, <2>3
  <2>4. CASE pc' = [pc EXCEPT ![child] = "idle"] /\ cur' = [cur EXCEPT ![child] = NoMsg]
    <3>1. pc' # pc
      BY <1>1, <2>1, <2>4
    <3> QED
      BY <1>2, <2>1, <2>2, <2>4, <3>1
  <2> QED
    BY <2>1, <2>3, <2>4
<1>6. ASSUME NEW m, Send(m), m.type # "TaskError"
      PROVE  RegInv'
  <2>1. lib' = lib /\ UNCHANGED <<cancelQueue, life, starts, conf, ref, pc, cur>>
        /\ pipe' = Append(pipe, m)
    BY <1>6 DEF Send, thVars
  <2>2. PipeKept /\ SlotsKept
    BY <1>6, <2>1, PipeSent, SameSlots DEF Types
  <2> QED
    BY <1>2, <2>1, <2>2
<1> QED
  BY <1>3, <1>4, <1>5, <1>6

-----------------------------------------------------------------------------
(* The steps of the components.                                            *)

\* A component's xTEDS comes in when nothing of an earlier instance is under way.
LEMMA ListenReg ==
  ASSUME Orderly, Types, SlotInv, RegInv, NEW c \in Member, NEW t \in XThread,
         ListenxTEDS(c, t)
  PROVE  RegInv'
<1> USE DEF RegInv, PidInv
<1> DEFINE m == [type |-> "xTEDS", comp |-> c, pid |-> <<c, starts[c]>>]
<1>1. /\ life[c] = "up" /\ c \notin conf /\ pc[t] = "idle" /\ Settled(c)
      /\ \A x \in XThread : cur[x].type = "xTEDS" => cur[x].comp # c
      /\ pc' = [pc EXCEPT ![t] = "parse"] /\ cur' = [cur EXCEPT ![t] = m]
      /\ UNCHANGED <<lib, ref, cancelQueue, pipe, life, starts, conf>>
  BY DEF ListenxTEDS, Orderly, dmVars, envVars
<1>2. t \in Thread /\ t # "cancel" /\ t # child
  BY Threads
<1>3. CancelKept /\ ChildKept /\ PipeKept /\ SlotsKept
  BY <1>1, <1>2, OtherMoves, SameSlots DEF PipeKept, Types
<1>4. /\ pc \in [Thread -> Pcs] /\ cur \in [Thread -> Message]
      /\ \A x \in XThread : pc[x] # "idle" => cur[x].type = "xTEDS"
  BY DEF Types, ThreadType, xTEDSMsg
<1>5. /\ pc'[t] = "parse" /\ cur'[t] = m
      /\ \A u \in XThread : u # t => pc'[u] = pc[u] /\ cur'[u] = cur[u]
  BY <1>1, <1>2, <1>4, Threads
<1>6. m.comp = c /\ OwnPid(m.pid, m.comp)
  <2>1. c \in MayKill => starts[c] = 1
    <3>1. starts[c] \in Nat
      BY DEF Types, EnvType, Member
    <3> QED
      BY <1>1, <3>1 DEF LifeInv
  <2> QED
    BY <2>1 DEF OwnPid
<1> HIDE DEF m
<1>7. LifeInv'
  BY <1>1 DEF LifeInv
<1>8. OneThread'
  BY <1>1, <1>4, <1>5, <1>6 DEF OneThread
<1>9. /\ pc'[child] \in {"wait", "publish"} => cur'[child].type = "TaskError"
      /\ PipePids' /\ \A d : Failing(d)' => Failing(d)
  BY <1>3, ChildFrame
<1>10. /\ QueuePids'
       /\ \A d : /\ Queued(d)' <=> Queued(d)
                 /\ Cancelling(d)' <=> Cancelling(d)
                 /\ Reaching(d)' <=> Reaching(d)
  BY <1>1, <1>3, CancelFrame
<1>11. InUseKept /\ SlotPids' /\ \A d : IsRegistered(d)' <=> IsRegistered(d)
  BY <1>3, SlotFrame
<1>12. RefOwn'
  BY <1>3, <1>11, RefFrame
<1>13. ThreadPids'
  BY <1>5, <1>6, <1>9 DEF ThreadPids
<1>14. ASSUME NEW d \in Member PROVE Place(d)'
  <2>1. Place(d)
    BY DEF Places
  <2>2. CASE d # c
    <3>1. Registering(d)' => Registering(d)
      BY <1>5, <1>6, <2>2 DEF Registering
    <3> QED
      BY <1>1, <1>9, <1>10, <1>11, <2>1, <3>1, PlaceKept
  <2>3. CASE d = c
    <3>1. ~Queued(c) /\ ~Cancelling(c)
      <4>1. pc["cancel"] # "idle" => cur["cancel"].type = "CancelxTEDS"
        BY DEF Types, ThreadType, CancelMsg
      <4>2. ~Cancelling(c)
        BY <1>1, <4>1, Threads DEF Settled, Cancelling
      <4> QED
        BY <1>1, <4>2 DEF Settled, Queued, Range
    <3>2. ~Failing(c)
      <4>1. pc[child] \in {"wait", "publish"} => cur[child].comp # c
        BY <1>1, Threads DEF ThreadPids, Settled
      <4>2. \A x \in Range(pipe) : x.type = "TaskError" => x.comp # c
        BY <1>1 DEF Settled, Range
      <4> QED
        BY <4>1, <4>2 DEF Failing
    <3>3. ~Leaving(c)' /\ ~Failing(c)'
      BY <1>9, <1>10, <3>1, <3>2 DEF Leaving
    <3> QED
      BY <1>1, <2>3, <3>3 DEF Place
  <2> QED
    BY <2>2, <2>3
<1>15. Places'
  BY <1>14 DEF Places
<1> QED
  BY <1>7, <1>8, <1>9, <1>10, <1>11, <1>12, <1>13, <1>15

\* No thread of the Data Manager moves, and nothing happens to the slots.
LEMMA EnvFrame ==
  ASSUME Types, SlotInv, RegInv, UNCHANGED <<lib, pc, cur, ref>>
  PROVE  /\ XKept /\ CancelKept /\ ChildKept /\ SlotsKept
         /\ OneThread' /\ RefOwn' /\ SlotPids' /\ ThreadPids'
         /\ \A c : /\ Registering(c)' <=> Registering(c)
                   /\ IsRegistered(c)' <=> IsRegistered(c)
                   /\ Cancelling(c)' <=> Cancelling(c)
                   /\ Reaching(c)' <=> Reaching(c)
<1>1. XKept /\ CancelKept /\ ChildKept
  BY DEF XKept, CancelKept, ChildKept
<1>2. SlotsKept
  BY SameSlots DEF Types
<1>3. OneThread' /\ ThreadPids'
  BY DEF RegInv, PidInv, OneThread, ThreadPids
<1>4. /\ InUseKept /\ SlotPids' /\ \A c : IsRegistered(c)' <=> IsRegistered(c)
  BY <1>2, SlotFrame DEF RegInv, PidInv
<1>5. RefOwn'
  BY <1>1, <1>4, RefFrame DEF RegInv
<1>6. \A c : /\ Registering(c)' <=> Registering(c)
             /\ Cancelling(c)' <=> Cancelling(c)
             /\ Reaching(c)' <=> Reaching(c)
  BY DEF Registering, Cancelling, Reaching
<1> QED
  BY <1>1, <1>2, <1>3, <1>4, <1>5, <1>6

\* A component starts after all of an earlier instance that ran has been told.
LEMMA StartReg ==
  ASSUME Orderly, Types, SlotInv, RegInv, NEW c \in Member, Start(c)
  PROVE  RegInv'
<1> USE DEF RegInv, PidInv
<1>1. /\ life[c] = "off" /\ starts[c] < MaxStarts[c]
      /\ life' = [life EXCEPT ![c] = "up"] /\ starts' = [starts EXCEPT ![c] = @ + 1]
      /\ conf' = conf \ {c}
      /\ UNCHANGED <<lib, pc, cur, ref, cancelQueue, pipe>>
  BY DEF Start, dmVars, thVars
<1>2. /\ OneThread' /\ RefOwn' /\ SlotPids' /\ ThreadPids'
      /\ CancelKept /\ ChildKept
      /\ \A d : /\ Registering(d)' <=> Registering(d)
                /\ IsRegistered(d)' <=> IsRegistered(d)
                /\ Cancelling(d)' <=> Cancelling(d)
                /\ Reaching(d)' <=> Reaching(d)
  BY <1>1, EnvFrame
<1>3. QueuePids' /\ \A d : Queued(d)' <=> Queued(d)
  BY <1>1, <1>2, CancelFrame
<1>4. PipePids' /\ \A d : Failing(d)' => Failing(d)
  <2>1. PipeKept
    BY <1>1 DEF PipeKept
  <2> QED
    BY <1>2, <2>1, ChildFrame
<1>5. c \in MayKill => starts[c] = 0
  <2>1. starts[c] \in Nat /\ MaxStarts[c] \in Nat
    BY DmBoundsAssumption DEF Types, EnvType, Member
  <2> QED
    BY <1>1, <2>1 DEF Orderly, KilledForGood
<1>6. /\ starts \in [Member -> Nat] /\ life \in [Member -> {"off", "up"}]
      /\ MayKill \subseteq Member
  BY DmBoundsAssumption DEF Types, EnvType, LifeInv, Member
<1>7. LifeInv'
  <2>1. life' \in [Member -> {"off", "up"}] /\ conf' \subseteq Member
    BY <1>1, <1>6 DEF LifeInv
  <2>2. /\ starts'[c] = starts[c] + 1
        /\ \A d \in Member : d # c => starts'[d] = starts[d] /\ life'[d] = life[d]
    BY <1>1, <1>6
  <2>3. \A d \in Member : life'[d] = "up" => starts'[d] >= 1
    BY <1>6, <2>2 DEF LifeInv
  <2>4. \A d \in MayKill : starts'[d] <= 1
    BY <1>5, <1>6, <2>2 DEF LifeInv
  <2> QED
    BY <2>1, <2>3, <2>4 DEF LifeInv
<1>8. ASSUME NEW d \in Member PROVE Place(d)'
  <2>1. Place(d)
    BY DEF Places
  <2>2. CASE d # c
    <3>1. life'[d] = life[d] /\ starts'[d] = starts[d] /\ (d \in conf' <=> d \in conf)
      BY <1>1, <1>6, <2>2
    <3> QED
      BY <1>2, <1>3, <1>4, <2>1, <3>1, PlaceKept
  <2>3. CASE d = c
    <3>1. ~Failing(c) /\ ~Registering(c)
      BY <1>1, <1>5, <2>1, <2>3 DEF Place, Gone
    <3>2. ~Failing(c)' /\ ~Registering(c)' /\ c \notin conf'
      BY <1>1, <1>2, <1>4, <3>1
    <3> QED
      BY <2>3, <3>2 DEF Place
  <2> QED
    BY <2>2, <2>3
<1>9. Places'
  BY <1>8 DEF Places
<1> QED
  BY <1>2, <1>3, <1>4, <1>7, <1>9

\* A cancellation enters the queue.
LEMMA QueueSent ==
  ASSUME Types, NEW m, cancelQueue' = Append(cancelQueue, m)
  PROVE  /\ Range(cancelQueue') = Range(cancelQueue) \cup {m}
         /\ QueuePids /\ OwnCancel(m) => QueuePids'
         /\ \A c : Queued(c)' <=> Queued(c) \/ m.comp = c
<1>1. Range(cancelQueue') = Range(cancelQueue) \cup {m}
  BY RangeAppend DEF Types, QueueType
<1>2. QueuePids /\ OwnCancel(m) => QueuePids'
  BY <1>1 DEF QueuePids
<1>3. \A c : Queued(c)' <=> Queued(c) \/ m.comp = c
  BY <1>1 DEF Queued
<1> QED
  BY <1>1, <1>2, <1>3

\* A component ends; the one that is killed may have been registering.
LEMMA EndReg ==
  ASSUME Orderly, Types, SlotInv, RegInv, NEW c \in Member,
         NEW byPM \in BOOLEAN, NEW full, End(c, byPM, full),
         byPM => c \in MayKill, c \in conf \/ c \in MayKill
  PROVE  RegInv'
<1> USE DEF RegInv, PidInv
<1> DEFINE m == [type |-> "CancelxTEDS", comp |-> c, pid |-> <<c, starts[c]>>,
                 byPM |-> byPM, full |-> full]
<1>1. /\ life[c] = "up" /\ life' = [life EXCEPT ![c] = "off"]
      /\ cancelQueue' = Append(cancelQueue, m)
      /\ UNCHANGED <<lib, pc, cur, ref, pipe, starts, conf>>
  BY DEF End, thVars
<1>2. /\ OneThread' /\ RefOwn' /\ SlotPids' /\ ThreadPids'
      /\ CancelKept /\ ChildKept
      /\ \A d : /\ Registering(d)' <=> Registering(d)
                /\ IsRegistered(d)' <=> IsRegistered(d)
                /\ Cancelling(d)' <=> Cancelling(d)
                /\ Reaching(d)' <=> Reaching(d)
  BY <1>1, EnvFrame
<1>3. PipePids' /\ \A d : Failing(d)' => Failing(d)
  <2>1. PipeKept
    BY <1>1 DEF PipeKept
  <2> QED
    BY <1>2, <2>1, ChildFrame
<1>4. /\ starts \in [Member -> Nat] /\ life \in [Member -> {"off", "up"}]
      /\ starts[c] >= 1 /\ (c \in MayKill => starts[c] = 1)
  <2>1. starts \in [Member -> Nat] /\ life \in [Member -> {"off", "up"}]
    BY DEF Types, EnvType, LifeInv, Member
  <2> QED
    BY <1>1, <2>1 DEF LifeInv
<1>5. OwnCancel(m) /\ m.comp = c
  BY <1>4 DEF OwnCancel, OwnPid
<1> HIDE DEF m
<1>6. QueuePids' /\ \A d : Queued(d)' <=> Queued(d) \/ d = c
  BY <1>1, <1>5, QueueSent
<1>7. LifeInv'
  <2>1. life' \in [Member -> {"off", "up"}]
        /\ \A d \in Member : life'[d] = "up" => life[d] = "up"
    BY <1>1, <1>4
  <2> QED
    BY <1>1, <2>1 DEF LifeInv
<1>8. ASSUME NEW d \in Member PROVE Place(d)'
  <2>1. Place(d)
    BY DEF Places
  <2>2. CASE d # c
    <3>1. life'[d] = life[d] /\ starts'[d] = starts[d] /\ (d \in conf' <=> d \in conf)
      BY <1>1, <1>4, <2>2
    <3> QED
      BY <1>2, <1>3, <1>6, <2>1, <2>2, <3>1, PlaceKept
  <2>3. CASE d = c
    <3>1. ~Failing(c)
      BY <1>1, <2>1, <2>3 DEF Place, Orderly, KilledForGood
    <3>2. Registering(c) => c \notin conf /\ c \in MayKill
      BY <2>1, <2>3 DEF Place
    <3>3. ~Failing(c)' /\ Queued(c)' /\ life'[c] = "off" /\ starts'[c] >= 1
      BY <1>1, <1>3, <1>4, <1>6, <3>1
    <3>4. Registering(c)' => c \notin conf' /\ Gone(c)'
      BY <1>1, <1>2, <3>2, <3>3 DEF Gone
    <3> QED
      BY <2>3, <3>3, <3>4 DEF Place
  <2> QED
    BY <2>2, <2>3
<1>9. Places'
  BY <1>8 DEF Places
<1> QED
  BY <1>2, <1>3, <1>6, <1>7, <1>9

\* A failure is reported of a component that is registered and not leaving.
LEMMA ErrorReg ==
  ASSUME Orderly, Types, SlotInv, RegInv, NEW c \in Member, Error(c)
  PROVE  RegInv'
<1> USE DEF RegInv, PidInv
<1> DEFINE m == [type |-> "TaskError", comp |-> c, pid |-> <<c, starts[c]>>]
<1>1. /\ life[c] = "up" /\ c \in conf /\ c \in MayFail
      /\ conf' = conf \ {c} /\ pipe' = Append(pipe, m)
      /\ UNCHANGED <<lib, pc, cur, ref, cancelQueue, life, starts>>
  BY DEF Error, thVars
<1>2. /\ OneThread' /\ RefOwn' /\ SlotPids' /\ ThreadPids'
      /\ CancelKept /\ ChildKept
      /\ \A d : /\ Registering(d)' <=> Registering(d)
                /\ IsRegistered(d)' <=> IsRegistered(d)
                /\ Cancelling(d)' <=> Cancelling(d)
                /\ Reaching(d)' <=> Reaching(d)
  BY <1>1, EnvFrame
<1>3. QueuePids' /\ \A d : Queued(d)' <=> Queued(d)
  BY <1>1, <1>2, CancelFrame
<1>4. OwnPid(m.pid, m.comp) /\ m.comp = c
  BY <1>1 DEF OwnPid, Orderly, KilledForGood
<1> HIDE DEF m
<1>5. Range(pipe') = Range(pipe) \cup {m}
  BY <1>1, PipeSent
<1>6. PipePids'
  BY <1>4, <1>5 DEF PipePids
<1>7. \A d : d # c /\ Failing(d)' => Failing(d)
  BY <1>1, <1>4, <1>5 DEF Failing
<1>8. LifeInv'
  BY <1>1 DEF LifeInv
<1>9. ASSUME NEW d \in Member PROVE Place(d)'
  <2>1. Place(d)
    BY DEF Places
  <2>2. CASE d # c
    <3>1. life'[d] = life[d] /\ starts'[d] = starts[d] /\ (d \in conf' <=> d \in conf)
      BY <1>1, <2>2
    <3> QED
      BY <1>2, <1>3, <1>7, <2>1, <2>2, <3>1, PlaceKept
  <2>3. CASE d = c
    <3>1. ~Registering(c) /\ ~Leaving(c)
      BY <1>1, <2>1, <2>3 DEF Place
    <3>2. ~Registering(c)' /\ ~Leaving(c)'
      BY <1>2, <1>3, <3>1 DEF Leaving
    <3>3. c \notin conf' /\ life'[c] = "up"
      BY <1>1
    <3> QED
      BY <1>1, <2>3, <3>2, <3>3 DEF Place
  <2> QED
    BY <2>2, <2>3
<1>10. Places'
  BY <1>9 DEF Places
<1> QED
  BY <1>2, <1>3, <1>6, <1>8, <1>10

\* A cancellation of the DM's own xTEDS concerns no component.
LEMMA ForeignReg ==
  ASSUME Types, SlotInv, RegInv, ForeignCancel
  PROVE  RegInv'
<1> USE DEF RegInv, PidInv
<1> DEFINE m == [type |-> "CancelxTEDS", comp |-> DM, pid |-> <<DM, 0>>,
                 byPM |-> FALSE, full |-> FALSE]
<1>1. /\ cancelQueue' = Append(cancelQueue, m)
      /\ UNCHANGED <<lib, pc, cur, ref, pipe, life, starts, conf>>
  BY DEF ForeignCancel, thVars
<1>2. /\ OneThread' /\ RefOwn' /\ SlotPids' /\ ThreadPids'
      /\ CancelKept /\ ChildKept
      /\ \A d : /\ Registering(d)' <=> Registering(d)
                /\ IsRegistered(d)' <=> IsRegistered(d)
                /\ Cancelling(d)' <=> Cancelling(d)
                /\ Reaching(d)' <=> Reaching(d)
  BY <1>1, EnvFrame
<1>3. PipePids' /\ \A d : Failing(d)' => Failing(d)
  <2>1. PipeKept
    BY <1>1 DEF PipeKept
  <2> QED
    BY <1>2, <2>1, ChildFrame
<1>4. DM \notin Member /\ DM \notin MayKill
  BY DmCompAssumption, DmBoundsAssumption DEF Member
<1>5. OwnCancel(m) /\ m.comp = DM
  BY <1>4 DEF OwnCancel, OwnPid
<1> HIDE DEF m
<1>6. QueuePids' /\ \A d \in Member : Queued(d)' <=> Queued(d)
  BY <1>1, <1>4, <1>5, QueueSent
<1>7. LifeInv'
  BY <1>1 DEF LifeInv
<1>8. ASSUME NEW d \in Member PROVE Place(d)'
  <2>1. Place(d) /\ life'[d] = life[d] /\ starts'[d] = starts[d]
    BY <1>1 DEF Places
  <2> QED
    BY <1>1, <1>2, <1>3, <1>6, <2>1, PlaceKept
<1>9. Places'
  BY <1>8 DEF Places
<1> QED
  BY <1>2, <1>3, <1>6, <1>7, <1>9

-----------------------------------------------------------------------------
(* The steps of the Data Manager that change slots or look for them.       *)

\* What a registration does to the slots: those in use stay, and the component
\* is registered unless its xTEDS does not parse.
LEMMA RegisterSlots ==
  ASSUME Orderly, Types, SlotInv, RegInv, NEW t \in XThread, RegisterxTEDS(t),
         NEW c, c = cur[t].comp
  PROVE  /\ InUseKept /\ SlotPids'
         /\ c \notin Malformed => IsRegistered(c)'
         /\ \A d : d # c => (IsRegistered(d)' <=> IsRegistered(d))
<1> DEFINE p == cur[t].pid
<1>1. c \in Comp /\ LibType' /\ Len(lib) <= Len(lib')
  BY RegisterEffect
<1>2. PICK r \in Nat \ {0} :
        \/ /\ lib' = lib /\ r \in Slots /\ r = AlreadyRegistered(c) /\ lib[r].active
        \/ /\ r \in Slots
           /\ ~lib[r].available /\ lib[r].name = NameOf[c]
           /\ lib'[r].available = FALSE /\ lib'[r].active = TRUE
           /\ lib'[r].comp = c /\ lib'[r].pid = p
           /\ Len(lib') = Len(lib) /\ \A j \in Slots : j # r => lib'[j] = lib[j]
        \/ /\ r \in 1..(Len(lib) + 1) /\ (r \in Slots => lib[r].available)
           /\ lib'[r].active <=> c \notin Malformed
           /\ lib'[r].comp = c /\ lib'[r].pid = p
           /\ Len(lib') = IF r \in Slots THEN Len(lib) ELSE Len(lib) + 1
           /\ \A j \in Slots : j # r => lib'[j] = lib[j]
  BY RegisterEffect
<1>3. OwnPid(p, c)
  <2>1. pc[t] = "wait"
    BY DEF RegisterxTEDS
  <2> QED
    BY <2>1 DEF RegInv, PidInv, ThreadPids
<1>4. Len(lib) \in Nat /\ Slots = 1..Len(lib) /\ Slots' = 1..Len(lib') /\ Len(lib') \in Nat
  BY <1>1 DEF Types, LibType, Slots
<1>5. \A j \in Slots : /\ lib[j].comp \in Comp /\ lib[j].name = NameOf[lib[j].comp]
                       /\ lib[j].active => ~lib[j].available
                       /\ OwnPid(lib[j].pid, lib[j].comp)
  BY SlotComp DEF Types, SlotInv, NamesKept, ActiveInUse, RegInv, PidInv, SlotPids
<1>6. OwnNames
  BY DEF Orderly
<1> HIDE DEF p
<1>7. CASE lib' = lib /\ r \in Slots /\ r = AlreadyRegistered(c) /\ lib[r].active
  <2>1. lib[r].comp = c
    BY <1>5, <1>7, FindRegistered DEF Types
  <2>2. SlotsKept
    BY <1>7, SameSlots DEF Types
  <2>3. InUseKept /\ SlotPids' /\ \A d : IsRegistered(d)' <=> IsRegistered(d)
    BY <2>2, SlotFrame DEF RegInv, PidInv
  <2>4. IsRegistered(c)
    BY <1>7, <2>1 DEF IsRegistered
  <2> QED
    BY <2>3, <2>4
<1>8. CASE /\ r \in Slots
           /\ ~lib[r].available /\ lib[r].name = NameOf[c]
           /\ lib'[r].available = FALSE /\ lib'[r].active = TRUE
           /\ lib'[r].comp = c /\ lib'[r].pid = p
           /\ Len(lib') = Len(lib) /\ \A j \in Slots : j # r => lib'[j] = lib[j]
  <2>1. lib[r].comp = c
    BY <1>1, <1>5, <1>6, <1>8 DEF OwnNames
  <2>2. Slots' = Slots
    BY <1>4, <1>8
  <2>3. InUseKept
    BY <1>8, <2>1 DEF InUseKept
  <2>4. SlotPids'
    BY <1>3, <1>5, <1>8, <2>2 DEF SlotPids
  <2>5. IsRegistered(c)'
    BY <1>8, <2>2 DEF IsRegistered
  <2>6. ASSUME NEW d, d # c PROVE IsRegistered(d)' <=> IsRegistered(d)
    BY <1>8, <2>1, <2>2, <2>6 DEF IsRegistered
  <2> QED
    BY <2>3, <2>4, <2>5, <2>6
<1>9. CASE /\ r \in 1..(Len(lib) + 1) /\ (r \in Slots => lib[r].available)
           /\ lib'[r].active <=> c \notin Malformed
           /\ lib'[r].comp = c /\ lib'[r].pid = p
           /\ Len(lib') = IF r \in Slots THEN Len(lib) ELSE Len(lib) + 1
           /\ \A j \in Slots : j # r => lib'[j] = lib[j]
  <2>1. Slots' = Slots \cup {r}
    <3>1. CASE r \in Slots
      BY <1>4, <1>9, <3>1
    <3>2. CASE r \notin Slots
      BY <1>4, <1>9, <3>2
    <3> QED
      BY <3>1, <3>2
  <2>2. InUseKept
    BY <1>9 DEF InUseKept
  <2>3. SlotPids'
    BY <1>3, <1>5, <1>9, <2>1 DEF SlotPids
  <2>4. c \notin Malformed => IsRegistered(c)'
    BY <1>9, <2>1 DEF IsRegistered
  <2>5. ASSUME NEW d, d # c PROVE IsRegistered(d)' <=> IsRegistered(d)
    <3>1. IsRegistered(d)' => IsRegistered(d)
      BY <1>9, <2>1, <2>5 DEF IsRegistered
    <3>2. IsRegistered(d) => IsRegistered(d)'
      <4>1. \A i \in Slots : lib[i].active => i # r
        BY <1>5, <1>9
      <4> QED
        BY <1>9, <2>1, <4>1 DEF IsRegistered
    <3> QED
      BY <3>1, <3>2
  <2> QED
    BY <2>2, <2>3, <2>4, <2>5
<1> QED
  BY <1>2, <1>7, <1>8, <1>9

\* A registration: the component may learn of it only while it runs.
LEMMA RegisterReg ==
  ASSUME Orderly, Types, SlotInv, RegInv, NEW t \in XThread, RegisterxTEDS(t)
  PROVE  RegInv'
<1> USE DEF RegInv, PidInv
<1>0. PICK c : c = cur[t].comp
  OBVIOUS
<1>1. /\ pc[t] = "wait"
      /\ \/ conf' = conf
         \/ life[c] = "up" /\ c \notin Malformed /\ conf' = conf \cup {c}
      /\ \/ pc' = [pc EXCEPT ![t] = "idle"] /\ cur' = [cur EXCEPT ![t] = NoMsg]
         \/ pc' = [pc EXCEPT ![t] = "publish"] /\ UNCHANGED cur
      /\ ref' = ref \/ \E r : ref' = [ref EXCEPT ![t] = r]
      /\ UNCHANGED <<cancelQueue, pipe, life, starts>>
  BY <1>0 DEF RegisterxTEDS
<1>2. t \in Thread /\ t # "cancel" /\ t # child
  BY Threads
<1>3. /\ pc' = pc \/ \E x : pc' = [pc EXCEPT ![t] = x]
      /\ cur' = cur \/ \E m : cur' = [cur EXCEPT ![t] = m]
  BY <1>1
<1>4. CancelKept /\ ChildKept /\ PipeKept
  BY <1>1, <1>2, <1>3, OtherMoves DEF PipeKept
<1>5. pc \in [Thread -> Pcs] /\ cur \in [Thread -> Message] /\ c \in Member
  <2>1. cur[t] \in xTEDSMsg
    BY <1>1 DEF Types, ThreadType
  <2> QED
    BY <1>0, <2>1, MsgFacts DEF Types, ThreadType, Member
<1>6. /\ \/ pc'[t] = "idle"
         \/ pc'[t] = "publish" /\ cur'[t] = cur[t]
      /\ \A u \in XThread : u # t => pc'[u] = pc[u] /\ cur'[u] = cur[u]
  BY <1>1, <1>2, <1>5, Threads
<1>7. XKept
  BY <1>1, <1>6 DEF XKept
<1>8. /\ InUseKept /\ SlotPids'
      /\ c \notin Malformed => IsRegistered(c)'
      /\ \A d : d # c => (IsRegistered(d)' <=> IsRegistered(d))
  BY <1>0, RegisterSlots
<1>9. /\ OneThread'
      /\ \A u \in XThread : pc'[u] # "idle" => OwnPid(cur'[u].pid, cur'[u].comp)
      /\ \A d : Registering(d)' => Registering(d)
  BY <1>7, XFrame
<1>10. /\ pc'[child] \in {"wait", "publish"} => cur'[child].type = "TaskError"
       /\ PipePids' /\ \A d : Failing(d)' => Failing(d)
  BY <1>4, ChildFrame
<1>11. /\ QueuePids'
       /\ \A d : /\ Queued(d)' <=> Queued(d)
                 /\ Cancelling(d)' <=> Cancelling(d)
                 /\ Reaching(d)' <=> Reaching(d)
  BY <1>1, <1>4, CancelFrame
<1>12. RefOwn'
  BY <1>4, <1>8, RefFrame
<1>13. ThreadPids'
  BY <1>9, <1>10 DEF ThreadPids
<1>14. LifeInv'
  BY <1>1, <1>5 DEF LifeInv
<1>15. Registering(c) /\ ~Registering(c)'
  <2>1. Registering(c)
    BY <1>0, <1>1 DEF Registering
  <2>2. \A u \in XThread : u # t /\ pc[u] # "idle" => cur[u].comp # c
    BY <1>0, <1>1 DEF OneThread
  <2>3. ~Registering(c)'
    BY <1>6, <2>2 DEF Registering
  <2> QED
    BY <2>1, <2>3
<1>16. ASSUME NEW d \in Member PROVE Place(d)'
  <2>1. Place(d)
    BY DEF Places
  <2>2. CASE d # c
    <3>1. life'[d] = life[d] /\ starts'[d] = starts[d] /\ (d \in conf' <=> d \in conf)
      BY <1>1, <2>2
    <3> QED
      BY <1>8, <1>9, <1>10, <1>11, <2>1, <2>2, <3>1, PlaceKept
  <2>3. CASE d = c
    <3>1. c \notin conf /\ ~Failing(c) /\ (life[c] = "up" => ~Leaving(c))
      BY <1>15, <2>1, <2>3 DEF Place
    <3>2. ~Failing(c)' /\ (life[c] = "up" => ~Leaving(c)')
      BY <1>10, <1>11, <3>1 DEF Leaving
    <3>3. c \in conf' => life'[c] = "up" /\ IsRegistered(c)'
      BY <1>1, <1>8, <3>1
    <3> QED
      BY <1>1, <1>15, <2>3, <3>2, <3>3 DEF Place
  <2> QED
    BY <2>2, <2>3
<1>17. Places'
  BY <1>16 DEF Places
<1> QED
  BY <1>8, <1>9, <1>10, <1>11, <1>12, <1>13, <1>14, <1>17

\* A cancellation finds the slot of its component when there is one.
LEMMA CancelFinds ==
  ASSUME Types, SlotInv, RegInv, NEW m \in CancelMsg, OwnCancel(m)
  PROVE  \/ CancelTarget(m) = 0 /\ ~IsRegistered(m.comp)
         \/ CancelTarget(m) \in Slots /\ lib[CancelTarget(m)].comp = m.comp
<1>1. \A i \in Slots : /\ OwnPid(lib[i].pid, lib[i].comp) /\ lib[i].pid \in Pid
                       /\ lib[i].active => ~lib[i].available
  <2> TAKE i \in Slots
  <2>1. lib[i] \in SlotType
    BY SlotComp DEF Types
  <2>2. lib[i].pid \in Pid
    BY <2>1 DEF SlotType, Pid
  <2> QED
    BY <2>2 DEF SlotInv, ActiveInUse, RegInv, PidInv, SlotPids
<1>2. m.pid \in Pid
  BY DEF CancelMsg
<1>3. ASSUME m.byPM, NEW i \in Slots, lib[i].comp = m.comp
      PROVE  lib[i].comp \in App /\ lib[i].pid = m.pid
  <2>1. m.comp \in MayKill
    BY <1>3 DEF OwnCancel
  <2>2. /\ lib[i].pid[1] = m.comp /\ lib[i].pid[2] = 1
        /\ m.pid[1] = m.comp /\ m.pid[2] = 1
    BY <1>1, <1>3, <2>1 DEF OwnCancel, OwnPid
  <2>3. lib[i].pid = m.pid
    BY <1>1, <1>2, <2>2 DEF Pid
  <2> QED
    BY <1>3, <2>1, <2>3, DmBoundsAssumption
<1>4. CASE /\ CancelTarget(m) = 0
           /\ \A i \in Slots : ~lib[i].available /\ lib[i].active
                => IF m.byPM THEN lib[i].comp \in App => lib[i].pid # m.pid
                   ELSE lib[i].comp # m.comp
  BY <1>1, <1>3, <1>4 DEF IsRegistered
<1>5. CASE /\ CancelTarget(m) \in Slots
           /\ IF m.byPM THEN lib[CancelTarget(m)].pid = m.pid
              ELSE lib[CancelTarget(m)].comp = m.comp
  BY <1>1, <1>5 DEF OwnCancel, OwnPid
<1> QED
  BY <1>4, <1>5, FindTarget DEF Types

\* A cancellation is taken from the queue.
LEMMA CancelFindReg ==
  ASSUME Types, SlotInv, RegInv, CancelFind
  PROVE  RegInv'
<1> USE DEF RegInv, PidInv
<1> DEFINE m == Head(cancelQueue)
<1>1. /\ pc["cancel"] = "idle" /\ cancelQueue # << >> /\ cancelQueue' = Tail(cancelQueue)
      /\ cur' = [cur EXCEPT !["cancel"] = m]
      /\ ref' = [ref EXCEPT !["cancel"] = CancelTarget(m)]
      /\ pc' = [pc EXCEPT !["cancel"] = "wait"]
      /\ UNCHANGED <<lib, pipe, life, starts, conf>>
  BY DEF CancelFind, envVars
<1>2. Range(cancelQueue) = Range(cancelQueue') \cup {m} /\ m \in CancelMsg
  BY <1>1, RangeTail DEF Types, QueueType
<1> HIDE DEF m
<1>3. XKept /\ ChildKept
  BY <1>1, Threads, OtherMoves
<1>4. PipeKept /\ SlotsKept
  BY <1>1, SameSlots DEF PipeKept, Types
<1>5. pc'["cancel"] = "wait" /\ cur'["cancel"] = m /\ ref'["cancel"] = CancelTarget(m)
  <2>1. pc \in [Thread -> Pcs] /\ cur \in [Thread -> Message] /\ ref \in [Thread -> 0..Len(lib)]
    BY DEF Types, ThreadType, RefType
  <2> QED
    BY <1>1, <2>1, Threads
<1>6. OwnCancel(m)
  BY <1>2 DEF QueuePids
<1>7. \/ CancelTarget(m) = 0 /\ ~IsRegistered(m.comp)
      \/ CancelTarget(m) \in Slots /\ lib[CancelTarget(m)].comp = m.comp
  BY <1>2, <1>6, CancelFinds
<1>8. /\ OneThread'
      /\ \A u \in XThread : pc'[u] # "idle" => OwnPid(cur'[u].pid, cur'[u].comp)
      /\ \A d : Registering(d)' => Registering(d)
  BY <1>3, XFrame
<1>9. /\ pc'[child] \in {"wait", "publish"} => cur'[child].type = "TaskError"
      /\ PipePids' /\ \A d : Failing(d)' => Failing(d)
  BY <1>3, <1>4, ChildFrame
<1>10. InUseKept /\ SlotPids' /\ \A d : IsRegistered(d)' <=> IsRegistered(d)
  BY <1>4, SlotFrame
<1>11. RefOwn'
  <2>1. pc'[child] = pc[child] /\ cur'[child] = cur[child] /\ ref'[child] = ref[child]
    <3>1. pc \in [Thread -> Pcs] /\ cur \in [Thread -> Message] /\ ref \in [Thread -> 0..Len(lib)]
      BY DEF Types, ThreadType, RefType
    <3> QED
      BY <1>1, <3>1, Threads
  <2> QED
    BY <1>1, <1>5, <1>7, <2>1 DEF RefOwn
<1>12. QueuePids'
  BY <1>2 DEF QueuePids
<1>13. \A d : /\ Queued(d) <=> Queued(d)' \/ d = m.comp
              /\ Cancelling(d)' <=> d = m.comp
              /\ ~Cancelling(d)
  BY <1>1, <1>2, <1>5 DEF Queued, Cancelling
<1>14. ThreadPids' /\ LifeInv'
  BY <1>1, <1>8, <1>9 DEF ThreadPids, LifeInv
<1>15. ASSUME NEW d \in Member PROVE Place(d)'
  <2>1. Place(d)
    BY DEF Places
  <2>2. Leaving(d)' <=> Leaving(d)
    BY <1>13 DEF Leaving
  <2>3. Gone(d)' <=> Gone(d)
    BY <1>1 DEF Gone
  <2>4. /\ Registering(d)' => Registering(d)
        /\ Failing(d)' => Failing(d)
        /\ IsRegistered(d)' <=> IsRegistered(d)
        /\ life' = life /\ conf' = conf
    BY <1>1, <1>8, <1>9, <1>10
  <2>5. d \in conf /\ life[d] = "off" /\ ~Queued(d)' /\ ~Reaching(d)' => ~IsRegistered(d)
    <3>1. CASE d = m.comp
      <4>1. CASE CancelTarget(m) = 0 /\ ~IsRegistered(m.comp)
        BY <3>1, <4>1
      <4>2. CASE CancelTarget(m) \in Slots
        <5>1. CancelTarget(m) # 0
          BY <4>2, ThreadTypes
        <5> QED
          BY <1>5, <1>13, <3>1, <5>1 DEF Reaching
      <4> QED
        BY <1>7, <4>1, <4>2
    <3>2. CASE d # m.comp
      BY <1>13, <2>1, <3>2 DEF Place, Reaching
    <3> QED
      BY <3>1, <3>2
  <2> QED
    BY <2>1, <2>2, <2>3, <2>4, <2>5 DEF Place
<1>16. Places'
  BY <1>15 DEF Places
<1> QED
  BY <1>8, <1>9, <1>10, <1>11, <1>12, <1>14, <1>16

\* The slot a cancellation has found is of its component, and in use.
LEMMA FoundSlot ==
  ASSUME Types, SlotInv, RegInv, pc["cancel"] # "idle", ref["cancel"] # 0
  PROVE  /\ ref["cancel"] \in Slots /\ ~lib[ref["cancel"]].available
         /\ lib[ref["cancel"]].comp = cur["cancel"].comp
         /\ \A j \in Slots : lib[j].active /\ lib[j].comp = cur["cancel"].comp
                               => j = ref["cancel"]
<1> DEFINE r == ref["cancel"]
<1>1. r \in Slots
  BY Threads, ThreadTypes DEF Types, RefType
<1>2. ~lib[r].available /\ lib[r].comp = cur["cancel"].comp
  BY <1>1 DEF SlotInv, CancelHolds, Cancels, RegInv, RefOwn
<1>3. \A j \in Slots : lib[j].active /\ lib[j].comp = lib[r].comp => j = r
  BY <1>1, <1>2 DEF SlotInv, ActiveInUse, OneSlot
<1> QED
  BY <1>1, <1>2, <1>3

\* A component that leaves does not fail, and does not run as far as it knows.
LEMMA LeavingPlace ==
  ASSUME NEW c, Place(c), Leaving(c)
  PROVE  /\ ~Failing(c) /\ ~(c \in conf /\ life[c] = "up")
         /\ ~(Registering(c) /\ life[c] = "up")
BY DEF Place

\* A cancellation takes addLibrary and changes its slot.
LEMMA CancelApplyReg ==
  ASSUME Types, SlotInv, RegInv, CancelApply
  PROVE  RegInv'
<1> USE DEF RegInv, PidInv
<1>1. /\ pc["cancel"] = "wait"
      /\ \/ /\ ref["cancel"] = 0 /\ lib' = lib
            /\ pc' = [pc EXCEPT !["cancel"] = "idle"]
            /\ cur' = [cur EXCEPT !["cancel"] = NoMsg]
         \/ /\ ref["cancel"] # 0 /\ lib' = Deactivate(ref["cancel"], cur["cancel"].full)
            /\ pc' = [pc EXCEPT !["cancel"] = "publish"] /\ cur' = cur
      /\ UNCHANGED <<ref, cancelQueue, pipe, life, starts, conf>>
  BY DEF CancelApply, envVars
<1>2. /\ pc' = pc \/ \E x : pc' = [pc EXCEPT !["cancel"] = x]
      /\ cur' = cur \/ \E m : cur' = [cur EXCEPT !["cancel"] = m]
  BY <1>1
<1>3. XKept /\ ChildKept /\ PipeKept
  BY <1>1, <1>2, Threads, OtherMoves DEF PipeKept
<1>4. /\ OneThread'
      /\ \A u \in XThread : pc'[u] # "idle" => OwnPid(cur'[u].pid, cur'[u].comp)
      /\ \A d : Registering(d)' => Registering(d)
  BY <1>3, XFrame
<1>5. /\ pc'[child] \in {"wait", "publish"} => cur'[child].type = "TaskError"
      /\ PipePids' /\ \A d : Failing(d)' => Failing(d)
  BY <1>3, ChildFrame
<1>6. QueuePids' /\ \A d : Queued(d)' <=> Queued(d)
  BY <1>1 DEF QueuePids, Queued
<1>7. ThreadPids' /\ LifeInv'
  BY <1>1, <1>4, <1>5 DEF ThreadPids, LifeInv
<1>8. pc \in [Thread -> Pcs] /\ "cancel" \in Thread
  BY Threads DEF Types, ThreadType
<1>9. CASE ref["cancel"] = 0
  <2>1. pc'["cancel"] = "idle" /\ lib' = lib
    BY <1>1, <1>8, <1>9
  <2>2. SlotsKept
    BY <2>1, SameSlots DEF Types
  <2>3. InUseKept /\ SlotPids' /\ \A d : IsRegistered(d)' <=> IsRegistered(d)
    BY <2>2, SlotFrame
  <2>4. RefOwn'
    BY <1>3, <2>1, <2>3, RefFrame
  <2>5. ASSUME NEW d \in Member PROVE Place(d)'
    <3>1. Place(d) /\ life'[d] = life[d] /\ starts'[d] = starts[d]
      BY <1>1 DEF Places
    <3>2. ~Cancelling(d)' /\ ~Reaching(d)' /\ ~Reaching(d)
      BY <1>9, <2>1 DEF Cancelling, Reaching
    <3> QED
      BY <1>1, <1>4, <1>5, <1>6, <2>3, <3>1, <3>2, PlaceKept
  <2>6. Places'
    BY <2>5 DEF Places
  <2> QED
    BY <1>4, <1>5, <1>6, <1>7, <2>3, <2>4, <2>6
<1>10. CASE ref["cancel"] # 0
  <2>0. PICK r, c : r = ref["cancel"] /\ c = cur["cancel"].comp
    OBVIOUS
  <2>1. /\ r \in Slots /\ LibType' /\ Len(lib') = Len(lib)
        /\ \A j \in Slots : j # r => lib'[j] = lib[j]
        /\ lib'[r].available = lib[r].available
        /\ lib'[r].comp = lib[r].comp /\ lib'[r].pid = lib[r].pid
    BY <1>1, <1>10, <2>0, CancelEffect
  <2>2. ~lib[r].available /\ lib[r].comp = c
    BY <1>1, <1>10, <2>0, FoundSlot
  <2>3. Slots' = Slots
    BY <2>1 DEF Types, LibType, Slots
  <2>4. InUseKept /\ SlotPids'
    BY <2>1, <2>3 DEF InUseKept, SlotPids
  <2>5. \A d : d # c => (IsRegistered(d)' <=> IsRegistered(d))
    <3> SUFFICES ASSUME NEW d, d # c PROVE IsRegistered(d)' <=> IsRegistered(d)
      OBVIOUS
    <3> QED
      BY <2>1, <2>2, <2>3 DEF IsRegistered
  <2>6. CancelKept /\ pc'["cancel"] = "publish"
    BY <1>1, <1>8, <1>10 DEF CancelKept
  <2>7. RefOwn'
    BY <1>3, <2>4, <2>6, RefFrame
  <2>8. \A d : (Cancelling(d)' <=> Cancelling(d)) /\ (Reaching(d)' <=> Reaching(d))
    BY <1>1, <2>6, CancelFrame
  <2>9. ASSUME NEW d \in Member PROVE Place(d)'
    <3>1. Place(d) /\ life'[d] = life[d] /\ starts'[d] = starts[d]
      BY <1>1 DEF Places
    <3>2. CASE d # c
      BY <1>1, <1>4, <1>5, <1>6, <2>5, <2>8, <3>1, <3>2, PlaceKept
    <3>3. CASE d = c
      <4>1. Reaching(c) /\ Leaving(c)
        BY <1>1, <1>10, <2>0 DEF Reaching, Cancelling, Leaving
      <4>2. /\ ~Failing(c) /\ ~(c \in conf /\ life[c] = "up")
            /\ ~(Registering(c) /\ life[c] = "up")
        BY <3>1, <3>3, <4>1, LeavingPlace
      <4>3. /\ ~Failing(c)' /\ ~(c \in conf' /\ life'[c] = "up") /\ Reaching(c)'
            /\ ~(Registering(c)' /\ life'[c] = "up")
        BY <1>1, <1>4, <1>5, <2>8, <4>1, <4>2
      <4>4. Registering(c)' => c \notin conf' /\ Gone(c)'
        BY <1>1, <1>4, <3>1, <3>3, <4>2 DEF Place, Gone
      <4> QED
        BY <3>3, <4>3, <4>4 DEF Place
    <3> QED
      BY <3>2, <3>3
  <2>10. Places'
    BY <2>9 DEF Places
  <2> QED
    BY <1>4, <1>5, <1>6, <1>7, <2>4, <2>7, <2>10
<1> QED
  BY <1>9, <1>10

\* A cancellation ends, and its component is not registered any more.
LEMMA CancelReleaseReg ==
  ASSUME Types, SlotInv, RegInv, CancelRelease
  PROVE  RegInv'
<1> USE DEF RegInv, PidInv
<1>0. PICK r, c : r = ref["cancel"] /\ c = cur["cancel"].comp
  OBVIOUS
<1>1. /\ pc["cancel"] = "finish" /\ lib' = Release(r)
      /\ pc' = [pc EXCEPT !["cancel"] = "idle"] /\ cur' = [cur EXCEPT !["cancel"] = NoMsg]
      /\ ref' = [ref EXCEPT !["cancel"] = 0]
      /\ UNCHANGED <<cancelQueue, pipe, life, starts, conf>>
  BY <1>0 DEF CancelRelease, envVars
<1>2. XKept /\ ChildKept /\ PipeKept
  BY <1>1, Threads, OtherMoves DEF PipeKept
<1>3. /\ OneThread'
      /\ \A u \in XThread : pc'[u] # "idle" => OwnPid(cur'[u].pid, cur'[u].comp)
      /\ \A d : Registering(d)' => Registering(d)
  BY <1>2, XFrame
<1>4. /\ pc'[child] \in {"wait", "publish"} => cur'[child].type = "TaskError"
      /\ PipePids' /\ \A d : Failing(d)' => Failing(d)
  BY <1>2, ChildFrame
<1>5. QueuePids' /\ \A d : Queued(d)' <=> Queued(d)
  BY <1>1 DEF QueuePids, Queued
<1>6. ThreadPids' /\ LifeInv'
  BY <1>1, <1>3, <1>4 DEF ThreadPids, LifeInv
<1>7. pc'["cancel"] = "idle"
  BY <1>1, Threads DEF Types, ThreadType
<1>8. ref["cancel"] # 0
  BY <1>1, Threads DEF Types, RefType, Holding
<1>9. /\ r \in Slots /\ ~lib[r].available /\ lib[r].comp = c
      /\ \A j \in Slots : lib[j].active /\ lib[j].comp = c => j = r
  BY <1>0, <1>1, <1>8, FoundSlot
<1>10. /\ LibType' /\ Len(lib') = Len(lib)
       /\ \/ lib' = lib /\ ~(c # DM /\ lib[r].active)
          \/ /\ \A j \in Slots : j # r => lib'[j] = lib[j]
             /\ lib'[r].active = FALSE
             /\ lib'[r].comp = lib[r].comp /\ lib'[r].pid = lib[r].pid
  BY <1>0, <1>1, <1>9, ReleaseEffect
<1>11. Slots' = Slots
  BY <1>10 DEF Types, LibType, Slots
<1>12. /\ \A j \in Slots : j # r => lib'[j] = lib[j]
       /\ lib'[r].comp = c /\ lib'[r].pid = lib[r].pid
       /\ c # DM => lib'[r].active = FALSE
  <2>1. lib[r] \in SlotType
    BY <1>9, SlotComp DEF Types
  <2>2. lib[r].active \in BOOLEAN
    BY <2>1 DEF SlotType
  <2> QED
    BY <1>9, <1>10, <2>2
<1>13. SlotPids'
  BY <1>9, <1>11, <1>12 DEF SlotPids
<1>14. \A d : d # c => (IsRegistered(d)' <=> IsRegistered(d))
  <2> SUFFICES ASSUME NEW d, d # c PROVE IsRegistered(d)' <=> IsRegistered(d)
    OBVIOUS
  <2> QED
    BY <1>9, <1>11, <1>12 DEF IsRegistered
<1>15. c # DM => ~IsRegistered(c)'
  BY <1>9, <1>11, <1>12 DEF IsRegistered
<1>16. Leaving(c)
  BY <1>0, <1>1 DEF Leaving, Cancelling
<1>17. RefOwn'
  <2>1. pc'[child] = pc[child] /\ cur'[child] = cur[child] /\ ref'[child] = ref[child]
    <3>1. pc \in [Thread -> Pcs] /\ cur \in [Thread -> Message] /\ ref \in [Thread -> 0..Len(lib)]
      BY DEF Types, ThreadType, RefType
    <3> QED
      BY <1>1, <3>1, Threads
  <2>2. ASSUME pc[child] = "wait", ref[child] # 0
        PROVE  ~lib'[ref[child]].available /\ lib'[ref[child]].comp = cur[child].comp
    <3>1. ~lib[ref[child]].available /\ lib[ref[child]].comp = cur[child].comp
      BY <2>2 DEF RefOwn
    <3>2. ref[child] \in Slots
      BY <2>2, Threads, ThreadTypes DEF Types, RefType
    <3>3. CASE ref[child] # r
      BY <1>12, <3>1, <3>2, <3>3
    <3>4. CASE ref[child] = r
      <4>1. Failing(c)
        BY <1>9, <2>2, <3>1, <3>4 DEF Failing
      <4>2. CASE c \in Member
        BY <1>16, <4>1, <4>2 DEF Places, Place
      <4>3. CASE c \notin Member
        <5>1. c = DM
          BY <1>9, <4>3, SlotComp DEF Types, Comp, Member
        <5>2. lib' = lib
          <6>1. Release(r) = lib
            BY <1>9, <5>1 DEF Release
          <6> QED
            BY <1>1, <6>1
        <5> QED
          BY <3>1, <5>2
      <4> QED
        BY <4>2, <4>3
    <3> QED
      BY <3>3, <3>4
  <2> QED
    BY <1>7, <2>1, <2>2 DEF RefOwn
<1>18. ASSUME NEW d \in Member PROVE Place(d)'
  <2>1. Place(d) /\ life'[d] = life[d] /\ starts'[d] = starts[d]
    BY <1>1 DEF Places
  <2>2. ~Cancelling(d)' /\ ~Reaching(d)'
    BY <1>7 DEF Cancelling, Reaching
  <2>3. CASE d # c
    <3>1. ~Reaching(d)
      BY <1>0, <2>3 DEF Reaching, Cancelling
    <3> QED
      BY <1>1, <1>3, <1>4, <1>5, <1>14, <2>1, <2>2, <2>3, <3>1, PlaceKept
  <2>4. CASE d = c
    <3>1. /\ ~Failing(c) /\ ~(c \in conf /\ life[c] = "up")
          /\ ~(Registering(c) /\ life[c] = "up")
      BY <1>16, <2>1, <2>4, LeavingPlace
    <3>2. /\ ~Failing(c)' /\ ~(c \in conf' /\ life'[c] = "up")
          /\ ~(Registering(c)' /\ life'[c] = "up")
      BY <1>1, <1>3, <1>4, <3>1
    <3>3. Registering(c)' => c \notin conf' /\ Gone(c)'
      BY <1>1, <1>3, <2>1, <2>4, <3>1 DEF Place, Gone
    <3>4. ~IsRegistered(c)'
      BY <1>15, <2>4, DmCompAssumption DEF Member
    <3> QED
      BY <2>4, <3>2, <3>3, <3>4 DEF Place
  <2> QED
    BY <2>3, <2>4
<1>19. Places'
  BY <1>18 DEF Places
<1> QED
  BY <1>3, <1>4, <1>5, <1>6, <1>13, <1>17, <1>19

\* The child takes a failure from the pipe and looks for the slot.
LEMMA TakeErrorReg ==
  ASSUME Types, SlotInv, RegInv, ChildTake, TakeTaskError(Head(pipe))
  PROVE  RegInv'
<1> USE DEF RegInv, PidInv
<1>0. PICK m : m = Head(pipe)
  OBVIOUS
<1>1. /\ pc[child] = "idle" /\ pipe # << >> /\ pipe' = Tail(pipe) /\ m.type = "TaskError"
      /\ pc' = [pc EXCEPT ![child] = "wait"] /\ cur' = [cur EXCEPT ![child] = m]
      /\ ref' = [ref EXCEPT ![child] = ErrorTarget(m)]
      /\ UNCHANGED <<lib, cancelQueue, life, starts, conf>>
  BY <1>0 DEF ChildTake, TakeTaskError
<1>2. Range(pipe) = Range(pipe') \cup {m}
  BY <1>0, <1>1, RangeTail DEF Types, QueueType
<1>3. XKept /\ CancelKept
  BY <1>1, Threads, OtherMoves
<1>4. SlotsKept
  BY <1>1, SameSlots DEF Types
<1>5. pc'[child] = "wait" /\ cur'[child] = m /\ ref'[child] = ErrorTarget(m)
  <2>1. pc \in [Thread -> Pcs] /\ cur \in [Thread -> Message] /\ ref \in [Thread -> 0..Len(lib)]
    BY DEF Types, ThreadType, RefType
  <2> QED
    BY <1>1, <2>1, Threads
<1>6. /\ OneThread'
      /\ \A u \in XThread : pc'[u] # "idle" => OwnPid(cur'[u].pid, cur'[u].comp)
      /\ \A d : Registering(d)' => Registering(d)
  BY <1>3, XFrame
<1>7. /\ QueuePids'
      /\ \A d : /\ Queued(d)' <=> Queued(d)
                /\ Cancelling(d)' <=> Cancelling(d)
                /\ Reaching(d)' <=> Reaching(d)
  BY <1>1, <1>3, CancelFrame
<1>8. InUseKept /\ SlotPids' /\ \A d : IsRegistered(d)' <=> IsRegistered(d)
  BY <1>4, SlotFrame
<1>9. PipePids'
  BY <1>2 DEF PipePids
<1>10. \A d : Failing(d)' => Failing(d)
  BY <1>1, <1>2, <1>5 DEF Failing
<1>11. ThreadPids' /\ LifeInv'
  BY <1>1, <1>5, <1>6 DEF ThreadPids, LifeInv
<1>12. RefOwn'
  <2>1. OwnPid(m.pid, m.comp)
    BY <1>1, <1>2 DEF PipePids
  <2>2. \/ ErrorTarget(m) = 0
        \/ /\ ErrorTarget(m) \in Slots
           /\ ~lib[ErrorTarget(m)].available
           /\ lib[ErrorTarget(m)].pid = m.pid
    BY FindTarget DEF Types
  <2>3. ErrorTarget(m) # 0 => /\ ~lib[ErrorTarget(m)].available
                              /\ lib[ErrorTarget(m)].comp = m.comp
    BY <2>1, <2>2 DEF SlotPids, OwnPid
  <2>4. pc'["cancel"] # "idle" /\ ref'["cancel"] # 0
          => lib[ref'["cancel"]].comp = cur'["cancel"].comp
    BY <1>3 DEF RefOwn, CancelKept
  <2> QED
    BY <1>1, <1>5, <2>3, <2>4 DEF RefOwn
<1>13. ASSUME NEW d \in Member PROVE Place(d)'
  <2>1. Place(d) /\ life'[d] = life[d] /\ starts'[d] = starts[d]
    BY <1>1 DEF Places
  <2> QED
    BY <1>1, <1>6, <1>7, <1>8, <1>10, <2>1, PlaceKept
<1>14. Places'
  BY <1>13 DEF Places
<1> QED
  BY <1>6, <1>7, <1>8, <1>9, <1>11, <1>12, <1>14

\* A failure makes the slot of its component inactive.
LEMMA TaskErrorReg ==
  ASSUME Types, SlotInv, RegInv, TaskError
  PROVE  RegInv'
<1> USE DEF RegInv, PidInv
<1>1. /\ pc[child] = "wait"
      /\ \/ /\ ref[child] = 0 /\ lib' = lib
            /\ pc' = [pc EXCEPT ![child] = "idle"] /\ cur' = [cur EXCEPT ![child] = NoMsg]
         \/ /\ ref[child] # 0 /\ lib' = Fail(ref[child])
            /\ pc' = [pc EXCEPT ![child] = "publish"] /\ cur' = cur
      /\ UNCHANGED <<ref, cancelQueue, pipe, life, starts, conf>>
  BY DEF TaskError, ChildIdle
<1>2. /\ pc' = pc \/ \E x : pc' = [pc EXCEPT ![child] = x]
      /\ cur' = cur \/ \E m : cur' = [cur EXCEPT ![child] = m]
  BY <1>1
<1>3. XKept /\ CancelKept /\ PipeKept
  BY <1>1, <1>2, Threads, OtherMoves DEF PipeKept
<1>4. ChildKept
  <2>1. pc \in [Thread -> Pcs]
    BY DEF Types, ThreadType
  <2> QED
    BY <1>1, <2>1, Threads DEF ChildKept
<1>5. CASE ref[child] = 0
  <2>1. SlotsKept
    BY <1>1, <1>5, SameSlots DEF Types
  <2> QED
    BY <1>1, <1>3, <1>4, <2>1, RegFrame
<1>6. CASE ref[child] # 0
  <2>0. PICK r, c : r = ref[child] /\ c = cur[child].comp
    OBVIOUS
  <2>1. /\ r \in Slots /\ LibType' /\ Len(lib') = Len(lib)
        /\ \A j \in Slots : j # r => lib'[j] = lib[j]
        /\ lib'[r].available = lib[r].available
        /\ lib'[r].comp = lib[r].comp /\ lib'[r].pid = lib[r].pid
    BY <1>1, <1>6, <2>0, FailEffect
  <2>2. lib[r].comp = c
    BY <1>1, <1>6, <2>0 DEF RefOwn
  <2>3. Slots' = Slots
    BY <2>1 DEF Types, LibType, Slots
  <2>4. InUseKept /\ SlotPids'
    BY <2>1, <2>3 DEF InUseKept, SlotPids
  <2>5. \A d : d # c => (IsRegistered(d)' <=> IsRegistered(d))
    <3> SUFFICES ASSUME NEW d, d # c PROVE IsRegistered(d)' <=> IsRegistered(d)
      OBVIOUS
    <3> QED
      BY <2>1, <2>2, <2>3 DEF IsRegistered
  <2>6. RefOwn'
    BY <1>3, <1>4, <2>4, RefFrame
  <2>7. /\ OneThread'
        /\ \A u \in XThread : pc'[u] # "idle" => OwnPid(cur'[u].pid, cur'[u].comp)
        /\ \A d : Registering(d)' => Registering(d)
    BY <1>3, XFrame
  <2>8. /\ pc'[child] \in {"wait", "publish"} => cur'[child].type = "TaskError"
        /\ PipePids' /\ \A d : Failing(d)' => Failing(d)
    BY <1>3, <1>4, ChildFrame
  <2>9. /\ QueuePids'
        /\ \A d : /\ Queued(d)' <=> Queued(d)
                  /\ Cancelling(d)' <=> Cancelling(d)
                  /\ Reaching(d)' <=> Reaching(d)
    BY <1>1, <1>3, CancelFrame
  <2>10. ThreadPids' /\ LifeInv'
    BY <1>1, <2>7, <2>8 DEF ThreadPids, LifeInv
  <2>11. ASSUME NEW d \in Member PROVE Place(d)'
    <3>1. Place(d) /\ life'[d] = life[d] /\ starts'[d] = starts[d]
      BY <1>1 DEF Places
    <3>2. CASE d # c
      BY <1>1, <2>5, <2>7, <2>8, <2>9, <3>1, <3>2, PlaceKept
    <3>3. CASE d = c
      <4>1. Failing(c)
        BY <1>1, <2>0 DEF Failing
      <4>2. c \in MayFail /\ life[c] = "up" /\ c \notin conf /\ ~Leaving(c) /\ ~Registering(c)
        BY <3>1, <3>3, <4>1 DEF Place
      <4>3. /\ life'[c] = "up" /\ c \notin conf' /\ ~Leaving(c)' /\ ~Registering(c)'
        BY <1>1, <2>7, <2>9, <4>2 DEF Leaving
      <4> QED
        BY <3>3, <4>2, <4>3 DEF Place
    <3> QED
      BY <3>2, <3>3
  <2>12. Places'
    BY <2>11 DEF Places
  <2> QED
    BY <2>4, <2>6, <2>7, <2>8, <2>9, <2>10, <2>12
<1> QED
  BY <1>5, <1>6

-----------------------------------------------------------------------------
(* The theorems.                                                           *)

\* What clients send is not the report of a failure.
LEMMA RequestsQuiet ==
  ASSUME NEW s,
         \/ \E k \in Kinds \cup (Plain \cap {"ReqReg"}) : Request(s, k)
         \/ \E k \in Kinds : Unsubscribe(s, k)
         \/ \E type \in {"Consume", "Cancel"}, i \in Slots : SendConsume(s, type, i)
  PROVE  \E m : Send(m) /\ m.type # "TaskError"
<1>1. \A k \in Kinds \cup (Plain \cap {"ReqReg"}) : k # "TaskError"
  BY KindsType, DmBoundsAssumption
<1>2. ASSUME NEW k, k # "TaskError", Request(s, k)
      PROVE  \E m : Send(m) /\ m.type # "TaskError"
  <2>1. Send([type |-> k, client |-> s]) /\ [type |-> k, client |-> s].type # "TaskError"
    BY <1>2 DEF Request
  <2> QED
    BY <2>1, Zenon
<1>3. ASSUME NEW k, Unsubscribe(s, k)
      PROVE  \E m : Send(m) /\ m.type # "TaskError"
  <2> DEFINE m == [type |-> "Unsubscribe", client |-> s, kind |-> k]
  <2>1. Send(m) /\ m.type # "TaskError"
    BY <1>3 DEF Unsubscribe
  <2> HIDE DEF m
  <2> QED
    BY <2>1, Zenon
<1>4. ASSUME NEW type \in {"Consume", "Cancel"}, NEW i, SendConsume(s, type, i)
      PROVE  \E m : Send(m) /\ m.type # "TaskError"
  <2> DEFINE m == [type |-> type, client |-> s, prov |-> lib[i].comp,
                   sid |-> lib[i].sid, hasId |-> s \in conf]
  <2>1. Send(m) /\ m.type # "TaskError"
    BY <1>4 DEF SendConsume
  <2> HIDE DEF m
  <2> QED
    BY <2>1, Zenon
<1> QED
  BY <1>1, <1>2, <1>3, <1>4

\* What the environment does preserves the invariant.
LEMMA EnvReg ==
  ASSUME Orderly, Types, SlotInv, RegInv, EnvNext
  PROVE  RegInv'
<1>1. ASSUME NEW c \in App \cup Sensor,
             Start(c) \/ Exit(c) \/ Unplug(c) \/ Kill(c) \/ Error(c)
      PROVE  RegInv'
  <2>1. c \in Member
    BY DEF Member
  <2>2. CASE Exit(c) \/ Unplug(c)
    <3>1. End(c, FALSE, FALSE) /\ c \in conf
      BY <2>2 DEF Exit, Unplug
    <3> QED
      BY <2>1, <3>1, EndReg
  <2>3. CASE Kill(c)
    <3>1. End(c, TRUE, TRUE) /\ c \in MayKill
      BY <2>3 DEF Kill
    <3> QED
      BY <2>1, <3>1, EndReg
  <2> QED
    BY <1>1, <2>1, <2>2, <2>3, StartReg, ErrorReg
<1>2. ASSUME NEW m, Send(m), m.type # "TaskError" PROVE RegInv'
  BY <1>2, QuietChild
<1> QED
  BY <1>1, <1>2, RequestsQuiet, ForeignReg DEF EnvNext

\* Every step preserves the invariant.
LEMMA RegInvNext ==
  ASSUME Orderly, Types, SlotInv, RegInv, [Next]_vars
  PROVE  RegInv'
<1>1. ASSUME NEW c \in App \cup Sensor, NEW t \in XThread, ListenxTEDS(c, t)
      PROVE  RegInv'
  BY <1>1, ListenReg DEF Member
<1>2. ASSUME NEW t \in XThread, xTEDSStep(t) PROVE RegInv'
  <2>1. t \in Thread
    BY Threads
  <2> QED
    BY <1>2, <2>1, QuietThreads, RegisterReg DEF xTEDSStep
<1>3. CASE CancelStep
  <2>1. "cancel" \in Thread
    BY Threads
  <2> QED
    BY <1>3, <2>1, QuietThreads, CancelFindReg, CancelApplyReg, CancelReleaseReg DEF CancelStep
<1>4. CASE ChildStep
  <2>1. child \in Thread
    BY Threads
  <2>2. CASE ChildTake
    BY <2>2, QuietChild, TakeErrorReg
  <2>3. CASE Publish(child)
    BY <2>1, <2>3, QuietThreads
  <2> QED
    BY <1>4, <2>2, <2>3, QuietThreads, QuietChild, TaskErrorReg DEF ChildStep
<1>5. CASE EnvNext
  BY <1>5, EnvReg
<1>6. CASE UNCHANGED vars
  <2>1. /\ lib' = lib
        /\ UNCHANGED <<cancelQueue, pipe, pc, cur, ref, life, starts, conf>>
    BY <1>6 DEF vars, dmVars, thVars, envVars
  <2>2. XKept /\ CancelKept /\ ChildKept /\ PipeKept /\ SlotsKept
    BY <2>1, SameSlots DEF XKept, CancelKept, ChildKept, PipeKept, Types
  <2> QED
    BY <2>1, <2>2, RegFrame
<1> QED
  BY <1>1, <1>2, <1>3, <1>4, <1>5, <1>6 DEF Next

LEMMA RegInvAlways ==
  ASSUME Orderly
  PROVE  Spec => [](Types /\ SlotInv /\ RegInv)
<1>1. OwnNames
  BY DEF Orderly
<1>2. Types /\ SlotInv /\ [Next]_vars => SlotInv'
  BY <1>1, SlotInvNext
<1>3. Types /\ SlotInv /\ RegInv /\ [Next]_vars => RegInv'
  BY RegInvNext
<1> QED
  BY SlotInvInit, RegInvInit, TypesAlways, <1>2, <1>3, PTL DEF Spec

\* A component that has been told it is registered, and runs, is registered:
\* no cancellation or failure of an earlier instance takes the registration
\* away.  Its own cancellations and failures come only after it knows, and a
\* registration is taken only when none of them is under way.
THEOREM DmLiveIsRegistered ==
  ASSUME Orderly
  PROVE  Spec => []LiveIsRegistered
<1>1. RegInv => LiveIsRegistered
  BY DEF RegInv, LifeInv, Places, Place, LiveIsRegistered
<1> QED
  BY <1>1, RegInvAlways, PTL

\* A component that knew it was registered, and has ended, is not registered
\* any more once its cancellation is done: the cancellation finds its slot, the
\* slot stays its own until the cancellation has addLibrary, and no
\* registration of it is under way that would come after.
THEOREM DmEndedIsCancelled ==
  ASSUME Orderly
  PROVE  Spec => []EndedIsCancelled
<1>1. ASSUME Types, RegInv, NEW c \in conf, life[c] = "off", Settled(c)
      PROVE  ~IsRegistered(c)
  <2>1. c \in Member /\ Place(c)
    BY <1>1 DEF RegInv, LifeInv, Places
  <2>2. ~Queued(c)
    BY <1>1 DEF Settled, Queued, Range
  <2>3. ~Reaching(c)
    <3>1. pc["cancel"] # "idle" => cur["cancel"].type = "CancelxTEDS"
      BY <1>1 DEF Types, ThreadType, CancelMsg
    <3> QED
      BY <1>1, <3>1, Threads DEF Settled, Reaching, Cancelling
  <2> QED
    BY <1>1, <2>1, <2>2, <2>3 DEF Place
<1>2. Types /\ RegInv => EndedIsCancelled
  BY <1>1 DEF EndedIsCancelled
<1> QED
  BY <1>2, RegInvAlways, PTL

-----------------------------------------------------------------------------
(* Who serves whom.                                                        *)

\* No two components provide the same notification: SDMCancel's Delete looks
\* at the subscriber and the notification, and not at the provider.
OwnMsgs == \A c, d \in Comp : MsgOf[c] = MsgOf[d] => c = d

Closing(c) == pc["cancel"] = "publish" /\ lib[ref["cancel"]].comp = c
Lasting(c) == IsRegistered(c) /\ ~Ending(c)
Entry(p) == [prov |-> p[1], sub |-> p[2], msg |-> MsgOf[p[1]]]
Provides(p) == p \in provSubs \ strays /\ Lasting(p[1])

\* A provider knows that it is registered.
ServedType == provSubs \subseteq Comp \X Client /\ \A p \in provSubs : p[1] \in conf
\* A slot found is registered until the cancellation gets to it, and the child
\* consumes what it was asked to.
FoundActive == pc["cancel"] = "wait" /\ ref["cancel"] # 0 => lib[ref["cancel"]].active
Consumes == pc[child] = "consume" => cur[child] \in ConsumeMsg
\* The list has an entry for whom a registered provider serves, and such a
\* subscriber is registered, or its end is being published.
InList == \A p \in provSubs : Provides(p) => Entry(p) \in psubs
Subscribed == \A p \in provSubs : Provides(p) /\ p[2] \in App
                                    => Lasting(p[2]) \/ Closing(p[2])
SubInv == ServedType /\ FoundActive /\ Consumes /\ InList /\ Subscribed

\* Nobody serves anybody initially.
LEMMA SubInvInit == Init => SubInv
<1> SUFFICES ASSUME Init PROVE SubInv
  OBVIOUS
<1>1. provSubs = {} /\ \A t \in Thread : pc[t] = "idle"
  BY DEF Init
<1> QED
  BY <1>1, Threads DEF SubInv, ServedType, FoundActive, Consumes, InList, Subscribed

\* Who is served does not change: it is enough that providers do not come to
\* be registered, and that no subscriber leaves.
LEMMA SubFrame ==
  ASSUME SubInv, UNCHANGED <<psubs, provSubs, strays>>, conf \subseteq conf',
         FoundActive', Consumes',
         \A c \in conf : Lasting(c)' => Lasting(c),
         \A c : Lasting(c) => Lasting(c)' \/ Closing(c)',
         \A c : Closing(c) => Closing(c)'
  PROVE  SubInv'
<1> USE DEF SubInv
<1>1. ServedType'
  BY DEF ServedType
<1>2. ASSUME NEW p \in provSubs, Provides(p)' PROVE Provides(p)
  BY <1>2 DEF ServedType, Provides
<1>3. \A p : Entry(p)' = Entry(p)
  BY DEF Entry
<1>4. InList'
  BY <1>2, <1>3 DEF InList
<1>5. Subscribed'
  BY <1>2 DEF Subscribed
<1> QED
  BY <1>1, <1>4, <1>5

\* The cancellation at work, if any, stays where it is.
LEMMA CancelStays ==
  ASSUME Types, SlotInv, InUseKept, pc'["cancel"] = pc["cancel"],
         ref'["cancel"] = ref["cancel"]
  PROVE  \A c : (Ending(c)' <=> Ending(c)) /\ (Closing(c)' <=> Closing(c))
<1>1. CASE pc["cancel"] \in {"publish", "finish"}
  <2>1. ref["cancel"] # 0 /\ ref["cancel"] \in 0..Len(lib)
    BY <1>1, Threads DEF Types, RefType, Holding
  <2>2. ref["cancel"] \in Slots /\ Cancels(ref["cancel"])
    BY <1>1, <2>1, ThreadTypes DEF Cancels
  <2>3. lib'[ref["cancel"]].comp = lib[ref["cancel"]].comp
    BY <2>2 DEF SlotInv, CancelHolds, InUseKept
  <2> QED
    BY <2>3 DEF Ending, Closing
<1>2. CASE pc["cancel"] \notin {"publish", "finish"}
  BY <1>2 DEF Ending, Closing
<1> QED
  BY <1>1, <1>2

\* Steps that leave the slots, the cancellation and the lists alone.
LEMMA SubQuiet ==
  ASSUME Types, SlotInv, SubInv, SlotsKept, pc'["cancel"] = pc["cancel"],
         ref'["cancel"] = ref["cancel"], UNCHANGED <<psubs, provSubs, strays, conf>>,
         Consumes'
  PROVE  SubInv'
<1>1. InUseKept /\ \A c : IsRegistered(c)' <=> IsRegistered(c)
  BY SlotFrame
<1>2. \A c : (Ending(c)' <=> Ending(c)) /\ (Closing(c)' <=> Closing(c))
  BY <1>1, CancelStays
<1>3. \A c : Lasting(c)' <=> Lasting(c)
  BY <1>1, <1>2 DEF Lasting
<1>4. FoundActive'
  <2> SUFFICES ASSUME pc["cancel"] = "wait", ref["cancel"] # 0
               PROVE  lib'[ref["cancel"]].active
    BY DEF FoundActive
  <2>1. ref["cancel"] \in 0..Len(lib)
    BY Threads DEF Types, RefType
  <2>2. ref["cancel"] \in Slots
    BY <2>1, ThreadTypes
  <2> QED
    BY <2>2 DEF SubInv, FoundActive, SlotsKept, SlotKept
<1> QED
  BY <1>2, <1>3, <1>4, SubFrame

\* Another thread than the child and the cancellation moves.
LEMMA SubOthers ==
  ASSUME Types, SubInv, NEW t \in XThread,
         pc' = pc \/ \E x : pc' = [pc EXCEPT ![t] = x],
         cur' = cur \/ \E m : cur' = [cur EXCEPT ![t] = m],
         ref' = ref \/ \E r : ref' = [ref EXCEPT ![t] = r]
  PROVE  pc'["cancel"] = pc["cancel"] /\ ref'["cancel"] = ref["cancel"] /\ Consumes'
<1>1. pc \in [Thread -> Pcs] /\ cur \in [Thread -> Message] /\ ref \in [Thread -> 0..Len(lib)]
  BY DEF Types, ThreadType, RefType
<1>2. pc'["cancel"] = pc["cancel"] /\ pc'[child] = pc[child]
  BY <1>1, Threads
<1>3. ref'["cancel"] = ref["cancel"]
  BY <1>1, Threads
<1>4. cur'[child] = cur[child]
  BY <1>1, Threads
<1> QED
  BY <1>2, <1>3, <1>4 DEF SubInv, Consumes

\* Registrations that come in, are parsed and are done with, and publications.
LEMMA SubThreads ==
  ASSUME Types, SlotInv, SubInv,
         \/ \E c \in Member, t \in XThread : ListenxTEDS(c, t)
         \/ \E t \in XThread : Parse(t) \/ xTEDSDone(t)
         \/ \E t \in Thread : Publish(t)
  PROVE  SubInv'
<1>1. ASSUME NEW t \in XThread,
             (\E c \in Member : ListenxTEDS(c, t)) \/ Parse(t) \/ xTEDSDone(t)
      PROVE  SubInv'
  <2>1. /\ lib' = lib /\ UNCHANGED <<psubs, provSubs, strays, conf>>
        /\ \E x : pc' = [pc EXCEPT ![t] = x]
        /\ cur' = cur \/ \E m : cur' = [cur EXCEPT ![t] = m]
        /\ ref' = ref \/ \E r : ref' = [ref EXCEPT ![t] = r]
    <3>1. CASE \E c \in Member : ListenxTEDS(c, t)
      <4>1. PICK c \in Member : ListenxTEDS(c, t)
        BY <3>1
      <4> QED
        BY <4>1 DEF ListenxTEDS, dmVars, envVars
    <3>2. CASE Parse(t) \/ xTEDSDone(t)
      BY <3>2 DEF Parse, xTEDSDone, dmVars, envVars
    <3> QED
      BY <1>1, <3>1, <3>2
  <2>2. pc'["cancel"] = pc["cancel"] /\ ref'["cancel"] = ref["cancel"] /\ Consumes'
    BY <2>1, SubOthers
  <2>3. SlotsKept
    BY <2>1, SameSlots DEF Types
  <2> QED
    BY <2>1, <2>2, <2>3, SubQuiet
<1>2. ASSUME NEW t \in Thread, Publish(t) PROVE SubInv'
  <2>1. SlotsKept /\ UNCHANGED <<pc, cur, ref, conf>>
    BY <1>2, PublishEffect
  <2>2. UNCHANGED <<psubs, provSubs, strays>>
    BY <1>2 DEF Publish
  <2>3. Consumes'
    BY <2>1 DEF SubInv, Consumes
  <2> QED
    BY <2>1, <2>2, <2>3, SubQuiet
<1> QED
  BY <1>1, <1>2

\* The child's other work, and what is sent.
LEMMA SubChild ==
  ASSUME Types, SlotInv, SubInv,
         \/ ChildTake \/ ChildWalk \/ ChildPost \/ TaskErrorDone
         \/ \E m : Send(m)
         \/ \E c \in Member : \E byPM, full : End(c, byPM, full)
         \/ ForeignCancel
         \/ UNCHANGED vars
  PROVE  SubInv'
<1>1. pc \in [Thread -> Pcs] /\ cur \in [Thread -> Message] /\ ref \in [Thread -> 0..Len(lib)]
      /\ child \in Thread /\ "cancel" \in Thread /\ child # "cancel"
  BY Threads DEF Types, ThreadType, RefType
<1>2. ASSUME SlotsKept, UNCHANGED <<psubs, provSubs, strays, conf>>,
             ref' = ref \/ \E r : ref' = [ref EXCEPT ![child] = r],
             pc' = pc \/ \E x : pc' = [pc EXCEPT ![child] = x],
             Consumes'
      PROVE  SubInv'
  <2>1. pc'["cancel"] = pc["cancel"] /\ ref'["cancel"] = ref["cancel"]
    BY <1>1, <1>2
  <2> QED
    BY <1>2, <2>1, SubQuiet
<1>3. ASSUME (pc' = pc /\ cur' = cur) \/ pc'[child] # "consume" PROVE Consumes'
  BY <1>3 DEF SubInv, Consumes
<1>4. CASE ChildTake
  <2>0. PICK m : m = Head(pipe)
    OBVIOUS
  <2>1. /\ pipe # << >> /\ UNCHANGED <<lib, psubs, provSubs, strays, conf>>
        /\ TakeRequest(m) \/ TakeUnsubscribe(m) \/ TakeTaskError(m) \/ TakeConsume(m)
    BY <1>4, <2>0 DEF ChildTake
  <2>2. m \in PipeMsg
    BY <2>0, <2>1, RangeTail DEF Types, QueueType
  <2>3. SlotsKept
    BY <2>1, SameSlots DEF Types
  <2>4. /\ ref' = ref \/ \E r : ref' = [ref EXCEPT ![child] = r]
        /\ \/ pc' = pc /\ cur' = cur
           \/ \E x : pc' = [pc EXCEPT ![child] = x] /\ x \in {"walk", "wait"}
           \/ /\ pc' = [pc EXCEPT ![child] = "consume"] /\ cur' = [cur EXCEPT ![child] = m]
              /\ m.type \in {"Consume", "Cancel"}
    BY <2>1 DEF TakeRequest, TakeUnsubscribe, TakeTaskError, TakeConsume
  <2>5. CASE pc' = pc /\ cur' = cur
    BY <1>2, <1>3, <2>1, <2>3, <2>4, <2>5
  <2>6. ASSUME NEW x, pc' = [pc EXCEPT ![child] = x], x \in {"walk", "wait"}
        PROVE  SubInv'
    <3>1. pc'[child] # "consume"
      BY <1>1, <2>6
    <3> QED
      BY <1>2, <1>3, <2>1, <2>3, <2>4, <2>6, <3>1
  <2>7. CASE /\ pc' = [pc EXCEPT ![child] = "consume"] /\ cur' = [cur EXCEPT ![child] = m]
             /\ m.type \in {"Consume", "Cancel"}
    <3>1. cur'[child] = m
      BY <1>1, <2>7
    <3>2. m \in ConsumeMsg
      BY <2>2, <2>7, KindsType DEF PipeMsg, RequestMsg, UnsubscribeMsg, ErrorMsg, ConsumeMsg
    <3>3. Consumes'
      BY <3>1, <3>2 DEF Consumes
    <3> QED
      BY <1>2, <2>1, <2>3, <2>4, <2>7, <3>3
  <2> QED
    BY <2>4, <2>5, <2>6, <2>7
<1>5. CASE ChildWalk \/ ChildPost \/ TaskErrorDone
  <2>1. /\ UNCHANGED <<psubs, provSubs, strays, conf>>
        /\ ref' = ref \/ ref' = [ref EXCEPT ![child] = 0]
        /\ \/ pc' = pc /\ cur' = cur
           \/ \E x : pc' = [pc EXCEPT ![child] = x] /\ x \in {"idle", "post"}
    BY <1>5 DEF ChildWalk, ChildPost, TaskErrorDone, ChildIdle, dmVars, envVars
  <2>2. SlotsKept
    <3>1. CASE ChildPost
      BY <3>1, ChildPostSlots
    <3>2. CASE ChildWalk \/ TaskErrorDone
      <4>1. lib' = lib
        BY <3>2 DEF ChildWalk, TaskErrorDone, dmVars
      <4> QED
        BY <4>1, SameSlots DEF Types
    <3> QED
      BY <1>5, <3>1, <3>2
  <2>3. CASE pc' = pc /\ cur' = cur
    BY <1>2, <1>3, <2>1, <2>2, <2>3
  <2>4. ASSUME NEW x, pc' = [pc EXCEPT ![child] = x], x \in {"idle", "post"}
        PROVE  SubInv'
    <3>1. pc'[child] # "consume"
      BY <1>1, <2>4
    <3> QED
      BY <1>2, <1>3, <2>1, <2>2, <2>4, <3>1
  <2> QED
    BY <2>1, <2>3, <2>4
<1>6. ASSUME lib' = lib, UNCHANGED <<psubs, provSubs, strays, conf, pc, cur, ref>>
      PROVE  SubInv'
  <2>1. SlotsKept
    BY <1>6, SameSlots DEF Types
  <2> QED
    BY <1>2, <1>3, <1>6, <2>1
<1>7. ASSUME NEW m, Send(m) PROVE SubInv'
  BY <1>6, <1>7 DEF Send, thVars
<1>8. ASSUME NEW c \in Member, NEW byPM, NEW full, End(c, byPM, full) PROVE SubInv'
  BY <1>6, <1>8 DEF End, thVars
<1>9. CASE ForeignCancel
  BY <1>6, <1>9 DEF ForeignCancel, thVars
<1>10. CASE UNCHANGED vars
  BY <1>6, <1>10 DEF vars, dmVars, thVars, envVars
<1> QED
  BY <1>4, <1>5, <1>7, <1>8, <1>9, <1>10

\* A component that starts or is restarted serves nobody.
LEMMA SubStart ==
  ASSUME Types, SlotInv, SubInv, NEW c \in Member, Start(c) \/ Error(c)
  PROVE  SubInv'
<1> USE DEF SubInv
<1>1. /\ UNCHANGED <<lib, pc, cur, ref, psubs, strays>>
      /\ conf' = conf \ {c} /\ provSubs' = {p \in provSubs : p[1] # c}
  BY DEF Start, Error, Served, dmVars, thVars
<1>2. FoundActive' /\ Consumes' /\ ServedType'
  BY <1>1 DEF FoundActive, Consumes, ServedType
<1>3. \A d : (Lasting(d)' <=> Lasting(d)) /\ (Closing(d)' <=> Closing(d))
  BY <1>1 DEF Lasting, Closing, IsRegistered, Ending, Slots
<1>4. ASSUME NEW p \in provSubs', Provides(p)' PROVE p \in provSubs /\ Provides(p)
  BY <1>1, <1>3, <1>4 DEF Provides
<1>5. InList'
  BY <1>1, <1>4 DEF InList, Entry
<1>6. Subscribed'
  BY <1>3, <1>4 DEF Subscribed
<1> QED
  BY <1>2, <1>5, <1>6

\* A registration takes nobody's away, and its component serves nobody yet.
LEMMA SubRegister ==
  ASSUME Orderly, Types, SlotInv, RegInv, SubInv, NEW t \in XThread, RegisterxTEDS(t)
  PROVE  SubInv'
<1>0. PICK c : c = cur[t].comp
  OBVIOUS
<1>1. /\ InUseKept
      /\ c \notin Malformed => IsRegistered(c)'
      /\ \A d : d # c => (IsRegistered(d)' <=> IsRegistered(d))
  BY <1>0, RegisterSlots
<1>2. /\ UNCHANGED <<psubs, provSubs, strays>> /\ conf \subseteq conf' /\ pc[t] = "wait"
  BY DEF RegisterxTEDS
<1>3. pc'["cancel"] = pc["cancel"] /\ ref'["cancel"] = ref["cancel"] /\ Consumes'
  <2>1. /\ pc' = pc \/ \E x : pc' = [pc EXCEPT ![t] = x]
        /\ cur' = cur \/ \E m : cur' = [cur EXCEPT ![t] = m]
        /\ ref' = ref \/ \E r : ref' = [ref EXCEPT ![t] = r]
    BY RegisterEffect
  <2> QED
    BY <2>1, SubOthers
<1>4. \A d : (Ending(d)' <=> Ending(d)) /\ (Closing(d)' <=> Closing(d))
  BY <1>1, <1>3, CancelStays
<1>5. c \notin conf
  <2>1. cur[t] \in xTEDSMsg
    BY <1>2 DEF Types, ThreadType
  <2>2. c \in Member /\ Registering(c)
    BY <1>0, <1>2, <2>1, MsgFacts DEF Registering, Member
  <2> QED
    BY <2>2 DEF RegInv, Places, Place
<1>6. PICK r \in Nat \ {0} :
        \/ lib' = lib
        \/ /\ r \in Slots /\ lib'[r].active = TRUE /\ lib'[r].comp = c
           /\ Len(lib') = Len(lib) /\ \A j \in Slots : j # r => lib'[j] = lib[j]
        \/ /\ AlreadyRegistered(c) = 0 /\ (r \in Slots => lib[r].available)
           /\ \A j \in Slots : j # r => lib'[j] = lib[j]
  BY <1>0, RegisterEffect
<1>7. \A j \in Slots : lib[j].active => ~lib[j].available /\ lib[j].name = NameOf[lib[j].comp]
  BY DEF SlotInv, ActiveInUse, NamesKept
<1>8. \A j \in Slots : lib[j].active => lib'[j].active
  BY <1>6, <1>7
<1>9. IsRegistered(c) => IsRegistered(c)'
  <2>1. CASE lib' = lib
    BY <2>1 DEF IsRegistered, Slots
  <2>2. CASE /\ r \in Slots /\ lib'[r].active = TRUE /\ lib'[r].comp = c
             /\ Len(lib') = Len(lib)
    <3>1. Slots' = Slots
      BY <2>2, RegisterEffect DEF Types, LibType, Slots
    <3> QED
      BY <2>2, <3>1 DEF IsRegistered
  <2>3. CASE AlreadyRegistered(c) = 0
    <3>1. \A i \in Slots : ~lib[i].available /\ lib[i].name = NameOf[c] => lib[i].comp # c
      <4>1. AlreadyRegistered(c) \notin Slots
        BY <2>3, ThreadTypes
      <4> QED
        BY <4>1, FindRegistered DEF Types
    <3> QED
      BY <1>7, <3>1 DEF IsRegistered
  <2> QED
    BY <1>6, <2>1, <2>2, <2>3
<1>10. FoundActive'
  <2> SUFFICES ASSUME pc["cancel"] = "wait", ref["cancel"] # 0
               PROVE  lib'[ref["cancel"]].active
    BY <1>3 DEF FoundActive
  <2>1. ref["cancel"] \in 0..Len(lib)
    BY Threads DEF Types, RefType
  <2>2. ref["cancel"] \in Slots
    BY <2>1, ThreadTypes
  <2> QED
    BY <1>8, <2>2 DEF SubInv, FoundActive
<1>11. \A d \in conf : Lasting(d)' => Lasting(d)
  BY <1>1, <1>4, <1>5 DEF Lasting
<1>12. \A d : Lasting(d) => Lasting(d)'
  BY <1>1, <1>4, <1>9 DEF Lasting
<1> QED
  BY <1>2, <1>3, <1>4, <1>10, <1>11, <1>12, SubFrame

\* A cancellation looks for its slot.
LEMMA SubCancelFind ==
  ASSUME Types, SlotInv, SubInv, CancelFind
  PROVE  SubInv'
<1>1. /\ pc["cancel"] = "idle" /\ lib' = lib /\ UNCHANGED <<psubs, provSubs, strays, conf>>
      /\ cur' = [cur EXCEPT !["cancel"] = Head(cancelQueue)]
      /\ ref' = [ref EXCEPT !["cancel"] = CancelTarget(Head(cancelQueue))]
      /\ pc' = [pc EXCEPT !["cancel"] = "wait"]
  BY DEF CancelFind, envVars
<1>2. pc \in [Thread -> Pcs] /\ cur \in [Thread -> Message] /\ ref \in [Thread -> 0..Len(lib)]
  BY DEF Types, ThreadType, RefType
<1>3. /\ pc'["cancel"] = "wait" /\ ref'["cancel"] = CancelTarget(Head(cancelQueue))
      /\ pc'[child] = pc[child] /\ cur'[child] = cur[child]
  BY <1>1, <1>2, Threads
<1>4. FoundActive'
  BY <1>1, <1>3, FindTarget DEF FoundActive, Types
<1>5. Consumes'
  BY <1>3 DEF SubInv, Consumes
<1>6. \A c : (Lasting(c)' <=> Lasting(c)) /\ ~Closing(c) /\ ~Closing(c)'
  BY <1>1, <1>3 DEF Lasting, Closing, Ending, IsRegistered, Slots
<1> QED
  BY <1>1, <1>4, <1>5, <1>6, SubFrame

\* It gets to the slot: its component may have become unregistered, and its end
\* is being published.
LEMMA SubCancelApply ==
  ASSUME Types, SlotInv, RegInv, SubInv, CancelApply
  PROVE  SubInv'
<1>1. /\ pc["cancel"] = "wait" /\ UNCHANGED <<psubs, provSubs, strays, conf, ref>>
      /\ \/ /\ ref["cancel"] = 0 /\ lib' = lib /\ pc' = [pc EXCEPT !["cancel"] = "idle"]
            /\ cur' = [cur EXCEPT !["cancel"] = NoMsg]
         \/ /\ ref["cancel"] # 0 /\ lib' = Deactivate(ref["cancel"], cur["cancel"].full)
            /\ pc' = [pc EXCEPT !["cancel"] = "publish"] /\ cur' = cur
  BY DEF CancelApply, envVars
<1>2. pc \in [Thread -> Pcs] /\ cur \in [Thread -> Message]
  BY DEF Types, ThreadType
<1>3. /\ pc'[child] = pc[child] /\ cur'[child] = cur[child]
      /\ pc'["cancel"] = IF ref["cancel"] = 0 THEN "idle" ELSE "publish"
  BY <1>1, <1>2, Threads
<1>4. Consumes' /\ FoundActive'
  BY <1>3 DEF SubInv, Consumes, FoundActive
<1>5. \A c : ~Ending(c) /\ ~Ending(c)' /\ ~Closing(c)
  BY <1>1, <1>3 DEF Ending, Closing
<1>6. CASE ref["cancel"] = 0
  <2>1. \A c : Lasting(c)' <=> Lasting(c)
    BY <1>1, <1>5, <1>6 DEF Lasting, IsRegistered, Slots
  <2> QED
    BY <1>1, <1>4, <1>5, <2>1, SubFrame
<1>7. CASE ref["cancel"] # 0
  <2>0. PICK r, d : r = ref["cancel"] /\ d = lib[r].comp
    OBVIOUS
  <2>1. /\ r \in Slots /\ LibType' /\ Len(lib') = Len(lib)
        /\ \A j \in Slots : j # r => lib'[j] = lib[j]
        /\ lib'[r].comp = lib[r].comp
    BY <1>1, <1>7, <2>0, CancelEffect
  <2>2. Slots' = Slots
    BY <2>1 DEF Types, LibType, Slots
  <2>3. lib[r].active
    BY <1>1, <1>7, <2>0 DEF SubInv, FoundActive
  <2>4. Closing(d)'
    BY <1>1, <1>3, <1>7, <2>0, <2>1 DEF Closing
  <2>5. \A c : IsRegistered(c)' => IsRegistered(c)
    BY <2>1, <2>2, <2>3 DEF IsRegistered
  <2>6. \A c : c # d /\ IsRegistered(c) => IsRegistered(c)'
    BY <2>0, <2>1, <2>2 DEF IsRegistered
  <2>7. \A c : (Lasting(c)' => Lasting(c)) /\ (Lasting(c) => Lasting(c)' \/ Closing(c)')
    BY <1>5, <2>4, <2>5, <2>6 DEF Lasting
  <2> QED
    BY <1>1, <1>4, <1>5, <2>7, SubFrame
<1> QED
  BY <1>6, <1>7

\* What FinishComponent leaves of the list, and whom it has providers drop.
LEMMA FinishServed ==
  ASSUME NEW c, FinishComponent(c), ServedType, NEW p \in provSubs'
  PROVE  /\ p \in provSubs
         /\ p[2] = c => Entry(p) \notin psubs
         /\ Entry(p) \in psubs /\ p[1] # c => Entry(p) \in psubs'
<1>1. p \in provSubs /\ \A e \in psubs : e.sub = c => p # <<e.prov, c>>
  BY DEF FinishComponent
<1>2. p = <<p[1], p[2]>>
  BY <1>1 DEF ServedType
<1>3. Entry(p).prov = p[1] /\ Entry(p).sub = p[2]
  BY DEF Entry
<1>4. p[2] = c => Entry(p) \notin psubs
  BY <1>1, <1>2, <1>3
<1>5. Entry(p) \in psubs /\ p[1] # c => Entry(p) \in psubs'
  BY <1>3, <1>4 DEF FinishComponent
<1> QED
  BY <1>1, <1>4, <1>5

\* The end of a component has been published: nobody serves it any more.
LEMMA SubCancelFinish ==
  ASSUME Types, SlotInv, RegInv, SubInv, CancelFinish
  PROVE  SubInv'
<1> USE DEF SubInv
<1>0. PICK c : c = lib[ref["cancel"]].comp
  OBVIOUS
<1>1. /\ pc["cancel"] = "publish" /\ FinishComponent(c)
      /\ pc' = [pc EXCEPT !["cancel"] = "finish"]
      /\ UNCHANGED <<lib, cur, ref, conf, strays>>
  BY <1>0 DEF CancelFinish
<1>2. pc'["cancel"] = "finish" /\ pc'[child] = pc[child]
  BY <1>1, Threads DEF Types, ThreadType
<1>3. FoundActive' /\ Consumes'
  BY <1>1, <1>2 DEF FoundActive, Consumes
<1>4. ServedType'
  BY <1>1 DEF ServedType, FinishComponent
<1>5. /\ \A d : Lasting(d)' <=> IsRegistered(d) /\ d # c
      /\ \A d : Lasting(d) <=> IsRegistered(d)
      /\ \A d : Closing(d) <=> d = c
  BY <1>0, <1>1, <1>2 DEF Lasting, Closing, Ending, IsRegistered, Slots
<1>6. ASSUME NEW p \in provSubs', Provides(p)'
      PROVE  /\ p \in provSubs /\ Provides(p) /\ p[1] # c /\ p[2] # c
             /\ Entry(p) \in psubs' /\ Entry(p)' = Entry(p)
  <2>1. p \in provSubs /\ Provides(p) /\ p[1] # c
    BY <1>1, <1>5, <1>6, FinishServed DEF Provides
  <2>2. Entry(p) \in psubs
    BY <2>1 DEF InList
  <2> QED
    BY <1>1, <1>6, <2>1, <2>2, FinishServed DEF Entry
<1>7. InList'
  BY <1>6 DEF InList
<1>8. Subscribed'
  <2> SUFFICES ASSUME NEW p \in provSubs', Provides(p)', p[2] \in App PROVE Lasting(p[2])'
    BY DEF Subscribed
  <2>1. p \in provSubs /\ Provides(p) /\ p[2] # c
    BY <1>6
  <2>2. Lasting(p[2])
    BY <1>5, <2>1 DEF Subscribed
  <2> QED
    BY <1>5, <2>1, <2>2
<1> QED
  BY <1>3, <1>4, <1>7, <1>8

\* The slot of the component that ended is given back.
LEMMA SubCancelRelease ==
  ASSUME Types, SlotInv, RegInv, SubInv, CancelRelease
  PROVE  SubInv'
<1> USE DEF SubInv
<1>0. PICK r, c : r = ref["cancel"] /\ c = lib[r].comp
  OBVIOUS
<1>1. /\ pc["cancel"] = "finish" /\ lib' = Release(r)
      /\ pc' = [pc EXCEPT !["cancel"] = "idle"] /\ cur' = [cur EXCEPT !["cancel"] = NoMsg]
      /\ UNCHANGED <<psubs, provSubs, strays, conf>>
  BY <1>0 DEF CancelRelease, envVars
<1>2. pc'["cancel"] = "idle" /\ pc'[child] = pc[child] /\ cur'[child] = cur[child]
  BY <1>1, Threads DEF Types, ThreadType
<1>3. FoundActive' /\ Consumes'
  BY <1>2 DEF FoundActive, Consumes
<1>4. r # 0 /\ c = cur["cancel"].comp
  <2>1. r # 0
    BY <1>0, <1>1, Threads DEF Types, RefType, Holding
  <2> QED
    BY <1>0, <1>1, <2>1, FoundSlot
<1>5. /\ r \in Slots /\ LibType' /\ Len(lib') = Len(lib)
      /\ \/ lib' = lib /\ ~(c # DM /\ lib[r].active)
         \/ /\ \A j \in Slots : j # r => lib'[j] = lib[j]
            /\ lib'[r].active = FALSE
  BY <1>0, <1>1, ReleaseEffect
<1>6. \A j \in Slots : lib[j].active /\ lib[j].comp = c => j = r
  BY <1>0, <1>1, <1>4, FoundSlot
<1>7. Slots' = Slots
  BY <1>5 DEF Types, LibType, Slots
<1>8. \A d : /\ IsRegistered(d)' => IsRegistered(d) /\ (d # c \/ c = DM)
             /\ IsRegistered(d) /\ d # c => IsRegistered(d)'
  BY <1>0, <1>5, <1>6, <1>7 DEF IsRegistered
<1>9. \A d : (Ending(d) <=> d = c) /\ ~Ending(d)' /\ ~Closing(d)
  BY <1>0, <1>1, <1>2 DEF Ending, Closing
<1>10. DM \notin conf
  BY DmCompAssumption DEF RegInv, LifeInv, Member
<1>11. \A d \in conf : Lasting(d)' => Lasting(d)
  BY <1>8, <1>9, <1>10 DEF Lasting
<1>12. \A d : Lasting(d) => Lasting(d)'
  BY <1>8, <1>9 DEF Lasting
<1> QED
  BY <1>1, <1>3, <1>9, <1>11, <1>12, SubFrame

\* The component whose failure is at work does not leave.
LEMMA FailedStays ==
  ASSUME Types, RegInv, pc[child] = "wait", ref[child] # 0
  PROVE  /\ lib[ref[child]].comp = cur[child].comp
         /\ cur[child].comp \notin conf /\ ~Leaving(cur[child].comp)
<1>1. lib[ref[child]].comp = cur[child].comp
  BY DEF RegInv, RefOwn
<1>2. Failing(cur[child].comp)
  BY DEF Failing
<1>3. cur[child] \in Message /\ cur[child].type = "TaskError"
  BY Threads DEF Types, ThreadType, RegInv, PidInv, ThreadPids
<1>4. cur[child] \in ErrorMsg
  BY <1>3, KindsType DEF Message, NoMsg, xTEDSMsg, CancelMsg, PipeMsg, RequestMsg,
                         UnsubscribeMsg, ConsumeMsg
<1>5. cur[child].comp \in Member
  BY <1>4 DEF ErrorMsg, Member
<1> QED
  BY <1>1, <1>2, <1>5 DEF RegInv, Places, Place

\* A failure: who served the failed task drops it, and it serves nobody.
LEMMA SubTaskError ==
  ASSUME Types, SlotInv, RegInv, SubInv, TaskError
  PROVE  SubInv'
<1> USE DEF SubInv
<1>0. PICK r, c : r = ref[child] /\ c = lib[r].comp
  OBVIOUS
<1>1. /\ pc[child] = "wait" /\ UNCHANGED <<ref, conf, strays>>
      /\ \/ /\ r = 0 /\ lib' = lib /\ pc' = [pc EXCEPT ![child] = "idle"]
            /\ UNCHANGED <<psubs, provSubs>>
         \/ /\ r # 0 /\ lib' = Fail(r) /\ FinishComponent(c)
            /\ pc' = [pc EXCEPT ![child] = "publish"]
  BY <1>0 DEF TaskError, ChildIdle
<1>2. pc'["cancel"] = pc["cancel"] /\ pc'[child] # "consume"
  BY <1>1, Threads DEF Types, ThreadType
<1>3. Consumes'
  BY <1>2 DEF Consumes
<1>4. CASE r = 0
  <2>1. SlotsKept
    BY <1>1, <1>4, SameSlots DEF Types
  <2> QED
    BY <1>1, <1>2, <1>3, <1>4, <2>1, SubQuiet
<1>5. CASE r # 0
  <2>1. /\ r \in Slots /\ LibType' /\ Len(lib') = Len(lib)
        /\ \A j \in Slots : j # r => lib'[j] = lib[j]
        /\ lib'[r].available = lib[r].available
        /\ lib'[r].active = FALSE /\ lib'[r].comp = lib[r].comp
    BY <1>0, <1>1, <1>5, FailEffect
  <2>2. Slots' = Slots
    BY <2>1 DEF Types, LibType, Slots
  <2>4. c \notin conf /\ ~Leaving(c)
    BY <1>0, <1>1, <1>5, FailedStays
  <2>5. InUseKept
    BY <2>1 DEF InUseKept
  <2>6. \A d : (Ending(d)' <=> Ending(d)) /\ (Closing(d)' <=> Closing(d))
    BY <1>1, <1>2, <2>5, CancelStays
  <2>7. \A d : /\ IsRegistered(d)' => IsRegistered(d)
               /\ IsRegistered(d) /\ d # c => IsRegistered(d)'
    BY <1>0, <2>1, <2>2 DEF IsRegistered
  <2>8. FoundActive'
    <3> SUFFICES ASSUME pc["cancel"] = "wait", ref["cancel"] # 0
                 PROVE  lib'[ref["cancel"]].active
      BY <1>1, <1>2 DEF FoundActive
    <3>1. ref["cancel"] \in Slots /\ lib[ref["cancel"]].comp = cur["cancel"].comp
      BY FoundSlot
    <3>2. ref["cancel"] # r
      BY <1>0, <2>4, <3>1 DEF Leaving, Cancelling
    <3> QED
      BY <2>1, <3>1, <3>2 DEF FoundActive
  <2>9. ServedType'
    BY <1>1, <1>5 DEF ServedType, FinishComponent
  <2>10. ASSUME NEW p \in provSubs', Provides(p)'
         PROVE  /\ p \in provSubs /\ Provides(p) /\ p[2] # c
                /\ Entry(p) \in psubs' /\ Entry(p)' = Entry(p)
    <3>1. p \in provSubs /\ Provides(p)
      BY <1>1, <1>5, <2>6, <2>7, <2>10, FinishServed DEF Provides, Lasting
    <3>2. Entry(p) \in psubs /\ p[1] # c
      BY <2>4, <3>1 DEF InList, ServedType
    <3> QED
      BY <1>1, <1>5, <2>10, <3>1, <3>2, FinishServed DEF Entry
  <2>11. InList'
    BY <2>10 DEF InList
  <2>12. Subscribed'
    BY <2>6, <2>7, <2>10 DEF Subscribed, Lasting
  <2> QED
    BY <1>3, <2>8, <2>9, <2>11, <2>12
<1> QED
  BY <1>4, <1>5

\* A provider serves a new subscriber, which is entered, or drops one, which
\* is deleted together with others only when they have its notification too.
LEMMA SubConsume ==
  ASSUME OwnMsgs, Types, SlotInv, RegInv, SubInv, Consume
  PROVE  SubInv'
<1> USE DEF SubInv
<1>0. PICK m : m = cur[child]
  OBVIOUS
<1>1. /\ pc[child] = "consume" /\ UNCHANGED <<lib, ref, conf>>
      /\ pc' = [pc EXCEPT ![child] = "idle"]
      /\ \/ /\ psubs' = IF m.hasId
                        THEN psubs \cup {[prov |-> m.prov, sub |-> m.client,
                                          msg |-> MsgOf[m.prov]]}
                        ELSE psubs
            /\ provSubs' = IF m.prov \in conf /\ life[m.prov] = "up"
                           THEN provSubs \cup {<<m.prov, m.client>>} ELSE provSubs
            /\ strays' = IF ~m.hasId \/ \E c \in {m.prov, m.client} :
                                          ~IsRegistered(c) \/ Ending(c)
                         THEN strays \cup {<<m.prov, m.client>>} ELSE strays
         \/ /\ psubs' = IF m.hasId
                        THEN {e \in psubs : ~(e.sub = m.client /\ e.msg = MsgOf[m.prov])}
                        ELSE psubs
            /\ provSubs' = provSubs \ {<<m.prov, m.client>>}
            /\ UNCHANGED strays
  BY <1>0 DEF Consume, ChildIdle
<1>2. pc'["cancel"] = pc["cancel"] /\ pc'[child] = "idle"
  BY <1>1, Threads DEF Types, ThreadType
<1>3. FoundActive' /\ Consumes'
  BY <1>1, <1>2 DEF FoundActive, Consumes
<1>4. m.prov \in Comp /\ m.client \in Client
  BY <1>0, <1>1 DEF Consumes, ConsumeMsg
<1>5. PICK q : q = <<m.prov, m.client>>
  OBVIOUS
<1>6. q \in Comp \X Client /\ q[1] = m.prov /\ q[2] = m.client
  BY <1>4, <1>5
<1>7. ServedType'
  BY <1>1, <1>5, <1>6 DEF ServedType
<1>8. \A d : (Lasting(d)' <=> Lasting(d)) /\ (Closing(d)' <=> Closing(d))
  BY <1>1, <1>2 DEF Lasting, Closing, Ending, IsRegistered, Slots
<1>9. ASSUME NEW p \in provSubs', Provides(p)'
      PROVE  /\ Entry(p)' \in psubs'
             /\ p[2] \in App => Lasting(p[2])' \/ Closing(p[2])'
  <2>1. Entry(p)' = Entry(p)
    BY DEF Entry
  <2>2. CASE /\ psubs' = IF m.hasId
                         THEN psubs \cup {[prov |-> m.prov, sub |-> m.client,
                                           msg |-> MsgOf[m.prov]]}
                         ELSE psubs
             /\ provSubs' = IF m.prov \in conf /\ life[m.prov] = "up"
                            THEN provSubs \cup {q} ELSE provSubs
             /\ strays' = IF ~m.hasId \/ \E c \in {m.prov, m.client} :
                                           ~IsRegistered(c) \/ Ending(c)
                          THEN strays \cup {q} ELSE strays
    <3>1. CASE p \in provSubs
      <4>1. Provides(p)
        BY <1>8, <1>9, <2>2, <3>1 DEF Provides
      <4> QED
        BY <1>8, <2>1, <2>2, <3>1, <4>1 DEF InList, Subscribed
    <3>2. CASE p \notin provSubs
      <4>1. p = q /\ p \notin strays'
        BY <1>9, <2>2, <3>2 DEF Provides
      <4>2. m.hasId /\ Lasting(m.client)
        BY <2>2, <4>1 DEF Lasting
      <4>3. Entry(p) \in psubs'
        BY <1>6, <2>2, <4>1, <4>2 DEF Entry
      <4> QED
        BY <1>6, <1>8, <2>1, <4>1, <4>2, <4>3
    <3> QED
      BY <3>1, <3>2
  <2>3. CASE /\ psubs' = IF m.hasId
                         THEN {e \in psubs : ~(e.sub = m.client /\ e.msg = MsgOf[m.prov])}
                         ELSE psubs
             /\ provSubs' = provSubs \ {q}
             /\ UNCHANGED strays
    <3>1. p \in provSubs /\ p # q /\ Provides(p)
      BY <1>8, <1>9, <2>3 DEF Provides
    <3>2. Entry(p) \in psubs /\ (p[2] \in App => Lasting(p[2]) \/ Closing(p[2]))
      BY <3>1 DEF InList, Subscribed
    <3>3. p = <<p[1], p[2]>> /\ p[1] \in Comp
      BY <3>1 DEF ServedType
    <3>4. ~(p[2] = m.client /\ MsgOf[p[1]] = MsgOf[m.prov])
      BY <1>4, <1>5, <3>1, <3>3 DEF OwnMsgs
    <3>5. Entry(p).sub = p[2] /\ Entry(p).msg = MsgOf[p[1]]
      BY DEF Entry
    <3>6. Entry(p) \in psubs'
      BY <2>3, <3>2, <3>4, <3>5
    <3> QED
      BY <1>8, <2>1, <3>2, <3>6
  <2> QED
    BY <1>1, <1>5, <2>2, <2>3
<1>10. InList'
  BY <1>9 DEF InList
<1>11. Subscribed'
  BY <1>9 DEF Subscribed
<1> QED
  BY <1>3, <1>7, <1>10, <1>11

\* Every step preserves the invariant.
LEMMA SubInvNext ==
  ASSUME Orderly, OwnMsgs, Types, SlotInv, RegInv, SubInv, [Next]_vars
  PROVE  SubInv'
<1>1. "cancel" \in Thread /\ child \in Thread /\ XThread \subseteq Thread
  BY Threads
<1>2. CASE \E c \in App \cup Sensor, t \in XThread : ListenxTEDS(c, t)
  BY <1>2, SubThreads DEF Member
<1>3. ASSUME NEW t \in XThread, xTEDSStep(t) PROVE SubInv'
  BY <1>1, <1>3, SubThreads, SubRegister DEF xTEDSStep
<1>4. CASE CancelStep
  BY <1>1, <1>4, SubThreads, SubCancelFind, SubCancelApply, SubCancelFinish,
     SubCancelRelease DEF CancelStep
<1>5. CASE ChildStep
  BY <1>1, <1>5, SubThreads, SubChild, SubTaskError, SubConsume DEF ChildStep
<1>6. CASE EnvNext
  <2>1. ASSUME NEW c \in App \cup Sensor,
               Start(c) \/ Exit(c) \/ Unplug(c) \/ Kill(c) \/ Error(c)
        PROVE  SubInv'
    <3>1. c \in Member
      BY DEF Member
    <3>2. ASSUME NEW byPM, NEW full, End(c, byPM, full) PROVE SubInv'
      BY <3>1, <3>2, SubChild
    <3> QED
      BY <2>1, <3>1, <3>2, SubStart DEF Exit, Unplug, Kill
  <2>2. ASSUME NEW m, Send(m) PROVE SubInv'
    BY <2>2, SubChild
  <2> QED
    BY <1>6, <2>1, <2>2, RequestsQuiet, SubChild DEF EnvNext
<1>7. CASE UNCHANGED vars
  BY <1>7, SubChild
<1> QED
  BY <1>2, <1>3, <1>4, <1>5, <1>6, <1>7 DEF Next

\* A provider does not go on serving a subscriber whose registration has ended:
\* the list has an entry for every subscriber a provider serves, and the end of
\* the subscriber's registration goes through the list.
THEOREM DmDroppedWhenEnded ==
  ASSUME Orderly, OwnMsgs
  PROVE  Spec => []DroppedWhenEnded
<1>1. Types /\ SlotInv /\ RegInv /\ SubInv /\ [Next]_vars => SubInv'
  BY SubInvNext
<1>2. SubInv => DroppedWhenEnded
  <2> SUFFICES ASSUME SubInv, Quiet, NEW p \in provSubs \ strays,
                      p[2] \in App, IsRegistered(p[1])
               PROVE  IsRegistered(p[2])
    BY DEF DroppedWhenEnded
  <2>1. pc["cancel"] \notin {"publish", "finish"}
    BY Threads DEF Quiet
  <2>2. Provides(p)
    BY <2>1 DEF Provides, Lasting, Ending
  <2>3. Lasting(p[2]) \/ Closing(p[2])
    BY <2>2 DEF SubInv, Subscribed
  <2> QED
    BY <2>1, <2>3 DEF Lasting, Closing
<1> QED
  BY SubInvInit, RegInvAlways, <1>1, <1>2, PTL DEF Spec

-----------------------------------------------------------------------------
(* Which tasks are posted.                                                 *)

\* Every application's xTEDS parses: one that does not leaves a slot that is
\* neither in use nor posted, while its application runs.
Parsed == Malformed \cap App = {}

Loose(i) == ~lib[i].active /\ ~lib[i].posted
AtRest(c) == life[c] = "off" /\ c \notin due
Found(c) == pc["cancel"] = "wait" /\ Reaching(c)
Revived == App \ MayKill

\* The TM has been told to start only what does not run.
DueOff == \A c \in due : life[c] = "off"
\* The application of a slot that would be posted does not run and has not been
\* posted yet, or it was killed for good; so was that of a free slot.
LooseOff == \A i \in Slots : lib[i].comp \in App /\ Loose(i)
              => Gone(lib[i].comp) \/ (lib[i].comp \in Revived /\ AtRest(lib[i].comp))
FreeGone == \A i \in Slots : lib[i].comp \in App /\ lib[i].available => Gone(lib[i].comp)
\* A task killed for good stays away; another has ended once, and stays
\* registered and unposted until its cancellation gets to the slot.
KilledGone == \A c \in MayKill : Leaving(c) => Gone(c)
EndedRests == \A c \in Revived : Queued(c) \/ Found(c) => AtRest(c) /\ IsRegistered(c)
OneEnd == \A c \in Revived :
  /\ \A m, n \in DOMAIN cancelQueue :
       cancelQueue[m].comp = c /\ cancelQueue[n].comp = c => m = n
  /\ Queued(c) => ~Cancelling(c)
\* Its slot is inactive from then on, and so is not given back.
Emptied == /\ pc["cancel"] \in {"publish", "finish"} /\ cur["cancel"].comp \in Revived
           => ~lib[ref["cancel"]].active
InFull == /\ \A m \in Range(cancelQueue) : m.full => m.comp \in MayKill
          /\ pc["cancel"] # "idle" /\ cur["cancel"].full => cur["cancel"].comp \in MayKill
\* The child posts slots there are.
Sized == pc[child] \in {"walk", "post"} => walk.pos # 0 /\ walk.size <= Len(lib)
TaskInv == DueOff /\ LooseOff /\ FreeGone
EndInv == KilledGone /\ EndedRests /\ OneEnd /\ Emptied /\ InFull
PostInv == TaskInv /\ EndInv /\ Sized

\* Initially every application is to be started and none is registered.
LEMMA PostInvInit == Init => PostInv
<1> SUFFICES ASSUME Init PROVE PostInv
  OBVIOUS
<1>1. /\ lib = <<DmSlot>> /\ cancelQueue = << >> /\ \A t \in Thread : pc[t] = "idle"
      /\ life = [c \in Member |-> "off"] /\ due = App
  BY DEF Init, Member
<1>2. Slots = {1} /\ lib[1].comp = DM /\ DM \notin App
  BY <1>1, DmCompAssumption DEF Slots, DmSlot
<1>3. Range(cancelQueue) = {} /\ \A c : ~Queued(c) /\ ~Cancelling(c)
  BY <1>1, Threads DEF Range, Queued, Cancelling
<1>4. DueOff
  BY <1>1 DEF DueOff, Member
<1>5. TaskInv
  BY <1>2, <1>4 DEF TaskInv, LooseOff, FreeGone
<1>6. EndInv
  BY <1>1, <1>3, Threads DEF EndInv, KilledGone, EndedRests, OneEnd, Emptied, InFull,
                             Leaving, Found, Reaching
<1>7. Sized
  BY <1>1, Threads DEF Sized
<1> QED
  BY <1>5, <1>6, <1>7 DEF PostInv

\* Slots may be posted, and their applications are then due.
Posts ==
  /\ due \subseteq due' /\ due' \subseteq App
  /\ \A i \in Slots : Loose(i)' => Loose(i)
  /\ \A a \in due' \ due : \E i \in Slots : lib[i].comp = a /\ Loose(i) /\ ~Loose(i)'

\* PostTask posts slots that are inactive and have not been posted.
LEMMA PostTaskPosts ==
  ASSUME OwnNames, Types, SlotInv, NEW S, PostTask(S), S \subseteq Slots,
         \A i \in S : Loose(i)
  PROVE  Posts
<1> DEFINE P(i) == IF i \in S THEN [lib[i] EXCEPT !.posted = TRUE] ELSE lib[i]
<1>1. /\ lib' = [i \in Slots |-> P(i)]
      /\ due' = due \cup {a \in App : \E i \in S : lib[i].name = NameOf[a]}
  BY DEF PostTask
<1>2. ASSUME NEW i \in Slots
      PROVE  /\ P(i).active = lib[i].active
             /\ P(i).posted = IF i \in S THEN TRUE ELSE lib[i].posted
  <2>1. lib[i] \in SlotType
    BY SlotComp DEF Types
  <2> QED
    BY <2>1 DEF SlotType
<1> HIDE DEF P
<1>3. \A i \in Slots : /\ lib'[i].active = lib[i].active
                       /\ lib'[i].posted = IF i \in S THEN TRUE ELSE lib[i].posted
  BY <1>1, <1>2
<1>4. \A i \in Slots : Loose(i)' => Loose(i)
  BY <1>3 DEF Loose
<1>5. \A i \in S : ~Loose(i)'
  BY <1>3 DEF Loose
<1>6. ASSUME NEW a \in due' \ due
      PROVE  \E i \in Slots : lib[i].comp = a /\ Loose(i) /\ ~Loose(i)'
  <2>1. PICK i \in S : lib[i].name = NameOf[a] /\ a \in App
    BY <1>1, <1>6
  <2>2. lib[i].name = NameOf[lib[i].comp] /\ lib[i].comp \in Comp /\ a \in Comp
    BY <2>1, SlotComp, Components DEF Types, SlotInv, NamesKept
  <2>3. lib[i].comp = a
    BY <2>1, <2>2 DEF OwnNames
  <2> QED
    BY <1>5, <2>3
<1>7. due' \subseteq App
  BY <1>1 DEF Types, EnvType
<1> QED
  BY <1>1, <1>4, <1>6, <1>7 DEF Posts

\* Slots that stay the same are not posted.
LEMMA NonePosted ==
  ASSUME Types, UNCHANGED <<lib, due>>
  PROVE  Posts
BY DEF Posts, Loose, Slots, Types, EnvType

\* What is posted does not run; what was at rest and registered is not posted.
LEMMA PostsOff ==
  ASSUME Types, SlotInv, PostInv, Posts, SlotsKept, UNCHANGED <<life, starts>>
  PROVE  /\ \A a \in due' \ due : life[a] = "off"
         /\ TaskInv'
         /\ \A c \in Revived : AtRest(c) /\ IsRegistered(c) => AtRest(c)'
<1> USE DEF PostInv, TaskInv
<1>1. ASSUME NEW a \in due' \ due
      PROVE  life[a] = "off" /\ \E i \in Slots : lib[i].comp = a /\ Loose(i) /\ ~Loose(i)'
  <2>1. PICK i \in Slots : lib[i].comp = a /\ Loose(i) /\ ~Loose(i)'
    BY <1>1 DEF Posts
  <2>2. a \in App
    BY <1>1 DEF Posts
  <2> QED
    BY <2>1, <2>2 DEF LooseOff, Gone, AtRest
<1>2. Slots' = Slots
  BY DEF SlotsKept, Types, LibType, Slots
<1>3. \A i \in Slots : SlotKept(i)
  BY DEF SlotsKept
<1>4. \A c \in Revived, i \in Slots : lib[i].comp = c => ~lib[i].available
  BY DEF FreeGone, Gone, Revived
<1>5. ASSUME NEW c \in Revived, c \in due' \ due
      PROVE  /\ ~IsRegistered(c)
             /\ \A i \in Slots : lib[i].comp = c => ~Loose(i)'
  <2>1. PICK j \in Slots : lib[j].comp = c /\ Loose(j) /\ ~Loose(j)'
    BY <1>1, <1>5
  <2>2. \A i \in Slots : lib[i].comp = c => i = j
    BY <1>4, <2>1 DEF SlotInv, OneSlot
  <2> QED
    BY <2>1, <2>2 DEF IsRegistered, Loose
<1>6. \A c : Gone(c)' <=> Gone(c)
  BY DEF Gone
<1>7. DueOff'
  BY <1>1 DEF DueOff
<1>8. LooseOff'
  <2> SUFFICES ASSUME NEW i \in Slots, lib[i].comp \in App, Loose(i)'
               PROVE  \/ Gone(lib[i].comp)
                      \/ lib[i].comp \in Revived /\ life[lib[i].comp] = "off"
                         /\ lib[i].comp \notin due'
    BY <1>2, <1>3, <1>6 DEF LooseOff, AtRest, SlotKept, Revived
  <2>1. \/ Gone(lib[i].comp)
        \/ lib[i].comp \in Revived /\ AtRest(lib[i].comp)
    BY DEF Posts, LooseOff
  <2> QED
    BY <1>5, <2>1 DEF AtRest
<1>9. FreeGone'
  BY <1>2, <1>3, <1>6 DEF FreeGone, SlotKept
<1>10. ASSUME NEW c \in Revived, AtRest(c), IsRegistered(c) PROVE AtRest(c)'
  BY <1>5, <1>10 DEF AtRest
<1> QED
  BY <1>1, <1>7, <1>8, <1>9, <1>10

\* Cancellations go on, and tasks are posted.
LEMMA EndFrame ==
  ASSUME Types, SlotInv, RegInv, EndInv, CancelKept, SlotsKept,
         UNCHANGED <<cancelQueue, life, starts>>,
         \/ pc'["cancel"] = pc["cancel"]
         \/ pc["cancel"] = "publish" /\ pc'["cancel"] = "finish",
         \A c \in Revived : AtRest(c) /\ IsRegistered(c) => AtRest(c)'
  PROVE  EndInv'
<1> USE DEF EndInv
<1>1. \A c : /\ Queued(c)' <=> Queued(c)
             /\ Cancelling(c)' <=> Cancelling(c)
             /\ Reaching(c)' <=> Reaching(c)
  BY CancelFrame
<1>2. \A c : IsRegistered(c)' <=> IsRegistered(c)
  BY SlotFrame
<1>3. \A c : Gone(c)' <=> Gone(c)
  BY DEF Gone
<1>4. KilledGone' /\ OneEnd'
  BY <1>1, <1>3 DEF KilledGone, OneEnd, Leaving
<1>5. EndedRests'
  BY <1>1, <1>2 DEF EndedRests, Found
<1>6. Emptied'
  <2> SUFFICES ASSUME pc["cancel"] \in {"publish", "finish"},
                      cur["cancel"].comp \in Revived, ~lib[ref["cancel"]].active
               PROVE  ~lib'[ref["cancel"]].active
    BY DEF Emptied, CancelKept
  <2>1. ref["cancel"] # 0
    BY Threads DEF Types, RefType, Holding
  <2>2. ref["cancel"] \in Slots
    BY <2>1, FoundSlot
  <2> QED
    BY <2>2 DEF SlotsKept, SlotKept
<1>7. InFull'
  BY DEF InFull, CancelKept
<1> QED
  BY <1>4, <1>5, <1>6, <1>7

NewOff == \A a \in due' \ due : life[a] = "off"

LEMMA PostFrame ==
  ASSUME Types, SlotInv, RegInv, PostInv, SlotsKept, Posts, CancelKept, Sized',
         UNCHANGED <<cancelQueue, life, starts>>,
         \/ pc'["cancel"] = pc["cancel"]
         \/ pc["cancel"] = "publish" /\ pc'["cancel"] = "finish"
  PROVE  PostInv' /\ NewOff
<1>1. /\ NewOff /\ TaskInv'
      /\ \A c \in Revived : AtRest(c) /\ IsRegistered(c) => AtRest(c)'
  BY PostsOff DEF NewOff
<1>2. EndInv'
  BY <1>1, EndFrame DEF PostInv
<1> QED
  BY <1>1, <1>2 DEF PostInv

\* A publication may post tasks: those a ReqReg has found inactive.
LEMMA PublishPosts ==
  ASSUME OwnNames, Types, SlotInv, NEW t \in Thread, Publish(t)
  PROVE  Posts
<1>1. \/ UNCHANGED <<lib, due>>
      \/ \E s, r, dereg : ReqRegAbout(s, r, dereg)
      \/ \E s, k, r : SearchAbout(s, k, r)
  BY DEF Publish
<1>2. ASSUME NEW s, NEW r, NEW dereg, ReqRegAbout(s, r, dereg)
      PROVE  Posts
  <2> DEFINE matched == {numxTEDS(i) : i \in {j \in Slots : Matches(s, j)}}
  <2>1. UNCHANGED <<lib, due>> \/ PostTask({i \in Slots : Postable(i, matched)})
    BY <1>2 DEF ReqRegAbout
  <2> HIDE DEF matched
  <2>2. PICK S : S = {i \in Slots : Postable(i, matched)}
    OBVIOUS
  <2>3. S \subseteq Slots /\ \A i \in S : Loose(i)
    BY <2>2 DEF Postable, Loose
  <2> QED
    BY <2>1, <2>2, <2>3, NonePosted, PostTaskPosts
<1>3. ASSUME NEW s, NEW k, NEW r, SearchAbout(s, k, r)
      PROVE  Posts
  BY <1>3, NonePosted DEF SearchAbout
<1> QED
  BY <1>1, <1>2, <1>3, NonePosted

\* The child posts, one by one, the slots its search has found inactive.
LEMMA ChildPostPosts ==
  ASSUME OwnNames, Types, SlotInv, Sized, ChildPost
  PROVE  Posts
<1>1. \/ UNCHANGED <<lib, due>>
      \/ /\ walk.pos <= walk.size /\ pc[child] = "post"
         /\ PostTask({i \in {walk.pos} : Postable(i, walk.matched)})
  BY DEF ChildPost
<1>2. CASE /\ walk.pos <= walk.size /\ pc[child] = "post"
           /\ PostTask({i \in {walk.pos} : Postable(i, walk.matched)})
  <2>1. walk.pos \in Nat /\ walk.size \in Nat
    BY ThreadTypes DEF WalkSet
  <2>2. walk.pos \in Slots
    BY <1>2, <2>1, ThreadTypes DEF Sized
  <2>3. PICK S : S = {i \in {walk.pos} : Postable(i, walk.matched)}
    OBVIOUS
  <2>4. S \subseteq Slots /\ \A i \in S : Loose(i)
    BY <2>2, <2>3 DEF Postable, Loose
  <2> QED
    BY <1>2, <2>3, <2>4, PostTaskPosts
<1> QED
  BY <1>1, <1>2, NonePosted

\* Registrations that come in, are parsed and are done with, and publications.
LEMMA PostThreads ==
  ASSUME Orderly, Types, SlotInv, RegInv, PostInv,
         \/ \E c \in Member, t \in XThread : ListenxTEDS(c, t)
         \/ \E t \in XThread : Parse(t) \/ xTEDSDone(t)
         \/ \E t \in Thread : Publish(t)
  PROVE  PostInv' /\ NewOff
<1>1. ASSUME NEW t \in XThread,
             (\E c \in Member : ListenxTEDS(c, t)) \/ Parse(t) \/ xTEDSDone(t)
      PROVE  PostInv' /\ NewOff
  <2>1. /\ lib' = lib /\ UNCHANGED <<due, cancelQueue, life, starts, walk>>
        /\ \E x : pc' = [pc EXCEPT ![t] = x]
        /\ cur' = cur \/ \E m : cur' = [cur EXCEPT ![t] = m]
        /\ ref' = ref \/ \E r : ref' = [ref EXCEPT ![t] = r]
    <3>1. CASE \E c \in Member : ListenxTEDS(c, t)
      <4>1. PICK c \in Member : ListenxTEDS(c, t)
        BY <3>1
      <4> QED
        BY <4>1 DEF ListenxTEDS, dmVars, envVars
    <3>2. CASE Parse(t) \/ xTEDSDone(t)
      BY <3>2 DEF Parse, xTEDSDone, dmVars, envVars
    <3> QED
      BY <1>1, <3>1, <3>2
  <2>2. t \in Thread /\ t # "cancel" /\ t # child
    BY Threads
  <2>3. CancelKept
    BY <2>1, <2>2, OtherMoves
  <2>4. pc'["cancel"] = pc["cancel"] /\ pc'[child] = pc[child]
    BY <2>1, <2>2, Threads DEF Types, ThreadType
  <2>5. SlotsKept /\ Posts
    BY <2>1, SameSlots, NonePosted DEF Types
  <2>6. Sized'
    BY <2>1, <2>4 DEF PostInv, Sized
  <2> QED
    BY <2>1, <2>3, <2>4, <2>5, <2>6, PostFrame
<1>2. ASSUME NEW t \in Thread, Publish(t) PROVE PostInv' /\ NewOff
  <2>1. SlotsKept /\ UNCHANGED <<cancelQueue, pc, cur, ref, walk, life, starts>>
    BY <1>2, PublishEffect
  <2>2. Posts
    BY <1>2, PublishPosts DEF Orderly
  <2>3. CancelKept /\ Sized'
    BY <2>1 DEF CancelKept, PostInv, Sized, SlotsKept
  <2> QED
    BY <2>1, <2>2, <2>3, PostFrame
<1> QED
  BY <1>1, <1>2

\* The child's work but failures, and what is sent.
LEMMA PostChild ==
  ASSUME Orderly, Types, SlotInv, RegInv, PostInv,
         \/ CancelFinish
         \/ ChildTake \/ ChildWalk \/ ChildPost \/ TaskErrorDone \/ Consume
         \/ \E m : Send(m)
         \/ \E c : Error(c)
         \/ UNCHANGED vars
  PROVE  PostInv' /\ NewOff
<1>1. pc \in [Thread -> Pcs] /\ cur \in [Thread -> Message] /\ ref \in [Thread -> 0..Len(lib)]
      /\ child \in Thread /\ "cancel" \in Thread /\ child # "cancel"
  BY Threads DEF Types, ThreadType, RefType
<1>2. ASSUME SlotsKept, Posts, UNCHANGED <<cancelQueue, life, starts>>,
             ref' = ref \/ \E r : ref' = [ref EXCEPT ![child] = r],
             pc' = pc \/ \E x : pc' = [pc EXCEPT ![child] = x],
             cur' = cur \/ \E m : cur' = [cur EXCEPT ![child] = m],
             Sized'
      PROVE  PostInv' /\ NewOff
  <2>1. pc'["cancel"] = pc["cancel"]
    BY <1>1, <1>2
  <2>2. CancelKept
    BY <1>1, <1>2, OtherMoves
  <2> QED
    BY <1>2, <2>1, <2>2, PostFrame
<1>3. ASSUME UNCHANGED <<lib, due, cancelQueue, life, starts>>,
             ref' = ref \/ \E r : ref' = [ref EXCEPT ![child] = r],
             pc' = pc \/ \E x : pc' = [pc EXCEPT ![child] = x],
             cur' = cur \/ \E m : cur' = [cur EXCEPT ![child] = m],
             Sized'
      PROVE  PostInv' /\ NewOff
  BY <1>2, <1>3, SameSlots, NonePosted DEF Types
<1>4. ASSUME pc' = pc, UNCHANGED <<lib, walk>> PROVE Sized'
  BY <1>4 DEF PostInv, Sized
<1>5. CASE CancelFinish
  <2>1. /\ pc["cancel"] = "publish" /\ pc' = [pc EXCEPT !["cancel"] = "finish"]
        /\ UNCHANGED <<lib, due, cur, ref, walk, cancelQueue, life, starts>>
    BY <1>5 DEF CancelFinish
  <2>2. pc'["cancel"] = "finish" /\ pc'[child] = pc[child]
    BY <1>1, <2>1
  <2>3. CancelKept /\ Sized'
    BY <2>1, <2>2 DEF CancelKept, PostInv, Sized
  <2> QED
    BY <2>1, <2>2, <2>3, PostFrame, SameSlots, NonePosted DEF Types
<1>6. CASE ChildTake
  <2>0. PICK m : m = Head(pipe)
    OBVIOUS
  <2>1. /\ UNCHANGED <<lib, due, cancelQueue, life, starts>> /\ pc[child] = "idle"
        /\ TakeRequest(m) \/ TakeUnsubscribe(m) \/ TakeTaskError(m) \/ TakeConsume(m)
    BY <1>6, <2>0 DEF ChildTake
  <2>2. /\ ref' = ref \/ \E r : ref' = [ref EXCEPT ![child] = r]
        /\ cur' = cur \/ \E n : cur' = [cur EXCEPT ![child] = n]
        /\ \/ pc' = pc
           \/ \E x : pc' = [pc EXCEPT ![child] = x] /\ x \in {"wait", "consume"}
           \/ /\ pc' = [pc EXCEPT ![child] = "walk"]
              /\ walk' = [NoWalk EXCEPT !.pos = 1, !.size = Len(lib)]
    BY <2>1 DEF TakeRequest, TakeUnsubscribe, TakeTaskError, TakeConsume
  <2>3. Sized'
    <3>1. CASE pc' = pc
      BY <2>1, <3>1 DEF Sized
    <3>2. CASE \E x : pc' = [pc EXCEPT ![child] = x] /\ x \in {"wait", "consume"}
      BY <1>1, <3>2 DEF Sized
    <3>3. CASE walk' = [NoWalk EXCEPT !.pos = 1, !.size = Len(lib)]
      <4>1. walk'.pos = 1 /\ walk'.size = Len(lib)
        BY <3>3 DEF NoWalk
      <4> QED
        BY <2>1, <4>1, ThreadTypes DEF Sized
    <3> QED
      BY <2>2, <3>1, <3>2, <3>3
  <2> QED
    BY <1>3, <2>1, <2>2, <2>3
<1>7. CASE ChildWalk
  <2>1. /\ UNCHANGED <<lib, due, cancelQueue, life, starts, ref>> /\ pc[child] = "walk"
        /\ pc' = pc \/ \E x : pc' = [pc EXCEPT ![child] = x]
        /\ cur' = cur \/ cur' = [cur EXCEPT ![child] = NoMsg]
    BY <1>7 DEF ChildWalk, dmVars, ChildIdle
  <2>2. \/ \E i : WalkReqReg(cur[child], i)
        \/ \E i : WalkSearch(cur[child], i)
        \/ walk' = [walk EXCEPT !.pos = 1]
        \/ pc' = [pc EXCEPT ![child] = "idle"]
    BY <1>7 DEF ChildWalk, ChildIdle
  <2>3. walk \in WalkSet /\ walk.size <= Len(lib) /\ walk.pos # 0
    BY <2>1, ThreadTypes DEF PostInv, Sized
  <2>4. Sized'
    <3>1. CASE \E i : WalkReqReg(cur[child], i) \/ WalkSearch(cur[child], i)
      <4>1. walk'.size = walk.size /\ walk'.pos = walk.pos + 1 /\ walk.pos \in Nat
        BY <2>3, <3>1 DEF WalkReqReg, WalkSearch, WalkSet
      <4> QED
        BY <2>1, <2>3, <4>1 DEF Sized
    <3>2. CASE walk' = [walk EXCEPT !.pos = 1]
      <4>1. walk'.size = walk.size /\ walk'.pos = 1
        BY <2>3, <3>2 DEF WalkSet
      <4> QED
        BY <2>1, <2>3, <4>1 DEF Sized
    <3>3. CASE pc' = [pc EXCEPT ![child] = "idle"]
      BY <1>1, <3>3 DEF Sized
    <3> QED
      BY <2>2, <3>1, <3>2, <3>3
  <2> QED
    BY <1>3, <2>1, <2>4
<1>8. CASE ChildPost
  <2>1. SlotsKept /\ Posts
    BY <1>8, ChildPostSlots, ChildPostPosts DEF Orderly, PostInv
  <2>2. /\ UNCHANGED <<cancelQueue, life, starts, ref>> /\ pc[child] = "post"
        /\ \/ UNCHANGED <<pc, cur>> /\ walk' = [walk EXCEPT !.pos = @ + 1]
           \/ pc' = [pc EXCEPT ![child] = "idle"] /\ cur' = [cur EXCEPT ![child] = NoMsg]
    BY <1>8 DEF ChildPost, ChildIdle
  <2>3. walk \in WalkSet /\ walk.size <= Len(lib) /\ walk.pos # 0
    BY <2>2, ThreadTypes DEF PostInv, Sized
  <2>4. Sized'
    <3>1. CASE walk' = [walk EXCEPT !.pos = @ + 1]
      <4>1. walk'.size = walk.size /\ walk'.pos = walk.pos + 1 /\ walk.pos \in Nat
        BY <2>3, <3>1 DEF WalkSet
      <4> QED
        BY <2>1, <2>3, <4>1 DEF Sized, SlotsKept
    <3>2. CASE pc' = [pc EXCEPT ![child] = "idle"]
      BY <1>1, <3>2 DEF Sized
    <3> QED
      BY <2>2, <3>1, <3>2
  <2> QED
    BY <1>2, <2>1, <2>2, <2>4
<1>9. CASE TaskErrorDone \/ Consume
  <2>1. /\ UNCHANGED <<lib, due, cancelQueue, life, starts>>
        /\ ref' = ref \/ ref' = [ref EXCEPT ![child] = 0]
        /\ pc' = [pc EXCEPT ![child] = "idle"] /\ cur' = [cur EXCEPT ![child] = NoMsg]
    BY <1>9 DEF TaskErrorDone, Consume, ChildIdle, envVars
  <2>2. Sized'
    BY <1>1, <2>1 DEF Sized
  <2> QED
    BY <1>3, <2>1, <2>2
<1>10. ASSUME NEW m, Send(m) PROVE PostInv' /\ NewOff
  BY <1>3, <1>4, <1>10 DEF Send, thVars
<1>11. ASSUME NEW c, Error(c) PROVE PostInv' /\ NewOff
  BY <1>3, <1>4, <1>11 DEF Error, thVars
<1>12. CASE UNCHANGED vars
  BY <1>3, <1>4, <1>12 DEF vars, dmVars, thVars, envVars
<1> QED
  BY <1>5, <1>6, <1>7, <1>8, <1>9, <1>10, <1>11, <1>12

\* A component that starts is not at rest, and was not killed for good.
LEMMA PostStart ==
  ASSUME Orderly, Types, RegInv, PostInv, NEW c \in Member, Start(c)
  PROVE  PostInv' /\ NewOff
<1> USE DEF PostInv, TaskInv, EndInv
<1>1. /\ life[c] = "off" /\ starts[c] < MaxStarts[c] /\ (c \in App => c \in due)
      /\ life' = [life EXCEPT ![c] = "up"] /\ starts' = [starts EXCEPT ![c] = @ + 1]
      /\ due' = due \ {c} /\ UNCHANGED <<lib, cancelQueue, pc, cur, ref, walk>>
  BY DEF Start, dmVars, thVars
<1>2. ~Gone(c)
  <2>1. starts[c] \in Nat /\ MaxStarts[c] \in Nat
    BY DmBoundsAssumption DEF Types, EnvType, Member
  <2> QED
    BY <1>1, <2>1 DEF Orderly, KilledForGood, Gone
<1>3. c \in App => ~AtRest(c)
  BY <1>1 DEF AtRest
<1>4. life \in [Member -> {"off", "up"}] /\ starts \in [Member -> Nat]
  BY DEF RegInv, LifeInv, Types, EnvType, Member
<1>5. \A d \in App : /\ d # c => (Gone(d)' <=> Gone(d)) /\ (AtRest(d)' <=> AtRest(d))
                     /\ d # c => life'[d] = life[d]
  BY <1>1, <1>4 DEF Gone, AtRest, Member
<1>6. \A d : /\ Leaving(d)' <=> Leaving(d)
             /\ Queued(d)' <=> Queued(d)
             /\ Cancelling(d)' <=> Cancelling(d)
             /\ Found(d)' <=> Found(d)
             /\ IsRegistered(d)' <=> IsRegistered(d)
  BY <1>1 DEF Leaving, Queued, Cancelling, Found, Reaching, IsRegistered, Slots
<1>7. \A i : Loose(i)' <=> Loose(i)
  BY <1>1 DEF Loose
<1>8. due \subseteq App /\ MayKill \subseteq App
  BY DmBoundsAssumption DEF Types, EnvType
<1>9. DueOff'
  BY <1>1, <1>5, <1>8 DEF DueOff
<1>10. LooseOff'
  BY <1>1, <1>2, <1>3, <1>5, <1>7 DEF LooseOff, Slots
<1>11. FreeGone'
  BY <1>1, <1>2, <1>5 DEF FreeGone, Slots
<1>12. KilledGone'
  BY <1>2, <1>5, <1>6, <1>8 DEF KilledGone
<1>13. EndedRests'
  BY <1>3, <1>5, <1>6 DEF EndedRests, Revived
<1>14. OneEnd' /\ Emptied' /\ InFull' /\ Sized'
  BY <1>1, <1>6 DEF OneEnd, Emptied, InFull, Sized
<1>15. NewOff
  BY <1>1 DEF NewOff
<1> QED
  BY <1>9, <1>10, <1>11, <1>12, <1>13, <1>14, <1>15

\* A cancellation enters the queue, the only one of a component that may be
\* started again.
LEMMA QueueEnds ==
  ASSUME Types, EndInv, NEW m, cancelQueue' = Append(cancelQueue, m),
         m.full => m.comp \in MayKill, m.comp \in Revived => ~Leaving(m.comp),
         UNCHANGED <<lib, pc, cur, ref>>
  PROVE  OneEnd' /\ Emptied' /\ InFull'
<1> USE DEF EndInv
<1>1. /\ Range(cancelQueue') = Range(cancelQueue) \cup {m}
      /\ \A c : Queued(c)' <=> Queued(c) \/ m.comp = c
  BY QueueSent
<1>2. InFull' /\ Emptied'
  BY <1>1 DEF InFull, Emptied
<1>3. \A c : Cancelling(c)' <=> Cancelling(c)
  BY DEF Cancelling
<1>4. cancelQueue \in Seq(CancelMsg)
  BY DEF Types, QueueType
<1>5. /\ DOMAIN cancelQueue = 1..Len(cancelQueue)
      /\ DOMAIN cancelQueue' = 1..(Len(cancelQueue) + 1) /\ Len(cancelQueue) \in Nat
      /\ \A n \in DOMAIN cancelQueue : cancelQueue'[n] = cancelQueue[n]
      /\ cancelQueue'[Len(cancelQueue) + 1] = m
      /\ \A n \in DOMAIN cancelQueue' : n \in DOMAIN cancelQueue \/ n = Len(cancelQueue) + 1
  BY <1>4
<1>6. ASSUME NEW c \in Revived, NEW k \in DOMAIN cancelQueue', NEW n \in DOMAIN cancelQueue',
             cancelQueue'[k].comp = c, cancelQueue'[n].comp = c
      PROVE  k = n
  <2>1. CASE m.comp = c
    <3>1. \A j \in DOMAIN cancelQueue : cancelQueue[j].comp # c
      BY <2>1 DEF Leaving, Queued, Range
    <3> QED
      BY <1>5, <1>6, <3>1
  <2>2. CASE m.comp # c
    BY <1>5, <1>6, <2>2 DEF OneEnd
  <2> QED
    BY <2>1, <2>2
<1>7. \A c \in Revived : Queued(c)' => ~Cancelling(c)'
  BY <1>1, <1>3 DEF OneEnd, Leaving
<1>8. OneEnd'
  BY <1>6, <1>7 DEF OneEnd
<1> QED
  BY <1>2, <1>8

\* A component ends: it was registered, or is killed for good.
LEMMA PostEnd ==
  ASSUME Types, RegInv, PostInv, NEW c \in Member, NEW byPM, NEW full,
         End(c, byPM, full), full => c \in MayKill, c \in conf \/ c \in MayKill
  PROVE  PostInv' /\ NewOff
<1> USE DEF PostInv, TaskInv, EndInv
<1> DEFINE m == [type |-> "CancelxTEDS", comp |-> c, pid |-> <<c, starts[c]>>,
                 byPM |-> byPM, full |-> full]
<1>1. /\ life[c] = "up" /\ life' = [life EXCEPT ![c] = "off"]
      /\ cancelQueue' = Append(cancelQueue, m)
      /\ UNCHANGED <<lib, due, pc, cur, ref, walk, starts>>
  BY DEF End, thVars
<1>2. m.comp = c /\ (m.full => m.comp \in MayKill)
  OBVIOUS
<1> HIDE DEF m
<1>3. c \in Revived => c \in conf /\ IsRegistered(c) /\ ~Leaving(c) /\ c \notin due
  BY <1>1 DEF RegInv, Places, Place, Revived, DueOff
<1>4. OneEnd' /\ Emptied' /\ InFull'
  BY <1>1, <1>2, <1>3, QueueEnds
<1>5. \A d : Queued(d)' <=> Queued(d) \/ d = c
  BY <1>1, <1>2, QueueSent
<1>6. \A d : /\ Cancelling(d)' <=> Cancelling(d)
             /\ Found(d)' <=> Found(d)
             /\ IsRegistered(d)' <=> IsRegistered(d)
  BY <1>1 DEF Cancelling, Found, Reaching, IsRegistered, Slots
<1>7. life \in [Member -> {"off", "up"}] /\ starts[c] >= 1
  BY <1>1 DEF RegInv, LifeInv
<1>8. \A d \in Member : life[d] = "off" => life'[d] = "off"
  BY <1>1, <1>7
<1>9. life'[c] = "off"
  BY <1>1, <1>7
<1>10. /\ \A d \in App : (Gone(d) => Gone(d)') /\ (AtRest(d) => AtRest(d)')
       /\ MayKill \subseteq App /\ due \subseteq App
  BY <1>1, <1>8, DmBoundsAssumption DEF Gone, AtRest, Member, Types, EnvType
<1>11. DueOff'
  BY <1>1, <1>8, <1>10 DEF DueOff, Member
<1>12. LooseOff' /\ FreeGone'
  BY <1>1, <1>10 DEF LooseOff, FreeGone, Loose, Slots
<1>13. KilledGone'
  BY <1>1, <1>5, <1>6, <1>7, <1>9, <1>10 DEF KilledGone, Leaving, Gone
<1>14. EndedRests'
  BY <1>1, <1>3, <1>5, <1>6, <1>9, <1>10 DEF EndedRests, AtRest, Revived
<1>15. Sized' /\ NewOff
  BY <1>1 DEF Sized, NewOff
<1> QED
  BY <1>4, <1>11, <1>12, <1>13, <1>14, <1>15

\* A cancellation of the DM's own xTEDS concerns no application.
LEMMA PostForeign ==
  ASSUME Types, RegInv, PostInv, ForeignCancel
  PROVE  PostInv' /\ NewOff
<1> USE DEF PostInv, TaskInv, EndInv
<1> DEFINE m == [type |-> "CancelxTEDS", comp |-> DM, pid |-> <<DM, 0>>,
                 byPM |-> FALSE, full |-> FALSE]
<1>1. /\ cancelQueue' = Append(cancelQueue, m)
      /\ UNCHANGED <<lib, due, pc, cur, ref, walk, life, starts>>
  BY DEF ForeignCancel, thVars
<1>2. m.comp = DM /\ ~m.full /\ DM \notin Revived /\ DM \notin MayKill
  BY DmCompAssumption, DmBoundsAssumption DEF Revived
<1> HIDE DEF m
<1>3. OneEnd' /\ Emptied' /\ InFull'
  BY <1>1, <1>2, QueueEnds
<1>4. \A d : Queued(d)' <=> Queued(d) \/ d = DM
  BY <1>1, <1>2, QueueSent
<1>5. KilledGone'
  BY <1>1, <1>2, <1>4 DEF KilledGone, Leaving, Cancelling, Gone
<1>6. EndedRests'
  BY <1>1, <1>2, <1>4 DEF EndedRests, Found, Reaching, Cancelling, AtRest, IsRegistered, Slots
<1>7. TaskInv' /\ Sized' /\ NewOff
  BY <1>1 DEF DueOff, LooseOff, FreeGone, Loose, Slots, Gone, AtRest, Sized, NewOff
<1> QED
  BY <1>3, <1>5, <1>6, <1>7

\* A registration takes a free slot, or makes its component's slot active.
LEMMA PostRegister ==
  ASSUME Orderly, Parsed, Types, SlotInv, RegInv, PostInv, NEW t \in XThread,
         RegisterxTEDS(t)
  PROVE  PostInv' /\ NewOff
<1> USE DEF PostInv, TaskInv, EndInv
<1>0. PICK c : c = cur[t].comp
  OBVIOUS
<1>1. /\ InUseKept /\ \A d : d # c => (IsRegistered(d)' <=> IsRegistered(d))
  BY <1>0, RegisterSlots
<1>2. /\ UNCHANGED <<due, cancelQueue, walk, life, starts>> /\ pc[t] = "wait"
  BY DEF RegisterxTEDS
<1>3. /\ pc' = pc \/ \E x : pc' = [pc EXCEPT ![t] = x]
      /\ cur' = cur \/ \E m : cur' = [cur EXCEPT ![t] = m]
      /\ ref' = ref \/ \E r : ref' = [ref EXCEPT ![t] = r]
  BY RegisterEffect
<1>4. t \in Thread /\ t # "cancel" /\ t # child
  BY Threads
<1>5. CancelKept
  BY <1>3, <1>4, OtherMoves
<1>6. pc'["cancel"] = pc["cancel"] /\ pc'[child] = pc[child]
  BY <1>3, <1>4, Threads DEF Types, ThreadType
<1>7. c \in Revived => ~Leaving(c)
  <2>1. cur[t] \in xTEDSMsg
    BY <1>2 DEF Types, ThreadType
  <2>2. c \in Member /\ Registering(c)
    BY <1>0, <1>2, <2>1, MsgFacts DEF Registering, Member
  <2> QED
    BY <2>2 DEF RegInv, Places, Place, Gone, Revived
<1>8. PICK r \in Nat \ {0} :
        \/ lib' = lib
        \/ /\ lib'[r].available = FALSE /\ lib'[r].active = TRUE /\ lib'[r].comp = c
           /\ r \in Slots /\ ~lib[r].available
           /\ Len(lib') = Len(lib) /\ \A j \in Slots : j # r => lib'[j] = lib[j]
        \/ /\ lib'[r].available <=> c \in Malformed
           /\ lib'[r].active <=> c \notin Malformed
           /\ lib'[r].comp = c
           /\ r \in Slots => lib[r].available
           /\ Len(lib') = IF r \in Slots THEN Len(lib) ELSE Len(lib) + 1
           /\ r \in 1..(Len(lib) + 1)
           /\ \A j \in Slots : j # r => lib'[j] = lib[j]
  BY <1>0, RegisterEffect
<1>9. /\ Len(lib) \in Nat /\ Slots = 1..Len(lib) /\ Slots' = 1..Len(lib')
      /\ Len(lib') \in Nat /\ Len(lib) <= Len(lib')
  <2>1. LibType' /\ Len(lib) <= Len(lib')
    BY RegisterEffect
  <2> QED
    BY <2>1 DEF Types, LibType, Slots
<1>10. ASSUME NEW i \in Slots'
       PROVE  \/ i \in Slots /\ lib'[i] = lib[i]
              \/ /\ lib'[i].comp = c
                 /\ c \in App => lib'[i].active /\ ~lib'[i].available
  BY <1>8, <1>9 DEF Parsed
<1>11. \A d : (Gone(d)' <=> Gone(d)) /\ (AtRest(d)' <=> AtRest(d))
  BY <1>2 DEF Gone, AtRest
<1>12. DueOff' /\ NewOff
  BY <1>2 DEF DueOff, NewOff
<1>13. LooseOff'
  BY <1>10, <1>11 DEF LooseOff, Loose
<1>14. FreeGone'
  BY <1>10, <1>11 DEF FreeGone
<1>15. \A d : /\ Queued(d)' <=> Queued(d)
              /\ Cancelling(d)' <=> Cancelling(d)
              /\ Reaching(d)' <=> Reaching(d)
  BY <1>2, <1>5, CancelFrame
<1>16. KilledGone' /\ OneEnd' /\ InFull'
  BY <1>2, <1>5, <1>11, <1>15 DEF KilledGone, OneEnd, InFull, Leaving, CancelKept
<1>17. EndedRests'
  BY <1>1, <1>6, <1>7, <1>11, <1>15 DEF EndedRests, Found, Reaching, Leaving
<1>18. Emptied'
  <2> SUFFICES ASSUME pc["cancel"] \in {"publish", "finish"},
                      cur["cancel"].comp \in Revived, ~lib[ref["cancel"]].active
               PROVE  ~lib'[ref["cancel"]].active
    BY <1>5, <1>6 DEF Emptied, CancelKept
  <2>1. ref["cancel"] # 0
    BY Threads DEF Types, RefType, Holding
  <2>2. PICK k : k = ref["cancel"]
    OBVIOUS
  <2>3. k \in Slots /\ ~lib[k].available /\ lib[k].comp = cur["cancel"].comp
    BY <2>1, <2>2, FoundSlot
  <2>4. lib[k].comp # c
    BY <1>7, <2>3 DEF Leaving, Cancelling
  <2>5. lib'[k].comp = lib[k].comp /\ k \in Slots'
    BY <1>1, <1>9, <2>3 DEF InUseKept
  <2>6. lib'[k] = lib[k]
    BY <1>10, <2>4, <2>5
  <2> QED
    BY <2>2, <2>6
<1>19. Sized'
  <2>1. walk.size \in Nat
    BY ThreadTypes DEF WalkSet
  <2> QED
    BY <1>2, <1>6, <1>9, <2>1 DEF Sized
<1> QED
  BY <1>12, <1>13, <1>14, <1>16, <1>17, <1>18, <1>19

\* A cancellation is taken from the queue, and was the only one.
LEMMA PostCancelFind ==
  ASSUME Types, SlotInv, RegInv, PostInv, CancelFind
  PROVE  PostInv' /\ NewOff
<1> USE DEF PostInv, TaskInv, EndInv
<1>0. PICK m : m = Head(cancelQueue)
  OBVIOUS
<1>1. /\ pc["cancel"] = "idle" /\ cancelQueue # << >> /\ cancelQueue' = Tail(cancelQueue)
      /\ cur' = [cur EXCEPT !["cancel"] = m] /\ pc' = [pc EXCEPT !["cancel"] = "wait"]
      /\ UNCHANGED <<lib, due, walk, life, starts>>
  BY <1>0 DEF CancelFind, envVars
<1>2. Range(cancelQueue) = Range(cancelQueue') \cup {m}
  BY <1>0, <1>1, RangeTail DEF Types, QueueType
<1>3. pc'["cancel"] = "wait" /\ cur'["cancel"] = m /\ pc'[child] = pc[child]
  BY <1>1, Threads DEF Types, ThreadType
<1>4. \A d : /\ Queued(d) <=> Queued(d)' \/ d = m.comp
             /\ Cancelling(d)' <=> d = m.comp
  BY <1>2, <1>3 DEF Queued, Cancelling
<1>5. \A d : /\ Gone(d)' <=> Gone(d)
             /\ AtRest(d)' <=> AtRest(d)
             /\ IsRegistered(d)' <=> IsRegistered(d)
  BY <1>1 DEF Gone, AtRest, IsRegistered, Slots
<1>6. TaskInv' /\ NewOff /\ Sized'
  BY <1>1, <1>3, <1>5 DEF DueOff, LooseOff, FreeGone, Loose, Slots, NewOff, Sized
<1>7. KilledGone'
  BY <1>4, <1>5 DEF KilledGone, Leaving
<1>8. EndedRests'
  BY <1>4, <1>5 DEF EndedRests, Found, Reaching
<1>9. Emptied' /\ InFull'
  BY <1>2, <1>3 DEF Emptied, InFull
<1>10. cancelQueue \in Seq(CancelMsg)
  BY DEF Types, QueueType
<1>11. /\ DOMAIN cancelQueue = 1..Len(cancelQueue) /\ Len(cancelQueue) \in Nat \ {0}
       /\ DOMAIN cancelQueue' = 1..(Len(cancelQueue) - 1)
       /\ \A n \in DOMAIN cancelQueue' : cancelQueue'[n] = cancelQueue[n + 1]
       /\ cancelQueue[1] = m
  BY <1>0, <1>1, <1>10
<1>12. ASSUME NEW c \in Revived, NEW k \in DOMAIN cancelQueue', cancelQueue'[k].comp = c
       PROVE  c # m.comp
  <2>1. k + 1 \in DOMAIN cancelQueue /\ cancelQueue[k + 1].comp = c /\ 1 \in DOMAIN cancelQueue
        /\ k + 1 # 1
    BY <1>11, <1>12
  <2> QED
    BY <1>11, <2>1 DEF OneEnd
<1>13. ASSUME NEW c \in Revived, NEW k \in DOMAIN cancelQueue', NEW n \in DOMAIN cancelQueue',
              cancelQueue'[k].comp = c, cancelQueue'[n].comp = c
       PROVE  k = n
  <2>1. /\ k + 1 \in DOMAIN cancelQueue /\ cancelQueue[k + 1].comp = c
        /\ n + 1 \in DOMAIN cancelQueue /\ cancelQueue[n + 1].comp = c
        /\ k \in Nat /\ n \in Nat
    BY <1>11, <1>13
  <2>2. k + 1 = n + 1
    BY <2>1 DEF OneEnd
  <2> QED
    BY <2>1, <2>2
<1>14. \A c \in Revived : Queued(c)' => ~Cancelling(c)'
  BY <1>4, <1>12 DEF Queued, Range
<1>15. OneEnd'
  BY <1>13, <1>14 DEF OneEnd
<1> QED
  BY <1>6, <1>7, <1>8, <1>9, <1>15

\* The slot of a component that ended may be posted from now on.
LEMMA PostCancelApply ==
  ASSUME Types, SlotInv, RegInv, PostInv, CancelApply
  PROVE  PostInv' /\ NewOff
<1> USE DEF PostInv, TaskInv, EndInv
<1>1. /\ pc["cancel"] = "wait" /\ UNCHANGED <<due, cancelQueue, ref, walk, life, starts>>
      /\ \/ /\ ref["cancel"] = 0 /\ lib' = lib /\ pc' = [pc EXCEPT !["cancel"] = "idle"]
            /\ cur' = [cur EXCEPT !["cancel"] = NoMsg]
         \/ /\ ref["cancel"] # 0 /\ lib' = Deactivate(ref["cancel"], cur["cancel"].full)
            /\ pc' = [pc EXCEPT !["cancel"] = "publish"] /\ cur' = cur
  BY DEF CancelApply, envVars
<1>2. pc'[child] = pc[child]
      /\ pc'["cancel"] = IF ref["cancel"] = 0 THEN "idle" ELSE "publish"
  BY <1>1, Threads DEF Types, ThreadType
<1>3. \A d : /\ Queued(d)' <=> Queued(d)
             /\ Cancelling(d)' => Cancelling(d)
             /\ ~Found(d)'
             /\ Gone(d)' <=> Gone(d)
             /\ AtRest(d)' <=> AtRest(d)
  BY <1>1, <1>2 DEF Queued, Cancelling, Found, Gone, AtRest
<1>4. DueOff' /\ NewOff /\ KilledGone' /\ OneEnd' /\ InFull'
  BY <1>1, <1>2, <1>3 DEF DueOff, NewOff, KilledGone, Leaving, OneEnd, InFull
<1>5. CASE ref["cancel"] = 0
  <2>1. lib' = lib /\ pc'["cancel"] = "idle"
    BY <1>1, <1>2, <1>5
  <2>2. LooseOff' /\ FreeGone' /\ Sized' /\ Emptied'
    BY <1>1, <1>2, <1>3, <2>1 DEF LooseOff, FreeGone, Loose, Slots, Sized, Emptied
  <2>3. EndedRests'
    BY <1>3, <2>1 DEF EndedRests, IsRegistered, Slots
  <2> QED
    BY <1>4, <2>2, <2>3
<1>6. CASE ref["cancel"] # 0
  <2>0. PICK r, c : r = ref["cancel"] /\ c = cur["cancel"].comp
    OBVIOUS
  <2>1. /\ r \in Slots /\ LibType' /\ Len(lib') = Len(lib)
        /\ \A j \in Slots : j # r => lib'[j] = lib[j]
        /\ lib'[r].available = lib[r].available /\ lib'[r].comp = lib[r].comp
        /\ lib[r].comp \notin Sensor => lib'[r].active = cur["cancel"].full
    BY <1>1, <1>6, <2>0, CancelEffect
  <2>2. Slots' = Slots
    BY <2>1 DEF Types, LibType, Slots
  <2>3. lib[r].comp = c /\ ~lib[r].available
    BY <1>1, <1>6, <2>0, FoundSlot
  <2>4. c \in App => Gone(c) \/ (c \in Revived /\ AtRest(c))
    BY <1>1, <1>6, <2>0 DEF KilledGone, EndedRests, Leaving, Cancelling, Found, Reaching, Revived
  <2>5. LooseOff'
    BY <1>3, <2>1, <2>2, <2>3, <2>4 DEF LooseOff, Loose
  <2>6. FreeGone'
    BY <1>3, <2>1, <2>2, <2>3 DEF FreeGone
  <2>7. EndedRests'
    <3> SUFFICES ASSUME NEW d \in Revived, Queued(d)
                 PROVE  AtRest(d) /\ IsRegistered(d)'
      BY <1>3 DEF EndedRests
    <3>1. d # c /\ AtRest(d) /\ IsRegistered(d)
      BY <1>1, <2>0 DEF EndedRests, OneEnd, Cancelling
    <3> QED
      BY <2>1, <2>2, <2>3, <3>1 DEF IsRegistered
  <2>8. Emptied'
    <3> SUFFICES ASSUME c \in Revived PROVE ~lib'[r].active
      BY <1>1, <1>6, <2>0 DEF Emptied
    <3>1. ~cur["cancel"].full
      BY <1>1, <2>0 DEF InFull, Revived
    <3>2. c \notin Sensor
      BY DmCompAssumption DEF Revived
    <3> QED
      BY <2>1, <2>3, <3>1, <3>2
  <2>9. Sized'
    BY <1>1, <1>2, <2>1 DEF Sized
  <2> QED
    BY <1>4, <2>5, <2>6, <2>7, <2>8, <2>9
<1> QED
  BY <1>5, <1>6

\* A slot still active is given back: its component is a sensor, or gone.
LEMMA PostCancelRelease ==
  ASSUME Types, SlotInv, RegInv, PostInv, CancelRelease
  PROVE  PostInv' /\ NewOff
<1> USE DEF PostInv, TaskInv, EndInv
<1>0. PICK r, c : r = ref["cancel"] /\ c = cur["cancel"].comp
  OBVIOUS
<1>1. /\ pc["cancel"] = "finish" /\ lib' = Release(r)
      /\ pc' = [pc EXCEPT !["cancel"] = "idle"]
      /\ UNCHANGED <<due, cancelQueue, walk, life, starts>>
  BY <1>0 DEF CancelRelease, envVars
<1>2. pc'["cancel"] = "idle" /\ pc'[child] = pc[child]
  BY <1>1, Threads DEF Types, ThreadType
<1>3. ref["cancel"] # 0
  BY <1>1, Threads DEF Types, RefType, Holding
<1>4. r \in Slots /\ lib[r].comp = c
  BY <1>0, <1>1, <1>3, FoundSlot
<1>5. /\ LibType' /\ Len(lib') = Len(lib)
      /\ \/ lib' = lib
         \/ /\ \A j \in Slots : j # r => lib'[j] = lib[j]
            /\ lib[r].active /\ lib'[r].comp = lib[r].comp
  BY <1>0, <1>1, ReleaseEffect
<1>6. Slots' = Slots
  BY <1>5 DEF Types, LibType, Slots
<1>7. lib[r].active /\ c \in App => Gone(c)
  BY <1>0, <1>1 DEF Emptied, KilledGone, Leaving, Cancelling, Revived
<1>8. \A d : /\ Queued(d)' <=> Queued(d)
             /\ ~Cancelling(d)' /\ ~Found(d)'
             /\ Gone(d)' <=> Gone(d)
             /\ AtRest(d)' <=> AtRest(d)
  BY <1>1, <1>2 DEF Queued, Cancelling, Found, Gone, AtRest
<1>9. DueOff' /\ NewOff /\ KilledGone' /\ OneEnd' /\ InFull' /\ Emptied' /\ Sized'
  BY <1>1, <1>2, <1>5, <1>8 DEF DueOff, NewOff, KilledGone, Leaving, OneEnd, InFull, Emptied,
                                Sized
<1>10. LooseOff'
  BY <1>4, <1>5, <1>6, <1>7, <1>8 DEF LooseOff, Loose
<1>11. FreeGone'
  BY <1>4, <1>5, <1>6, <1>7, <1>8 DEF FreeGone
<1>12. EndedRests'
  <2> SUFFICES ASSUME NEW d \in Revived, Queued(d)
               PROVE  AtRest(d) /\ IsRegistered(d)'
    BY <1>8 DEF EndedRests
  <2>1. d # c /\ AtRest(d) /\ IsRegistered(d)
    BY <1>0, <1>1 DEF EndedRests, OneEnd, Cancelling
  <2> QED
    BY <1>4, <1>5, <1>6, <2>1 DEF IsRegistered
<1> QED
  BY <1>9, <1>10, <1>11, <1>12

\* The slot of a task that failed counts as posted.
LEMMA PostTaskError ==
  ASSUME Types, SlotInv, RegInv, PostInv, TaskError
  PROVE  PostInv' /\ NewOff
<1> USE DEF PostInv, TaskInv, EndInv
<1>0. PICK r, c : r = ref[child] /\ c = lib[r].comp
  OBVIOUS
<1>1. /\ pc[child] = "wait" /\ UNCHANGED <<due, cancelQueue, ref, walk, life, starts>>
      /\ \/ r = 0 /\ lib' = lib
         \/ r # 0 /\ lib' = Fail(r)
      /\ \E x \in {"idle", "publish"} : pc' = [pc EXCEPT ![child] = x]
      /\ cur' = cur \/ cur' = [cur EXCEPT ![child] = NoMsg]
  BY <1>0 DEF TaskError, ChildIdle
<1>2. /\ pc'["cancel"] = pc["cancel"] /\ pc'[child] \notin {"walk", "post"}
      /\ cur'["cancel"] = cur["cancel"]
  BY <1>1, Threads DEF Types, ThreadType
<1>3. Sized' /\ CancelKept
  BY <1>1, <1>2 DEF Sized, CancelKept
<1>4. CASE r = 0
  BY <1>1, <1>2, <1>3, <1>4, SameSlots, NonePosted, PostFrame DEF Types
<1>5. CASE r # 0
  <2>1. /\ r \in Slots /\ LibType' /\ Len(lib') = Len(lib)
        /\ \A j \in Slots : j # r => lib'[j] = lib[j]
        /\ lib'[r].available = lib[r].available
        /\ lib'[r].comp = lib[r].comp /\ lib'[r].posted = TRUE
    BY <1>0, <1>1, <1>5, FailEffect
  <2>2. Slots' = Slots
    BY <2>1 DEF Types, LibType, Slots
  <2>3. ~Leaving(c)
    BY <1>0, <1>1, <1>5, FailedStays
  <2>4. \A d : /\ Queued(d)' <=> Queued(d)
               /\ Cancelling(d)' <=> Cancelling(d)
               /\ Reaching(d)' <=> Reaching(d)
               /\ Gone(d)' <=> Gone(d)
               /\ AtRest(d)' <=> AtRest(d)
    BY <1>1, <1>3, CancelFrame DEF Gone, AtRest
  <2>5. DueOff' /\ NewOff /\ KilledGone' /\ OneEnd' /\ InFull'
    BY <1>1, <1>2, <2>4 DEF DueOff, NewOff, KilledGone, Leaving, OneEnd, InFull
  <2>6. LooseOff'
    BY <2>1, <2>2, <2>4 DEF LooseOff, Loose
  <2>7. FreeGone'
    BY <2>1, <2>2, <2>4 DEF FreeGone
  <2>8. EndedRests'
    <3> SUFFICES ASSUME NEW d \in Revived, Queued(d) \/ Found(d)
                 PROVE  AtRest(d) /\ IsRegistered(d)'
      BY <1>2, <2>4 DEF EndedRests, Found
    <3>1. d # c /\ AtRest(d) /\ IsRegistered(d)
      BY <2>3 DEF EndedRests, Leaving, Found, Reaching
    <3> QED
      BY <1>0, <2>1, <2>2, <3>1 DEF IsRegistered
  <2>9. Emptied'
    <3> SUFFICES ASSUME pc["cancel"] \in {"publish", "finish"},
                        cur["cancel"].comp \in Revived, ~lib[ref["cancel"]].active
                 PROVE  ~lib'[ref["cancel"]].active
      BY <1>1, <1>2 DEF Emptied
    <3>1. ref["cancel"] # 0
      BY Threads DEF Types, RefType, Holding
    <3>2. ref["cancel"] \in Slots /\ lib[ref["cancel"]].comp = cur["cancel"].comp
      BY <3>1, FoundSlot
    <3>3. ref["cancel"] # r
      BY <1>0, <2>3, <3>2 DEF Leaving, Cancelling
    <3> QED
      BY <2>1, <3>2, <3>3
  <2> QED
    BY <1>3, <2>5, <2>6, <2>7, <2>8, <2>9
<1> QED
  BY <1>4, <1>5

\* Every step preserves the invariant and posts only what does not run.
LEMMA PostInvNext ==
  ASSUME Orderly, Parsed, Types, SlotInv, RegInv, PostInv, [Next]_vars
  PROVE  PostInv' /\ NewOff
<1>1. "cancel" \in Thread /\ child \in Thread /\ XThread \subseteq Thread
  BY Threads
<1>2. CASE \E c \in App \cup Sensor, t \in XThread : ListenxTEDS(c, t)
  BY <1>2, PostThreads DEF Member
<1>3. ASSUME NEW t \in XThread, xTEDSStep(t) PROVE PostInv' /\ NewOff
  BY <1>1, <1>3, PostThreads, PostRegister DEF xTEDSStep
<1>4. CASE CancelStep
  BY <1>1, <1>4, PostThreads, PostChild, PostCancelFind, PostCancelApply,
     PostCancelRelease DEF CancelStep
<1>5. CASE ChildStep
  BY <1>1, <1>5, PostThreads, PostChild, PostTaskError DEF ChildStep
<1>6. CASE EnvNext
  <2>1. ASSUME NEW c \in App \cup Sensor,
               Start(c) \/ Exit(c) \/ Unplug(c) \/ Kill(c) \/ Error(c)
        PROVE  PostInv' /\ NewOff
    <3>1. c \in Member
      BY DEF Member
    <3>2. CASE Exit(c) \/ Unplug(c)
      BY <3>1, <3>2, PostEnd DEF Exit, Unplug
    <3>3. CASE Kill(c)
      BY <3>1, <3>3, PostEnd DEF Kill
    <3> QED
      BY <2>1, <3>1, <3>2, <3>3, PostStart, PostChild
  <2>2. ASSUME NEW m, Send(m) PROVE PostInv' /\ NewOff
    BY <2>2, PostChild
  <2> QED
    BY <1>6, <2>1, <2>2, RequestsQuiet, PostForeign DEF EnvNext
<1>7. CASE UNCHANGED vars
  BY <1>7, PostChild
<1> QED
  BY <1>2, <1>3, <1>4, <1>5, <1>6, <1>7 DEF Next

\* A task is posted only while no instance of it runs or is being restarted:
\* an inactive slot that has not been posted is one whose component has ended,
\* because a failure leaves it posted and a registration active, and a
\* component ends only once before it is posted again.
THEOREM DmPostsOnlyEnded ==
  ASSUME Orderly, Parsed
  PROVE  Spec => PostsOnlyEnded
<1>1. Types /\ SlotInv /\ RegInv /\ PostInv /\ [Next]_vars => PostInv'
  BY PostInvNext
<1>2. Types /\ SlotInv /\ RegInv /\ PostInv /\ [Next]_vars
        => [\A a \in due' \ due : life[a] = "off"]_vars
  BY PostInvNext DEF NewOff
<1> QED
  BY PostInvInit, RegInvAlways, <1>1, <1>2, PTL DEF Spec, PostsOnlyEnded

-----------------------------------------------------------------------------
(* What a publication does.                                                *)

\* The first of a set of indices is the least.
LEMMA FirstLeast ==
  ASSUME NEW S, S \subseteq Nat, S # {}
  PROVE  First(S) \in S /\ \A y \in S : First(S) <= y
<1> DEFINE R == {ss \in Nat \X Nat : ss[1] < ss[2]}
<1>1. IsWellFoundedOn(R, Nat)
  BY NatLessThanWellFounded, Zenon DEF OpToRel
<1>2. \A x, y \in Nat : x < y => <<x, y>> \in R
  OBVIOUS
<1> HIDE DEF R
<1>3. PICK x \in S : \A y \in S : ~(<<y, x>> \in R)
  BY <1>1, WFMin
<1>4. \A y \in S : x <= y
  <2> TAKE y \in S
  <2>1. x \in Nat /\ y \in Nat /\ ~(y < x)
    BY <1>2, <1>3
  <2> QED
    BY <2>1
<1> QED
  BY <1>4 DEF Min, First

\* The numbers ReqReg gives to slots in use are all different.
LEMMA NumbersDiffer ==
  ASSUME LibType, NEW i \in Slots, NEW r \in Slots,
         ~lib[i].available, ~lib[r].available, numxTEDS(i) = numxTEDS(r)
  PROVE  i = r
<1> DEFINE free(n) == {j \in 1..(n - 1) : lib[j].available}
<1>1. Slots = 1..Len(lib) /\ Len(lib) \in Nat
  BY DEF LibType, Slots
<1>2. \A n \in Slots : IsFiniteSet(free(n)) /\ Cardinality(free(n)) \in Nat
  <2> TAKE n \in Slots
  <2>1. n - 1 \in Int /\ IsFiniteSet(1..(n - 1))
    BY <1>1, FS_Interval
  <2> QED
    BY <2>1, FS_Subset, FS_CardinalityType
<1>3. ASSUME NEW m \in Slots, NEW n \in Slots, ~lib[m].available, m < n
      PROVE  numxTEDS(m) < numxTEDS(n)
  <2>1. /\ IsFiniteSet((m + 1)..(n - 1)) /\ Cardinality((m + 1)..(n - 1)) = n - 1 - m
    <3>1. m + 1 \in Int /\ n - 1 \in Int /\ m \in Int /\ n \in Int
      BY <1>1
    <3>2. /\ IsFiniteSet((m + 1)..(n - 1))
          /\ Cardinality((m + 1)..(n - 1)) = IF m + 1 > n - 1 THEN 0 ELSE (n - 1) - (m + 1) + 1
      BY <3>1, FS_Interval
    <3> QED
      BY <1>3, <3>1, <3>2
  <2>2. free(n) \subseteq free(m) \cup ((m + 1)..(n - 1))
    BY <1>1, <1>3
  <2>3. /\ IsFiniteSet(free(m) \cup ((m + 1)..(n - 1)))
        /\ Cardinality(free(m) \cup ((m + 1)..(n - 1)))
             = Cardinality(free(m)) + (n - 1 - m)
                 - Cardinality(free(m) \cap ((m + 1)..(n - 1)))
    BY <1>2, <2>1, FS_Union
  <2>4. Cardinality(free(m) \cap ((m + 1)..(n - 1))) \in Nat
    <3>1. free(m) \cap ((m + 1)..(n - 1)) \subseteq free(m)
      OBVIOUS
    <3> QED
      BY <1>2, <3>1, FS_Subset, FS_CardinalityType
  <2>5. Cardinality(free(n)) <= Cardinality(free(m) \cup ((m + 1)..(n - 1)))
    BY <2>2, <2>3, FS_Subset
  <2>6. numxTEDS(m) = m - 1 - Cardinality(free(m)) /\ numxTEDS(n) = n - 1 - Cardinality(free(n))
    BY DEF numxTEDS
  <2>7. m \in Nat /\ n \in Nat
    BY <1>1
  <2>8. Cardinality(free(m)) \in Nat /\ Cardinality(free(n)) \in Nat
    BY <1>2
  <2> HIDE DEF free
  <2> QED
    BY <2>3, <2>4, <2>5, <2>6, <2>7, <2>8
<1>4. i \in Nat /\ r \in Nat /\ (\A n \in Slots : numxTEDS(n) \in Int)
  <2>1. i \in Nat /\ r \in Nat
    BY <1>1
  <2>2. ASSUME NEW n \in Slots PROVE numxTEDS(n) \in Int
    <3>1. n \in Nat
      BY <1>1
    <3>2. Cardinality(free(n)) \in Nat
      BY <1>2
    <3>3. numxTEDS(n) = n - 1 - Cardinality(free(n))
      BY DEF numxTEDS
    <3> HIDE DEF free
    <3> QED
      BY <3>1, <3>2, <3>3
  <2> QED
    BY <2>1, <2>2
<1> QED
  BY <1>3, <1>4

\* A ReqReg for a subscription tells about active slots that match, or takes
\* back what was told; when the numbers agree, it deals with the slot itself,
\* and with no other.
LEMMA ReqRegTold ==
  ASSUME LibType, NEW s, NEW r \in Slots, NEW dereg \in BOOLEAN, ReqRegAbout(s, r, dereg)
  PROVE  /\ dereg => /\ told' \subseteq told
                     /\ \A x \in told \ told' : x[2] = REQ_REG_FUTURE
                     /\ numxTEDS(r) = r - 1 /\ ~lib[r].available
                          => \A x \in told \ told' :
                               x = Report(s, REQ_REG_FUTURE, lib[r].comp)
                     /\ numxTEDS(r) = r - 1 /\ Matches(s, r)
                          => Report(s, REQ_REG_FUTURE, lib[r].comp) \notin told'
         /\ ~dereg => /\ told \subseteq told'
                      /\ \A x \in told' \ told :
                           \E i \in Slots : /\ x = Report(s, REQ_REG_FUTURE, lib[i].comp)
                                            /\ lib[i].active /\ Matches(s, i)
                      /\ numxTEDS(r) = r - 1 /\ Matches(s, r) /\ lib[r].active
                           => Report(s, REQ_REG_FUTURE, lib[r].comp) \in told'
<1> DEFINE hits == {i \in Slots : ~lib[i].available /\ numxTEDS(i) = r - 1}
           sent == {i \in hits : Matches(s, i) /\ Tellable(i, dereg)}
           reports == {Report(s, REQ_REG_FUTURE, lib[i].comp) : i \in sent}
<1>1. told' = IF dereg THEN told \ reports ELSE told \cup reports
  BY DEF ReqRegAbout
<1>2. \A x \in reports : /\ x[2] = REQ_REG_FUTURE
                         /\ \E i \in sent : x = Report(s, REQ_REG_FUTURE, lib[i].comp)
  BY DEF Report, REQ_REG_FUTURE, REQ_REG_CANCELLATION, NOTI_DEREGISTRATION
<1>3. \A i \in sent : /\ i \in Slots /\ Matches(s, i) /\ ~lib[i].available
                      /\ numxTEDS(i) = r - 1 /\ (~dereg => lib[i].active)
  BY DEF Tellable
<1>4. numxTEDS(r) = r - 1 /\ Matches(s, r) /\ (dereg \/ lib[r].active)
        => Report(s, REQ_REG_FUTURE, lib[r].comp) \in reports
  BY DEF Tellable, Matches
<1> HIDE DEF hits, sent, reports
<1>5. numxTEDS(r) = r - 1 /\ ~lib[r].available
        => \A x \in reports : x = Report(s, REQ_REG_FUTURE, lib[r].comp)
  BY <1>2, <1>3, NumbersDiffer
<1> QED
  BY <1>1, <1>2, <1>3, <1>4, <1>5

\* Search and VarReq tell, for their kinds, of the slot itself.
LEMMA SearchTold ==
  ASSUME LibType, NEW s, NEW k \in {SEARCH_REPLY, VAR_REQ_REPLY}, NEW r \in Slots,
         SearchAbout(s, k, r)
  PROVE  /\ told \subseteq told' /\ \A x \in told' \ told : x[2] = k
         /\ Matches(s, r) /\ lib[r].active => Report(s, k, lib[r].comp) \in told'
<1> DEFINE seen == IF k = VAR_REQ_REPLY THEN r..Len(lib) ELSE {r}
           hits == {i \in seen : lib[i].active /\ Matches(s, i)}
           reports == {Report(s, k, lib[i].comp) : i \in hits}
<1>1. told' = told \cup reports
  BY DEF SearchAbout
<1>2. \A x \in reports : x[2] = k
  BY DEF Report, SEARCH_REPLY, VAR_REQ_REPLY, REQ_REG_CANCELLATION, NOTI_DEREGISTRATION
<1>3. r \in seen
  BY DEF LibType, Slots
<1> HIDE DEF seen
<1>4. Matches(s, r) /\ lib[r].active => Report(s, k, lib[r].comp) \in reports
  BY <1>3
<1> HIDE DEF reports
<1> QED
  BY <1>1, <1>2, <1>4

\* PublishNotification is about the slot, and for all subscribers of the kind.
LEMMA NotifyTold ==
  ASSUME NEW k \in NotiKinds, NEW r, NEW dereg \in BOOLEAN, NotifyAll(k, r, dereg)
  PROVE  /\ \A x \in (told \ told') \cup (told' \ told) : x[2] \in NotiKinds
         /\ dereg => /\ told' \subseteq told
                     /\ \A x \in told \ told' : x[3] = lib[r].comp
         /\ ~dereg => /\ told \subseteq told'
                      /\ \A j \in DOMAIN subs : subs[j].inuse /\ subs[j].mid = k
                           => Report(subs[j].dest, k, lib[r].comp) \in told'
<1> DEFINE J == {i \in DOMAIN subs : subs[i].inuse /\ subs[i].mid = k}
           reports == {Report(subs[j].dest, k, lib[r].comp) : j \in J}
<1>1. told' = IF dereg THEN told \ reports ELSE told \cup reports
  BY DEF NotifyAll
<1>2. \A x \in reports : x[2] \in NotiKinds /\ x[3] = lib[r].comp
  BY DEF Report, NotiKinds, NOTI_REGISTRATION, NOTI_DEREGISTRATION,
         NOTI_REGISTRATION_CHANGE, REQ_REG_CANCELLATION
<1>3. \A j \in DOMAIN subs : subs[j].inuse /\ subs[j].mid = k
        => Report(subs[j].dest, k, lib[r].comp) \in reports
  OBVIOUS
<1> HIDE DEF reports
<1> QED
  BY <1>1, <1>2, <1>3

\* Subscription i awaits a publication of kind k that has come to n in the
\* list.
Awaits(i, k, n) == i \in DOMAIN subs /\ i >= n /\ subs[i].inuse /\ subs[i].mid = k

\* A step of a publication: all notifications of a kind, the next subscription
\* to another kind, or, when there is none, the next kind.
LEMMA PublishCases ==
  ASSUME Types, NEW t \in Thread, Publish(t),
         NEW k, k = Head(todo[t]), NEW r, r = ref[t], NEW n, n = at[t],
         NEW dereg, dereg = (t \notin XThread)
  PROVE  /\ pc[t] = "publish" /\ todo[t] # << >> /\ k \in AllKinds
         /\ r \in Slots /\ n \in Nat \ {0} /\ dereg \in BOOLEAN
         /\ \A u \in Thread : u # t => todo'[u] = todo[u] /\ at'[u] = at[u]
         /\ \/ /\ k \in NotiKinds /\ NotifyAll(k, r, dereg)
               /\ todo'[t] = Tail(todo[t]) /\ at'[t] = n /\ drifted' = drifted
            \/ /\ k \notin NotiKinds /\ \A i \in DOMAIN subs : ~Awaits(i, k, n)
               /\ todo'[t] = Tail(todo[t]) /\ at'[t] = 1
               /\ told' = told /\ drifted' = drifted
            \/ /\ todo'[t] = todo[t]
               /\ \E j \in DOMAIN subs :
                    /\ Awaits(j, k, n) /\ \A i \in DOMAIN subs : Awaits(i, k, n) => j <= i
                    /\ at'[t] = j + 1
                    /\ \/ /\ k \in {REQ_REG_FUTURE, REQ_REG_CANCELLATION}
                          /\ ReqRegAbout(subs[j].dest, r, dereg)
                          /\ drifted' = (drifted \/ numxTEDS(r) # r - 1)
                       \/ /\ k \in {SEARCH_REPLY, VAR_REQ_REPLY}
                          /\ SearchAbout(subs[j].dest, k, r) /\ drifted' = drifted
<1> DEFINE j == SelectInSubSeq(subs, at[t], Len(subs), LAMBDA x : x.inuse /\ x.mid = k)
<1>1. pc[t] = "publish" /\ todo[t] # << >>
  BY DEF Publish
<1>2. \/ /\ k \in NotiKinds /\ NotifyAll(k, r, dereg)
         /\ todo' = [todo EXCEPT ![t] = Tail(@)] /\ UNCHANGED <<at, drifted>>
      \/ /\ k \notin NotiKinds /\ j = 0
         /\ todo' = [todo EXCEPT ![t] = Tail(@)] /\ at' = [at EXCEPT ![t] = 1]
         /\ UNCHANGED <<told, drifted>>
      \/ /\ k \in {REQ_REG_FUTURE, REQ_REG_CANCELLATION} /\ j # 0
         /\ ReqRegAbout(subs[j].dest, r, dereg)
         /\ at' = [at EXCEPT ![t] = j + 1] /\ UNCHANGED todo
         /\ drifted' = (drifted \/ numxTEDS(r) # r - 1)
      \/ /\ k \in {SEARCH_REPLY, VAR_REQ_REPLY} /\ j # 0
         /\ SearchAbout(subs[j].dest, k, r)
         /\ at' = [at EXCEPT ![t] = j + 1] /\ UNCHANGED <<todo, drifted>>
  BY DEF Publish
<1>3. /\ todo \in [Thread -> Seq(AllKinds)] /\ at \in [Thread -> Nat \ {0}]
  BY ThreadTypes
<1>4. k \in AllKinds /\ n \in Nat \ {0}
  <2>1. todo[t] \in Seq(AllKinds)
    BY <1>3
  <2> QED
    BY <1>1, <1>3, <2>1
<1>5. r \in Slots
  BY <1>1, ThreadTypes DEF Types, RefType, Holding
<1> DEFINE J == {i \in n..Len(subs) : subs[i].inuse /\ subs[i].mid = k}
<1>6. j = First(J)
  BY DEF SelectInSubSeq, First
<1>7. DOMAIN subs = 1..Len(subs) /\ Len(subs) \in Nat
  BY DEF Types, ListType
<1>8. J \subseteq Nat /\ 0 \notin J /\ \A i : i \in J <=> Awaits(i, k, n)
  BY <1>4, <1>7 DEF Awaits
<1> HIDE DEF J, j
<1>9. j = 0 => \A i \in DOMAIN subs : ~Awaits(i, k, n)
  BY <1>6, <1>8, FirstLeast
<1>10. j # 0 => /\ Awaits(j, k, n) /\ \A i \in DOMAIN subs : Awaits(i, k, n) => j <= i
  <2>1. J = {} => j = 0
    BY <1>6 DEF First
  <2> QED
    BY <1>6, <1>8, <2>1, FirstLeast
<1>11. j # 0 => j \in DOMAIN subs
  BY <1>10 DEF Awaits
<1>12. CASE /\ k \in NotiKinds /\ NotifyAll(k, r, dereg)
            /\ todo' = [todo EXCEPT ![t] = Tail(@)] /\ UNCHANGED <<at, drifted>>
  BY <1>1, <1>3, <1>4, <1>5, <1>12
<1>13. CASE /\ k \notin NotiKinds /\ j = 0
            /\ todo' = [todo EXCEPT ![t] = Tail(@)] /\ at' = [at EXCEPT ![t] = 1]
            /\ UNCHANGED <<told, drifted>>
  BY <1>1, <1>3, <1>4, <1>5, <1>9, <1>13
<1>14. CASE /\ k \in {REQ_REG_FUTURE, REQ_REG_CANCELLATION} /\ j # 0
            /\ ReqRegAbout(subs[j].dest, r, dereg)
            /\ at' = [at EXCEPT ![t] = j + 1] /\ UNCHANGED todo
            /\ drifted' = (drifted \/ numxTEDS(r) # r - 1)
  <2>1. /\ \A u \in Thread : u # t => todo'[u] = todo[u] /\ at'[u] = at[u]
        /\ at'[t] = j + 1 /\ todo'[t] = todo[t]
    BY <1>3, <1>14
  <2> QED
    BY <1>1, <1>4, <1>5, <1>10, <1>11, <1>14, <2>1
<1>15. CASE /\ k \in {SEARCH_REPLY, VAR_REQ_REPLY} /\ j # 0
            /\ SearchAbout(subs[j].dest, k, r)
            /\ at' = [at EXCEPT ![t] = j + 1] /\ UNCHANGED <<todo, drifted>>
  <2>1. /\ \A u \in Thread : u # t => todo'[u] = todo[u] /\ at'[u] = at[u]
        /\ at'[t] = j + 1 /\ todo'[t] = todo[t]
    BY <1>3, <1>15
  <2> QED
    BY <1>1, <1>4, <1>5, <1>10, <1>11, <1>15, <2>1
<1> QED
  BY <1>2, <1>12, <1>13, <1>14, <1>15

-----------------------------------------------------------------------------
(* What a request does to the list of subscriptions.                       *)

\* The subscription a request enters.
NewSub(s, k) == [dest |-> s, mid |-> k, inuse |-> TRUE]

\* A subscription is entered at most once, and moves no other.
LEMMA AddEffect ==
  ASSUME NEW l \in Seq(SubType), NEW s \in Client, NEW k \in AllKinds
  PROVE  /\ addSubscription(l, s, k) \in Seq(SubType)
         /\ \A i \in DOMAIN addSubscription(l, s, k) :
              \/ i \in DOMAIN l /\ addSubscription(l, s, k)[i] = l[i]
              \/ /\ addSubscription(l, s, k)[i] = NewSub(s, k)
                 /\ \A m \in DOMAIN l : l[m] # NewSub(s, k)
         /\ \A i \in DOMAIN l : l[i].inuse => /\ i \in DOMAIN addSubscription(l, s, k)
                                              /\ addSubscription(l, s, k)[i] = l[i]
<1> DEFINE J == {i \in 1..Len(l) : ~l[i].inuse}
<1>0. PICK e, l2 : e = NewSub(s, k) /\ l2 = addSubscription(l, s, k)
  OBVIOUS
<1>1. DOMAIN l = 1..Len(l) /\ Len(l) \in Nat
  OBVIOUS
<1>2. l2 = IF \E i \in DOMAIN l : l[i] = e THEN l
           ELSE IF First(J) = 0 THEN Append(l, e) ELSE [l EXCEPT ![First(J)] = e]
  BY <1>0, <1>1 DEF addSubscription, SelectInSeq, First, Range, NewSub
<1>3. First(J) = 0 \/ (First(J) \in DOMAIN l /\ ~l[First(J)].inuse)
  <2>1. J \subseteq Nat
    BY <1>1
  <2> QED
    BY <1>1, <2>1, FirstIn
<1>4. l2 \in Seq(SubType)
  BY <1>0, AddType
<1> HIDE DEF J
<1>5. /\ \A i \in DOMAIN l2 : \/ i \in DOMAIN l /\ l2[i] = l[i]
                              \/ l2[i] = e /\ \A m \in DOMAIN l : l[m] # e
      /\ \A i \in DOMAIN l : l[i].inuse => i \in DOMAIN l2 /\ l2[i] = l[i]
  <2>1. CASE \E i \in DOMAIN l : l[i] = e
    BY <1>2, <2>1
  <2>2. CASE (\A i \in DOMAIN l : l[i] # e) /\ First(J) = 0
    <3>1. l2 = Append(l, e)
      BY <1>2, <2>2
    <3>2. /\ DOMAIN l2 = 1..(Len(l) + 1) /\ l2[Len(l) + 1] = e
          /\ \A i \in DOMAIN l : l2[i] = l[i]
      BY <1>1, <3>1
    <3>3. \A i \in DOMAIN l2 : i \in DOMAIN l \/ i = Len(l) + 1
      BY <1>1, <3>2
    <3> QED
      BY <1>1, <2>2, <3>2, <3>3
  <2>3. CASE (\A i \in DOMAIN l : l[i] # e) /\ First(J) # 0
    <3>1. l2 = [l EXCEPT ![First(J)] = e] /\ First(J) \in DOMAIN l /\ ~l[First(J)].inuse
      BY <1>2, <1>3, <2>3
    <3> QED
      BY <2>3, <3>1
  <2> QED
    BY <2>1, <2>2, <2>3
<1> QED
  BY <1>0, <1>4, <1>5

\* What a request enters is of its own kind, or the other half of a ReqReg's,
\* and was not in the list.
LEMMA RequestEnters ==
  ASSUME ListType, NEW s \in Client, NEW k \in AllKinds, subs' = addReqRegSubscription(s, k)
  PROVE  \A i \in DOMAIN subs' : subs'[i].inuse =>
           \/ i \in DOMAIN subs /\ subs'[i] = subs[i]
           \/ /\ subs'[i].dest = s /\ ~HasSub(s, subs'[i].mid)
              /\ subs'[i].mid \in EndsWith(k)
              /\ subs'[i].mid = k \/ (k = REQ_REG_CANCELLATION
                                      /\ subs'[i].mid = REQ_REG_FUTURE)
<1>0. subs \in Seq(SubType)
  BY DEF ListType
<1>1. \A q \in AllKinds : HasSub(s, q) => \E m \in DOMAIN subs : subs[m] = NewSub(s, q)
  <2> TAKE q \in AllKinds
  <2> HAVE HasSub(s, q)
  <2>1. PICK m \in DOMAIN subs : subs[m].inuse /\ subs[m].dest = s /\ subs[m].mid = q
    BY DEF HasSub
  <2>2. subs[m] \in SubType
    BY <1>0
  <2>3. subs[m] = NewSub(s, q)
    BY <2>1, <2>2 DEF SubType, NewSub
  <2> QED
    BY <2>3
<1>2. \A q : NewSub(s, q).dest = s /\ NewSub(s, q).mid = q
  BY DEF NewSub
<1>3. CASE k # REQ_REG_CANCELLATION
  <2>1. subs' = addSubscription(subs, s, k)
    BY <1>3 DEF addReqRegSubscription
  <2>2. \A i \in DOMAIN subs' : \/ i \in DOMAIN subs /\ subs'[i] = subs[i]
                                \/ /\ subs'[i] = NewSub(s, k)
                                   /\ \A m \in DOMAIN subs : subs[m] # NewSub(s, k)
    BY <1>0, <2>1, AddEffect
  <2>3. k \in EndsWith(k)
    BY DEF EndsWith
  <2> QED
    BY <1>1, <1>2, <2>2, <2>3
<1>4. CASE k = REQ_REG_CANCELLATION
  <2>1. PICK l : l = addSubscription(subs, s, REQ_REG_FUTURE)
    OBVIOUS
  <2>2. subs' = addSubscription(l, s, REQ_REG_CANCELLATION)
    BY <1>4, <2>1 DEF addReqRegSubscription
  <2>3. REQ_REG_FUTURE \in AllKinds /\ REQ_REG_CANCELLATION \in AllKinds
    BY KindsType
  <2>a. ASSUME NEW q \in AllKinds, NEW p \in Seq(SubType), NEW g, g = addSubscription(p, s, q)
        PROVE  /\ g \in Seq(SubType)
               /\ \A i \in DOMAIN g : \/ i \in DOMAIN p /\ g[i] = p[i]
                                      \/ g[i] = NewSub(s, q) /\ \A m \in DOMAIN p : p[m] # NewSub(s, q)
               /\ \A i \in DOMAIN p : p[i].inuse => i \in DOMAIN g /\ g[i] = p[i]
    BY <2>a, AddEffect
  <2>4. /\ l \in Seq(SubType)
        /\ \A i \in DOMAIN l : \/ i \in DOMAIN subs /\ l[i] = subs[i]
                               \/ /\ l[i] = NewSub(s, REQ_REG_FUTURE)
                                  /\ \A m \in DOMAIN subs : subs[m] # NewSub(s, REQ_REG_FUTURE)
        /\ \A i \in DOMAIN subs : subs[i].inuse => i \in DOMAIN l /\ l[i] = subs[i]
    BY <1>0, <2>1, <2>3, <2>a
  <2>5. \A i \in DOMAIN subs' :
          \/ i \in DOMAIN l /\ subs'[i] = l[i]
          \/ /\ subs'[i] = NewSub(s, REQ_REG_CANCELLATION)
             /\ \A m \in DOMAIN l : l[m] # NewSub(s, REQ_REG_CANCELLATION)
    BY <2>2, <2>3, <2>4, <2>a
  <2>6. /\ REQ_REG_FUTURE \in EndsWith(k) /\ REQ_REG_CANCELLATION \in EndsWith(k)
    BY <1>4 DEF EndsWith
  <2>7. (\A m \in DOMAIN l : l[m] # NewSub(s, REQ_REG_CANCELLATION))
          => \A m \in DOMAIN subs : subs[m] # NewSub(s, REQ_REG_CANCELLATION)
    <3>1. NewSub(s, REQ_REG_CANCELLATION).inuse = TRUE
      BY DEF NewSub
    <3> QED
      BY <2>4, <3>1
  <2> QED
    BY <1>1, <1>2, <1>4, <2>3, <2>4, <2>5, <2>6, <2>7
<1> QED
  BY <1>3, <1>4

\* What is ended is out of use, and nothing else is.
LEMMA RemoveEffect ==
  ASSUME NEW s, NEW ks, subs' = removeSubscriptions(subs, s, ks), ListType
  PROVE  \A i \in DOMAIN subs' : subs'[i].inuse =>
           /\ i \in DOMAIN subs /\ subs'[i] = subs[i]
           /\ ~(subs[i].dest = s /\ subs[i].mid \in ks)
<1>1. \A i \in DOMAIN subs : subs[i] \in SubType
  BY DEF ListType
<1> QED
  BY <1>1 DEF removeSubscriptions, SubType

-----------------------------------------------------------------------------
(* Who is told of an end.                                                  *)

\* The requests on their way, and the subscriptions in use, are of the kinds
\* that are published; what is told of registrations to come is what the
\* client wants.
SentKinds == \A m \in Range(pipe) : m.type \in AllKinds => m.type \in Kinds
EnteredOnly == \A j \in DOMAIN subs : subs[j].inuse => subs[j].mid \in Entered
ToldWanted ==
  \A x \in told : x[2] = REQ_REG_FUTURE => NameOf[x[3]] \in Wants[x[1]]

\* Subscription j is one to ends, and its client takes the component of the
\* inactive slot i for registered.
Ends(j) == subs[j].inuse /\ subs[j].mid = REQ_REG_CANCELLATION
Inactive(i) == ~lib[i].available /\ ~lib[i].active
Misled(j, i) ==
  /\ Ends(j) /\ Inactive(i)
  /\ Report(subs[j].dest, REQ_REG_CANCELLATION, lib[i].comp) \in told

\* A publication of the end of slot i has not come to subscription j.
Ender == {"cancel", child}
Retracting(t) == /\ pc[t] = "publish" /\ todo[t] # << >>
                 /\ Head(todo[t]) = REQ_REG_CANCELLATION
Retracts(j, i) == \E t \in Ender : Retracting(t) /\ ref[t] = i /\ at[t] <= j

EndsTold == ~drifted => \A j \in DOMAIN subs, i \in Slots : Misled(j, i) => Retracts(j, i)
EndToldInv == SentKinds /\ EnteredOnly /\ ToldWanted /\ EndsTold

\* At first nobody has asked for anything.
LEMMA EndToldInit == Init => EndToldInv
<1> SUFFICES ASSUME Init PROVE EndToldInv
  OBVIOUS
<1>1. subs = << >> /\ pipe = << >> /\ told = {}
  BY DEF Init
<1>2. DOMAIN subs = {} /\ Range(pipe) = {}
  BY <1>1 DEF Range
<1> QED
  BY <1>1, <1>2 DEF EndToldInv, SentKinds, EnteredOnly, ToldWanted, EndsTold

-----------------------------------------------------------------------------
(* Steps that tell nobody about an inactive slot.                          *)

\* Reports of registrations are about active slots the client wants.
FutureTold ==
  \A x \in told' : x[2] = REQ_REG_FUTURE =>
    \/ x \in told
    \/ /\ NameOf[x[3]] \in Wants[x[1]]
       /\ \E i \in Slots' : lib'[i].active /\ lib'[i].comp = x[3]
SubsGrow ==
  \A j \in DOMAIN subs' : subs'[j].inuse =>
    \/ j \in DOMAIN subs /\ subs'[j] = subs[j]
    \/ /\ subs'[j].mid \in Entered
       /\ subs'[j].mid = REQ_REG_CANCELLATION
            => \A x \in told' : x[1] = subs'[j].dest => x[2] # REQ_REG_FUTURE
RetractsKept ==
  \A t \in Ender : Retracting(t) =>
    /\ pc'[t] = pc[t] /\ todo'[t] = todo[t] /\ at'[t] = at[t] /\ ref'[t] = ref[t]
InactiveKnown ==
  \A i \in Slots' : ~lib'[i].available /\ ~lib'[i].active =>
    \/ i \in Slots /\ Inactive(i) /\ lib'[i].comp = lib[i].comp
    \/ \A j \in DOMAIN subs' : subs'[j].inuse /\ subs'[j].mid = REQ_REG_CANCELLATION
                                 => Retracts(j, i)'
SentKept ==
  \A m \in Range(pipe') : m \in Range(pipe) \/ (m.type \in AllKinds => m.type \in Kinds)

LEMMA FutureReport ==
  \A s, c : Report(s, REQ_REG_CANCELLATION, c) = <<s, REQ_REG_FUTURE, c>>
            /\ Report(s, REQ_REG_FUTURE, c) = <<s, REQ_REG_FUTURE, c>>
BY DEF Report, REQ_REG_CANCELLATION, REQ_REG_FUTURE, NOTI_DEREGISTRATION

LEMMA EndsFrame ==
  ASSUME SlotInv', EndToldInv, FutureTold, SubsGrow, RetractsKept, InactiveKnown, SentKept,
         drifted => drifted'
  PROVE  EndToldInv'
<1> USE DEF EndToldInv
<1>1. SentKinds'
  BY DEF SentKinds, SentKept
<1>2. EnteredOnly'
  BY DEF EnteredOnly, SubsGrow
<1>3. ToldWanted'
  BY DEF ToldWanted, FutureTold
<1>4. ASSUME ~drifted', NEW j \in DOMAIN subs', NEW i \in Slots', Misled(j, i)'
      PROVE  Retracts(j, i)'
  <2> SUFFICES ASSUME ~Retracts(j, i)' PROVE FALSE
    OBVIOUS
  <2>1. /\ subs'[j].inuse /\ subs'[j].mid = REQ_REG_CANCELLATION
        /\ ~lib'[i].available /\ ~lib'[i].active
        /\ <<subs'[j].dest, REQ_REG_FUTURE, lib'[i].comp>> \in told'
    BY <1>4, FutureReport DEF Misled, Ends, Inactive
  <2>2. i \in Slots /\ Inactive(i) /\ lib'[i].comp = lib[i].comp
    BY <2>1 DEF InactiveKnown
  <2>3. j \in DOMAIN subs /\ subs'[j] = subs[j]
    BY <2>1 DEF SubsGrow
  <2>4. PICK x : x = <<subs'[j].dest, REQ_REG_FUTURE, lib'[i].comp>>
    OBVIOUS
  <2>5. x \in told' /\ x[2] = REQ_REG_FUTURE /\ x[3] = lib'[i].comp
    BY <2>1, <2>4
  <2>6. x \in told
    <3> SUFFICES ASSUME x \notin told PROVE FALSE
      OBVIOUS
    <3>1. PICK m \in Slots' : lib'[m].active /\ lib'[m].comp = lib'[i].comp
      BY <2>5 DEF FutureTold
    <3>2. ~lib'[m].available
      BY <3>1 DEF SlotInv, ActiveInUse
    <3>3. m = i
      BY <2>1, <3>1, <3>2 DEF SlotInv, OneSlot
    <3> QED
      BY <2>1, <3>1, <3>3
  <2>7. Misled(j, i)
    BY <2>1, <2>2, <2>3, <2>4, <2>6, FutureReport DEF Misled, Ends
  <2>8. Retracts(j, i)
    BY <1>4, <2>2, <2>3, <2>7 DEF EndsTold
  <2>9. PICK t \in Ender : Retracting(t) /\ ref[t] = i /\ at[t] <= j
    BY <2>8 DEF Retracts
  <2>10. Retracting(t)' /\ ref'[t] = i /\ at'[t] <= j
    BY <2>9 DEF RetractsKept, Retracting
  <2> QED
    BY <2>10 DEF Retracts
<1>5. EndsTold'
  BY <1>4 DEF EndsTold
<1> QED
  BY <1>1, <1>2, <1>3, <1>5

\* Slots that keep their state make no slot inactive.
LEMMA KeptInactive ==
  ASSUME LibType, SlotsKept
  PROVE  InactiveKnown /\ Slots' = Slots
<1>1. Slots' = Slots
  BY DEF SlotsKept, LibType, Slots
<1> QED
  BY <1>1 DEF SlotsKept, SlotKept, InactiveKnown, Inactive

\* What publications tell of registrations to come is about active slots.
LEMMA PublishFuture ==
  ASSUME Types, SlotInv, NEW t \in Thread, Publish(t)
  PROVE  FutureTold
<1>1. PICK k, r, n, dereg : k = Head(todo[t]) /\ r = ref[t] /\ n = at[t]
                            /\ dereg = (t \notin XThread)
  OBVIOUS
<1>2. /\ SlotsKept /\ Slots' = Slots /\ LibType
  BY PublishEffect, KeptInactive DEF Types
<1>3. /\ r \in Slots /\ dereg \in BOOLEAN
      /\ \/ /\ k \in NotiKinds /\ NotifyAll(k, r, dereg)
         \/ told' = told
         \/ \E s : /\ k \in {REQ_REG_FUTURE, REQ_REG_CANCELLATION}
                   /\ ReqRegAbout(s, r, dereg)
         \/ \E s : k \in {SEARCH_REPLY, VAR_REQ_REPLY} /\ SearchAbout(s, k, r)
  BY <1>1, PublishCases
<1>4. ASSUME NEW x \in told', x[2] = REQ_REG_FUTURE, x \notin told
      PROVE  /\ NameOf[x[3]] \in Wants[x[1]]
             /\ \E i \in Slots' : lib'[i].active /\ lib'[i].comp = x[3]
  <2>1. CASE k \in NotiKinds /\ NotifyAll(k, r, dereg)
    <3>1. x[2] \in NotiKinds
      BY <1>3, <1>4, <2>1, NotifyTold
    <3> QED
      BY <1>4, <3>1 DEF NotiKinds, REQ_REG_FUTURE, NOTI_REGISTRATION, NOTI_DEREGISTRATION,
         NOTI_REGISTRATION_CHANGE
  <2>2. ASSUME NEW s, k \in {SEARCH_REPLY, VAR_REQ_REPLY}, SearchAbout(s, k, r)
        PROVE  FALSE
    <3>1. x[2] = k
      BY <1>2, <1>3, <1>4, <2>2, SearchTold
    <3> QED
      BY <1>4, <2>2, <3>1 DEF REQ_REG_FUTURE, SEARCH_REPLY, VAR_REQ_REPLY
  <2>3. ASSUME NEW s, ReqRegAbout(s, r, dereg)
        PROVE  /\ NameOf[x[3]] \in Wants[x[1]]
               /\ \E i \in Slots' : lib'[i].active /\ lib'[i].comp = x[3]
    <3>1. dereg = FALSE
      BY <1>2, <1>3, <1>4, <2>3, ReqRegTold
    <3>2. PICK i \in Slots : /\ x = Report(s, REQ_REG_FUTURE, lib[i].comp)
                             /\ lib[i].active /\ Matches(s, i)
      BY <1>2, <1>3, <1>4, <2>3, <3>1, ReqRegTold
    <3>3. x[1] = s /\ x[3] = lib[i].comp
      BY <3>2, FutureReport
    <3>4. lib[i].name = NameOf[lib[i].comp] /\ lib[i].name \in Wants[s]
      BY <3>2 DEF SlotInv, NamesKept, Matches
    <3>5. lib'[i].active /\ lib'[i].comp = lib[i].comp
      BY <1>2, <3>2 DEF SlotsKept, SlotKept
    <3> QED
      BY <1>2, <3>3, <3>4, <3>5
  <2> QED
    BY <1>3, <1>4, <2>1, <2>2, <2>3
<1> QED
  BY <1>4 DEF FutureTold

\* The publication of an end takes back what was told, one subscription after
\* the other.
LEMMA EndsPublish ==
  ASSUME Types, SlotInv, SlotInv', EndToldInv, NEW t \in Thread, Publish(t)
  PROVE  EndToldInv'
<1>1. PICK k, r, n, dereg : k = Head(todo[t]) /\ r = ref[t] /\ n = at[t]
                            /\ dereg = (t \notin XThread)
  OBVIOUS
<1>2. /\ SlotsKept /\ Slots' = Slots /\ InactiveKnown /\ FutureTold
      /\ UNCHANGED <<subs, pipe, pc, ref>>
  BY PublishEffect, PublishFuture, KeptInactive DEF Types
<1>3. /\ SubsGrow /\ SentKept
  BY <1>2 DEF SubsGrow, SentKept
<1>4. /\ pc[t] = "publish" /\ todo[t] # << >> /\ r \in Slots /\ n \in Nat \ {0}
      /\ dereg \in BOOLEAN
      /\ \A u \in Thread : u # t => todo'[u] = todo[u] /\ at'[u] = at[u]
      /\ \/ k \in NotiKinds /\ drifted' = drifted
         \/ /\ \A i \in DOMAIN subs : ~Awaits(i, k, n)
            /\ told' = told /\ drifted' = drifted
         \/ /\ todo'[t] = todo[t]
            /\ \E j \in DOMAIN subs :
                 /\ Awaits(j, k, n) /\ \A i \in DOMAIN subs : Awaits(i, k, n) => j <= i
                 /\ at'[t] = j + 1
                 /\ \/ /\ ReqRegAbout(subs[j].dest, r, dereg)
                       /\ drifted' = (drifted \/ numxTEDS(r) # r - 1)
                    \/ k \in {SEARCH_REPLY, VAR_REQ_REPLY} /\ drifted' = drifted
  BY <1>1, PublishCases
<1>5. drifted => drifted'
  BY <1>4
<1>6. CASE t \in XThread
  <2>1. t \notin Ender
    BY <1>6, Threads DEF Ender
  <2>2. RetractsKept
    BY <1>2, <1>4, <2>1, Threads DEF RetractsKept, Ender
  <2> QED
    BY <1>2, <1>3, <1>5, <2>2, EndsFrame
<1>7. CASE t \notin XThread
  <2>0. dereg = TRUE /\ t \in Ender
    BY <1>1, <1>7 DEF Thread, Ender, child
  <2>1. SentKinds' /\ EnteredOnly' /\ ToldWanted'
    BY <1>2 DEF EndToldInv, SentKinds, EnteredOnly, ToldWanted, FutureTold
  <2>2. ASSUME ~drifted', NEW j \in DOMAIN subs, NEW i \in Slots, Misled(j, i)'
        PROVE  Retracts(j, i)'
    <3>1. /\ subs[j].inuse /\ subs[j].mid = REQ_REG_CANCELLATION
          /\ ~lib[i].available /\ ~lib[i].active /\ lib'[i].comp = lib[i].comp
          /\ Report(subs[j].dest, REQ_REG_CANCELLATION, lib[i].comp) \in told'
      BY <1>2, <2>2 DEF Misled, Ends, Inactive, SlotsKept, SlotKept
    <3>2. PICK x : x = Report(subs[j].dest, REQ_REG_CANCELLATION, lib[i].comp)
      OBVIOUS
    <3>3. x = <<subs[j].dest, REQ_REG_FUTURE, lib[i].comp>> /\ x \in told'
      BY <3>1, <3>2, FutureReport
    <3>4. x[1] = subs[j].dest /\ x[2] = REQ_REG_FUTURE /\ x[3] = lib[i].comp
      BY <3>3
    <3>5. x \in told
      <4> SUFFICES ASSUME x \notin told PROVE FALSE
        OBVIOUS
      <4>1. PICK m \in Slots' : lib'[m].active /\ lib'[m].comp = lib[i].comp
        BY <1>2, <3>3, <3>4 DEF FutureTold
      <4>2. m \in Slots /\ lib[m].active /\ lib[m].comp = lib[i].comp
        BY <1>2, <4>1 DEF SlotsKept, SlotKept
      <4>3. ~lib[m].available
        BY <4>2 DEF SlotInv, ActiveInUse
      <4>4. m = i
        BY <3>1, <4>2, <4>3 DEF SlotInv, OneSlot
      <4> QED
        BY <3>1, <4>2, <4>4
    <3>6. ~drifted /\ Misled(j, i)
      BY <1>5, <2>2, <3>1, <3>2, <3>5 DEF Misled, Ends, Inactive
    <3>7. PICK u \in Ender : Retracting(u) /\ ref[u] = i /\ at[u] <= j
      BY <3>6 DEF EndToldInv, EndsTold, Retracts
    <3>8. u \in Thread
      BY Threads DEF Ender
    <3>9. CASE u # t
      <4>1. Retracting(u)' /\ ref'[u] = i /\ at'[u] <= j
        BY <1>2, <1>4, <3>7, <3>8, <3>9 DEF Retracting
      <4> QED
        BY <4>1 DEF Retracts
    <3>10. CASE u = t
      <4>1. k = REQ_REG_CANCELLATION /\ r = i /\ n <= j
        BY <1>1, <3>7, <3>10 DEF Retracting
      <4>2. Awaits(j, k, n)
        BY <1>4, <3>1, <4>1 DEF Awaits, Types, ListType
      <4>3. /\ k \notin NotiKinds /\ k \notin {SEARCH_REPLY, VAR_REQ_REPLY}
        BY <4>1 DEF NotiKinds, REQ_REG_CANCELLATION, NOTI_REGISTRATION, NOTI_DEREGISTRATION,
           NOTI_REGISTRATION_CHANGE, SEARCH_REPLY, VAR_REQ_REPLY
      <4>4. PICK m \in DOMAIN subs :
              /\ Awaits(m, k, n) /\ \A q \in DOMAIN subs : Awaits(q, k, n) => m <= q
              /\ at'[t] = m + 1 /\ todo'[t] = todo[t]
              /\ ReqRegAbout(subs[m].dest, r, dereg)
              /\ drifted' = (drifted \/ numxTEDS(r) # r - 1)
        BY <1>4, <4>2, <4>3
      <4>5. m # j
        <5> SUFFICES ASSUME m = j PROVE FALSE
          OBVIOUS
        <5>1. numxTEDS(r) = r - 1
          BY <2>2, <4>4
        <5>2. NameOf[lib[i].comp] \in Wants[subs[j].dest]
          BY <3>4, <3>5 DEF EndToldInv, ToldWanted
        <5>3. Matches(subs[j].dest, r)
          BY <3>1, <4>1, <5>2 DEF Matches, SlotInv, NamesKept
        <5>4. Report(subs[j].dest, REQ_REG_FUTURE, lib[r].comp) \notin told'
          BY <1>4, <2>0, <4>4, <5>1, <5>3, ReqRegTold DEF Types
        <5> QED
          BY <3>3, <4>1, <5>4, FutureReport
      <4>6. m + 1 <= j
        <5>1. m <= j /\ m \in Nat /\ j \in Nat
          BY <4>2, <4>4 DEF Types, ListType
        <5> QED
          BY <4>5, <5>1
      <4>7. Retracting(t)' /\ ref'[t] = i /\ at'[t] <= j
        BY <1>2, <3>7, <3>10, <4>4, <4>6 DEF Retracting
      <4> QED
        BY <2>0, <4>7 DEF Retracts
    <3> QED
      BY <3>9, <3>10
  <2>3. EndsTold'
    BY <1>2, <2>2 DEF EndsTold
  <2> QED
    BY <2>1, <2>3 DEF EndToldInv
<1> QED
  BY <1>6, <1>7

\* A thread that is not at the publication of an end moves.
LEMMA OthersRetract ==
  ASSUME Types, NEW t \in Thread, pc[t] # "publish" \/ todo[t] = << >>,
         pc' = pc \/ \E x : pc' = [pc EXCEPT ![t] = x],
         todo' = todo \/ \E x : todo' = [todo EXCEPT ![t] = x],
         at' = at \/ \E x : at' = [at EXCEPT ![t] = x],
         ref' = ref \/ \E x : ref' = [ref EXCEPT ![t] = x]
  PROVE  RetractsKept
<1>1. /\ pc \in [Thread -> Pcs] /\ todo \in [Thread -> Seq(AllKinds)]
      /\ at \in [Thread -> Nat \ {0}] /\ ref \in [Thread -> 0..Len(lib)]
  BY DEF Types, ThreadType, RefType
<1>2. ASSUME NEW u \in Thread, u # t
      PROVE  pc'[u] = pc[u] /\ todo'[u] = todo[u] /\ at'[u] = at[u] /\ ref'[u] = ref[u]
  <2>1. pc'[u] = pc[u]
    BY <1>1, <1>2
  <2>2. todo'[u] = todo[u]
    BY <1>1, <1>2
  <2>3. at'[u] = at[u]
    BY <1>1, <1>2
  <2>4. ref'[u] = ref[u]
    BY <1>1, <1>2
  <2> QED
    BY <2>1, <2>2, <2>3, <2>4
<1>3. ~Retracting(t)
  BY DEF Retracting
<1> QED
  BY <1>2, <1>3, Threads DEF RetractsKept, Ender

\* Nothing happens to the slots, the subscriptions and what was told.
LEMMA EndsStill ==
  ASSUME Types, SlotInv', EndToldInv, RetractsKept, SentKept, SlotsKept,
         subs' = subs, told' = told, drifted' = drifted
  PROVE  EndToldInv'
<1>1. InactiveKnown
  BY KeptInactive DEF Types
<1>2. FutureTold /\ SubsGrow
  BY DEF FutureTold, SubsGrow
<1> QED
  BY <1>1, <1>2, EndsFrame

\* Most steps are of that kind.
LEMMA EndsQuiet ==
  ASSUME Types, SlotInv', EndToldInv,
         \/ \E c \in App \cup Sensor, t \in XThread : ListenxTEDS(c, t)
         \/ \E t \in XThread : Parse(t) \/ xTEDSDone(t)
         \/ CancelFind \/ CancelFinish
         \/ ChildPost \/ Consume \/ TaskErrorDone
         \/ CancelApply /\ ref["cancel"] = 0
         \/ TaskError /\ ref[child] = 0 /\ told' = told
         \/ UNCHANGED vars
  PROVE  EndToldInv'
<1>0. "cancel" \in Thread /\ child \in Thread /\ XThread \subseteq Thread
  BY Threads
<1>1. ASSUME lib' = lib PROVE SlotsKept
  BY <1>1, SameSlots DEF Types
<1>2. ASSUME pipe' = pipe PROVE SentKept
  BY <1>2 DEF SentKept
<1>3. ASSUME NEW c \in App \cup Sensor, NEW t \in XThread, ListenxTEDS(c, t)
      PROVE  EndToldInv'
  <2>1. /\ pc[t] = "idle" /\ \E x : pc' = [pc EXCEPT ![t] = x]
        /\ UNCHANGED <<lib, subs, pipe, told, drifted, ref, todo, at>>
    BY <1>3 DEF ListenxTEDS, dmVars, envVars
  <2>2. RetractsKept
    BY <1>0, <2>1, OthersRetract
  <2> QED
    BY <1>1, <1>2, <2>1, <2>2, EndsStill
<1>4. ASSUME NEW t \in XThread, Parse(t) \/ xTEDSDone(t)
      PROVE  EndToldInv'
  <2>1. /\ pc[t] # "publish" \/ todo[t] = << >>
        /\ \E x : pc' = [pc EXCEPT ![t] = x]
        /\ ref' = ref \/ \E x : ref' = [ref EXCEPT ![t] = x]
        /\ UNCHANGED <<lib, subs, pipe, told, drifted, todo, at>>
    BY <1>4 DEF Parse, xTEDSDone, dmVars, envVars
  <2>2. RetractsKept
    BY <1>0, <2>1, OthersRetract
  <2> QED
    BY <1>1, <1>2, <2>1, <2>2, EndsStill
<1>5. CASE CancelFind \/ CancelFinish \/ (CancelApply /\ ref["cancel"] = 0)
  <2>1. /\ pc["cancel"] # "publish" \/ todo["cancel"] = << >>
        /\ \E x : pc' = [pc EXCEPT !["cancel"] = x]
        /\ ref' = ref \/ \E x : ref' = [ref EXCEPT !["cancel"] = x]
        /\ UNCHANGED <<lib, subs, pipe, told, drifted, todo, at>>
    BY <1>5 DEF CancelFind, CancelFinish, CancelApply, envVars
  <2>2. RetractsKept
    BY <1>0, <2>1, OthersRetract
  <2> QED
    BY <1>1, <1>2, <2>1, <2>2, EndsStill
<1>6. CASE Consume \/ TaskErrorDone
  <2>1. /\ pc[child] # "publish" \/ todo[child] = << >>
        /\ \E x : pc' = [pc EXCEPT ![child] = x]
        /\ ref' = ref \/ \E x : ref' = [ref EXCEPT ![child] = x]
        /\ UNCHANGED <<lib, subs, pipe, told, drifted, todo, at>>
    BY <1>6 DEF Consume, TaskErrorDone, ChildIdle, envVars
  <2>2. RetractsKept
    BY <1>0, <2>1, OthersRetract
  <2> QED
    BY <1>1, <1>2, <2>1, <2>2, EndsStill
<1>7. CASE ChildPost
  <2>1. /\ pc[child] = "post"
        /\ pc' = pc \/ \E x : pc' = [pc EXCEPT ![child] = x]
        /\ UNCHANGED <<subs, pipe, told, drifted, ref, todo, at>>
    BY <1>7 DEF ChildPost, ChildIdle
  <2>2. RetractsKept
    BY <1>0, <2>1, OthersRetract
  <2> QED
    BY <1>2, <1>7, <2>1, <2>2, ChildPostSlots, EndsStill
<1>8. CASE TaskError /\ ref[child] = 0 /\ told' = told
  <2>1. /\ pc[child] = "wait"
        /\ pc' = pc \/ \E x : pc' = [pc EXCEPT ![child] = x]
        /\ UNCHANGED <<lib, subs, pipe, drifted, ref, todo, at>>
    BY <1>8 DEF TaskError, ChildIdle
  <2>2. RetractsKept
    BY <1>0, <2>1, OthersRetract
  <2> QED
    BY <1>1, <1>2, <1>8, <2>1, <2>2, EndsStill
<1>9. CASE UNCHANGED vars
  <2>1. UNCHANGED <<lib, subs, pipe, told, drifted, pc, ref, todo, at>>
    BY <1>9 DEF vars, dmVars, thVars, envVars
  <2>2. RetractsKept
    BY <2>1 DEF RetractsKept
  <2> QED
    BY <1>1, <1>2, <2>1, <2>2, EndsStill
<1> QED
  BY <1>3, <1>4, <1>5, <1>6, <1>7, <1>8, <1>9

\* The environment sends requests of the kinds there are.
LEMMA SentRequests ==
  ASSUME Types, SentKinds, NEW s,
         \/ \E k \in Kinds \cup (Plain \cap {"ReqReg"}) : Request(s, k)
         \/ \E k \in Kinds : Unsubscribe(s, k)
         \/ \E type \in {"Consume", "Cancel"}, i \in Slots : SendConsume(s, type, i)
  PROVE  \E m : Send(m) /\ (m.type \in AllKinds => m.type \in Kinds)
<1>1. ASSUME NEW k \in Kinds \cup (Plain \cap {"ReqReg"}), Request(s, k)
      PROVE  \E m : Send(m) /\ (m.type \in AllKinds => m.type \in Kinds)
  <2> DEFINE m == [type |-> k, client |-> s]
  <2>1. Send(m) /\ m.type = k
    BY <1>1 DEF Request
  <2>2. k \in AllKinds => k \in Kinds
    BY <1>1, KindsType
  <2> HIDE DEF m
  <2>3. Send(m) /\ (m.type \in AllKinds => m.type \in Kinds)
    BY <2>1, <2>2
  <2> QED
    BY <2>3, Zenon
<1>2. ASSUME NEW k \in Kinds, Unsubscribe(s, k)
      PROVE  \E m : Send(m) /\ (m.type \in AllKinds => m.type \in Kinds)
  <2> DEFINE m == [type |-> "Unsubscribe", client |-> s, kind |-> k]
  <2>1. Send(m) /\ m.type = "Unsubscribe"
    BY <1>2 DEF Unsubscribe
  <2> HIDE DEF m
  <2>2. Send(m) /\ (m.type \in AllKinds => m.type \in Kinds)
    BY <2>1, KindsType
  <2> QED
    BY <2>2, Zenon
<1>3. ASSUME NEW type \in {"Consume", "Cancel"}, NEW i, SendConsume(s, type, i)
      PROVE  \E m : Send(m) /\ (m.type \in AllKinds => m.type \in Kinds)
  <2> DEFINE m == [type |-> type, client |-> s, prov |-> lib[i].comp,
                   sid |-> lib[i].sid, hasId |-> s \in conf]
  <2>1. Send(m) /\ m.type \in {"Consume", "Cancel"}
    BY <1>3 DEF SendConsume
  <2> HIDE DEF m
  <2>2. Send(m) /\ (m.type \in AllKinds => m.type \in Kinds)
    BY <2>1, KindsType
  <2> QED
    BY <2>2, Zenon
<1> QED
  BY <1>1, <1>2, <1>3

\* What the environment does tells nobody.
LEMMA EndsEnv ==
  ASSUME Types, SlotInv', EndToldInv, EnvNext
  PROVE  EndToldInv'
<1>1. SentKinds
  BY DEF EndToldInv
<1>2. /\ UNCHANGED <<lib, subs, told, drifted, pc, ref, todo, at>>
      /\ SentKept
  <2>1. ASSUME NEW c \in App \cup Sensor,
               Start(c) \/ Exit(c) \/ Unplug(c) \/ Kill(c)
        PROVE  UNCHANGED <<lib, subs, told, drifted, pc, ref, todo, at>> /\ SentKept
    BY <2>1 DEF Start, Exit, Unplug, Kill, End, SentKept, dmVars, thVars
  <2>2. ASSUME NEW m, pipe' = Append(pipe, m), m.type \in AllKinds => m.type \in Kinds
        PROVE  SentKept
    BY <2>2, PipeSent DEF SentKept
  <2>3. ASSUME NEW c \in App \cup Sensor, Error(c)
        PROVE  UNCHANGED <<lib, subs, told, drifted, pc, ref, todo, at>> /\ SentKept
    <3> DEFINE m == [type |-> "TaskError", comp |-> c, pid |-> <<c, starts[c]>>]
    <3>1. pipe' = Append(pipe, m) /\ m.type = "TaskError"
      BY <2>3 DEF Error
    <3> HIDE DEF m
    <3>2. SentKept
      BY <2>2, <3>1, KindsType
    <3> QED
      BY <2>3, <3>2 DEF Error, thVars
  <2>4. ASSUME NEW m, Send(m), m.type \in AllKinds => m.type \in Kinds
        PROVE  UNCHANGED <<lib, subs, told, drifted, pc, ref, todo, at>> /\ SentKept
    BY <2>2, <2>4 DEF Send, thVars
  <2>5. ASSUME ForeignCancel
        PROVE  UNCHANGED <<lib, subs, told, drifted, pc, ref, todo, at>> /\ SentKept
    BY <2>5 DEF ForeignCancel, SentKept, thVars
  <2> QED
    BY <1>1, <2>1, <2>3, <2>4, <2>5, SentRequests DEF EnvNext
<1>3. RetractsKept /\ SlotsKept
  BY <1>2, SameSlots DEF RetractsKept, Types
<1> QED
  BY <1>2, <1>3, EndsStill

\* A slot that becomes active, or is given back, misleads nobody.
LEMMA ChangedInactive ==
  ASSUME NEW r, Slots' \subseteq Slots \cup {r},
         \A j \in Slots : j # r => lib'[j] = lib[j],
         lib'[r].available \/ lib'[r].active
  PROVE  InactiveKnown
BY DEF InactiveKnown, Inactive

\* A registration makes its slot active, or gives it back.
LEMMA EndsRegister ==
  ASSUME Types, SlotInv', EndToldInv, NEW t \in XThread, RegisterxTEDS(t)
  PROVE  EndToldInv'
<1>1. /\ pc[t] = "wait" /\ t \in Thread
      /\ pc' = pc \/ \E x : pc' = [pc EXCEPT ![t] = x]
      /\ todo' = todo \/ \E x : todo' = [todo EXCEPT ![t] = x]
      /\ at' = at \/ \E x : at' = [at EXCEPT ![t] = x]
      /\ ref' = ref \/ \E x : ref' = [ref EXCEPT ![t] = x]
      /\ UNCHANGED <<subs, pipe, told, drifted>>
  BY Threads DEF RegisterxTEDS
<1>2. RetractsKept
  BY <1>1, OthersRetract
<1>3. SentKept /\ SubsGrow /\ FutureTold
  BY <1>1 DEF SentKept, SubsGrow, FutureTold
<1>4. Slots = 1..Len(lib) /\ Slots' = 1..Len(lib') /\ Len(lib) \in Nat
  <2>1. LibType'
    BY RegisterEffect
  <2> QED
    BY <2>1 DEF Types, LibType, Slots
<1>5. PICK r \in Nat \ {0} :
        \/ lib' = lib
        \/ /\ r \in Slots /\ lib'[r].active = TRUE
           /\ Len(lib') = Len(lib) /\ \A j \in Slots : j # r => lib'[j] = lib[j]
        \/ /\ r \in 1..(Len(lib) + 1)
           /\ lib'[r].available <=> cur[t].comp \in Malformed
           /\ lib'[r].active <=> cur[t].comp \notin Malformed
           /\ Len(lib') = IF r \in Slots THEN Len(lib) ELSE Len(lib) + 1
           /\ \A j \in Slots : j # r => lib'[j] = lib[j]
  BY RegisterEffect
<1>6. InactiveKnown
  <2>1. CASE lib' = lib
    BY <2>1, SameSlots, KeptInactive DEF Types
  <2>2. CASE /\ r \in Slots /\ lib'[r].active = TRUE
             /\ Len(lib') = Len(lib) /\ \A j \in Slots : j # r => lib'[j] = lib[j]
    <3>1. Slots' \subseteq Slots \cup {r}
      BY <1>4, <2>2
    <3> QED
      BY <2>2, <3>1, ChangedInactive
  <2>3. CASE /\ r \in 1..(Len(lib) + 1)
             /\ lib'[r].available <=> cur[t].comp \in Malformed
             /\ lib'[r].active <=> cur[t].comp \notin Malformed
             /\ Len(lib') = IF r \in Slots THEN Len(lib) ELSE Len(lib) + 1
             /\ \A j \in Slots : j # r => lib'[j] = lib[j]
    <3>1. Slots' \subseteq Slots \cup {r}
      <4>1. CASE r \in Slots
        BY <1>4, <2>3, <4>1
      <4>2. CASE r \notin Slots
        BY <1>4, <2>3, <4>2
      <4> QED
        BY <4>1, <4>2
    <3>2. lib'[r].available \/ lib'[r].active
      BY <2>3
    <3>3. \A j \in Slots : j # r => lib'[j] = lib[j]
      BY <2>3
    <3> HIDE <2>3
    <3> QED
      BY <3>1, <3>2, <3>3, ChangedInactive
  <2> QED
    BY <1>5, <2>1, <2>2, <2>3
<1> QED
  BY <1>1, <1>2, <1>3, <1>6, EndsFrame

\* A subscription to ends is told first when a slot is made inactive.
LEMMA EndsStarted ==
  ASSUME Types, EndToldInv, NEW t \in Ender, NEW r \in Slots, pc[t] # "publish",
         SubsGrow, Slots' = Slots,
         ref[t] = r, ref' = ref, pc' = [pc EXCEPT ![t] = "publish"],
         todo' = [todo EXCEPT ![t] = CancellationStages], at' = [at EXCEPT ![t] = 1],
         \A j \in Slots : j # r => lib'[j] = lib[j],
         subs' \in Seq(SubType), Ender \subseteq Thread
  PROVE  RetractsKept /\ InactiveKnown
<1>1. t \in Thread
  OBVIOUS
<1>2. RetractsKept
  BY <1>1, OthersRetract
<1>3. pc'[t] = "publish" /\ todo'[t] = CancellationStages /\ at'[t] = 1 /\ ref'[t] = r
  BY <1>1 DEF Types, ThreadType
<1>4. ASSUME NEW j \in DOMAIN subs', subs'[j].inuse, subs'[j].mid = REQ_REG_CANCELLATION
      PROVE  Retracts(j, r)'
  <2>1. REQ_REG_CANCELLATION \in Entered
    BY <1>4 DEF SubsGrow, EndToldInv, EnteredOnly
  <2>2. Stage(REQ_REG_CANCELLATION) = <<REQ_REG_CANCELLATION>>
    BY <2>1 DEF Stage
  <2>3. PICK p, q : p = Stage(NOTI_DEREGISTRATION) /\ q = Stage(NOTI_REGISTRATION_CHANGE)
                    /\ p \in Seq(AllKinds) /\ q \in Seq(AllKinds)
    <3>1. \A k \in AllKinds : Stage(k) \in Seq(AllKinds)
      BY DEF Stage
    <3> QED
      BY <3>1, KindsType
  <2>4. CancellationStages = (<<REQ_REG_CANCELLATION>> \o p) \o q
    BY <2>2, <2>3 DEF CancellationStages
  <2>5. CancellationStages # << >> /\ Head(CancellationStages) = REQ_REG_CANCELLATION
    <3>1. <<REQ_REG_CANCELLATION>> \in Seq(AllKinds)
      BY KindsType
    <3>2. Len(CancellationStages) > 0 /\ CancellationStages[1] = REQ_REG_CANCELLATION
      BY <2>3, <2>4, <3>1
    <3> QED
      BY <3>2, StagesType
  <2>6. 1 <= j
    BY <1>4
  <2>7. Retracting(t)'
    BY <1>3, <2>5 DEF Retracting
  <2> QED
    BY <1>3, <2>6, <2>7 DEF Retracts
<1>5. InactiveKnown
  BY <1>4 DEF InactiveKnown, Inactive
<1> QED
  BY <1>2, <1>5

\* A cancellation deactivates its slot and publishes its end.
LEMMA EndsApply ==
  ASSUME Types, SlotInv', EndToldInv, CancelApply, ref["cancel"] # 0
  PROVE  EndToldInv'
<1>1. /\ pc["cancel"] = "wait" /\ UNCHANGED <<subs, pipe, told, drifted, ref>>
      /\ lib' = Deactivate(ref["cancel"], cur["cancel"].full)
      /\ todo' = [todo EXCEPT !["cancel"] = CancellationStages]
      /\ at' = [at EXCEPT !["cancel"] = 1]
      /\ pc' = [pc EXCEPT !["cancel"] = "publish"]
  BY DEF CancelApply, envVars
<1>2. SentKept /\ SubsGrow /\ FutureTold
  BY <1>1 DEF SentKept, SubsGrow, FutureTold
<1>3. PICK r : r = ref["cancel"]
  OBVIOUS
<1>4. /\ r \in Slots /\ Len(lib') = Len(lib) /\ LibType'
      /\ \A j \in Slots : j # r => lib'[j] = lib[j]
  BY <1>1, <1>3, CancelEffect
<1>5. Slots' = Slots
  BY <1>4 DEF Types, LibType, Slots
<1>6. Ender \subseteq Thread /\ "cancel" \in Ender /\ subs' \in Seq(SubType)
  BY <1>1, Threads DEF Ender, Types, ListType
<1>7. RetractsKept /\ InactiveKnown
  BY <1>1, <1>2, <1>3, <1>4, <1>5, <1>6, EndsStarted
<1> QED
  BY <1>1, <1>2, <1>7, EndsFrame

\* So does the failure of an application, which also ends its subscriptions.
LEMMA EndsError ==
  ASSUME Types, SlotInv', EndToldInv, TaskError, ref[child] # 0
  PROVE  EndToldInv'
<1>1. PICK c, ks : c = lib[ref[child]].comp /\ ks = EndsWith(REQ_REG_FUTURE)
  OBVIOUS
<1>2. /\ pc[child] = "wait" /\ UNCHANGED <<pipe, drifted, ref>>
      /\ lib' = Fail(ref[child]) /\ subs' = removeSubscriptions(subs, c, ks)
      /\ told' \subseteq told
      /\ todo' = [todo EXCEPT ![child] = CancellationStages]
      /\ at' = [at EXCEPT ![child] = 1]
      /\ pc' = [pc EXCEPT ![child] = "publish"]
  BY <1>1 DEF TaskError
<1>3. SentKept /\ SubsGrow /\ FutureTold
  <2>1. SubsGrow
    BY <1>2, RemoveEffect DEF SubsGrow, Types
  <2> QED
    BY <1>2, <2>1 DEF SentKept, FutureTold
<1>4. PICK r : r = ref[child]
  OBVIOUS
<1>5. /\ r \in Slots /\ Len(lib') = Len(lib) /\ LibType'
      /\ \A j \in Slots : j # r => lib'[j] = lib[j]
  BY <1>2, <1>4, FailEffect
<1>6. Slots' = Slots
  BY <1>5 DEF Types, LibType, Slots
<1>7. Ender \subseteq Thread /\ child \in Ender /\ subs' \in Seq(SubType)
  <2>1. subs \in Seq(SubType)
    BY DEF Types, ListType
  <2> QED
    BY <1>2, <2>1, Threads, RemoveType DEF Ender
<1>8. RetractsKept /\ InactiveKnown
  BY <1>2, <1>3, <1>4, <1>5, <1>6, <1>7, EndsStarted
<1> QED
  BY <1>2, <1>3, <1>8, EndsFrame

\* A slot that is given back is not a registration any more.
LEMMA EndsRelease ==
  ASSUME Types, SlotInv', EndToldInv, CancelRelease
  PROVE  EndToldInv'
<1>1. /\ pc["cancel"] = "finish" /\ lib' = Release(ref["cancel"])
      /\ pc' = [pc EXCEPT !["cancel"] = "idle"] /\ ref' = [ref EXCEPT !["cancel"] = 0]
      /\ UNCHANGED <<subs, pipe, told, drifted, todo, at>>
  BY DEF CancelRelease, envVars
<1>2. SentKept /\ SubsGrow /\ FutureTold
  BY <1>1 DEF SentKept, SubsGrow, FutureTold
<1>3. RetractsKept
  BY <1>1, Threads, OthersRetract
<1>4. PICK r : r = ref["cancel"]
  OBVIOUS
<1>5. /\ Len(lib') = Len(lib) /\ LibType'
      /\ \/ lib' = lib
         \/ /\ \A j \in Slots : j # r => lib'[j] = lib[j]
            /\ lib'[r].available = TRUE
  BY <1>1, <1>4, ReleaseEffect
<1>6. InactiveKnown
  <2>1. CASE lib' = lib
    BY <2>1, SameSlots, KeptInactive DEF Types
  <2>2. CASE /\ \A j \in Slots : j # r => lib'[j] = lib[j]
             /\ lib'[r].available = TRUE
    <3>1. Slots' \subseteq Slots \cup {r}
      BY <1>5 DEF Types, LibType, Slots
    <3> QED
      BY <2>2, <3>1, ChangedInactive
  <2> QED
    BY <1>5, <2>1, <2>2
<1> QED
  BY <1>1, <1>2, <1>3, <1>6, EndsFrame

\* A request takes back what its client was told when it enters a
\* subscription; the end of a subscription does so too.
LEMMA EndsTake ==
  ASSUME Types, SlotInv', EndToldInv, ChildTake
  PROVE  EndToldInv'
<1> DEFINE m == Head(pipe)
<1>1. /\ pc[child] = "idle" /\ pipe # << >> /\ pipe' = Tail(pipe)
      /\ UNCHANGED <<lib, todo, at, drifted>>
      /\ TakeRequest(m) \/ TakeUnsubscribe(m) \/ TakeTaskError(m) \/ TakeConsume(m)
  BY DEF ChildTake
<1>2. Range(pipe) = Range(pipe') \cup {m} /\ m \in PipeMsg
  <2>1. pipe \in Seq(PipeMsg)
    BY DEF Types, QueueType
  <2> QED
    BY <1>1, <2>1, RangeTail
<1>3. m.type \in AllKinds => m.type \in Kinds
  BY <1>2 DEF EndToldInv, SentKinds
<1> HIDE DEF m
<1>4. SentKept
  BY <1>2 DEF SentKept
<1>5. SlotsKept /\ InactiveKnown
  BY <1>1, SameSlots, KeptInactive DEF Types
<1>6. RetractsKept
  <2>1. /\ pc' = pc \/ \E x : pc' = [pc EXCEPT ![child] = x]
        /\ ref' = ref \/ \E x : ref' = [ref EXCEPT ![child] = x]
    BY <1>1 DEF TakeRequest, TakeUnsubscribe, TakeTaskError, TakeConsume
  <2> QED
    BY <1>1, <2>1, Threads, OthersRetract
<1>7. told' \subseteq told
  BY <1>1 DEF TakeRequest, TakeUnsubscribe, TakeTaskError, TakeConsume
<1>8. FutureTold
  BY <1>7 DEF FutureTold
<1>9. SubsGrow
  <2>1. CASE TakeRequest(m) /\ m.type # "ReqReg"
    <3>1. m.type \in AllKinds /\ m.client \in Client
      BY <1>2, <2>1, PipeFacts, MsgFacts DEF TakeRequest
    <3>2. PICK s \in Client, k \in AllKinds : s = m.client /\ k = m.type
      BY <3>1
    <3>3. subs' = addReqRegSubscription(s, k)
      BY <2>1, <3>2 DEF TakeRequest
    <3>4. ASSUME NEW j \in DOMAIN subs', subs'[j].inuse, ~(j \in DOMAIN subs /\ subs'[j] = subs[j])
          PROVE  /\ subs'[j].mid \in Entered
                 /\ subs'[j].mid = REQ_REG_CANCELLATION
                      => \A x \in told' : x[1] = subs'[j].dest => x[2] # REQ_REG_FUTURE
      <4>1. /\ subs'[j].dest = s /\ ~HasSub(s, subs'[j].mid) /\ subs'[j].mid \in EndsWith(k)
            /\ subs'[j].mid = k \/ subs'[j].mid = REQ_REG_FUTURE
        BY <3>3, <3>4, RequestEnters DEF Types
      <4>2. k \in Kinds
        BY <1>3, <3>1, <3>2
      <4>3. subs'[j].mid \in Entered
        BY <4>1, <4>2 DEF Entered
      <4>4. ASSUME subs'[j].mid = REQ_REG_CANCELLATION
            PROVE  \A x \in told' : x[1] = s => x[2] # REQ_REG_FUTURE
        <5>1. k = REQ_REG_CANCELLATION
          BY <4>1, <4>4 DEF REQ_REG_FUTURE, REQ_REG_CANCELLATION
        <5>2. told' = told \ ToldUnder(s, EndsWith(k))
          BY <2>1, <3>2, <4>1, <4>4, <5>1 DEF TakeRequest
        <5>3. REQ_REG_FUTURE \in EndsWith(k)
          BY <5>1 DEF EndsWith
        <5> QED
          BY <5>2, <5>3 DEF ToldUnder
      <4> QED
        BY <4>1, <4>3, <4>4
    <3> QED
      BY <3>4 DEF SubsGrow
  <2>2. CASE TakeUnsubscribe(m)
    <3>1. PICK s, ks : s = m.client /\ ks = EndsWith(m.kind)
      OBVIOUS
    <3>2. subs' = removeSubscriptions(subs, s, ks)
      BY <2>2, <3>1 DEF TakeUnsubscribe
    <3> QED
      BY <3>2, RemoveEffect DEF SubsGrow, Types
  <2>3. CASE subs' = subs
    BY <2>3 DEF SubsGrow
  <2> QED
    BY <1>1, <2>1, <2>2, <2>3 DEF TakeRequest, TakeTaskError, TakeConsume
<1> QED
  BY <1>1, <1>4, <1>5, <1>6, <1>8, <1>9, EndsFrame

\* The search tells of registrations to come about active slots.
LEMMA EndsWalk ==
  ASSUME Types, SlotInv, SlotInv', EndToldInv, ChildWalk
  PROVE  EndToldInv'
<1> DEFINE m == cur[child]
           i == walk.pos
<1>1. /\ pc[child] = "walk" /\ UNCHANGED <<lib, subs, pipe, todo, at, ref, drifted>>
      /\ pc' = pc \/ \E x : pc' = [pc EXCEPT ![child] = x]
      /\ \/ i <= Len(lib) /\ ByReqReg(m) /\ WalkReqReg(m, i)
         \/ i <= Len(lib) /\ ~ByReqReg(m) /\ WalkSearch(m, i)
         \/ told' = told
  BY DEF ChildWalk, dmVars, ChildIdle
<1>2. i \in Nat /\ i # 0 /\ m \in RequestMsg /\ Len(lib) \in Nat /\ Slots = 1..Len(lib)
  BY <1>1, ThreadTypes DEF Types, WalkType, ThreadType, Slots
<1> HIDE DEF m, i
<1>3. SlotsKept /\ InactiveKnown /\ Slots' = Slots
  BY <1>1, SameSlots, KeptInactive DEF Types
<1>4. RetractsKept
  BY <1>1, Threads, OthersRetract
<1>5. SentKept /\ SubsGrow
  BY <1>1 DEF SentKept, SubsGrow
<1>6. m.client \in Client
  BY <1>2, MsgFacts
<1>7. FutureTold
  <2>1. CASE i <= Len(lib) /\ ByReqReg(m) /\ WalkReqReg(m, i)
    <3>1. i \in Slots
      BY <1>2, <2>1
    <3>2. \/ told' = told
          \/ /\ Matches(m.client, i) /\ lib[i].active /\ m.type # "ReqReg"
             /\ told' = told \cup {Report(m.client, m.type, lib[i].comp)}
      BY <2>1 DEF WalkReqReg
    <3>3. m.type # "ReqReg" => m.type \in {REQ_REG_FUTURE, REQ_REG_CANCELLATION}
      BY <2>1 DEF ByReqReg
    <3>4. CASE /\ Matches(m.client, i) /\ lib[i].active /\ m.type # "ReqReg"
               /\ told' = told \cup {Report(m.client, m.type, lib[i].comp)}
      <4>1. PICK x : x = <<m.client, REQ_REG_FUTURE, lib[i].comp>>
        OBVIOUS
      <4>2. Report(m.client, m.type, lib[i].comp) = x
        BY <3>3, <3>4, <4>1, FutureReport
      <4>3. x[1] = m.client /\ x[3] = lib[i].comp
        BY <4>1
      <4>4. NameOf[lib[i].comp] \in Wants[m.client]
        BY <3>1, <3>4 DEF Matches, SlotInv, NamesKept
      <4> QED
        BY <1>1, <1>3, <3>1, <3>4, <4>2, <4>3, <4>4 DEF FutureTold
    <3> QED
      BY <3>2, <3>4 DEF FutureTold
  <2>2. CASE i <= Len(lib) /\ ~ByReqReg(m) /\ WalkSearch(m, i)
    <3>1. PICK x : x = Report(m.client, m.type, lib[i].comp)
      OBVIOUS
    <3>2. told' \subseteq told \cup {x}
      BY <2>2, <3>1 DEF WalkSearch
    <3>3. m.type # REQ_REG_FUTURE /\ m.type # REQ_REG_CANCELLATION
      BY <2>2 DEF ByReqReg
    <3>4. x[2] # REQ_REG_FUTURE
      BY <3>1, <3>3 DEF Report, NOTI_REGISTRATION, NOTI_DEREGISTRATION, REQ_REG_FUTURE
    <3> QED
      BY <3>2, <3>4 DEF FutureTold
  <2>3. CASE told' = told
    BY <2>3 DEF FutureTold
  <2> QED
    BY <1>1, <2>1, <2>2, <2>3
<1> QED
  BY <1>1, <1>3, <1>4, <1>5, <1>7, EndsFrame

\* Every step keeps it.
LEMMA EndToldNext ==
  ASSUME OwnNames, Types, SlotInv, EndToldInv, [Next]_vars
  PROVE  EndToldInv'
<1>1. SlotInv'
  BY SlotInvNext
<1>2. CASE \E c \in App \cup Sensor, t \in XThread : ListenxTEDS(c, t)
  BY <1>1, <1>2, EndsQuiet
<1>3. CASE \E t \in XThread : xTEDSStep(t)
  BY <1>1, <1>3, Threads, EndsQuiet, EndsRegister, EndsPublish DEF xTEDSStep
<1>4. CASE CancelStep
  BY <1>1, <1>4, Threads, EndsQuiet, EndsApply, EndsRelease, EndsPublish DEF CancelStep
<1>5. CASE ChildStep
  <2>1. TaskError /\ ref[child] = 0 => told' = told
    BY DEF TaskError
  <2> QED
    BY <1>1, <1>5, <2>1, Threads, EndsQuiet, EndsTake, EndsWalk, EndsError, EndsPublish
       DEF ChildStep
<1>6. CASE EnvNext
  BY <1>1, <1>6, EndsEnv
<1>7. CASE UNCHANGED vars
  BY <1>1, <1>7, EndsQuiet
<1> QED
  BY <1>2, <1>3, <1>4, <1>5, <1>6, <1>7 DEF Next

\* ToldOfEnds: with names of their own, no client that asked for
\* cancellations too takes the component of an inactive slot for registered,
\* when nothing is being published or searched.
THEOREM DmToldOfEnds ==
  ASSUME OwnNames
  PROVE  Spec => []ToldOfEnds
<1>1. ASSUME EndToldInv PROVE ToldOfEnds
  <2> SUFFICES ASSUME Quiet, ~drifted, NEW j \in DOMAIN subs, NEW i \in Slots, Misled(j, i)
               PROVE  FALSE
    BY DEF ToldOfEnds, Misled, Ends, Inactive
  <2>1. PICK t \in Ender : Retracting(t)
    BY <1>1 DEF EndToldInv, EndsTold, Retracts
  <2> QED
    BY <2>1, Threads DEF Quiet, Retracting, Ender
<1>2. Types /\ SlotInv /\ EndToldInv /\ [Next]_vars => EndToldInv'
  BY EndToldNext
<1>3. Types /\ SlotInv /\ [Next]_vars => SlotInv'
  BY SlotInvNext
<1> QED
  BY TypesAlways, SlotInvInit, EndToldInit, <1>1, <1>2, <1>3, PTL DEF Spec

-----------------------------------------------------------------------------
(* Whose slots are cancelled for good, and whose fail.                     *)

\* A pid names its task; a full cancellation is a PM's, for a task that may be
\* killed, and a failure is of an application that may fail.
SlotTasks == \A i \in Slots : lib[i].pid[1] = lib[i].comp
ThreadTasks ==
  \A t \in XThread : pc[t] \in {"parse", "wait"} => cur[t].pid[1] = cur[t].comp
FullKills == \A m \in Range(cancelQueue) : m.full => m.byPM /\ m.pid[1] \in MayKill
ErrorsFail == \A m \in Range(pipe) : m.type = "TaskError" => m.pid[1] \in MayFail

\* A slot that stays active while its end is published is a sensor's, or is
\* cancelled in full.
EndsOwn ==
  /\ pc["cancel"] = "wait" /\ ref["cancel"] # 0 /\ cur["cancel"].full
       => lib[ref["cancel"]].comp \in MayKill
  /\ pc["cancel"] \in Holds /\ lib[ref["cancel"]].active
       => lib[ref["cancel"]].comp \in MayKill \cup Sensor
\* The slot of a failure stays in use.
FailsOwn ==
  /\ pc[child] \in {"wait", "publish"} /\ ref[child] # 0
       => ~lib[ref[child]].available /\ lib[ref[child]].comp \in MayFail
  /\ pc[child] = "publish" => ~lib[ref[child]].active

OwnInv == /\ SlotTasks /\ ThreadTasks /\ FullKills /\ ErrorsFail
          /\ EndsOwn /\ FailsOwn

LEMMA OwnInit == Init => OwnInv
<1> SUFFICES ASSUME Init PROVE OwnInv
  OBVIOUS
<1>1. /\ lib = <<DmSlot>> /\ cancelQueue = << >> /\ pipe = << >>
      /\ \A t \in Thread : pc[t] = "idle"
  BY DEF Init
<1>2. Slots = {1} /\ lib[1].pid = <<DM, 0>> /\ lib[1].comp = DM
  BY <1>1 DEF Slots, DmSlot
<1>3. Range(cancelQueue) = {} /\ Range(pipe) = {}
  BY <1>1 DEF Range
<1> QED
  BY <1>1, <1>2, <1>3, Threads
     DEF OwnInv, SlotTasks, ThreadTasks, FullKills, ErrorsFail, EndsOwn, FailsOwn, Holds

CancelSame ==
  \/ pc'["cancel"] = "idle"
  \/ /\ pc'["cancel"] = pc["cancel"] /\ cur'["cancel"] = cur["cancel"]
     /\ ref'["cancel"] = ref["cancel"]
  \/ /\ pc["cancel"] \in Holds /\ pc'["cancel"] \in Holds
     /\ ref'["cancel"] = ref["cancel"]
ChildSame ==
  \/ pc'[child] \notin {"wait", "publish"}
  \/ pc'[child] = pc[child] /\ ref'[child] = ref[child]
\* No slot becomes active while addLibrary is held.
Calm == (\E t \in Thread : pc[t] \in Holds)
          => \A i \in Slots : lib'[i].active => lib[i].active

\* Only one that holds addLibrary publishes.
LEMMA LockFree ==
  ASSUME Types, addLibrary > 0
  PROVE  (\A t \in Thread : pc[t] \notin Holds) /\ Calm
BY DEF Types, Lock, Holding, Holds, Calm

\* A thread that moves leaves the others where they are.
LEMMA OthersSame ==
  ASSUME Types, NEW t \in Thread,
         pc' = pc \/ \E x : pc' = [pc EXCEPT ![t] = x],
         cur' = cur \/ \E m : cur' = [cur EXCEPT ![t] = m],
         ref' = ref \/ \E r : ref' = [ref EXCEPT ![t] = r]
  PROVE  \A u \in Thread : u # t => /\ pc'[u] = pc[u] /\ cur'[u] = cur[u]
                                    /\ ref'[u] = ref[u]
<1>1. pc \in [Thread -> Pcs] /\ cur \in [Thread -> Message] /\ ref \in [Thread -> 0..Len(lib)]
  BY DEF Types, ThreadType, RefType
<1> TAKE u \in Thread
<1> HAVE u # t
<1>2. pc'[u] = pc[u]
  BY <1>1
<1>3. cur'[u] = cur[u]
  BY <1>1
<1>4. ref'[u] = ref[u]
  BY <1>1
<1> QED
  BY <1>2, <1>3, <1>4

\* The slots that were found stay as they are.
LEMMA OwnFrame ==
  ASSUME Types, SlotInv, OwnInv, InUseKept, Calm, CancelSame, ChildSame,
         SlotTasks', ThreadTasks', FullKills', ErrorsFail'
  PROVE  OwnInv'
<1>1. \A t \in Thread : ref[t] # 0 => ref[t] \in Slots
  BY DEF Types, RefType, LibType, Slots
<1>2. \A t \in Thread : pc[t] \in Holds => ref[t] # 0
  BY DEF Types, RefType, Holding, Holds
<1>3. "idle" \notin Holds /\ "wait" \notin Holds /\ "publish" \in Holds
  BY DEF Holds
<1>4. EndsOwn'
  <2>1. CASE pc'["cancel"] = "idle"
    BY <1>3, <2>1 DEF EndsOwn
  <2>2. CASE pc'["cancel"] # "idle"
    <3>1. PICK r : r = ref["cancel"]
      OBVIOUS
    <3>2. ref'["cancel"] = r /\ pc["cancel"] # "idle"
      BY <1>3, <2>2, <3>1 DEF CancelSame
    <3>3. r # 0 => r \in Slots /\ lib'[r].comp = lib[r].comp
      BY <1>1, <3>1, <3>2, Threads DEF SlotInv, CancelHolds, Cancels, InUseKept
    <3>4. ASSUME pc'["cancel"] = "wait", r # 0, cur'["cancel"].full
          PROVE  lib'[r].comp \in MayKill
      BY <1>3, <3>1, <3>3, <3>4 DEF CancelSame, OwnInv, EndsOwn
    <3>5. ASSUME pc'["cancel"] \in Holds, lib'[r].active
          PROVE  lib'[r].comp \in MayKill \cup Sensor
      <4>1. pc["cancel"] \in Holds
        BY <2>2, <3>5 DEF CancelSame
      <4>2. r \in Slots /\ lib'[r].comp = lib[r].comp /\ lib[r].active
        BY <1>2, <3>1, <3>3, <3>5, <4>1, Threads DEF Calm
      <4> QED
        BY <3>1, <4>1, <4>2 DEF OwnInv, EndsOwn
    <3> QED
      BY <3>2, <3>4, <3>5 DEF EndsOwn
  <2> QED
    BY <2>1, <2>2
<1>5. FailsOwn'
  <2> SUFFICES ASSUME pc'[child] \in {"wait", "publish"} PROVE FailsOwn'
    BY DEF FailsOwn
  <2>1. PICK r : r = ref[child]
    OBVIOUS
  <2>2. ref'[child] = r /\ pc'[child] = pc[child]
    BY <2>1 DEF ChildSame
  <2>3. r # 0 => /\ r \in Slots /\ ~lib[r].available /\ lib[r].comp \in MayFail
                 /\ ~lib'[r].available /\ lib'[r].comp = lib[r].comp
    BY <1>1, <2>1, <2>2, Threads DEF OwnInv, FailsOwn, InUseKept
  <2>4. pc[child] = "publish" => ~lib'[r].active
    BY <1>2, <1>3, <2>1, <2>3, Threads DEF OwnInv, FailsOwn, Calm
  <2> QED
    BY <2>2, <2>3, <2>4 DEF FailsOwn
<1> QED
  BY <1>4, <1>5 DEF OwnInv

\* Steps that change nothing of a slot but what is posted.
LEMMA OwnQuiet ==
  ASSUME Types, SlotInv, OwnInv, SlotsKept, CancelSame, ChildSame,
         ThreadTasks', FullKills', ErrorsFail'
  PROVE  OwnInv'
<1>1. Slots' = Slots /\ \A i \in Slots : SlotKept(i)
  BY DEF SlotsKept, Types, LibType, Slots
<1>2. InUseKept /\ Calm /\ SlotTasks'
  BY <1>1 DEF SlotKept, InUseKept, Calm, SlotTasks, OwnInv
<1> QED
  BY <1>2, OwnFrame

\* One thread moves.
LEMMA OwnStep ==
  ASSUME Types, OwnInv, NEW t \in Thread,
         pc' = pc \/ \E x : pc' = [pc EXCEPT ![t] = x],
         cur' = cur \/ \E m : cur' = [cur EXCEPT ![t] = m],
         ref' = ref \/ \E r : ref' = [ref EXCEPT ![t] = r],
         t \in XThread /\ pc'[t] \in {"parse", "wait"} => cur'[t].pid[1] = cur'[t].comp
  PROVE  /\ ThreadTasks'
         /\ t # "cancel" => CancelSame
         /\ t # child => ChildSame
<1>1. \A u \in Thread : u # t => pc'[u] = pc[u] /\ cur'[u] = cur[u] /\ ref'[u] = ref[u]
  BY OthersSame
<1>2. ThreadTasks'
  BY <1>1, Threads DEF OwnInv, ThreadTasks
<1> QED
  BY <1>1, <1>2, Threads DEF CancelSame, ChildSame

\* The queues only lose messages.
LEMMA OwnQueues ==
  ASSUME OwnInv
  PROVE  /\ cancelQueue' = cancelQueue => FullKills'
         /\ pipe' = pipe => ErrorsFail'
BY DEF OwnInv, FullKills, ErrorsFail

\* The threads' steps that do not change the registrations.
LEMMA OwnThreads ==
  ASSUME Types, SlotInv, OwnInv,
         \/ \E c \in App \cup Sensor, t \in XThread : ListenxTEDS(c, t)
         \/ \E t \in XThread : Parse(t) \/ xTEDSDone(t)
         \/ \E t \in Thread : Publish(t)
         \/ CancelFinish
         \/ ChildWalk \/ ChildPost \/ Consume \/ TaskErrorDone
         \/ CancelApply /\ ref["cancel"] = 0
         \/ TaskError /\ ref[child] = 0
         \/ UNCHANGED vars
  PROVE  OwnInv'
<1>0. "cancel" \in Thread /\ child \in Thread /\ XThread \subseteq Thread
      /\ child \notin XThread /\ "cancel" \notin XThread /\ child # "cancel"
  BY Threads
<1>1. ASSUME lib' = lib PROVE SlotsKept
  BY <1>1, SameSlots DEF Types
<1>2. /\ pc \in [Thread -> Pcs] /\ cur \in [Thread -> Message]
      /\ ref \in [Thread -> 0..Len(lib)]
  BY DEF Types, ThreadType, RefType
<1>3. ASSUME NEW c \in App \cup Sensor, NEW t \in XThread, ListenxTEDS(c, t)
      PROVE  OwnInv'
  <2> DEFINE m == [type |-> "xTEDS", comp |-> c, pid |-> <<c, starts[c]>>]
  <2>1. /\ pc' = [pc EXCEPT ![t] = "parse"] /\ cur' = [cur EXCEPT ![t] = m]
        /\ UNCHANGED <<lib, cancelQueue, pipe, ref>>
    BY <1>3 DEF ListenxTEDS, dmVars
  <2>2. m.pid[1] = m.comp
    OBVIOUS
  <2> HIDE DEF m
  <2>3. cur'[t] = m
    BY <1>0, <1>2, <2>1
  <2>4. ThreadTasks' /\ CancelSame /\ ChildSame
    BY <1>0, <2>1, <2>2, <2>3, OwnStep
  <2> QED
    BY <1>1, <2>1, <2>4, OwnQueues, OwnQuiet
<1>4. ASSUME NEW t \in XThread, Parse(t) \/ xTEDSDone(t)
      PROVE  OwnInv'
  <2>1. /\ \/ pc[t] = "parse" /\ pc' = [pc EXCEPT ![t] = "wait"] /\ cur' = cur
           \/ pc' = [pc EXCEPT ![t] = "idle"] /\ cur' = [cur EXCEPT ![t] = NoMsg]
        /\ ref' = ref \/ \E r : ref' = [ref EXCEPT ![t] = r]
        /\ UNCHANGED <<lib, cancelQueue, pipe>>
    BY <1>4 DEF Parse, xTEDSDone, dmVars
  <2>2. pc'[t] \in {"parse", "wait"} => cur'[t].pid[1] = cur'[t].comp
    BY <1>0, <1>2, <2>1 DEF OwnInv, ThreadTasks
  <2>3. ThreadTasks' /\ CancelSame /\ ChildSame
    BY <1>0, <2>1, <2>2, OwnStep
  <2> QED
    BY <1>1, <2>1, <2>3, OwnQueues, OwnQuiet
<1>5. ASSUME NEW t \in Thread, Publish(t)
      PROVE  OwnInv'
  <2>1. SlotsKept /\ UNCHANGED <<cancelQueue, pipe, pc, cur, ref>>
    BY <1>5, PublishEffect
  <2>2. ThreadTasks' /\ CancelSame /\ ChildSame
    BY <2>1 DEF OwnInv, ThreadTasks, CancelSame, ChildSame
  <2> QED
    BY <2>1, <2>2, OwnQueues, OwnQuiet
<1>6. CASE CancelFinish \/ (CancelApply /\ ref["cancel"] = 0)
  <2>1. /\ \/ pc["cancel"] = "publish" /\ pc' = [pc EXCEPT !["cancel"] = "finish"] /\ cur' = cur
           \/ pc' = [pc EXCEPT !["cancel"] = "idle"] /\ cur' = [cur EXCEPT !["cancel"] = NoMsg]
        /\ UNCHANGED <<lib, cancelQueue, pipe, ref>>
    BY <1>6 DEF CancelFinish, CancelApply, envVars
  <2>2. CancelSame
    BY <1>0, <1>2, <2>1 DEF CancelSame, Holds
  <2>3. ThreadTasks' /\ ChildSame
    BY <1>0, <2>1, OwnStep
  <2> QED
    BY <1>1, <2>1, <2>2, <2>3, OwnQueues, OwnQuiet
<1>7. CASE ChildWalk \/ Consume \/ TaskErrorDone \/ ChildPost \/ (TaskError /\ ref[child] = 0)
  <2>1. /\ \/ ref' = ref /\ pc' = pc
           \/ ref' = ref /\ pc' = [pc EXCEPT ![child] = "post"]
           \/ /\ ref' = ref \/ \E r : ref' = [ref EXCEPT ![child] = r]
              /\ pc' = [pc EXCEPT ![child] = "idle"]
        /\ cur' = cur \/ \E m : cur' = [cur EXCEPT ![child] = m]
        /\ UNCHANGED <<cancelQueue, pipe>>
    <3>1. CASE ChildWalk
      BY <3>1 DEF ChildWalk, ChildIdle, dmVars
    <3>2. CASE ChildPost
      BY <3>2 DEF ChildPost, ChildIdle
    <3>3. CASE Consume
      BY <3>3 DEF Consume, ChildIdle
    <3>4. CASE TaskErrorDone
      BY <3>4 DEF TaskErrorDone, ChildIdle
    <3>5. CASE TaskError /\ ref[child] = 0
      BY <3>5 DEF TaskError, ChildIdle
    <3> QED
      BY <1>7, <3>1, <3>2, <3>3, <3>4, <3>5
  <2>2. SlotsKept
    <3>1. ~ChildPost => lib' = lib
      BY <1>7 DEF ChildWalk, Consume, TaskErrorDone, TaskError, dmVars
    <3> QED
      BY <1>1, <3>1, ChildPostSlots
  <2>3. ChildSame
    BY <1>0, <1>2, <2>1 DEF ChildSame
  <2>4. ThreadTasks' /\ CancelSame
    BY <1>0, <2>1, OwnStep
  <2> QED
    BY <2>1, <2>2, <2>3, <2>4, OwnQueues, OwnQuiet
<1>8. CASE UNCHANGED vars
  <2>1. UNCHANGED <<lib, cancelQueue, pipe, pc, cur, ref>>
    BY <1>8 DEF vars, dmVars, thVars
  <2>2. ThreadTasks' /\ CancelSame /\ ChildSame
    BY <2>1 DEF OwnInv, ThreadTasks, CancelSame, ChildSame
  <2> QED
    BY <1>1, <2>1, <2>2, OwnQueues, OwnQuiet
<1> QED
  BY <1>3, <1>4, <1>5, <1>6, <1>7, <1>8

\* What the environment sends names its task.
LEMMA OwnEnv ==
  ASSUME Types, SlotInv, OwnInv, EnvNext
  PROVE  OwnInv'
<1>1. ASSUME UNCHANGED <<lib, pc, cur, ref>>, FullKills', ErrorsFail'
      PROVE  OwnInv'
  <2>1. SlotsKept
    BY <1>1, SameSlots DEF Types
  <2>2. ThreadTasks' /\ CancelSame /\ ChildSame
    BY <1>1 DEF OwnInv, ThreadTasks, CancelSame, ChildSame
  <2> QED
    BY <1>1, <2>1, <2>2, OwnQuiet
<1>2. ASSUME NEW c \in App \cup Sensor, Start(c)
      PROVE  OwnInv'
  <2>1. UNCHANGED <<lib, pc, cur, ref, cancelQueue, pipe>>
    BY <1>2 DEF Start, dmVars, thVars
  <2> QED
    BY <1>1, <2>1, OwnQueues
<1>3. ASSUME NEW c, NEW byPM, NEW full, End(c, byPM, full),
             full => byPM /\ c \in MayKill
      PROVE  OwnInv'
  <2> DEFINE m == [type |-> "CancelxTEDS", comp |-> c, pid |-> <<c, starts[c]>>,
                   byPM |-> byPM, full |-> full]
  <2>1. cancelQueue' = Append(cancelQueue, m) /\ UNCHANGED <<lib, pc, cur, ref, pipe>>
    BY <1>3 DEF End, thVars
  <2>2. m.full => m.byPM /\ m.pid[1] \in MayKill
    BY <1>3
  <2> HIDE DEF m
  <2>3. FullKills'
    BY <2>1, <2>2, QueueSent DEF OwnInv, FullKills
  <2> QED
    BY <1>1, <2>1, <2>3, OwnQueues
<1>4. ASSUME NEW c \in App \cup Sensor, Exit(c) \/ Unplug(c) \/ Kill(c)
      PROVE  OwnInv'
  BY <1>3, <1>4 DEF Exit, Unplug, Kill
<1>5. ASSUME NEW c \in App \cup Sensor, Error(c)
      PROVE  OwnInv'
  <2> DEFINE m == [type |-> "TaskError", comp |-> c, pid |-> <<c, starts[c]>>]
  <2>1. /\ pipe' = Append(pipe, m) /\ c \in MayFail
        /\ UNCHANGED <<lib, pc, cur, ref, cancelQueue>>
    BY <1>5 DEF Error, thVars
  <2>2. m.pid[1] = c
    OBVIOUS
  <2> HIDE DEF m
  <2>3. ErrorsFail'
    BY <2>1, <2>2, PipeSent DEF OwnInv, ErrorsFail
  <2> QED
    BY <1>1, <2>1, <2>3, OwnQueues
<1>6. ASSUME NEW m, Send(m), m.type # "TaskError"
      PROVE  OwnInv'
  <2>1. pipe' = Append(pipe, m) /\ UNCHANGED <<lib, pc, cur, ref, cancelQueue>>
    BY <1>6 DEF Send, thVars
  <2>2. ErrorsFail'
    BY <1>6, <2>1, PipeSent DEF OwnInv, ErrorsFail
  <2> QED
    BY <1>1, <2>1, <2>2, OwnQueues
<1>7. ASSUME ForeignCancel
      PROVE  OwnInv'
  <2> DEFINE m == [type |-> "CancelxTEDS", comp |-> DM, pid |-> <<DM, 0>>,
                   byPM |-> FALSE, full |-> FALSE]
  <2>1. cancelQueue' = Append(cancelQueue, m) /\ UNCHANGED <<lib, pc, cur, ref, pipe>>
    BY <1>7 DEF ForeignCancel, thVars
  <2>2. ~m.full
    OBVIOUS
  <2> HIDE DEF m
  <2>3. FullKills'
    BY <2>1, <2>2, QueueSent DEF OwnInv, FullKills
  <2> QED
    BY <1>1, <2>1, <2>3, OwnQueues
<1> QED
  BY <1>2, <1>4, <1>5, <1>6, <1>7, RequestsQuiet DEF EnvNext

\* A registration is not at work while anything is published.
LEMMA OwnRegister ==
  ASSUME OwnNames, Types, SlotInv, OwnInv, NEW t \in XThread, RegisterxTEDS(t)
  PROVE  OwnInv'
<1> DEFINE c == cur[t].comp
<1>1. /\ c \in Comp /\ LibType' /\ addLibrary > 0
      /\ pc' = [pc EXCEPT ![t] = "idle"] \/ pc' = [pc EXCEPT ![t] = "publish"]
      /\ cur' = cur \/ \E m : cur' = [cur EXCEPT ![t] = m]
      /\ ref' = ref \/ \E r : ref' = [ref EXCEPT ![t] = r]
      /\ UNCHANGED <<cancelQueue, pipe>> /\ pc[t] = "wait"
  BY RegisterEffect DEF RegisterxTEDS, Wait, WaitAndSignal
<1>2. /\ t \in Thread /\ t # "cancel" /\ t # child /\ pc \in [Thread -> Pcs]
  BY Threads DEF Types, ThreadType
<1>3. Calm
  BY <1>1, LockFree
<1>4. ThreadTasks' /\ CancelSame /\ ChildSame
  <2>1. pc'[t] \notin {"parse", "wait"}
    BY <1>1, <1>2
  <2> QED
    BY <1>1, <1>2, <2>1, OwnStep
<1>5. PICK r \in Nat \ {0} :
        \/ lib' = lib
        \/ /\ r \in Slots
           /\ ~lib[r].available /\ lib[r].name = NameOf[c]
           /\ lib'[r].available = FALSE
           /\ lib'[r].comp = c /\ lib'[r].pid = cur[t].pid
           /\ Len(lib') = Len(lib) /\ \A j \in Slots : j # r => lib'[j] = lib[j]
        \/ /\ r \in 1..(Len(lib) + 1) /\ (r \in Slots => lib[r].available)
           /\ lib'[r].comp = c /\ lib'[r].pid = cur[t].pid
           /\ Len(lib') = IF r \in Slots THEN Len(lib) ELSE Len(lib) + 1
           /\ \A j \in Slots : j # r => lib'[j] = lib[j]
  BY RegisterEffect
<1>6. Len(lib) \in Nat /\ Slots = 1..Len(lib) /\ Slots' = 1..Len(lib')
  BY <1>1 DEF Types, LibType, Slots
<1>7. cur[t].pid[1] = c
  BY <1>1 DEF OwnInv, ThreadTasks
<1>8. \A j \in Slots : lib[j].comp \in Comp /\ lib[j].name = NameOf[lib[j].comp]
  BY SlotComp DEF Types, SlotInv, NamesKept
<1>9. SlotTasks
  BY DEF OwnInv
<1> HIDE DEF c
<1>10. InUseKept /\ SlotTasks'
  <2>1. CASE lib' = lib
    BY <1>9, <2>1 DEF InUseKept, SlotTasks, Slots
  <2>2. CASE /\ r \in Slots
             /\ ~lib[r].available /\ lib[r].name = NameOf[c]
             /\ lib'[r].available = FALSE
             /\ lib'[r].comp = c /\ lib'[r].pid = cur[t].pid
             /\ Len(lib') = Len(lib) /\ \A j \in Slots : j # r => lib'[j] = lib[j]
    <3>1. lib[r].comp = c
      BY <1>1, <1>8, <2>2 DEF OwnNames
    <3>2. Slots' = Slots
      BY <1>6, <2>2
    <3> QED
      BY <1>7, <1>9, <2>2, <3>1, <3>2 DEF InUseKept, SlotTasks
  <2>3. CASE /\ r \in 1..(Len(lib) + 1) /\ (r \in Slots => lib[r].available)
             /\ lib'[r].comp = c /\ lib'[r].pid = cur[t].pid
             /\ Len(lib') = IF r \in Slots THEN Len(lib) ELSE Len(lib) + 1
             /\ \A j \in Slots : j # r => lib'[j] = lib[j]
    <3>1. Slots' \subseteq Slots \cup {r}
      <4>1. CASE r \in Slots
        BY <1>6, <2>3, <4>1
      <4>2. CASE r \notin Slots
        BY <1>6, <2>3, <4>2
      <4> QED
        BY <4>1, <4>2
    <3>2. lib'[r].pid[1] = lib'[r].comp
      BY <1>7, <2>3
    <3> QED
      BY <1>9, <2>3, <3>1, <3>2 DEF InUseKept, SlotTasks
  <2> QED
    BY <1>5, <2>1, <2>2, <2>3
<1> QED
  BY <1>1, <1>3, <1>4, <1>10, OwnQueues, OwnFrame

\* A cancellation finds the slot of the task, or of the sender.
LEMMA OwnCancelFind ==
  ASSUME Types, SlotInv, OwnInv, CancelFind
  PROVE  OwnInv'
<1> DEFINE m == Head(cancelQueue)
           r == CancelTarget(m)
<1>1. /\ cancelQueue # << >> /\ cancelQueue' = Tail(cancelQueue)
      /\ cur' = [cur EXCEPT !["cancel"] = m] /\ ref' = [ref EXCEPT !["cancel"] = r]
      /\ pc' = [pc EXCEPT !["cancel"] = "wait"]
      /\ UNCHANGED <<lib, pipe>>
  BY DEF CancelFind
<1>2. Range(cancelQueue) = Range(cancelQueue') \cup {m} /\ m \in CancelMsg
  BY <1>1, RangeTail DEF Types, QueueType
<1>3. r = 0 \/ (r \in Slots /\ (m.byPM => lib[r].pid = m.pid))
  BY FindTarget DEF Types
<1> HIDE DEF m, r
<1>4. pc'["cancel"] = "wait" /\ cur'["cancel"] = m /\ ref'["cancel"] = r
  <2>1. pc \in [Thread -> Pcs] /\ cur \in [Thread -> Message] /\ ref \in [Thread -> 0..Len(lib)]
    BY DEF Types, ThreadType, RefType
  <2> QED
    BY <1>1, <2>1, Threads
<1>5. \A u \in Thread : u # "cancel" =>
        pc'[u] = pc[u] /\ cur'[u] = cur[u] /\ ref'[u] = ref[u]
  BY <1>1, Threads, OthersSame
<1>6. FullKills' /\ ErrorsFail' /\ SlotTasks' /\ ThreadTasks'
  BY <1>1, <1>2, <1>5, Threads
     DEF OwnInv, FullKills, ErrorsFail, SlotTasks, ThreadTasks, Slots
<1>7. EndsOwn'
  <2>1. ASSUME r # 0, m.full PROVE lib[r].comp \in MayKill
    <3>1. m.byPM /\ m.pid[1] \in MayKill
      BY <1>2, <2>1 DEF OwnInv, FullKills
    <3> QED
      BY <1>3, <2>1, <3>1 DEF OwnInv, SlotTasks
  <2> QED
    BY <1>1, <1>4, <2>1 DEF EndsOwn, Holds
<1>8. FailsOwn'
  BY <1>1, <1>5, Threads DEF OwnInv, FailsOwn
<1> QED
  BY <1>6, <1>7, <1>8 DEF OwnInv

\* A cancellation that is not in full makes an application's slot inactive.
LEMMA OwnCancelApply ==
  ASSUME Types, SlotInv, OwnInv, CancelApply, ref["cancel"] # 0
  PROVE  OwnInv'
<1>1. PICK r, full : r = ref["cancel"] /\ full = cur["cancel"].full
  OBVIOUS
<1>2. /\ pc["cancel"] = "wait" /\ addLibrary > 0
      /\ lib' = Deactivate(ref["cancel"], cur["cancel"].full)
      /\ pc' = [pc EXCEPT !["cancel"] = "publish"]
      /\ UNCHANGED <<cur, ref, cancelQueue, pipe>>
  BY DEF CancelApply, Wait
<1>3. /\ r \in Slots /\ LibType' /\ Len(lib') = Len(lib)
      /\ \A j \in Slots : j # r => lib'[j] = lib[j]
      /\ lib'[r].available = lib[r].available
      /\ lib'[r].comp = lib[r].comp /\ lib'[r].pid = lib[r].pid
      /\ lib[r].comp \notin Sensor => lib'[r].active = full
  BY <1>1, <1>2, CancelEffect
<1>4. Slots' = Slots
  BY <1>3 DEF Types, LibType, Slots
<1>5. pc'["cancel"] = "publish" /\ ref'["cancel"] = r
  BY <1>1, <1>2, Threads DEF Types, ThreadType
<1>6. \A u \in Thread : u # "cancel" =>
        pc'[u] = pc[u] /\ cur'[u] = cur[u] /\ ref'[u] = ref[u]
  BY <1>2, Threads, OthersSame
<1>7. SlotTasks' /\ ThreadTasks' /\ FullKills' /\ ErrorsFail'
  BY <1>2, <1>3, <1>4, <1>6, Threads
     DEF OwnInv, SlotTasks, ThreadTasks, FullKills, ErrorsFail
<1>8. EndsOwn'
  <2>1. lib'[r].active => lib'[r].comp \in MayKill \cup Sensor
    BY <1>1, <1>2, <1>3 DEF OwnInv, EndsOwn
  <2> QED
    BY <1>5, <2>1 DEF EndsOwn
<1>9. FailsOwn'
  <2>1. pc[child] # "publish"
    BY <1>2, LockFree, Threads DEF Holds
  <2>2. pc'[child] = pc[child] /\ ref'[child] = ref[child]
    BY <1>6, Threads
  <2>3. ref[child] # 0 => ref[child] \in Slots
    BY Threads DEF Types, RefType, LibType, Slots
  <2> QED
    BY <1>3, <2>1, <2>2, <2>3 DEF OwnInv, FailsOwn
<1> QED
  BY <1>7, <1>8, <1>9 DEF OwnInv

\* The slot that is given back may have been killed for good, or is a
\* sensor's: it is not one whose failure is being dealt with.
LEMMA OwnCancelRelease ==
  ASSUME MayKill \cap MayFail = {}, Types, SlotInv, OwnInv, CancelRelease
  PROVE  OwnInv'
<1>1. PICK r : r = ref["cancel"]
  OBVIOUS
<1>2. /\ pc["cancel"] = "finish" /\ lib' = Release(ref["cancel"])
      /\ pc' = [pc EXCEPT !["cancel"] = "idle"]
      /\ cur' = [cur EXCEPT !["cancel"] = NoMsg] /\ ref' = [ref EXCEPT !["cancel"] = 0]
      /\ UNCHANGED <<cancelQueue, pipe>>
  BY DEF CancelRelease
<1>3. /\ r \in Slots /\ LibType' /\ Len(lib') = Len(lib)
      /\ \/ lib' = lib
         \/ /\ \A j \in Slots : j # r => lib'[j] = lib[j]
            /\ lib[r].active /\ lib'[r].active = FALSE
            /\ lib'[r].comp = lib[r].comp /\ lib'[r].pid = lib[r].pid
  BY <1>1, <1>2, ReleaseEffect
<1>4. Slots' = Slots
  BY <1>3 DEF Types, LibType, Slots
<1>5. pc'["cancel"] = "idle"
  BY <1>2, Threads DEF Types, ThreadType
<1>6. \A u \in Thread : u # "cancel" =>
        pc'[u] = pc[u] /\ cur'[u] = cur[u] /\ ref'[u] = ref[u]
  BY <1>2, Threads, OthersSame
<1>7. SlotTasks' /\ ThreadTasks' /\ FullKills' /\ ErrorsFail'
  BY <1>2, <1>3, <1>4, <1>6, Threads
     DEF OwnInv, SlotTasks, ThreadTasks, FullKills, ErrorsFail
<1>8. EndsOwn'
  BY <1>5 DEF EndsOwn, Holds
<1>9. FailsOwn'
  <2>1. pc'[child] = pc[child] /\ ref'[child] = ref[child]
    BY <1>6, Threads
  <2>2. ref[child] # 0 => ref[child] \in Slots
    BY Threads DEF Types, RefType, LibType, Slots
  <2>3. pc[child] # "publish"
    <3>1. pc["cancel"] \in Holds /\ "publish" \in Holds
      BY <1>2 DEF Holds
    <3> QED
      BY <3>1, Threads DEF Types, Lock, Holding, Holds
  <2>4. lib[r].active => lib[r].comp \notin MayFail
    <3>1. lib[r].active => lib[r].comp \in MayKill \cup Sensor
      BY <1>1, <1>2 DEF OwnInv, EndsOwn, Holds
    <3> QED
      BY <3>1, DmCompAssumption, DmBoundsAssumption
  <2> QED
    BY <1>3, <2>1, <2>2, <2>3, <2>4 DEF OwnInv, FailsOwn
<1> QED
  BY <1>7, <1>8, <1>9 DEF OwnInv

\* The child finds the slot of the task that failed.
LEMMA OwnTake ==
  ASSUME Types, SlotInv, OwnInv, ChildTake
  PROVE  OwnInv'
<1> DEFINE m == Head(pipe)
<1>1. /\ pc[child] = "idle" /\ pipe # << >> /\ pipe' = Tail(pipe)
      /\ UNCHANGED <<lib, cancelQueue>>
      /\ TakeRequest(m) \/ TakeUnsubscribe(m) \/ TakeTaskError(m) \/ TakeConsume(m)
  BY DEF ChildTake
<1>2. Range(pipe) = Range(pipe') \cup {m}
  BY <1>1, RangeTail DEF Types, QueueType
<1> HIDE DEF m
<1>3. /\ pc' = pc \/ \E x : pc' = [pc EXCEPT ![child] = x]
      /\ cur' = cur \/ \E x : cur' = [cur EXCEPT ![child] = x]
      /\ ref' = ref \/ \E x : ref' = [ref EXCEPT ![child] = x]
  BY <1>1 DEF TakeRequest, TakeUnsubscribe, TakeTaskError, TakeConsume
<1>4. ThreadTasks' /\ CancelSame
  BY <1>3, Threads, OwnStep
<1>5. FullKills' /\ ErrorsFail'
  BY <1>1, <1>2 DEF OwnInv, FullKills, ErrorsFail
<1>6. SlotsKept
  BY <1>1, SameSlots DEF Types
<1>7. pc \in [Thread -> Pcs] /\ ref \in [Thread -> 0..Len(lib)] /\ child \in Thread
  BY Threads DEF Types, ThreadType, RefType
<1>8. CASE ~TakeTaskError(m)
  <2>1. pc'[child] \notin {"wait", "publish"}
    BY <1>1, <1>7, <1>8 DEF TakeRequest, TakeUnsubscribe, TakeConsume
  <2> QED
    BY <1>4, <1>5, <1>6, <2>1, OwnQuiet DEF ChildSame
<1>9. CASE TakeTaskError(m)
  <2>1. PICK r : r = ErrorTarget(m)
    OBVIOUS
  <2>2. pc'[child] = "wait" /\ ref'[child] = r /\ m.type = "TaskError"
    BY <1>7, <1>9, <2>1 DEF TakeTaskError
  <2>3. r = 0 \/ (r \in Slots /\ ~lib[r].available /\ lib[r].pid = m.pid)
    BY <2>1, FindTarget DEF Types
  <2>4. r # 0 => lib[r].comp \in MayFail
    BY <1>2, <2>2, <2>3 DEF OwnInv, ErrorsFail, SlotTasks
  <2>5. FailsOwn'
    BY <1>1, <2>2, <2>3, <2>4 DEF FailsOwn
  <2>6. pc'["cancel"] = pc["cancel"] /\ cur'["cancel"] = cur["cancel"]
        /\ ref'["cancel"] = ref["cancel"]
    BY <1>3, Threads, OthersSame
  <2>7. EndsOwn' /\ SlotTasks'
    BY <1>1, <2>6 DEF OwnInv, EndsOwn, SlotTasks, Slots
  <2> QED
    BY <1>4, <1>5, <2>5, <2>7 DEF OwnInv
<1> QED
  BY <1>8, <1>9

\* A failure makes its slot inactive.
LEMMA OwnTaskError ==
  ASSUME Types, SlotInv, OwnInv, TaskError, ref[child] # 0
  PROVE  OwnInv'
<1>1. PICK r : r = ref[child]
  OBVIOUS
<1>2. /\ pc[child] = "wait" /\ addLibrary > 0 /\ lib' = Fail(ref[child])
      /\ pc' = [pc EXCEPT ![child] = "publish"]
      /\ UNCHANGED <<cur, ref, cancelQueue, pipe>>
  BY DEF TaskError, Wait
<1>3. /\ r \in Slots /\ LibType' /\ Len(lib') = Len(lib)
      /\ \A j \in Slots : j # r => lib'[j] = lib[j]
      /\ lib'[r].available = lib[r].available /\ lib'[r].active = FALSE
      /\ lib'[r].comp = lib[r].comp /\ lib'[r].pid = lib[r].pid
  BY <1>1, <1>2, FailEffect
<1>4. Slots' = Slots
  BY <1>3 DEF Types, LibType, Slots
<1>5. pc'[child] = "publish" /\ ref'[child] = r
  BY <1>1, <1>2, Threads DEF Types, ThreadType
<1>6. \A u \in Thread : u # child =>
        pc'[u] = pc[u] /\ cur'[u] = cur[u] /\ ref'[u] = ref[u]
  BY <1>2, Threads, OthersSame
<1>7. SlotTasks' /\ ThreadTasks' /\ FullKills' /\ ErrorsFail'
  BY <1>2, <1>3, <1>4, <1>6, Threads
     DEF OwnInv, SlotTasks, ThreadTasks, FullKills, ErrorsFail
<1>8. FailsOwn'
  BY <1>1, <1>2, <1>3, <1>5 DEF OwnInv, FailsOwn
<1>9. EndsOwn'
  <2>1. /\ pc'["cancel"] = pc["cancel"] /\ cur'["cancel"] = cur["cancel"]
        /\ ref'["cancel"] = ref["cancel"]
    BY <1>6, Threads
  <2>2. pc["cancel"] \notin Holds
    BY <1>2, LockFree, Threads
  <2>3. ref["cancel"] # 0 => ref["cancel"] \in Slots
    BY Threads DEF Types, RefType, LibType, Slots
  <2>4. ref["cancel"] # 0 => lib'[ref["cancel"]].comp = lib[ref["cancel"]].comp
    BY <1>3, <2>3
  <2> QED
    BY <2>1, <2>2, <2>4 DEF OwnInv, EndsOwn
<1> QED
  BY <1>7, <1>8, <1>9 DEF OwnInv

\* Every step keeps it, when what may be killed does not fail.
LEMMA OwnInvNext ==
  ASSUME OwnNames, MayKill \cap MayFail = {}, Types, SlotInv, OwnInv, [Next]_vars
  PROVE  OwnInv'
<1>1. CASE \E c \in App \cup Sensor, t \in XThread : ListenxTEDS(c, t)
  BY <1>1, OwnThreads
<1>2. CASE \E t \in XThread : xTEDSStep(t)
  BY <1>2, Threads, OwnThreads, OwnRegister DEF xTEDSStep
<1>3. CASE CancelStep
  BY <1>3, Threads, OwnThreads, OwnCancelFind, OwnCancelApply, OwnCancelRelease
     DEF CancelStep
<1>4. CASE ChildStep
  BY <1>4, Threads, OwnThreads, OwnTake, OwnTaskError DEF ChildStep
<1>5. CASE EnvNext
  BY <1>5, OwnEnv
<1>6. CASE UNCHANGED vars
  BY <1>6, OwnThreads
<1> QED
  BY <1>1, <1>2, <1>3, <1>4, <1>5, <1>6 DEF Next

-----------------------------------------------------------------------------
(* Who is told of the registrations.                                       *)

\* Notifications are published from the start of the list.
FromStart ==
  \A t \in XThread : /\ pc[t] = "publish" /\ todo[t] # << >>
                     /\ Head(todo[t]) \in NotiKinds
                     => at[t] = 1

\* Subscription j is to registrations like that in slot i.
Claims(j, i) ==
  /\ subs[j].inuse /\ lib[i].active
  /\ subs[j].mid \in {REQ_REG_FUTURE, SEARCH_REPLY, VAR_REQ_REPLY}
       => lib[i].name \in Wants[subs[j].dest]
  /\ subs[j].mid = REQ_REG_FUTURE => ~drifted
  /\ subs[j].mid \notin {REQ_REG_CANCELLATION, NOTI_DEREGISTRATION}

\* Its client has been told of slot i, or will be by the publication of the
\* registration or by the client's search, or the slot is about to go.
Reported(j, i) == Report(subs[j].dest, subs[j].mid, lib[i].comp) \in told
Publishes(t, j) == /\ pc[t] = "publish" /\ subs[j].mid \in Range(todo[t])
                   /\ Head(todo[t]) = subs[j].mid => at[t] <= j
Publishing(j, i) == \E t \in XThread : ref[t] = i /\ Publishes(t, j)
SearchedFor(j) ==
  /\ cur[child].client = subs[j].dest
  /\ \/ cur[child].type = subs[j].mid
     \/ cur[child].type = REQ_REG_CANCELLATION /\ subs[j].mid = REQ_REG_FUTURE
Walking(j, i) == pc[child] = "walk" /\ SearchedFor(j) /\ walk.pos <= i
Withdrawn(i) == pc["cancel"] \in Holds /\ ref["cancel"] = i
Accounted(j, i) ==
  Reported(j, i) \/ Publishing(j, i) \/ Walking(j, i) \/ Withdrawn(i)

AllTold == \A j \in DOMAIN subs, i \in Slots : Claims(j, i) => Accounted(j, i)
AllToldInv == FromStart /\ AllTold

LEMMA AllToldInit == Init => AllToldInv
<1> SUFFICES ASSUME Init PROVE AllToldInv
  OBVIOUS
<1>1. subs = << >> /\ \A t \in Thread : pc[t] = "idle"
  BY DEF Init
<1> QED
  BY <1>1, Threads DEF AllToldInv, FromStart, AllTold

\* A publication under way leaves notifications at the start.
LEMMA FromStartKept ==
  ASSUME FromStart,
         \A t \in XThread : pc'[t] = "publish" =>
           \/ pc[t] = "publish" /\ todo'[t] = todo[t] /\ at'[t] = at[t]
           \/ at'[t] = 1
  PROVE  FromStart'
BY DEF FromStart

\* The subscription and the slot have not changed.
Same(j, i) ==
  /\ j \in DOMAIN subs /\ subs'[j] = subs[j]
  /\ i \in Slots /\ lib[i].active
  /\ lib'[i].comp = lib[i].comp /\ lib'[i].name = lib[i].name

LEMMA AccountedBefore ==
  ASSUME AllTold, drifted => drifted', NEW j, NEW i, Claims(j, i)', Same(j, i)
  PROVE  Claims(j, i) /\ Accounted(j, i)
BY DEF AllTold, Claims, Same

PublishersKept ==
  \A t \in XThread : pc[t] = "publish" /\ todo[t] # << >> =>
    /\ pc'[t] = pc[t] /\ todo'[t] = todo[t] /\ at'[t] = at[t] /\ ref'[t] = ref[t]
WalkerKept == pc[child] = "walk" =>
                pc'[child] = "walk" /\ cur'[child] = cur[child] /\ walk' = walk
WithdrawnKept == pc["cancel"] \in Holds =>
                   pc'["cancel"] \in Holds /\ ref'["cancel"] = ref["cancel"]

\* What a step keeps for a subscription and a slot that have not changed.
LEMMA AccountedKept ==
  ASSUME Types, NEW j, NEW i, Same(j, i)
  PROVE  /\ Reported(j, i) /\ told \subseteq told' => Reported(j, i)'
         /\ Publishing(j, i) /\ PublishersKept => Publishing(j, i)'
         /\ Walking(j, i) /\ WalkerKept => Walking(j, i)'
         /\ Withdrawn(i) /\ WithdrawnKept => Withdrawn(i)'
<1>1. Reported(j, i) /\ told \subseteq told' => Reported(j, i)'
  BY DEF Reported, Same
<1>2. ASSUME Publishing(j, i), PublishersKept PROVE Publishing(j, i)'
  <2>1. PICK t \in XThread : ref[t] = i /\ Publishes(t, j)
    BY <1>2 DEF Publishing
  <2>2. todo[t] # << >>
    BY <2>1 DEF Publishes, Range
  <2>3. ref'[t] = i /\ Publishes(t, j)'
    BY <1>2, <2>1, <2>2 DEF Publishes, PublishersKept, Same
  <2> QED
    BY <2>3 DEF Publishing
<1>3. Walking(j, i) /\ WalkerKept => Walking(j, i)'
  BY DEF Walking, WalkerKept, SearchedFor, Same
<1>4. Withdrawn(i) /\ WithdrawnKept => Withdrawn(i)'
  BY DEF Withdrawn, WithdrawnKept
<1> QED
  BY <1>1, <1>2, <1>3, <1>4

\* Steps that tell nobody less and change neither the subscriptions nor the
\* registrations.
LEMMA AllFrame ==
  ASSUME Types, AllTold, drifted => drifted', told \subseteq told',
         PublishersKept, WalkerKept, WithdrawnKept, SlotsKept, subs' = subs
  PROVE  AllTold'
<1>1. Slots' = Slots /\ \A i \in Slots : SlotKept(i)
  BY DEF SlotsKept, Types, LibType, Slots
<1> SUFFICES ASSUME NEW j \in DOMAIN subs', NEW i \in Slots', Claims(j, i)'
             PROVE  Accounted(j, i)'
  BY DEF AllTold
<1>2. Same(j, i)
  BY <1>1 DEF Same, Claims, SlotKept
<1> QED
  BY <1>2, AccountedBefore, AccountedKept DEF Accounted

\* A thread that is not publishing, searching or withdrawing moves.
LEMMA OthersAccount ==
  ASSUME Types, NEW t \in Thread,
         t \in XThread => pc[t] # "publish" \/ todo[t] = << >>,
         t = child => pc[t] # "walk", t = "cancel" => pc[t] \notin Holds,
         pc' = pc \/ \E x : pc' = [pc EXCEPT ![t] = x],
         cur' = cur \/ \E x : cur' = [cur EXCEPT ![t] = x],
         todo' = todo \/ \E x : todo' = [todo EXCEPT ![t] = x],
         at' = at \/ \E x : at' = [at EXCEPT ![t] = x],
         ref' = ref \/ \E x : ref' = [ref EXCEPT ![t] = x],
         t # child => walk' = walk
  PROVE  PublishersKept /\ WalkerKept /\ WithdrawnKept
<1>1. \A u \in Thread : u # t => pc'[u] = pc[u] /\ cur'[u] = cur[u] /\ ref'[u] = ref[u]
  BY OthersSame
<1>2. \A u \in Thread : u # t => todo'[u] = todo[u] /\ at'[u] = at[u]
  <2>1. todo \in [Thread -> Seq(AllKinds)] /\ at \in [Thread -> Nat \ {0}]
    BY DEF Types, ThreadType
  <2> TAKE u \in Thread
  <2> HAVE u # t
  <2>2. todo'[u] = todo[u]
    BY <2>1
  <2>3. at'[u] = at[u]
    BY <2>1
  <2> QED
    BY <2>2, <2>3
<1>3. PublishersKept
  BY <1>1, <1>2, Threads DEF PublishersKept
<1>4. WalkerKept /\ WithdrawnKept
  BY <1>1, Threads DEF WalkerKept, WithdrawnKept
<1> QED
  BY <1>3, <1>4

\* Such a move, when nothing else of the registry changes.
LEMMA AllStill ==
  ASSUME Types, AllToldInv, NEW t \in Thread,
         t = child => pc[t] # "walk", t = "cancel" => pc[t] \notin Holds,
         t \in XThread => /\ pc[t] # "publish" \/ todo[t] = << >>
                          /\ pc'[t] # "publish",
         pc' = pc \/ \E x : pc' = [pc EXCEPT ![t] = x],
         cur' = cur \/ \E x : cur' = [cur EXCEPT ![t] = x],
         ref' = ref \/ \E x : ref' = [ref EXCEPT ![t] = x],
         UNCHANGED <<todo, at, subs, told, drifted>>,
         t # child => walk' = walk, SlotsKept
  PROVE  AllToldInv'
<1>1. PublishersKept /\ WalkerKept /\ WithdrawnKept
  BY OthersAccount
<1>2. \A u \in Thread : u # t => pc'[u] = pc[u]
  BY OthersSame
<1>3. FromStart'
  BY <1>2, Threads, FromStartKept DEF AllToldInv
<1> QED
  BY <1>1, <1>3, AllFrame DEF AllToldInv

\* Most steps are of that kind.
LEMMA AllQuiet ==
  ASSUME Types, AllToldInv,
         \/ \E c \in App \cup Sensor, t \in XThread : ListenxTEDS(c, t)
         \/ \E t \in XThread : Parse(t) \/ xTEDSDone(t)
         \/ CancelFind \/ CancelFinish
         \/ ChildPost \/ Consume \/ TaskErrorDone
         \/ CancelApply /\ ref["cancel"] = 0
         \/ TaskError /\ ref[child] = 0
         \/ EnvNext
         \/ UNCHANGED vars
  PROVE  AllToldInv'
<1>0. /\ "cancel" \in Thread /\ child \in Thread /\ XThread \subseteq Thread
      /\ child \notin XThread /\ "cancel" \notin XThread /\ child # "cancel"
  BY Threads
<1>1. ASSUME lib' = lib PROVE SlotsKept
  BY <1>1, SameSlots DEF Types
<1>2. pc \in [Thread -> Pcs]
  BY DEF Types, ThreadType
<1>3. ASSUME NEW t \in XThread, (\E c \in App \cup Sensor : ListenxTEDS(c, t)) \/ Parse(t)
                                \/ xTEDSDone(t)
      PROVE  AllToldInv'
  <2>1. /\ pc[t] # "publish" \/ todo[t] = << >>
        /\ \/ pc' = [pc EXCEPT ![t] = "parse"] \/ pc' = [pc EXCEPT ![t] = "wait"]
           \/ pc' = [pc EXCEPT ![t] = "idle"]
        /\ cur' = cur \/ \E x : cur' = [cur EXCEPT ![t] = x]
        /\ ref' = ref \/ \E x : ref' = [ref EXCEPT ![t] = x]
        /\ UNCHANGED <<lib, todo, at, subs, told, drifted, walk>>
    <3>1. ASSUME NEW c, ListenxTEDS(c, t)
          PROVE  /\ pc[t] = "idle" /\ pc' = [pc EXCEPT ![t] = "parse"]
                 /\ \E x : cur' = [cur EXCEPT ![t] = x]
                 /\ ref' = ref
                 /\ UNCHANGED <<lib, todo, at, subs, told, drifted, walk>>
      BY <3>1 DEF ListenxTEDS, dmVars, envVars
    <3>2. CASE Parse(t)
      BY <3>2 DEF Parse, dmVars, envVars
    <3>3. CASE xTEDSDone(t)
      BY <3>3 DEF xTEDSDone, envVars
    <3> QED
      BY <1>3, <3>1, <3>2, <3>3
  <2>2. pc'[t] # "publish"
    BY <1>0, <1>2, <2>1
  <2> QED
    BY <1>0, <1>1, <2>1, <2>2, AllStill
<1>4. CASE CancelFind \/ (CancelApply /\ ref["cancel"] = 0)
  <2>1. /\ pc["cancel"] \in {"idle", "wait"} /\ \E x : pc' = [pc EXCEPT !["cancel"] = x]
        /\ \E x : cur' = [cur EXCEPT !["cancel"] = x]
        /\ ref' = ref \/ \E x : ref' = [ref EXCEPT !["cancel"] = x]
        /\ UNCHANGED <<lib, todo, at, subs, told, drifted, walk>>
    BY <1>4 DEF CancelFind, CancelApply, envVars
  <2>2. pc["cancel"] \notin Holds
    BY <2>1 DEF Holds
  <2> QED
    BY <1>0, <1>1, <2>1, <2>2, AllStill
<1>5. CASE CancelFinish
  <2>1. /\ pc' = [pc EXCEPT !["cancel"] = "finish"]
        /\ UNCHANGED <<lib, subs, cur, ref, todo, at, walk, told, drifted>>
    BY <1>5 DEF CancelFinish
  <2>2. pc'["cancel"] = "finish" /\ \A u \in Thread : u # "cancel" => pc'[u] = pc[u]
    BY <1>0, <1>2, <2>1
  <2>3. PublishersKept /\ WalkerKept /\ WithdrawnKept
    BY <1>0, <2>1, <2>2 DEF PublishersKept, WalkerKept, WithdrawnKept, Holds
  <2>4. FromStart'
    BY <1>0, <2>1, <2>2, FromStartKept DEF AllToldInv
  <2> QED
    BY <1>1, <2>1, <2>3, <2>4, AllFrame DEF AllToldInv
<1>6. CASE ChildPost \/ Consume \/ TaskErrorDone \/ (TaskError /\ ref[child] = 0)
  <2>1. /\ pc[child] # "walk"
        /\ pc' = pc \/ \E x : pc' = [pc EXCEPT ![child] = x]
        /\ cur' = cur \/ \E x : cur' = [cur EXCEPT ![child] = x]
        /\ ref' = ref \/ \E x : ref' = [ref EXCEPT ![child] = x]
        /\ UNCHANGED <<todo, at, subs, told, drifted>>
    <3>1. CASE ChildPost
      BY <3>1 DEF ChildPost, ChildIdle
    <3>2. CASE Consume
      BY <3>2 DEF Consume, ChildIdle
    <3>3. CASE TaskErrorDone
      BY <3>3 DEF TaskErrorDone, ChildIdle, envVars
    <3>4. CASE TaskError /\ ref[child] = 0
      BY <3>4 DEF TaskError, ChildIdle
    <3> QED
      BY <1>6, <3>1, <3>2, <3>3, <3>4
  <2>2. SlotsKept
    <3>1. ~ChildPost => lib' = lib
      BY <1>6 DEF Consume, TaskErrorDone, TaskError
    <3> QED
      BY <1>1, <3>1, ChildPostSlots
  <2> QED
    BY <1>0, <2>1, <2>2, AllStill
<1>7. CASE EnvNext \/ UNCHANGED vars
  <2>1. UNCHANGED <<lib, subs, told, drifted, pc, cur, ref, todo, at, walk>>
    <3>1. CASE EnvNext
      BY <3>1 DEF EnvNext, Start, Exit, Unplug, Kill, End, Error, Request, Unsubscribe,
                  SendConsume, Send, ForeignCancel, dmVars, thVars
    <3>2. CASE UNCHANGED vars
      BY <3>2 DEF vars, dmVars, thVars, envVars
    <3> QED
      BY <1>7, <3>1, <3>2
  <2>2. PublishersKept /\ WalkerKept /\ WithdrawnKept
    BY <2>1 DEF PublishersKept, WalkerKept, WithdrawnKept
  <2>3. FromStart'
    BY <2>1, FromStartKept DEF AllToldInv
  <2> QED
    BY <1>1, <2>1, <2>2, <2>3, AllFrame DEF AllToldInv
<1> QED
  BY <1>3, <1>4, <1>5, <1>6, <1>7

\* The kinds a registration is published to.
LEMMA RegistrationKinds ==
  ASSUME NEW k \in Entered, k \in AllKinds,
         k \notin {REQ_REG_CANCELLATION, NOTI_DEREGISTRATION}
  PROVE  k \in Range(RegistrationStages)
<1>1. k \in {NOTI_REGISTRATION, NOTI_REGISTRATION_CHANGE, SEARCH_REPLY, REQ_REG_FUTURE,
             VAR_REQ_REPLY}
  BY DEF AllKinds, NotiKinds
<1>2. ASSUME NEW q \in AllKinds PROVE Stage(q) \in Seq(AllKinds)
  BY <1>2 DEF Stage
<1>3. PICK a, b, c, d, e :
        /\ a = Stage(NOTI_REGISTRATION) /\ b = Stage(NOTI_REGISTRATION_CHANGE)
        /\ c = Stage(SEARCH_REPLY) /\ d = Stage(REQ_REG_FUTURE) /\ e = Stage(VAR_REQ_REPLY)
  OBVIOUS
<1>4. /\ a \in Seq(AllKinds) /\ b \in Seq(AllKinds) /\ c \in Seq(AllKinds)
      /\ d \in Seq(AllKinds) /\ e \in Seq(AllKinds)
  BY <1>2, <1>3, KindsType
<1>5. RegistrationStages = (((a \o b) \o c) \o d) \o e
  BY <1>3 DEF RegistrationStages
<1>6. ASSUME NEW p \in Seq(AllKinds), NEW q \in Seq(AllKinds)
      PROVE  p \o q \in Seq(AllKinds) /\ Range(p \o q) = Range(p) \cup Range(q)
  <2>1. /\ p \o q \in Seq(AllKinds) /\ DOMAIN (p \o q) = 1..(Len(p) + Len(q))
        /\ DOMAIN p = 1..Len(p) /\ DOMAIN q = 1..Len(q) /\ Len(p) \in Nat /\ Len(q) \in Nat
        /\ \A n \in 1..Len(p) : (p \o q)[n] = p[n]
        /\ \A n \in 1..Len(q) : (p \o q)[Len(p) + n] = q[n]
    OBVIOUS
  <2>2. Range(p) \cup Range(q) \subseteq Range(p \o q)
    <3>1. \A n \in 1..Len(q) : Len(p) + n \in 1..(Len(p) + Len(q))
      BY <2>1
    <3>2. \A n \in 1..Len(p) : n \in 1..(Len(p) + Len(q))
      BY <2>1
    <3> QED
      BY <2>1, <3>1, <3>2 DEF Range
  <2>3. Range(p \o q) \subseteq Range(p) \cup Range(q)
    <3> SUFFICES ASSUME NEW n \in 1..(Len(p) + Len(q))
                 PROVE  (p \o q)[n] \in Range(p) \cup Range(q)
      BY <2>1 DEF Range
    <3>1. CASE n <= Len(p)
      BY <2>1, <3>1 DEF Range
    <3>2. CASE n > Len(p)
      <4>1. PICK m \in 1..Len(q) : n = Len(p) + m
        <5>1. n - Len(p) \in 1..Len(q) /\ n = Len(p) + (n - Len(p))
          BY <2>1, <3>2
        <5> QED
          BY <5>1
      <4> QED
        BY <2>1, <4>1 DEF Range
    <3> QED
      BY <2>1, <3>1, <3>2
  <2> QED
    BY <2>1, <2>2, <2>3
<1>7. Range(RegistrationStages)
        = (((Range(a) \cup Range(b)) \cup Range(c)) \cup Range(d)) \cup Range(e)
  <2>1. PICK ab : ab = a \o b
    OBVIOUS
  <2>2. ab \in Seq(AllKinds) /\ Range(ab) = Range(a) \cup Range(b)
    BY <1>4, <1>6, <2>1
  <2>3. PICK abc : abc = ab \o c
    OBVIOUS
  <2>4. abc \in Seq(AllKinds) /\ Range(abc) = Range(ab) \cup Range(c)
    BY <1>4, <1>6, <2>2, <2>3
  <2>5. PICK abcd : abcd = abc \o d
    OBVIOUS
  <2>6. abcd \in Seq(AllKinds) /\ Range(abcd) = Range(abc) \cup Range(d)
    BY <1>4, <1>6, <2>4, <2>5
  <2>7. Range(abcd \o e) = Range(abcd) \cup Range(e)
    BY <1>4, <1>6, <2>6
  <2>8. RegistrationStages = abcd \o e
    BY <1>5, <2>1, <2>3, <2>5
  <2> QED
    BY <2>2, <2>4, <2>6, <2>7, <2>8
<1>8. k \in Range(Stage(k))
  <2>1. Stage(k) = <<k>>
    BY DEF Stage
  <2>2. 1 \in DOMAIN Stage(k) /\ Stage(k)[1] = k
    BY <2>1
  <2> QED
    BY <2>2 DEF Range
<1> QED
  BY <1>1, <1>3, <1>7, <1>8

\* A registration is published to one subscription of a kind after the other.
LEMMA AllPublishStart ==
  ASSUME Types, SlotInv, AllToldInv, NEW t \in XThread, Publish(t)
  PROVE  AllToldInv'
<1>1. PICK k, r, n, dereg : k = Head(todo[t]) /\ r = ref[t] /\ n = at[t]
                            /\ dereg = (t \notin XThread)
  OBVIOUS
<1>2. /\ SlotsKept /\ Slots' = Slots
      /\ UNCHANGED <<subs, pc, cur, ref, walk>> /\ t \in Thread
  BY Threads, PublishEffect, KeptInactive DEF Types
<1>3. /\ pc[t] = "publish" /\ todo[t] # << >> /\ k \in AllKinds
      /\ r \in Slots /\ n \in Nat \ {0} /\ dereg = FALSE
      /\ \A u \in Thread : u # t => todo'[u] = todo[u] /\ at'[u] = at[u]
      /\ \/ /\ k \in NotiKinds /\ NotifyAll(k, r, dereg)
            /\ todo'[t] = Tail(todo[t]) /\ at'[t] = n /\ drifted' = drifted
         \/ /\ k \notin NotiKinds /\ \A i \in DOMAIN subs : ~Awaits(i, k, n)
            /\ todo'[t] = Tail(todo[t]) /\ at'[t] = 1
            /\ told' = told /\ drifted' = drifted
         \/ /\ todo'[t] = todo[t]
            /\ \E j \in DOMAIN subs :
                 /\ Awaits(j, k, n) /\ \A i \in DOMAIN subs : Awaits(i, k, n) => j <= i
                 /\ at'[t] = j + 1
                 /\ \/ /\ k \in {REQ_REG_FUTURE, REQ_REG_CANCELLATION}
                       /\ ReqRegAbout(subs[j].dest, r, dereg)
                       /\ drifted' = (drifted \/ numxTEDS(r) # r - 1)
                    \/ /\ k \in {SEARCH_REPLY, VAR_REQ_REPLY}
                       /\ SearchAbout(subs[j].dest, k, r) /\ drifted' = drifted
  BY <1>1, <1>2, PublishCases
<1>4. /\ LibType /\ XThread \subseteq Thread
      /\ todo[t] \in Seq(AllKinds) /\ DOMAIN subs = 1..Len(subs)
  BY <1>2, Threads, ThreadTypes DEF Types, ListType
<1>5. k \in NotiKinds => n = 1
  BY <1>1, <1>3 DEF AllToldInv, FromStart
<1>6. {REQ_REG_FUTURE, REQ_REG_CANCELLATION, SEARCH_REPLY, VAR_REQ_REPLY} \cap NotiKinds = {}
  BY DEF NotiKinds, NOTI_REGISTRATION, NOTI_DEREGISTRATION, NOTI_REGISTRATION_CHANGE,
         REQ_REG_FUTURE, REQ_REG_CANCELLATION, SEARCH_REPLY, VAR_REQ_REPLY
<1>7. FromStart'
  <2>1. CASE k \in NotiKinds
    <3>1. at'[t] = 1
      BY <1>3, <1>5, <1>6, <2>1
    <3> QED
      BY <1>2, <1>3, <1>4, <3>1, FromStartKept DEF AllToldInv
  <2>2. CASE k \notin NotiKinds
    <3>1. at'[t] = 1 \/ todo'[t] = todo[t]
      BY <1>3, <2>2
    <3>2. ASSUME NEW u \in XThread, pc'[u] = "publish", todo'[u] # << >>,
                 Head(todo'[u]) \in NotiKinds
          PROVE  at'[u] = 1
      <4>1. CASE u = t
        BY <1>1, <2>2, <3>1, <3>2, <4>1
      <4>2. CASE u # t
        BY <1>2, <1>3, <1>4, <3>2, <4>2 DEF AllToldInv, FromStart
      <4> QED
        BY <4>1, <4>2
    <3> QED
      BY <3>2 DEF FromStart
  <2> QED
    BY <2>1, <2>2
<1>8. told \subseteq told' /\ (drifted => drifted')
  <2>1. ASSUME k \in NotiKinds, NotifyAll(k, r, dereg) PROVE told \subseteq told'
    <3>1. dereg = FALSE /\ dereg \in BOOLEAN
      BY <1>3
    <3> QED
      BY <2>1, <3>1, NotifyTold
  <2>2. r \in Slots /\ dereg = FALSE /\ dereg \in BOOLEAN
    BY <1>3
  <2>3. ASSUME NEW s, ReqRegAbout(s, r, dereg) PROVE told \subseteq told'
    BY <1>4, <2>2, <2>3, ReqRegTold
  <2>4. ASSUME NEW s, k \in {SEARCH_REPLY, VAR_REQ_REPLY}, SearchAbout(s, k, r)
        PROVE  told \subseteq told'
    BY <1>4, <2>2, <2>4, SearchTold
  <2>5. \A j \in DOMAIN subs : \/ ReqRegAbout(subs[j].dest, r, dereg)
                              \/ /\ k \in {SEARCH_REPLY, VAR_REQ_REPLY}
                                 /\ SearchAbout(subs[j].dest, k, r)
                              => told \subseteq told'
    BY <2>3, <2>4
  <2>6. drifted => drifted'
    BY <1>3
  <2>7. told \subseteq told'
    BY <1>3, <2>1, <2>5
  <2> QED
    BY <2>6, <2>7
<1>9. WalkerKept /\ WithdrawnKept
  BY <1>2 DEF WalkerKept, WithdrawnKept
<1>10. ASSUME NEW j \in DOMAIN subs', NEW i \in Slots', Claims(j, i)'
       PROVE  Accounted(j, i)'
  <2>1. Same(j, i)
    BY <1>2, <1>10 DEF Same, Claims, SlotsKept, SlotKept
  <2>2. Claims(j, i) /\ Accounted(j, i)
    BY <1>8, <1>10, <2>1, AccountedBefore DEF AllToldInv
  <2>3. CASE Reported(j, i) \/ Walking(j, i) \/ Withdrawn(i)
    BY <1>8, <1>9, <2>1, <2>3, AccountedKept DEF Accounted
  <2>4. ASSUME NEW u \in XThread, ref[u] = i, Publishes(u, j), u # t
        PROVE  Accounted(j, i)'
    <3>1. ref'[u] = i /\ Publishes(u, j)'
      BY <1>2, <1>3, <1>4, <2>1, <2>4 DEF Publishes, Same
    <3> QED
      BY <3>1 DEF Publishing, Accounted
  <2>5. ASSUME ref[t] = i, Publishes(t, j)
        PROVE  Accounted(j, i)'
    <3> DEFINE mid == subs[j].mid
    <3>1. mid \in Range(todo[t]) /\ (k = mid => n <= j) /\ r = i /\ subs[j].inuse
      BY <1>1, <2>2, <2>5 DEF Publishes, Claims
    <3>2. ASSUME mid \in Range(todo'[t]), Head(todo'[t]) = mid => at'[t] <= j
          PROVE  Accounted(j, i)'
      <4>1. Publishes(t, j)' /\ ref'[t] = i
        BY <1>2, <1>3, <2>5, <3>2 DEF Publishes
      <4> QED
        BY <4>1 DEF Publishing, Accounted
    <3>3. j \in Nat /\ j >= 1
      BY <1>2, <1>4
    <3>4. CASE k # mid
      <4>1. mid \in Range(Tail(todo[t]))
        <5>1. Range(todo[t]) = Range(Tail(todo[t])) \cup {Head(todo[t])}
          BY <1>3, <1>4, RangeTail
        <5> QED
          BY <1>1, <3>1, <3>4, <5>1
      <4>2. CASE todo'[t] = todo[t]
        BY <1>1, <3>1, <3>2, <3>4, <4>2
      <4>3. CASE todo'[t] = Tail(todo[t]) /\ at'[t] = 1
        BY <3>2, <3>3, <4>1, <4>3
      <4> HIDE DEF mid
      <4> QED
        BY <1>3, <1>5, <4>2, <4>3
    <3>5. CASE k = mid
      <4>1. Awaits(j, k, n)
        BY <1>2, <1>3, <3>1, <3>3, <3>5 DEF Awaits
      <4>2. CASE k \in NotiKinds /\ NotifyAll(k, r, dereg)
        <5>1. Report(subs[j].dest, k, lib[r].comp) \in told'
          BY <1>2, <1>3, <3>1, <3>5, <4>2, NotifyTold
        <5>2. Reported(j, i)'
          BY <2>1, <3>1, <3>5, <5>1 DEF Reported, Same
        <5> QED
          BY <5>2 DEF Accounted
      <4>3. ASSUME NEW m \in DOMAIN subs, \A q \in DOMAIN subs : Awaits(q, k, n) => m <= q,
                   at'[t] = m + 1, todo'[t] = todo[t], m # j
            PROVE  Accounted(j, i)'
        <5>1. m <= j /\ m \in Nat
          BY <1>2, <1>4, <4>1, <4>3
        <5>2. at'[t] <= j
          BY <3>3, <4>3, <5>1
        <5> QED
          BY <3>1, <3>2, <4>3, <5>2
      <4>4. lib[i].active /\ ~lib[i].available /\ LibType
        BY <2>1, <1>4 DEF Same, SlotInv, ActiveInUse
      <4>5. ASSUME k \in {REQ_REG_FUTURE, REQ_REG_CANCELLATION},
                   ReqRegAbout(subs[j].dest, r, dereg),
                   drifted' = (drifted \/ numxTEDS(r) # r - 1)
            PROVE  Accounted(j, i)'
        <5>1. k = REQ_REG_FUTURE /\ lib[i].name \in Wants[subs[j].dest]
          BY <2>2, <3>5, <4>5 DEF Claims
        <5>2. ~drifted'
          BY <1>10, <2>1, <3>5, <5>1 DEF Claims, Same
        <5>3. Matches(subs[j].dest, r)
          BY <3>1, <4>4, <5>1 DEF Matches
        <5>4. Report(subs[j].dest, REQ_REG_FUTURE, lib[r].comp) \in told'
          BY <1>3, <3>1, <4>4, <4>5, <5>2, <5>3, ReqRegTold
        <5>5. Reported(j, i)'
          BY <2>1, <3>1, <3>5, <5>1, <5>4 DEF Reported, Same
        <5> QED
          BY <5>5 DEF Accounted
      <4>6. ASSUME k \in {SEARCH_REPLY, VAR_REQ_REPLY}, SearchAbout(subs[j].dest, k, r)
            PROVE  Accounted(j, i)'
        <5>1. lib[i].name \in Wants[subs[j].dest]
          BY <2>2, <3>5, <4>6 DEF Claims
        <5>2. Matches(subs[j].dest, r)
          BY <3>1, <4>4, <5>1 DEF Matches
        <5>3. Report(subs[j].dest, k, lib[r].comp) \in told'
          BY <1>3, <3>1, <4>4, <4>6, <5>2, SearchTold
        <5>4. Reported(j, i)'
          BY <2>1, <3>1, <3>5, <5>3 DEF Reported, Same
        <5> QED
          BY <5>4 DEF Accounted
      <4> HIDE DEF mid
      <4> QED
        BY <1>2, <1>3, <1>6, <4>1, <4>2, <4>3, <4>5, <4>6
    <3> QED
      BY <3>4, <3>5
  <2> QED
    BY <2>2, <2>3, <2>4, <2>5 DEF Accounted, Publishing
<1> QED
  BY <1>7, <1>10 DEF AllToldInv, AllTold

\* The publication of an end takes back only what was told of the slot that
\* ends.
LEMMA AllPublishEnd ==
  ASSUME Types, SlotInv, OwnInv, AllToldInv, NEW t \in Ender, Publish(t)
  PROVE  AllToldInv'
<1>0. t \in Thread /\ t \notin XThread /\ child \in Thread /\ "cancel" \in Thread
  BY Threads DEF Ender
<1>1. PICK k, r, n, dereg : k = Head(todo[t]) /\ r = ref[t] /\ n = at[t]
                            /\ dereg = (t \notin XThread)
  OBVIOUS
<1>2. /\ SlotsKept /\ Slots' = Slots
      /\ UNCHANGED <<subs, pc, cur, ref, walk>>
  BY <1>0, PublishEffect, KeptInactive DEF Types
<1>3. /\ pc[t] = "publish" /\ r \in Slots /\ dereg = TRUE
      /\ \A u \in Thread : u # t => todo'[u] = todo[u] /\ at'[u] = at[u]
      /\ \/ k \in NotiKinds /\ NotifyAll(k, r, dereg) /\ drifted' = drifted
         \/ told' = told /\ drifted' = drifted
         \/ \E j \in DOMAIN subs :
              \/ /\ ReqRegAbout(subs[j].dest, r, dereg)
                 /\ drifted' = (drifted \/ numxTEDS(r) # r - 1)
              \/ /\ k \in {SEARCH_REPLY, VAR_REQ_REPLY}
                 /\ SearchAbout(subs[j].dest, k, r) /\ drifted' = drifted
  BY <1>0, <1>1, PublishCases
<1>4. LibType /\ ~lib[r].available
  <2>1. CASE t = "cancel"
    BY <1>1, <1>3, <2>1 DEF SlotInv, CancelHolds, Cancels, Types, LibType, Slots
  <2>2. CASE t = child
    BY <1>1, <1>3, <2>2 DEF OwnInv, FailsOwn, Types, LibType, Slots
  <2> QED
    BY <2>1, <2>2 DEF Ender
<1>5. /\ PublishersKept /\ WalkerKept /\ WithdrawnKept
  BY <1>0, <1>2, <1>3, Threads DEF PublishersKept, WalkerKept, WithdrawnKept
<1>6. FromStart'
  BY <1>0, <1>2, <1>3, Threads, FromStartKept DEF AllToldInv
<1>7. drifted => drifted'
  BY <1>3
<1>8. ASSUME NEW j \in DOMAIN subs', NEW i \in Slots', Claims(j, i)'
      PROVE  Accounted(j, i)'
  <2>1. Same(j, i)
    BY <1>2, <1>8 DEF Same, Claims, SlotsKept, SlotKept
  <2>2. Claims(j, i) /\ Accounted(j, i)
    BY <1>7, <1>8, <2>1, AccountedBefore DEF AllToldInv
  <2>3. CASE Publishing(j, i) \/ Walking(j, i) \/ Withdrawn(i)
    BY <1>5, <2>1, <2>3, AccountedKept DEF Accounted
  <2>4. CASE Reported(j, i)
    <3> SUFFICES ASSUME ~Reported(j, i)' PROVE Accounted(j, i)'
      BY DEF Accounted
    <3>1. PICK x : x = Report(subs[j].dest, subs[j].mid, lib[i].comp)
      OBVIOUS
    <3>2. x \in told \ told'
      BY <2>1, <2>4, <3>1 DEF Reported, Same
    <3>3. x[2] = subs[j].mid /\ x[3] = lib[i].comp
      BY <2>2, <3>1 DEF Report, Claims
    <3>4. lib[i].comp = lib[r].comp
      <4>1. CASE k \in NotiKinds /\ NotifyAll(k, r, dereg)
        BY <1>3, <3>2, <3>3, <4>1, NotifyTold
      <4>2. ASSUME NEW s, ReqRegAbout(s, r, dereg),
                   drifted' = (drifted \/ numxTEDS(r) # r - 1)
            PROVE  lib[i].comp = lib[r].comp
        <5>1. x[2] = REQ_REG_FUTURE
          BY <1>3, <1>4, <3>2, <4>2, ReqRegTold
        <5>2. ~drifted'
          BY <1>8, <2>1, <3>3, <5>1 DEF Claims, Same
        <5>3. x = Report(s, REQ_REG_FUTURE, lib[r].comp)
          BY <1>3, <1>4, <3>2, <4>2, <5>2, ReqRegTold
        <5>4. x = <<s, REQ_REG_FUTURE, lib[r].comp>>
          BY <5>3, FutureReport
        <5> QED
          BY <3>3, <5>4
      <4>3. ASSUME NEW s, k \in {SEARCH_REPLY, VAR_REQ_REPLY}, SearchAbout(s, k, r)
            PROVE  FALSE
        BY <1>3, <1>4, <3>2, <4>3, SearchTold
      <4>4. \A q \in DOMAIN subs :
              \/ /\ ReqRegAbout(subs[q].dest, r, dereg)
                 /\ drifted' = (drifted \/ numxTEDS(r) # r - 1)
              \/ /\ k \in {SEARCH_REPLY, VAR_REQ_REPLY}
                 /\ SearchAbout(subs[q].dest, k, r)
              => lib[i].comp = lib[r].comp
        BY <4>2, <4>3
      <4> QED
        BY <1>3, <3>2, <4>1, <4>4
    <3>5. lib[i].active /\ ~lib[i].available /\ i \in Slots
      BY <2>1 DEF Same, SlotInv, ActiveInUse
    <3>6. i = r
      BY <1>3, <1>4, <3>4, <3>5 DEF SlotInv, OneSlot
    <3>7. t = "cancel"
      <4>1. t = child => ~lib[r].active
        BY <1>1, <1>3 DEF OwnInv, FailsOwn
      <4> QED
        BY <3>5, <3>6, <4>1 DEF Ender
    <3>8. Withdrawn(i)'
      BY <1>1, <1>2, <1>3, <3>6, <3>7 DEF Withdrawn, Holds
    <3> QED
      BY <3>8 DEF Accounted
  <2> QED
    BY <2>2, <2>3, <2>4 DEF Accounted
<1> QED
  BY <1>6, <1>8 DEF AllToldInv, AllTold

\* What becomes active by a registration is published from the start.
LEMMA RegisterPublishes ==
  ASSUME Types, NEW t \in XThread, RegisterxTEDS(t), NEW i \in Slots', lib'[i].active
  PROVE  \/ /\ i \in Slots /\ lib[i].active
            /\ lib'[i].comp = lib[i].comp /\ lib'[i].name = lib[i].name
         \/ /\ pc'[t] = "publish" /\ ref'[t] = i
            /\ todo'[t] = RegistrationStages /\ at'[t] = 1
<1>1. PICK c, pid, f : c = cur[t].comp /\ pid = cur[t].pid /\ f = AlreadyRegistered(c)
  OBVIOUS
<1>2. PICK r : r = IF f = 0 THEN FreeSlot ELSE f
  OBVIOUS
<1>3. /\ pc[t] = "wait"
      /\ lib' = IF f # 0 /\ lib[f].active THEN lib
                ELSE IF f # 0 THEN Reactivate(f, c, pid) ELSE StoreInfo(r, c, pid)
      /\ \/ (f # 0 /\ lib[f].active) \/ (f = 0 /\ c \in Malformed)
         \/ /\ ref' = [ref EXCEPT ![t] = r]
            /\ todo' = [todo EXCEPT ![t] = RegistrationStages]
            /\ at' = [at EXCEPT ![t] = 1]
            /\ pc' = [pc EXCEPT ![t] = "publish"]
  BY <1>1, <1>2 DEF RegisterxTEDS
<1>4. c \in Comp /\ pid \in Pid
  <2>1. cur[t] \in xTEDSMsg
    BY <1>3 DEF Types, ThreadType
  <2> QED
    BY <1>1, <2>1, MsgFacts
<1>5. LibType /\ LibType' /\ Slots = 1..Len(lib) /\ Slots' = 1..Len(lib') /\ Len(lib) \in Nat
  <2>1. LibType'
    BY RegisterEffect
  <2> QED
    BY <2>1 DEF Types, LibType, Slots
<1>6. t \in Thread /\ pc \in [Thread -> Pcs] /\ ref \in [Thread -> 0..Len(lib)]
      /\ todo \in [Thread -> Seq(AllKinds)] /\ at \in [Thread -> Nat \ {0}]
  BY Threads DEF Types, ThreadType, RefType
<1>7. ASSUME ~(f # 0 /\ lib[f].active), ~(f = 0 /\ c \in Malformed)
      PROVE  /\ pc'[t] = "publish" /\ ref'[t] = r
             /\ todo'[t] = RegistrationStages /\ at'[t] = 1
  BY <1>3, <1>6, <1>7
<1>8. CASE f # 0 /\ lib[f].active
  <2>1. lib' = lib
    BY <1>3, <1>8
  <2> QED
    BY <1>5, <2>1
<1>9. CASE f # 0 /\ ~lib[f].active
  <2>1. f \in Slots
    BY <1>1, <1>5, <1>9, FindRegistered
  <2>2. lib' = Reactivate(f, c, pid) /\ r = f
    BY <1>2, <1>3, <1>9
  <2>3. Len(lib') = Len(lib) /\ \A j \in Slots : j # f => lib'[j] = lib[j]
    BY <1>4, <1>5, <2>1, <2>2, ReactivateSlot
  <2>4. CASE i = f
    BY <1>7, <1>9, <2>2, <2>4
  <2>5. CASE i # f
    BY <1>5, <2>3, <2>5
  <2> QED
    BY <2>4, <2>5
<1>10. CASE f = 0
  <2>1. lib' = StoreInfo(r, c, pid) /\ r = FreeSlot
    BY <1>2, <1>3, <1>10
  <2>2. r \in 1..(Len(lib) + 1)
    BY <1>5, <2>1, FindFree
  <2>3. PICK e \in SlotType :
           /\ r \in Slots => lib' = [lib EXCEPT ![r] = e]
           /\ r \notin Slots => lib' = Append(lib, e)
           /\ e.active <=> c \notin Malformed
    BY <1>4, <1>5, <2>1, <2>2, StoreSlot
  <2>4. /\ lib'[r] = e /\ \A j \in Slots : j # r => lib'[j] = lib[j]
        /\ \A j \in Slots' : j # r => j \in Slots
    <3>1. lib \in Seq(SlotType)
      BY <1>5 DEF LibType
    <3>2. CASE r \in Slots
      <4>1. lib' = [lib EXCEPT ![r] = e] /\ DOMAIN lib = Slots
        BY <2>3, <3>2 DEF Slots
      <4>2. Slots' = Slots
        BY <4>1 DEF Slots
      <4> QED
        BY <3>2, <4>1, <4>2
    <3>3. CASE r \notin Slots
      <4>1. lib' = Append(lib, e) /\ r = Len(lib) + 1
        BY <1>5, <2>2, <2>3, <3>3
      <4>2. /\ lib'[Len(lib) + 1] = e /\ \A j \in 1..Len(lib) : lib'[j] = lib[j]
            /\ Len(lib') = Len(lib) + 1
        BY <3>1, <4>1
      <4>3. \A j \in Slots' : j # r => j \in Slots
        BY <1>5, <4>1, <4>2
      <4> QED
        BY <1>5, <4>1, <4>2, <4>3
    <3> QED
      BY <3>2, <3>3
  <2>5. CASE i = r
    BY <1>7, <1>10, <2>3, <2>4, <2>5
  <2>6. CASE i # r
    BY <2>4, <2>6
  <2> QED
    BY <2>5, <2>6
<1> QED
  BY <1>8, <1>9, <1>10

\* Subscriptions are to kinds there are.
LEMMA SubKind ==
  ASSUME ListType, NEW j \in DOMAIN subs
  PROVE  subs[j].mid \in AllKinds
<1>1. subs \in Seq(SubType)
  BY DEF ListType
<1>2. subs[j] \in SubType
  BY <1>1
<1> QED
  BY <1>2 DEF SubType

\* A registration is published to all who ask for its kind.
LEMMA AllRegister ==
  ASSUME Types, EnteredOnly, AllToldInv, NEW t \in XThread, RegisterxTEDS(t)
  PROVE  AllToldInv'
<1>1. /\ pc[t] = "wait" /\ t \in Thread /\ t # child /\ t # "cancel"
      /\ pc' = [pc EXCEPT ![t] = "idle"] \/ pc' = [pc EXCEPT ![t] = "publish"]
      /\ cur' = cur \/ \E x : cur' = [cur EXCEPT ![t] = x]
      /\ todo' = todo \/ \E x : todo' = [todo EXCEPT ![t] = x]
      /\ at' = at \/ \E x : at' = [at EXCEPT ![t] = x]
      /\ ref' = ref \/ \E x : ref' = [ref EXCEPT ![t] = x]
      /\ UNCHANGED <<subs, told, drifted, walk>>
  BY Threads DEF RegisterxTEDS
<1>2. PublishersKept /\ WalkerKept /\ WithdrawnKept
  BY <1>1, OthersAccount
<1>3. FromStart'
  <2>1. /\ pc \in [Thread -> Pcs] /\ at \in [Thread -> Nat \ {0}]
        /\ todo \in [Thread -> Seq(AllKinds)]
    BY DEF Types, ThreadType
  <2>2. pc'[t] = "publish" => at'[t] = 1
    <3>1. pc' = [pc EXCEPT ![t] = "idle"] \/ at' = [at EXCEPT ![t] = 1]
      BY DEF RegisterxTEDS
    <3> QED
      BY <1>1, <2>1, <3>1
  <2>3. ASSUME NEW u \in XThread, u # t
        PROVE  pc'[u] = pc[u] /\ todo'[u] = todo[u] /\ at'[u] = at[u]
    <3>1. u \in Thread
      BY Threads
    <3>2. pc'[u] = pc[u]
      BY <1>1, <2>1, <2>3, <3>1
    <3>3. todo'[u] = todo[u]
      BY <1>1, <2>1, <2>3, <3>1
    <3>4. at'[u] = at[u]
      BY <1>1, <2>1, <2>3, <3>1
    <3> QED
      BY <3>2, <3>3, <3>4
  <2> QED
    BY <2>2, <2>3, FromStartKept DEF AllToldInv
<1>4. ASSUME NEW j \in DOMAIN subs', NEW i \in Slots', Claims(j, i)'
      PROVE  Accounted(j, i)'
  <2>1. CASE /\ i \in Slots /\ lib[i].active
             /\ lib'[i].comp = lib[i].comp /\ lib'[i].name = lib[i].name
    <3>1. Same(j, i)
      BY <1>1, <2>1 DEF Same
    <3>2. Accounted(j, i)
      BY <1>1, <1>4, <3>1, AccountedBefore DEF AllToldInv
    <3>3. told \subseteq told'
      BY <1>1
    <3> QED
      BY <1>2, <3>1, <3>2, <3>3, AccountedKept DEF Accounted
  <2>2. CASE /\ pc'[t] = "publish" /\ ref'[t] = i
             /\ todo'[t] = RegistrationStages /\ at'[t] = 1
    <3>1. j \in DOMAIN subs /\ subs'[j] = subs[j] /\ j >= 1 /\ subs[j].mid \in AllKinds
      <4>1. subs' = subs /\ subs \in Seq(SubType)
        BY <1>1 DEF Types, ListType
      <4>2. j \in 1..Len(subs)
        BY <1>4, <4>1
      <4> QED
        BY <4>1, <4>2, SubKind DEF Types
    <3>2. subs[j].inuse /\ subs[j].mid \notin {REQ_REG_CANCELLATION, NOTI_DEREGISTRATION}
      BY <1>4, <3>1 DEF Claims
    <3>3. subs[j].mid \in Range(RegistrationStages)
      BY <3>1, <3>2, RegistrationKinds DEF EnteredOnly
    <3>4. Publishes(t, j)'
      BY <2>2, <3>1, <3>3 DEF Publishes
    <3> QED
      BY <2>2, <3>4 DEF Publishing, Accounted
  <2>3. lib'[i].active
    BY <1>4 DEF Claims
  <2> QED
    BY <1>4, <2>1, <2>2, <2>3, RegisterPublishes
<1> QED
  BY <1>3, <1>4 DEF AllToldInv, AllTold

\* A thread that registers nothing moves.
LEMMA OthersStart ==
  ASSUME Types, FromStart, NEW t \in Thread, t \notin XThread,
         pc' = pc \/ \E x : pc' = [pc EXCEPT ![t] = x],
         todo' = todo \/ \E x : todo' = [todo EXCEPT ![t] = x],
         at' = at \/ \E x : at' = [at EXCEPT ![t] = x]
  PROVE  FromStart'
<1>1. /\ pc \in [Thread -> Pcs] /\ todo \in [Thread -> Seq(AllKinds)]
      /\ at \in [Thread -> Nat \ {0}]
  BY DEF Types, ThreadType
<1>2. ASSUME NEW u \in XThread
      PROVE  pc'[u] = pc[u] /\ todo'[u] = todo[u] /\ at'[u] = at[u]
  <2>1. u \in Thread /\ u # t
    BY Threads
  <2>2. pc'[u] = pc[u]
    BY <1>1, <2>1
  <2>3. todo'[u] = todo[u]
    BY <1>1, <2>1
  <2>4. at'[u] = at[u]
    BY <1>1, <2>1
  <2> QED
    BY <2>2, <2>3, <2>4
<1> QED
  BY <1>2, FromStartKept

\* A cancellation withdraws its slot.
LEMMA AllApply ==
  ASSUME Types, AllToldInv, CancelApply, ref["cancel"] # 0
  PROVE  AllToldInv'
<1>1. PICK r : r = ref["cancel"]
  OBVIOUS
<1>2. /\ pc["cancel"] = "wait" /\ "cancel" \in Thread /\ "cancel" \notin XThread
      /\ "cancel" # child
      /\ lib' = Deactivate(ref["cancel"], cur["cancel"].full)
      /\ pc' = [pc EXCEPT !["cancel"] = "publish"]
      /\ todo' = [todo EXCEPT !["cancel"] = CancellationStages]
      /\ at' = [at EXCEPT !["cancel"] = 1]
      /\ UNCHANGED <<cur, ref, subs, told, drifted, walk>>
  BY Threads DEF CancelApply, envVars
<1>3. /\ r \in Slots /\ LibType' /\ Len(lib') = Len(lib)
      /\ \A i \in Slots : i # r => lib'[i] = lib[i]
  BY <1>1, <1>2, CancelEffect
<1>4. Slots' = Slots
  BY <1>3 DEF Types, LibType, Slots
<1>5. pc["cancel"] \notin Holds /\ pc'["cancel"] \in Holds /\ ref'["cancel"] = r
  BY <1>1, <1>2 DEF Types, ThreadType, Holds
<1>6. PublishersKept /\ WalkerKept /\ WithdrawnKept
  BY <1>2, <1>5, OthersAccount
<1>7. FromStart'
  BY <1>2, OthersStart DEF AllToldInv
<1>8. ASSUME NEW j \in DOMAIN subs', NEW i \in Slots', Claims(j, i)'
      PROVE  Accounted(j, i)'
  <2>1. CASE i = r
    BY <1>5, <2>1 DEF Withdrawn, Accounted
  <2>2. CASE i # r
    <3>1. Same(j, i)
      BY <1>2, <1>3, <1>4, <1>8, <2>2 DEF Same, Claims
    <3>2. Accounted(j, i)
      BY <1>2, <1>8, <3>1, AccountedBefore DEF AllToldInv
    <3>3. told \subseteq told'
      BY <1>2
    <3> QED
      BY <1>6, <3>1, <3>2, <3>3, AccountedKept DEF Accounted
  <2> QED
    BY <2>1, <2>2
<1> QED
  BY <1>7, <1>8 DEF AllToldInv, AllTold

\* Once it is done, the slot is no registration any more.
LEMMA AllRelease ==
  ASSUME Types, OwnInv, AllToldInv, CancelRelease
  PROVE  AllToldInv'
<1>1. PICK r : r = ref["cancel"]
  OBVIOUS
<1>2. /\ pc["cancel"] = "finish" /\ lib' = Release(ref["cancel"])
      /\ "cancel" \in Thread /\ "cancel" \notin XThread /\ "cancel" # child
      /\ pc' = [pc EXCEPT !["cancel"] = "idle"] /\ cur' = [cur EXCEPT !["cancel"] = NoMsg]
      /\ ref' = [ref EXCEPT !["cancel"] = 0]
      /\ UNCHANGED <<subs, told, drifted, walk, todo, at>>
  BY Threads DEF CancelRelease, envVars
<1>3. /\ r \in Slots /\ LibType' /\ Len(lib') = Len(lib)
      /\ \/ lib' = lib /\ ~(lib[r].comp # DM /\ lib[r].active)
         \/ /\ \A i \in Slots : i # r => lib'[i] = lib[i]
            /\ lib'[r].active = FALSE
  BY <1>1, <1>2, ReleaseEffect
<1>4. Slots' = Slots
  BY <1>3 DEF Types, LibType, Slots
<1>5. ~lib'[r].active
  <2>1. lib[r].active => lib[r].comp \in MayKill \cup Sensor
    BY <1>1, <1>2 DEF OwnInv, EndsOwn, Holds
  <2>2. lib[r].active => lib[r].comp # DM
    BY <2>1, DmCompAssumption, DmBoundsAssumption
  <2> QED
    BY <1>3, <2>2
<1>6. \A u \in Thread : u # "cancel" => pc'[u] = pc[u] /\ cur'[u] = cur[u] /\ ref'[u] = ref[u]
  BY <1>2, OthersSame
<1>7. PublishersKept /\ WalkerKept
  BY <1>2, <1>6, Threads DEF PublishersKept, WalkerKept
<1>8. FromStart'
  BY <1>2, OthersStart DEF AllToldInv
<1>9. ASSUME NEW j \in DOMAIN subs', NEW i \in Slots', Claims(j, i)'
      PROVE  Accounted(j, i)'
  <2>1. i # r
    BY <1>5, <1>9 DEF Claims
  <2>2. Same(j, i)
    BY <1>2, <1>3, <1>4, <1>9, <2>1 DEF Same, Claims
  <2>3. Accounted(j, i)
    BY <1>2, <1>9, <2>2, AccountedBefore DEF AllToldInv
  <2>4. ~Withdrawn(i) /\ told \subseteq told'
    BY <1>1, <1>2, <2>1 DEF Withdrawn
  <2> QED
    BY <1>7, <2>2, <2>3, <2>4, AccountedKept DEF Accounted
<1> QED
  BY <1>8, <1>9 DEF AllToldInv, AllTold

\* What the end of subscriptions takes back was told for them.
LEMMA OthersTold ==
  ASSUME NEW j, NEW i, NEW s, NEW ks, Same(j, i), Claims(j, i), Reported(j, i),
         told' = told \ ToldUnder(s, ks), ~(subs[j].dest = s /\ subs[j].mid \in ks)
  PROVE  Reported(j, i)'
<1>1. PICK x : x = Report(subs[j].dest, subs[j].mid, lib[i].comp)
  OBVIOUS
<1>2. x[1] = subs[j].dest /\ x[2] = subs[j].mid
  BY <1>1 DEF Report, Claims
<1>3. x \in told'
  BY <1>1, <1>2 DEF Reported, ToldUnder
<1> QED
  BY <1>1, <1>3 DEF Reported, Same

\* A failure ends the requests of the application, and its registration.
LEMMA AllError ==
  ASSUME Types, AllToldInv, TaskError, ref[child] # 0
  PROVE  AllToldInv'
<1>1. PICK r, c, ks : r = ref[child] /\ c = lib[r].comp /\ ks = EndsWith(REQ_REG_FUTURE)
  OBVIOUS
<1>2. /\ pc[child] = "wait" /\ lib' = Fail(ref[child])
      /\ child \in Thread /\ child \notin XThread /\ child # "cancel"
      /\ subs' = removeSubscriptions(subs, c, ks) /\ told' = told \ ToldUnder(c, ks)
      /\ pc' = [pc EXCEPT ![child] = "publish"]
      /\ todo' = [todo EXCEPT ![child] = CancellationStages]
      /\ at' = [at EXCEPT ![child] = 1]
      /\ UNCHANGED <<cur, ref, drifted, walk>>
  BY <1>1, Threads DEF TaskError
<1>3. /\ r \in Slots /\ LibType' /\ Len(lib') = Len(lib)
      /\ \A i \in Slots : i # r => lib'[i] = lib[i]
      /\ lib'[r].active = FALSE
  BY <1>1, <1>2, FailEffect
<1>4. Slots' = Slots
  BY <1>3 DEF Types, LibType, Slots
<1>5. PublishersKept /\ WalkerKept /\ WithdrawnKept
  BY <1>2, OthersAccount
<1>6. FromStart'
  BY <1>2, OthersStart DEF AllToldInv
<1>7. ASSUME NEW j \in DOMAIN subs', NEW i \in Slots', Claims(j, i)'
      PROVE  Accounted(j, i)'
  <2>1. /\ j \in DOMAIN subs /\ subs'[j] = subs[j]
        /\ ~(subs[j].dest = c /\ subs[j].mid \in ks)
    BY <1>2, <1>7, RemoveEffect DEF Claims, Types
  <2>2. i # r
    BY <1>3, <1>7 DEF Claims
  <2>3. Same(j, i)
    BY <1>3, <1>4, <1>7, <2>1, <2>2 DEF Same, Claims
  <2>4. Claims(j, i) /\ Accounted(j, i)
    BY <1>2, <1>7, <2>3, AccountedBefore DEF AllToldInv
  <2>5. Reported(j, i) => Reported(j, i)'
    BY <1>2, <2>1, <2>3, <2>4, OthersTold
  <2> QED
    BY <1>5, <2>3, <2>4, <2>5, AccountedKept DEF Accounted
<1> QED
  BY <1>6, <1>7 DEF AllToldInv, AllTold

\* A search is under way for every subscription a request enters, and for every
\* one whose client was told before.
LEMMA AllTakeRequest ==
  ASSUME Types, AllTold, lib' = lib, pc[child] = "idle", drifted' = drifted,
         PublishersKept, WalkerKept, WithdrawnKept,
         NEW m \in PipeMsg, TakeRequest(m), m.type # "ReqReg"
  PROVE  AllTold'
<1>1. PICK s, k : s = m.client /\ k = m.type
  OBVIOUS
<1>2. s \in Client /\ k \in AllKinds
  BY <1>1, PipeFacts, MsgFacts DEF TakeRequest
<1>3. /\ subs' = addReqRegSubscription(s, k)
      /\ told' = told \/ (~HasSub(s, k) /\ told' = told \ ToldUnder(s, EndsWith(k)))
  BY <1>1 DEF TakeRequest
<1>4. ASSUME k \in NotiKinds => k # NOTI_DEREGISTRATION /\ ~HasSub(s, k)
      PROVE  pc'[child] = "walk" /\ cur'[child] = m /\ walk'.pos = 1
  <2>1. /\ pc' = [pc EXCEPT ![child] = "walk"] /\ cur' = [cur EXCEPT ![child] = m]
        /\ walk' = [NoWalk EXCEPT !.pos = 1, !.size = Len(lib)]
    BY <1>1, <1>4 DEF TakeRequest
  <2>2. pc \in [Thread -> Pcs] /\ cur \in [Thread -> Message] /\ child \in Thread
    BY Threads DEF Types, ThreadType
  <2> QED
    BY <2>1, <2>2 DEF NoWalk
<1>5. Slots' = Slots
  BY DEF Slots
<1>6. ASSUME NEW j \in DOMAIN subs', NEW i \in Slots', Claims(j, i)',
             subs'[j].dest = s, subs'[j].mid \in EndsWith(k), ~HasSub(s, subs'[j].mid) \/ ~HasSub(s, k)
      PROVE  Walking(j, i)' \/ (k \in NotiKinds /\ HasSub(s, k))
  <2> DEFINE mid == subs'[j].mid
  <2>1. mid \notin {REQ_REG_CANCELLATION, NOTI_DEREGISTRATION}
    BY <1>6 DEF Claims
  <2>2. k = mid \/ (k = REQ_REG_CANCELLATION /\ mid = REQ_REG_FUTURE)
    BY <1>6, <2>1 DEF EndsWith
  <2>3. CASE k \in NotiKinds /\ HasSub(s, k)
    BY <2>3
  <2>4. CASE ~(k \in NotiKinds /\ HasSub(s, k))
    <3>1. k \in NotiKinds => k # NOTI_DEREGISTRATION /\ ~HasSub(s, k)
      <4>1. REQ_REG_CANCELLATION # NOTI_DEREGISTRATION
        BY DEF REQ_REG_CANCELLATION, NOTI_DEREGISTRATION
      <4> QED
        BY <2>1, <2>2, <2>4, <4>1
    <3>2. pc'[child] = "walk" /\ cur'[child] = m /\ walk'.pos = 1
      BY <1>4, <3>1
    <3>3. i >= 1
      BY <1>5 DEF Types, LibType, Slots
    <3> QED
      BY <1>1, <1>6, <2>2, <3>2, <3>3 DEF Walking, SearchedFor
  <2> QED
    BY <2>3, <2>4
<1>7. ASSUME NEW j \in DOMAIN subs', NEW i \in Slots', Claims(j, i)'
      PROVE  Accounted(j, i)'
  <2>1. subs'[j].inuse
    BY <1>7 DEF Claims
  <2>2. \/ j \in DOMAIN subs /\ subs'[j] = subs[j]
        \/ subs'[j].dest = s /\ ~HasSub(s, subs'[j].mid) /\ subs'[j].mid \in EndsWith(k)
    BY <1>2, <1>3, <2>1, RequestEnters DEF Types
  <2>3. CASE subs'[j].dest = s /\ ~HasSub(s, subs'[j].mid) /\ subs'[j].mid \in EndsWith(k)
    <3>1. k \in NotiKinds => subs'[j].mid = k
      BY <2>3 DEF EndsWith, NotiKinds, NOTI_REGISTRATION, NOTI_DEREGISTRATION,
         NOTI_REGISTRATION_CHANGE, REQ_REG_FUTURE, REQ_REG_CANCELLATION
    <3>2. Walking(j, i)'
      BY <1>6, <1>7, <2>3, <3>1
    <3> QED
      BY <3>2 DEF Accounted
  <2>4. CASE j \in DOMAIN subs /\ subs'[j] = subs[j]
    <3>1. Same(j, i)
      BY <1>5, <1>7, <2>4 DEF Same, Claims
    <3>2. Claims(j, i) /\ Accounted(j, i)
      BY <1>7, <3>1, AccountedBefore
    <3>3. CASE Publishing(j, i) \/ Walking(j, i) \/ Withdrawn(i)
      BY <3>1, <3>3, AccountedKept DEF Accounted
    <3>4. CASE Reported(j, i)
      <4>1. CASE told' = told
        BY <3>1, <3>4, <4>1, AccountedKept DEF Accounted
      <4>2. CASE /\ ~HasSub(s, k) /\ told' = told \ ToldUnder(s, EndsWith(k))
                 /\ ~(subs[j].dest = s /\ subs[j].mid \in EndsWith(k))
        <5>1. PICK ks : ks = EndsWith(k)
          OBVIOUS
        <5>2. Reported(j, i)'
          BY <3>1, <3>2, <3>4, <4>2, <5>1, OthersTold
        <5> QED
          BY <5>2 DEF Accounted
      <4>3. CASE /\ ~HasSub(s, k) /\ subs[j].dest = s /\ subs[j].mid \in EndsWith(k)
        <5>1. Walking(j, i)'
          BY <1>6, <1>7, <2>4, <4>3
        <5> QED
          BY <5>1 DEF Accounted
      <4> QED
        BY <1>3, <4>1, <4>2, <4>3
    <3> QED
      BY <3>2, <3>3, <3>4 DEF Accounted
  <2> QED
    BY <2>2, <2>3, <2>4
<1> QED
  BY <1>7 DEF AllTold

\* The child takes nothing from a client that does not ask for it.
LEMMA AllTake ==
  ASSUME Types, AllToldInv, ChildTake
  PROVE  AllToldInv'
<1> DEFINE m == Head(pipe)
<1>1. /\ pc[child] = "idle" /\ pipe # << >>
      /\ UNCHANGED <<lib, todo, at, drifted>>
      /\ TakeRequest(m) \/ TakeUnsubscribe(m) \/ TakeTaskError(m) \/ TakeConsume(m)
  BY DEF ChildTake
<1>2. m \in PipeMsg
  BY <1>1, RangeTail DEF Types, QueueType
<1> HIDE DEF m
<1>3. /\ pc' = pc \/ \E x : pc' = [pc EXCEPT ![child] = x]
      /\ cur' = cur \/ \E x : cur' = [cur EXCEPT ![child] = x]
      /\ ref' = ref \/ \E x : ref' = [ref EXCEPT ![child] = x]
  BY <1>1 DEF TakeRequest, TakeUnsubscribe, TakeTaskError, TakeConsume
<1>4. child \in Thread /\ child \notin XThread /\ child # "cancel"
  BY Threads
<1>5. PublishersKept /\ WalkerKept /\ WithdrawnKept
  BY <1>1, <1>3, <1>4, OthersAccount
<1>6. FromStart'
  BY <1>1, <1>3, <1>4, OthersStart DEF AllToldInv
<1>7. SlotsKept /\ Slots' = Slots
  BY <1>1, SameSlots DEF Types, Slots
<1>8. CASE TakeRequest(m) /\ m.type # "ReqReg"
  <2>1. AllTold'
    BY <1>1, <1>2, <1>5, <1>8, AllTakeRequest DEF AllToldInv
  <2> QED
    BY <1>6, <2>1 DEF AllToldInv
<1>9. CASE TakeUnsubscribe(m)
  <2>1. PICK s, ks : s = m.client /\ ks = EndsWith(m.kind)
    OBVIOUS
  <2>2. subs' = removeSubscriptions(subs, s, ks) /\ told' = told \ ToldUnder(s, ks)
    BY <1>9, <2>1 DEF TakeUnsubscribe
  <2>3. ASSUME NEW j \in DOMAIN subs', NEW i \in Slots', Claims(j, i)'
        PROVE  Accounted(j, i)'
    <3>1. /\ j \in DOMAIN subs /\ subs'[j] = subs[j]
          /\ ~(subs[j].dest = s /\ subs[j].mid \in ks)
      BY <2>2, <2>3, RemoveEffect DEF Claims, Types
    <3>2. Same(j, i)
      BY <1>1, <1>7, <2>3, <3>1 DEF Same, Claims
    <3>3. Claims(j, i) /\ Accounted(j, i)
      BY <1>1, <2>3, <3>2, AccountedBefore DEF AllToldInv
    <3>4. Reported(j, i) => Reported(j, i)'
      BY <2>2, <3>1, <3>2, <3>3, OthersTold
    <3> QED
      BY <1>5, <3>2, <3>3, <3>4, AccountedKept DEF Accounted
  <2> QED
    BY <1>6, <2>3 DEF AllToldInv, AllTold
<1>10. CASE subs' = subs /\ told' = told
  BY <1>1, <1>5, <1>6, <1>7, <1>10, AllFrame DEF AllToldInv
<1> QED
  BY <1>1, <1>8, <1>9, <1>10 DEF TakeRequest, TakeTaskError, TakeConsume

\* The search tells its client of every registration it passes.
LEMMA AllWalk ==
  ASSUME Types, SlotInv, AllToldInv, ChildWalk
  PROVE  AllToldInv'
<1> DEFINE m == cur[child]
           n == walk.pos
<1>1. /\ pc[child] = "walk" /\ UNCHANGED <<lib, subs, todo, at, ref, drifted>>
      /\ pc' = pc \/ \E x : pc' = [pc EXCEPT ![child] = x]
      /\ cur' = cur \/ \E x : cur' = [cur EXCEPT ![child] = x]
      /\ \/ n <= Len(lib) /\ ByReqReg(m) /\ WalkReqReg(m, n) /\ UNCHANGED <<pc, cur>>
         \/ n <= Len(lib) /\ ~ByReqReg(m) /\ WalkSearch(m, n) /\ UNCHANGED <<pc, cur>>
         \/ n > Len(lib) /\ told' = told
  BY DEF ChildWalk, dmVars, ChildIdle
<1>2. /\ n \in Nat /\ n # 0 /\ Len(lib) \in Nat /\ Slots = 1..Len(lib) /\ walk \in WalkSet
      /\ child \in Thread /\ child \notin XThread /\ child # "cancel"
  BY <1>1, Threads, ThreadTypes DEF Types, WalkType
<1>3. Slots' = Slots
  BY <1>1 DEF Slots
<1>4. \A u \in Thread : u # child => pc'[u] = pc[u] /\ ref'[u] = ref[u]
  BY <1>1, <1>2, OthersSame
<1>5. PublishersKept /\ WithdrawnKept
  BY <1>1, <1>2, <1>4, Threads DEF PublishersKept, WithdrawnKept
<1>6. FromStart'
  BY <1>1, <1>2, OthersStart DEF AllToldInv
<1>7. told \subseteq told'
  BY <1>1 DEF WalkReqReg, WalkSearch
<1>8. n <= Len(lib) => walk'.pos = n + 1
  <2>1. CASE WalkSearch(m, n)
    <3>1. walk' = [walk EXCEPT !.pos = @ + 1]
      BY <2>1 DEF WalkSearch
    <3> QED
      BY <1>2, <3>1 DEF WalkSet
  <2>2. CASE WalkReqReg(m, n) /\ lib[n].available
    <3>1. walk' = [walk EXCEPT !.pos = @ + 1]
      BY <2>2 DEF WalkReqReg
    <3> QED
      BY <1>2, <3>1 DEF WalkSet
  <2>3. CASE WalkReqReg(m, n) /\ ~lib[n].available
    <3>1. PICK tell, more :
            walk' = [walk EXCEPT !.pos = @ + 1, !.num = @ + 1, !.sent = @ \/ tell,
                       !.matched = IF more THEN @ \cup {walk.num} ELSE @]
      <4>1. PICK tell, more : /\ tell = (Matches(m.client, n) /\ lib[n].active)
                              /\ more = (Matches(m.client, n) /\ walk.num < walk.size)
        OBVIOUS
      <4> HIDE DEF m, n
      <4> QED
        BY <2>3, <4>1, Zenon DEF WalkReqReg
    <3> QED
      BY <1>2, <3>1 DEF WalkSet
  <2> QED
    BY <1>1, <1>2, <2>1, <2>2, <2>3
<1>9. ASSUME NEW j \in DOMAIN subs', NEW i \in Slots', Claims(j, i)'
      PROVE  Accounted(j, i)'
  <2>1. Same(j, i)
    BY <1>1, <1>3, <1>9 DEF Same, Claims
  <2>2. Claims(j, i) /\ Accounted(j, i)
    BY <1>1, <1>9, <2>1, AccountedBefore DEF AllToldInv
  <2>3. CASE Reported(j, i) \/ Publishing(j, i) \/ Withdrawn(i)
    BY <1>5, <1>7, <2>1, <2>3, AccountedKept DEF Accounted
  <2>4. CASE Walking(j, i)
    <3>1. n <= i /\ SearchedFor(j) /\ i \in 1..Len(lib) /\ n <= Len(lib)
      BY <1>2, <2>1, <2>4 DEF Walking, Same
    <3>2. CASE n < i
      <4>1. UNCHANGED <<pc, cur>> /\ walk'.pos <= i
        BY <1>1, <1>2, <1>8, <3>1, <3>2
      <4>2. Walking(j, i)'
        BY <1>1, <2>1, <3>1, <4>1 DEF Walking, SearchedFor, Same
      <4> QED
        BY <4>2 DEF Accounted
    <3>3. CASE n = i
      <4>1. m.client = subs[j].dest /\ lib[i].active /\ ~lib[i].available
        BY <2>1, <3>1 DEF SearchedFor, Same, SlotInv, ActiveInUse
      <4>2. \/ m.type = subs[j].mid
            \/ m.type = REQ_REG_CANCELLATION /\ subs[j].mid = REQ_REG_FUTURE
        BY <3>1 DEF SearchedFor
      <4> HIDE DEF m, n
      <4>3. CASE ByReqReg(m) /\ WalkReqReg(m, n)
        <5>1. subs[j].mid = REQ_REG_FUTURE /\ m.type \in {REQ_REG_FUTURE, REQ_REG_CANCELLATION}
          <6>1. subs[j].mid # "ReqReg" /\ subs[j].mid # REQ_REG_CANCELLATION
            <7>1. subs[j].mid \in AllKinds
              BY <2>1, SubKind DEF Same, Types
            <7> QED
              BY <2>2, <7>1, KindsType DEF Claims
          <6> QED
            BY <4>2, <4>3, <6>1 DEF ByReqReg
        <5>2. lib[i].name \in Wants[subs[j].dest]
          BY <2>2, <5>1 DEF Claims
        <5>3. Matches(m.client, n) /\ m.type # "ReqReg"
          BY <3>3, <4>1, <5>1, <5>2 DEF Matches, REQ_REG_FUTURE, REQ_REG_CANCELLATION
        <5>4. Report(m.client, m.type, lib[i].comp) \in told'
          BY <3>3, <4>1, <4>3, <5>3 DEF WalkReqReg
        <5>5. Reported(j, i)'
          BY <2>1, <4>1, <5>1, <5>4, FutureReport DEF Reported, Same
        <5> QED
          BY <5>5 DEF Accounted
      <4>4. CASE ~ByReqReg(m) /\ WalkSearch(m, n)
        <5>1. m.type = subs[j].mid
          BY <4>2, <4>4 DEF ByReqReg
        <5>2. m.type \notin NotiKinds => Matches(m.client, n)
          <6>1. subs[j].mid \in AllKinds
            BY <2>1, SubKind DEF Same, Types
          <6>2. m.type \notin NotiKinds => m.type \in {SEARCH_REPLY, VAR_REQ_REPLY}
            BY <4>4, <5>1, <6>1 DEF AllKinds, ByReqReg
          <6> QED
            BY <2>2, <3>3, <4>1, <5>1, <6>2 DEF Claims, Matches
        <5>3. Report(m.client, m.type, lib[i].comp) \in told'
          BY <3>3, <4>1, <4>4, <5>2 DEF WalkSearch
        <5>4. Reported(j, i)'
          BY <2>1, <4>1, <5>1, <5>3 DEF Reported, Same
        <5> QED
          BY <5>4 DEF Accounted
      <4> QED
        BY <1>1, <1>2, <3>1, <4>3, <4>4
    <3> QED
      BY <1>2, <3>1, <3>2, <3>3
  <2> QED
    BY <2>2, <2>3, <2>4 DEF Accounted
<1> QED
  BY <1>6, <1>9 DEF AllToldInv, AllTold

\* Every step keeps it.
LEMMA AllToldNext ==
  ASSUME Types, SlotInv, EnteredOnly, OwnInv, AllToldInv, [Next]_vars
  PROVE  AllToldInv'
<1>0. "cancel" \in Ender /\ child \in Ender
  BY DEF Ender
<1>1. CASE \E c \in App \cup Sensor, t \in XThread : ListenxTEDS(c, t)
  BY <1>1, AllQuiet
<1>2. CASE \E t \in XThread : xTEDSStep(t)
  BY <1>2, AllQuiet, AllRegister, AllPublishStart DEF xTEDSStep
<1>3. CASE CancelStep
  BY <1>0, <1>3, AllQuiet, AllApply, AllRelease, AllPublishEnd DEF CancelStep
<1>4. CASE ChildStep
  BY <1>0, <1>4, AllQuiet, AllTake, AllWalk, AllError, AllPublishEnd DEF ChildStep
<1>5. CASE EnvNext
  BY <1>5, AllQuiet
<1>6. CASE UNCHANGED vars
  BY <1>6, AllQuiet
<1> QED
  BY <1>1, <1>2, <1>3, <1>4, <1>5, <1>6 DEF Next

\* ToldOfAll: with names of their own, and when no task that may fail is
\* killed for good, a client that asked for registrations to come has been
\* told of every component registered, by its search or by the publication,
\* when neither is under way.
THEOREM DmToldOfAll ==
  ASSUME OwnNames, MayKill \cap MayFail = {}
  PROVE  Spec => []ToldOfAll
<1>1. ASSUME AllToldInv PROVE ToldOfAll
  <2> SUFFICES ASSUME Quiet, NEW j \in DOMAIN subs, NEW i \in Slots, Claims(j, i)
               PROVE  Reported(j, i)
    BY DEF ToldOfAll, Claims, Reported
  <2>1. ~Publishing(j, i) /\ ~Walking(j, i) /\ ~Withdrawn(i)
    BY Threads DEF Quiet, Publishing, Publishes, Walking, Withdrawn, Holds
  <2> QED
    BY <1>1, <2>1 DEF AllToldInv, AllTold, Accounted
<1>2. Types /\ SlotInv /\ EndToldInv /\ [Next]_vars => EndToldInv'
  BY EndToldNext
<1>3. Types /\ SlotInv /\ [Next]_vars => SlotInv'
  BY SlotInvNext
<1>4. Types /\ SlotInv /\ OwnInv /\ [Next]_vars => OwnInv'
  BY OwnInvNext
<1>5. Types /\ SlotInv /\ EndToldInv /\ OwnInv /\ AllToldInv /\ [Next]_vars => AllToldInv'
  BY AllToldNext DEF EndToldInv
<1> QED
  BY TypesAlways, SlotInvInit, EndToldInit, OwnInit, AllToldInit,
     <1>1, <1>2, <1>3, <1>4, <1>5, PTL DEF Spec
=============================================================================
