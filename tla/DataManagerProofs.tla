------------------------- MODULE DataManagerProofs -------------------------
(***************************************************************************)
(* Theorems about DataManager, for any components, threads and requests    *)
(* and every value of the bounds: the state is well-typed and addLibrary   *)
(* is held by one thread at most; and, when no two components have one     *)
(* name, no component is registered in two slots.                          *)
(***************************************************************************)
EXTENDS DataManager, FiniteSetTheorems, WellFoundedInduction, TLAPS

-----------------------------------------------------------------------------
(* Searches.                                                               *)

First(S) == IF S # {} THEN Min(S) ELSE 0

\* The first of a set of indices is one of them.
LEMMA FirstIn ==
  ASSUME NEW S, S \subseteq Nat
  PROVE  IF S = {} THEN First(S) = 0 ELSE First(S) \in S
<1> SUFFICES ASSUME S # {} PROVE Min(S) \in S
  BY DEF First
<1> DEFINE R == {ss \in Nat \X Nat : ss[1] < ss[2]}
<1>1. IsWellFoundedOn(R, Nat)
  BY NatLessThanWellFounded, Zenon DEF OpToRel
<1>2. \A x, y \in Nat : x < y => <<x, y>> \in R
  OBVIOUS
<1> HIDE DEF R
<1>3. PICK x \in S : \A y \in S : ~(<<y, x>> \in R)
  BY <1>1, WFMin
<1>4. \A y \in S : x <= y
  <2> TAKE y \in S
  <2>1. x \in Nat /\ y \in Nat /\ ~(y < x)
    BY <1>2, <1>3
  <2> QED
    BY <2>1
<1> QED
  BY <1>4 DEF Min

LibType == lib \in Seq(SlotType) /\ lib # << >>

\* The slot a registration takes: one of that name, or a free one.
LEMMA FindRegistered ==
  ASSUME LibType, NEW c
  PROVE  \/ /\ AlreadyRegistered(c) = 0
            /\ \A i \in Slots : ~lib[i].available /\ lib[i].name = NameOf[c]
                                  => lib[i].active /\ lib[i].comp # c
         \/ /\ AlreadyRegistered(c) \in Slots /\ AlreadyRegistered(c) # 0
            /\ ~lib[AlreadyRegistered(c)].available
            /\ lib[AlreadyRegistered(c)].name = NameOf[c]
            /\ \/ ~lib[AlreadyRegistered(c)].active
               \/ lib[AlreadyRegistered(c)].comp = c
<1> DEFINE I == {i \in 1..Len(lib) : /\ ~lib[i].available /\ lib[i].name = NameOf[c]
                                     /\ ~lib[i].active \/ lib[i].comp = c}
<1>1. AlreadyRegistered(c) = First(I)
  BY DEF AlreadyRegistered, SelectInSeq, First
<1>2. I \subseteq Nat /\ Slots = 1..Len(lib)
  BY DEF LibType, Slots
<1>3. IF I = {} THEN First(I) = 0 ELSE First(I) \in I
  BY <1>2, FirstIn
<1>4. CASE I = {}
  BY <1>1, <1>2, <1>3, <1>4
<1>5. CASE I # {}
  BY <1>1, <1>2, <1>3, <1>5
<1> QED
  BY <1>4, <1>5

\* The slot a new registration gets: a free one, or one more.
LEMMA FindFree ==
  ASSUME LibType
  PROVE  \/ FreeSlot = Len(lib) + 1
         \/ FreeSlot \in Slots /\ lib[FreeSlot].available
<1> DEFINE I == {i \in 2..Len(lib) : lib[i].available}
<1>1. FreeSlot = IF First(I) = 0 THEN Len(lib) + 1 ELSE First(I)
  BY DEF FreeSlot, SelectInSubSeq, First
<1>2. I \subseteq Nat /\ Slots = 1..Len(lib) /\ Len(lib) \in Nat
  BY DEF LibType, Slots
<1>3. IF I = {} THEN First(I) = 0 ELSE First(I) \in I
  BY <1>2, FirstIn
<1>4. \A i \in I : i \in 1..Len(lib) /\ lib[i].available
  BY <1>2
<1> QED
  BY <1>1, <1>2, <1>3, <1>4

\* The slots a cancellation and a failure are for.
LEMMA FindTarget ==
  ASSUME LibType, NEW m
  PROVE  /\ \/ /\ CancelTarget(m) = 0
               /\ \A i \in Slots : ~lib[i].available /\ lib[i].active
                    => IF m.byPM THEN lib[i].comp \in App => lib[i].pid # m.pid
                       ELSE lib[i].comp # m.comp
            \/ /\ CancelTarget(m) \in Slots
               /\ ~lib[CancelTarget(m)].available /\ lib[CancelTarget(m)].active
               /\ IF m.byPM THEN lib[CancelTarget(m)].pid = m.pid
                  ELSE lib[CancelTarget(m)].comp = m.comp
         /\ \/ ErrorTarget(m) = 0
            \/ /\ ErrorTarget(m) \in Slots
               /\ ~lib[ErrorTarget(m)].available /\ lib[ErrorTarget(m)].active
               /\ lib[ErrorTarget(m)].pid = m.pid
<1> DEFINE I == {i \in 1..Len(lib) :
                   /\ ~lib[i].available /\ lib[i].active
                   /\ IF m.byPM THEN lib[i].comp \in App /\ lib[i].pid = m.pid
                      ELSE lib[i].comp = m.comp}
           J == {i \in 1..Len(lib) :
                   ~lib[i].available /\ lib[i].active /\ lib[i].pid = m.pid}
<1>1. CancelTarget(m) = First(I) /\ ErrorTarget(m) = First(J)
  BY DEF CancelTarget, ErrorTarget, SelectInSeq, First
<1>2. I \subseteq Nat /\ J \subseteq Nat /\ Slots = 1..Len(lib)
  BY DEF LibType, Slots
<1>3. /\ IF I = {} THEN First(I) = 0 ELSE First(I) \in I
      /\ IF J = {} THEN First(J) = 0 ELSE First(J) \in J
  BY <1>2, FirstIn
<1>4. \/ /\ CancelTarget(m) = 0
         /\ \A i \in Slots : ~lib[i].available /\ lib[i].active
              => IF m.byPM THEN lib[i].comp \in App => lib[i].pid # m.pid
                 ELSE lib[i].comp # m.comp
      \/ /\ CancelTarget(m) \in Slots
         /\ ~lib[CancelTarget(m)].available /\ lib[CancelTarget(m)].active
         /\ IF m.byPM THEN lib[CancelTarget(m)].pid = m.pid
            ELSE lib[CancelTarget(m)].comp = m.comp
  BY <1>1, <1>2, <1>3
<1>5. \/ ErrorTarget(m) = 0
      \/ /\ ErrorTarget(m) \in Slots
         /\ ~lib[ErrorTarget(m)].available /\ lib[ErrorTarget(m)].active
         /\ lib[ErrorTarget(m)].pid = m.pid
  BY <1>1, <1>2, <1>3
<1> QED
  BY <1>4, <1>5

-----------------------------------------------------------------------------
(* Types.                                                                  *)

\* The kinds of subscriptions and requests.
LEMMA KindsType ==
  /\ NotiKinds \subseteq AllKinds
  /\ {REQ_REG_FUTURE, REQ_REG_CANCELLATION, SEARCH_REPLY, VAR_REQ_REPLY} \subseteq AllKinds
  /\ {NOTI_REGISTRATION, NOTI_DEREGISTRATION, NOTI_REGISTRATION_CHANGE} \subseteq AllKinds
  /\ {"ReqReg", "Unsubscribe", "TaskError", "Consume", "Cancel"} \cap AllKinds = {}
BY DEF AllKinds, NotiKinds, NOTI_REGISTRATION, NOTI_DEREGISTRATION,
       NOTI_REGISTRATION_CHANGE, REQ_REG_FUTURE, REQ_REG_CANCELLATION, SEARCH_REPLY,
       VAR_REQ_REPLY

\* The messages.
Pid == Comp \X Nat
xTEDSMsg == [type : {"xTEDS"}, comp : App \cup Sensor, pid : Pid]
CancelMsg == [type : {"CancelxTEDS"}, comp : Comp, pid : Pid, byPM : BOOLEAN,
              full : BOOLEAN]
RequestMsg == [type : AllKinds \cup {"ReqReg"}, client : Client]
UnsubscribeMsg == [type : {"Unsubscribe"}, client : Client, kind : AllKinds]
ErrorMsg == [type : {"TaskError"}, comp : App \cup Sensor, pid : Pid]
ConsumeMsg == [type : {"Consume", "Cancel"}, client : Client, prov : Comp,
               sid : Nat \X Nat, hasId : BOOLEAN]
PipeMsg == RequestMsg \cup UnsubscribeMsg \cup ErrorMsg \cup ConsumeMsg
Message == {NoMsg} \cup xTEDSMsg \cup CancelMsg \cup PipeMsg

SubType == [dest : Client, mid : AllKinds, inuse : BOOLEAN]

ListType == subs \in Seq(SubType)

QueueType == /\ pipe \in Seq(PipeMsg)
             /\ cancelQueue \in Seq(CancelMsg)
             /\ cancelNext \in BOOLEAN

Pcs == {"idle", "parse", "wait", "publish", "finish", "walk", "post", "consume"}

ThreadType ==
  /\ pc \in [Thread -> Pcs]
  /\ cur \in [Thread -> Message]
  /\ todo \in [Thread -> Seq(AllKinds)]
  /\ at \in [Thread -> Nat \ {0}]
  /\ \A t \in XThread : pc[t] # "idle" => cur[t] \in xTEDSMsg
  /\ pc["cancel"] # "idle" => cur["cancel"] \in CancelMsg
  /\ pc[child] = "walk" => cur[child] \in RequestMsg

WalkType ==
  /\ walk \in [pos : Nat, num : Nat, size : Nat, matched : SUBSET Nat, sent : BOOLEAN]
  /\ pc[child] = "walk" => walk.pos # 0

RefType ==
  /\ ref \in [Thread -> 0..Len(lib)]
  /\ \A t \in Thread : Holding(t) => ref[t] # 0

EnvType ==
  /\ starts \in [App \cup Sensor -> Nat]
  /\ conf \subseteq Comp /\ due \subseteq App
  /\ told \subseteq Client \X AllKinds \X Comp

\* addLibrary is free, or one thread holds it.
Lock ==
  \/ addLibrary = 1 /\ \A t \in Thread : ~Holding(t)
  \/ addLibrary = 0 /\ \E t \in Thread : /\ Holding(t)
                                         /\ \A u \in Thread : Holding(u) => u = t

Types == /\ LibType /\ ListType /\ QueueType /\ ThreadType /\ WalkType
         /\ RefType /\ EnvType /\ Lock

\* The threads are different ones.
LEMMA Threads == "cancel" \in Thread /\ child \in Thread /\ XThread \subseteq Thread
                 /\ child \notin XThread /\ "cancel" \notin XThread /\ child # "cancel"
BY DmCompAssumption DEF Thread, child

\* Applications, sensors and the DM itself are components.
LEMMA Components == App \subseteq Comp /\ Sensor \subseteq Comp /\ DM \in Comp
                    /\ App \subseteq Client
BY DEF Comp, Client

\* The initial state has its types, and addLibrary is free.
LEMMA TypesInit == Init => Types
<1> SUFFICES ASSUME Init PROVE Types
  OBVIOUS
<1>1. LibType
  <2>1. LocalOf[DM] \in Nat /\ NameOf[DM] \in Name
    BY DmFunAssumption, Components
  <2>2. DmSlot \in SlotType
    BY <2>1, Components DEF DmSlot, SlotType
  <2> QED
    BY <2>2 DEF LibType, Init
<1>2. ListType /\ QueueType
  BY DEF Init, ListType, QueueType
<1>3. \A t \in Thread : pc[t] = "idle"
  BY DEF Init
<1>4. ThreadType
  <2>1. /\ pc \in [Thread -> Pcs] /\ cur \in [Thread -> Message]
        /\ todo \in [Thread -> Seq(AllKinds)] /\ at \in [Thread -> Nat \ {0}]
    BY DEF Init, Pcs, Message
  <2> QED
    BY <1>3, <2>1, Threads DEF ThreadType
<1>5. WalkType
  BY <1>3, Threads DEF Init, WalkType, NoWalk
<1>6. RefType
  BY <1>1, <1>3 DEF Init, RefType, Holding, LibType
<1>7. EnvType
  BY DEF Init, EnvType
<1>8. Lock
  BY <1>3 DEF Init, Lock, Holding
<1> QED
  BY <1>1, <1>2, <1>4, <1>5, <1>6, <1>7, <1>8 DEF Types

-----------------------------------------------------------------------------
(* What is done to the slots.                                              *)

\* Changing one slot leaves the others and the length of the list alone.
LEMMA ChangeSlot ==
  ASSUME LibType, NEW i \in Slots, NEW e \in SlotType, lib' = [lib EXCEPT ![i] = e]
  PROVE  /\ LibType' /\ Len(lib') = Len(lib) /\ lib'[i] = e
         /\ \A j \in Slots : j # i => lib'[j] = lib[j]
BY DEF LibType, Slots

\* A sensor id is a pair of numbers.
LEMMA SidType ==
  ASSUME NEW c \in Comp, NEW i \in Nat \ {0}
  PROVE  Sid(c, i) \in Nat \X Nat
<1>1. LocalOf[c] \in Nat /\ i - 1 \in Nat
  BY DmFunAssumption
<1> QED
  BY <1>1 DEF Sid

\* A component found again is put into its old slot, in use as before.
LEMMA ReactivateSlot ==
  ASSUME LibType, NEW i \in Slots, NEW c \in Comp, NEW pid \in Pid,
         lib' = Reactivate(i, c, pid)
  PROVE  /\ LibType' /\ Len(lib') = Len(lib)
         /\ \A j \in Slots : j # i => lib'[j] = lib[j]
         /\ lib'[i].available = lib[i].available /\ lib'[i].active = TRUE
         /\ lib'[i].comp = c /\ lib'[i].name = lib[i].name /\ lib'[i].pid = pid
         /\ lib'[i].posted = lib[i].posted
<1> DEFINE s == lib[i]
           e1 == [s EXCEPT !.active = TRUE, !.comp = c]
           e2 == [e1 EXCEPT !.pid = pid, !.sid = Sid(c, i)]
<1>1. s \in SlotType /\ Sid(c, i) \in Nat \X Nat
  BY SidType DEF LibType, Slots
<1>2. lib' = [lib EXCEPT ![i] = e2]
  BY DEF Reactivate, Slots, LibType
<1>3. /\ e1 \in SlotType /\ e1.available = s.available /\ e1.active = TRUE
      /\ e1.comp = c /\ e1.name = s.name /\ e1.posted = s.posted
  BY <1>1 DEF SlotType
<1> HIDE DEF e1
<1>4. /\ e2 \in SlotType /\ e2.available = e1.available /\ e2.active = e1.active
      /\ e2.comp = e1.comp /\ e2.name = e1.name /\ e2.pid = pid
      /\ e2.posted = e1.posted
  BY <1>1, <1>3 DEF SlotType, Pid
<1> HIDE DEF e2
<1>5. /\ LibType' /\ Len(lib') = Len(lib) /\ lib'[i] = e2
      /\ \A j \in Slots : j # i => lib'[j] = lib[j]
  BY <1>2, <1>4, ChangeSlot
<1> QED
  BY <1>3, <1>4, <1>5

\* A new component is put into the slot found, or at the end of the list.
LEMMA StoreSlot ==
  ASSUME LibType, NEW i \in 1..(Len(lib) + 1), NEW c \in Comp, NEW pid \in Pid
  PROVE  \E e \in SlotType :
           /\ i \in Slots => StoreInfo(i, c, pid) = [lib EXCEPT ![i] = e]
           /\ i \notin Slots => StoreInfo(i, c, pid) = Append(lib, e)
           /\ e.available <=> c \in Malformed
           /\ e.active <=> c \notin Malformed
           /\ e.comp = c /\ e.name = NameOf[c] /\ e.pid = pid
<1> DEFINE posted == i \in Slots /\ lib[i].posted
           e == [available |-> c \in Malformed, active |-> c \notin Malformed,
                 posted |-> posted, comp |-> c, pid |-> pid,
                 name |-> NameOf[c], sid |-> Sid(c, i)]
<1>1. Sid(c, i) \in Nat \X Nat /\ NameOf[c] \in Name
  <2>1. i \in Nat \ {0}
    BY DEF LibType
  <2>2. Sid(c, i) \in Nat \X Nat
    BY <2>1, SidType
  <2> QED
    BY <2>2, DmFunAssumption
<1>2. posted \in BOOLEAN
  BY DEF LibType, Slots, SlotType
<1>3. e \in SlotType
  BY <1>1, <1>2 DEF SlotType, Pid
<1>4. StoreInfo(i, c, pid) = IF i \in Slots THEN [lib EXCEPT ![i] = e] ELSE Append(lib, e)
  BY DEF StoreInfo
<1> QED
  BY <1>3, <1>4

\* A cancellation changes flags of the slot; its owner and name stay.
LEMMA DeactivateSlot ==
  ASSUME LibType, NEW i \in Slots, NEW full \in BOOLEAN
  PROVE  \E e \in SlotType :
           /\ Deactivate(i, full) = [lib EXCEPT ![i] = e]
           /\ e.available = lib[i].available /\ e.comp = lib[i].comp
           /\ e.name = lib[i].name /\ e.pid = lib[i].pid
           /\ lib[i].comp \notin Sensor => e.active = full /\ e.posted = FALSE
<1>1. lib[i] \in SlotType
  BY DEF LibType, Slots
<1>2. CASE lib[i].comp \in Sensor
  <2> DEFINE v == IF full THEN TRUE ELSE lib[i].active
             e == [lib[i] EXCEPT !.active = v]
  <2>1. v \in BOOLEAN
    BY <1>1 DEF SlotType
  <2>2. Deactivate(i, full) = [lib EXCEPT ![i] = e]
    BY <1>2 DEF Deactivate, LibType, Slots
  <2> HIDE DEF v
  <2>3. /\ e \in SlotType /\ e.available = lib[i].available /\ e.comp = lib[i].comp
        /\ e.name = lib[i].name /\ e.pid = lib[i].pid
    BY <1>1, <2>1 DEF SlotType
  <2> QED
    BY <1>2, <2>2, <2>3
<1>3. CASE lib[i].comp \notin Sensor
  <2> DEFINE e == [lib[i] EXCEPT !.active = full, !.posted = FALSE]
  <2>1. Deactivate(i, full) = [lib EXCEPT ![i] = e]
    BY <1>3 DEF Deactivate, LibType, Slots
  <2>2. /\ e \in SlotType /\ e.available = lib[i].available /\ e.comp = lib[i].comp
        /\ e.name = lib[i].name /\ e.pid = lib[i].pid
        /\ e.active = full /\ e.posted = FALSE
    BY <1>1 DEF SlotType
  <2> QED
    BY <2>1, <2>2
<1> QED
  BY <1>2, <1>3

\* So does the failure of a task.
LEMMA FailSlot ==
  ASSUME LibType, NEW i \in Slots
  PROVE  \E e \in SlotType :
           /\ Fail(i) = [lib EXCEPT ![i] = e]
           /\ e.available = lib[i].available /\ e.active = FALSE
           /\ e.comp = lib[i].comp /\ e.name = lib[i].name /\ e.pid = lib[i].pid
           /\ e.posted = TRUE
<1> DEFINE e == [lib[i] EXCEPT !.active = FALSE, !.posted = TRUE]
<1>1. lib[i] \in SlotType
  BY DEF LibType, Slots
<1>2. Fail(i) = [lib EXCEPT ![i] = e]
  BY DEF Fail, LibType, Slots
<1>3. /\ e \in SlotType /\ e.available = lib[i].available /\ e.active = FALSE
      /\ e.comp = lib[i].comp /\ e.name = lib[i].name /\ e.pid = lib[i].pid
      /\ e.posted = TRUE
  BY <1>1 DEF SlotType
<1> QED
  BY <1>2, <1>3

\* The last step of a cancellation frees the slot or leaves it alone.
LEMMA ReleaseSlot ==
  ASSUME LibType, NEW i \in Slots
  PROVE  \/ Release(i) = lib /\ ~(lib[i].comp # DM /\ lib[i].active)
         \/ \E e \in SlotType :
              /\ Release(i) = [lib EXCEPT ![i] = e] /\ lib[i].active
              /\ e.available = TRUE /\ e.active = FALSE
              /\ e.comp = lib[i].comp /\ e.name = lib[i].name /\ e.pid = lib[i].pid
<1> DEFINE e == [lib[i] EXCEPT !.available = TRUE, !.active = FALSE]
<1>1. lib[i] \in SlotType
  BY DEF LibType, Slots
<1>2. \/ Release(i) = lib /\ ~(lib[i].comp # DM /\ lib[i].active)
      \/ Release(i) = [lib EXCEPT ![i] = e] /\ lib[i].active
  BY DEF Release, LibType, Slots
<1>3. /\ e \in SlotType /\ e.available = TRUE /\ e.active = FALSE
      /\ e.comp = lib[i].comp /\ e.name = lib[i].name /\ e.pid = lib[i].pid
  BY <1>1 DEF SlotType
<1> QED
  BY <1>2, <1>3

\* Posting tasks leaves whose the slots are, and in which state.
SlotKept(i) ==
  /\ lib'[i].available = lib[i].available /\ lib'[i].active = lib[i].active
  /\ lib'[i].comp = lib[i].comp /\ lib'[i].name = lib[i].name
  /\ lib'[i].pid = lib[i].pid

\* PostTask marks slots as posted and changes nothing else of them.
LEMMA PostEffect ==
  ASSUME LibType, EnvType, NEW S, PostTask(S)
  PROVE  /\ LibType' /\ Len(lib') = Len(lib) /\ \A i \in Slots : SlotKept(i)
         /\ due' \subseteq App
<1> DEFINE P(i) == IF i \in S THEN [lib[i] EXCEPT !.posted = TRUE] ELSE lib[i]
<1>1. Slots = 1..Len(lib) /\ Len(lib) \in Nat \ {0} /\ \A i \in Slots : lib[i] \in SlotType
  BY DEF LibType, Slots
<1>2. ASSUME NEW i \in Slots
      PROVE  /\ P(i) \in SlotType
             /\ P(i).available = lib[i].available /\ P(i).active = lib[i].active
             /\ P(i).comp = lib[i].comp /\ P(i).name = lib[i].name
             /\ P(i).pid = lib[i].pid
  BY <1>1 DEF SlotType
<1>3. lib' = [i \in Slots |-> P(i)]
  BY DEF PostTask
<1> HIDE DEF P
<1>4. lib' \in [1..Len(lib) -> SlotType]
  BY <1>1, <1>2, <1>3
<1>5. lib' \in Seq(SlotType) /\ Len(lib') = Len(lib)
  BY <1>1, <1>4
<1>6. LibType'
  BY <1>1, <1>5 DEF LibType
<1>7. \A i \in Slots : SlotKept(i)
  BY <1>2, <1>3 DEF SlotKept
<1>8. due' \subseteq App
  BY DEF PostTask, EnvType
<1> QED
  BY <1>5, <1>6, <1>7, <1>8

-----------------------------------------------------------------------------
(* Subscriptions and reports.                                              *)

\* A subscription added to a list of them.
LEMMA AddType ==
  ASSUME NEW l \in Seq(SubType), NEW s \in Client, NEW k \in AllKinds
  PROVE  addSubscription(l, s, k) \in Seq(SubType)
<1> DEFINE e == [dest |-> s, mid |-> k, inuse |-> TRUE]
           J == {i \in 1..Len(l) : ~l[i].inuse}
           j == First(J)
<1>1. e \in SubType
  BY DEF SubType
<1>2. J \subseteq Nat /\ J \subseteq DOMAIN l
  OBVIOUS
<1>3. j = 0 \/ j \in DOMAIN l
  BY <1>2, FirstIn
<1>4. addSubscription(l, s, k) = IF \E x \in Range(l) : x = e THEN l
                                 ELSE IF j = 0 THEN Append(l, e) ELSE [l EXCEPT ![j] = e]
  BY DEF addSubscription, SelectInSeq, First
<1> HIDE DEF e, j
<1>5. Append(l, e) \in Seq(SubType)
  BY <1>1
<1>6. j \in DOMAIN l => [l EXCEPT ![j] = e] \in Seq(SubType)
  BY <1>1
<1> QED
  BY <1>3, <1>4, <1>5, <1>6

\* A subscription added to the DM's list.
LEMMA AddReqRegType ==
  ASSUME ListType, NEW s \in Client, NEW k \in AllKinds
  PROVE  addReqRegSubscription(s, k) \in Seq(SubType)
<1>1. REQ_REG_FUTURE \in AllKinds
  BY KindsType
<1>2. addSubscription(subs, s, REQ_REG_FUTURE) \in Seq(SubType)
  BY <1>1, AddType DEF ListType
<1>3. addSubscription(addSubscription(subs, s, REQ_REG_FUTURE), s, k) \in Seq(SubType)
  BY <1>2, AddType
<1>4. addSubscription(subs, s, k) \in Seq(SubType)
  BY AddType DEF ListType
<1> QED
  BY <1>3, <1>4 DEF addReqRegSubscription

\* Subscriptions removed from a list.
LEMMA RemoveType ==
  ASSUME NEW l \in Seq(SubType), NEW s, NEW ks
  PROVE  removeSubscriptions(l, s, ks) \in Seq(SubType)
<1> DEFINE P(j) == IF l[j].dest = s /\ l[j].mid \in ks
                   THEN [l[j] EXCEPT !.inuse = FALSE] ELSE l[j]
<1>1. DOMAIN l = 1..Len(l) /\ Len(l) \in Nat
  OBVIOUS
<1>2. ASSUME NEW j \in 1..Len(l) PROVE P(j) \in SubType
  <2>1. l[j] \in SubType
    OBVIOUS
  <2>2. [l[j] EXCEPT !.inuse = FALSE] \in SubType
    BY <2>1 DEF SubType
  <2> QED
    BY <2>1, <2>2
<1>3. removeSubscriptions(l, s, ks) = [j \in 1..Len(l) |-> P(j)]
  BY <1>1 DEF removeSubscriptions
<1> HIDE DEF P
<1>4. [j \in 1..Len(l) |-> P(j)] \in [1..Len(l) -> SubType]
  BY <1>2
<1>5. [j \in 1..Len(l) |-> P(j)] \in Seq(SubType)
  BY <1>1, <1>4
<1> QED
  BY <1>3, <1>5

\* What a subscriber is told has its type.
LEMMA ReportType ==
  ASSUME NEW s \in Client, NEW k \in AllKinds, NEW c \in Comp
  PROVE  Report(s, k, c) \in Client \X AllKinds \X Comp
<1>1. REQ_REG_FUTURE \in AllKinds /\ NOTI_REGISTRATION \in AllKinds
  BY KindsType
<1>2. PICK q \in AllKinds : Report(s, k, c) = <<s, q, c>>
  BY <1>1 DEF Report
<1> QED
  BY <1>2

\* A slot of the list names a component.
LEMMA SlotComp ==
  ASSUME LibType, NEW i \in Slots
  PROVE  lib[i] \in SlotType /\ lib[i].comp \in Comp
<1>1. lib[i] \in SlotType
  BY DEF LibType, Slots
<1> QED
  BY <1>1 DEF SlotType

\* The stages of a notification are kinds of subscriptions.
LEMMA StagesType ==
  RegistrationStages \in Seq(AllKinds) /\ CancellationStages \in Seq(AllKinds)
<1>1. \A k \in AllKinds : Stage(k) \in Seq(AllKinds)
  BY DEF Stage
<1>2. /\ Stage(NOTI_REGISTRATION) \in Seq(AllKinds)
      /\ Stage(NOTI_REGISTRATION_CHANGE) \in Seq(AllKinds)
      /\ Stage(SEARCH_REPLY) \in Seq(AllKinds)
      /\ Stage(REQ_REG_FUTURE) \in Seq(AllKinds)
      /\ Stage(VAR_REQ_REPLY) \in Seq(AllKinds)
      /\ Stage(REQ_REG_CANCELLATION) \in Seq(AllKinds)
      /\ Stage(NOTI_DEREGISTRATION) \in Seq(AllKinds)
  BY <1>1, KindsType
<1> QED
  BY <1>2 DEF RegistrationStages, CancellationStages

\* What the messages carry.
LEMMA MsgFacts ==
  ASSUME NEW m
  PROVE  /\ m \in xTEDSMsg => m.comp \in Comp /\ m.comp \in App \cup Sensor /\ m.pid \in Pid
         /\ m \in CancelMsg => m.full \in BOOLEAN
         /\ m \in RequestMsg => /\ m.client \in Client
                                /\ m.type \in AllKinds \cup {"ReqReg"}
<1>1. m \in xTEDSMsg => m.comp \in App \cup Sensor /\ m.pid \in Pid
  BY DEF xTEDSMsg
<1>2. m \in CancelMsg => m.full \in BOOLEAN
  BY DEF CancelMsg
<1>3. m \in RequestMsg => m.client \in Client /\ m.type \in AllKinds \cup {"ReqReg"}
  BY DEF RequestMsg
<1> QED
  BY <1>1, <1>2, <1>3, Components

\* Which message of the pipe is a request, and who cancels a subscription.
LEMMA PipeFacts ==
  ASSUME NEW m \in PipeMsg
  PROVE  /\ m.type \in AllKinds \cup {"ReqReg"} => m \in RequestMsg
         /\ m.type = "Unsubscribe" => m.client \in Client
<1>1. CASE m \in RequestMsg
  <2>1. m.client \in Client
    BY <1>1, MsgFacts
  <2> QED
    BY <1>1, <2>1
<1>2. CASE m \in UnsubscribeMsg
  <2>1. m.type = "Unsubscribe" /\ m.client \in Client
    BY <1>2 DEF UnsubscribeMsg
  <2> QED
    BY <2>1, KindsType
<1>3. CASE m \in ErrorMsg
  <2>1. m.type = "TaskError"
    BY <1>3 DEF ErrorMsg
  <2> QED
    BY <2>1, KindsType
<1>4. CASE m \in ConsumeMsg
  <2>1. m.type = "Consume" \/ m.type = "Cancel"
    BY <1>4 DEF ConsumeMsg
  <2> QED
    BY <2>1, KindsType
<1> QED
  BY <1>1, <1>2, <1>3, <1>4 DEF PipeMsg

-----------------------------------------------------------------------------
(* The semaphore.                                                          *)

\* addLibrary stays with its holder.
LEMMA LockKept ==
  ASSUME Lock, addLibrary' = addLibrary, \A t \in Thread : Holding(t)' <=> Holding(t)
  PROVE  Lock'
BY DEF Lock

\* A Wait makes the thread the only holder.
LEMMA LockTaken ==
  ASSUME Lock, Wait, NEW t \in Thread, Holding(t)',
         \A u \in Thread \ {t} : Holding(u)' <=> Holding(u)
  PROVE  Lock'
BY DEF Lock, Wait

\* A Signal by the holder frees addLibrary.
LEMMA LockGiven ==
  ASSUME Lock, Signal, NEW t \in Thread, Holding(t), ~Holding(t)',
         \A u \in Thread \ {t} : Holding(u)' <=> Holding(u)
  PROVE  Lock'
BY DEF Lock, Signal

-----------------------------------------------------------------------------
(* The steps keep the types.                                               *)

\* Thread t goes to x, and has message m in hand.
LEMMA Move ==
  ASSUME ThreadType, NEW t \in Thread, NEW x \in Pcs, NEW m \in Message,
         pc' = [pc EXCEPT ![t] = x], cur' = [cur EXCEPT ![t] = m],
         todo' \in [Thread -> Seq(AllKinds)], at' \in [Thread -> Nat \ {0}],
         t \in XThread /\ x # "idle" => m \in xTEDSMsg,
         t = "cancel" /\ x # "idle" => m \in CancelMsg,
         t = child /\ x = "walk" => m \in RequestMsg
  PROVE  /\ ThreadType'
         /\ pc'[t] = x /\ \A u \in Thread \ {t} : pc'[u] = pc[u]
         /\ Holding(t)' <=> x \in {"publish", "finish"}
         /\ \A u \in Thread \ {t} : Holding(u)' <=> Holding(u)
<1>1. /\ pc' \in [Thread -> Pcs] /\ pc'[t] = x /\ \A u \in Thread \ {t} : pc'[u] = pc[u]
      /\ cur' \in [Thread -> Message] /\ cur'[t] = m
      /\ \A u \in Thread \ {t} : cur'[u] = cur[u]
  BY DEF ThreadType
<1>2. ThreadType'
  BY <1>1, Threads DEF ThreadType
<1>3. /\ Holding(t)' <=> x \in {"publish", "finish"}
      /\ \A u \in Thread \ {t} : Holding(u)' <=> Holding(u)
  BY <1>1 DEF Holding
<1> QED
  BY <1>1, <1>2, <1>3

\* A thread that keeps its message.
LEMMA KeepMsg ==
  ASSUME ThreadType, NEW t \in Thread
  PROVE  cur = [cur EXCEPT ![t] = cur[t]] /\ cur[t] \in Message
BY DEF ThreadType

\* The others keep their slots.
LEMMA MoveRef ==
  ASSUME RefType, LibType, NEW t \in Thread,
         Len(lib') \in Nat, Len(lib) <= Len(lib'),
         \A u \in Thread \ {t} : Holding(u)' <=> Holding(u),
         \/ UNCHANGED ref /\ (Holding(t)' => ref[t] # 0)
         \/ \E r \in 0..Len(lib') : ref' = [ref EXCEPT ![t] = r] /\ (Holding(t)' => r # 0)
  PROVE  RefType'
<1>1. Len(lib) \in Nat
  BY DEF LibType
<1>2. ref \in [Thread -> 0..Len(lib')]
  BY <1>1 DEF RefType
<1>3. CASE UNCHANGED ref /\ (Holding(t)' => ref[t] # 0)
  BY <1>2, <1>3 DEF RefType
<1>4. ASSUME NEW r \in 0..Len(lib'), ref' = [ref EXCEPT ![t] = r], Holding(t)' => r # 0
      PROVE  RefType'
  BY <1>2, <1>4 DEF RefType
<1> QED
  BY <1>3, <1>4

\* The child's walk through the list keeps its type when it is not moved.
LEMMA WalkKept ==
  ASSUME WalkType, walk' = walk, pc'[child] = pc[child] \/ pc'[child] # "walk"
  PROVE  WalkType'
BY DEF WalkType

\* An xTEDS thread takes a registration.
LEMMA ListenTypes ==
  ASSUME Types, NEW c \in App \cup Sensor, NEW t \in XThread, ListenxTEDS(c, t)
  PROVE  Types'
<1> USE DEF Types, dmVars, envVars
<1> DEFINE m == [type |-> "xTEDS", comp |-> c, pid |-> <<c, starts[c]>>]
<1>1. t \in Thread /\ t # child /\ child \in Thread
  BY Threads
<1>2. m \in xTEDSMsg /\ m \in Message
  BY Components DEF xTEDSMsg, Message, Pid, EnvType
<1>3. /\ pc' = [pc EXCEPT ![t] = "parse"] /\ cur' = [cur EXCEPT ![t] = m]
      /\ UNCHANGED <<dmVars, ref, todo, at, walk, envVars>> /\ pc[t] = "idle"
  BY DEF ListenxTEDS
<1> HIDE DEF m
<1>4. "parse" \in Pcs /\ "parse" # "idle" /\ t # "cancel"
      /\ todo' \in [Thread -> Seq(AllKinds)] /\ at' \in [Thread -> Nat \ {0}]
  BY <1>3, Threads DEF Pcs, ThreadType
<1>5. /\ ThreadType' /\ pc'[t] = "parse" /\ \A u \in Thread \ {t} : pc'[u] = pc[u]
      /\ ~Holding(t)' /\ \A u \in Thread \ {t} : Holding(u)' <=> Holding(u)
  BY <1>1, <1>2, <1>3, <1>4, Move
<1>6. ~Holding(t)
  BY <1>3 DEF Holding
<1>7. Lock'
  BY <1>3, <1>5, <1>6, LockKept
<1>8. RefType'
  BY <1>3, <1>5, <1>6 DEF RefType
<1>9. WalkType'
  BY <1>1, <1>3, <1>5, WalkKept
<1> QED
  BY <1>3, <1>5, <1>7, <1>8, <1>9 DEF LibType, ListType, QueueType, EnvType

\* An xTEDS thread has parsed it and waits for addLibrary.
LEMMA ParseTypes ==
  ASSUME Types, NEW t \in XThread, Parse(t)
  PROVE  Types'
<1> USE DEF Types, dmVars, envVars
<1>1. t \in Thread /\ t # child /\ child \in Thread
  BY Threads
<1>2. /\ pc' = [pc EXCEPT ![t] = "wait"] /\ pc[t] = "parse"
      /\ UNCHANGED <<dmVars, cur, ref, todo, at, walk, envVars>>
  BY DEF Parse
<1>3. "wait" \in Pcs /\ t # "cancel" /\ cur[t] \in xTEDSMsg
      /\ todo' \in [Thread -> Seq(AllKinds)] /\ at' \in [Thread -> Nat \ {0}]
  BY <1>2, Threads DEF Pcs, ThreadType
<1>4. cur' = [cur EXCEPT ![t] = cur[t]] /\ cur[t] \in Message
  BY <1>1, <1>2, KeepMsg
<1>5. /\ ThreadType' /\ pc'[t] = "wait" /\ \A u \in Thread \ {t} : pc'[u] = pc[u]
      /\ ~Holding(t)' /\ \A u \in Thread \ {t} : Holding(u)' <=> Holding(u)
  BY <1>1, <1>2, <1>3, <1>4, Move
<1>6. ~Holding(t)
  BY <1>2 DEF Holding
<1>7. Lock'
  BY <1>2, <1>5, <1>6, LockKept
<1>8. RefType'
  BY <1>2, <1>5, <1>6 DEF RefType
<1>9. WalkType'
  BY <1>1, <1>2, <1>5, WalkKept
<1> QED
  BY <1>2, <1>5, <1>7, <1>8, <1>9 DEF LibType, ListType, QueueType, EnvType

\* The slot a registration is entered in.
LEMMA RegisterEffect ==
  ASSUME Types, NEW t \in XThread, RegisterxTEDS(t)
  PROVE  /\ cur[t].comp \in Comp /\ LibType' /\ Len(lib) <= Len(lib')
         /\ \E r \in Nat \ {0} :
              \/ /\ lib' = lib /\ r \in Slots /\ r = AlreadyRegistered(cur[t].comp)
                 /\ lib[r].active
                 /\ pc' = [pc EXCEPT ![t] = "idle"] /\ cur' = [cur EXCEPT ![t] = NoMsg]
                 /\ WaitAndSignal /\ UNCHANGED <<ref, todo, at>>
              \/ /\ r \in Slots
                 /\ ~lib[r].available /\ lib[r].name = NameOf[cur[t].comp]
                 /\ lib'[r].available = FALSE /\ lib'[r].active = TRUE
                 /\ lib'[r].comp = cur[t].comp /\ lib'[r].name = NameOf[cur[t].comp]
                 /\ lib'[r].pid = cur[t].pid
                 /\ Len(lib') = Len(lib) /\ \A j \in Slots : j # r => lib'[j] = lib[j]
              \/ /\ r \in 1..(Len(lib) + 1) /\ AlreadyRegistered(cur[t].comp) = 0
                 /\ r \in Slots => lib[r].available
                 /\ lib'[r].available <=> cur[t].comp \in Malformed
                 /\ lib'[r].active <=> cur[t].comp \notin Malformed
                 /\ lib'[r].comp = cur[t].comp /\ lib'[r].name = NameOf[cur[t].comp]
                 /\ lib'[r].pid = cur[t].pid
                 /\ Len(lib') = IF r \in Slots THEN Len(lib) ELSE Len(lib) + 1
                 /\ \A j \in Slots : j # r => lib'[j] = lib[j]
         /\ \/ /\ pc' = [pc EXCEPT ![t] = "idle"] /\ cur' = [cur EXCEPT ![t] = NoMsg]
               /\ addLibrary' = addLibrary /\ UNCHANGED <<ref, todo, at>>
            \/ /\ pc' = [pc EXCEPT ![t] = "publish"] /\ UNCHANGED cur
               /\ Wait /\ \E r \in 1..Len(lib') : ref' = [ref EXCEPT ![t] = r]
               /\ todo' = [todo EXCEPT ![t] = RegistrationStages]
               /\ at' = [at EXCEPT ![t] = 1]
<1> USE DEF Types
<1> DEFINE c == cur[t].comp
           i == AlreadyRegistered(c)
           known == i # 0 /\ lib[i].active
           r == IF i = 0 THEN FreeSlot ELSE i
           over == known \/ (i = 0 /\ c \in Malformed)
<1>1. cur[t] \in xTEDSMsg /\ pc[t] = "wait"
  BY DEF RegisterxTEDS, ThreadType
<1>2. c \in Comp /\ cur[t].pid \in Pid
  BY <1>1, MsgFacts
<1>3. /\ lib' = IF known THEN lib
                ELSE IF i # 0 THEN Reactivate(i, c, cur[t].pid)
                ELSE StoreInfo(r, c, cur[t].pid)
      /\ \/ /\ over /\ WaitAndSignal
            /\ UNCHANGED <<ref, todo, at>>
            /\ pc' = [pc EXCEPT ![t] = "idle"] /\ cur' = [cur EXCEPT ![t] = NoMsg]
         \/ /\ ~over /\ Wait
            /\ ref' = [ref EXCEPT ![t] = r]
            /\ todo' = [todo EXCEPT ![t] = RegistrationStages]
            /\ at' = [at EXCEPT ![t] = 1]
            /\ pc' = [pc EXCEPT ![t] = "publish"] /\ UNCHANGED cur
  BY DEF RegisterxTEDS
<1>4. \/ i = 0
      \/ /\ i \in Slots /\ i # 0 /\ ~lib[i].available /\ lib[i].name = NameOf[c]
  BY FindRegistered
<1>5. Len(lib) \in Nat \ {0} /\ Slots = 1..Len(lib)
  BY DEF LibType, Slots
<1>6. r \in 1..(Len(lib) + 1) /\ (i = 0 /\ r \in Slots => lib[r].available)
  <2>1. CASE i = 0
    <3>1. r = FreeSlot
      BY <2>1
    <3>2. \/ FreeSlot = Len(lib) + 1
          \/ FreeSlot \in Slots /\ lib[FreeSlot].available
      BY FindFree
    <3> QED
      BY <1>5, <3>1, <3>2
  <2>2. CASE i # 0
    BY <1>4, <1>5, <2>2
  <2> QED
    BY <2>1, <2>2
<1> HIDE DEF i, c
<1>7. CASE known
  <2>1. lib' = lib /\ i \in Slots /\ over
    BY <1>3, <1>4, <1>7
  <2>2. LibType' /\ Len(lib) <= Len(lib')
    BY <1>5, <2>1 DEF LibType
  <2>3. i \in Nat \ {0}
    BY <1>5, <2>1
  <2> QED
    BY <1>2, <1>3, <1>7, <2>1, <2>2, <2>3 DEF WaitAndSignal, c, i
<1>8. CASE ~known /\ i # 0
  <2>1. i \in Slots /\ r = i /\ ~over /\ lib' = Reactivate(i, c, cur[t].pid)
    BY <1>3, <1>4, <1>8
  <2>2. LibType /\ i \in Slots /\ c \in Comp /\ cur[t].pid \in Pid
    BY <1>2, <2>1
  <2>3. /\ LibType' /\ Len(lib') = Len(lib)
        /\ \A j \in Slots : j # i => lib'[j] = lib[j]
        /\ lib'[i].available = lib[i].available /\ lib'[i].active = TRUE
        /\ lib'[i].comp = c /\ lib'[i].name = lib[i].name /\ lib'[i].pid = cur[t].pid
    BY <2>1, <2>2, ReactivateSlot
  <2>4. lib[i].available = FALSE /\ lib[i] \in SlotType
    <3>1. lib[i] \in SlotType
      BY <2>1, SlotComp
    <3> QED
      BY <1>4, <1>8, <3>1 DEF SlotType
  <2>5. /\ i \in Nat \ {0} /\ r \in 1..Len(lib') /\ LibType' /\ Len(lib) <= Len(lib')
    BY <1>5, <2>1, <2>3 DEF LibType
  <2>6. /\ lib'[i].available = FALSE /\ lib'[i].active = TRUE
        /\ lib'[i].comp = c /\ lib'[i].name = NameOf[c] /\ lib'[i].pid = cur[t].pid
    BY <1>4, <1>8, <2>3, <2>4
  <2>7. /\ pc' = [pc EXCEPT ![t] = "publish"] /\ UNCHANGED cur
        /\ Wait /\ \E x \in 1..Len(lib') : ref' = [ref EXCEPT ![t] = x]
        /\ todo' = [todo EXCEPT ![t] = RegistrationStages]
        /\ at' = [at EXCEPT ![t] = 1]
    BY <1>3, <2>1, <2>5
  <2> QED
    BY <1>2, <1>4, <1>8, <2>1, <2>3, <2>5, <2>6, <2>7 DEF c
<1>9. CASE i = 0
  <2>1. lib' = StoreInfo(r, c, cur[t].pid) /\ r \in 1..(Len(lib) + 1)
        /\ (r \in Slots => lib[r].available)
    BY <1>3, <1>6, <1>9
  <2> HIDE DEF r
  <2> HIDE DEF known, over
  <2>2. PICK e \in SlotType :
          /\ r \in Slots => StoreInfo(r, c, cur[t].pid) = [lib EXCEPT ![r] = e]
          /\ r \notin Slots => StoreInfo(r, c, cur[t].pid) = Append(lib, e)
          /\ e.available <=> c \in Malformed
          /\ e.active <=> c \notin Malformed
          /\ e.comp = c /\ e.name = NameOf[c] /\ e.pid = cur[t].pid
    <3>1. LibType /\ r \in 1..(Len(lib) + 1) /\ c \in Comp /\ cur[t].pid \in Pid
      BY <1>2, <2>1
    <3>2. PICK x \in 1..(Len(lib) + 1), d \in Comp, p \in Pid :
            x = r /\ d = c /\ p = cur[t].pid
      BY <3>1
    <3>3. \E e \in SlotType :
            /\ x \in Slots => StoreInfo(x, d, p) = [lib EXCEPT ![x] = e]
            /\ x \notin Slots => StoreInfo(x, d, p) = Append(lib, e)
            /\ e.available <=> d \in Malformed
            /\ e.active <=> d \notin Malformed
            /\ e.comp = d /\ e.name = NameOf[d] /\ e.pid = p
      BY <3>1, StoreSlot
    <3> QED
      BY <3>2, <3>3
  <2>3. /\ LibType' /\ lib'[r] = e
        /\ Len(lib') = IF r \in Slots THEN Len(lib) ELSE Len(lib) + 1
        /\ \A j \in Slots : j # r => lib'[j] = lib[j]
    <3>1. CASE r \in Slots
      <4>1. lib' = [lib EXCEPT ![r] = e]
        BY <2>1, <2>2, <3>1
      <4> QED
        BY <3>1, <4>1, ChangeSlot
    <3>2. CASE r \notin Slots
      <4>1. r = Len(lib) + 1 /\ lib' = Append(lib, e)
        BY <1>5, <2>1, <2>2, <3>2
      <4> QED
        BY <1>5, <3>2, <4>1 DEF LibType
    <3> QED
      BY <3>1, <3>2
  <2>4. LibType' /\ Len(lib) <= Len(lib') /\ r \in 1..Len(lib') /\ r \in Nat \ {0}
    BY <1>5, <2>1, <2>3 DEF LibType
  <2>5. \/ /\ pc' = [pc EXCEPT ![t] = "idle"] /\ cur' = [cur EXCEPT ![t] = NoMsg]
           /\ addLibrary' = addLibrary /\ UNCHANGED <<ref, todo, at>>
        \/ /\ pc' = [pc EXCEPT ![t] = "publish"] /\ UNCHANGED cur
           /\ Wait /\ \E x \in 1..Len(lib') : ref' = [ref EXCEPT ![t] = x]
           /\ todo' = [todo EXCEPT ![t] = RegistrationStages]
           /\ at' = [at EXCEPT ![t] = 1]
    BY <1>3, <2>4 DEF WaitAndSignal
  <2> QED
    BY <1>2, <1>9, <2>1, <2>2, <2>3, <2>4, <2>5 DEF i, c
<1> QED
  BY <1>7, <1>8, <1>9

WalkSet == [pos : Nat, num : Nat, size : Nat, matched : SUBSET Nat, sent : BOOLEAN]
Holds == {"publish", "finish"}

\* One thread takes a step: it takes the semaphore, gives it back or leaves it.
LEMMA ThreadStep ==
  ASSUME Types, NEW t \in Thread, NEW x \in Pcs, NEW m \in Message,
         pc' = [pc EXCEPT ![t] = x], cur' = [cur EXCEPT ![t] = m],
         todo' \in [Thread -> Seq(AllKinds)], at' \in [Thread -> Nat \ {0}],
         t \in XThread /\ x # "idle" => m \in xTEDSMsg,
         t = "cancel" /\ x # "idle" => m \in CancelMsg,
         t = child /\ x = "walk" => m \in RequestMsg /\ walk'.pos # 0,
         t # child => walk' = walk, walk' \in WalkSet,
         LibType', Len(lib) <= Len(lib'), ListType', QueueType', EnvType',
         \/ UNCHANGED ref /\ (x \in Holds => ref[t] # 0)
         \/ \E r \in 0..Len(lib') : ref' = [ref EXCEPT ![t] = r] /\ (x \in Holds => r # 0),
         \/ addLibrary' = addLibrary /\ (x \in Holds <=> pc[t] \in Holds)
         \/ Wait /\ x \in Holds
         \/ Signal /\ pc[t] \in Holds /\ x \notin Holds
  PROVE  Types'
<1> USE DEF Types, Holds
<1>1. /\ ThreadType' /\ pc'[t] = x /\ \A u \in Thread \ {t} : pc'[u] = pc[u]
      /\ Holding(t)' <=> x \in Holds
      /\ \A u \in Thread \ {t} : Holding(u)' <=> Holding(u)
  <2>1. t = child /\ x = "walk" => m \in RequestMsg
    OBVIOUS
  <2> QED
    BY <2>1, Move
<1>2. Holding(t) <=> pc[t] \in Holds
  BY DEF Holding
<1>3. Lock'
  <2>1. CASE addLibrary' = addLibrary /\ (x \in Holds <=> pc[t] \in Holds)
    <3>1. \A u \in Thread : Holding(u)' <=> Holding(u)
      BY <1>1, <1>2, <2>1
    <3> QED
      BY <2>1, <3>1, LockKept
  <2>2. CASE Wait /\ x \in Holds
    BY <1>1, <2>2, LockTaken
  <2>3. CASE Signal /\ pc[t] \in Holds /\ x \notin Holds
    BY <1>1, <1>2, <2>3, LockGiven
  <2> QED
    BY <2>1, <2>2, <2>3
<1>4. RefType'
  <2>1. Len(lib') \in Nat
    BY DEF LibType
  <2>2. CASE UNCHANGED ref /\ (x \in Holds => ref[t] # 0)
    BY <1>1, <2>1, <2>2, MoveRef
  <2>3. CASE \E r \in 0..Len(lib') : ref' = [ref EXCEPT ![t] = r] /\ (x \in Holds => r # 0)
    <3>1. \E r \in 0..Len(lib') : ref' = [ref EXCEPT ![t] = r] /\ (Holding(t)' => r # 0)
      BY <1>1, <2>3
    <3> QED
      BY <1>1, <2>1, <3>1, MoveRef
  <2> QED
    BY <2>2, <2>3
<1>5. WalkType'
  <2>1. CASE t = child
    BY <1>1, <2>1 DEF WalkType, WalkSet
  <2>2. CASE t # child
    <3>1. pc'[child] = pc[child] /\ walk' = walk
      BY <1>1, <2>2, Threads
    <3> QED
      BY <3>1, WalkKept
  <2> QED
    BY <2>1, <2>2
<1> QED
  BY <1>1, <1>3, <1>4, <1>5

\* No thread of the Data Manager moves on.
LEMMA OtherStep ==
  ASSUME Types, UNCHANGED <<addLibrary, pc, cur, ref, walk>>,
         todo' \in [Thread -> Seq(AllKinds)], at' \in [Thread -> Nat \ {0}],
         LibType', Len(lib') = Len(lib), ListType', QueueType', EnvType'
  PROVE  Types'
<1> USE DEF Types
<1>1. ThreadType' /\ WalkType'
  BY DEF ThreadType, WalkType
<1>2. \A u \in Thread : Holding(u)' <=> Holding(u)
  BY DEF Holding
<1>3. Lock'
  BY <1>2, LockKept
<1>4. RefType'
  BY <1>2 DEF RefType
<1> QED
  BY <1>1, <1>3, <1>4

\* What the types say of the threads, for the steps below.
LEMMA ThreadTypes ==
  ASSUME Types
  PROVE  /\ todo \in [Thread -> Seq(AllKinds)] /\ at \in [Thread -> Nat \ {0}]
         /\ walk \in WalkSet /\ Holds \subseteq Pcs /\ NoMsg \in Message
         /\ {"idle", "parse", "wait", "walk", "post", "consume"} \subseteq Pcs
         /\ {"idle", "parse", "wait", "walk", "post", "consume"} \cap Holds = {}
         /\ pc \in [Thread -> Pcs] /\ Len(lib) \in Nat \ {0} /\ Slots = 1..Len(lib)
BY DEF Types, ThreadType, WalkType, WalkSet, Holds, Pcs, Message, LibType, Slots

\* RegisterxTEDS takes addLibrary and fills a slot.
LEMMA RegisterTypes ==
  ASSUME Types, NEW t \in XThread, RegisterxTEDS(t)
  PROVE  Types'
<1>1. t \in Thread /\ t # child /\ t # "cancel" /\ cur[t] \in xTEDSMsg /\ pc[t] = "wait"
  BY Threads DEF Types, RegisterxTEDS, ThreadType
<1>2. cur[t].comp \in Comp /\ LibType' /\ Len(lib) <= Len(lib')
  BY RegisterEffect
<1>3. \/ /\ pc' = [pc EXCEPT ![t] = "idle"] /\ cur' = [cur EXCEPT ![t] = NoMsg]
         /\ addLibrary' = addLibrary /\ UNCHANGED <<ref, todo, at>>
      \/ /\ pc' = [pc EXCEPT ![t] = "publish"] /\ UNCHANGED cur
         /\ Wait /\ \E r \in 1..Len(lib') : ref' = [ref EXCEPT ![t] = r]
         /\ todo' = [todo EXCEPT ![t] = RegistrationStages]
         /\ at' = [at EXCEPT ![t] = 1]
  BY RegisterEffect
<1>4. /\ UNCHANGED <<subs, cancelNext, cancelQueue, pipe, walk, starts, due, told>>
      /\ conf' = conf \cup {cur[t].comp} \/ conf' = conf
  BY DEF RegisterxTEDS
<1>5. ListType' /\ QueueType' /\ EnvType'
  BY <1>2, <1>4 DEF Types, ListType, QueueType, EnvType
<1>6. "publish" \in Pcs /\ "publish" \in Holds
  BY DEF Pcs, Holds
<1>7. CASE /\ pc' = [pc EXCEPT ![t] = "idle"] /\ cur' = [cur EXCEPT ![t] = NoMsg]
           /\ addLibrary' = addLibrary /\ UNCHANGED <<ref, todo, at>>
  <2>1. /\ todo' \in [Thread -> Seq(AllKinds)] /\ at' \in [Thread -> Nat \ {0}]
        /\ walk' = walk /\ walk' \in WalkSet /\ "idle" \in Pcs /\ "idle" \notin Holds
        /\ NoMsg \in Message /\ pc[t] \notin Holds
    BY <1>1, <1>4, <1>7, ThreadTypes
  <2> QED
    BY <1>1, <1>2, <1>5, <1>7, <2>1, ThreadStep
<1>8. CASE /\ pc' = [pc EXCEPT ![t] = "publish"] /\ UNCHANGED cur
           /\ Wait /\ \E r \in 1..Len(lib') : ref' = [ref EXCEPT ![t] = r]
           /\ todo' = [todo EXCEPT ![t] = RegistrationStages]
           /\ at' = [at EXCEPT ![t] = 1]
  <2>1. /\ todo' \in [Thread -> Seq(AllKinds)] /\ at' \in [Thread -> Nat \ {0}]
        /\ walk' = walk /\ walk' \in WalkSet
    <3>1. /\ todo \in [Thread -> Seq(AllKinds)] /\ at \in [Thread -> Nat \ {0}]
          /\ walk \in WalkSet /\ 1 \in Nat \ {0}
      BY ThreadTypes
    <3>2. RegistrationStages \in Seq(AllKinds)
      BY StagesType
    <3> HIDE DEF RegistrationStages
    <3> QED
      BY <1>4, <1>8, <3>1, <3>2
  <2>2. cur' = [cur EXCEPT ![t] = cur[t]] /\ cur[t] \in Message
    BY <1>1, <1>8, KeepMsg DEF Types
  <2>3. \E r \in 0..Len(lib') : ref' = [ref EXCEPT ![t] = r] /\ r # 0
    <3>1. PICK r \in 1..Len(lib') : ref' = [ref EXCEPT ![t] = r]
      BY <1>8
    <3>2. r \in 0..Len(lib') /\ r # 0
      BY <1>2 DEF LibType
    <3> QED
      BY <3>1, <3>2
  <2> QED
    BY <1>1, <1>2, <1>5, <1>6, <1>8, <2>1, <2>2, <2>3, ThreadStep
<1> QED
  BY <1>3, <1>7, <1>8

\* The registration is published and addLibrary given back.
LEMMA xTEDSDoneTypes ==
  ASSUME Types, NEW t \in XThread, xTEDSDone(t)
  PROVE  Types'
<1>1. t \in Thread /\ t # child /\ t # "cancel"
  BY Threads
<1>2. /\ pc[t] = "publish" /\ Signal /\ pc' = [pc EXCEPT ![t] = "idle"]
      /\ cur' = [cur EXCEPT ![t] = NoMsg] /\ ref' = [ref EXCEPT ![t] = 0]
      /\ UNCHANGED <<lib, subs, cancelNext, cancelQueue, pipe, todo, at, walk, starts,
                     conf, due, told>>
  BY DEF xTEDSDone, envVars
<1>3. /\ LibType' /\ Len(lib) <= Len(lib') /\ ListType' /\ QueueType' /\ EnvType'
      /\ 0 \in 0..Len(lib')
  BY <1>2 DEF Types, LibType, ListType, QueueType, EnvType
<1>4. /\ todo' \in [Thread -> Seq(AllKinds)] /\ at' \in [Thread -> Nat \ {0}]
      /\ walk' \in WalkSet /\ "idle" \in Pcs /\ "idle" \notin Holds
      /\ NoMsg \in Message /\ pc[t] \in Holds
  BY <1>2, ThreadTypes DEF Holds
<1> QED
  BY <1>1, <1>2, <1>3, <1>4, ThreadStep

\* The cancellation thread finds the slot, before it takes addLibrary.
LEMMA CancelFindTypes ==
  ASSUME Types, CancelFind
  PROVE  Types'
<1> DEFINE m == Head(cancelQueue)
           r == CancelTarget(m)
<1>1. "cancel" \in Thread /\ "cancel" # child /\ "cancel" \notin XThread
  BY Threads
<1>2. /\ pc["cancel"] = "idle" /\ cancelQueue # << >> /\ cancelNext' = FALSE
      /\ cancelQueue' = Tail(cancelQueue)
      /\ cur' = [cur EXCEPT !["cancel"] = m] /\ ref' = [ref EXCEPT !["cancel"] = r]
      /\ pc' = [pc EXCEPT !["cancel"] = "wait"]
      /\ UNCHANGED <<lib, addLibrary, subs, pipe, todo, at, walk, starts, conf, due, told>>
  BY DEF CancelFind, envVars
<1>3. m \in CancelMsg /\ m \in Message /\ cancelQueue' \in Seq(CancelMsg)
  <2>1. cancelQueue \in Seq(CancelMsg)
    BY DEF Types, QueueType
  <2>2. m \in CancelMsg /\ Tail(cancelQueue) \in Seq(CancelMsg)
    BY <1>2, <2>1
  <2> QED
    BY <1>2, <2>2 DEF Message
<1>4. r \in 0..Len(lib)
  <2>1. r = 0 \/ r \in Slots
    BY FindTarget DEF Types
  <2> QED
    BY <2>1, ThreadTypes
<1> HIDE DEF m, r
<1>5. LibType' /\ Len(lib) <= Len(lib') /\ ListType' /\ QueueType' /\ EnvType'
  <2>1. LibType' /\ Len(lib) <= Len(lib') /\ ListType' /\ EnvType'
    BY <1>2 DEF Types, LibType, ListType, EnvType
  <2>2. pipe' \in Seq(PipeMsg) /\ cancelNext' \in BOOLEAN
    BY <1>2 DEF Types, QueueType
  <2> QED
    BY <1>3, <2>1, <2>2 DEF QueueType
<1>6. /\ todo' \in [Thread -> Seq(AllKinds)] /\ at' \in [Thread -> Nat \ {0}]
      /\ walk' \in WalkSet /\ "wait" \in Pcs /\ "wait" \notin Holds /\ pc["cancel"] \notin Holds
  BY <1>2, ThreadTypes
<1>7. r \in 0..Len(lib') /\ walk' = walk
  BY <1>2, <1>4
<1> QED
  BY <1>1, <1>2, <1>3, <1>5, <1>6, <1>7, ThreadStep

\* What a cancellation does to its slot.
LEMMA CancelEffect ==
  ASSUME Types, pc["cancel"] = "wait", ref["cancel"] # 0,
         lib' = Deactivate(ref["cancel"], cur["cancel"].full)
  PROVE  /\ ref["cancel"] \in Slots
         /\ LibType' /\ Len(lib') = Len(lib)
         /\ \A j \in Slots : j # ref["cancel"] => lib'[j] = lib[j]
         /\ lib'[ref["cancel"]].available = lib[ref["cancel"]].available
         /\ lib'[ref["cancel"]].comp = lib[ref["cancel"]].comp
         /\ lib'[ref["cancel"]].name = lib[ref["cancel"]].name
         /\ lib'[ref["cancel"]].pid = lib[ref["cancel"]].pid
         /\ lib[ref["cancel"]].comp \notin Sensor
              => /\ lib'[ref["cancel"]].active = cur["cancel"].full
                 /\ lib'[ref["cancel"]].posted = FALSE
<1> DEFINE i == ref["cancel"]
           full == cur["cancel"].full
<1>1. i \in Slots
  BY Threads, ThreadTypes DEF Types, RefType
<1>2. full \in BOOLEAN
  BY MsgFacts DEF Types, ThreadType
<1>3. PICK x \in Slots, f \in BOOLEAN : x = i /\ f = full
  BY <1>1, <1>2
<1> HIDE DEF i, full
<1>4. PICK e \in SlotType :
        /\ Deactivate(x, f) = [lib EXCEPT ![x] = e]
        /\ e.available = lib[x].available /\ e.comp = lib[x].comp /\ e.name = lib[x].name
        /\ e.pid = lib[x].pid
        /\ lib[x].comp \notin Sensor => e.active = f /\ e.posted = FALSE
  BY DeactivateSlot DEF Types
<1>5. lib' = [lib EXCEPT ![x] = e]
  BY <1>3, <1>4 DEF i, full
<1>6. /\ LibType' /\ Len(lib') = Len(lib) /\ lib'[x] = e
      /\ \A j \in Slots : j # x => lib'[j] = lib[j]
  BY <1>5, ChangeSlot DEF Types
<1> QED
  BY <1>1, <1>3, <1>4, <1>6 DEF i, full

\* It takes addLibrary and makes the slot inactive.
LEMMA CancelApplyTypes ==
  ASSUME Types, CancelApply
  PROVE  Types'
<1>1. "cancel" \in Thread /\ "cancel" # child /\ "cancel" \notin XThread
  BY Threads
<1>2. /\ pc["cancel"] = "wait" /\ cur["cancel"] \in CancelMsg
      /\ UNCHANGED <<subs, cancelQueue, pipe, ref, walk, starts, conf, due, told>>
  BY DEF CancelApply, envVars, Types, ThreadType
<1>3. /\ todo \in [Thread -> Seq(AllKinds)] /\ at \in [Thread -> Nat \ {0}]
      /\ walk' = walk /\ walk' \in WalkSet /\ "idle" \in Pcs /\ "idle" \notin Holds
      /\ NoMsg \in Message /\ pc["cancel"] \notin Holds /\ "publish" \in Pcs
      /\ "publish" \in Holds /\ 1 \in Nat \ {0}
  BY <1>2, ThreadTypes DEF Holds
<1>4. CASE ref["cancel"] = 0 /\ WaitAndSignal
  <2>1. /\ cancelNext' = TRUE /\ pc' = [pc EXCEPT !["cancel"] = "idle"]
        /\ cur' = [cur EXCEPT !["cancel"] = NoMsg] /\ UNCHANGED <<lib, todo, at>>
        /\ addLibrary' = addLibrary
    BY <1>4 DEF CancelApply, WaitAndSignal
  <2>2. LibType' /\ Len(lib) <= Len(lib') /\ ListType' /\ QueueType' /\ EnvType'
    BY <1>2, <2>1 DEF Types, LibType, ListType, QueueType, EnvType
  <2>3. /\ todo' \in [Thread -> Seq(AllKinds)] /\ at' \in [Thread -> Nat \ {0}]
    BY <1>3, <2>1
  <2> QED
    BY <1>1, <1>2, <1>3, <2>1, <2>2, <2>3, ThreadStep
<1>5. CASE ref["cancel"] # 0
  <2>1. /\ Wait /\ lib' = Deactivate(ref["cancel"], cur["cancel"].full)
        /\ todo' = [todo EXCEPT !["cancel"] = CancellationStages]
        /\ at' = [at EXCEPT !["cancel"] = 1]
        /\ pc' = [pc EXCEPT !["cancel"] = "publish"] /\ UNCHANGED <<cancelNext, cur>>
    BY <1>5 DEF CancelApply
  <2>2. LibType' /\ Len(lib') = Len(lib)
    BY <1>2, <1>5, <2>1, CancelEffect
  <2>3. Len(lib) <= Len(lib') /\ ListType' /\ QueueType' /\ EnvType'
    BY <1>2, <2>1, <2>2 DEF Types, LibType, ListType, QueueType, EnvType
  <2>4. CancellationStages \in Seq(AllKinds)
    BY StagesType
  <2>5. /\ todo' \in [Thread -> Seq(AllKinds)] /\ at' \in [Thread -> Nat \ {0}]
    BY <1>3, <2>1, <2>4
  <2>6. cur' = [cur EXCEPT !["cancel"] = cur["cancel"]] /\ cur["cancel"] \in Message
    BY <1>1, <2>1, KeepMsg DEF Types
  <2> QED
    BY <1>1, <1>2, <1>3, <1>5, <2>1, <2>2, <2>3, <2>5, <2>6, ThreadStep
<1> QED
  BY <1>4, <1>5 DEF CancelApply

\* It has told the subscribers and drops what the component subscribed to.
LEMMA CancelFinishTypes ==
  ASSUME Types, CancelFinish
  PROVE  Types'
<1>1. "cancel" \in Thread /\ "cancel" # child /\ "cancel" \notin XThread
  BY Threads
<1>2. /\ pc["cancel"] = "publish" /\ pc' = [pc EXCEPT !["cancel"] = "finish"]
      /\ UNCHANGED <<lib, addLibrary, subs, cancelNext, cancelQueue, pipe, cur, ref, todo,
                     at, walk, starts, conf, due, told>>
  BY DEF CancelFinish
<1>3. LibType' /\ Len(lib) <= Len(lib') /\ ListType' /\ QueueType' /\ EnvType'
  BY <1>2 DEF Types, LibType, ListType, QueueType, EnvType
<1>4. /\ todo' \in [Thread -> Seq(AllKinds)] /\ at' \in [Thread -> Nat \ {0}]
      /\ walk' \in WalkSet /\ "finish" \in Pcs /\ "finish" \in Holds
      /\ pc["cancel"] \in Holds
  BY <1>2, ThreadTypes DEF Holds
<1>5. /\ cur' = [cur EXCEPT !["cancel"] = cur["cancel"]] /\ cur["cancel"] \in Message
      /\ cur["cancel"] \in CancelMsg /\ ref["cancel"] # 0
  <2>1. cur["cancel"] \in CancelMsg /\ ref["cancel"] # 0
    BY <1>1, <1>2 DEF Types, ThreadType, RefType, Holding
  <2> QED
    BY <1>1, <1>2, <2>1, KeepMsg DEF Types
<1> QED
  BY <1>1, <1>2, <1>3, <1>4, <1>5, ThreadStep

\* The slot is given back, or nothing happens to it.
LEMMA ReleaseEffect ==
  ASSUME Types, pc["cancel"] = "finish", lib' = Release(ref["cancel"])
  PROVE  /\ ref["cancel"] \in Slots /\ LibType' /\ Len(lib') = Len(lib)
         /\ \/ lib' = lib /\ ~(lib[ref["cancel"]].comp # DM /\ lib[ref["cancel"]].active)
            \/ /\ \A j \in Slots : j # ref["cancel"] => lib'[j] = lib[j]
               /\ lib[ref["cancel"]].active
               /\ lib'[ref["cancel"]].available = TRUE
               /\ lib'[ref["cancel"]].active = FALSE
               /\ lib'[ref["cancel"]].comp = lib[ref["cancel"]].comp
               /\ lib'[ref["cancel"]].name = lib[ref["cancel"]].name
               /\ lib'[ref["cancel"]].pid = lib[ref["cancel"]].pid
<1> DEFINE i == ref["cancel"]
<1>1. i \in Slots
  BY Threads, ThreadTypes DEF Types, RefType, Holding
<1>2. PICK x \in Slots : x = i
  BY <1>1
<1> HIDE DEF i
<1>3. CASE Release(x) = lib /\ ~(lib[x].comp # DM /\ lib[x].active)
  <2>1. lib' = lib
    BY <1>2, <1>3 DEF i
  <2> QED
    BY <1>1, <1>2, <1>3, <2>1 DEF Types, LibType, i
<1>4. ASSUME NEW e \in SlotType, Release(x) = [lib EXCEPT ![x] = e],
             e.available = TRUE, e.active = FALSE,
             e.comp = lib[x].comp, e.name = lib[x].name, e.pid = lib[x].pid
      PROVE  /\ LibType' /\ Len(lib') = Len(lib)
             /\ \A j \in Slots : j # x => lib'[j] = lib[j]
             /\ lib'[x].available = TRUE /\ lib'[x].active = FALSE
             /\ lib'[x].comp = lib[x].comp /\ lib'[x].name = lib[x].name
             /\ lib'[x].pid = lib[x].pid
  <2>1. lib' = [lib EXCEPT ![x] = e]
    BY <1>2, <1>4 DEF i
  <2>2. /\ LibType' /\ Len(lib') = Len(lib) /\ lib'[x] = e
        /\ \A j \in Slots : j # x => lib'[j] = lib[j]
    BY <2>1, ChangeSlot DEF Types
  <2> QED
    BY <1>4, <2>2
<1>5. \/ Release(x) = lib /\ ~(lib[x].comp # DM /\ lib[x].active)
      \/ \E e \in SlotType :
           /\ Release(x) = [lib EXCEPT ![x] = e] /\ lib[x].active
           /\ e.available = TRUE /\ e.active = FALSE
           /\ e.comp = lib[x].comp /\ e.name = lib[x].name /\ e.pid = lib[x].pid
  BY ReleaseSlot DEF Types
<1> QED
  BY <1>1, <1>2, <1>3, <1>4, <1>5 DEF i

\* It frees the slot and gives addLibrary back.
LEMMA CancelReleaseTypes ==
  ASSUME Types, CancelRelease
  PROVE  Types'
<1>1. "cancel" \in Thread /\ "cancel" # child /\ "cancel" \notin XThread
  BY Threads
<1>2. /\ pc["cancel"] = "finish" /\ lib' = Release(ref["cancel"]) /\ Signal
      /\ cancelNext' = TRUE /\ pc' = [pc EXCEPT !["cancel"] = "idle"]
      /\ cur' = [cur EXCEPT !["cancel"] = NoMsg] /\ ref' = [ref EXCEPT !["cancel"] = 0]
      /\ UNCHANGED <<subs, cancelQueue, pipe, todo, at, walk, starts, conf, due, told>>
  BY DEF CancelRelease, envVars
<1>3. LibType' /\ Len(lib') = Len(lib)
  BY <1>2, ReleaseEffect
<1>4. Len(lib) <= Len(lib') /\ ListType' /\ QueueType' /\ EnvType' /\ 0 \in 0..Len(lib')
  BY <1>2, <1>3 DEF Types, LibType, ListType, QueueType, EnvType
<1>5. /\ todo' \in [Thread -> Seq(AllKinds)] /\ at' \in [Thread -> Nat \ {0}]
      /\ walk' \in WalkSet /\ "idle" \in Pcs /\ "idle" \notin Holds
      /\ NoMsg \in Message /\ pc["cancel"] \in Holds
  BY <1>2, ThreadTypes DEF Holds
<1> QED
  BY <1>1, <1>2, <1>3, <1>4, <1>5, ThreadStep

\* Nothing but what is posted changes in the slots.
SlotsKept == LibType' /\ Len(lib') = Len(lib) /\ \A i \in Slots : SlotKept(i)

\* A step that leaves the list alone keeps its slots.
LEMMA SameSlots ==
  ASSUME LibType, lib' = lib
  PROVE  SlotsKept
BY DEF SlotsKept, SlotKept, LibType

ReportSet == Client \X AllKinds \X Comp

\* A notification of a registration or an end keeps the slots.
LEMMA ReqRegAboutEffect ==
  ASSUME LibType, EnvType, NEW s \in Client, NEW r, NEW dereg, ReqRegAbout(s, r, dereg)
  PROVE  SlotsKept /\ due' \subseteq App /\ told' \subseteq ReportSet
<1> DEFINE hits == {i \in Slots : ~lib[i].available /\ numxTEDS(i) = r - 1}
           sent == {i \in hits : Matches(s, i) /\ Tellable(i, dereg)}
           reports == {Report(s, REQ_REG_FUTURE, lib[i].comp) : i \in sent}
           matched == {numxTEDS(i) : i \in {j \in Slots : Matches(s, j)}}
<1>1. /\ told' = IF dereg THEN told \ reports ELSE told \cup reports
      /\ IF sent # {} \/ \E i \in hits : ~Matches(s, i)
         THEN UNCHANGED <<lib, due>>
         ELSE PostTask({i \in Slots : Postable(i, matched)})
  BY DEF ReqRegAbout
<1>2. reports \subseteq ReportSet
  <2>1. \A i \in sent : i \in Slots
    OBVIOUS
  <2>2. \A i \in Slots : lib[i].comp \in Comp
    BY SlotComp
  <2>3. REQ_REG_FUTURE \in AllKinds
    BY KindsType
  <2> HIDE DEF sent
  <2>4. \A i \in sent : Report(s, REQ_REG_FUTURE, lib[i].comp) \in ReportSet
    BY <2>1, <2>2, <2>3, ReportType DEF ReportSet
  <2> QED
    BY <2>4
<1> HIDE DEF hits, sent, reports, matched
<1>3. told' \subseteq ReportSet
  BY <1>1, <1>2 DEF EnvType, ReportSet
<1>4. CASE UNCHANGED <<lib, due>>
  BY <1>3, <1>4, SameSlots DEF EnvType
<1>5. CASE PostTask({i \in Slots : Postable(i, matched)})
  BY <1>3, <1>5, PostEffect DEF SlotsKept
<1> QED
  BY <1>1, <1>4, <1>5

\* So does a reply to a search.
LEMMA SearchAboutEffect ==
  ASSUME LibType, EnvType, NEW s \in Client, NEW k \in AllKinds, NEW r \in Slots,
         SearchAbout(s, k, r)
  PROVE  SlotsKept /\ due' \subseteq App /\ told' \subseteq ReportSet
<1> DEFINE seen == IF k = VAR_REQ_REPLY THEN r..Len(lib) ELSE {r}
           hits == {i \in seen : lib[i].active /\ Matches(s, i)}
<1>1. /\ told' = told \cup {Report(s, k, lib[i].comp) : i \in hits}
      /\ UNCHANGED <<lib, due>>
  BY DEF SearchAbout
<1>2. \A i \in hits : i \in Slots
  BY DEF LibType, Slots
<1> HIDE DEF hits
<1>3. \A i \in hits : Report(s, k, lib[i].comp) \in ReportSet
  <2>1. \A i \in Slots : lib[i].comp \in Comp
    BY SlotComp
  <2> QED
    BY <1>2, <2>1, ReportType DEF ReportSet
<1>4. told' \subseteq ReportSet
  BY <1>1, <1>3 DEF EnvType, ReportSet
<1> QED
  BY <1>1, <1>4, SameSlots DEF EnvType

\* What all subscribers of a kind are told has its type.
LEMMA NotifyAllEffect ==
  ASSUME LibType, EnvType, ListType, NEW k \in AllKinds, NEW r \in Slots, NEW dereg,
         NotifyAll(k, r, dereg)
  PROVE  told' \subseteq ReportSet
<1> DEFINE J == {i \in DOMAIN subs : subs[i].inuse /\ subs[i].mid = k}
           reports == {Report(subs[j].dest, k, lib[r].comp) : j \in J}
<1>1. told' = IF dereg THEN told \ reports ELSE told \cup reports
  BY DEF NotifyAll
<1>2. \A j \in J : subs[j].dest \in Client
  <2>1. \A j \in DOMAIN subs : subs[j] \in SubType
    BY DEF ListType
  <2> QED
    BY <2>1 DEF SubType
<1>3. lib[r].comp \in Comp
  BY SlotComp
<1> HIDE DEF J
<1>4. \A j \in J : Report(subs[j].dest, k, lib[r].comp) \in ReportSet
  BY <1>2, <1>3, ReportType DEF ReportSet
<1>5. reports \subseteq ReportSet
  BY <1>4
<1> QED
  BY <1>1, <1>5 DEF EnvType, ReportSet

\* The next subscription of a kind.
LEMMA FindSub ==
  ASSUME ListType, NEW a \in Nat \ {0}, NEW k, NEW j,
         j = First({i \in a..Len(subs) : subs[i].inuse /\ subs[i].mid = k})
  PROVE  j = 0 \/ (j \in Nat \ {0} /\ j \in DOMAIN subs /\ subs[j].dest \in Client)
<1> DEFINE J == {i \in a..Len(subs) : subs[i].inuse /\ subs[i].mid = k}
<1>1. j = First(J)
  OBVIOUS
<1>2. J \subseteq Nat /\ J \subseteq DOMAIN subs
  BY DEF ListType
<1> HIDE DEF J
<1>3. j = 0 \/ j \in DOMAIN subs
  BY <1>1, <1>2, FirstIn
<1>4. \A i \in DOMAIN subs : i \in Nat \ {0} /\ subs[i] \in SubType
  BY DEF ListType
<1> QED
  BY <1>3, <1>4 DEF SubType

\* A stage of a notification keeps the slots and moves on by one subscriber.
LEMMA PublishEffect ==
  ASSUME Types, NEW t \in Thread, Publish(t)
  PROVE  /\ SlotsKept /\ due' \subseteq App /\ told' \subseteq ReportSet
         /\ todo' \in [Thread -> Seq(AllKinds)] /\ at' \in [Thread -> Nat \ {0}]
         /\ UNCHANGED <<addLibrary, subs, cancelNext, cancelQueue, pipe, pc, cur, ref, walk,
                        life, starts, conf>>
<1> DEFINE k == Head(todo[t])
           dereg == t \notin XThread
           j == SelectInSubSeq(subs, at[t], Len(subs), LAMBDA x : x.inuse /\ x.mid = k)
           w == ref[t]
<1>1. pc[t] = "publish" /\ todo[t] # << >>
      /\ UNCHANGED <<addLibrary, subs, cancelNext, cancelQueue, pipe, pc, cur, ref, walk,
                     life, starts, conf>>
  BY DEF Publish
<1>2. \/ /\ k \in NotiKinds /\ NotifyAll(k, w, dereg)
         /\ todo' = [todo EXCEPT ![t] = Tail(@)] /\ UNCHANGED <<lib, due, at>>
      \/ /\ todo' = [todo EXCEPT ![t] = Tail(@)] /\ at' = [at EXCEPT ![t] = 1]
         /\ UNCHANGED <<lib, due, told>>
      \/ /\ j # 0 /\ ReqRegAbout(subs[j].dest, w, dereg)
         /\ at' = [at EXCEPT ![t] = j + 1] /\ UNCHANGED todo
      \/ /\ j # 0 /\ SearchAbout(subs[j].dest, k, w)
         /\ at' = [at EXCEPT ![t] = j + 1] /\ UNCHANGED todo
  BY DEF Publish
<1>3. /\ todo \in [Thread -> Seq(AllKinds)] /\ at \in [Thread -> Nat \ {0}]
  BY ThreadTypes
<1>4. k \in AllKinds /\ Tail(todo[t]) \in Seq(AllKinds)
  <2>1. todo[t] \in Seq(AllKinds)
    BY <1>3
  <2> QED
    BY <1>1, <2>1
<1>5. w \in Slots
  BY <1>1, ThreadTypes DEF Types, RefType, Holding
<1>6. j = 0 \/ (j \in Nat \ {0} /\ subs[j].dest \in Client)
  <2>1. at[t] \in Nat \ {0}
    BY <1>3
  <2>2. PICK a \in Nat \ {0} : a = at[t]
    BY <2>1
  <2>3. j = First({i \in at[t]..Len(subs) : subs[i].inuse /\ subs[i].mid = k})
    BY DEF SelectInSubSeq, First
  <2> HIDE DEF j, k
  <2>4. PICK n, q : n = j /\ q = k
    OBVIOUS
  <2>5. n = First({i \in a..Len(subs) : subs[i].inuse /\ subs[i].mid = q})
    BY <2>2, <2>3, <2>4
  <2>6. n = 0 \/ (n \in Nat \ {0} /\ subs[n].dest \in Client)
    BY <2>5, FindSub DEF Types
  <2> QED
    BY <2>4, <2>6
<1> HIDE DEF j, k, dereg, w
<1>7. CASE /\ k \in NotiKinds /\ NotifyAll(k, w, dereg)
           /\ todo' = [todo EXCEPT ![t] = Tail(@)] /\ UNCHANGED <<lib, due, at>>
  <2>1. told' \subseteq ReportSet
    BY <1>4, <1>5, <1>7, NotifyAllEffect DEF Types
  <2>2. SlotsKept /\ due' \subseteq App
    BY <1>7, SameSlots DEF Types, EnvType
  <2> QED
    BY <1>1, <1>3, <1>4, <1>7, <2>1, <2>2
<1>8. CASE /\ todo' = [todo EXCEPT ![t] = Tail(@)] /\ at' = [at EXCEPT ![t] = 1]
           /\ UNCHANGED <<lib, due, told>>
  <2>1. SlotsKept /\ due' \subseteq App /\ told' \subseteq ReportSet
    BY <1>8, SameSlots DEF Types, EnvType, ReportSet
  <2> QED
    BY <1>1, <1>3, <1>4, <1>8, <2>1
<1>9. CASE /\ j # 0 /\ ReqRegAbout(subs[j].dest, w, dereg)
           /\ at' = [at EXCEPT ![t] = j + 1] /\ UNCHANGED todo
  <2>1. PICK s \in Client : s = subs[j].dest
    BY <1>6, <1>9
  <2>2. ReqRegAbout(s, w, dereg)
    BY <1>9, <2>1
  <2>3. SlotsKept /\ due' \subseteq App /\ told' \subseteq ReportSet
    BY <2>2, ReqRegAboutEffect DEF Types
  <2>4. j + 1 \in Nat \ {0}
    BY <1>6, <1>9
  <2> QED
    BY <1>1, <1>3, <1>9, <2>3, <2>4
<1>10. CASE /\ j # 0 /\ SearchAbout(subs[j].dest, k, w)
            /\ at' = [at EXCEPT ![t] = j + 1] /\ UNCHANGED todo
  <2>1. PICK s \in Client, x \in Slots : s = subs[j].dest /\ x = w
    BY <1>5, <1>6, <1>10
  <2>2. SearchAbout(s, k, x)
    BY <1>10, <2>1
  <2>3. SlotsKept /\ due' \subseteq App /\ told' \subseteq ReportSet
    BY <1>4, <2>2, SearchAboutEffect DEF Types
  <2>4. j + 1 \in Nat \ {0}
    BY <1>6, <1>10
  <2> QED
    BY <1>1, <1>3, <1>10, <2>3, <2>4
<1> QED
  BY <1>2, <1>7, <1>8, <1>9, <1>10

\* So it preserves the types.
LEMMA PublishTypes ==
  ASSUME Types, NEW t \in Thread, Publish(t)
  PROVE  Types'
<1>1. /\ SlotsKept /\ due' \subseteq App /\ told' \subseteq ReportSet
      /\ todo' \in [Thread -> Seq(AllKinds)] /\ at' \in [Thread -> Nat \ {0}]
      /\ UNCHANGED <<addLibrary, subs, cancelNext, cancelQueue, pipe, pc, cur, ref, walk,
                     life, starts, conf>>
  BY PublishEffect
<1>2. LibType' /\ Len(lib') = Len(lib)
  BY <1>1 DEF SlotsKept
<1>3. ListType' /\ QueueType' /\ EnvType'
  BY <1>1 DEF Types, ListType, QueueType, EnvType, ReportSet
<1> QED
  BY <1>1, <1>2, <1>3, OtherStep

\* The child is where it does not hold the semaphore, and goes on there.
LEMMA ChildMoves ==
  ASSUME Types, NEW x \in Pcs \ Holds, NEW m \in Message, pc[child] \notin Holds,
         pc' = [pc EXCEPT ![child] = x], cur' = [cur EXCEPT ![child] = m],
         x = "walk" => m \in RequestMsg /\ walk'.pos # 0, walk' \in WalkSet,
         LibType', Len(lib') = Len(lib), ListType', QueueType', EnvType',
         UNCHANGED <<addLibrary, todo, at>>,
         ref' = ref \/ \E r \in 0..Len(lib') : ref' = [ref EXCEPT ![child] = r]
  PROVE  Types'
<1>1. child \in Thread /\ child # "cancel" /\ child \notin XThread
  BY Threads
<1>2. todo' \in [Thread -> Seq(AllKinds)] /\ at' \in [Thread -> Nat \ {0}]
  BY ThreadTypes
<1>3. Len(lib) <= Len(lib')
  BY DEF LibType
<1> QED
  BY <1>1, <1>2, <1>3, ThreadStep

\* The child takes a request from the pipe.
LEMMA TakeTypes ==
  ASSUME Types, ChildTake
  PROVE  Types'
<1> DEFINE m == Head(pipe)
<1>1. /\ pc[child] = "idle" /\ pipe # << >> /\ pipe' = Tail(pipe)
      /\ UNCHANGED <<lib, addLibrary, cancelNext, cancelQueue, todo, at, starts, conf, due>>
      /\ TakeRequest(m) \/ TakeUnsubscribe(m) \/ TakeTaskError(m) \/ TakeConsume(m)
  BY DEF ChildTake
<1>2. m \in PipeMsg /\ pipe' \in Seq(PipeMsg)
  <2>1. pipe \in Seq(PipeMsg)
    BY DEF Types, QueueType
  <2> QED
    BY <1>1, <2>1
<1>3. m \in Message
  BY <1>2 DEF Message
<1> HIDE DEF m
<1>4. LibType' /\ Len(lib') = Len(lib) /\ QueueType'
  BY <1>1, <1>2 DEF Types, LibType, QueueType
<1>5. /\ walk \in WalkSet /\ {"idle", "wait", "walk", "consume"} \subseteq Pcs \ Holds
      /\ pc[child] \notin Holds /\ child \in Thread /\ Len(lib) \in Nat
      /\ pc \in [Thread -> Pcs]
  BY <1>1, ThreadTypes, Threads
<1>6. ASSUME pc' = pc, cur' = cur, walk' = walk, ref' = ref, ListType', EnvType'
      PROVE  Types'
  <2>1. /\ todo' \in [Thread -> Seq(AllKinds)] /\ at' \in [Thread -> Nat \ {0}]
        /\ UNCHANGED <<addLibrary, pc, cur, ref, walk>>
    BY <1>1, <1>6, ThreadTypes
  <2> QED
    BY <1>4, <1>6, <2>1, OtherStep
<1>7. CASE TakeRequest(m)
  <2>1. m \in RequestMsg /\ m.client \in Client /\ m.type \in AllKinds \cup {"ReqReg"}
    BY <1>2, <1>7, PipeFacts, MsgFacts DEF TakeRequest
  <2>2. ListType'
    <3>1. CASE m.type = "ReqReg"
      BY <1>7, <3>1 DEF TakeRequest, ListType, Types
    <3>2. CASE m.type # "ReqReg"
      <4>1. PICK s \in Client, k \in AllKinds : s = m.client /\ k = m.type
        BY <2>1, <3>2
      <4>2. addReqRegSubscription(s, k) \in Seq(SubType)
        BY AddReqRegType DEF Types
      <4>3. subs' = addReqRegSubscription(s, k)
        BY <1>7, <3>2, <4>1 DEF TakeRequest
      <4> QED
        BY <4>2, <4>3 DEF ListType
    <3> QED
      BY <3>1, <3>2
  <2>3. EnvType'
    <3>1. told' \subseteq told
      BY <1>7 DEF TakeRequest
    <3> QED
      BY <1>1, <3>1 DEF Types, EnvType
  <2>4. CASE UNCHANGED <<pc, cur, walk>>
    <3>1. ref' = ref
      BY <1>7 DEF TakeRequest
    <3> QED
      BY <1>6, <2>2, <2>3, <2>4, <3>1
  <2>5. CASE /\ pc' = [pc EXCEPT ![child] = "walk"] /\ cur' = [cur EXCEPT ![child] = m]
             /\ walk' = [NoWalk EXCEPT !.pos = 1, !.size = Len(lib)]
    <3>1. walk' = [pos |-> 1, num |-> 0, size |-> Len(lib), matched |-> {}, sent |-> FALSE]
      BY <2>5 DEF NoWalk
    <3>2. walk' \in WalkSet /\ walk'.pos # 0
      BY <1>5, <3>1 DEF WalkSet
    <3>3. ref' = ref
      BY <1>7 DEF TakeRequest
    <3> QED
      BY <1>1, <1>3, <1>4, <1>5, <2>1, <2>2, <2>3, <2>5, <3>2, <3>3, ChildMoves
  <2> QED
    BY <1>7, <2>4, <2>5 DEF TakeRequest
<1>8. CASE TakeUnsubscribe(m)
  <2>1. ListType'
    <3>1. removeSubscriptions(subs, m.client, EndsWith(m.kind)) \in Seq(SubType)
      BY RemoveType DEF Types, ListType
    <3> QED
      BY <1>8, <3>1 DEF TakeUnsubscribe, ListType
  <2>2. told' \subseteq told /\ UNCHANGED <<pc, cur, ref, walk>>
    BY <1>8 DEF TakeUnsubscribe
  <2>3. EnvType'
    BY <1>1, <2>2 DEF Types, EnvType
  <2> QED
    BY <1>6, <2>1, <2>2, <2>3
<1>9. CASE TakeTaskError(m)
  <2>1. /\ ref' = [ref EXCEPT ![child] = ErrorTarget(m)] /\ cur' = [cur EXCEPT ![child] = m]
        /\ pc' = [pc EXCEPT ![child] = "wait"] /\ UNCHANGED <<subs, told, walk>>
    BY <1>9 DEF TakeTaskError
  <2>2. ErrorTarget(m) \in 0..Len(lib')
    <3>1. ErrorTarget(m) = 0 \/ ErrorTarget(m) \in Slots
      BY FindTarget DEF Types
    <3> QED
      BY <1>1, <3>1, ThreadTypes
  <2>3. ListType' /\ EnvType' /\ walk' \in WalkSet
    BY <1>1, <1>5, <2>1 DEF Types, ListType, EnvType
  <2> QED
    BY <1>1, <1>3, <1>4, <1>5, <2>1, <2>2, <2>3, ChildMoves
<1>10. CASE TakeConsume(m)
  <2>1. UNCHANGED <<subs, told, ref, walk>>
    BY <1>10 DEF TakeConsume
  <2>2. ListType' /\ EnvType' /\ walk' \in WalkSet
    BY <1>1, <1>5, <2>1 DEF Types, ListType, EnvType
  <2>3. CASE UNCHANGED <<pc, cur>>
    BY <1>6, <2>1, <2>2, <2>3
  <2>4. CASE /\ pc' = [pc EXCEPT ![child] = "consume"] /\ cur' = [cur EXCEPT ![child] = m]
    BY <1>1, <1>3, <1>4, <1>5, <2>1, <2>2, <2>4, ChildMoves
  <2> QED
    BY <1>10, <2>3, <2>4 DEF TakeConsume
<1> QED
  BY <1>1, <1>7, <1>8, <1>9, <1>10

\* The search goes on to the next slot.
LEMMA WalkReqRegEffect ==
  ASSUME Types, NEW m \in RequestMsg, NEW i \in Slots, i = walk.pos, WalkReqReg(m, i)
  PROVE  walk' \in WalkSet /\ walk'.pos # 0 /\ told' \subseteq ReportSet
<1> DEFINE hit == Matches(m.client, i)
           tell == hit /\ lib[i].active
           w1 == [walk EXCEPT !.pos = @ + 1]
           mt == IF hit /\ walk.num < walk.size THEN walk.matched \cup {walk.num}
                 ELSE walk.matched
           st == walk.sent \/ tell
           w2 == [pos |-> walk.pos + 1, num |-> walk.num + 1, size |-> walk.size,
                  matched |-> mt, sent |-> st]
<1>1. walk \in WalkSet /\ m.client \in Client /\ m.type \in AllKinds \cup {"ReqReg"}
      /\ lib[i].comp \in Comp
  BY ThreadTypes, MsgFacts, SlotComp DEF Types
<1>2. /\ walk.pos \in Nat /\ walk.num \in Nat /\ walk.size \in Nat
      /\ walk.matched \subseteq Nat /\ walk.sent \in BOOLEAN
      /\ walk = [pos |-> walk.pos, num |-> walk.num, size |-> walk.size,
                 matched |-> walk.matched, sent |-> walk.sent]
  BY <1>1 DEF WalkSet
<1>3. walk' = w1 \/ walk' = w2
  <2>1. CASE lib[i].available
    BY <2>1 DEF WalkReqReg
  <2>2. CASE ~lib[i].available
    <3>1. walk' = [walk EXCEPT !.pos = @ + 1, !.num = @ + 1, !.sent = @ \/ tell,
                               !.matched = IF hit /\ walk.num < walk.size
                                           THEN @ \cup {walk.num} ELSE @]
      BY <2>2 DEF WalkReqReg
    <3> HIDE DEF hit, tell
    <3> QED
      BY <1>2, <3>1
  <2> QED
    BY <2>1, <2>2
<1>4. told' \subseteq ReportSet
  <2>1. \/ told' = told
        \/ m.type # "ReqReg" /\ told' = told \cup {Report(m.client, m.type, lib[i].comp)}
    BY DEF WalkReqReg
  <2>2. m.type # "ReqReg" => Report(m.client, m.type, lib[i].comp) \in ReportSet
    BY <1>1, ReportType DEF ReportSet
  <2> QED
    BY <2>1, <2>2 DEF Types, EnvType, ReportSet
<1>5. w1 \in WalkSet /\ w1.pos # 0
  BY <1>2 DEF WalkSet
<1>6. mt \subseteq Nat /\ st \in BOOLEAN
  BY <1>2
<1> HIDE DEF mt, st, w1
<1>7. w2 \in WalkSet /\ w2.pos # 0
  BY <1>2, <1>6 DEF WalkSet
<1> QED
  BY <1>3, <1>4, <1>5, <1>7

\* One slot of a search: the walk moves on and replies have their type.
LEMMA WalkSearchEffect ==
  ASSUME Types, NEW m \in RequestMsg, NEW i \in Slots, i = walk.pos, WalkSearch(m, i),
         ~ByReqReg(m)
  PROVE  walk' \in WalkSet /\ walk'.pos # 0 /\ told' \subseteq ReportSet
<1>1. walk \in WalkSet /\ m.client \in Client /\ m.type \in AllKinds
      /\ lib[i].comp \in Comp
  BY ThreadTypes, MsgFacts, SlotComp DEF Types, ByReqReg
<1>2. walk' = [walk EXCEPT !.pos = @ + 1]
  BY DEF WalkSearch
<1>3. \/ told' = told
      \/ told' = told \cup {Report(m.client, m.type, lib[i].comp)}
  BY DEF WalkSearch
<1>4. Report(m.client, m.type, lib[i].comp) \in ReportSet
  BY <1>1, ReportType DEF ReportSet
<1>5. told' \subseteq ReportSet
  BY <1>3, <1>4 DEF Types, EnvType, ReportSet
<1>6. walk' \in WalkSet /\ walk'.pos # 0
  BY <1>1, <1>2 DEF WalkSet
<1> QED
  BY <1>5, <1>6

\* One step of the child's walk through the list.
LEMMA WalkTypes ==
  ASSUME Types, ChildWalk
  PROVE  Types'
<1> DEFINE m == cur[child]
           i == walk.pos
<1>1. /\ pc[child] = "walk"
      /\ UNCHANGED <<lib, addLibrary, subs, cancelNext, cancelQueue, pipe, ref, todo, at,
                     starts, conf, due>>
      /\ \/ i <= Len(lib) /\ WalkReqReg(m, i) /\ UNCHANGED <<pc, cur>>
         \/ i <= Len(lib) /\ ~ByReqReg(m) /\ WalkSearch(m, i) /\ UNCHANGED <<pc, cur>>
         \/ /\ walk' = [walk EXCEPT !.pos = 1] /\ pc' = [pc EXCEPT ![child] = "post"]
            /\ UNCHANGED <<cur, told>>
         \/ ChildIdle /\ walk' = NoWalk /\ UNCHANGED told
  BY DEF ChildWalk, dmVars
<1>2. LibType' /\ Len(lib') = Len(lib) /\ ListType' /\ QueueType'
  BY <1>1 DEF Types, LibType, ListType, QueueType
<1>3. /\ walk \in WalkSet /\ {"idle", "walk", "post"} \subseteq Pcs \ Holds
      /\ pc[child] \notin Holds /\ child \in Thread /\ NoMsg \in Message
      /\ Len(lib) \in Nat /\ Slots = 1..Len(lib) /\ pc \in [Thread -> Pcs]
  BY <1>1, ThreadTypes, Threads
<1>4. m \in RequestMsg /\ m \in Message /\ i # 0 /\ i \in Nat
  BY <1>1, <1>3 DEF Types, ThreadType, WalkType, WalkSet, Message, PipeMsg
<1>5. told' \subseteq ReportSet => EnvType'
  BY <1>1 DEF Types, EnvType, ReportSet
<1>6. told' = told => told' \subseteq ReportSet
  BY DEF Types, EnvType, ReportSet
<1>7. cur = [cur EXCEPT ![child] = m] /\ pc = [pc EXCEPT ![child] = "walk"]
  BY <1>1, <1>3 DEF Types, ThreadType
<1>8. PICK n, x : n = m /\ x = i
  OBVIOUS
<1> HIDE DEF m, i
<1>9. CASE i <= Len(lib) /\ WalkReqReg(m, i) /\ UNCHANGED <<pc, cur>>
  <2>1. n \in RequestMsg /\ x \in Slots /\ x = walk.pos /\ WalkReqReg(n, x)
    BY <1>3, <1>4, <1>8, <1>9 DEF i
  <2>2. walk' \in WalkSet /\ walk'.pos # 0 /\ told' \subseteq ReportSet
    BY <2>1, WalkReqRegEffect
  <2>3. pc' = [pc EXCEPT ![child] = "walk"] /\ cur' = [cur EXCEPT ![child] = m]
    BY <1>7, <1>9
  <2> QED
    BY <1>1, <1>2, <1>3, <1>4, <1>5, <2>2, <2>3, ChildMoves
<1>10. CASE i <= Len(lib) /\ ~ByReqReg(m) /\ WalkSearch(m, i) /\ UNCHANGED <<pc, cur>>
  <2>1. n \in RequestMsg /\ x \in Slots /\ x = walk.pos /\ WalkSearch(n, x) /\ ~ByReqReg(n)
    BY <1>3, <1>4, <1>8, <1>10 DEF i
  <2>2. walk' \in WalkSet /\ walk'.pos # 0 /\ told' \subseteq ReportSet
    BY <2>1, WalkSearchEffect
  <2>3. pc' = [pc EXCEPT ![child] = "walk"] /\ cur' = [cur EXCEPT ![child] = m]
    BY <1>7, <1>10
  <2> QED
    BY <1>1, <1>2, <1>3, <1>4, <1>5, <2>2, <2>3, ChildMoves
<1>11. CASE /\ walk' = [walk EXCEPT !.pos = 1] /\ pc' = [pc EXCEPT ![child] = "post"]
            /\ UNCHANGED <<cur, told>>
  <2>1. walk' \in WalkSet
    BY <1>3, <1>11 DEF WalkSet
  <2>2. cur' = [cur EXCEPT ![child] = m]
    BY <1>7, <1>11
  <2> QED
    BY <1>1, <1>2, <1>3, <1>4, <1>5, <1>6, <1>11, <2>1, <2>2, ChildMoves
<1>12. CASE ChildIdle /\ walk' = NoWalk /\ UNCHANGED told
  <2>1. walk' \in WalkSet
    BY <1>12 DEF WalkSet, NoWalk
  <2>2. pc' = [pc EXCEPT ![child] = "idle"] /\ cur' = [cur EXCEPT ![child] = NoMsg]
    BY <1>12 DEF ChildIdle
  <2> QED
    BY <1>1, <1>2, <1>3, <1>5, <1>6, <1>12, <2>1, <2>2, ChildMoves
<1> QED
  BY <1>1, <1>9, <1>10, <1>11, <1>12

\* The tasks the child posts are marked in their slots, nothing else.
LEMMA ChildPostSlots ==
  ASSUME Types, ChildPost
  PROVE  SlotsKept /\ due' \subseteq App
<1>1. CASE PostTask({i \in {walk.pos} : Postable(i, walk.matched)})
  BY <1>1, PostEffect DEF SlotsKept, Types
<1>2. CASE UNCHANGED <<lib, due>>
  BY <1>2, SameSlots DEF Types, EnvType
<1> QED
  BY <1>1, <1>2 DEF ChildPost

\* So it preserves the types.
LEMMA PostTypes ==
  ASSUME Types, ChildPost
  PROVE  Types'
<1>1. /\ pc[child] = "post"
      /\ \/ walk' = [walk EXCEPT !.pos = @ + 1] /\ UNCHANGED <<pc, cur>>
         \/ ChildIdle /\ walk' = NoWalk
      /\ UNCHANGED <<addLibrary, subs, cancelNext, cancelQueue, pipe, ref, todo, at, starts,
                     conf, told>>
  BY DEF ChildPost
<1>2. LibType' /\ Len(lib') = Len(lib) /\ ListType' /\ QueueType' /\ EnvType'
  BY <1>1, ChildPostSlots DEF Types, SlotsKept, ListType, QueueType, EnvType
<1>3. /\ walk \in WalkSet /\ {"idle", "post"} \subseteq Pcs \ Holds
      /\ pc[child] \notin Holds /\ child \in Thread /\ NoMsg \in Message
      /\ pc \in [Thread -> Pcs]
  BY <1>1, ThreadTypes, Threads
<1>4. CASE walk' = [walk EXCEPT !.pos = @ + 1] /\ UNCHANGED <<pc, cur>>
  <2>1. walk' \in WalkSet
    BY <1>3, <1>4 DEF WalkSet
  <2>2. pc' = [pc EXCEPT ![child] = "post"] /\ cur' = [cur EXCEPT ![child] = cur[child]]
        /\ cur[child] \in Message
    BY <1>1, <1>3, <1>4 DEF Types, ThreadType
  <2> QED
    BY <1>1, <1>2, <1>3, <2>1, <2>2, ChildMoves
<1>5. CASE ChildIdle /\ walk' = NoWalk
  <2>1. walk' \in WalkSet
    BY <1>5 DEF WalkSet, NoWalk
  <2>2. pc' = [pc EXCEPT ![child] = "idle"] /\ cur' = [cur EXCEPT ![child] = NoMsg]
    BY <1>5 DEF ChildIdle
  <2> QED
    BY <1>1, <1>2, <1>3, <2>1, <2>2, ChildMoves
<1> QED
  BY <1>1, <1>4, <1>5

\* What a failure does to its slot.
LEMMA FailEffect ==
  ASSUME Types, ref[child] # 0, lib' = Fail(ref[child])
  PROVE  /\ ref[child] \in Slots /\ LibType' /\ Len(lib') = Len(lib)
         /\ \A j \in Slots : j # ref[child] => lib'[j] = lib[j]
         /\ lib'[ref[child]].available = lib[ref[child]].available
         /\ lib'[ref[child]].active = FALSE
         /\ lib'[ref[child]].comp = lib[ref[child]].comp
         /\ lib'[ref[child]].name = lib[ref[child]].name
         /\ lib'[ref[child]].pid = lib[ref[child]].pid /\ lib'[ref[child]].posted = TRUE
<1> DEFINE i == ref[child]
<1>1. i \in Slots
  BY Threads, ThreadTypes DEF Types, RefType
<1>2. PICK x \in Slots : x = i
  BY <1>1
<1> HIDE DEF i
<1>3. PICK e \in SlotType :
        /\ Fail(x) = [lib EXCEPT ![x] = e]
        /\ e.available = lib[x].available /\ e.active = FALSE
        /\ e.comp = lib[x].comp /\ e.name = lib[x].name /\ e.pid = lib[x].pid
        /\ e.posted = TRUE
  BY FailSlot DEF Types
<1>4. lib' = [lib EXCEPT ![x] = e]
  BY <1>2, <1>3 DEF i
<1>5. /\ LibType' /\ Len(lib') = Len(lib) /\ lib'[x] = e
      /\ \A j \in Slots : j # x => lib'[j] = lib[j]
  BY <1>4, ChangeSlot DEF Types
<1> QED
  BY <1>1, <1>2, <1>3, <1>5 DEF i

\* The child takes addLibrary for a failed task and makes its slot inactive.
LEMMA TaskErrorTypes ==
  ASSUME Types, TaskError
  PROVE  Types'
<1>1. child \in Thread /\ child # "cancel" /\ child \notin XThread
  BY Threads
<1>2. /\ pc[child] = "wait"
      /\ UNCHANGED <<cancelNext, cancelQueue, pipe, ref, walk, starts, conf, due>>
  BY DEF TaskError
<1>3. /\ todo \in [Thread -> Seq(AllKinds)] /\ at \in [Thread -> Nat \ {0}]
      /\ walk' \in WalkSet /\ "idle" \in Pcs \ Holds
      /\ NoMsg \in Message /\ pc[child] \notin Holds /\ "publish" \in Pcs
      /\ "publish" \in Holds /\ 1 \in Nat \ {0} /\ "publish" # "walk" /\ "idle" # "walk"
  BY <1>2, ThreadTypes DEF Holds
<1>4. CASE ref[child] = 0
  <2>1. /\ UNCHANGED <<addLibrary, lib, subs, todo, at, told>>
        /\ pc' = [pc EXCEPT ![child] = "idle"] /\ cur' = [cur EXCEPT ![child] = NoMsg]
    BY <1>4 DEF TaskError, WaitAndSignal, ChildIdle
  <2>2. LibType' /\ Len(lib') = Len(lib) /\ ListType' /\ QueueType' /\ EnvType'
    BY <1>2, <2>1 DEF Types, LibType, ListType, QueueType, EnvType
  <2> QED
    BY <1>2, <1>3, <2>1, <2>2, ChildMoves
<1>5. CASE ref[child] # 0
  <2> DEFINE c == lib[ref[child]].comp
  <2>1. /\ Wait /\ lib' = Fail(ref[child])
        /\ subs' = removeSubscriptions(subs, c, EndsWith(REQ_REG_FUTURE))
        /\ told' \subseteq told
        /\ todo' = [todo EXCEPT ![child] = CancellationStages]
        /\ at' = [at EXCEPT ![child] = 1]
        /\ pc' = [pc EXCEPT ![child] = "publish"] /\ UNCHANGED cur
    BY <1>5 DEF TaskError
  <2>2. LibType' /\ Len(lib') = Len(lib)
    BY <1>5, <2>1, FailEffect
  <2>3. ListType'
    <3>1. removeSubscriptions(subs, c, EndsWith(REQ_REG_FUTURE)) \in Seq(SubType)
      BY RemoveType DEF Types, ListType
    <3> QED
      BY <2>1, <3>1 DEF ListType
  <2>4. Len(lib) <= Len(lib') /\ QueueType' /\ EnvType'
    BY <1>2, <2>1, <2>2 DEF Types, LibType, QueueType, EnvType
  <2>5. CancellationStages \in Seq(AllKinds)
    BY StagesType
  <2>6. /\ todo' \in [Thread -> Seq(AllKinds)] /\ at' \in [Thread -> Nat \ {0}]
    BY <1>3, <2>1, <2>5
  <2>7. cur' = [cur EXCEPT ![child] = cur[child]] /\ cur[child] \in Message
    BY <1>1, <2>1, KeepMsg DEF Types
  <2> QED
    BY <1>1, <1>2, <1>3, <1>5, <2>1, <2>2, <2>3, <2>4, <2>6, <2>7, ThreadStep
<1> QED
  BY <1>4, <1>5

\* It gives addLibrary back.
LEMMA TaskErrorDoneTypes ==
  ASSUME Types, TaskErrorDone
  PROVE  Types'
<1>1. child \in Thread /\ child # "cancel" /\ child \notin XThread
  BY Threads
<1>2. /\ pc[child] = "publish" /\ Signal /\ pc' = [pc EXCEPT ![child] = "idle"]
      /\ cur' = [cur EXCEPT ![child] = NoMsg] /\ ref' = [ref EXCEPT ![child] = 0]
      /\ UNCHANGED <<lib, subs, cancelNext, cancelQueue, pipe, todo, at, walk, starts,
                     conf, due, told>>
  BY DEF TaskErrorDone, envVars, ChildIdle
<1>3. /\ LibType' /\ Len(lib) <= Len(lib') /\ ListType' /\ QueueType' /\ EnvType'
      /\ 0 \in 0..Len(lib')
  BY <1>2 DEF Types, LibType, ListType, QueueType, EnvType
<1>4. /\ todo' \in [Thread -> Seq(AllKinds)] /\ at' \in [Thread -> Nat \ {0}]
      /\ walk' \in WalkSet /\ "idle" \in Pcs /\ "idle" \notin Holds
      /\ NoMsg \in Message /\ pc[child] \in Holds
  BY <1>2, ThreadTypes DEF Holds
<1> QED
  BY <1>1, <1>2, <1>3, <1>4, ThreadStep

\* A Consume or Cancel is passed to its provider.
LEMMA ConsumeTypes ==
  ASSUME Types, Consume
  PROVE  Types'
<1>1. /\ pc[child] = "consume" /\ pc' = [pc EXCEPT ![child] = "idle"]
      /\ cur' = [cur EXCEPT ![child] = NoMsg]
      /\ UNCHANGED <<lib, addLibrary, subs, cancelNext, cancelQueue, pipe, ref, todo, at,
                     walk, starts, conf, due, told>>
  BY DEF Consume, ChildIdle
<1>2. LibType' /\ Len(lib') = Len(lib) /\ ListType' /\ QueueType' /\ EnvType'
  BY <1>1 DEF Types, LibType, ListType, QueueType, EnvType
<1>3. /\ walk' \in WalkSet /\ "idle" \in Pcs \ Holds /\ pc[child] \notin Holds
      /\ NoMsg \in Message
  BY <1>1, ThreadTypes
<1> QED
  BY <1>1, <1>2, <1>3, ChildMoves

\* A message for the child enters the pipe.
LEMMA SendTypes ==
  ASSUME Types, NEW m \in PipeMsg, Send(m)
  PROVE  Types'
<1>1. /\ pipe' = Append(pipe, m)
      /\ UNCHANGED <<lib, addLibrary, subs, cancelNext, cancelQueue, pc, cur, ref, todo, at,
                     walk, starts, conf, due, told>>
  BY DEF Send, thVars
<1>2. pipe' \in Seq(PipeMsg)
  BY <1>1 DEF Types, QueueType
<1>3. LibType' /\ Len(lib') = Len(lib) /\ ListType' /\ QueueType' /\ EnvType'
  BY <1>1, <1>2 DEF Types, LibType, ListType, QueueType, EnvType
<1>4. todo' \in [Thread -> Seq(AllKinds)] /\ at' \in [Thread -> Nat \ {0}]
  BY <1>1, ThreadTypes
<1> QED
  BY <1>1, <1>3, <1>4, OtherStep

\* A cancellation enters its queue.
LEMMA QueueTypes ==
  ASSUME Types, NEW m \in CancelMsg, cancelQueue' = Append(cancelQueue, m),
         UNCHANGED <<lib, addLibrary, subs, cancelNext, pipe, pc, cur, ref, todo, at, walk,
                     starts, conf, due, told>>
  PROVE  Types'
<1>1. cancelQueue' \in Seq(CancelMsg)
  BY DEF Types, QueueType
<1>2. LibType' /\ Len(lib') = Len(lib) /\ ListType' /\ QueueType' /\ EnvType'
  BY <1>1 DEF Types, LibType, ListType, QueueType, EnvType
<1>3. todo' \in [Thread -> Seq(AllKinds)] /\ at' \in [Thread -> Nat \ {0}]
  BY ThreadTypes
<1> QED
  BY <1>2, <1>3, OtherStep

\* A component starts.
LEMMA StartTypes ==
  ASSUME Types, NEW c \in App \cup Sensor, Start(c)
  PROVE  Types'
<1>1. /\ starts' = [starts EXCEPT ![c] = @ + 1] /\ conf' = conf \ {c} /\ due' = due \ {c}
      /\ UNCHANGED <<lib, addLibrary, subs, cancelNext, cancelQueue, pipe, pc, cur, ref,
                     todo, at, walk, told>>
  BY DEF Start, dmVars, thVars
<1>2. LibType' /\ Len(lib') = Len(lib) /\ ListType' /\ QueueType'
  BY <1>1 DEF Types, LibType, ListType, QueueType
<1>3. EnvType'
  <2>1. starts \in [App \cup Sensor -> Nat]
    BY DEF Types, EnvType
  <2>2. starts' \in [App \cup Sensor -> Nat]
    BY <1>1, <2>1
  <2> QED
    BY <1>1, <2>2 DEF Types, EnvType
<1>4. todo' \in [Thread -> Seq(AllKinds)] /\ at' \in [Thread -> Nat \ {0}]
  BY <1>1, ThreadTypes
<1> QED
  BY <1>1, <1>2, <1>3, <1>4, OtherStep

\* A component ends, and it or its PM cancels it.
LEMMA EndTypes ==
  ASSUME Types, NEW c \in App \cup Sensor, NEW byPM \in BOOLEAN, NEW full \in BOOLEAN,
         End(c, byPM, full)
  PROVE  Types'
<1> DEFINE m == [type |-> "CancelxTEDS", comp |-> c, pid |-> <<c, starts[c]>>,
                 byPM |-> byPM, full |-> full]
<1>1. starts[c] \in Nat /\ c \in Comp
  BY Components DEF Types, EnvType
<1>2. m \in CancelMsg
  BY <1>1 DEF CancelMsg, Pid
<1>3. /\ cancelQueue' = Append(cancelQueue, m)
      /\ UNCHANGED <<lib, addLibrary, subs, cancelNext, pipe, pc, cur, ref, todo, at, walk,
                     starts, conf, due, told>>
  BY DEF End, thVars
<1> HIDE DEF m
<1> QED
  BY <1>2, <1>3, QueueTypes

\* A component fails and is reported.
LEMMA ErrorTypes ==
  ASSUME Types, NEW c \in App \cup Sensor, Error(c)
  PROVE  Types'
<1> DEFINE m == [type |-> "TaskError", comp |-> c, pid |-> <<c, starts[c]>>]
<1>1. starts[c] \in Nat /\ c \in Comp
  BY Components DEF Types, EnvType
<1>2. m \in PipeMsg
  BY <1>1 DEF PipeMsg, ErrorMsg, Pid
<1>3. /\ pipe' = Append(pipe, m) /\ conf' = conf \ {c}
      /\ UNCHANGED <<lib, addLibrary, subs, cancelNext, cancelQueue, pc, cur, ref, todo, at,
                     walk, starts, due, told>>
  BY DEF Error, thVars
<1> HIDE DEF m
<1>4. pipe' \in Seq(PipeMsg)
  BY <1>2, <1>3 DEF Types, QueueType
<1>5. LibType' /\ Len(lib') = Len(lib) /\ ListType' /\ QueueType' /\ EnvType'
  BY <1>3, <1>4 DEF Types, LibType, ListType, QueueType, EnvType
<1>6. todo' \in [Thread -> Seq(AllKinds)] /\ at' \in [Thread -> Nat \ {0}]
  BY <1>3, ThreadTypes
<1> QED
  BY <1>3, <1>5, <1>6, OtherStep

\* A client subscribes, cancels or consumes.
LEMMA RequestTypes ==
  ASSUME Types, NEW s \in Client,
         \/ \E k \in Kinds \cup (Plain \cap {"ReqReg"}) : Request(s, k)
         \/ \E k \in Kinds : Unsubscribe(s, k)
         \/ \E type \in {"Consume", "Cancel"}, i \in Slots : SendConsume(s, type, i)
  PROVE  Types'
<1>1. Kinds \subseteq AllKinds
  BY DmBoundsAssumption
<1>2. ASSUME NEW k \in Kinds \cup (Plain \cap {"ReqReg"}), Request(s, k)
      PROVE  Types'
  <2> DEFINE m == [type |-> k, client |-> s]
  <2>1. m \in PipeMsg /\ Send(m)
    BY <1>1, <1>2 DEF PipeMsg, RequestMsg, Request
  <2> HIDE DEF m
  <2> QED
    BY <2>1, SendTypes
<1>3. ASSUME NEW k \in Kinds, Unsubscribe(s, k)
      PROVE  Types'
  <2> DEFINE m == [type |-> "Unsubscribe", client |-> s, kind |-> k]
  <2>1. m \in PipeMsg /\ Send(m)
    BY <1>1, <1>3 DEF PipeMsg, UnsubscribeMsg, Unsubscribe
  <2> HIDE DEF m
  <2> QED
    BY <2>1, SendTypes
<1>4. ASSUME NEW type \in {"Consume", "Cancel"}, NEW i \in Slots, SendConsume(s, type, i)
      PROVE  Types'
  <2> DEFINE p == lib[i].comp
             q == lib[i].sid
             h == s \in conf
             m == [type |-> type, client |-> s, prov |-> p, sid |-> q, hasId |-> h]
  <2>1. lib[i] \in SlotType
    BY SlotComp DEF Types
  <2>2. p \in Comp /\ q \in Nat \X Nat /\ h \in BOOLEAN
    BY <2>1 DEF SlotType
  <2>3. Send(m)
    BY <1>4 DEF SendConsume
  <2> HIDE DEF p, q, h
  <2>4. m \in ConsumeMsg
    BY <2>2 DEF ConsumeMsg
  <2>5. m \in PipeMsg
    BY <2>4 DEF PipeMsg
  <2> HIDE DEF m
  <2> QED
    BY <2>3, <2>5, SendTypes
<1> QED
  BY <1>2, <1>3, <1>4

\* A cancellation of the DM's own xTEDS arrives.
LEMMA ForeignTypes ==
  ASSUME Types, ForeignCancel
  PROVE  Types'
<1> DEFINE m == [type |-> "CancelxTEDS", comp |-> DM, pid |-> <<DM, 0>>,
                 byPM |-> FALSE, full |-> FALSE]
<1>1. m \in CancelMsg
  BY Components DEF CancelMsg, Pid
<1>2. /\ cancelQueue' = Append(cancelQueue, m)
      /\ UNCHANGED <<lib, addLibrary, subs, cancelNext, pipe, pc, cur, ref, todo, at, walk,
                     starts, conf, due, told>>
  BY DEF ForeignCancel, thVars
<1> HIDE DEF m
<1> QED
  BY <1>1, <1>2, QueueTypes

\* So the environment preserves the types.
LEMMA EnvTypes ==
  ASSUME Types, EnvNext
  PROVE  Types'
<1>1. ASSUME NEW c \in App \cup Sensor,
             Start(c) \/ Exit(c) \/ Unplug(c) \/ Kill(c) \/ Error(c)
      PROVE  Types'
  <2>1. CASE Start(c)
    BY <2>1, StartTypes
  <2>2. CASE Exit(c) \/ Unplug(c)
    <3>1. End(c, FALSE, FALSE)
      BY <2>2 DEF Exit, Unplug
    <3> QED
      BY <3>1, EndTypes
  <2>3. CASE Kill(c)
    <3>1. End(c, TRUE, TRUE)
      BY <2>3 DEF Kill
    <3> QED
      BY <3>1, EndTypes
  <2>4. CASE Error(c)
    BY <2>4, ErrorTypes
  <2> QED
    BY <1>1, <2>1, <2>2, <2>3, <2>4
<1> QED
  BY <1>1, RequestTypes, ForeignTypes DEF EnvNext

\* Every step preserves the types and the exclusion by addLibrary.
LEMMA TypesNext ==
  ASSUME Types, [Next]_vars
  PROVE  Types'
<1>1. ASSUME NEW c \in App \cup Sensor, NEW t \in XThread, ListenxTEDS(c, t)
      PROVE  Types'
  BY <1>1, ListenTypes
<1>2. ASSUME NEW t \in XThread, xTEDSStep(t)
      PROVE  Types'
  <2>1. t \in Thread
    BY Threads
  <2> QED
    BY <1>2, <2>1, ParseTypes, RegisterTypes, xTEDSDoneTypes, PublishTypes DEF xTEDSStep
<1>3. CASE CancelStep
  BY <1>3, Threads, CancelFindTypes, CancelApplyTypes, CancelFinishTypes,
     CancelReleaseTypes, PublishTypes DEF CancelStep
<1>4. CASE ChildStep
  BY <1>4, Threads, TakeTypes, WalkTypes, PostTypes, TaskErrorTypes, TaskErrorDoneTypes,
     ConsumeTypes, PublishTypes DEF ChildStep
<1>5. CASE EnvNext
  BY <1>5, EnvTypes
<1>6. CASE UNCHANGED vars
  <2>1. UNCHANGED <<lib, addLibrary, subs, cancelNext, cancelQueue, pipe, pc, cur, ref,
                    todo, at, walk, starts, conf, due, told>>
    BY <1>6 DEF vars, dmVars, thVars, envVars
  <2>2. LibType' /\ Len(lib') = Len(lib) /\ ListType' /\ QueueType' /\ EnvType'
    BY <2>1 DEF Types, LibType, ListType, QueueType, EnvType
  <2>3. todo' \in [Thread -> Seq(AllKinds)] /\ at' \in [Thread -> Nat \ {0}]
    BY <2>1, ThreadTypes
  <2> QED
    BY <2>1, <2>2, <2>3, OtherStep
<1> QED
  BY <1>1, <1>2, <1>3, <1>4, <1>5, <1>6 DEF Next

\* The types and the exclusion hold in every reachable state.
LEMMA TypesAlways == Spec => []Types
<1>1. Types /\ [Next]_vars => Types'
  BY TypesNext
<1> QED
  BY TypesInit, <1>1, PTL DEF Spec

\* The exclusion as the semaphore keeps it: its value and its holders add up
\* to one.
LEMMA LockCounts ==
  ASSUME Lock
  PROVE  addLibrary + Cardinality({t \in Thread : Holding(t)}) = 1
<1> DEFINE H == {t \in Thread : Holding(t)}
<1>1. CASE addLibrary = 1 /\ \A t \in Thread : ~Holding(t)
  <2>1. H = {}
    BY <1>1
  <2>2. Cardinality(H) = 0
    BY <2>1, FS_EmptySet
  <2> QED
    BY <1>1, <2>2
<1>2. CASE addLibrary = 0 /\ \E t \in Thread : /\ Holding(t)
                                               /\ \A u \in Thread : Holding(u) => u = t
  <2>1. PICK t \in Thread : Holding(t) /\ \A u \in Thread : Holding(u) => u = t
    BY <1>2
  <2>2. H = {t}
    BY <2>1
  <2>3. Cardinality(H) = 1
    BY <2>2, FS_Singleton
  <2> QED
    BY <1>2, <2>3
<1> QED
  BY <1>1, <1>2 DEF Lock

\* The state of the Data Manager is well-typed, for any components, requests
\* and number of xTEDS threads; and addLibrary together with the threads that
\* hold it is 1: whatever way xTEDS, CancelxTEDS and TaskError return, the
\* semaphore is given back once, so that no two of them change the slots at a
\* time; and one that holds it has a slot of the list to work on.
THEOREM DmTypeCorrect == Spec => []TypeOK
<1>1. Types => TypeOK
  <2> SUFFICES ASSUME Types PROVE TypeOK
    OBVIOUS
  <2>1. addLibrary + Cardinality({t \in Thread : Holding(t)}) = 1
    BY LockCounts DEF Types
  <2> QED
    BY <2>1 DEF Types, TypeOK, LibType, ListType, SubType, QueueType, ThreadType, Pcs,
                RefType, EnvType
<1> QED
  BY <1>1, TypesAlways, PTL

-----------------------------------------------------------------------------
(* One slot for a component.                                               *)

\* No two components have one name: the name is all AlreadyRegistered has to
\* tell an inactive slot by.
OwnNames == \A c, d \in Comp : NameOf[c] = NameOf[d] => c = d

\* A slot has the name of the component it is for, a registered one is in use,
\* a cancellation's stays in use until it gives it back itself, and no
\* component has two in use.
NamesKept == \A i \in Slots : lib[i].name = NameOf[lib[i].comp]
ActiveInUse == \A i \in Slots : lib[i].active => ~lib[i].available
Cancels(i) == pc["cancel"] # "idle" /\ ref["cancel"] = i /\ i # 0
CancelHolds == \A i \in Slots : Cancels(i) => ~lib[i].available
OneSlot == \A i, j \in Slots : /\ ~lib[i].available /\ ~lib[j].available
                               /\ lib[i].comp = lib[j].comp
                               => i = j
SlotInv == NamesKept /\ ActiveInUse /\ CancelHolds /\ OneSlot

\* Initially only the DM's own slot is in use.
LEMMA SlotInvInit == Init => SlotInv
<1> SUFFICES ASSUME Init PROVE SlotInv
  OBVIOUS
<1>1. Slots = {1} /\ lib[1] = DmSlot
  BY DEF Init, Slots
<1>2. DmSlot.name = NameOf[DmSlot.comp] /\ DmSlot.available = FALSE
  BY DEF DmSlot
<1>3. pc["cancel"] = "idle"
  BY Threads DEF Init
<1> QED
  BY <1>1, <1>2, <1>3 DEF SlotInv, NamesKept, ActiveInUse, CancelHolds, Cancels, OneSlot

\* A step that changes nothing of a slot but what is posted.
LEMMA KeptInv ==
  ASSUME Types, SlotInv, SlotsKept,
         \A i \in Slots : Cancels(i)' => Cancels(i) \/ ~lib[i].available
  PROVE  SlotInv'
<1>1. Slots' = Slots
  BY DEF SlotsKept, Types, LibType, Slots
<1>2. \A i \in Slots : SlotKept(i)
  BY DEF SlotsKept
<1>3. NamesKept' /\ ActiveInUse' /\ OneSlot'
  BY <1>1, <1>2 DEF SlotInv, SlotKept, NamesKept, ActiveInUse, OneSlot
<1>4. CancelHolds'
  BY <1>1, <1>2 DEF SlotInv, SlotKept, CancelHolds
<1> QED
  BY <1>3, <1>4 DEF SlotInv

\* A step that changes slot r.
LEMMA ChangedInv ==
  ASSUME SlotInv, NEW r, Slots' \subseteq Slots \cup {r},
         \A j \in Slots : j # r => lib'[j] = lib[j],
         lib'[r].name = NameOf[lib'[r].comp],
         lib'[r].active => ~lib'[r].available,
         \A j \in Slots : j # r /\ ~lib[j].available /\ ~lib'[r].available
                            => lib[j].comp # lib'[r].comp,
         \A j \in Slots : Cancels(j)' => Cancels(j),
         Cancels(r)' => ~lib'[r].available
  PROVE  SlotInv'
<1>1. \A j \in Slots' : j # r => j \in Slots /\ lib'[j] = lib[j]
  OBVIOUS
<1>2. NamesKept'
  BY <1>1 DEF SlotInv, NamesKept
<1>3. ActiveInUse'
  BY <1>1 DEF SlotInv, ActiveInUse
<1>4. CancelHolds'
  BY <1>1 DEF SlotInv, CancelHolds
<1>5. OneSlot'
  BY <1>1 DEF SlotInv, OneSlot
<1> QED
  BY <1>2, <1>3, <1>4, <1>5 DEF SlotInv

\* What another thread does leaves the slot a cancellation is at.
LEMMA OthersCancel ==
  ASSUME Types, NEW t \in Thread, t # "cancel",
         pc' = pc \/ \E x : pc' = [pc EXCEPT ![t] = x],
         ref' = ref \/ \E x : ref' = [ref EXCEPT ![t] = x]
  PROVE  \A i : Cancels(i)' => Cancels(i)
<1>1. pc'["cancel"] = pc["cancel"]
  BY Threads DEF Types, ThreadType
<1>2. ref'["cancel"] = ref["cancel"]
  BY Threads DEF Types, RefType
<1> QED
  BY <1>1, <1>2 DEF Cancels

\* A registration takes the slot of its name when there is one.
LEMMA RegisterInv ==
  ASSUME OwnNames, Types, SlotInv, NEW t \in XThread, RegisterxTEDS(t)
  PROVE  SlotInv'
<1> DEFINE c == cur[t].comp
<1>1. t \in Thread /\ t # "cancel"
  BY Threads
<1>2. c \in Comp /\ LibType' /\ Len(lib) <= Len(lib')
  BY RegisterEffect
<1>3. \A i : Cancels(i)' => Cancels(i)
  <2>1. /\ pc' = pc \/ \E x : pc' = [pc EXCEPT ![t] = x]
        /\ ref' = ref \/ \E x : ref' = [ref EXCEPT ![t] = x]
    BY DEF RegisterxTEDS
  <2> QED
    BY <1>1, <2>1, OthersCancel
<1>4. PICK r \in Nat \ {0} :
        \/ lib' = lib
        \/ /\ r \in Slots
           /\ ~lib[r].available /\ lib[r].name = NameOf[c]
           /\ lib'[r].available = FALSE /\ lib'[r].active = TRUE
           /\ lib'[r].comp = c /\ lib'[r].name = NameOf[c]
           /\ Len(lib') = Len(lib) /\ \A j \in Slots : j # r => lib'[j] = lib[j]
        \/ /\ r \in 1..(Len(lib) + 1) /\ AlreadyRegistered(c) = 0
           /\ r \in Slots => lib[r].available
           /\ lib'[r].available <=> c \in Malformed
           /\ lib'[r].active <=> c \notin Malformed
           /\ lib'[r].comp = c /\ lib'[r].name = NameOf[c]
           /\ Len(lib') = IF r \in Slots THEN Len(lib) ELSE Len(lib) + 1
           /\ \A j \in Slots : j # r => lib'[j] = lib[j]
  BY RegisterEffect
<1>5. Len(lib) \in Nat /\ Slots = 1..Len(lib) /\ Slots' = 1..Len(lib')
  BY <1>2 DEF Types, LibType, Slots
<1>6. \A j \in Slots : lib[j].comp \in Comp
  BY SlotComp DEF Types
<1> HIDE DEF c
<1>7. CASE lib' = lib
  <2>1. SlotsKept
    BY <1>7, SameSlots DEF Types
  <2> QED
    BY <1>3, <2>1, KeptInv
<1>8. CASE /\ r \in Slots
           /\ ~lib[r].available /\ lib[r].name = NameOf[c]
           /\ lib'[r].available = FALSE /\ lib'[r].active = TRUE
           /\ lib'[r].comp = c /\ lib'[r].name = NameOf[c]
           /\ Len(lib') = Len(lib) /\ \A j \in Slots : j # r => lib'[j] = lib[j]
  <2>1. lib[r].comp = c
    BY <1>2, <1>6, <1>8 DEF OwnNames, SlotInv, NamesKept
  <2>2. \A j \in Slots : j # r /\ ~lib[j].available => lib[j].comp # c
    BY <1>8, <2>1 DEF SlotInv, OneSlot
  <2>3. Slots' \subseteq Slots \cup {r}
    BY <1>5, <1>8
  <2> QED
    BY <1>3, <1>8, <2>2, <2>3, ChangedInv
<1>9. CASE /\ r \in 1..(Len(lib) + 1) /\ AlreadyRegistered(c) = 0
           /\ r \in Slots => lib[r].available
           /\ lib'[r].available <=> c \in Malformed
           /\ lib'[r].active <=> c \notin Malformed
           /\ lib'[r].comp = c /\ lib'[r].name = NameOf[c]
           /\ Len(lib') = IF r \in Slots THEN Len(lib) ELSE Len(lib) + 1
           /\ \A j \in Slots : j # r => lib'[j] = lib[j]
  <2>1. \A j \in Slots : ~lib[j].available /\ lib[j].name = NameOf[c] => lib[j].comp # c
    <3>1. 0 \notin Slots
      BY <1>5
    <3> QED
      BY <1>9, <3>1, FindRegistered DEF Types
  <2>2. \A j \in Slots : ~lib[j].available => lib[j].comp # c
    BY <2>1 DEF SlotInv, NamesKept
  <2>3. Slots' \subseteq Slots \cup {r}
    <3>1. CASE r \in Slots
      BY <1>5, <1>9, <3>1
    <3>2. CASE r \notin Slots
      BY <1>5, <1>9, <3>2
    <3> QED
      BY <3>1, <3>2
  <2>4. Cancels(r)' => ~lib'[r].available
    <3> SUFFICES ASSUME Cancels(r) PROVE FALSE
      BY <1>3
    <3>1. r \in 0..Len(lib) /\ r # 0
      BY Threads DEF Types, RefType, Cancels
    <3>2. r \in Slots
      BY <1>5, <3>1
    <3> QED
      BY <1>9, <3>2 DEF SlotInv, CancelHolds
  <2> QED
    BY <1>3, <1>9, <2>2, <2>3, <2>4, ChangedInv
<1> QED
  BY <1>4, <1>7, <1>8, <1>9

\* A cancellation makes active again only the slot it found.
LEMMA CancelApplyInv ==
  ASSUME Types, SlotInv, CancelApply
  PROVE  SlotInv'
<1>1. pc["cancel"] = "wait" /\ UNCHANGED ref /\ "cancel" \in Thread
  BY Threads DEF CancelApply
<1>2. CASE ref["cancel"] = 0
  <2>1. lib' = lib
    BY <1>2 DEF CancelApply
  <2>2. SlotsKept
    BY <2>1, SameSlots DEF Types
  <2>3. \A i \in Slots : ~Cancels(i)'
    BY <1>1, <1>2 DEF Cancels
  <2> QED
    BY <2>2, <2>3, KeptInv
<1>3. CASE ref["cancel"] # 0
  <2> DEFINE r == ref["cancel"]
  <2>1. lib' = Deactivate(r, cur["cancel"].full)
    BY <1>3 DEF CancelApply
  <2>2. /\ r \in Slots /\ LibType' /\ Len(lib') = Len(lib)
        /\ \A j \in Slots : j # r => lib'[j] = lib[j]
        /\ lib'[r].available = lib[r].available
        /\ lib'[r].comp = lib[r].comp /\ lib'[r].name = lib[r].name
    BY <1>1, <1>3, <2>1, CancelEffect
  <2>3. ~lib[r].available
    BY <1>1, <1>3, <2>2 DEF SlotInv, CancelHolds, Cancels
  <2>4. lib[r].name = NameOf[lib[r].comp]
    BY <2>2 DEF SlotInv, NamesKept
  <2>5. \A j \in Slots : j # r /\ ~lib[j].available => lib[j].comp # lib[r].comp
    BY <2>2, <2>3 DEF SlotInv, OneSlot
  <2>6. Slots' = Slots
    BY <2>2 DEF Types, LibType, Slots
  <2>7. \A j \in Slots : Cancels(j)' => Cancels(j)
    BY <1>1 DEF Cancels
  <2> HIDE DEF r
  <2> QED
    BY <2>2, <2>3, <2>4, <2>5, <2>6, <2>7, ChangedInv
<1> QED
  BY <1>2, <1>3

\* Freeing a slot leaves the names of the others alone.
LEMMA CancelReleaseInv ==
  ASSUME Types, SlotInv, CancelRelease
  PROVE  SlotInv'
<1> DEFINE r == ref["cancel"]
<1>1. pc["cancel"] = "finish" /\ lib' = Release(r)
  BY DEF CancelRelease
<1>2. /\ r \in Slots /\ LibType' /\ Len(lib') = Len(lib)
      /\ \/ lib' = lib
         \/ /\ \A j \in Slots : j # r => lib'[j] = lib[j]
            /\ lib'[r].available = TRUE /\ lib'[r].active = FALSE
            /\ lib'[r].comp = lib[r].comp /\ lib'[r].name = lib[r].name
  BY <1>1, ReleaseEffect
<1>3. \A i : ~Cancels(i)'
  BY Threads DEF CancelRelease, Cancels, Types, ThreadType
<1> HIDE DEF r
<1>4. CASE lib' = lib
  <2>1. SlotsKept
    BY <1>4, SameSlots DEF Types
  <2> QED
    BY <1>3, <2>1, KeptInv
<1>5. CASE /\ \A j \in Slots : j # r => lib'[j] = lib[j]
           /\ lib'[r].available = TRUE /\ lib'[r].active = FALSE
           /\ lib'[r].comp = lib[r].comp /\ lib'[r].name = lib[r].name
  <2>1. lib[r].name = NameOf[lib[r].comp]
    BY <1>2 DEF SlotInv, NamesKept
  <2>2. Slots' = Slots
    BY <1>2 DEF Types, LibType, Slots
  <2> QED
    BY <1>2, <1>3, <1>5, <2>1, <2>2, ChangedInv
<1> QED
  BY <1>2, <1>4, <1>5

\* A failed task's slot is made inactive.
LEMMA TaskErrorInv ==
  ASSUME Types, SlotInv, TaskError
  PROVE  SlotInv'
<1>1. child \in Thread /\ child # "cancel" /\ UNCHANGED ref
      /\ \E x : pc' = [pc EXCEPT ![child] = x]
  BY Threads DEF TaskError, ChildIdle
<1>2. \A i : Cancels(i)' => Cancels(i)
  BY <1>1, OthersCancel
<1>3. CASE ref[child] = 0
  <2>1. lib' = lib
    BY <1>3 DEF TaskError
  <2>2. SlotsKept
    BY <2>1, SameSlots DEF Types
  <2> QED
    BY <1>2, <2>2, KeptInv
<1>4. CASE ref[child] # 0
  <2>1. lib' = Fail(ref[child])
    BY <1>4 DEF TaskError
  <2>2. PICK r \in Slots :
        /\ r \in Slots /\ LibType' /\ Len(lib') = Len(lib)
        /\ \A j \in Slots : j # r => lib'[j] = lib[j]
        /\ lib'[r].available = lib[r].available /\ lib'[r].active = FALSE
        /\ lib'[r].comp = lib[r].comp /\ lib'[r].name = lib[r].name
    BY <1>4, <2>1, FailEffect
  <2>3. lib[r].name = NameOf[lib[r].comp]
    BY <2>2 DEF SlotInv, NamesKept
  <2>4. \A j \in Slots : j # r /\ ~lib[j].available /\ ~lib[r].available
                           => lib[j].comp # lib[r].comp
    BY <2>2 DEF SlotInv, OneSlot
  <2>5. Slots' = Slots
    BY <2>2 DEF Types, LibType, Slots
  <2>6. Cancels(r)' => ~lib'[r].available
    BY <1>2, <2>2 DEF SlotInv, CancelHolds
  <2> QED
    BY <1>2, <2>2, <2>3, <2>4, <2>5, <2>6, ChangedInv
<1> QED
  BY <1>3, <1>4

\* The other steps leave the slots as they are.
LEMMA QuietStep ==
  ASSUME Types, Next
  PROVE  \/ \E t \in XThread : RegisterxTEDS(t)
         \/ CancelApply
         \/ CancelRelease
         \/ TaskError
         \/ SlotsKept /\ \A i \in Slots : Cancels(i)' => Cancels(i) \/ ~lib[i].available
<1> DEFINE Same == SlotsKept /\ \A i \in Slots : Cancels(i)' => Cancels(i) \/ ~lib[i].available
<1>1. ASSUME lib' = lib, NEW t \in Thread, t # "cancel",
             pc' = pc \/ \E x : pc' = [pc EXCEPT ![t] = x],
             ref' = ref \/ \E x : ref' = [ref EXCEPT ![t] = x]
      PROVE  Same
  <2>1. SlotsKept
    BY <1>1, SameSlots DEF Types
  <2>2. \A i : Cancels(i)' => Cancels(i)
    BY <1>1, OthersCancel
  <2> QED
    BY <2>1, <2>2
<1>2. ASSUME NEW t \in Thread, Publish(t)
      PROVE  Same
  <2>1. SlotsKept /\ UNCHANGED <<pc, ref>>
    BY <1>2, PublishEffect
  <2>2. \A i : Cancels(i)' => Cancels(i)
    BY <2>1 DEF Cancels
  <2> QED
    BY <2>1, <2>2
<1>3. child \in Thread /\ child # "cancel" /\ "cancel" \in Thread
  BY Threads
<1>4. ASSUME NEW c \in App \cup Sensor, NEW t \in XThread, ListenxTEDS(c, t)
      PROVE  Same
  <2>1. t \in Thread /\ t # "cancel"
    BY Threads
  <2>2. lib' = lib /\ ref' = ref /\ \E x : pc' = [pc EXCEPT ![t] = x]
    BY <1>4 DEF ListenxTEDS, dmVars
  <2> QED
    BY <1>1, <2>1, <2>2
<1>5. ASSUME NEW t \in XThread, Parse(t) \/ xTEDSDone(t)
      PROVE  Same
  <2>1. t \in Thread /\ t # "cancel"
    BY Threads
  <2>2. /\ lib' = lib /\ \E x : pc' = [pc EXCEPT ![t] = x]
        /\ ref' = ref \/ \E x : ref' = [ref EXCEPT ![t] = x]
    BY <1>5 DEF Parse, xTEDSDone, dmVars
  <2> QED
    BY <1>1, <2>1, <2>2
<1>6. CASE CancelFind
  <2>1. lib' = lib /\ ref' = [ref EXCEPT !["cancel"] = CancelTarget(Head(cancelQueue))]
    BY <1>6 DEF CancelFind
  <2>2. SlotsKept
    BY <2>1, SameSlots DEF Types
  <2>3. ref'["cancel"] = CancelTarget(Head(cancelQueue))
    BY <1>3, <2>1 DEF Types, RefType
  <2>4. \/ CancelTarget(Head(cancelQueue)) = 0
        \/ ~lib[CancelTarget(Head(cancelQueue))].available
    BY FindTarget DEF Types
  <2>5. \A i \in Slots : Cancels(i)' => ~lib[i].available
    BY <2>3, <2>4 DEF Cancels
  <2> QED
    BY <2>2, <2>5
<1>7. CASE CancelFinish
  <2>1. lib' = lib /\ ref' = ref /\ pc["cancel"] = "publish"
    BY <1>7 DEF CancelFinish
  <2>2. SlotsKept
    BY <2>1, SameSlots DEF Types
  <2>3. \A i : Cancels(i)' => Cancels(i)
    BY <2>1 DEF Cancels
  <2> QED
    BY <2>2, <2>3
<1>8. CASE ChildTake
  <2>1. \A m : \/ TakeRequest(m) \/ TakeUnsubscribe(m)
               \/ TakeTaskError(m) \/ TakeConsume(m)
               => /\ pc' = pc \/ \E x : pc' = [pc EXCEPT ![child] = x]
                  /\ ref' = ref \/ \E x : ref' = [ref EXCEPT ![child] = x]
    BY DEF TakeRequest, TakeUnsubscribe, TakeTaskError, TakeConsume
  <2>2. lib' = lib
    BY <1>8 DEF ChildTake
  <2>3. /\ pc' = pc \/ \E x : pc' = [pc EXCEPT ![child] = x]
        /\ ref' = ref \/ \E x : ref' = [ref EXCEPT ![child] = x]
    BY <1>8, <2>1 DEF ChildTake
  <2> QED
    BY <1>1, <1>3, <2>2, <2>3
<1>9. CASE ChildWalk \/ Consume \/ TaskErrorDone
  <2>1. lib' = lib
    BY <1>9 DEF ChildWalk, Consume, TaskErrorDone, dmVars
  <2>2. /\ pc' = pc \/ \E x : pc' = [pc EXCEPT ![child] = x]
        /\ ref' = ref \/ \E x : ref' = [ref EXCEPT ![child] = x]
    <3>1. CASE ChildWalk
      BY <3>1 DEF ChildWalk, ChildIdle
    <3>2. CASE Consume
      BY <3>2 DEF Consume, ChildIdle
    <3>3. CASE TaskErrorDone
      BY <3>3 DEF TaskErrorDone, ChildIdle
    <3> QED
      BY <1>9, <3>1, <3>2, <3>3
  <2> QED
    BY <1>1, <1>3, <2>1, <2>2
<1>10. CASE ChildPost
  <2>1. SlotsKept
    BY <1>10, ChildPostSlots
  <2>2. /\ pc' = pc \/ \E x : pc' = [pc EXCEPT ![child] = x]
        /\ ref' = ref
    BY <1>10 DEF ChildPost, ChildIdle
  <2>3. \A i : Cancels(i)' => Cancels(i)
    BY <1>3, <2>2, OthersCancel
  <2> QED
    BY <2>1, <2>3
<1>11. CASE EnvNext
  <2>1. UNCHANGED <<lib, pc, ref>>
    BY <1>11 DEF EnvNext, Start, Exit, Unplug, Kill, End, Error, Request, Unsubscribe,
                 SendConsume, Send, ForeignCancel, dmVars, thVars
  <2> QED
    BY <1>1, <1>3, <2>1
<1> HIDE DEF Same
<1>12. ASSUME NEW t \in XThread, xTEDSStep(t)
       PROVE  RegisterxTEDS(t) \/ Same
  <2>1. t \in Thread
    BY Threads
  <2> QED
    BY <1>2, <1>5, <1>12, <2>1 DEF xTEDSStep
<1>13. CASE CancelStep
  BY <1>2, <1>3, <1>6, <1>7, <1>13 DEF CancelStep, Same
<1>14. CASE ChildStep
  BY <1>2, <1>3, <1>8, <1>9, <1>10, <1>14 DEF ChildStep, Same
<1>15. \/ \E t \in XThread : RegisterxTEDS(t)
       \/ CancelApply \/ CancelRelease \/ TaskError \/ Same
  BY <1>4, <1>11, <1>12, <1>13, <1>14 DEF Next, Same
<1> QED
  BY <1>15 DEF Same

\* Every step preserves the invariant of the slots.
LEMMA SlotInvNext ==
  ASSUME OwnNames, Types, SlotInv, [Next]_vars
  PROVE  SlotInv'
<1>1. CASE Next
  BY <1>1, QuietStep, RegisterInv, CancelApplyInv, CancelReleaseInv, TaskErrorInv, KeptInv
<1>2. CASE UNCHANGED vars
  <2>1. UNCHANGED <<lib, pc, ref>>
    BY <1>2 DEF vars, dmVars, thVars
  <2>2. SlotsKept /\ \A i : Cancels(i)' => Cancels(i)
    BY <2>1, SameSlots DEF Types, Cancels
  <2> QED
    BY <2>2, KeptInv
<1> QED
  BY <1>1, <1>2

\* A component whose name no other has is registered in one slot at most,
\* whatever its registrations, cancellations and failures overlap with: a
\* registration takes over the slot of its name or, when there is none in use,
\* a free one, under addLibrary; a cancellation may find its slot before it
\* has addLibrary and makes the slot active again when it is a full one, but no
\* other cancellation can have given the slot away in between.
THEOREM DmRegisteredOnce ==
  ASSUME OwnNames
  PROVE  Spec => []RegisteredOnce
<1>1. Types /\ SlotInv /\ [Next]_vars => SlotInv'
  BY SlotInvNext
<1>2. SlotInv => RegisteredOnce
  BY DEF SlotInv, ActiveInUse, OneSlot, RegisteredOnce
<1> QED
  BY SlotInvInit, TypesAlways, <1>1, <1>2, PTL DEF Spec
=============================================================================
