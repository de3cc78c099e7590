---------------------------- MODULE DataManager ----------------------------
(***************************************************************************)
(* The Data Manager's registry (dm/DM.cpp): the list of xTEDS slots, the   *)
(* threads that register and cancel components, the thread that serves     *)
(* every other request, the list of subscriptions to registrations         *)
(* (SubscriptionList) and the list of who subscribes to which component    *)
(* (ProviderSubscriptionList).                                             *)
(*                                                                         *)
(* Threads: the listener, whose work is part of the action that sends it a *)
(* message; one xTEDS thread per registration; CancelRegHandler with at    *)
(* most one CancelxTEDS thread; the child, which takes the requests off a  *)
(* pipe one at a time.  Registrations, cancellations and TaskError work    *)
(* under the semaphore addLibrary; the child's searches do not, they lock  *)
(* one slot at a time (inUse), and so does the search by which a           *)
(* cancellation finds its slot.  Each step below lies between two points   *)
(* where a thread takes or gives back a lock another thread may want.      *)
(*                                                                         *)
(* Left out: the use counts of slots (written, never read), the Task       *)
(* Manager's own registration (PORT_TM), xTEDS that are sent as inactive   *)
(* or replaced by a stored copy, requests that name one component, and     *)
(* services and commands, which are forwarded to the component MatchSID    *)
(* finds and change nothing.                                               *)
(***************************************************************************)
EXTENDS Integers, Sequences, FiniteSets, SequencesExt

CONSTANTS
  App,          \* applications, run by Process Managers
  Sensor,       \* devices, registered by a Sensor Manager at its own port
  DM,           \* the Data Manager itself, in the first slot
  Observer,     \* requesters that are not registered
  Name,         \* names of devices and applications
  NameOf,       \* the name in a component's xTEDS
  LocalOf,      \* the low byte of a component's id, chosen by its sender
  MsgOf,        \* the notification a component provides
  Asking,       \* the applications and observers that send requests
  Wants,        \* per requester: the names its requests match
  Malformed,    \* components whose xTEDS does not parse
  XThread,      \* bound: xTEDS threads alive at once
  MAX_OUTSTANDING_XTEDS,
  Kinds,        \* the kinds of subscription requested in this instance
  Plain,        \* other requests made: "ReqReg", "Consume" or "Cancel"
  MaxStarts,    \* bound: per component, starts
  MaxRequests,  \* bound: requests
  MaxErrors,    \* bound: failures of applications
  MayExit, MayKill, MayFail,  \* applications that may end by themselves, be
                \* killed for good, or fail and be restarted
  LosesId,      \* an SDMID, sent by UDP, may be lost
  CancelDM,     \* somebody may send a cancellation of the DM's own xTEDS
  Patient       \* assumption: a component registers again only after the DM
                \* has dealt with the end of its earlier registration

Comp == App \cup Sensor \cup {DM}
Client == App \cup Observer
Thread == XThread \cup {"cancel", "child"}

NOTI_REGISTRATION == "NOTI_REGISTRATION"
NOTI_DEREGISTRATION == "NOTI_DEREGISTRATION"
NOTI_REGISTRATION_CHANGE == "NOTI_REGISTRATION_CHANGE"
REQ_REG_FUTURE == "REQ_REG_FUTURE"
REQ_REG_CANCELLATION == "REQ_REG_CANCELLATION"
SEARCH_REPLY == "SEARCH_REPLY"
VAR_REQ_REPLY == "VAR_REQ_REPLY"
NotiKinds == {NOTI_REGISTRATION, NOTI_DEREGISTRATION, NOTI_REGISTRATION_CHANGE}
AllKinds == NotiKinds \cup
  {REQ_REG_FUTURE, REQ_REG_CANCELLATION, SEARCH_REPLY, VAR_REQ_REPLY}

ASSUME DmCompAssumption ==
  /\ DM \notin App \cup Sensor \cup Observer /\ App \cap Sensor = {}
  /\ Observer \cap (App \cup Sensor) = {}
  /\ XThread \cap {"cancel", "child"} = {}
ASSUME DmFunAssumption ==
  /\ NameOf \in [Comp -> Name] /\ LocalOf \in [Comp -> Nat]
  /\ Wants \in [Client -> SUBSET Name] /\ DOMAIN MsgOf = Comp
  /\ LocalOf[DM] = 1 /\ Malformed \subseteq App \cup Sensor
  /\ Asking \subseteq Client
ASSUME DmBoundsAssumption ==
  /\ MAX_OUTSTANDING_XTEDS \in Nat \ {0} /\ Kinds \subseteq AllKinds
  /\ MaxStarts \in [App \cup Sensor -> Nat] /\ MaxRequests \in Nat /\ MaxErrors \in Nat
  /\ MayExit \subseteq App /\ MayKill \subseteq App /\ MayFail \subseteq App
  /\ LosesId \in BOOLEAN /\ CancelDM \in BOOLEAN /\ Patient \in BOOLEAN

VARIABLES
  lib,          \* xTEDSList: the slots, in order of their index
  addLibrary,   \* the semaphore's value
  subs,         \* subscribers: SubscriptionList
  psubs,        \* g_SensorSubscriptions: ProviderSubscriptionList
  cancelNext,
  cancelQueue,  \* cancelxTEDSQueue
  pipe,         \* requests on their way to the child
  pc,           \* per thread: where it is
  cur,          \* per thread: the message it handles
  ref,          \* per thread: the slot it found (0: none)
  todo,         \* per thread: what it has still to publish
  at,           \* per thread: where it is in the list of subscriptions
  walk,         \* the child's search: [pos, num, size, matched, sent]
  life,         \* environment: "off" or "up" per component
  starts,       \* environment: starts per component
  conf,         \* environment: components that know they are registered
  due,          \* environment: tasks the TM was told to start
  told,         \* environment: <<client, kind, component>> reported
  provSubs,     \* environment: <<provider, subscriber>> the providers serve
  requests, errors,  \* environment: so far
  drifted,      \* history: a publication had a free slot before its own
  strays        \* history: <<provider, subscriber>> added when one of them
                \* was not registered any more

dmVars == <<lib, addLibrary, subs, psubs, cancelNext, cancelQueue, pipe>>
thVars == <<pc, cur, ref, todo, at, walk>>
envVars == <<life, starts, conf, due, told, provSubs, requests, errors,
             drifted, strays>>
vars == <<dmVars, thVars, envVars>>

NoMsg == [type |-> "none"]
NoWalk == [pos |-> 0, num |-> 0, size |-> 0, matched |-> {}, sent |-> FALSE]

\* The slot the Data Manager fills with its own xTEDS when it starts.
DmSlot == [available |-> FALSE, active |-> TRUE, posted |-> FALSE, comp |-> DM,
           pid |-> <<DM, 0>>, name |-> NameOf[DM], sid |-> <<LocalOf[DM], 0>>]

Init ==
  /\ lib = <<DmSlot>>
  /\ addLibrary = 1
  /\ subs = << >>
  /\ psubs = {}
  /\ cancelNext = TRUE
  /\ cancelQueue = << >>
  /\ pipe = << >>
  /\ pc = [t \in Thread |-> "idle"]
  /\ cur = [t \in Thread |-> NoMsg]
  /\ ref = [t \in Thread |-> 0]
  /\ todo = [t \in Thread |-> << >>]
  /\ at = [t \in Thread |-> 1]
  /\ walk = NoWalk
  /\ life = [c \in App \cup Sensor |-> "off"]
  /\ starts = [c \in App \cup Sensor |-> 0]
  /\ conf = {}
  /\ due = App
  /\ told = {}
  /\ provSubs = {}
  /\ requests = 0
  /\ errors = 0
  /\ drifted = FALSE
  /\ strays = {}

-----------------------------------------------------------------------------
(* The slots.                                                              *)

Slots == DOMAIN lib
\* A component's registration in slot i: its id names the slot by its index,
\* which counts from 0.
Sid(c, i) == <<LocalOf[c], i - 1>>

AlreadyRegisteredInactive(c) ==
  SelectInSeq(lib, LAMBDA s : ~s.available /\ s.name = NameOf[c] /\ ~s.active)
\* The first slot with the name that is inactive, or is c's own; 0 if none.
AlreadyRegistered(c) ==
  SelectInSeq(lib, LAMBDA s : /\ ~s.available /\ s.name = NameOf[c]
                              /\ ~s.active \/ s.comp = c)

\* An inactive slot taken over keeps the xTEDS, and so the name, it had.
Reactivate(i, c, pid) ==
  [lib EXCEPT ![i].active = TRUE, ![i].comp = c, ![i].pid = pid,
              ![i].sid = Sid(c, i)]

FreeSlotPastEnd ==
  LET i == SelectInSubSeq(lib, 2, Len(lib), LAMBDA s : s.available)
  IN  IF i = 0 THEN Len(lib) + 2 ELSE i
\* StoreInfo never looks at the first slot; a new slot goes to the end.
FreeSlot ==
  LET i == SelectInSubSeq(lib, 2, Len(lib), LAMBDA s : s.available)
  IN  IF i = 0 THEN Len(lib) + 1 ELSE i

\* A slot whose xTEDS did not parse is given back at once.
StoreInfo(i, c, pid) ==
  LET posted == i \in Slots /\ lib[i].posted
      slot == [available |-> c \in Malformed, active |-> c \notin Malformed,
               posted |-> posted, comp |-> c, pid |-> pid,
               name |-> NameOf[c], sid |-> Sid(c, i)]
  IN  IF i \in Slots THEN [lib EXCEPT ![i] = slot] ELSE Append(lib, slot)

\* The active slot with a sensor id; 0 if none.
MatchSID(sid) == SelectInSeq(lib, LAMBDA s : s.active /\ s.sid = sid)

CancelTargetAnyTask(m) ==
  SelectInSeq(lib, LAMBDA s :
    ~s.available /\ s.active /\ IF m.byPM THEN s.comp \in App ELSE s.comp = m.comp)
\* The slot a cancellation is for: the sender's own, or, when a PM sends it,
\* the one of the task with that pid, which is not a manager's.
CancelTarget(m) ==
  SelectInSeq(lib, LAMBDA s :
    /\ ~s.available /\ s.active
    /\ IF m.byPM THEN s.comp \in App /\ s.pid = m.pid ELSE s.comp = m.comp)

ErrorTarget(m) ==
  SelectInSeq(lib, LAMBDA s : ~s.available /\ s.active /\ s.pid = m.pid)

IsRegistered(c) == \E i \in Slots : lib[i].active /\ lib[i].comp = c

-----------------------------------------------------------------------------
(* The semaphore.                                                          *)

Holding(t) == pc[t] \in {"publish", "finish"}
WaitCount == Cardinality({t \in Thread : pc[t] = "wait" \/ Holding(t)})
Wait == addLibrary > 0 /\ addLibrary' = addLibrary - 1
Signal == addLibrary' = addLibrary + 1
\* An early return between the two.
WaitAndSignal == addLibrary > 0 /\ UNCHANGED addLibrary

-----------------------------------------------------------------------------
(* The list of subscriptions.                                              *)

HasSub(s, k) == \E j \in DOMAIN subs : subs[j].inuse /\ subs[j].dest = s
                                                     /\ subs[j].mid = k

\* An entry not in use is taken before the list grows; a duplicate is not
\* entered.
addSubscription(list, s, k) ==
  LET e == [dest |-> s, mid |-> k, inuse |-> TRUE]
      j == SelectInSeq(list, LAMBDA x : ~x.inuse)
  IN  IF \E x \in Range(list) : x = e THEN list
      ELSE IF j = 0 THEN Append(list, e) ELSE [list EXCEPT ![j] = e]

\* A request for cancellations enters two subscriptions.
addReqRegSubscription(s, k) ==
  IF k = REQ_REG_CANCELLATION
  THEN addSubscription(addSubscription(subs, s, REQ_REG_FUTURE), s, k)
  ELSE addSubscription(subs, s, k)

removeSubscriptions(list, s, ks) ==
  [j \in DOMAIN list |-> IF list[j].dest = s /\ list[j].mid \in ks
                         THEN [list[j] EXCEPT !.inuse = FALSE] ELSE list[j]]

\* The kinds entered and ended together: a ReqReg's.
EndsWith(k) == IF k \in {REQ_REG_FUTURE, REQ_REG_CANCELLATION}
               THEN {REQ_REG_FUTURE, REQ_REG_CANCELLATION} ELSE {k}
\* The kinds that can be in the list.
Entered == UNION {EndsWith(k) : k \in Kinds}

-----------------------------------------------------------------------------
(* The list of who subscribes to which component, and the providers.       *)

FinishProvider(c) ==
  /\ psubs' = {e \in psubs : e.sub # c /\ e.prov # c}
  /\ UNCHANGED provSubs
\* SubscriberFinish tells every provider to drop the subscriber;
\* ProviderFinish only forgets.
FinishComponent(c) ==
  /\ psubs' = {e \in psubs : e.sub # c /\ e.prov # c}
  /\ provSubs' = {p \in provSubs : \A e \in psubs :
                                     e.sub = c => p # <<e.prov, c>>}

-----------------------------------------------------------------------------
(* Publishing a registration or a cancellation, under addLibrary.          *)

Stage(k) == IF k \in Entered THEN <<k>> ELSE << >>

RegistrationStagesNotifyOnly ==
  Stage(NOTI_REGISTRATION) \o Stage(NOTI_REGISTRATION_CHANGE)
RegistrationStages ==
  Stage(NOTI_REGISTRATION) \o Stage(NOTI_REGISTRATION_CHANGE)
    \o Stage(SEARCH_REPLY) \o Stage(REQ_REG_FUTURE) \o Stage(VAR_REQ_REPLY)
CancellationStages ==
  Stage(REQ_REG_CANCELLATION) \o Stage(NOTI_DEREGISTRATION)
    \o Stage(NOTI_REGISTRATION_CHANGE)

\* numxTEDS when a ReqReg is at slot i: the free slots before it are passed
\* over without being counted.
numxTEDS(i) == i - 1 - Cardinality({j \in 1..(i - 1) : lib[j].available})

Matches(s, i) == ~lib[i].available /\ lib[i].name \in Wants[s]

\* Where a client is told of registrations, and of their end.
Report(s, k, c) == <<s, IF k = REQ_REG_CANCELLATION THEN REQ_REG_FUTURE
                        ELSE IF k = NOTI_DEREGISTRATION THEN NOTI_REGISTRATION
                        ELSE k, c>>

\* Nothing was sent: the tasks of the inactive slots counted in matched are
\* posted, unless they have been already.
Postable(i, matched) == i - 1 \in matched /\ ~lib[i].active /\ ~lib[i].posted
PostTask(slots) ==
  /\ lib' = [i \in Slots |-> IF i \in slots THEN [lib[i] EXCEPT !.posted = TRUE]
                                            ELSE lib[i]]
  /\ due' = due \cup {a \in App : \E i \in slots : lib[i].name = NameOf[a]}

\* An inactive slot is reported only when its end is.
TellableActive(i, dereg) == lib[i].active
Tellable(i, dereg) == lib[i].active \/ dereg

\* ReqReg called for the subscription of client s, about slot r: it looks for
\* the slot by its number, and gives up there when the slot does not match.
ReqRegAbout(s, r, dereg) ==
  LET hits == {i \in Slots : ~lib[i].available /\ numxTEDS(i) = r - 1}
      sent == {i \in hits : Matches(s, i) /\ Tellable(i, dereg)}
      reports == {Report(s, REQ_REG_FUTURE, lib[i].comp) : i \in sent}
      matched == {numxTEDS(i) : i \in {j \in Slots : Matches(s, j)}}
  IN  /\ told' = IF dereg THEN told \ reports ELSE told \cup reports
      /\ IF sent # {} \/ \E i \in hits : ~Matches(s, i)
         THEN UNCHANGED <<lib, due>>
         ELSE PostTask({i \in Slots : Postable(i, matched)})

\* Search and VarReq called for a subscription go to the slot itself; VarReq
\* goes on from there.
SearchAbout(s, k, r) ==
  LET seen == IF k = VAR_REQ_REPLY THEN r..Len(lib) ELSE {r}
      hits == {i \in seen : lib[i].active /\ Matches(s, i)}
  IN  /\ told' = told \cup {Report(s, k, lib[i].comp) : i \in hits}
      /\ UNCHANGED <<lib, due>>

\* PublishNotification: all of it under subscription_mutex.
NotifyAll(k, r, dereg) ==
  LET reports == {Report(subs[j].dest, k, lib[r].comp) :
                    j \in {i \in DOMAIN subs : subs[i].inuse /\ subs[i].mid = k}}
  IN  told' = IF dereg THEN told \ reports ELSE told \cup reports

\* PublishxTEDSModificationSubscription gives subscription_mutex back around
\* every ReqReg, Search and VarReq.
Publish(t) ==
  /\ pc[t] = "publish" /\ todo[t] # << >>
  /\ LET k == Head(todo[t])
         dereg == t \notin XThread
         j == SelectInSubSeq(subs, at[t], Len(subs),
                             LAMBDA x : x.inuse /\ x.mid = k)
     IN  \/ /\ k \in NotiKinds
            /\ NotifyAll(k, ref[t], dereg)
            /\ todo' = [todo EXCEPT ![t] = Tail(@)]
            /\ UNCHANGED <<lib, due, at, drifted>>
         \/ /\ k \notin NotiKinds /\ j = 0
            /\ todo' = [todo EXCEPT ![t] = Tail(@)]
            /\ at' = [at EXCEPT ![t] = 1]
            /\ UNCHANGED <<lib, due, told, drifted>>
         \/ /\ k \in {REQ_REG_FUTURE, REQ_REG_CANCELLATION} /\ j # 0
            /\ ReqRegAbout(subs[j].dest, ref[t], dereg)
            /\ at' = [at EXCEPT ![t] = j + 1]
            /\ drifted' = (drifted \/ numxTEDS(ref[t]) # ref[t] - 1)
            /\ UNCHANGED todo
         \/ /\ k \in {SEARCH_REPLY, VAR_REQ_REPLY} /\ j # 0
            /\ SearchAbout(subs[j].dest, k, ref[t])
            /\ at' = [at EXCEPT ![t] = j + 1]
            /\ UNCHANGED <<todo, drifted>>
  /\ UNCHANGED <<addLibrary, subs, psubs, cancelNext, cancelQueue, pipe, pc,
                 cur, ref, walk, life, starts, conf, provSubs, requests,
                 errors, strays>>

-----------------------------------------------------------------------------
(* The xTEDS thread.                                                       *)

\* Nothing in the queue or at work would still change the registration of c.
Settled(c) ==
  /\ \A i \in DOMAIN cancelQueue : cancelQueue[i].comp # c
  /\ \A i \in DOMAIN pipe : pipe[i].type = "TaskError" => pipe[i].comp # c
  /\ \A t \in Thread : cur[t].type \in {"xTEDS", "TaskError", "CancelxTEDS"}
                         => cur[t].comp # c

\* The listener has received c's xTEDS.  It drops it, and counts it as
\* dropped, when too many registrations are waiting; c sends it again until it
\* has its SDMID.
ListenxTEDS(c, t) ==
  /\ life[c] = "up" /\ c \notin conf
  /\ \A x \in XThread : cur[x].type = "xTEDS" => cur[x].comp # c
  /\ Patient => Settled(c)
  /\ pc[t] = "idle"
  /\ WaitCount < MAX_OUTSTANDING_XTEDS
  /\ pc' = [pc EXCEPT ![t] = "parse"]
  /\ cur' = [cur EXCEPT ![t] = [type |-> "xTEDS", comp |-> c,
                                pid |-> <<c, starts[c]>>]]
  /\ UNCHANGED <<dmVars, ref, todo, at, walk, envVars>>

\* The checks before addLibrary.
Parse(t) ==
  /\ t \in XThread /\ pc[t] = "parse"
  /\ pc' = [pc EXCEPT ![t] = "wait"]
  /\ UNCHANGED <<dmVars, cur, ref, todo, at, walk, envVars>>

\* What the thread does with the slots, and the SDMID it answers with.
RegisterxTEDS(t) ==
  /\ t \in XThread /\ pc[t] = "wait"
  /\ LET c == cur[t].comp
         i == AlreadyRegistered(c)
         known == i # 0 /\ lib[i].active
         r == IF i = 0 THEN FreeSlot ELSE i
         over == known \/ (i = 0 /\ c \in Malformed)
     IN  /\ lib' = IF known THEN lib
                   ELSE IF i # 0 THEN Reactivate(i, c, cur[t].pid)
                   ELSE StoreInfo(r, c, cur[t].pid)
         /\ \/ /\ life[c] = "up" /\ c \notin Malformed
               /\ conf' = conf \cup {c}
            \/ /\ life[c] # "up" \/ c \in Malformed \/ LosesId
               /\ UNCHANGED conf
         /\ \/ /\ over
               /\ WaitAndSignal
               /\ UNCHANGED <<ref, todo, at>>
               /\ pc' = [pc EXCEPT ![t] = "idle"]
               /\ cur' = [cur EXCEPT ![t] = NoMsg]
            \/ /\ ~over
               /\ Wait
               /\ ref' = [ref EXCEPT ![t] = r]
               /\ todo' = [todo EXCEPT ![t] = RegistrationStages]
               /\ at' = [at EXCEPT ![t] = 1]
               /\ pc' = [pc EXCEPT ![t] = "publish"]
               /\ UNCHANGED cur
  /\ UNCHANGED <<subs, psubs, cancelNext, cancelQueue, pipe, walk, life,
                 starts, due, told, provSubs, requests, errors, drifted,
                 strays>>

xTEDSDoneHolds(t) ==
  /\ t \in XThread /\ pc[t] = "publish" /\ todo[t] = << >>
  /\ pc' = [pc EXCEPT ![t] = "idle"]
  /\ cur' = [cur EXCEPT ![t] = NoMsg]
  /\ ref' = [ref EXCEPT ![t] = 0]
  /\ UNCHANGED <<dmVars, todo, at, walk, envVars>>
xTEDSDone(t) ==
  /\ t \in XThread /\ pc[t] = "publish" /\ todo[t] = << >>
  /\ Signal
  /\ pc' = [pc EXCEPT ![t] = "idle"]
  /\ cur' = [cur EXCEPT ![t] = NoMsg]
  /\ ref' = [ref EXCEPT ![t] = 0]
  /\ UNCHANGED <<lib, subs, psubs, cancelNext, cancelQueue, pipe, todo, at,
                 walk, envVars>>

-----------------------------------------------------------------------------
(* CancelRegHandler and the CancelxTEDS thread.                            *)

\* The next cancellation is taken from the queue and looks for its slot,
\* without addLibrary.
CancelFind ==
  /\ pc["cancel"] = "idle" /\ cancelNext /\ cancelQueue # << >>
  /\ cancelNext' = FALSE
  /\ cancelQueue' = Tail(cancelQueue)
  /\ cur' = [cur EXCEPT !["cancel"] = Head(cancelQueue)]
  /\ ref' = [ref EXCEPT !["cancel"] = CancelTarget(Head(cancelQueue))]
  /\ pc' = [pc EXCEPT !["cancel"] = "wait"]
  /\ UNCHANGED <<lib, addLibrary, subs, psubs, pipe, todo, at, walk, envVars>>

\* A registration at a manager's port stays active until it is removed; so
\* does one that is to be removed for good (fullCancel).
Deactivate(i, full) ==
  IF lib[i].comp \in Sensor
  THEN [lib EXCEPT ![i].active = IF full THEN TRUE ELSE @]
  ELSE [lib EXCEPT ![i].active = full, ![i].posted = FALSE]

\* The slot is the one that was found: it is not looked at again.
CancelApply ==
  /\ pc["cancel"] = "wait"
  /\ \/ /\ ref["cancel"] = 0 /\ WaitAndSignal
        /\ cancelNext' = TRUE
        /\ pc' = [pc EXCEPT !["cancel"] = "idle"]
        /\ cur' = [cur EXCEPT !["cancel"] = NoMsg]
        /\ UNCHANGED <<lib, todo, at>>
     \/ /\ ref["cancel"] # 0 /\ Wait
        /\ lib' = Deactivate(ref["cancel"], cur["cancel"].full)
        /\ todo' = [todo EXCEPT !["cancel"] = CancellationStages]
        /\ at' = [at EXCEPT !["cancel"] = 1]
        /\ pc' = [pc EXCEPT !["cancel"] = "publish"]
        /\ UNCHANGED <<cancelNext, cur>>
  /\ UNCHANGED <<subs, psubs, cancelQueue, pipe, ref, walk, envVars>>

CancelFinish ==
  /\ pc["cancel"] = "publish" /\ todo["cancel"] = << >>
  /\ FinishComponent(lib[ref["cancel"]].comp)
  /\ pc' = [pc EXCEPT !["cancel"] = "finish"]
  /\ UNCHANGED <<lib, addLibrary, subs, cancelNext, cancelQueue, pipe, cur,
                 ref, todo, at, walk, life, starts, conf, due, told, requests,
                 errors, drifted, strays>>

ReleaseInactive(i) ==
  IF lib[i].comp # DM /\ ~lib[i].active
  THEN [lib EXCEPT ![i].available = TRUE] ELSE lib
\* The DM's own xTEDS is not removed; a slot still active is given back.
Release(i) ==
  IF lib[i].comp # DM /\ lib[i].active
  THEN [lib EXCEPT ![i].available = TRUE, ![i].active = FALSE] ELSE lib

CancelReleaseStops ==
  /\ pc["cancel"] = "finish"
  /\ lib' = Release(ref["cancel"])
  /\ Signal
  /\ pc' = [pc EXCEPT !["cancel"] = "idle"]
  /\ cur' = [cur EXCEPT !["cancel"] = NoMsg]
  /\ ref' = [ref EXCEPT !["cancel"] = 0]
  /\ UNCHANGED <<subs, psubs, cancelNext, cancelQueue, pipe, todo, at, walk, envVars>>
CancelRelease ==
  /\ pc["cancel"] = "finish"
  /\ lib' = Release(ref["cancel"])
  /\ Signal
  /\ cancelNext' = TRUE
  /\ pc' = [pc EXCEPT !["cancel"] = "idle"]
  /\ cur' = [cur EXCEPT !["cancel"] = NoMsg]
  /\ ref' = [ref EXCEPT !["cancel"] = 0]
  /\ UNCHANGED <<subs, psubs, cancelQueue, pipe, todo, at, walk, envVars>>

-----------------------------------------------------------------------------
(* The child.                                                              *)

child == "child"
ChildIdle == pc' = [pc EXCEPT ![child] = "idle"]
             /\ cur' = [cur EXCEPT ![child] = NoMsg]

ToldUnder(s, ks) == {x \in told : x[1] = s /\ x[2] \in ks}

\* ReqReg, Search, VarReq, and Subscribe to one of the DM's notifications: a
\* subscription is entered before the search, and what the client was told
\* before counts no more.  A "ReqReg" enters no subscription.  The
\* search of a ReqReg sizes its array of matches by the number of slots.
TakeRequest(m) ==
  /\ m.type \in AllKinds \cup {"ReqReg"}
  /\ subs' = IF m.type = "ReqReg" THEN subs
                                  ELSE addReqRegSubscription(m.client, m.type)
  /\ IF m.type \in NotiKinds /\ (m.type = NOTI_DEREGISTRATION
                                 \/ HasSub(m.client, m.type))
     THEN UNCHANGED <<pc, cur, walk>>
     ELSE /\ pc' = [pc EXCEPT ![child] = "walk"]
          /\ cur' = [cur EXCEPT ![child] = m]
          /\ walk' = [NoWalk EXCEPT !.pos = 1, !.size = Len(lib)]
  /\ told' = IF m.type = "ReqReg" \/ HasSub(m.client, m.type) THEN told
             ELSE told \ ToldUnder(m.client, EndsWith(m.type))
  /\ UNCHANGED ref

TakeUnsubscribe(m) ==
  /\ m.type = "Unsubscribe"
  /\ subs' = removeSubscriptions(subs, m.client, EndsWith(m.kind))
  /\ told' = told \ ToldUnder(m.client, EndsWith(m.kind))
  /\ UNCHANGED <<pc, cur, ref, walk>>

\* The failed task's slot is looked for without addLibrary.
TakeTaskError(m) ==
  /\ m.type = "TaskError"
  /\ ref' = [ref EXCEPT ![child] = ErrorTarget(m)]
  /\ cur' = [cur EXCEPT ![child] = m]
  /\ pc' = [pc EXCEPT ![child] = "wait"]
  /\ UNCHANGED <<subs, told, walk>>

\* Consume and Cancel end here when the provider is not registered.
TakeConsume(m) ==
  /\ m.type \in {"Consume", "Cancel"}
  /\ IF MatchSID(m.sid) = 0
     THEN UNCHANGED <<pc, cur>>
     ELSE /\ pc' = [pc EXCEPT ![child] = "consume"]
          /\ cur' = [cur EXCEPT ![child] = m]
  /\ UNCHANGED <<subs, told, ref, walk>>

ChildTake ==
  /\ pc[child] = "idle" /\ pipe # << >>
  /\ pipe' = Tail(pipe)
  /\ LET m == Head(pipe)
     IN  \/ TakeRequest(m)
         \/ TakeUnsubscribe(m)
         \/ TakeTaskError(m)
         \/ TakeConsume(m)
  /\ UNCHANGED <<lib, addLibrary, psubs, cancelNext, cancelQueue, todo, at,
                 life, starts, conf, due, provSubs, requests, errors, drifted,
                 strays>>

\* The search looks at the slots one by one.
WalkReqReg(m, i) ==
  LET hit == Matches(m.client, i)
      tell == hit /\ lib[i].active
  IN  /\ walk' = IF lib[i].available THEN [walk EXCEPT !.pos = @ + 1]
                 ELSE [walk EXCEPT
                        !.pos = @ + 1, !.num = @ + 1, !.sent = @ \/ tell,
                        !.matched = IF hit /\ walk.num < walk.size
                                    THEN @ \cup {walk.num} ELSE @]
      /\ told' = IF tell /\ m.type # "ReqReg"
                 THEN told \cup {Report(m.client, m.type, lib[i].comp)}
                 ELSE told

WalkSearch(m, i) ==
  /\ walk' = [walk EXCEPT !.pos = @ + 1]
  /\ told' = IF IF m.type \in NotiKinds THEN ~lib[i].available
                ELSE lib[i].active /\ Matches(m.client, i)
             THEN told \cup {Report(m.client, m.type, lib[i].comp)} ELSE told

ByReqReg(m) == m.type \in {"ReqReg", REQ_REG_FUTURE, REQ_REG_CANCELLATION}

ChildWalk ==
  /\ pc[child] = "walk"
  /\ LET m == cur[child]
     IN  \/ /\ walk.pos <= Len(lib) /\ ByReqReg(m)
            /\ WalkReqReg(m, walk.pos)
            /\ UNCHANGED <<pc, cur>>
         \/ /\ walk.pos <= Len(lib) /\ ~ByReqReg(m)
            /\ WalkSearch(m, walk.pos)
            /\ UNCHANGED <<pc, cur>>
         \/ /\ walk.pos > Len(lib) /\ ByReqReg(m) /\ ~walk.sent
            /\ walk' = [walk EXCEPT !.pos = 1]
            /\ pc' = [pc EXCEPT ![child] = "post"]
            /\ UNCHANGED <<cur, told>>
         \/ /\ walk.pos > Len(lib) /\ ~(ByReqReg(m) /\ ~walk.sent)
            /\ ChildIdle
            /\ walk' = NoWalk
            /\ UNCHANGED told
  /\ UNCHANGED <<dmVars, ref, todo, at, life, starts, conf, due, provSubs,
                 requests, errors, drifted, strays>>

ChildPost ==
  /\ pc[child] = "post"
  /\ \/ /\ walk.pos <= walk.size
        /\ PostTask({i \in {walk.pos} : Postable(i, walk.matched)})
        /\ walk' = [walk EXCEPT !.pos = @ + 1]
        /\ UNCHANGED <<pc, cur>>
     \/ /\ walk.pos > walk.size
        /\ ChildIdle
        /\ walk' = NoWalk
        /\ UNCHANGED <<lib, due>>
  /\ UNCHANGED <<addLibrary, subs, psubs, cancelNext, cancelQueue, pipe, ref,
                 todo, at, life, starts, conf, told, provSubs, requests,
                 errors, drifted, strays>>

FailNotPosted(i) == [lib EXCEPT ![i].active = FALSE]
\* The task stays posted: its PM restarts it.
Fail(i) == [lib EXCEPT ![i].active = FALSE, ![i].posted = TRUE]

TaskError ==
  /\ pc[child] = "wait"
  /\ \/ /\ ref[child] = 0 /\ WaitAndSignal
        /\ ChildIdle
        /\ UNCHANGED <<lib, subs, psubs, todo, at, told, provSubs>>
     \/ /\ ref[child] # 0 /\ Wait
        /\ LET c == lib[ref[child]].comp
           IN  /\ lib' = Fail(ref[child])
               /\ FinishComponent(c)
               /\ subs' = removeSubscriptions(subs, c, EndsWith(REQ_REG_FUTURE))
               /\ told' = told \ ToldUnder(c, EndsWith(REQ_REG_FUTURE))
        /\ todo' = [todo EXCEPT ![child] = CancellationStages]
        /\ at' = [at EXCEPT ![child] = 1]
        /\ pc' = [pc EXCEPT ![child] = "publish"]
        /\ UNCHANGED cur
  /\ UNCHANGED <<cancelNext, cancelQueue, pipe, ref, walk, life, starts, conf,
                 due, requests, errors, drifted, strays>>

TaskErrorDone ==
  /\ pc[child] = "publish" /\ todo[child] = << >>
  /\ Signal
  /\ ChildIdle
  /\ ref' = [ref EXCEPT ![child] = 0]
  /\ UNCHANGED <<lib, subs, psubs, cancelNext, cancelQueue, pipe, todo, at,
                 walk, envVars>>

\* The rest of Consume and Cancel, after the provider's slot was unlocked:
\* the list, and the SDMSubreqst or SDMDeletesub, which the provider's
\* SubscriptionManager acts on.  Delete does not look at the provider.
Ending(c) == pc["cancel"] = "finish" /\ lib[ref["cancel"]].comp = c
Consume ==
  /\ pc[child] = "consume"
  /\ LET m == cur[child]
         pair == <<m.prov, m.client>>
         entry == [prov |-> m.prov, sub |-> m.client, msg |-> MsgOf[m.prov]]
     IN  \/ /\ m.type = "Consume"
            /\ psubs' = IF m.hasId THEN psubs \cup {entry} ELSE psubs
            /\ provSubs' = IF m.prov \in conf /\ life[m.prov] = "up"
                           THEN provSubs \cup {pair} ELSE provSubs
            /\ strays' = IF ~m.hasId \/ \E c \in {m.prov, m.client} :
                                          ~IsRegistered(c) \/ Ending(c)
                         THEN strays \cup {pair} ELSE strays
         \/ /\ m.type = "Cancel"
            /\ psubs' = IF m.hasId
                        THEN {e \in psubs : ~(e.sub = m.client
                                              /\ e.msg = MsgOf[m.prov])}
                        ELSE psubs
            /\ provSubs' = provSubs \ {pair}
            /\ UNCHANGED strays
  /\ ChildIdle
  /\ UNCHANGED <<lib, addLibrary, subs, cancelNext, cancelQueue, pipe, ref,
                 todo, at, walk, life, starts, conf, due, told, requests,
                 errors, drifted>>

-----------------------------------------------------------------------------
(* What the Data Manager serves: applications and sensors start, end and   *)
(* fail, and clients send requests.                                        *)

Served(c) == {p \in provSubs : p[1] = c}

Start(c) ==
  /\ life[c] = "off" /\ starts[c] < MaxStarts[c]
  /\ c \in App => c \in due
  /\ life' = [life EXCEPT ![c] = "up"]
  /\ starts' = [starts EXCEPT ![c] = @ + 1]
  /\ conf' = conf \ {c}
  /\ due' = due \ {c}
  /\ provSubs' = provSubs \ Served(c)
  /\ UNCHANGED <<dmVars, thVars, told, requests, errors, drifted, strays>>

\* The listener queues a cancellation.
End(c, byPM, full) ==
  /\ life[c] = "up"
  /\ life' = [life EXCEPT ![c] = "off"]
  /\ cancelQueue' = Append(cancelQueue,
       [type |-> "CancelxTEDS", comp |-> c, pid |-> <<c, starts[c]>>,
        byPM |-> byPM, full |-> full])
  /\ UNCHANGED <<lib, addLibrary, subs, psubs, cancelNext, pipe, thVars,
                 starts, conf, due, told, provSubs, requests, errors, drifted,
                 strays>>

\* An application cancels its xTEDS and ends; a Sensor Manager cancels the
\* xTEDS of a sensor that was unplugged; a PM that was told to kill a task for
\* good cancels its xTEDS in full.
Exit(c) == c \in MayExit /\ c \in conf /\ End(c, FALSE, FALSE)
Unplug(c) == c \in Sensor /\ c \in conf /\ End(c, FALSE, FALSE)
Kill(c) == c \in MayKill /\ End(c, TRUE, TRUE)

\* A PM reports an application that does not answer, and restarts it under
\* the same pid.
Error(c) ==
  /\ c \in MayFail /\ life[c] = "up" /\ c \in conf /\ errors < MaxErrors
  /\ errors' = errors + 1
  /\ conf' = conf \ {c}
  /\ provSubs' = provSubs \ Served(c)
  /\ pipe' = Append(pipe, [type |-> "TaskError", comp |-> c,
                           pid |-> <<c, starts[c]>>])
  /\ UNCHANGED <<lib, addLibrary, subs, psubs, cancelNext, cancelQueue,
                 thVars, life, starts, due, told, requests, drifted, strays>>

Requester == {c \in Asking : c \in App => life[c] = "up"}

Send(m) ==
  /\ requests < MaxRequests
  /\ requests' = requests + 1
  /\ pipe' = Append(pipe, m)
  /\ UNCHANGED <<lib, addLibrary, subs, psubs, cancelNext, cancelQueue,
                 thVars, life, starts, conf, due, told, provSubs, errors,
                 drifted, strays>>

Request(s, k) == s \in Requester /\ Send([type |-> k, client |-> s])
Unsubscribe(s, k) ==
  /\ s \in Requester /\ HasSub(s, k)
  /\ Send([type |-> "Unsubscribe", client |-> s, kind |-> k])

\* A client that is registered gives its id along.
SendConsume(s, type, i) ==
  /\ s \in Requester /\ type \in Plain
  /\ lib[i].active /\ lib[i].comp \notin {DM, s}
  /\ type = "Cancel" => <<lib[i].comp, s>> \in provSubs
  /\ Send([type |-> type, client |-> s, prov |-> lib[i].comp,
           sid |-> lib[i].sid, hasId |-> s \in conf])

ForeignCancel ==
  /\ CancelDM /\ requests < MaxRequests
  /\ requests' = requests + 1
  /\ cancelQueue' = Append(cancelQueue,
       [type |-> "CancelxTEDS", comp |-> DM, pid |-> <<DM, 0>>,
        byPM |-> FALSE, full |-> FALSE])
  /\ UNCHANGED <<lib, addLibrary, subs, psubs, cancelNext, pipe, thVars, life,
                 starts, conf, due, told, provSubs, errors, drifted, strays>>

EnvNext ==
  \/ \E c \in App \cup Sensor : Start(c) \/ Exit(c) \/ Unplug(c) \/ Kill(c)
                                \/ Error(c)
  \/ \E s \in Client :
       \/ \E k \in Kinds \cup (Plain \cap {"ReqReg"}) : Request(s, k)
       \/ \E k \in Kinds : Unsubscribe(s, k)
       \/ \E type \in {"Consume", "Cancel"}, i \in Slots :
            SendConsume(s, type, i)
  \/ ForeignCancel

xTEDSStep(t) == Parse(t) \/ RegisterxTEDS(t) \/ xTEDSDone(t) \/ Publish(t)
CancelStep == \/ CancelFind \/ CancelApply \/ CancelFinish \/ CancelRelease
              \/ Publish("cancel")
ChildStep == \/ ChildTake \/ ChildWalk \/ ChildPost \/ TaskError
             \/ TaskErrorDone \/ Consume \/ Publish(child)

Next ==
  \/ \E c \in App \cup Sensor, t \in XThread : ListenxTEDS(c, t)
  \/ \E t \in XThread : xTEDSStep(t)
  \/ CancelStep
  \/ ChildStep
  \/ EnvNext

Spec == Init /\ [][Next]_vars

\* Every thread of the Data Manager goes on when it can.
Fairness ==
  /\ \A t \in XThread : WF_vars(xTEDSStep(t))
  /\ WF_vars(CancelStep)
  /\ WF_vars(ChildStep)
FairSpec == Spec /\ Fairness

-----------------------------------------------------------------------------
(* Properties.                                                             *)

SlotType == [available : BOOLEAN, active : BOOLEAN, posted : BOOLEAN,
             comp : Comp, pid : Comp \X Nat, name : Name, sid : Nat \X Nat]

\* addLibrary ("Semaphore used for registering/deregistering xTEDS") counts the
\* threads that hold it, whatever way a handler ends; the others have their
\* type.
TypeOK ==
  /\ lib \in Seq(SlotType) /\ lib # << >>
  /\ addLibrary + Cardinality({t \in Thread : Holding(t)}) = 1
  /\ subs \in Seq([dest : Client, mid : AllKinds, inuse : BOOLEAN])
  /\ cancelNext \in BOOLEAN
  /\ pc \in [Thread -> {"idle", "parse", "wait", "publish", "finish", "walk",
                        "post", "consume"}]
  /\ ref \in [Thread -> 0..Len(lib)]
  /\ \A t \in Thread : Holding(t) => ref[t] # 0
  /\ todo \in [Thread -> Seq(AllKinds)]
  /\ conf \subseteq Comp /\ due \subseteq App
  /\ told \subseteq Client \X AllKinds \X Comp

\* No component is registered in two slots at once, whatever its
\* registrations, cancellations and failures overlap with.
RegisteredOnce ==
  \A i, j \in Slots :
    lib[i].active /\ lib[j].active /\ lib[i].comp = lib[j].comp => i = j

\* No handler is at work on the slots or on a search.
Quiet == \A t \in Thread : pc[t] \notin {"publish", "finish", "walk", "post"}

\* A client that asked for registrations to come has been told of every
\* component registered, by the search or by the publication: one that
\* registers during the search is not missed.  Publications of ReqReg's that
\* had a free slot before theirs are excepted: they look at the wrong slot.
ToldOfAll ==
  Quiet => \A j \in DOMAIN subs, i \in Slots :
    LET s == subs[j].dest
        k == subs[j].mid
    IN  /\ subs[j].inuse /\ lib[i].active
        /\ k \in {REQ_REG_FUTURE, SEARCH_REPLY, VAR_REQ_REPLY}
             => lib[i].name \in Wants[s]
        /\ k = REQ_REG_FUTURE => ~drifted
        /\ k \notin {REQ_REG_CANCELLATION, NOTI_DEREGISTRATION}
        => Report(s, k, lib[i].comp) \in told

\* A client that asked for cancellations too does not take an application for
\* registered whose slot has become inactive: the search cannot report a
\* registration after the publication of its end.
ToldOfEnds ==
  Quiet /\ ~drifted => \A j \in DOMAIN subs, i \in Slots :
    /\ subs[j].inuse /\ subs[j].mid = REQ_REG_CANCELLATION
    /\ ~lib[i].available /\ ~lib[i].active
    => Report(subs[j].dest, REQ_REG_CANCELLATION, lib[i].comp) \notin told

\* The same for slots that were given back too: whatever a client takes for
\* registered is registered.
ToldNoMore ==
  Quiet /\ ~drifted => \A j \in DOMAIN subs, c \in Comp :
    /\ subs[j].inuse /\ subs[j].mid = REQ_REG_CANCELLATION
    /\ Report(subs[j].dest, REQ_REG_CANCELLATION, c) \in told
    => IsRegistered(c)

\* A publication to a ReqReg is about the slot that changed: ReqReg counts the
\* slots it passes to find it, and so counts right.
AboutTheSlot == ~drifted

\* CancelxTEDS's "Only the Data Manager can cancel its xTEDS!!": a request that
\* is refused this way leaves the Data Manager registered.
OwnRegistered == IsRegistered(DM)

\* A task is posted to the Task Manager only while no instance of it runs or
\* is being restarted by its PM ("Keep this task posted so a ReqReg won't
\* re-post it").
PostsOnlyEnded ==
  [][\A a \in due' \ due : life[a] = "off"]_vars

\* A component that has been told it is registered (SDMID) and runs is
\* registered: no late cancellation or failure of an earlier instance takes
\* its registration away for good.
LiveIsRegistered ==
  \A c \in conf : life[c] = "up" /\ Settled(c) => IsRegistered(c)

\* A component that knew it was registered, and has ended, is not registered
\* any more once its cancellation is done.
EndedIsCancelled ==
  \A c \in conf : life[c] = "off" /\ Settled(c) => ~IsRegistered(c)

\* Consume's comment: the list is there "so the DM can send out cancellations
\* upon any type of failure".  A provider does not go on serving a subscriber
\* whose registration has ended, unless the request came without an id or was
\* handled when one of the two was not registered any more.
DroppedWhenEnded ==
  Quiet => \A p \in provSubs \ strays :
    p[2] \in App /\ IsRegistered(p[1]) /\ pc[child] # "consume"
    => IsRegistered(p[2])

\* Every cancellation that is queued is dealt with.
CancelsHandled == \A n \in 1..2 : Len(cancelQueue) >= n ~> Len(cancelQueue) < n

\* Every request is taken and answered: the child is never stuck.
ChildComesBack == pipe # << >> ~> (pc[child] = "idle" /\ pipe = << >>)
=============================================================================
