------------------------- MODULE TaskManagerProofs --------------------------
(***************************************************************************)
(* Proofs about TaskManager for every number of slots, of Process          *)
(* Managers, of tasks and of command threads, and every value of the       *)
(* bounds.                                                                 *)
(***************************************************************************)
EXTENDS TaskManager, WellFoundedInduction, FiniteSetTheorems, TLAPS

-----------------------------------------------------------------------------
(* What the operators of TaskList and PMRecordList return, preserve and    *)
(* leave alone, for every table size: the proofs below cite these facts    *)
(* and do not open the operators.                                          *)

(* Searches.                                                               *)

\* A search of a non-empty set of slots stops at one of them, and at no later
\* one than any other.
LEMMA FirstOfIn ==
  ASSUME NEW S, S \subseteq Nat, S # {}
  PROVE  FirstOf(S) \in S /\ \A m \in S : FirstOf(S) <= m
<1> DEFINE R == {ss \in Nat \X Nat : ss[1] < ss[2]}
<1>1. IsWellFoundedOn(R, Nat)
  BY NatLessThanWellFounded, Zenon DEF OpToRel
<1>2. \A a, b \in Nat : a < b => <<a, b>> \in R
  OBVIOUS
<1>3. PICK x \in S : \A y \in S : ~(<<y, x>> \in R)
  <2> HIDE DEF R
  <2> QED
    BY <1>1, WFMin
<1>4. ASSUME NEW y \in S
      PROVE  x <= y
  <2>1. x \in Nat /\ y \in Nat
    OBVIOUS
  <2>2. ~(y < x)
    <3> HIDE DEF R
    <3> QED
      BY <1>2, <1>3, <2>1
  <2> QED
    BY <2>1, <2>2
<1> QED
  BY <1>4 DEF FirstOf

\* The slots and the table entries are numbers.
LEMMA SlotsNat == Slots \subseteq Nat /\ Entries \subseteq Nat
  BY DEF Slots, Entries

\* An empty slot has the type of a task.
LEMMA InitTaskType == InitTask \in Task /\ ClearList \in TaskTable
  BY DEF InitTask, Task, ClearList, TaskTable, Resources, NoResources,
         PID_INVALID, MODE_NORMAL

\* FindPendingTask returns a PENDING slot when there is one.
LEMMA FindPendingIn ==
  ASSUME NEW L, AnyPending(L)
  PROVE  FindPendingTask(L) \in Slots /\ L[FindPendingTask(L)].state = "PENDING"
  BY FirstOfIn, SlotsNat DEF FindPendingTask, AnyPending, InState

-----------------------------------------------------------------------------
(* The task table.                                                         *)

\* AddTo changes one slot at most, and that one was INACTIVE.
LEMMA AddToEffect ==
  ASSUME NEW L \in TaskTable, NEW t \in Task
  PROVE  /\ AddTo(L, t) \in TaskTable
         /\ \E k \in Slots :
              \A n \in Slots :
                \/ AddTo(L, t)[n] = L[n]
                \/ /\ n = k
                   /\ L[n].state = "INACTIVE"
                   /\ AddTo(L, t)[n] = [t EXCEPT !.pm = NoPM]
<1> DEFINE k == FirstOf(InState(L, "INACTIVE"))
           u == [t EXCEPT !.pm = NoPM]
<1>1. u \in Task
  BY DEF Task
<1>2. CASE AnyInactive(L)
  <2>1. k \in Slots /\ L[k].state = "INACTIVE"
    BY <1>2, FirstOfIn, SlotsNat DEF AnyInactive, InState
  <2>2. AddTo(L, t) = [L EXCEPT ![k] = u]
    BY <1>2 DEF AddTo
  <2>3. [L EXCEPT ![k] = u] \in TaskTable
    BY <1>1, <2>1 DEF TaskTable
  <2>4. \A n \in Slots : \/ [L EXCEPT ![k] = u][n] = L[n]
                         \/ n = k /\ [L EXCEPT ![k] = u][n] = u
    BY <2>1 DEF TaskTable
  <2> QED
    BY <2>1, <2>2, <2>3, <2>4
<1>3. CASE ~AnyInactive(L)
  <2>1. AddTo(L, t) = L
    BY <1>3 DEF AddTo
  <2>2. 0 \in Slots
    BY NumTasksAssumption DEF Slots
  <2> QED
    BY <2>1, <2>2
<1> QED
  BY <1>2, <1>3

\* TaskFinished leaves a slot alone, empties it, or makes it PENDING without
\* a pid.
LEMMA TaskFinishedEffect ==
  ASSUME NEW L \in TaskTable, NEW pid \in Nat
  PROVE  /\ TaskFinished(L, pid) \in TaskTable
         /\ \A n \in Slots :
              \/ TaskFinished(L, pid)[n] = L[n]
              \/ TaskFinished(L, pid)[n] = InitTask
              \/ TaskFinished(L, pid)[n] =
                   [L[n] EXCEPT !.state = "PENDING", !.pid = PID_INVALID]
<1> DEFINE k == FirstOf(WithPid(L, pid))
           u == IF L[k].mode = MODE_NORMAL THEN InitTask
                ELSE [L[k] EXCEPT !.state = "PENDING", !.pid = PID_INVALID]
<1>1. CASE WithPid(L, pid) = {}
  BY <1>1 DEF TaskFinished
<1>2. CASE WithPid(L, pid) # {}
  <2>1. k \in Slots
    BY <1>2, FirstOfIn, SlotsNat DEF WithPid
  <2>2. u \in Task
    BY <2>1, InitTaskType DEF TaskTable, Task, PID_INVALID
  <2>3. TaskFinished(L, pid) = [L EXCEPT ![k] = u]
    BY <1>2 DEF TaskFinished
  <2>4. [L EXCEPT ![k] = u] \in TaskTable
    BY <2>1, <2>2 DEF TaskTable
  <2>5. \A n \in Slots : \/ [L EXCEPT ![k] = u][n] = L[n]
                         \/ n = k /\ [L EXCEPT ![k] = u][n] = u
    BY <2>1 DEF TaskTable
  <2> QED
    BY <2>3, <2>4, <2>5
<1> QED
  BY <1>1, <1>2

\* PMFailure makes the failed PM's slots PENDING and changes nothing else.
LEMMA PMFailureEffect ==
  ASSUME NEW L \in TaskTable, NEW p
  PROVE  /\ PMFailure(L, p) \in TaskTable
         /\ \A n \in Slots :
              /\ L[n].pm # p => PMFailure(L, p)[n] = L[n]
              /\ L[n].pm = p =>
                   PMFailure(L, p)[n] = [L[n] EXCEPT !.state = "PENDING"]
  BY DEF PMFailure, TaskTable, Task

\* RemovePreferredPmId changes the preferred id of some slots, nothing else.
LEMMA RemovePreferredEffect ==
  ASSUME NEW L \in TaskTable, NEW id
  PROVE  /\ RemovePreferredPmId(L, id) \in TaskTable
         /\ \A n \in Slots :
              \/ RemovePreferredPmId(L, id)[n] = L[n]
              \/ RemovePreferredPmId(L, id)[n] = [L[n] EXCEPT !.res.pmid = 0]
<1>1. \A n \in Slots : [L[n] EXCEPT !.res.pmid = 0] \in Task
  BY DEF TaskTable, Task, Resources
<1> QED
  BY <1>1 DEF RemovePreferredPmId, TaskTable

-----------------------------------------------------------------------------
(* The table of Process Managers.                                          *)

\* An empty table has its type.
LEMMA NoPMsType == NoPMs \in PMTable
  BY DEF NoPMs, PMTable, NoPMRecord, PMRecord, Resources, NoResources

\* RegisterPM fills at most one free record, with p.
LEMMA RegisterEffect ==
  ASSUME NEW P \in PMTable, NEW p \in PM, NEW res \in Resources
  PROVE  /\ RegisterPM(P, p, res) \in PMTable
         /\ \A i \in Entries :
              \/ RegisterPM(P, p, res)[i] = P[i]
              \/ /\ ~P[i].in_use
                 /\ RegisterPM(P, p, res)[i] =
                      [in_use |-> TRUE, id |-> p, tasks |-> 0, res |-> res]
<1> DEFINE k == FirstOf(FreeEntries(P))
           u == [in_use |-> TRUE, id |-> p, tasks |-> 0, res |-> res]
<1>1. CASE FreeEntries(P) = {}
  BY <1>1 DEF RegisterPM
<1>2. CASE FreeEntries(P) # {}
  <2>1. k \in Entries /\ ~P[k].in_use
    BY <1>2, FirstOfIn, SlotsNat DEF FreeEntries
  <2>2. u \in PMRecord
    BY DEF PMRecord
  <2>3. RegisterPM(P, p, res) = [P EXCEPT ![k] = u]
    BY <1>2 DEF RegisterPM
  <2>4. [P EXCEPT ![k] = u] \in PMTable
    BY <2>1, <2>2 DEF PMTable
  <2>5. \A i \in Entries : \/ [P EXCEPT ![k] = u][i] = P[i]
                           \/ i = k /\ [P EXCEPT ![k] = u][i] = u
    BY <2>1 DEF PMTable
  <2> QED
    BY <2>1, <2>3, <2>4, <2>5
<1> QED
  BY <1>1, <1>2

\* In particular it leaves the records in use alone.
LEMMA RegisterKeeps ==
  ASSUME NEW P \in PMTable, NEW p, NEW res, NEW i \in Entries, P[i].in_use
  PROVE  RegisterPM(P, p, res)[i] = P[i]
<1> DEFINE k == FirstOf(FreeEntries(P))
           u == [in_use |-> TRUE, id |-> p, tasks |-> 0, res |-> res]
<1>1. CASE FreeEntries(P) = {}
  BY <1>1 DEF RegisterPM
<1>2. CASE FreeEntries(P) # {}
  <2>1. k \in Entries /\ k # i
    BY <1>2, FirstOfIn, SlotsNat DEF FreeEntries
  <2>2. RegisterPM(P, p, res) = [P EXCEPT ![k] = u]
    BY <1>2 DEF RegisterPM
  <2> HIDE DEF k, u
  <2> QED
    BY <2>1, <2>2 DEF PMTable
<1> QED
  BY <1>1, <1>2

\* The counting operations change nothing but counts.
LEMMA CountsEffect ==
  ASSUME NEW P \in PMTable, NEW p
  PROVE  /\ TaskHasStarted(P, p) \in PMTable
         /\ PMTaskFinished(P, p) \in PMTable
         /\ ClearAllRunningTasks(P) \in PMTable
         /\ \A i \in Entries : \A f \in {"in_use", "id", "res"} :
              /\ TaskHasStarted(P, p)[i][f] = P[i][f]
              /\ PMTaskFinished(P, p)[i][f] = P[i][f]
              /\ ClearAllRunningTasks(P)[i][f] = P[i][f]
<1>1. ASSUME NEW d \in Int
      PROVE  /\ AddTasks(P, p, d) \in PMTable
             /\ \A i \in Entries : \A f \in {"in_use", "id", "res"} :
                  AddTasks(P, p, d)[i][f] = P[i][f]
  <2>1. EntriesOf(P, p) # {} => FirstOf(EntriesOf(P, p)) \in Entries
    BY FirstOfIn, SlotsNat DEF EntriesOf
  <2> QED
    BY <2>1 DEF AddTasks, PMTable, PMRecord
<1>2. /\ ClearAllRunningTasks(P) \in PMTable
      /\ \A i \in Entries : \A f \in {"in_use", "id", "res"} :
           ClearAllRunningTasks(P)[i][f] = P[i][f]
  BY DEF ClearAllRunningTasks, PMTable, PMRecord
<1> QED
  BY <1>1, <1>2 DEF TaskHasStarted, PMTaskFinished

\* SetTasks too.
LEMMA SetTasksEffect ==
  ASSUME NEW P \in PMTable, NEW p, NEW k \in Int
  PROVE  /\ SetTasks(P, p, k) \in PMTable
         /\ \A i \in Entries : \A f \in {"in_use", "id", "res"} :
              SetTasks(P, p, k)[i][f] = P[i][f]
  BY DEF SetTasks, PMTable, PMRecord

\* GetTasks returns a count.
LEMMA GetTasksType ==
  ASSUME NEW P \in PMTable, NEW p
  PROVE  GetTasks(P, p) \in Int
<1>1. EntriesOf(P, p) # {} => FirstOf(EntriesOf(P, p)) \in Entries
  BY FirstOfIn, SlotsNat DEF EntriesOf
<1> QED
  BY <1>1 DEF GetTasks, PMTable, PMRecord

\* Removing a record takes it out of use, clears its resources and touches no
\* other record.
LEMMA RemoveEffect ==
  ASSUME NEW P \in PMTable, NEW k \in Entries
  PROVE  /\ RemoveEntry(P, k) \in PMTable
         /\ ~RemoveEntry(P, k)[k].in_use
         /\ RemoveEntry(P, k)[k].res = NoResources
         /\ \A i \in Entries \ {k} : RemoveEntry(P, k)[i] = P[i]
<1> DEFINE u == [in_use |-> FALSE, id |-> P[k].id, tasks |-> 0,
                 res |-> NoResources]
<1>1. u \in PMRecord /\ ~u.in_use /\ u.res = NoResources
  BY DEF PMTable, PMRecord, Resources, NoResources
<1>2. RemoveEntry(P, k) = [P EXCEPT ![k] = u]
  BY DEF RemoveEntry
<1> HIDE DEF u
<1> QED
  BY <1>1, <1>2 DEF PMTable

-----------------------------------------------------------------------------
(* Types.                                                                  *)

\* In the table of PMs: the address of a record in use is a real one, and a
\* record not in use has no resources.  Needed for TypeOK: FindPMID, which
\* does not look at in_use, hands an address to the Scheduler.
RecordsNamed ==
  \A i \in Entries :
    /\ pms[i].in_use => pms[i].id \in PM /\ pms[i].res = PmRes[pms[i].id]
    /\ ~pms[i].in_use => pms[i].res = NoResources

\* FindPMID is only called with a preferred id.
PreferenceSet == sched.pc = "preferred" => sched.task.res.pmid # 0

TypeInv == TypeOK /\ RecordsNamed /\ PreferenceSet

\* The entry PostTask makes of a task definition is a task.
LEMMA PendingTaskType ==
  ASSUME NEW d \in TaskDef
  PROVE  PendingTask(d) \in Task
  BY NoPMAssumption DEF TaskDef, PendingTask, InitTask, Task, PID_INVALID,
     MODE_NORMAL, MODE_ALWAYS_RUNNING, NoResources, Resources

\* So is what the command thread makes of it.
LEMMA StartTaskType ==
  ASSUME NEW d \in TaskDef
  PROVE  [PendingTask(d) EXCEPT !.res.pmid = 0, !.timeout = 0] \in Task
  BY PendingTaskType DEF Task, Resources

\* The table InitialStartUp fills has its type.
LEMMA InitialStartUpType == InitialStartUp \in TaskTable
<1>1. ASSUME NEW n \in Slots, n < Len(Config)
      PROVE  Config[n + 1] \in TaskDef
  BY <1>1, ConfigAssumption DEF Slots
<1> QED
  BY <1>1, PendingTaskType, InitTaskType DEF InitialStartUp, TaskTable

\* The threads' initial states have their types.
LEMMA IdleTypes ==
  /\ IdleSched \in SchedThread /\ IdleSched.pc = "idle"
  /\ IdleLsn \in LsnThread /\ IdleLsn.pc = "idle"
  /\ IdleCmd \in CmdThread
<1>1. NoTask \in [name : Names \cup {NoName}, res : Resources, timeout : Nat]
  BY DEF NoTask, TaskData, InitTask, NoResources, Resources
<1>2. 0 \in Slots
  BY NumTasksAssumption DEF Slots
<1>3. IdleSched \in SchedThread /\ IdleSched.pc = "idle"
  BY <1>1, <1>2 DEF IdleSched, SchedThread, SchedPcs
<1>4. IdleLsn \in LsnThread /\ IdleLsn.pc = "idle"
  BY DEF IdleLsn, LsnThread, LsnPcs
<1>5. IdleCmd \in CmdThread
  BY DEF IdleCmd, CmdThread, CmdPcs
<1> QED
  BY <1>3, <1>4, <1>5

\* The initial state has its types.
LEMMA TypeInit == Init => TypeInv
<1> SUFFICES ASSUME Init PROVE TypeInv
  OBVIOUS
<1>1. TableTypes
  BY InitialStartUpType, NoPMsType, MaxPMAssumption DEF Init, TableTypes
<1>2. ThreadTypes
  BY IdleTypes DEF Init, ThreadTypes
<1>3. FlagTypes
  <2>1. g_ucMode \in 0 .. 255
    BY DEF Init, NORMAL_MODE
  <2> QED
    BY <2>1, Zenon DEF Init, FlagTypes
<1>4. EnvTypes
  <2>1. used \in [{"posts", "crashes", "losses", "removals", "kills", "cmds",
                    "restarts"} -> Nat]
    BY DEF Init, NoneUsed
  <2> QED
    BY <2>1 DEF Init, EnvTypes
<1>5. RecordsNamed
  BY DEF Init, RecordsNamed, NoPMs, NoPMRecord, Entries
<1>6. PreferenceSet
  BY IdleTypes DEF Init, PreferenceSet
<1> QED
  BY <1>1, <1>2, <1>3, <1>4, <1>5, <1>6 DEF TypeInv, TypeOK

\* An action that leaves a group of variables alone preserves its types.
LEMMA TypesUnchanged ==
  ASSUME TypeInv
  PROVE  /\ UNCHANGED <<tasks, pms, pending_pms, infoIndex, NextPID>> => TableTypes'
         /\ UNCHANGED <<sched, lsn, hb, cmd>> => ThreadTypes'
         /\ UNCHANGED <<tmUp, resetFlag, prefTimer, g_ucMode, dm_found>>
              => FlagTypes'
         /\ UNCHANGED envVars => EnvTypes'
         /\ UNCHANGED pms => RecordsNamed'
         /\ UNCHANGED sched => PreferenceSet'
<1> USE DEF TypeInv, TypeOK
<1>1. UNCHANGED <<tasks, pms, pending_pms, infoIndex, NextPID>> => TableTypes'
  BY DEF TableTypes
<1>2. UNCHANGED <<sched, lsn, hb, cmd>> => ThreadTypes'
  BY DEF ThreadTypes
<1>3. UNCHANGED <<tmUp, resetFlag, prefTimer, g_ucMode, dm_found>> => FlagTypes'
  BY Zenon DEF FlagTypes
<1>4. UNCHANGED envVars => EnvTypes'
  BY Zenon DEF EnvTypes, envVars
<1>5. UNCHANGED pms => RecordsNamed'
  BY DEF RecordsNamed
<1>6. UNCHANGED sched => PreferenceSet'
  BY DEF PreferenceSet
<1> QED
  BY <1>1, <1>2, <1>3, <1>4, <1>5, <1>6

\* The PM FindPMID returns is a real one.
LEMMA MatchingIsPM ==
  ASSUME TypeInv, NEW id \in Nat \ {0}, MatchingId(pms, id) # {}
  PROVE  /\ FirstOf(MatchingId(pms, id)) \in Entries
         /\ pms[FirstOf(MatchingId(pms, id))].in_use
         /\ pms[FirstOf(MatchingId(pms, id))].id \in PM
         /\ PmRes[pms[FirstOf(MatchingId(pms, id))].id].pmid = id
<1> DEFINE k == FirstOf(MatchingId(pms, id))
<1>1. k \in Entries /\ pms[k].res.pmid = id
  BY FirstOfIn, SlotsNat DEF MatchingId
<1>2. pms[k].in_use
  BY <1>1 DEF TypeInv, RecordsNamed, NoResources
<1> QED
  BY <1>1, <1>2 DEF TypeInv, RecordsNamed

\* So is the one FindEligiblePM returns.
LEMMA EligibleIsPM ==
  ASSUME TypeInv, NEW k \in Int, NEW res, EligibleFrom(pms, infoIndex, k, res) # {}
  PROVE  LET i == FirstOf(EligibleFrom(pms, infoIndex, k, res)) IN
         /\ i \in Entries
         /\ Fits(pms[i], res)
         /\ pms[i].id \in PM
         /\ pms[i].res = PmRes[pms[i].id]
<1> DEFINE E == EligibleFrom(pms, infoIndex, k, res)
           i == FirstOf(E)
<1>1. E \subseteq Entries
  BY DEF EligibleFrom, Entries, TypeInv, TypeOK, TableTypes
<1>2. i \in E
  BY <1>1, FirstOfIn, SlotsNat DEF EligibleFrom
<1>3. i \in Entries /\ Fits(pms[i], res)
  BY <1>1, <1>2 DEF EligibleFrom
<1> QED
  BY <1>3 DEF Fits, TypeInv, RecordsNamed

\* A chosen PM is a real one, so the Scheduler keeps its type.
LEMMA ChosenType ==
  ASSUME TypeInv, NEW p \in PM, ChosenPM(p)
  PROVE  /\ sched' \in SchedThread
         /\ sched'.pm \in PM
         /\ sched'.pc \in {"sleep", "assign"}
  BY DEF TypeInv, TypeOK, ThreadTypes, SchedThread, SchedPcs, ChosenPM

\* The copy the Scheduler takes of a task has its type.
LEMMA TaskDataType ==
  ASSUME NEW t \in Task
  PROVE  TaskData(t) \in [name : Names \cup {NoName}, res : Resources,
                          timeout : Nat]
  BY DEF TaskData, Task

\* The Scheduler thread preserves the types.
LEMMA SchedulerTypes == TypeInv /\ Scheduler => TypeInv'
<1> SUFFICES ASSUME TypeInv, Scheduler PROVE TypeInv'
  OBVIOUS
<1> USE DEF TypeInv, TypeOK
<1>1. CASE SchedPoll
  <2>1. FlagTypes'
    BY <1>1, Zenon DEF SchedPoll, FlagTypes, tmVars
  <2> QED
    BY <1>1, <2>1, TypesUnchanged DEF SchedPoll, tmVars
<1>2. CASE SchedFind
  <2> DEFINE n == FindPendingTask(tasks)
  <2>1. n \in Slots /\ tasks[n] \in Task
    BY <1>2, FindPendingIn DEF SchedFind, SomethingToSchedule, TableTypes,
       TaskTable
  <2> HIDE DEF n
  <2>2. sched' = [IdleSched EXCEPT
                    !.pc = IF IsPreferredPmIdSet(tasks[n].res)
                           THEN "preferred" ELSE "eligible",
                    !.idx = n,
                    !.task = TaskData(tasks[n])]
    BY <1>2 DEF SchedFind, n
  <2>3. ThreadTypes'
    <3>1. TaskData(tasks[n]) \in [name : Names \cup {NoName}, res : Resources,
                                  timeout : Nat]
      BY <2>1, TaskDataType
    <3>2. sched' \in SchedThread /\ sched'.pc \in {"preferred", "eligible"}
      BY <2>1, <2>2, <3>1, IdleTypes DEF SchedThread, SchedPcs
    <3> QED
      BY <1>2, <3>2 DEF SchedFind, ThreadTypes, tmVars
  <2>4. PreferenceSet'
    BY <2>1, <2>2, IdleTypes
       DEF PreferenceSet, IsPreferredPmIdSet, TaskData, SchedThread
  <2> QED
    BY <1>2, <2>3, <2>4, TypesUnchanged DEF SchedFind, tmVars
<1>3. CASE SchedPreferred
  <2>1. CASE PreferredFound
    <3>1. sched' \in SchedThread /\ sched'.pm \in PM
          /\ sched'.pc \in {"sleep", "assign"}
      BY <1>3, <2>1, MatchingIsPM, ChosenType
         DEF SchedPreferred, PreferredFound, PreferenceSet, ThreadTypes,
             SchedThread, Resources
    <3>2. ThreadTypes' /\ PreferenceSet'
      BY <1>3, <3>1 DEF SchedPreferred, ThreadTypes, PreferenceSet, tmVars
    <3> QED
      BY <1>3, <2>1, <3>2, TypesUnchanged
         DEF SchedPreferred, PreferredFound, tmVars
  <2>2. CASE PreferredMissing
    <3>1. tasks' \in TaskTable
      BY <2>2, RemovePreferredEffect DEF PreferredMissing, TableTypes
    <3>2. TableTypes'
      BY <1>3, <3>1 DEF SchedPreferred, TableTypes, tmVars
    <3>3. ThreadTypes' /\ PreferenceSet'
      BY <1>3, <2>2, IdleTypes
         DEF SchedPreferred, PreferredMissing, ThreadTypes, PreferenceSet, tmVars
    <3>4. FlagTypes'
      BY <1>3, <2>2, Zenon
         DEF SchedPreferred, PreferredMissing, FlagTypes, tmVars
    <3> QED
      BY <1>3, <3>2, <3>3, <3>4, TypesUnchanged DEF SchedPreferred, tmVars
  <2> QED
    BY <1>3, <2>1, <2>2 DEF SchedPreferred
<1>4. CASE SchedEligible
  <2> DEFINE E == EligibleFrom(pms, infoIndex, sched.j, sched.task.res)
  <2>1. CASE E # {} /\ ChosenPM(pms[FirstOf(E)].id) /\ infoIndex' = FirstOf(E) + 1
    <3>1. FirstOf(E) \in Entries /\ pms[FirstOf(E)].id \in PM
      BY <2>1, EligibleIsPM DEF ThreadTypes, SchedThread
    <3>2. sched' \in SchedThread /\ sched'.pm \in PM
          /\ sched'.pc \in {"sleep", "assign"}
      BY <2>1, <3>1, ChosenType
    <3>3. infoIndex' \in 0 .. MAX_PM
      BY <2>1, <3>1, MaxPMAssumption DEF Entries
    <3>4. TableTypes'
      BY <1>4, <3>3 DEF SchedEligible, TableTypes, tmVars
    <3>5. ThreadTypes' /\ PreferenceSet'
      BY <1>4, <3>2 DEF SchedEligible, ThreadTypes, PreferenceSet, tmVars
    <3> QED
      BY <1>4, <3>4, <3>5, TypesUnchanged DEF SchedEligible, tmVars
  <2>2. CASE E = {} /\ infoIndex' = 0
             /\ sched' = IF sched.j + 1 < MAX_JOBS
                         THEN [sched EXCEPT !.j = @ + 1] ELSE IdleSched
    <3>1. TableTypes'
      BY <1>4, <2>2, MaxPMAssumption DEF SchedEligible, TableTypes, tmVars
    <3>2. ThreadTypes' /\ PreferenceSet'
      BY <1>4, <2>2, IdleTypes
         DEF SchedEligible, ThreadTypes, SchedThread, PreferenceSet, tmVars
    <3> QED
      BY <1>4, <3>1, <3>2, TypesUnchanged DEF SchedEligible, tmVars
  <2> QED
    BY <1>4, <2>1, <2>2 DEF SchedEligible
<1>5. CASE SchedWake
  <2>1. FlagTypes'
    BY <1>5, Zenon DEF SchedWake, FlagTypes, tmVars
  <2>2. ThreadTypes' /\ PreferenceSet'
    BY <1>5, IdleTypes
       DEF SchedWake, ThreadTypes, SchedThread, SchedPcs, PreferenceSet, tmVars
  <2> QED
    BY <1>5, <2>1, <2>2, TypesUnchanged DEF SchedWake, tmVars
<1>6. CASE SchedRelock
  <2>1. ThreadTypes' /\ PreferenceSet'
    BY <1>6
       DEF SchedRelock, ThreadTypes, SchedThread, SchedPcs, PreferenceSet, tmVars
  <2> QED
    BY <1>6, <2>1, TypesUnchanged DEF SchedRelock, tmVars
<1>7. CASE SchedAssign
  <2>1. TableTypes'
    <3>1. NextPID' \in Nat \ {0}
      BY <1>7 DEF SchedAssign, TableTypes, AfterNextPID
    <3>2. tasks' \in TaskTable
      BY <1>7 DEF SchedAssign, TableTypes, TaskTable, Task
    <3> QED
      BY <1>7, <3>1, <3>2 DEF SchedAssign, TableTypes, tmVars
  <2>2. ThreadTypes' /\ PreferenceSet'
    BY <1>7
       DEF SchedAssign, ThreadTypes, SchedThread, SchedPcs, PreferenceSet, tmVars
  <2>3. EnvTypes'
    <3>1. Msg("Task", sched.pm, NextPID, sched.task.name) \in Message
      BY <1>7 DEF SchedAssign, ThreadTypes, TableTypes, SchedThread, Msg, Message
    <3> QED
      BY <1>7, <3>1, Zenon DEF SchedAssign, EnvTypes, Send
  <2> QED
    BY <1>7, <2>1, <2>2, <2>3, TypesUnchanged DEF SchedAssign, tmVars
<1>8. CASE SchedThrow
  <2>1. FlagTypes'
    BY <1>8, Zenon DEF SchedThrow, FlagTypes, schedVars
  <2> QED
    BY <1>8, <2>1, TypesUnchanged DEF SchedThrow, schedVars
<1>9. CASE SchedCommit
  <2>1. TableTypes'
    <3>1. pms' \in PMTable
      BY <1>9, CountsEffect DEF SchedCommit, TableTypes
    <3>2. tasks' \in TaskTable
      <4> DEFINE t == [tasks[sched.idx] EXCEPT !.state = "SCHEDULED",
                                               !.timeout = 0, !.pm = sched.pm]
      <4>1. sched.idx \in Slots /\ sched.pm \in PM
        BY <1>9 DEF SchedCommit, ThreadTypes, SchedThread
      <4>2. t \in Task
        BY <4>1 DEF TableTypes, TaskTable, Task
      <4> HIDE DEF t
      <4>3. tasks' = [tasks EXCEPT ![sched.idx] = t]
        BY <1>9 DEF SchedCommit, t
      <4> QED
        BY <4>1, <4>2, <4>3 DEF TableTypes, TaskTable
    <3> QED
      BY <1>9, <3>1, <3>2 DEF SchedCommit, TableTypes, tmVars
  <2>2. ThreadTypes' /\ PreferenceSet'
    BY <1>9, IdleTypes DEF SchedCommit, ThreadTypes, PreferenceSet, tmVars
  <2>3. FlagTypes'
    BY <1>9, Zenon DEF SchedCommit, FlagTypes, tmVars
  <2>4. RecordsNamed'
    BY <1>9, CountsEffect DEF SchedCommit, RecordsNamed, TableTypes
  <2> QED
    BY <1>9, <2>1, <2>2, <2>3, <2>4, TypesUnchanged DEF SchedCommit
<1> QED
  BY <1>1, <1>2, <1>3, <1>4, <1>5, <1>6, <1>7, <1>8, <1>9 DEF Scheduler

\* A message taken from the network, or put into it, leaves its type.
LEMMA NetTypes ==
  ASSUME TypeInv, UNCHANGED <<pmUp, run, notify, used>>, net' \in SUBSET Message
  PROVE  EnvTypes'
  BY Zenon DEF TypeInv, TypeOK, EnvTypes

\* A count of used-up bounds stays one.
LEMMA UseTypes ==
  ASSUME TypeInv,
         NEW w \in {"posts", "crashes", "losses", "removals", "kills", "cmds",
                    "restarts"},
         Use(w)
  PROVE  used' \in [{"posts", "crashes", "losses", "removals", "kills", "cmds",
                      "restarts"} -> Nat]
  BY DEF TypeInv, TypeOK, EnvTypes, Use

\* The Listener thread preserves the types.
LEMMA ListenerTypes == TypeInv /\ Listener => TypeInv'
<1> SUFFICES ASSUME TypeInv, Listener PROVE TypeInv'
  OBVIOUS
<1> USE DEF TypeInv, TypeOK, LsnUnchanged, SchedUnchanged, PmsUnchanged
<1>1. CASE DMReady
  <2>1. FlagTypes'
    BY <1>1, Zenon DEF DMReady, FlagTypes, schedVars
  <2> QED
    BY <1>1, <2>1, TypesUnchanged DEF DMReady, schedVars
<1>2. CASE DropMessage
  <2>1. EnvTypes'
    BY <1>2, NetTypes, Zenon DEF DropMessage, Receive, EnvTypes
  <2> QED
    BY <1>2, <2>1, TypesUnchanged DEF DropMessage, schedVars, tmVars
<1>3. CASE RegPMHandler
  <2>1. PICK p \in PM :
          /\ Receive(Msg("RegPM", p, 0, NoName))
          /\ IF AlreadyRegistered(pms, p)
             THEN UNCHANGED <<pms, lsn>>
             ELSE /\ pms' = RegisterPM(pms, p, PmRes[p])
                  /\ lsn' = [IdleLsn EXCEPT !.pc = "setTasks", !.pm = p]
    BY <1>3 DEF RegPMHandler
  <2>2. PmRes[p] \in Resources
    BY PmResAssumption
  <2>3. TableTypes'
    <3>1. RegisterPM(pms, p, PmRes[p]) \in PMTable
      BY <2>2, RegisterEffect DEF TableTypes
    <3>2. pms' \in PMTable
      BY <2>1, <3>1 DEF TableTypes
    <3> QED
      BY <1>3, <3>2 DEF RegPMHandler, TableTypes
  <2>4. ThreadTypes'
    <3>1. lsn' \in LsnThread /\ (lsn'.pc # "idle" => lsn'.pm \in PM)
      BY <2>1, IdleTypes DEF ThreadTypes, LsnThread, LsnPcs, IdleLsn
    <3> QED
      BY <1>3, <3>1 DEF RegPMHandler, ThreadTypes
  <2>5. EnvTypes'
    BY <1>3, <2>1, NetTypes, Zenon DEF RegPMHandler, Receive, EnvTypes
  <2>6. RecordsNamed'
    <3>1. ASSUME NEW i \in Entries
          PROVE  \/ pms'[i] = pms[i]
                 \/ pms'[i] = [in_use |-> TRUE, id |-> p, tasks |-> 0,
                               res |-> PmRes[p]]
      BY <2>1, <2>2, RegisterEffect DEF TableTypes
    <3> QED
      BY <3>1 DEF RecordsNamed
  <2> QED
    BY <1>3, <2>3, <2>4, <2>5, <2>6, TypesUnchanged DEF RegPMHandler
<1>4. CASE RegPMSetTasks
  <2>1. pms' \in PMTable
    BY <1>4, SetTasksEffect, GetTasksType DEF RegPMSetTasks, TableTypes
  <2>2. TableTypes'
    BY <1>4, <2>1 DEF RegPMSetTasks, TableTypes
  <2>3. ThreadTypes'
    BY <1>4, IdleTypes DEF RegPMSetTasks, ThreadTypes
  <2>4. RecordsNamed'
    BY <1>4, SetTasksEffect, GetTasksType
       DEF RegPMSetTasks, TableTypes, RecordsNamed
  <2> QED
    BY <1>4, <2>2, <2>3, <2>4, TypesUnchanged DEF RegPMSetTasks
<1>5. CASE PostTaskHandler
  <2>1. TableTypes'
    <3>1. PICK d \in Posts : tasks' = AddTo(tasks, PendingTask(d))
      BY <1>5 DEF PostTaskHandler
    <3>2. PendingTask(d) \in Task
      BY PendingTaskType, PostsAssumption
    <3>3. tasks' \in TaskTable
      BY <3>1, <3>2, AddToEffect DEF TableTypes
    <3> QED
      BY <1>5, <3>3 DEF PostTaskHandler, TableTypes
  <2>2. EnvTypes'
    BY <1>5, UseTypes, Zenon DEF PostTaskHandler, EnvTypes
  <2> QED
    BY <1>5, <2>1, <2>2, TypesUnchanged DEF PostTaskHandler
<1>6. CASE TaskFinishedHandler
  <2>1. PICK m \in net :
          /\ Receive(m)
          /\ pms' = PMTaskFinished(pms, m.pm)
          /\ lsn' = [IdleLsn EXCEPT !.pc = "finish", !.pm = m.pm, !.pid = m.pid]
    BY <1>6 DEF TaskFinishedHandler
  <2>2. m \in Message
    BY DEF EnvTypes
  <2>3. TableTypes'
    BY <1>6, <2>1, CountsEffect DEF TaskFinishedHandler, TableTypes
  <2>4. ThreadTypes'
    <3>1. lsn' \in LsnThread /\ lsn'.pm \in PM
      BY <2>1, <2>2, IdleTypes DEF Message, LsnThread, LsnPcs
    <3> QED
      BY <1>6, <3>1 DEF TaskFinishedHandler, ThreadTypes
  <2>5. EnvTypes'
    BY <1>6, <2>1, NetTypes, Zenon DEF TaskFinishedHandler, Receive, EnvTypes
  <2>6. RecordsNamed'
    BY <2>1, CountsEffect DEF RecordsNamed, TableTypes
  <2> QED
    BY <1>6, <2>3, <2>4, <2>5, <2>6, TypesUnchanged DEF TaskFinishedHandler
<1>7. CASE TaskFinishedList
  <2>1. tasks' \in TaskTable
    BY <1>7, TaskFinishedEffect
       DEF TaskFinishedList, TableTypes, ThreadTypes, LsnThread
  <2>2. TableTypes'
    BY <1>7, <2>1 DEF TaskFinishedList, TableTypes
  <2>3. ThreadTypes'
    BY <1>7, IdleTypes DEF TaskFinishedList, ThreadTypes
  <2> QED
    BY <1>7, <2>2, <2>3, TypesUnchanged DEF TaskFinishedList
<1>8. CASE PMRunningTaskHandler
  <2>1. PICK m \in net :
          /\ Receive(m)
          /\ NextPID' = RaisedPID(m.pid)
          /\ lsn' = [pc |-> "addTo", pm |-> m.pm, pid |-> m.pid, name |-> m.name]
    BY <1>8 DEF PMRunningTaskHandler
  <2>2. m \in Message
    BY DEF EnvTypes
  <2>3. TableTypes'
    <3>1. NextPID' \in Nat \ {0}
      BY <2>1, <2>2 DEF Message, RaisedPID, TableTypes
    <3> QED
      BY <1>8, <3>1 DEF PMRunningTaskHandler, TableTypes
  <2>4. ThreadTypes'
    <3>1. lsn' \in LsnThread /\ lsn'.pm \in PM
      BY <2>1, <2>2 DEF Message, LsnThread, LsnPcs
    <3> QED
      BY <1>8, <3>1 DEF PMRunningTaskHandler, ThreadTypes
  <2>5. EnvTypes'
    BY <1>8, <2>1, NetTypes, Zenon DEF PMRunningTaskHandler, Receive, EnvTypes
  <2> QED
    BY <1>8, <2>3, <2>4, <2>5, TypesUnchanged DEF PMRunningTaskHandler
<1>9. CASE PMRunningTaskAdd
  <2> DEFINE t == [InitTask EXCEPT !.state = "SCHEDULED", !.pid = lsn.pid,
                                   !.name = lsn.name]
  <2>1. t \in Task
    BY InitTaskType DEF ThreadTypes, LsnThread, Task
  <2>2. tasks' \in TaskTable
    <3> HIDE DEF t
    <3>1. tasks' = AddTo(tasks, t)
      BY <1>9 DEF PMRunningTaskAdd, t
    <3> QED
      BY <2>1, <3>1, AddToEffect DEF TableTypes
  <2>3. TableTypes'
    BY <1>9, <2>2 DEF PMRunningTaskAdd, TableTypes
  <2>4. ThreadTypes'
    BY <1>9 DEF PMRunningTaskAdd, ThreadTypes, LsnThread, LsnPcs
  <2> QED
    BY <1>9, <2>3, <2>4, TypesUnchanged DEF PMRunningTaskAdd
<1>10. CASE PMRunningTaskCount
  <2>1. lsn.pm \in PM /\ NoResources \in Resources
    BY <1>10 DEF PMRunningTaskCount, ThreadTypes, NoResources, Resources
  <2>2. pms' \in PMTable /\ pending_pms' \in PMTable
    <3>1. RegisterPM(pending_pms, lsn.pm, NoResources) \in PMTable
      BY <2>1, RegisterEffect DEF TableTypes
    <3>2. \A P \in PMTable : TaskHasStarted(P, lsn.pm) \in PMTable
      BY CountsEffect
    <3> QED
      BY <1>10, <3>1, <3>2 DEF PMRunningTaskCount, TableTypes
  <2>3. TableTypes'
    BY <1>10, <2>2 DEF PMRunningTaskCount, TableTypes
  <2>4. ThreadTypes'
    BY <1>10, IdleTypes DEF PMRunningTaskCount, ThreadTypes
  <2>5. RecordsNamed'
    BY <1>10, CountsEffect DEF PMRunningTaskCount, RecordsNamed, TableTypes
  <2> QED
    BY <1>10, <2>3, <2>4, <2>5, TypesUnchanged DEF PMRunningTaskCount
<1> QED
  BY <1>1, <1>2, <1>3, <1>4, <1>5, <1>6, <1>7, <1>8, <1>9, <1>10 DEF Listener

\* A step of one command thread that keeps its record's type.
LEMMA CmdThreadTypes ==
  ASSUME TypeInv, UNCHANGED <<sched, lsn, hb>>,
         NEW c \in Cmds, NEW r \in CmdThread, cmd' = [cmd EXCEPT ![c] = r]
  PROVE  ThreadTypes'
  BY DEF TypeInv, TypeOK, ThreadTypes

\* A command thread that moves on keeps its record's type.
LEMMA CmdStepTypes ==
  ASSUME TypeInv, UNCHANGED <<sched, lsn, hb>>,
         NEW c \in Cmds, NEW pc \in CmdPcs, CmdStep(c, pc)
  PROVE  ThreadTypes'
<1>1. [cmd[c] EXCEPT !.pc = pc] \in CmdThread
  BY DEF TypeInv, TypeOK, ThreadTypes, CmdThread
<1>2. cmd' = [cmd EXCEPT ![c] = [cmd[c] EXCEPT !.pc = pc]]
  BY DEF CmdStep, TypeInv, TypeOK, ThreadTypes
<1> QED
  BY <1>1, <1>2, CmdThreadTypes

\* A mode-change command preserves the types.
LEMMA ChangeModeTypes ==
  ASSUME TypeInv, NEW c \in Cmds, ChangeMode(c)
  PROVE  TypeInv'
<1> USE DEF CmdUnchanged, PmsUnchanged
<1>0. cmd[c] \in CmdThread
  BY DEF TypeInv, TypeOK, ThreadTypes
<1>1. CASE CmdReceive(c)
  <2>1. PICK new \in Modes :
          cmd' = [cmd EXCEPT ![c] = [IdleCmd EXCEPT !.pc = "read", !.new = new]]
    BY <1>1 DEF CmdReceive
  <2>2. [IdleCmd EXCEPT !.pc = "read", !.new = new] \in CmdThread
    BY ModesAssumption, IdleTypes DEF CmdThread, CmdPcs
  <2>3. ThreadTypes'
    BY <1>1, <2>1, <2>2, CmdThreadTypes DEF CmdReceive, schedVars
  <2>4. EnvTypes'
    BY <1>1, UseTypes, Zenon DEF CmdReceive, EnvTypes, TypeInv, TypeOK
  <2> QED
    BY <1>1, <2>3, <2>4, TypesUnchanged DEF CmdReceive, schedVars, TypeInv, TypeOK
<1>2. CASE CmdReadMode(c)
  <2>1. cmd' = [cmd EXCEPT ![c] =
                  IF cmd[c].new = g_ucMode
                  THEN IdleCmd
                  ELSE [cmd[c] EXCEPT !.pc = "set", !.old = g_ucMode]]
    BY <1>2 DEF CmdReadMode, TypeInv, TypeOK, ThreadTypes
  <2>2. [cmd[c] EXCEPT !.pc = "set", !.old = g_ucMode] \in CmdThread
    BY <1>0 DEF CmdThread, CmdPcs, TypeInv, TypeOK, FlagTypes
  <2>3. ThreadTypes'
    BY <1>2, <2>1, <2>2, IdleTypes, CmdThreadTypes DEF CmdReadMode, schedVars
  <2> QED
    BY <1>2, <2>3, TypesUnchanged
       DEF CmdReadMode, schedVars, TypeInv, TypeOK
<1>3. CASE CmdSetMode(c)
  <2>1. ThreadTypes'
    BY <1>3, CmdStepTypes DEF CmdSetMode, CmdPcs, schedVars
  <2>2. cmd[c].new \in 0 .. 255
    BY <1>0 DEF CmdThread
  <2>3. FlagTypes'
    BY <1>3, <2>2, Zenon DEF CmdSetMode, schedVars, FlagTypes, TypeInv, TypeOK
  <2> QED
    BY <1>3, <2>1, <2>3, TypesUnchanged
       DEF CmdSetMode, schedVars, TypeInv, TypeOK
<1>4. CASE CmdPublish(c)
  <2>1. cmd' = [cmd EXCEPT ![c] =
                  CASE cmd[c].new = HARD_RESET -> [cmd[c] EXCEPT !.pc = "verify"]
                    [] cmd[c].new = SOFT_RESET -> [cmd[c] EXCEPT !.pc = "clear"]
                    [] OTHER -> IdleCmd]
    BY <1>4 DEF CmdPublish, TypeInv, TypeOK, ThreadTypes
  <2>2. /\ [cmd[c] EXCEPT !.pc = "verify"] \in CmdThread
        /\ [cmd[c] EXCEPT !.pc = "clear"] \in CmdThread
    BY <1>0 DEF CmdThread, CmdPcs
  <2>3. ThreadTypes'
    BY <1>4, <2>1, <2>2, IdleTypes, CmdThreadTypes
       DEF CmdPublish, schedVars, HARD_RESET, SOFT_RESET
  <2>4. EnvTypes'
    <3>1. \A p \in PM : Msg("Mode", p, 0, NoName) \in Message
      BY DEF Msg, Message
    <3>2. net \in SUBSET Message
      BY DEF TypeInv, TypeOK, EnvTypes
    <3>3. net' \in SUBSET Message
      BY <1>4, <3>1, <3>2 DEF CmdPublish
    <3> QED
      BY <1>4, <3>3, NetTypes DEF CmdPublish
  <2> QED
    BY <1>4, <2>3, <2>4, TypesUnchanged
       DEF CmdPublish, schedVars, TypeInv, TypeOK
<1>5. CASE CmdVerifyDM(c)
  <2>1. ThreadTypes'
    BY <1>5, CmdStepTypes DEF CmdVerifyDM, CmdPcs, schedVars
  <2> QED
    BY <1>5, <2>1, TypesUnchanged
       DEF CmdVerifyDM, schedVars, TypeInv, TypeOK
<1>6. CASE CmdClear(c)
  <2>1. ThreadTypes'
    BY <1>6, CmdStepTypes DEF CmdClear, CmdPcs
  <2>2. TableTypes'
    BY <1>6, InitTaskType DEF CmdClear, TableTypes, TypeInv, TypeOK
  <2>3. FlagTypes'
    BY <1>6, Zenon DEF CmdClear, FlagTypes, TypeInv, TypeOK
  <2> QED
    BY <1>6, <2>1, <2>2, <2>3, TypesUnchanged DEF CmdClear, TypeInv, TypeOK
<1>7. CASE CmdClearCounts(c)
  <2>1. ThreadTypes'
    BY <1>7, CmdStepTypes DEF CmdClearCounts, CmdPcs
  <2>2. TableTypes'
    BY <1>7, CountsEffect DEF CmdClearCounts, TableTypes, TypeInv, TypeOK
  <2>3. RecordsNamed'
    BY <1>7, CountsEffect
       DEF CmdClearCounts, RecordsNamed, TableTypes, TypeInv, TypeOK
  <2> QED
    BY <1>7, <2>1, <2>2, <2>3, TypesUnchanged
       DEF CmdClearCounts, TypeInv, TypeOK
<1>8. CASE CmdStartUp(c)
  <2>1. ThreadTypes'
    <3>1. [cmd[c] EXCEPT !.next = @ + 1] \in CmdThread
      BY <1>0 DEF CmdThread
    <3>2. cmd' = [cmd EXCEPT ![c] = [cmd[c] EXCEPT !.next = @ + 1]]
      BY <1>8 DEF CmdStartUp, TypeInv, TypeOK, ThreadTypes
    <3> QED
      BY <1>8, <3>1, <3>2, CmdThreadTypes DEF CmdStartUp
  <2>2. TableTypes'
    <3>1. Config[cmd[c].next] \in TaskDef
      BY <1>0, <1>8, ConfigAssumption DEF CmdStartUp, CmdThread
    <3>2. PendingTask(Config[cmd[c].next]) \in Task
      BY <3>1, PendingTaskType
    <3>3. tasks' \in TaskTable
      BY <1>8, <3>2, AddToEffect DEF CmdStartUp, TypeInv, TypeOK, TableTypes
    <3> QED
      BY <1>8, <3>3 DEF CmdStartUp, TableTypes, TypeInv, TypeOK
  <2> QED
    BY <1>8, <2>1, <2>2, TypesUnchanged DEF CmdStartUp, TypeInv, TypeOK
<1>9. CASE CmdRestore(c)
  <2>1. ThreadTypes'
    BY <1>9, IdleTypes, CmdThreadTypes DEF CmdRestore, schedVars
  <2>2. cmd[c].old \in 0 .. 255
    BY <1>0 DEF CmdThread
  <2>3. FlagTypes'
    BY <1>9, <2>2, Zenon DEF CmdRestore, schedVars, FlagTypes, TypeInv, TypeOK
  <2> QED
    BY <1>9, <2>1, <2>3, TypesUnchanged
       DEF CmdRestore, schedVars, TypeInv, TypeOK
<1> QED
  BY <1>1, <1>2, <1>3, <1>4, <1>5, <1>6, <1>7, <1>8, <1>9 DEF ChangeMode

\* The other commands, the heartbeat thread and the timer do.
LEMMA OtherThreadsTypes ==
  TypeInv /\ (StartTaskCommand \/ PerformKill \/ PMHeartbeat \/ TimerExpires)
    => TypeInv'
<1> SUFFICES ASSUME TypeInv,
                    StartTaskCommand \/ PerformKill \/ PMHeartbeat \/ TimerExpires
             PROVE  TypeInv'
  OBVIOUS
<1> USE DEF TypeInv, TypeOK, LsnUnchanged, SchedUnchanged, PmsUnchanged
<1>1. CASE StartTaskCommand
  <2>1. TableTypes'
    <3> DEFINE t(d) == [PendingTask(d) EXCEPT !.res.pmid = 0, !.timeout = 0]
    <3>1. PICK d \in Posts : tasks' = AddTo(tasks, t(d))
      BY <1>1 DEF StartTaskCommand
    <3>2. t(d) \in Task
      BY StartTaskType, PostsAssumption
    <3> HIDE DEF t
    <3>3. tasks' \in TaskTable
      BY <3>1, <3>2, AddToEffect DEF TableTypes
    <3> QED
      BY <1>1, <3>3 DEF StartTaskCommand, TableTypes
  <2>2. EnvTypes'
    BY <1>1, UseTypes, Zenon DEF StartTaskCommand, EnvTypes
  <2> QED
    BY <1>1, <2>1, <2>2, TypesUnchanged DEF StartTaskCommand
<1>2. CASE PerformKill
  <2>1. EnvTypes'
    <3>1. PICK pid \in 1 .. NextPID - 1 :
            net' = IF GetPMAddress(tasks, pid) \in PM
                   THEN net \cup {Msg("Kill", GetPMAddress(tasks, pid), pid, NoName)}
                   ELSE net
      BY <1>2 DEF PerformKill
    <3>2. net' \in SUBSET Message
      BY <3>1 DEF Msg, Message, EnvTypes, TableTypes
    <3> QED
      BY <1>2, <3>2, UseTypes, Zenon DEF PerformKill, EnvTypes
  <2> QED
    BY <1>2, <2>1, TypesUnchanged DEF PerformKill
<1>3. CASE RemoveAnyFailed
  <2>1. PICK i \in Entries : /\ pms[i].in_use
                             /\ hb' = pms[i].id
                             /\ pms' = RemoveEntry(pms, i)
    BY <1>3 DEF RemoveAnyFailed
  <2>2. TableTypes'
    BY <1>3, <2>1, RemoveEffect DEF RemoveAnyFailed, TableTypes
  <2>3. ThreadTypes'
    BY <1>3, <2>1 DEF RemoveAnyFailed, ThreadTypes, RecordsNamed
  <2>4. EnvTypes'
    BY <1>3, UseTypes, Zenon DEF RemoveAnyFailed, EnvTypes
  <2>5. RecordsNamed'
    BY <2>1, RemoveEffect DEF RecordsNamed, TableTypes
  <2> QED
    BY <1>3, <2>2, <2>3, <2>4, <2>5, TypesUnchanged DEF RemoveAnyFailed
<1>4. CASE HeartbeatPMFailure
  <2>1. TableTypes'
    BY <1>4, PMFailureEffect DEF HeartbeatPMFailure, TableTypes
  <2>2. ThreadTypes'
    BY <1>4 DEF HeartbeatPMFailure, ThreadTypes
  <2> QED
    BY <1>4, <2>1, <2>2, TypesUnchanged DEF HeartbeatPMFailure
<1>5. CASE TimerExpires
  <2>1. FlagTypes'
    BY <1>5, Zenon DEF TimerExpires, FlagTypes, tmVars
  <2> QED
    BY <1>5, <2>1, TypesUnchanged DEF TimerExpires, tmVars
<1> QED
  BY <1>1, <1>2, <1>3, <1>4, <1>5 DEF PMHeartbeat

\* The Process Managers preserve the types.
LEMMA ProcessManagerTypes ==
  ASSUME TypeInv, NEW p \in PM, ProcessManager(p)
  PROVE  TypeInv'
<1> DEFINE Runs == SUBSET [pid : Nat, name : Names \cup {NoName}]
<1> USE DEF TypeInv, TypeOK
<1>0. /\ net \in SUBSET Message
      /\ pmUp \in [PM -> BOOLEAN]
      /\ run \in [PM -> Runs]
      /\ notify \in SUBSET PM
  BY DEF EnvTypes
<1>a. \A pid \in Nat : /\ Finished(p, pid) \in Message
                       /\ Msg("RegPM", p, 0, NoName) \in Message
  BY DEF Finished, Msg, Message
<1>1. ASSUME NEW S \in Runs
      PROVE  [run EXCEPT ![p] = S] \in [PM -> Runs]
  BY <1>0
<1>2. TMUnchanged => /\ TableTypes' /\ ThreadTypes' /\ FlagTypes'
                     /\ RecordsNamed' /\ PreferenceSet'
  BY TypesUnchanged DEF TMUnchanged, schedVars, tmVars
<1>3. TMUnchanged /\ EnvTypes' => TypeInv'
  BY <1>2
<1>4. CASE PMStart(p)
  <2>1. net' \in SUBSET Message
    BY <1>4, <1>0, <1>a DEF PMStart
  <2>2. EnvTypes'
    BY <1>4, <2>1, Zenon DEF PMStart, EnvTypes
  <2> QED
    BY <1>3, <1>4, <2>2 DEF PMStart
<1>5. CASE PMCrash(p)
  <2>1. run' \in [PM -> Runs]
    BY <1>1, <1>5 DEF PMCrash
  <2>2. EnvTypes'
    BY <1>5, <2>1, UseTypes, Zenon DEF PMCrash, EnvTypes
  <2> QED
    BY <1>3, <1>5, <2>2 DEF PMCrash
<1>6. CASE PMTask(p)
  <2>1. PICK m \in net :
          /\ Receive(m)
          /\ run' = [run EXCEPT ![p] = @ \cup {[pid |-> m.pid, name |-> m.name]}]
    BY <1>6 DEF PMTask
  <2>2. m.pid \in Nat /\ m.name \in Names \cup {NoName}
    BY <1>0 DEF Message
  <2>3. run' \in [PM -> Runs]
    BY <1>0, <1>1, <2>1, <2>2
  <2>4. EnvTypes'
    BY <1>6, <1>0, <2>1, <2>3, Zenon DEF PMTask, EnvTypes, Receive
  <2> QED
    BY <1>3, <1>6, <2>4 DEF PMTask
<1>7. CASE PMTaskFinishes(p)
  <2>1. PICK r \in run[p] : /\ run' = [run EXCEPT ![p] = @ \ {r}]
                            /\ Send(Finished(p, r.pid))
    BY <1>7 DEF PMTaskFinishes
  <2>2. r.pid \in Nat
    BY <1>0
  <2>3. run' \in [PM -> Runs]
    BY <1>0, <1>1, <2>1
  <2>4. net' \in SUBSET Message
    BY <1>0, <1>a, <2>1, <2>2 DEF Send
  <2>5. EnvTypes'
    BY <1>7, <2>3, <2>4, Zenon DEF PMTaskFinishes, EnvTypes
  <2> QED
    BY <1>3, <1>7, <2>5 DEF PMTaskFinishes
<1>8. CASE PMKill(p)
  <2>1. PICK m \in net :
          /\ run' = [run EXCEPT ![p] = {r \in @ : r.pid # m.pid}]
          /\ net' = (net \ {m}) \cup
                    (IF RunsPid(p, m.pid) THEN {Finished(p, m.pid)} ELSE {})
    BY <1>8 DEF PMKill
  <2>2. m.pid \in Nat
    BY <1>0 DEF Message
  <2>3. run' \in [PM -> Runs]
    BY <1>0, <1>1, <2>1
  <2>4. net' \in SUBSET Message
    BY <1>0, <1>a, <2>1, <2>2
  <2>5. EnvTypes'
    BY <1>8, <2>3, <2>4, Zenon DEF PMKill, EnvTypes
  <2> QED
    BY <1>3, <1>8, <2>5 DEF PMKill
<1>9. CASE PMReset(p)
  <2>1. run' \in [PM -> Runs]
    BY <1>1, <1>9 DEF PMReset
  <2>2. EnvTypes'
    BY <1>9, <2>1, Zenon DEF PMReset, EnvTypes, Receive
  <2> QED
    BY <1>3, <1>9, <2>2 DEF PMReset
<1>10. CASE PMRegInfo(p)
  <2>1. \A r \in run[p] : Msg("Running", p, r.pid, r.name) \in Message
    BY <1>0 DEF Msg, Message
  <2>2. net' \in SUBSET Message
    BY <1>0, <1>a, <1>10, <2>1 DEF PMRegInfo
  <2>3. EnvTypes'
    BY <1>10, <2>2, Zenon DEF PMRegInfo, EnvTypes
  <2> QED
    BY <1>3, <1>10, <2>3 DEF PMRegInfo
<1>11. CASE PMLosesTask(p)
  <2>1. run' \in [PM -> Runs]
    BY <1>0, <1>1, <1>11 DEF PMLosesTask
  <2>2. EnvTypes'
    BY <1>11, <2>1, UseTypes, Zenon DEF PMLosesTask, EnvTypes
  <2> QED
    BY <1>3, <1>11, <2>2 DEF PMLosesTask
<1> QED
  BY <1>4, <1>5, <1>6, <1>7, <1>8, <1>9, <1>10, <1>11 DEF ProcessManager

\* So does a restart of the TM.
LEMMA TMRestartTypes == TypeInv /\ TMRestart => TypeInv'
<1> SUFFICES ASSUME TypeInv, TMRestart PROVE TypeInv'
  OBVIOUS
<1>1. TableTypes'
  BY InitTaskType, NoPMsType, MaxPMAssumption DEF TMRestart, TableTypes
<1>2. ThreadTypes' /\ PreferenceSet'
  BY IdleTypes DEF TMRestart, ThreadTypes, PreferenceSet
<1>3. FlagTypes'
  <2>1. g_ucMode' \in 0 .. 255
    BY DEF TMRestart, NORMAL_MODE
  <2> QED
    BY <2>1, Zenon DEF TMRestart, FlagTypes
<1>4. EnvTypes'
  <2>1. net' \in SUBSET Message /\ notify' \in SUBSET PM
    BY DEF TMRestart, TypeInv, TypeOK, EnvTypes
  <2>2. UNCHANGED <<pmUp, run>> /\ Use("restarts")
    BY DEF TMRestart
  <2> QED
    BY <2>1, <2>2, UseTypes, Zenon DEF TypeInv, TypeOK, EnvTypes
<1>5. RecordsNamed'
  BY DEF TMRestart, RecordsNamed, NoPMs, NoPMRecord, Entries
<1> QED
  BY <1>1, <1>2, <1>3, <1>4, <1>5 DEF TypeInv, TypeOK

\* TypeInv is inductive.
LEMMA TypeStep == TypeInv /\ [Next]_vars => TypeInv'
<1> SUFFICES ASSUME TypeInv, [Next]_vars PROVE TypeInv'
  OBVIOUS
<1>1. CASE UNCHANGED vars
  BY <1>1, TypesUnchanged DEF vars, schedVars, tmVars, envVars, TypeInv, TypeOK
<1>2. CASE \E p \in PM : ProcessManager(p)
  BY <1>2, ProcessManagerTypes
<1>3. CASE \E c \in Cmds : ChangeMode(c)
  BY <1>3, ChangeModeTypes
<1> QED
  BY <1>1, <1>2, <1>3, SchedulerTypes, ListenerTypes, OtherThreadsTypes,
     TMRestartTypes DEF Next, CommandHandler

\* TypeInv holds always; the proofs of the other invariants start from it.
THEOREM TypeInvariant == Spec => []TypeInv
  BY TypeInit, TypeStep, PTL DEF Spec

\* Every reachable state of the Task Manager has the types of its tables,
\* threads and messages: in particular the Scheduler, the Listener and the
\* heartbeat thread never act on the null address of a record that was
\* removed or rebuilt in the meantime.
THEOREM TypeCorrect == Spec => []TypeOK
<1>1. TypeInv => TypeOK
  BY DEF TypeInv
<1> QED
  BY <1>1, TypeInvariant, PTL

-----------------------------------------------------------------------------
(* The pids the Task Manager gives out: no pid in the table is one the     *)
(* counter has still to reach (PidsFresh), and until the TM is restarted   *)
(* no two tasks share one (UniquePidsUntilRestart).                        *)

\* PMRunningTaskHandler has raised the counter over the pid it is about to add.
ReportedPid == lsn.pc = "addTo" => lsn.pid < NextPID

\* Only a PM that was told of a restarted TM reports running tasks.
NoReports ==
  used.restarts = 0 => /\ notify = {}
                       /\ \A m \in net : m.type # "Running"
                       /\ lsn.pc \notin {"addTo", "count"}

PidInv == PidsFresh /\ ReportedPid /\ NoReports /\ UniquePidsUntilRestart

\* Each slot of M has its pid in L, or none.
PidsKept(L, M) == \A n \in Slots : M[n].pid = L[n].pid \/ M[n].pid = PID_INVALID

-----------------------------------------------------------------------------
(* What the operations on the task table do to pids.                       *)

\* A task without a pid brings none into the table.
LEMMA AddToPids ==
  ASSUME NEW L \in TaskTable, NEW t \in Task, t.pid = PID_INVALID
  PROVE  PidsKept(L, AddTo(L, t))
<1>1. [t EXCEPT !.pm = NoPM].pid = PID_INVALID
  BY DEF Task
<1> QED
  BY <1>1, AddToEffect DEF PidsKept

\* TaskFinished, PMFailure, RemovePreferredPmId and ClearList bring in none.
LEMMA KeepPids ==
  ASSUME NEW L \in TaskTable, NEW pid \in Nat, NEW p, NEW id
  PROVE  /\ PidsKept(L, TaskFinished(L, pid))
         /\ PidsKept(L, PMFailure(L, p))
         /\ PidsKept(L, RemovePreferredPmId(L, id))
         /\ PidsKept(L, ClearList)
<1>0. InitTask.pid = PID_INVALID
  BY DEF InitTask
<1>1. PidsKept(L, TaskFinished(L, pid))
  <2> SUFFICES ASSUME NEW n \in Slots
               PROVE  \/ TaskFinished(L, pid)[n].pid = L[n].pid
                      \/ TaskFinished(L, pid)[n].pid = PID_INVALID
    BY DEF PidsKept
  <2> DEFINE u == [L[n] EXCEPT !.state = "PENDING", !.pid = PID_INVALID]
  <2>1. u.pid = PID_INVALID
    BY DEF TaskTable, Task
  <2>2. TaskFinished(L, pid)[n] \in {L[n], InitTask, u}
    BY TaskFinishedEffect
  <2> QED
    BY <1>0, <2>1, <2>2
<1>2. PidsKept(L, PMFailure(L, p))
  <2> SUFFICES ASSUME NEW n \in Slots
               PROVE  PMFailure(L, p)[n].pid = L[n].pid
    BY DEF PidsKept
  <2> DEFINE u == [L[n] EXCEPT !.state = "PENDING"]
  <2>1. u.pid = L[n].pid
    BY DEF TaskTable, Task
  <2>2. PMFailure(L, p)[n] \in {L[n], u}
    BY DEF PMFailure
  <2> QED
    BY <2>1, <2>2
<1>3. PidsKept(L, RemovePreferredPmId(L, id))
  <2> SUFFICES ASSUME NEW n \in Slots
               PROVE  RemovePreferredPmId(L, id)[n].pid = L[n].pid
    BY DEF PidsKept
  <2> DEFINE u == [L[n] EXCEPT !.res.pmid = 0]
  <2>1. u.pid = L[n].pid
    BY DEF TaskTable, Task
  <2>2. RemovePreferredPmId(L, id)[n] \in {L[n], u}
    BY DEF RemovePreferredPmId
  <2> QED
    BY <2>1, <2>2
<1>4. PidsKept(L, ClearList)
  BY <1>0 DEF PidsKept, ClearList
<1> QED
  BY <1>1, <1>2, <1>3, <1>4

\* A step that brings no new pid into the table keeps its pids fresh and
\* different.
LEMMA PidsKeptStep ==
  ASSUME TypeInv, TypeInv', PidInv, PidsKept(tasks, tasks'), NextPID <= NextPID',
         used'.restarts = used.restarts
  PROVE  PidsFresh' /\ UniquePidsUntilRestart'
<1>1. \A n \in Slots : tasks[n].pid \in Nat /\ tasks'[n].pid \in Nat
  BY DEF TypeInv, TypeOK, TableTypes, TaskTable, Task
<1>2. NextPID \in Nat \ {0} /\ NextPID' \in Nat
  BY DEF TypeInv, TypeOK, TableTypes
<1>3. PidsFresh'
  BY <1>1, <1>2 DEF PidInv, PidsFresh, PidsKept, PID_INVALID
<1>4. UniquePidsUntilRestart'
  BY DEF PidInv, UniquePidsUntilRestart, UniquePids, PidsKept
<1> QED
  BY <1>3, <1>4

\* The same for a step that leaves the table and the counter alone.
LEMMA PidsSame ==
  ASSUME TypeInv, TypeInv', PidInv, UNCHANGED <<tasks, NextPID>>,
         used'.restarts = used.restarts
  PROVE  PidsFresh' /\ UniquePidsUntilRestart'
<1>1. PidsKept(tasks, tasks')
  BY DEF PidsKept
<1>2. NextPID <= NextPID'
  BY DEF TypeInv, TypeOK, TableTypes
<1> QED
  BY <1>1, <1>2, PidsKeptStep

\* ReportedPid and NoReports survive a step that leaves the Listener alone and
\* sends no report.
LEMMA ReportsSame ==
  ASSUME TypeInv, TypeInv', PidInv, UNCHANGED <<lsn, notify>>, NextPID <= NextPID',
         used'.restarts = used.restarts,
         \A m \in net' : m \in net \/ m.type # "Running"
  PROVE  ReportedPid' /\ NoReports'
<1>1. lsn.pid \in Nat /\ NextPID \in Nat /\ NextPID' \in Nat
  BY DEF TypeInv, TypeOK, TableTypes, ThreadTypes, LsnThread
<1> QED
  BY <1>1 DEF PidInv, ReportedPid, NoReports

\* A step without effect on pids, reports and the Listener.
LEMMA PidInvSame ==
  ASSUME TypeInv, TypeInv', PidInv,
         UNCHANGED <<tasks, NextPID, lsn, notify>>, used'.restarts = used.restarts,
         \A m \in net' : m \in net \/ m.type # "Running"
  PROVE  PidInv'
<1>1. NextPID <= NextPID'
  BY DEF TypeInv, TypeOK, TableTypes
<1> QED
  BY <1>1, PidsSame, ReportsSame DEF PidInv

\* A step that changes the table, bringing in no pid, and nothing else.
LEMMA PidInvKept ==
  ASSUME TypeInv, TypeInv', PidInv, PidsKept(tasks, tasks'),
         UNCHANGED <<NextPID, lsn, notify, net>>, used'.restarts = used.restarts
  PROVE  PidInv'
<1>1. NextPID <= NextPID'
  BY DEF TypeInv, TypeOK, TableTypes
<1> QED
  BY <1>1, PidsKeptStep, ReportsSame DEF PidInv

-----------------------------------------------------------------------------
(* The initial state and the steps.                                        *)

\* The pid invariant holds initially.
LEMMA PidInit == Init => PidInv
<1> SUFFICES ASSUME Init PROVE PidInv
  OBVIOUS
<1>1. \A n \in Slots : tasks[n].pid = PID_INVALID
  BY DEF Init, InitialStartUp, PendingTask, InitTask
<1>2. PidsFresh /\ UniquePidsUntilRestart
  BY <1>1 DEF Init, PidsFresh, UniquePidsUntilRestart, UniquePids, PID_INVALID
<1>3. ReportedPid /\ NoReports
  BY IdleTypes DEF Init, ReportedPid, NoReports
<1> QED
  BY <1>2, <1>3 DEF PidInv

\* The Scheduler gives out a fresh pid (SchedAssign) and otherwise leaves pids
\* alone.
LEMMA SchedulerPids == TypeInv /\ TypeInv' /\ PidInv /\ Scheduler => PidInv'
<1> SUFFICES ASSUME TypeInv, TypeInv', PidInv, Scheduler PROVE PidInv'
  OBVIOUS
<1> USE DEF tmVars, envVars, schedVars
<1>1. CASE SchedPoll \/ SchedFind \/ SchedEligible \/ SchedWake \/ SchedRelock
           \/ SchedThrow
  BY <1>1, PidInvSame DEF SchedPoll, SchedFind, SchedEligible, SchedWake,
     SchedRelock, SchedThrow
<1>2. CASE SchedPreferred
  <2>1. PidsKept(tasks, tasks')
    <3>1. tasks' = tasks \/ tasks' = RemovePreferredPmId(tasks, sched.task.res.pmid)
      BY <1>2 DEF SchedPreferred, PreferredFound, PreferredMissing
    <3>2. PidsKept(tasks, RemovePreferredPmId(tasks, sched.task.res.pmid))
      BY KeepPids DEF TypeInv, TypeOK, TableTypes
    <3>3. PidsKept(tasks, tasks)
      BY DEF PidsKept
    <3> QED
      BY <3>1, <3>2, <3>3
  <2> QED
    BY <1>2, <2>1, PidInvKept DEF SchedPreferred
<1>3. CASE SchedAssign
  <2>1. sched.idx \in Slots
    BY DEF TypeInv, TypeOK, ThreadTypes, SchedThread
  <2>2. \A n \in Slots : tasks'[n].pid = IF n = sched.idx THEN NextPID
                                                          ELSE tasks[n].pid
    BY <1>3, <2>1 DEF SchedAssign, TypeInv, TypeOK, TableTypes, TaskTable, Task
  <2>3. NextPID' = NextPID + 1 /\ NextPID \in Nat \ {0}
    BY <1>3 DEF SchedAssign, AfterNextPID, TypeInv, TypeOK, TableTypes
  <2>4. \A n \in Slots : tasks[n].pid \in Nat /\ tasks[n].pid < NextPID
    BY DEF PidInv, PidsFresh, TypeInv, TypeOK, TableTypes, TaskTable, Task
  <2>5. PidsFresh'
    BY <2>2, <2>3, <2>4 DEF PidsFresh
  <2>6. UniquePidsUntilRestart'
    BY <1>3, <2>2, <2>3, <2>4
       DEF SchedAssign, PidInv, UniquePidsUntilRestart, UniquePids, PID_INVALID
  <2>7. ReportedPid' /\ NoReports'
    BY <1>3, <2>3, ReportsSame DEF SchedAssign, Send, Msg
  <2> QED
    BY <2>5, <2>6, <2>7 DEF PidInv
<1>4. CASE SchedCommit
  <2>1. PidsKept(tasks, tasks')
    BY <1>4 DEF SchedCommit, PidsKept, TypeInv, TypeOK, TableTypes, ThreadTypes,
       SchedThread, TaskTable, Task
  <2> QED
    BY <1>4, <2>1, PidInvKept DEF SchedCommit
<1> QED
  BY <1>1, <1>2, <1>3, <1>4 DEF Scheduler

\* The Listener adds a pid a PM reported only after the counter has passed it.
LEMMA ListenerPids == TypeInv /\ TypeInv' /\ PidInv /\ Listener => PidInv'
<1> SUFFICES ASSUME TypeInv, TypeInv', PidInv, Listener PROVE PidInv'
  OBVIOUS
<1> USE DEF tmVars, envVars, schedVars, LsnUnchanged, SchedUnchanged, PmsUnchanged
<1>1. CASE DMReady \/ DropMessage
  BY <1>1, PidInvSame DEF DMReady, DropMessage, Receive
<1>2. CASE RegPMHandler \/ RegPMSetTasks \/ TaskFinishedHandler
           \/ PMRunningTaskCount
  <2>1. PidsFresh' /\ UniquePidsUntilRestart'
    BY <1>2, PidsSame DEF RegPMHandler, RegPMSetTasks, TaskFinishedHandler,
       PMRunningTaskCount
  <2>2. lsn' = lsn \/ lsn'.pc \notin {"addTo", "count"}
    <3>1. \A p : [IdleLsn EXCEPT !.pc = "setTasks", !.pm = p].pc = "setTasks"
      BY DEF IdleLsn
    <3>2. RegPMHandler => lsn' = lsn \/ lsn'.pc = "setTasks"
      BY <3>1 DEF RegPMHandler
    <3>3. RegPMSetTasks \/ PMRunningTaskCount => lsn'.pc = "idle"
      BY DEF RegPMSetTasks, PMRunningTaskCount, IdleLsn
    <3>4. TaskFinishedHandler => lsn'.pc = "finish"
      BY DEF TaskFinishedHandler, IdleLsn
    <3> QED
      BY <1>2, <3>2, <3>3, <3>4
  <2>3. UNCHANGED <<notify, used, NextPID>> /\ net' \subseteq net
    BY <1>2 DEF RegPMHandler, RegPMSetTasks, TaskFinishedHandler,
       PMRunningTaskCount, Receive
  <2>4. ReportedPid' /\ NoReports'
    BY <2>2, <2>3 DEF PidInv, ReportedPid, NoReports
  <2> QED
    BY <2>1, <2>4 DEF PidInv
<1>3. CASE PostTaskHandler
  <2>1. PICK d \in Posts : tasks' = AddTo(tasks, PendingTask(d))
    BY <1>3 DEF PostTaskHandler
  <2>2. PendingTask(d) \in Task /\ PendingTask(d).pid = PID_INVALID
    <3>1. PendingTask(d) \in Task
      BY PendingTaskType, PostsAssumption
    <3>2. PendingTask(d).pid = PID_INVALID
      BY DEF PendingTask, InitTask
    <3> QED
      BY <3>1, <3>2
  <2>3. PidsKept(tasks, tasks')
    BY <2>1, <2>2, AddToPids DEF TypeInv, TypeOK, TableTypes
  <2>4. used'.restarts = used.restarts
    BY <1>3 DEF PostTaskHandler, Use, TypeInv, TypeOK, EnvTypes
  <2> QED
    BY <1>3, <2>3, <2>4, PidInvKept DEF PostTaskHandler
<1>4. CASE TaskFinishedList
  <2>1. PidsKept(tasks, tasks')
    <3>1. PidsKept(tasks, TaskFinished(tasks, lsn.pid))
      BY KeepPids DEF TypeInv, TypeOK, TableTypes, ThreadTypes, LsnThread
    <3> QED
      BY <1>4, <3>1 DEF TaskFinishedList
  <2>2. NextPID <= NextPID'
    BY <1>4 DEF TaskFinishedList, TypeInv, TypeOK, TableTypes
  <2>3. PidsFresh' /\ UniquePidsUntilRestart'
    BY <1>4, <2>1, <2>2, PidsKeptStep DEF TaskFinishedList
  <2>4. ReportedPid' /\ NoReports'
    BY <1>4 DEF TaskFinishedList, IdleLsn, PidInv, ReportedPid, NoReports
  <2> QED
    BY <2>3, <2>4 DEF PidInv
<1>5. CASE PMRunningTaskHandler
  <2>1. PICK m \in net :
          /\ m.type = "Running"
          /\ Receive(m)
          /\ NextPID' = RaisedPID(m.pid)
          /\ lsn' = [pc |-> "addTo", pm |-> m.pm, pid |-> m.pid, name |-> m.name]
    BY <1>5 DEF PMRunningTaskHandler
  <2>2. m.pid \in Nat /\ NextPID \in Nat
    BY DEF TypeInv, TypeOK, TableTypes, EnvTypes, Message
  <2>3. NextPID <= NextPID' /\ m.pid < NextPID'
    BY <2>1, <2>2 DEF RaisedPID
  <2>4. PidsKept(tasks, tasks')
    BY <1>5 DEF PMRunningTaskHandler, PidsKept
  <2>5. PidsFresh' /\ UniquePidsUntilRestart'
    BY <1>5, <2>3, <2>4, PidsKeptStep DEF PMRunningTaskHandler
  <2>6. ReportedPid'
    BY <2>1, <2>3 DEF ReportedPid
  <2>7. NoReports'
    BY <1>5, <2>1 DEF PMRunningTaskHandler, PidInv, NoReports
  <2> QED
    BY <2>5, <2>6, <2>7 DEF PidInv
<1>6. CASE PMRunningTaskAdd
  <2> DEFINE t == [InitTask EXCEPT !.state = "SCHEDULED", !.pid = lsn.pid,
                                   !.name = lsn.name]
  <2>1. t \in Task /\ [t EXCEPT !.pm = NoPM].pid = lsn.pid
    BY InitTaskType DEF TypeInv, TypeOK, ThreadTypes, LsnThread, Task
  <2>2. tasks' = AddTo(tasks, t)
    BY <1>6 DEF PMRunningTaskAdd
  <2>3. lsn.pid < NextPID
    BY <1>6 DEF PMRunningTaskAdd, PidInv, ReportedPid
  <2>4. \A n \in Slots : tasks'[n] = tasks[n] \/ tasks'[n] = [t EXCEPT !.pm = NoPM]
    <3> HIDE DEF t
    <3> QED
      BY <2>1, <2>2, AddToEffect DEF TypeInv, TypeOK, TableTypes
  <2>5. PidsFresh'
    <3> HIDE DEF t
    <3> QED
      BY <1>6, <2>1, <2>3, <2>4 DEF PMRunningTaskAdd, PidInv, PidsFresh
  <2>6. used.restarts # 0
    BY <1>6 DEF PMRunningTaskAdd, PidInv, NoReports
  <2>7. UniquePidsUntilRestart' /\ NoReports'
    BY <1>6, <2>6 DEF PMRunningTaskAdd, UniquePidsUntilRestart, NoReports
  <2>8. ReportedPid'
    BY <1>6 DEF PMRunningTaskAdd, ReportedPid, TypeInv, TypeOK, ThreadTypes,
       LsnThread
  <2> QED
    BY <2>5, <2>7, <2>8 DEF PidInv
<1> QED
  BY <1>1, <1>2, <1>3, <1>4, <1>5, <1>6 DEF Listener

\* A mode-change command brings no pid into the table.
LEMMA ChangeModePids ==
  ASSUME TypeInv, TypeInv', PidInv, NEW c \in Cmds, ChangeMode(c)
  PROVE  PidInv'
<1> USE DEF tmVars, envVars, schedVars, CmdUnchanged, PmsUnchanged
<1>1. CASE CmdReceive(c)
  <2>1. used'.restarts = used.restarts
    BY <1>1 DEF CmdReceive, Use, TypeInv, TypeOK, EnvTypes
  <2> QED
    BY <1>1, <2>1, PidInvSame DEF CmdReceive
<1>2. CASE CmdReadMode(c) \/ CmdSetMode(c) \/ CmdVerifyDM(c)
           \/ CmdClearCounts(c) \/ CmdRestore(c)
  BY <1>2, PidInvSame DEF CmdReadMode, CmdSetMode, CmdVerifyDM, CmdClearCounts,
     CmdRestore
<1>3. CASE CmdPublish(c)
  <2>1. \A m \in net' : m \in net \/ m.type # "Running"
    BY <1>3 DEF CmdPublish, Msg
  <2> QED
    BY <1>3, <2>1, PidInvSame DEF CmdPublish
<1>4. CASE CmdClear(c)
  <2>1. PidsKept(tasks, tasks')
    BY <1>4 DEF CmdClear, PidsKept, ClearList, InitTask
  <2> QED
    BY <1>4, <2>1, PidInvKept DEF CmdClear
<1>5. CASE CmdStartUp(c)
  <2> DEFINE d == Config[cmd[c].next]
  <2>1. d \in TaskDef
    BY <1>5, ConfigAssumption
       DEF CmdStartUp, CmdThread, TypeInv, TypeOK, ThreadTypes
  <2> HIDE DEF d
  <2>2. PendingTask(d) \in Task
    BY <2>1, PendingTaskType
  <2>3. PendingTask(d).pid = PID_INVALID
    BY DEF PendingTask, InitTask
  <2>4. tasks' = AddTo(tasks, PendingTask(d))
    BY <1>5 DEF CmdStartUp, d
  <2>5. PidsKept(tasks, tasks')
    BY <2>2, <2>3, <2>4, AddToPids DEF TypeInv, TypeOK, TableTypes
  <2> QED
    BY <1>5, <2>5, PidInvKept DEF CmdStartUp
<1> QED
  BY <1>1, <1>2, <1>3, <1>4, <1>5 DEF ChangeMode

\* Nor do the other commands and the heartbeat thread.
LEMMA OtherThreadsPids ==
  TypeInv /\ TypeInv' /\ PidInv
    /\ (StartTaskCommand \/ PerformKill \/ PMHeartbeat \/ TimerExpires)
    => PidInv'
<1> SUFFICES ASSUME TypeInv, TypeInv', PidInv,
                    StartTaskCommand \/ PerformKill \/ PMHeartbeat \/ TimerExpires
             PROVE  PidInv'
  OBVIOUS
<1> USE DEF tmVars, envVars, LsnUnchanged, SchedUnchanged, PmsUnchanged
<1>1. CASE StartTaskCommand
  <2> DEFINE t(d) == [PendingTask(d) EXCEPT !.res.pmid = 0, !.timeout = 0]
  <2>1. PICK d \in Posts : tasks' = AddTo(tasks, t(d))
    BY <1>1 DEF StartTaskCommand
  <2>2. t(d) \in Task
    BY StartTaskType, PostsAssumption
  <2>3. t(d).pid = PID_INVALID
    BY DEF PendingTask, InitTask
  <2> HIDE DEF t
  <2>4. PidsKept(tasks, tasks')
    BY <2>1, <2>2, <2>3, AddToPids DEF TypeInv, TypeOK, TableTypes
  <2>5. used'.restarts = used.restarts
    BY <1>1 DEF StartTaskCommand, Use, TypeInv, TypeOK, EnvTypes
  <2> QED
    BY <1>1, <2>4, <2>5, PidInvKept DEF StartTaskCommand
<1>2. CASE PerformKill
  <2>1. used'.restarts = used.restarts
    BY <1>2 DEF PerformKill, Use, TypeInv, TypeOK, EnvTypes
  <2>2. \A m \in net' : m \in net \/ m.type # "Running"
    BY <1>2 DEF PerformKill, Msg
  <2> QED
    BY <1>2, <2>1, <2>2, PidInvSame DEF PerformKill
<1>3. CASE RemoveAnyFailed
  <2>1. used'.restarts = used.restarts
    BY <1>3 DEF RemoveAnyFailed, Use, TypeInv, TypeOK, EnvTypes
  <2> QED
    BY <1>3, <2>1, PidInvSame DEF RemoveAnyFailed
<1>4. CASE HeartbeatPMFailure
  <2>1. PidsKept(tasks, PMFailure(tasks, hb))
    BY KeepPids DEF TypeInv, TypeOK, TableTypes
  <2> QED
    BY <1>4, <2>1, PidInvKept DEF HeartbeatPMFailure
<1>5. CASE TimerExpires
  BY <1>5, PidInvSame DEF TimerExpires
<1> QED
  BY <1>1, <1>2, <1>3, <1>4, <1>5 DEF PMHeartbeat

\* A PM reports its tasks only once the DM has told it of a new TM.
LEMMA ProcessManagerPids ==
  ASSUME TypeInv, TypeInv', PidInv, NEW p \in PM, ProcessManager(p)
  PROVE  PidInv'
<1> USE DEF TMUnchanged, schedVars, tmVars
<1>0. UNCHANGED <<tasks, NextPID, lsn>>
  BY DEF ProcessManager, PMStart, PMCrash, PMTask, PMTaskFinishes, PMKill,
     PMReset, PMRegInfo, PMLosesTask
<1>1. CASE PMStart(p)
  BY <1>0, <1>1, PidInvSame DEF PMStart, Msg
<1>2. CASE PMCrash(p) \/ PMLosesTask(p)
  <2>1. used'.restarts = used.restarts
    BY <1>2 DEF PMCrash, PMLosesTask, Use, TypeInv, TypeOK, EnvTypes
  <2>2. NoReports' /\ ReportedPid'
    BY <1>0, <1>2, <2>1 DEF PMCrash, PMLosesTask, PidInv, NoReports, ReportedPid
  <2> QED
    BY <1>0, <2>1, <2>2, PidsSame DEF PidInv
<1>3. CASE PMTask(p) \/ PMReset(p)
  BY <1>0, <1>3, PidInvSame DEF PMTask, PMReset, Receive
<1>4. CASE PMTaskFinishes(p) \/ PMKill(p)
  <2>1. \A m \in net' : m \in net \/ m.type # "Running"
    BY <1>4 DEF PMTaskFinishes, PMKill, Send, Finished, Msg
  <2> QED
    BY <1>0, <1>4, <2>1, PidInvSame DEF PMTaskFinishes, PMKill
<1>5. CASE PMRegInfo(p)
  <2>1. used.restarts # 0
    BY <1>5 DEF PMRegInfo, PidInv, NoReports
  <2>2. NoReports' /\ ReportedPid'
    BY <1>0, <1>5, <2>1 DEF PMRegInfo, PidInv, NoReports, ReportedPid
  <2> QED
    BY <1>0, <1>5, <2>2, PidsSame DEF PMRegInfo, PidInv
<1> QED
  BY <1>1, <1>2, <1>3, <1>4, <1>5 DEF ProcessManager

\* A restart begins with an empty table and ends the promise of unique pids.
LEMMA TMRestartPids == TypeInv /\ TMRestart => PidInv'
<1> SUFFICES ASSUME TypeInv, TMRestart PROVE PidInv'
  OBVIOUS
<1>1. used'.restarts # 0
  BY DEF TMRestart, Use, TypeInv, TypeOK, EnvTypes
<1>2. PidsFresh'
  BY DEF TMRestart, PidsFresh, ClearList, InitTask, PID_INVALID
<1>3. ReportedPid'
  BY DEF TMRestart, ReportedPid, IdleLsn
<1> QED
  BY <1>1, <1>2, <1>3 DEF PidInv, NoReports, UniquePidsUntilRestart

\* The pid invariant is inductive, given the types.
LEMMA PidStep == TypeInv /\ TypeInv' /\ PidInv /\ [Next]_vars => PidInv'
<1> SUFFICES ASSUME TypeInv, TypeInv', PidInv, [Next]_vars PROVE PidInv'
  OBVIOUS
<1>1. CASE UNCHANGED vars
  BY <1>1, PidInvSame DEF vars, schedVars, tmVars, envVars
<1>2. CASE \E p \in PM : ProcessManager(p)
  BY <1>2, ProcessManagerPids
<1>3. CASE \E c \in Cmds : ChangeMode(c)
  BY <1>3, ChangeModePids
<1> QED
  BY <1>1, <1>2, <1>3, SchedulerPids, ListenerPids, OtherThreadsPids,
     TMRestartPids DEF Next, CommandHandler

\* The pid invariant holds always.
THEOREM PidInvariant == Spec => []PidInv
  BY PidInit, PidStep, TypeInvariant, PTL DEF Spec

\* The counter is always ahead of every pid in the task table, restarts and the
\* reports of running tasks that follow them included: what the Scheduler gives
\* out next is in use by no task of the table.
THEOREM FreshPids == Spec => []PidsFresh
<1>1. PidInv => PidsFresh
  BY DEF PidInv
<1> QED
  BY <1>1, PidInvariant, PTL

\* Until the TM is restarted, TaskFinished and PerformKill, which look a task up
\* by pid, find at most one.
THEOREM UniquePidsBeforeRestart == Spec => []UniquePidsUntilRestart
<1>1. PidInv => UniquePidsUntilRestart
  BY DEF PidInv
<1> QED
  BY <1>1, PidInvariant, PTL

-----------------------------------------------------------------------------
(* The mode.                                                               *)

\* One thread at a time handles a mode change.
OneCommand == \A c, d \in Cmds : c = d

InReset == {"set", "publish", "verify", "clear", "counts", "startup"}

\* The mode a command will put back is not a reset, and between commands the
\* mode is none either.
ModeInv ==
  /\ \A c \in Cmds :
       /\ cmd[c].pc \in InReset => ~IsReset(cmd[c].old)
       /\ cmd[c].pc \in {"idle", "read", "set"} => ~IsReset(g_ucMode)
       /\ cmd[c].pc = "publish" => g_ucMode = cmd[c].new
  /\ Cmds = {} => ~IsReset(g_ucMode)

\* The mode the TM starts in is no reset.
LEMMA NormalMode == ~IsReset(NORMAL_MODE)
BY DEF IsReset, NORMAL_MODE, SOFT_RESET, HARD_RESET

\* The mode invariant holds initially.
LEMMA ModeInit == Init => ModeInv
BY NormalMode DEF Init, ModeInv, IdleCmd, InReset

\* It holds on when no command thread and no mode changes.
LEMMA ModeSame ==
  ASSUME ModeInv, UNCHANGED <<cmd, g_ucMode>>
  PROVE  ModeInv'
BY DEF ModeInv

\* The only command thread goes from one state to the next.
LEMMA ModeMoves ==
  ASSUME TypeInv, OneCommand, NEW c \in Cmds, NEW e, cmd' = [cmd EXCEPT ![c] = e],
         e.pc \in InReset => ~IsReset(e.old),
         e.pc \in {"idle", "read", "set"} => ~IsReset(g_ucMode'),
         e.pc = "publish" => g_ucMode' = e.new
  PROVE  ModeInv'
<1>1. \A d \in Cmds : d = c
  BY DEF OneCommand
<1>2. cmd'[c] = e
  BY DEF TypeInv, TypeOK, ThreadTypes
<1> QED
  BY <1>1, <1>2 DEF ModeInv

\* Every step of the command thread keeps it.
LEMMA ChangeModeMode ==
  ASSUME TypeInv, OneCommand, ModeInv, NEW c \in Cmds, ChangeMode(c)
  PROVE  ModeInv'
<1> DEFINE k == cmd[c]
<1>1. k \in CmdThread /\ cmd \in [Cmds -> CmdThread]
  BY DEF TypeInv, TypeOK, ThreadTypes
<1>2. /\ k.pc \in InReset => ~IsReset(k.old)
      /\ k.pc \in {"idle", "read", "set"} => ~IsReset(g_ucMode)
      /\ k.pc = "publish" => g_ucMode = k.new
  BY DEF ModeInv
<1>3. CASE CmdReceive(c)
  <2>1. PICK new \in Modes :
          cmd' = [cmd EXCEPT ![c] = [IdleCmd EXCEPT !.pc = "read", !.new = new]]
    BY <1>3 DEF CmdReceive
  <2> DEFINE e == [IdleCmd EXCEPT !.pc = "read", !.new = new]
  <2>2. e.pc = "read" /\ g_ucMode' = g_ucMode /\ k.pc = "idle"
    BY <1>3 DEF CmdReceive, IdleCmd
  <2> QED
    BY <1>2, <2>1, <2>2, ModeMoves DEF InReset
<1>4. CASE CmdReadMode(c)
  <2>1. g_ucMode' = g_ucMode /\ k.pc = "read"
    BY <1>4 DEF CmdReadMode
  <2>2. CASE k.new = g_ucMode
    <3>1. cmd' = [cmd EXCEPT ![c] = IdleCmd] /\ IdleCmd.pc = "idle"
      BY <1>4, <2>2 DEF CmdReadMode, IdleCmd
    <3> QED
      BY <1>2, <2>1, <3>1, ModeMoves DEF InReset
  <2>3. CASE k.new # g_ucMode
    <3> DEFINE e == [k EXCEPT !.pc = "set", !.old = g_ucMode]
    <3>1. cmd' = [cmd EXCEPT ![c] = e]
      BY <1>1, <1>4, <2>3 DEF CmdReadMode
    <3>2. e.pc = "set" /\ e.old = g_ucMode
      BY <1>1 DEF CmdThread
    <3> HIDE DEF e
    <3> QED
      BY <1>2, <2>1, <3>1, <3>2, ModeMoves DEF InReset
  <2> QED
    BY <2>2, <2>3
<1>5. ASSUME NEW x, cmd' = [cmd EXCEPT ![c].pc = x],
             x \in InReset, k.pc \in InReset,
             x # "set", x = "publish" => g_ucMode' = k.new
      PROVE  ModeInv'
  <2> DEFINE e == [k EXCEPT !.pc = x]
  <2>1. cmd' = [cmd EXCEPT ![c] = e]
    BY <1>1, <1>5
  <2>2. e.pc = x /\ e.old = k.old /\ e.new = k.new
    BY <1>1 DEF CmdThread
  <2>3. x \notin {"idle", "read", "set"}
    BY <1>5 DEF InReset
  <2> HIDE DEF e
  <2> QED
    BY <1>2, <1>5, <2>1, <2>2, <2>3, ModeMoves
<1>6. CASE CmdSetMode(c)
  BY <1>5, <1>6 DEF CmdSetMode, CmdStep, InReset
<1>7. CASE CmdPublish(c)
  <2>1. g_ucMode' = g_ucMode /\ k.pc = "publish"
    BY <1>7 DEF CmdPublish
  <2>2. CASE k.new = HARD_RESET
    <3>1. cmd' = [cmd EXCEPT ![c].pc = "verify"]
      BY <1>1, <1>7, <2>2 DEF CmdPublish, HARD_RESET, SOFT_RESET
    <3> QED
      BY <1>5, <2>1, <3>1 DEF InReset
  <2>3. CASE k.new = SOFT_RESET
    <3>1. k.new # HARD_RESET
      BY <2>3 DEF HARD_RESET, SOFT_RESET
    <3>2. cmd' = [cmd EXCEPT ![c].pc = "clear"]
      BY <1>1, <1>7, <2>3, <3>1 DEF CmdPublish
    <3> QED
      BY <1>5, <2>1, <3>2 DEF InReset
  <2>4. CASE k.new # HARD_RESET /\ k.new # SOFT_RESET
    <3>1. cmd' = [cmd EXCEPT ![c] = IdleCmd] /\ IdleCmd.pc = "idle"
      BY <1>1, <1>7, <2>4 DEF CmdPublish, IdleCmd
    <3>2. ~IsReset(g_ucMode')
      BY <1>2, <2>1, <2>4 DEF IsReset
    <3> QED
      BY <3>1, <3>2, ModeMoves DEF InReset
  <2> QED
    BY <2>2, <2>3, <2>4
<1>8. CASE CmdVerifyDM(c)
  BY <1>5, <1>8 DEF CmdVerifyDM, CmdStep, InReset
<1>9. CASE CmdClear(c)
  BY <1>5, <1>9 DEF CmdClear, CmdStep, InReset
<1>10. CASE CmdClearCounts(c)
  BY <1>5, <1>10 DEF CmdClearCounts, CmdStep, InReset
<1>11. CASE CmdStartUp(c)
  <2> DEFINE e == [k EXCEPT !.next = @ + 1]
  <2>1. cmd' = [cmd EXCEPT ![c] = e] /\ k.pc = "startup"
    BY <1>1, <1>11 DEF CmdStartUp
  <2>2. e.pc = "startup" /\ e.old = k.old
    BY <1>1, <2>1 DEF CmdThread
  <2> HIDE DEF e
  <2> QED
    BY <1>2, <2>1, <2>2, ModeMoves DEF InReset
<1>12. CASE CmdRestore(c)
  <2>1. cmd' = [cmd EXCEPT ![c] = IdleCmd] /\ g_ucMode' = k.old /\ k.pc = "startup"
        /\ IdleCmd.pc = "idle"
    BY <1>12 DEF CmdRestore, IdleCmd
  <2>2. ~IsReset(k.old)
    BY <1>2, <2>1 DEF InReset
  <2> QED
    BY <2>1, <2>2, ModeMoves DEF InReset
<1> QED
  BY <1>3, <1>4, <1>6, <1>7, <1>8, <1>9, <1>10, <1>11, <1>12 DEF ChangeMode

\* Only the commands change the mode.
LEMMA ModeUntouched ==
  ASSUME Next, ~TMRestart, \A c \in Cmds : ~ChangeMode(c)
  PROVE  UNCHANGED <<cmd, g_ucMode>>
<1> USE DEF tmVars
<1>1. CASE Scheduler
  BY <1>1 DEF Scheduler, SchedPoll, SchedFind, SchedPreferred, SchedEligible, SchedWake,
              SchedRelock, SchedAssign, SchedThrow, SchedCommit
<1>2. CASE TimerExpires
  BY <1>2 DEF TimerExpires
<1>3. CASE Listener
  BY <1>3 DEF Listener, DMReady, DropMessage, RegPMHandler, RegPMSetTasks,
              PostTaskHandler, TaskFinishedHandler, TaskFinishedList,
              PMRunningTaskHandler, PMRunningTaskAdd, PMRunningTaskCount, LsnUnchanged
<1>4. CASE StartTaskCommand \/ PerformKill
  BY <1>4 DEF StartTaskCommand, PerformKill, LsnUnchanged
<1>5. CASE PMHeartbeat
  BY <1>5 DEF PMHeartbeat, RemoveAnyFailed, HeartbeatPMFailure
<1>6. ASSUME NEW p \in PM, ProcessManager(p)
      PROVE  UNCHANGED <<cmd, g_ucMode>>
  BY <1>6 DEF ProcessManager, PMStart, PMCrash, PMTask, PMTaskFinishes, PMLosesTask,
              PMKill, PMReset, PMRegInfo, TMUnchanged
<1> QED
  BY <1>1, <1>2, <1>3, <1>4, <1>5, <1>6 DEF Next, CommandHandler

\* So every step keeps the mode invariant.
LEMMA ModeStep ==
  ASSUME OneCommand, TypeInv, ModeInv, [Next]_vars
  PROVE  ModeInv'
<1>1. CASE TMRestart
  <2>1. cmd' = [c \in Cmds |-> IdleCmd] /\ g_ucMode' = NORMAL_MODE
    BY <1>1 DEF TMRestart
  <2> QED
    BY <2>1, NormalMode DEF ModeInv, IdleCmd, InReset
<1>2. CASE \E c \in Cmds : ChangeMode(c)
  BY <1>2, ChangeModeMode
<1>3. CASE Next /\ ~TMRestart /\ \A c \in Cmds : ~ChangeMode(c)
  BY <1>3, ModeUntouched, ModeSame
<1>4. CASE UNCHANGED vars
  BY <1>4, ModeSame DEF vars, tmVars
<1> QED
  BY <1>1, <1>2, <1>3, <1>4

\* With one thread that changes the mode, a reset mode never outlives the
\* command that set it ("Reset the mode back to the mode before the reset",
\* tm.cpp): the mode it puts back is one it read while no reset was going on,
\* however many commands, restarts and failures there are.
THEOREM ModeComesBack ==
  ASSUME OneCommand
  PROVE  Spec => []ModeRestored
<1>1. TypeInv /\ ModeInv /\ [Next]_vars => ModeInv'
  BY ModeStep
<1>2. ModeInv => ModeRestored
  BY DEF ModeInv, ModeRestored
<1> QED
  BY ModeInit, TypeInvariant, <1>1, <1>2, PTL DEF Spec

-----------------------------------------------------------------------------
(* No task is lost while nothing crashes or is reset (NoLostTask).  A task *)
(* on a PM can be accounted for as long as that PM is up and the Listener  *)
(* has found the DM: until then it drops what the PMs report.              *)

\* No crash, no task lost by a PM, no mode-change command, no restart.
Undisturbed ==
  /\ used.crashes = 0 /\ used.losses = 0 /\ used.cmds = 0 /\ used.restarts = 0

\* A SCHEDULED task has a pid and a PM that is up and accounts for it.
TracedTasks ==
  \A n \in Slots : tasks[n].state = "SCHEDULED" =>
    /\ tasks[n].pid # PID_INVALID
    /\ tasks[n].pm \in PM /\ pmUp[tasks[n].pm]
    /\ Accounted(tasks[n].pm, tasks[n].pid)

\* So has, at the commit, the one the Scheduler is about to make SCHEDULED;
\* nobody else makes it so before, not even while the Scheduler sleeps.
TracedChoice ==
  /\ sched.pc # "idle" => tasks[sched.idx].state # "SCHEDULED"
  /\ sched.pc \in {"sleep", "relock", "assign", "commit"} => pmUp[sched.pm]
  /\ sched.pc = "commit" => /\ tasks[sched.idx].pid # PID_INVALID
                            /\ Accounted(sched.pm, tasks[sched.idx].pid)

\* A PM that is registered, or whose registration is on its way, is up, and a
\* PM comes up only once the DM is found.
LivePMs ==
  /\ \A i \in Entries : pms[i].in_use => pmUp[pms[i].id]
  /\ \A m \in net : m.type = "RegPM" => pmUp[m.pm]
  /\ \A p \in PM : pmUp[p] => dm_found

\* Nobody is told of a reset.
NoResets == /\ \A c \in Cmds : cmd[c].pc = "idle"
            /\ \A m \in net : m.type # "Mode"

Trace == TracedTasks /\ TracedChoice /\ LivePMs /\ NoResets

LostInv == Undisturbed => Trace

-----------------------------------------------------------------------------
(* What the operations on the task table do to SCHEDULED tasks.            *)

\* A SCHEDULED task of M was SCHEDULED in L, with the same pid on the same PM.
NoneScheduled(L, M) ==
  \A n \in Slots : M[n].state = "SCHEDULED" =>
    L[n].state = "SCHEDULED" /\ M[n].pm = L[n].pm /\ M[n].pid = L[n].pid

\* A new PENDING task leaves the SCHEDULED ones alone.
LEMMA AddToSchedules ==
  ASSUME NEW L \in TaskTable, NEW t \in Task, t.state = "PENDING"
  PROVE  NoneScheduled(L, AddTo(L, t))
<1> DEFINE u == [t EXCEPT !.pm = NoPM]
<1>1. u.state = "PENDING"
  BY DEF Task
<1>2. \A n \in Slots : AddTo(L, t)[n] = L[n] \/ AddTo(L, t)[n] = u
  BY AddToEffect
<1> HIDE DEF u
<1> QED
  BY <1>1, <1>2 DEF NoneScheduled

\* So do PMFailure and RemovePreferredPmId.
LEMMA KeepSchedules ==
  ASSUME NEW L \in TaskTable, NEW p, NEW id
  PROVE  /\ NoneScheduled(L, PMFailure(L, p))
         /\ NoneScheduled(L, RemovePreferredPmId(L, id))
         /\ NoneScheduled(L, L)
<1>1. NoneScheduled(L, PMFailure(L, p))
  <2> SUFFICES ASSUME NEW n \in Slots, PMFailure(L, p)[n].state = "SCHEDULED"
               PROVE  PMFailure(L, p)[n] = L[n]
    BY DEF NoneScheduled
  <2> DEFINE u == [L[n] EXCEPT !.state = "PENDING"]
  <2>1. u.state = "PENDING"
    BY DEF TaskTable, Task
  <2>2. PMFailure(L, p)[n] \in {L[n], u}
    BY DEF PMFailure
  <2> HIDE DEF u
  <2> QED
    BY <2>1, <2>2
<1>2. NoneScheduled(L, RemovePreferredPmId(L, id))
  <2> SUFFICES ASSUME NEW n \in Slots
               PROVE  LET r == RemovePreferredPmId(L, id)[n] IN
                      r.state = L[n].state /\ r.pm = L[n].pm /\ r.pid = L[n].pid
    BY DEF NoneScheduled
  <2> DEFINE u == [L[n] EXCEPT !.res.pmid = 0]
  <2>1. u.state = L[n].state /\ u.pm = L[n].pm /\ u.pid = L[n].pid
    BY DEF TaskTable, Task
  <2>2. RemovePreferredPmId(L, id)[n] \in {L[n], u}
    BY DEF RemovePreferredPmId
  <2> HIDE DEF u
  <2> QED
    BY <2>1, <2>2
<1>3. NoneScheduled(L, L)
  BY DEF NoneScheduled
<1> QED
  BY <1>1, <1>2, <1>3

\* TaskFinished too, and the task with that pid, if no other has it, is not
\* SCHEDULED any more.
LEMMA FinishedSchedules ==
  ASSUME NEW L \in TaskTable, NEW pid \in Nat,
         \A n, m \in Slots : n # m /\ L[n].pid # PID_INVALID => L[n].pid # L[m].pid
  PROVE  /\ NoneScheduled(L, TaskFinished(L, pid))
         /\ \A n \in Slots : L[n].pid = pid /\ pid # PID_INVALID
                             => TaskFinished(L, pid)[n].state # "SCHEDULED"
<1> DEFINE k == FirstOf(WithPid(L, pid))
           u == IF L[k].mode = MODE_NORMAL THEN InitTask
                ELSE [L[k] EXCEPT !.state = "PENDING", !.pid = PID_INVALID]
<1>1. CASE WithPid(L, pid) = {}
  <2>1. TaskFinished(L, pid) = L
    BY <1>1 DEF TaskFinished
  <2>2. \A n \in Slots : L[n].pid # pid
    BY <1>1 DEF WithPid
  <2> QED
    BY <2>1, <2>2 DEF NoneScheduled
<1>2. CASE WithPid(L, pid) # {}
  <2>1. k \in Slots /\ L[k].pid = pid
    BY <1>2, FirstOfIn, SlotsNat DEF WithPid
  <2>2. TaskFinished(L, pid) = [L EXCEPT ![k] = u]
    BY <1>2 DEF TaskFinished
  <2>3. u.state # "SCHEDULED"
    BY <2>1 DEF TaskTable, Task, InitTask
  <2> HIDE DEF u, k
  <2>4. \A n \in Slots : TaskFinished(L, pid)[n] = IF n = k THEN u ELSE L[n]
    BY <2>1, <2>2 DEF TaskTable
  <2>5. \A n \in Slots : L[n].pid = pid /\ pid # PID_INVALID => n = k
    BY <2>1
  <2> QED
    BY <2>3, <2>4, <2>5 DEF NoneScheduled
<1> QED
  BY <1>1, <1>2

-----------------------------------------------------------------------------
(* What keeps the parts of the invariant.                                  *)

\* A pid stays accounted for when no Task message, no report of an end and no
\* running task goes.
LEMMA AccountedKept ==
  ASSUME NEW p \in PM, NEW pid \in Nat, Accounted(p, pid),
         \A m \in net : m.type \in {"Task", "TaskFinished"} => m \in net',
         run[p] \subseteq run'[p],
         lsn' = lsn \/ lsn.pc # "finish"
  PROVE  Accounted(p, pid)'
<1>1. Finished(p, pid).type = "TaskFinished"
  BY DEF Finished, Msg
<1>2. Finished(p, pid)' = Finished(p, pid)
  BY DEF Finished, Msg
<1> QED
  BY <1>1, <1>2 DEF Accounted, RunsPid

\* A step of another thread that makes no task SCHEDULED and leaves the
\* table alone while the Scheduler holds list_mutex.
LEMMA TracesKept ==
  ASSUME TypeInv, TypeInv', TracedTasks, TracedChoice, UNCHANGED sched,
         tasks' = tasks \/ (ListFree /\ NoneScheduled(tasks, tasks')),
         \A p \in PM : pmUp[p] => pmUp'[p],
         \A p \in PM : \A pid \in Nat :
           pmUp[p] /\ Accounted(p, pid) => Accounted(p, pid)'
  PROVE  TracedTasks' /\ TracedChoice'
<1>1. NoneScheduled(tasks, tasks')
  BY KeepSchedules DEF TypeInv, TypeOK, TableTypes
<1>2. \A n \in Slots : tasks[n].pid \in Nat
  BY DEF TypeInv, TypeOK, TableTypes, TaskTable, Task
<1>3. TracedTasks'
  BY <1>1, <1>2 DEF TracedTasks, NoneScheduled
<1>4. sched.idx \in Slots
  BY DEF TypeInv, TypeOK, ThreadTypes, SchedThread
<1>5. sched.pc \in {"sleep", "relock", "assign", "commit"} => sched.pm \in PM
  BY DEF TypeInv, TypeOK, ThreadTypes
<1>6. sched.pc = "commit" => tasks' = tasks
  BY DEF ListFree, SchedHoldsList
<1>7. TracedChoice'
  BY <1>1, <1>2, <1>4, <1>5, <1>6 DEF TracedChoice, NoneScheduled
<1> QED
  BY <1>3, <1>7

\* A step that registers no PM, announces none, and keeps the DM.
LEMMA LiveKept ==
  ASSUME LivePMs, UNCHANGED pmUp, dm_found => dm_found',
         \A i \in Entries : pms'[i].in_use => pms[i].in_use /\ pms'[i].id = pms[i].id,
         \A m \in net' : m.type = "RegPM" => m \in net
  PROVE  LivePMs'
  BY DEF LivePMs

\* A step that sends no Mode message and changes no command thread.
LEMMA NoResetsKept ==
  ASSUME NoResets, UNCHANGED cmd, \A m \in net' : m.type = "Mode" => m \in net
  PROVE  NoResets'
  BY DEF NoResets

\* A step of which the PMs see nothing and the Scheduler only tables.
LEMMA TraceKept ==
  ASSUME TypeInv, TypeInv', Trace, UNCHANGED <<sched, net, pmUp, run, cmd, dm_found>>,
         tasks' = tasks \/ (ListFree /\ NoneScheduled(tasks, tasks')),
         lsn' = lsn \/ lsn.pc # "finish",
         \A i \in Entries : pms'[i].in_use => pms[i].in_use /\ pms'[i].id = pms[i].id
  PROVE  Trace'
<1>1. \A p \in PM : \A pid \in Nat : Accounted(p, pid) => Accounted(p, pid)'
  BY AccountedKept
<1>2. TracedTasks' /\ TracedChoice'
  BY <1>1, TracesKept DEF Trace
<1>3. LivePMs'
  BY LiveKept DEF Trace
<1>4. NoResets'
  BY NoResetsKept DEF Trace
<1> QED
  BY <1>2, <1>3, <1>4 DEF Trace

\* A step that leaves the tables alone and sends neither a registration nor a
\* Mode message, whatever becomes of the pids that are accounted for.
LEMMA TraceTables ==
  ASSUME TypeInv, TypeInv', Trace, UNCHANGED <<sched, tasks, pms, pmUp, cmd, dm_found>>,
         \A p \in PM : \A pid \in Nat :
           pmUp[p] /\ Accounted(p, pid) => Accounted(p, pid)',
         \A m \in net' : m.type \in {"RegPM", "Mode"} => m \in net
  PROVE  Trace'
<1>0. /\ \A p \in PM : pmUp[p] => pmUp'[p]
      /\ TracedTasks /\ TracedChoice
  BY DEF Trace
<1>1. TracedTasks' /\ TracedChoice'
  BY <1>0, TracesKept
<1>2. LivePMs'
  BY LiveKept DEF Trace
<1>3. NoResets'
  BY NoResetsKept DEF Trace
<1> QED
  BY <1>1, <1>2, <1>3 DEF Trace

-----------------------------------------------------------------------------
(* The initial state and the steps.                                        *)

\* At the start no task is SCHEDULED and no PM is up.
LEMMA TraceInit == Init => LostInv
<1> SUFFICES ASSUME Init PROVE Trace
  BY DEF LostInv
<1>1. \A n \in Slots : tasks[n].state # "SCHEDULED"
  BY DEF Init, InitialStartUp, PendingTask, InitTask
<1>2. TracedTasks /\ TracedChoice
  BY <1>1, IdleTypes DEF Init, TracedTasks, TracedChoice
<1>3. LivePMs
  BY DEF Init, LivePMs, NoPMs, NoPMRecord
<1>4. NoResets
  BY DEF Init, NoResets, IdleCmd
<1> QED
  BY <1>2, <1>3, <1>4 DEF Trace

\* The Scheduler up to its choice of a PM.
LEMMA SearchTrace ==
  ASSUME TypeInv, TypeInv', Trace,
         SchedPoll \/ SchedFind \/ SchedPreferred \/ SchedEligible
  PROVE  Trace'
<1> USE DEF tmVars, envVars
<1>0. UNCHANGED <<pms, lsn, cmd, dm_found, net, pmUp, run>>
  BY DEF SchedPoll, SchedFind, SchedPreferred, SchedEligible
<1>1. LivePMs' /\ NoResets'
  BY <1>0, LiveKept, NoResetsKept DEF Trace
<1>2. \A p \in PM : \A pid \in Nat : Accounted(p, pid) => Accounted(p, pid)'
  BY <1>0, AccountedKept
<1>3. TracedTasks'
  <2>1. tasks' = tasks \/ \E id : tasks' = RemovePreferredPmId(tasks, id)
    BY DEF SchedPoll, SchedFind, SchedPreferred, PreferredFound, PreferredMissing,
           SchedEligible
  <2>2. NoneScheduled(tasks, tasks')
    BY <2>1, KeepSchedules DEF TypeInv, TypeOK, TableTypes
  <2>3. \A n \in Slots : tasks[n].pid \in Nat
    BY DEF TypeInv, TypeOK, TableTypes, TaskTable, Task
  <2> QED
    BY <1>0, <1>2, <2>2, <2>3 DEF Trace, TracedTasks, NoneScheduled
<1>4. TracedChoice'
  <2>1. CASE SchedPoll
    BY <1>0, <1>2, <2>1 DEF SchedPoll, Trace, TracedChoice
  <2>2. CASE SchedFind
    <3>1. AnyPending(tasks)
      BY <2>2 DEF SchedFind, SomethingToSchedule
    <3>2. tasks' = tasks /\ sched'.idx = FindPendingTask(tasks)
          /\ sched'.pc \in {"preferred", "eligible"}
      BY <2>2 DEF SchedFind, IdleSched
    <3> QED
      BY <3>1, <3>2, FindPendingIn DEF TracedChoice
  <2>3. ASSUME NEW i \in Entries, pms[i].in_use, ChosenPM(pms[i].id), tasks' = tasks,
               sched.pc \in {"preferred", "eligible"}
        PROVE  TracedChoice'
    <3>1. sched'.pm = pms[i].id /\ sched'.idx = sched.idx
          /\ sched'.pc \in {"sleep", "assign"}
      BY <2>3 DEF ChosenPM, TypeInv, TypeOK, ThreadTypes, SchedThread
    <3>2. pmUp'[pms[i].id]
      BY <1>0, <2>3 DEF Trace, LivePMs
    <3> QED
      BY <2>3, <3>1, <3>2 DEF Trace, TracedChoice
  <2>4. ASSUME sched' = IdleSched
        PROVE  TracedChoice'
    BY <2>4, IdleTypes DEF TracedChoice
  <2>5. CASE SchedPreferred
    <3>1. sched.pc = "preferred" /\ sched.task.res.pmid \in Nat \ {0}
      BY <2>5 DEF SchedPreferred, TypeInv, TypeOK, ThreadTypes, SchedThread,
                  Resources, PreferenceSet
    <3>2. CASE PreferredFound
      BY <2>3, <3>1, <3>2, MatchingIsPM DEF PreferredFound
    <3>3. CASE PreferredMissing
      BY <2>4, <3>3 DEF PreferredMissing
    <3> QED
      BY <2>5, <3>2, <3>3 DEF SchedPreferred
  <2>6. CASE SchedEligible
    <3> DEFINE E == EligibleFrom(pms, infoIndex, sched.j, sched.task.res)
    <3>1. sched.pc = "eligible" /\ tasks' = tasks /\ sched.j \in Int
      BY <2>6 DEF SchedEligible, TypeInv, TypeOK, ThreadTypes, SchedThread
    <3>2. CASE E # {} /\ ChosenPM(pms[FirstOf(E)].id)
      <4>1. FirstOf(E) \in Entries /\ pms[FirstOf(E)].in_use
        BY <3>1, <3>2, EligibleIsPM DEF Fits
      <4> QED
        BY <2>3, <3>1, <3>2, <4>1
    <3>3. CASE sched' = [sched EXCEPT !.j = @ + 1]
      <4>1. sched'.pc = "eligible" /\ sched'.idx = sched.idx
        BY <3>1, <3>3 DEF TypeInv, TypeOK, ThreadTypes, SchedThread
      <4> QED
        BY <3>1, <4>1 DEF Trace, TracedChoice
    <3> QED
      BY <2>4, <2>6, <3>2, <3>3 DEF SchedEligible
  <2> QED
    BY <2>1, <2>2, <2>5, <2>6
<1> QED
  BY <1>1, <1>3, <1>4 DEF Trace

\* The Scheduler from the choice to the commit.
LEMMA CommitTrace ==
  ASSUME TypeInv, TypeInv', Trace,
         SchedWake \/ SchedRelock \/ SchedAssign \/ SchedThrow \/ SchedCommit
  PROVE  Trace'
<1> USE DEF tmVars, envVars, schedVars
<1>0. /\ UNCHANGED <<lsn, cmd, dm_found, pmUp, run>>
      /\ \A i \in Entries : pms'[i].in_use => pms[i].in_use /\ pms'[i].id = pms[i].id
  <2>1. pms' = pms \/ pms' = TaskHasStarted(pms, sched.pm)
    BY DEF SchedWake, SchedRelock, SchedAssign, SchedThrow, SchedCommit
  <2>2. pms \in PMTable
    BY DEF TypeInv, TypeOK, TableTypes
  <2>3. \A i \in Entries : pms'[i].in_use => pms[i].in_use /\ pms'[i].id = pms[i].id
    <3>1. \A i \in Entries : \A f \in {"in_use", "id", "res"} : pms'[i][f] = pms[i][f]
      BY <2>1, <2>2, CountsEffect
    <3> QED
      BY <3>1
  <2> QED
    BY <2>3 DEF SchedWake, SchedRelock, SchedAssign, SchedThrow, SchedCommit
<1>1. /\ net \subseteq net'
      /\ \A m \in net' : m.type \in {"RegPM", "Mode"} => m \in net
  BY DEF SchedWake, SchedRelock, SchedAssign, SchedThrow, SchedCommit, Send, Msg
<1>2. LivePMs' /\ NoResets'
  BY <1>0, <1>1, LiveKept, NoResetsKept DEF Trace
<1>3. \A p \in PM : \A pid \in Nat : Accounted(p, pid) => Accounted(p, pid)'
  BY <1>0, <1>1, AccountedKept
<1>4. /\ sched.idx \in Slots /\ \A n \in Slots : tasks[n] \in Task
      /\ sched \in SchedThread
      /\ sched.pc \in {"sleep", "relock", "assign", "commit"} => sched.pm \in PM
  BY DEF TypeInv, TypeOK, TableTypes, ThreadTypes, TaskTable, SchedThread
<1>5. \A n \in Slots : tasks[n].pid \in Nat
  BY <1>4 DEF Task
<1>6. CASE /\ tasks' = tasks
           /\ \/ sched' = sched
              \/ sched' = IdleSched
              \/ \E pc \in {"relock", "assign"} : /\ sched.pc \in {"sleep", "relock"}
                                                  /\ sched' = [sched EXCEPT !.pc = pc]
  <2>1. TracedTasks'
    BY <1>0, <1>3, <1>5, <1>6 DEF Trace, TracedTasks
  <2>2. ASSUME sched' = sched
        PROVE  TracedChoice'
    BY <1>0, <1>3, <1>4, <1>5, <1>6, <2>2 DEF Trace, TracedChoice
  <2>3. ASSUME sched' = IdleSched
        PROVE  TracedChoice'
    BY <2>3, IdleTypes DEF TracedChoice
  <2>4. ASSUME NEW pc \in {"relock", "assign"}, sched.pc \in {"sleep", "relock"},
               sched' = [sched EXCEPT !.pc = pc]
        PROVE  TracedChoice'
    <3>1. sched'.pc = pc /\ sched'.pm = sched.pm /\ sched'.idx = sched.idx
      BY <1>4, <2>4 DEF SchedThread
    <3> QED
      BY <1>0, <1>6, <2>4, <3>1 DEF Trace, TracedChoice
  <2> QED
    BY <1>2, <1>6, <2>1, <2>2, <2>3, <2>4 DEF Trace
<1>7. CASE SchedAssign
  <2> DEFINE m == Msg("Task", sched.pm, NextPID, sched.task.name)
  <2>1. /\ sched.pc = "assign" /\ m \in net' /\ NextPID \in Nat \ {0}
        /\ sched'.pc = "commit" /\ sched'.idx = sched.idx /\ sched'.pm = sched.pm
    BY <1>4, <1>7 DEF SchedAssign, Send, SchedThread, TypeInv, TypeOK, TableTypes
  <2>2. /\ tasks'[sched.idx].pid = NextPID
        /\ tasks'[sched.idx].state = tasks[sched.idx].state
        /\ \A n \in Slots \ {sched.idx} : tasks'[n] = tasks[n]
    BY <1>4, <1>7 DEF SchedAssign, TypeInv, TypeOK, TableTypes, TaskTable, Task
  <2>3. Accounted(sched.pm, tasks[sched.idx].pid)'
    <3>1. m.type = "Task" /\ m.pm = sched.pm /\ m.pid = NextPID
      BY DEF Msg
    <3> HIDE DEF m
    <3>2. m.pm = sched'.pm /\ m.pid = tasks'[sched'.idx].pid
      BY <2>1, <2>2, <3>1
    <3> QED
      BY <2>1, <3>1, <3>2 DEF Accounted
  <2>4. tasks[sched.idx].state # "SCHEDULED"
    BY <2>1 DEF Trace, TracedChoice
  <2>5. TracedTasks'
    BY <1>0, <1>3, <1>5, <2>2, <2>4 DEF Trace, TracedTasks
  <2>6. TracedChoice'
    BY <1>0, <2>1, <2>2, <2>3, <2>4 DEF Trace, TracedChoice, PID_INVALID
  <2> QED
    BY <1>2, <2>5, <2>6 DEF Trace
<1>8. CASE SchedCommit
  <2>1. sched.pc = "commit" /\ sched' = IdleSched
    BY <1>8 DEF SchedCommit
  <2>2. /\ tasks'[sched.idx].pid = tasks[sched.idx].pid
        /\ tasks'[sched.idx].pm = sched.pm
        /\ \A n \in Slots \ {sched.idx} : tasks'[n] = tasks[n]
    BY <1>4, <1>8 DEF SchedCommit, TypeInv, TypeOK, TableTypes, TaskTable, Task
  <2>3. /\ tasks[sched.idx].pid # PID_INVALID /\ sched.pm \in PM /\ pmUp'[sched.pm]
        /\ Accounted(sched.pm, tasks[sched.idx].pid)
    BY <1>0, <1>4, <2>1 DEF Trace, TracedChoice
  <2>4. ASSUME NEW n \in Slots, tasks'[n].state = "SCHEDULED"
        PROVE  /\ tasks'[n].pid # PID_INVALID
               /\ tasks'[n].pm \in PM /\ pmUp'[tasks'[n].pm]
               /\ Accounted(tasks[n].pm, tasks[n].pid)'
    <3>1. CASE n = sched.idx
      <4> DEFINE p == sched.pm
                 k == tasks[sched.idx].pid
      <4>1. tasks'[n].pm = p /\ tasks'[n].pid = k /\ p \in PM /\ k \in Nat
        BY <1>5, <2>2, <2>3, <3>1
      <4>2. \E q \in PM : \E j \in Nat :
              q = p /\ j = k /\ Accounted(q, j) /\ Accounted(q, j)'
        BY <1>3, <2>3, <4>1
      <4> QED
        BY <2>3, <4>1, <4>2 DEF Accounted, RunsPid, Finished, Msg
    <3>2. CASE n # sched.idx
      BY <1>0, <1>3, <1>5, <2>2, <2>4, <3>2 DEF Trace, TracedTasks
    <3> QED
      BY <3>1, <3>2
  <2>5. TracedTasks'
    BY <2>4 DEF TracedTasks
  <2>6. TracedChoice'
    BY <2>1, IdleTypes DEF TracedChoice
  <2> QED
    BY <1>2, <2>5, <2>6 DEF Trace
<1> QED
  <2>1. CASE SchedWake
    <3>1. tasks' = tasks /\ sched.pc = "sleep"
          /\ (sched' = IdleSched \/ sched' = [sched EXCEPT !.pc = "relock"])
      BY <2>1 DEF SchedWake
    <3> QED
      BY <1>6, <3>1
  <2>2. CASE SchedRelock
    BY <1>6, <2>2 DEF SchedRelock
  <2>3. CASE SchedThrow
    BY <1>6, <2>3 DEF SchedThrow
  <2> QED
    BY <1>7, <1>8, <2>1, <2>2, <2>3

\* The Listener's handlers.  It drops reports only before the DM is found, when
\* no PM is up, and until a restart no PM reports running tasks.
LEMMA ListenerTrace ==
  ASSUME TypeInv, TypeInv', PidInv, Undisturbed, Trace, Listener
  PROVE  Trace'
<1> USE DEF tmVars, envVars, schedVars, LsnUnchanged, SchedUnchanged, PmsUnchanged
<1>0. /\ tasks \in TaskTable /\ pms \in PMTable /\ net \subseteq Message
      /\ lsn.pid \in Nat
  BY DEF TypeInv, TypeOK, TableTypes, EnvTypes, ThreadTypes, LsnThread
<1>1. CASE DMReady
  <2>1. dm_found' /\ UNCHANGED <<sched, tasks, pms, net, pmUp, run, lsn, cmd>>
    BY <1>1 DEF DMReady
  <2>2. \A p \in PM : \A pid \in Nat : Accounted(p, pid) => Accounted(p, pid)'
    BY <2>1, AccountedKept
  <2>3. TracedTasks' /\ TracedChoice'
    BY <2>1, <2>2, TracesKept DEF Trace
  <2>4. LivePMs' /\ NoResets'
    BY <2>1, LiveKept, NoResetsKept DEF Trace
  <2> QED
    BY <2>3, <2>4 DEF Trace
<1>2. CASE DropMessage
  <2>1. \A p \in PM : ~pmUp[p]
    BY <1>2 DEF DropMessage, Trace, LivePMs
  <2>2. UNCHANGED <<sched, tasks, pms, pmUp, cmd, dm_found>> /\ net' \subseteq net
    BY <1>2 DEF DropMessage, Receive
  <2> QED
    BY <2>1, <2>2, TraceTables
<1>3. CASE RegPMHandler
  <2>1. PICK p \in PM : /\ Msg("RegPM", p, 0, NoName) \in net
                        /\ Receive(Msg("RegPM", p, 0, NoName))
                        /\ pms' = pms \/ pms' = RegisterPM(pms, p, PmRes[p])
    BY <1>3 DEF RegPMHandler
  <2> DEFINE r == Msg("RegPM", p, 0, NoName)
  <2>2. r.type = "RegPM" /\ r.pm = p
    BY DEF Msg
  <2>3. r \in net /\ net' = net \ {r}
    BY <2>1 DEF Receive
  <2> HIDE DEF r
  <2>4. UNCHANGED <<sched, tasks, pmUp, run, cmd, dm_found>> /\ lsn.pc = "idle"
    BY <1>3 DEF RegPMHandler, ListenerReady
  <2>5. pmUp[p]
    BY <2>2, <2>3 DEF Trace, LivePMs
  <2>6. \A q \in PM : \A pid \in Nat : Accounted(q, pid) => Accounted(q, pid)'
    BY <2>2, <2>3, <2>4, AccountedKept
  <2>7. TracedTasks' /\ TracedChoice'
    BY <2>4, <2>6, TracesKept DEF Trace
  <2>8. \A i \in Entries : pms'[i] = pms[i] \/ pms'[i].id = p
    <3>1. PmRes[p] \in Resources
      BY PmResAssumption
    <3> DEFINE u == [in_use |-> TRUE, id |-> p, tasks |-> 0, res |-> PmRes[p]]
    <3>2. u.id = p
      OBVIOUS
    <3>3. \A i \in Entries : \/ RegisterPM(pms, p, PmRes[p])[i] = pms[i]
                             \/ RegisterPM(pms, p, PmRes[p])[i] = u
      BY <1>0, <3>1, RegisterEffect
    <3> HIDE DEF u
    <3> QED
      BY <2>1, <3>2, <3>3
  <2>9. LivePMs'
    BY <2>3, <2>4, <2>5, <2>8 DEF Trace, LivePMs
  <2>10. NoResets'
    BY <2>3, <2>4, NoResetsKept DEF Trace
  <2> QED
    BY <2>7, <2>9, <2>10 DEF Trace
<1>4. CASE RegPMSetTasks
  <2>1. /\ UNCHANGED <<sched, net, pmUp, run, cmd, dm_found, tasks>>
        /\ lsn.pc = "setTasks"
        /\ pms' = pms \/ pms' = SetTasks(pms, lsn.pm, GetTasks(pending_pms, lsn.pm))
    BY <1>4 DEF RegPMSetTasks
  <2>2. GetTasks(pending_pms, lsn.pm) \in Int
    BY GetTasksType DEF TypeInv, TypeOK, TableTypes
  <2>3. \A i \in Entries : \A f \in {"in_use", "id", "res"} : pms'[i][f] = pms[i][f]
    BY <1>0, <2>1, <2>2, SetTasksEffect
  <2>4. \A i \in Entries : pms'[i].in_use => pms[i].in_use /\ pms'[i].id = pms[i].id
    BY <2>3
  <2> QED
    BY <2>1, <2>4, TraceKept
<1>5. CASE PostTaskHandler
  <2>1. PICK d \in Posts : tasks' = AddTo(tasks, PendingTask(d))
    BY <1>5 DEF PostTaskHandler
  <2>2. PendingTask(d) \in Task /\ PendingTask(d).state = "PENDING"
    <3>1. PendingTask(d) \in Task
      BY PostsAssumption, PendingTaskType
    <3>2. PendingTask(d).state = "PENDING"
      BY DEF PendingTask, InitTask
    <3> QED
      BY <3>1, <3>2
  <2>3. NoneScheduled(tasks, tasks')
    BY <1>0, <2>1, <2>2, AddToSchedules
  <2>4. UNCHANGED <<sched, net, pmUp, run, cmd, dm_found, pms, lsn>> /\ ListFree
    BY <1>5 DEF PostTaskHandler
  <2> QED
    BY <2>3, <2>4, TraceKept
<1>6. CASE TaskFinishedHandler
  <2>1. PICK r \in net : /\ r.type = "TaskFinished" /\ Receive(r)
                         /\ pms' = PMTaskFinished(pms, r.pm)
                         /\ lsn' = [IdleLsn EXCEPT !.pc = "finish", !.pm = r.pm,
                                                   !.pid = r.pid]
    BY <1>6 DEF TaskFinishedHandler
  <2>2. /\ net' = net \ {r} /\ lsn'.pc = "finish" /\ lsn'.pid = r.pid
    BY <2>1 DEF Receive, IdleLsn
  <2>3. UNCHANGED <<sched, tasks, pmUp, run, cmd, dm_found>> /\ lsn.pc = "idle"
    BY <1>6 DEF TaskFinishedHandler, ListenerReady
  <2>4. ASSUME NEW p \in PM, NEW pid \in Nat, Accounted(p, pid)
        PROVE  Accounted(p, pid)'
    <3>1. CASE Finished(p, pid) = r
      <4>1. r.pid = pid
        BY <3>1 DEF Finished, Msg
      <4> QED
        BY <2>2, <4>1 DEF Accounted
    <3>2. CASE Finished(p, pid) # r
      <4>1. Finished(p, pid)' = Finished(p, pid)
        BY DEF Finished, Msg
      <4> QED
        BY <2>1, <2>2, <2>3, <2>4, <3>2, <4>1 DEF Accounted, RunsPid
    <3> QED
      BY <3>1, <3>2
  <2>5. TracedTasks' /\ TracedChoice'
    BY <2>3, <2>4, TracesKept DEF Trace
  <2>6. \A i \in Entries : \A f \in {"in_use", "id", "res"} : pms'[i][f] = pms[i][f]
    BY <1>0, <2>1, CountsEffect
  <2>7. \A i \in Entries : pms'[i].in_use => pms[i].in_use /\ pms'[i].id = pms[i].id
    BY <2>6
  <2>8. LivePMs' /\ NoResets'
    BY <2>2, <2>3, <2>7, LiveKept, NoResetsKept DEF Trace
  <2> QED
    BY <2>5, <2>8 DEF Trace
<1>7. CASE TaskFinishedList
  <2>1. /\ UNCHANGED <<sched, net, pmUp, run, cmd, dm_found, pms>> /\ ListFree
        /\ tasks' = TaskFinished(tasks, lsn.pid) /\ lsn.pc = "finish"
    BY <1>7 DEF TaskFinishedList
  <2>2. UniquePids
    BY DEF PidInv, UniquePidsUntilRestart, Undisturbed
  <2>3. /\ NoneScheduled(tasks, tasks')
        /\ \A n \in Slots : tasks[n].pid = lsn.pid /\ lsn.pid # PID_INVALID
                              => tasks'[n].state # "SCHEDULED"
    BY <1>0, <2>1, <2>2, FinishedSchedules DEF UniquePids
  <2>4. ASSUME NEW p \in PM, NEW pid \in Nat, Accounted(p, pid), pid # lsn.pid
        PROVE  Accounted(p, pid)'
    <3>1. Finished(p, pid)' = Finished(p, pid)
      BY DEF Finished, Msg
    <3> QED
      BY <2>1, <2>4, <3>1 DEF Accounted, RunsPid
  <2>5. TracedTasks'
    <3> SUFFICES ASSUME NEW n \in Slots, tasks'[n].state = "SCHEDULED"
                 PROVE  /\ tasks'[n].pid # PID_INVALID
                        /\ tasks'[n].pm \in PM /\ pmUp'[tasks'[n].pm]
                        /\ Accounted(tasks[n].pm, tasks[n].pid)'
      BY DEF TracedTasks
    <3>1. /\ tasks[n].state = "SCHEDULED" /\ tasks'[n].pm = tasks[n].pm
          /\ tasks'[n].pid = tasks[n].pid
      BY <2>3 DEF NoneScheduled
    <3>2. tasks[n].pid \in Nat /\ tasks[n].pid # lsn.pid
      BY <1>0, <2>3, <3>1 DEF TaskTable, Task, Trace, TracedTasks
    <3> QED
      BY <2>1, <2>4, <3>1, <3>2 DEF Trace, TracedTasks
  <2>6. TracedChoice'
    <3>1. sched.idx \in Slots /\ sched.pc # "commit"
      BY <2>1 DEF TypeInv, TypeOK, ThreadTypes, SchedThread, ListFree, SchedHoldsList
    <3> QED
      BY <2>1, <2>3, <3>1 DEF Trace, TracedChoice, NoneScheduled
  <2>7. LivePMs' /\ NoResets'
    BY <2>1, LiveKept, NoResetsKept DEF Trace
  <2> QED
    BY <2>5, <2>6, <2>7 DEF Trace
<1>8. CASE PMRunningTaskHandler \/ PMRunningTaskAdd \/ PMRunningTaskCount
  BY <1>8 DEF PMRunningTaskHandler, PMRunningTaskAdd, PMRunningTaskCount, PidInv,
              NoReports, Undisturbed
<1> QED
  BY <1>1, <1>2, <1>3, <1>4, <1>5, <1>6, <1>7, <1>8 DEF Listener

\* The commands and the heartbeat thread.
LEMMA OtherThreadsTrace ==
  ASSUME TypeInv, TypeInv', Trace,
         TimerExpires \/ StartTaskCommand \/ PerformKill \/ PMHeartbeat
  PROVE  Trace'
<1> USE DEF tmVars, envVars, schedVars, LsnUnchanged, SchedUnchanged, PmsUnchanged
<1>0. tasks \in TaskTable /\ pms \in PMTable
  BY DEF TypeInv, TypeOK, TableTypes
<1>1. CASE TimerExpires
  <2>1. UNCHANGED <<sched, net, pmUp, run, cmd, dm_found, tasks, pms, lsn>>
    BY <1>1 DEF TimerExpires
  <2> QED
    BY <2>1, TraceKept
<1>2. CASE StartTaskCommand
  <2> DEFINE new(d) == [PendingTask(d) EXCEPT !.res.pmid = 0, !.timeout = 0]
  <2>1. PICK d \in Posts : tasks' = AddTo(tasks, new(d))
    BY <1>2 DEF StartTaskCommand
  <2>2. new(d) \in Task
    BY PostsAssumption, StartTaskType
  <2>3. new(d).state = "PENDING"
    BY DEF PendingTask, InitTask
  <2> HIDE DEF new
  <2>4. NoneScheduled(tasks, tasks')
    BY <1>0, <2>1, <2>2, <2>3, AddToSchedules
  <2>5. UNCHANGED <<sched, net, pmUp, run, cmd, dm_found, pms, lsn>> /\ ListFree
    BY <1>2 DEF StartTaskCommand
  <2> QED
    BY <2>4, <2>5, TraceKept
<1>3. CASE PerformKill
  <2>1. UNCHANGED <<sched, pmUp, run, cmd, dm_found, tasks, pms, lsn>>
    BY <1>3 DEF PerformKill
  <2>2. /\ net \subseteq net'
        /\ \A m \in net' : m.type \in {"RegPM", "Mode"} => m \in net
    BY <1>3 DEF PerformKill, Msg
  <2>3. \A p \in PM : \A pid \in Nat : Accounted(p, pid) => Accounted(p, pid)'
    BY <2>1, <2>2, AccountedKept
  <2> QED
    BY <2>1, <2>2, <2>3, TraceTables
<1>4. CASE RemoveAnyFailed
  <2>1. PICK k \in Entries : pms' = RemoveEntry(pms, k)
    BY <1>4 DEF RemoveAnyFailed
  <2>2. \A i \in Entries : pms'[i].in_use => pms[i].in_use /\ pms'[i].id = pms[i].id
    BY <1>0, <2>1, RemoveEffect
  <2>3. UNCHANGED <<sched, net, pmUp, run, cmd, dm_found, tasks, lsn>>
    BY <1>4 DEF RemoveAnyFailed
  <2> QED
    BY <2>2, <2>3, TraceKept
<1>5. CASE HeartbeatPMFailure
  <2>1. /\ UNCHANGED <<sched, net, pmUp, run, cmd, dm_found, pms, lsn>> /\ ListFree
        /\ tasks' = PMFailure(tasks, hb)
    BY <1>5 DEF HeartbeatPMFailure
  <2>2. NoneScheduled(tasks, tasks')
    BY <1>0, <2>1, KeepSchedules
  <2> QED
    BY <2>1, <2>2, TraceKept
<1> QED
  BY <1>1, <1>2, <1>3, <1>4, <1>5 DEF PMHeartbeat

\* A counted disturbance shows in the counters.
LEMMA UseCounts ==
  ASSUME TypeInv, NEW w \in {"crashes", "losses", "cmds", "restarts"}, Use(w)
  PROVE  ~Undisturbed'
<1>1. used'[w] = used[w] + 1 /\ used[w] \in Nat
  BY DEF Use, TypeInv, TypeOK, EnvTypes
<1> QED
  BY <1>1 DEF Undisturbed

\* So the steps before an undisturbed state were undisturbed.
LEMMA UndisturbedBefore ==
  ASSUME TypeInv, Next, Undisturbed'
  PROVE  Undisturbed
<1> USE DEF envVars, tmVars, schedVars
<1>1. CASE used' = used
  BY <1>1 DEF Undisturbed
<1>2. ASSUME NEW w \in {"posts", "removals", "kills"}, Use(w)
      PROVE  Undisturbed
  BY <1>2 DEF Use, Undisturbed, TypeInv, TypeOK, EnvTypes
<1>3. ASSUME NEW w \in {"crashes", "losses", "cmds", "restarts"}, Use(w)
      PROVE  FALSE
  BY <1>3, UseCounts
<1>4. Scheduler \/ TimerExpires => used' = used
  BY DEF Scheduler, SchedPoll, SchedFind, SchedPreferred, SchedEligible, SchedWake,
         SchedRelock, SchedAssign, SchedThrow, SchedCommit, TimerExpires
<1>5. Listener => used' = used \/ Use("posts")
  BY DEF Listener, DMReady, DropMessage, RegPMHandler, RegPMSetTasks, PostTaskHandler,
         TaskFinishedHandler, TaskFinishedList, PMRunningTaskHandler, PMRunningTaskAdd,
         PMRunningTaskCount
<1>6. StartTaskCommand \/ PerformKill => Use("posts") \/ Use("kills")
  BY DEF StartTaskCommand, PerformKill
<1>7. PMHeartbeat => used' = used \/ Use("removals")
  BY DEF PMHeartbeat, RemoveAnyFailed, HeartbeatPMFailure
<1>8. ASSUME NEW c \in Cmds, ChangeMode(c)
      PROVE  used' = used \/ Use("cmds")
  BY <1>8 DEF ChangeMode, CmdReceive, CmdReadMode, CmdSetMode, CmdPublish, CmdVerifyDM,
              CmdClear, CmdClearCounts, CmdStartUp, CmdRestore
<1>9. ASSUME NEW p \in PM, ProcessManager(p)
      PROVE  used' = used \/ Use("crashes") \/ Use("losses")
  BY <1>9 DEF ProcessManager, PMStart, PMCrash, PMTask, PMTaskFinishes, PMLosesTask,
              PMKill, PMReset, PMRegInfo
<1>10. TMRestart => Use("restarts")
  BY DEF TMRestart
<1> QED
  BY <1>1, <1>2, <1>3, <1>4, <1>5, <1>6, <1>7, <1>8, <1>9, <1>10
     DEF Next, CommandHandler

\* What the PMs do, apart from crashing and losing tasks.
LEMMA ProcessManagerTrace ==
  ASSUME TypeInv, TypeInv', PidInv, Undisturbed, Undisturbed', Trace,
         NEW p \in PM, ProcessManager(p)
  PROVE  Trace'
<1> USE DEF tmVars, envVars, schedVars, TMUnchanged
<1>0. /\ UNCHANGED <<sched, tasks, pms, cmd, dm_found, lsn>>
      /\ net \subseteq Message
      /\ run \in [PM -> SUBSET [pid : Nat, name : Names \cup {NoName}]]
      /\ pmUp \in [PM -> BOOLEAN]
  BY DEF ProcessManager, PMStart, PMCrash, PMTask, PMTaskFinishes, PMLosesTask, PMKill,
         PMReset, PMRegInfo, TypeInv, TypeOK, EnvTypes
<1>1. CASE PMStart(p)
  <2> DEFINE r == Msg("RegPM", p, 0, NoName)
  <2>1. r.type = "RegPM" /\ r.pm = p
    BY DEF Msg
  <2>2. /\ ~pmUp[p] /\ dm_found /\ pmUp' = [pmUp EXCEPT ![p] = TRUE] /\ run' = run
        /\ net' = {m \in net : m.pm # p \/ m.type \notin FromTM} \cup {r}
    BY <1>1 DEF PMStart
  <2> HIDE DEF r
  <2>3. /\ \A q \in PM : pmUp'[q] = (q = p \/ pmUp[q])
    BY <1>0, <2>2
  <2>4. ASSUME NEW q \in PM, NEW pid \in Nat, pmUp[q], Accounted(q, pid)
        PROVE  Accounted(q, pid)'
    <3>1. q # p
      BY <2>2, <2>4
    <3>2. Finished(q, pid)' = Finished(q, pid) /\ Finished(q, pid).pm = q
      BY DEF Finished, Msg
    <3> QED
      BY <1>0, <2>2, <2>4, <3>1, <3>2 DEF Accounted, RunsPid
  <2>5. TracedTasks' /\ TracedChoice'
    BY <1>0, <2>3, <2>4, TracesKept DEF Trace
  <2>6. LivePMs'
    <3>1. \A i \in Entries : pms[i].in_use => pms[i].id \in PM
      BY DEF TypeInv, RecordsNamed
    <3>2. \A m \in net : m.pm \in PM
      BY <1>0 DEF Message
    <3> QED
      BY <1>0, <2>1, <2>2, <2>3, <3>1, <3>2 DEF Trace, LivePMs
  <2>7. NoResets'
    BY <1>0, <2>1, <2>2, NoResetsKept DEF Trace
  <2> QED
    BY <2>5, <2>6, <2>7 DEF Trace
<1>2. CASE PMCrash(p) \/ PMLosesTask(p)
  BY <1>2, UseCounts DEF PMCrash, PMLosesTask
<1>3. CASE PMTask(p)
  <2>1. PICK r \in net : /\ r.type = "Task" /\ r.pm = p /\ net' = net \ {r}
                         /\ run' = [run EXCEPT ![p] = @ \cup
                                      {[pid |-> r.pid, name |-> r.name]}]
    BY <1>3 DEF PMTask, Receive
  <2>2. pmUp' = pmUp
    BY <1>3 DEF PMTask
  <2> DEFINE u == [pid |-> r.pid, name |-> r.name]
  <2>3. /\ u.pid = r.pid /\ u \in run'[p]
        /\ \A q \in PM : run[q] \subseteq run'[q]
    BY <1>0, <2>1
  <2> HIDE DEF u
  <2>4. ASSUME NEW q \in PM, NEW pid \in Nat, Accounted(q, pid)
        PROVE  Accounted(q, pid)'
    <3>1. CASE q = p /\ r.pid = pid
      BY <2>3, <3>1 DEF Accounted, RunsPid
    <3>2. CASE ~(q = p /\ r.pid = pid)
      <4>1. Finished(q, pid)' = Finished(q, pid) /\ Finished(q, pid) # r
        BY <2>1 DEF Finished, Msg
      <4> QED
        BY <1>0, <2>1, <2>3, <2>4, <3>2, <4>1 DEF Accounted, RunsPid
    <3> QED
      BY <3>1, <3>2
  <2> QED
    BY <1>0, <2>1, <2>2, <2>4, TraceTables
<1>4. CASE PMTaskFinishes(p)
  <2>1. PICK r \in run[p] : /\ run' = [run EXCEPT ![p] = @ \ {r}]
                            /\ net' = net \cup {Finished(p, r.pid)}
    BY <1>4 DEF PMTaskFinishes, Send
  <2>2. pmUp' = pmUp
    BY <1>4 DEF PMTaskFinishes
  <2>3. \A q \in PM : run'[q] = IF q = p THEN run[q] \ {r} ELSE run[q]
    BY <1>0, <2>1
  <2>4. ASSUME NEW q \in PM, NEW pid \in Nat, Accounted(q, pid)
        PROVE  Accounted(q, pid)'
    <3>1. Finished(q, pid)' = Finished(q, pid)
      BY DEF Finished, Msg
    <3>2. CASE q = p /\ r.pid = pid
      BY <2>1, <3>1, <3>2 DEF Accounted
    <3>3. CASE ~(q = p /\ r.pid = pid)
      BY <1>0, <2>1, <2>3, <2>4, <3>1, <3>3 DEF Accounted, RunsPid
    <3> QED
      BY <3>2, <3>3
  <2>5. \A m \in net' : m.type \in {"RegPM", "Mode"} => m \in net
    BY <2>1 DEF Finished, Msg
  <2> QED
    BY <1>0, <2>2, <2>4, <2>5, TraceTables
<1>5. CASE PMKill(p)
  <2>1. PICK r \in net :
          /\ r.type = "Kill" /\ r.pm = p
          /\ run' = [run EXCEPT ![p] = {x \in @ : x.pid # r.pid}]
          /\ net' = (net \ {r}) \cup
                    (IF RunsPid(p, r.pid) THEN {Finished(p, r.pid)} ELSE {})
    BY <1>5 DEF PMKill
  <2>2. pmUp' = pmUp
    BY <1>5 DEF PMKill
  <2>3. \A q \in PM : run'[q] = IF q = p THEN {x \in run[q] : x.pid # r.pid} ELSE run[q]
    BY <1>0, <2>1
  <2>4. ASSUME NEW q \in PM, NEW pid \in Nat, Accounted(q, pid)
        PROVE  Accounted(q, pid)'
    <3>1. /\ Finished(q, pid)' = Finished(q, pid) /\ Finished(q, pid) # r
      BY <2>1 DEF Finished, Msg
    <3>2. CASE RunsPid(q, pid)
      <4>1. CASE q = p /\ r.pid = pid
        BY <2>1, <3>1, <3>2, <4>1 DEF Accounted
      <4>2. CASE ~(q = p /\ r.pid = pid)
        BY <2>3, <3>2, <4>2 DEF Accounted, RunsPid
      <4> QED
        BY <4>1, <4>2
    <3>3. CASE ~RunsPid(q, pid)
      BY <1>0, <2>1, <2>4, <3>1, <3>3 DEF Accounted
    <3> QED
      BY <3>2, <3>3
  <2>5. \A m \in net' : m.type \in {"RegPM", "Mode"} => m \in net
    BY <2>1 DEF Finished, Msg
  <2> QED
    BY <1>0, <2>2, <2>4, <2>5, TraceTables
<1>6. CASE PMReset(p)
  <2>1. Msg("Mode", p, 0, NoName).type = "Mode" /\ Msg("Mode", p, 0, NoName) \in net
    BY <1>6 DEF PMReset, Msg
  <2> QED
    BY <2>1 DEF Trace, NoResets
<1>7. CASE PMRegInfo(p)
  BY <1>7 DEF PMRegInfo, PidInv, NoReports, Undisturbed
<1> QED
  BY <1>1, <1>2, <1>3, <1>4, <1>5, <1>6, <1>7 DEF ProcessManager

\* Every step keeps the tasks traced, or is one of the disturbances.
LEMMA TraceStep ==
  ASSUME TypeInv, TypeInv', PidInv, LostInv, [Next]_vars
  PROVE  LostInv'
<1> SUFFICES ASSUME Undisturbed' PROVE Trace'
  BY DEF LostInv
<1>1. CASE TMRestart
  BY <1>1, UseCounts DEF TMRestart
<1>2. ASSUME NEW c \in Cmds, CmdReceive(c)
      PROVE  FALSE
  BY <1>2, UseCounts DEF CmdReceive
<1>3. CASE UNCHANGED vars
  <2>1. Undisturbed
    BY <1>3 DEF Undisturbed, vars, envVars
  <2>2. UNCHANGED <<sched, net, pmUp, run, cmd, dm_found, tasks, pms, lsn>>
    BY <1>3 DEF vars, schedVars, tmVars, envVars
  <2> QED
    BY <2>1, <2>2, TraceKept DEF LostInv
<1>4. CASE Next /\ ~TMRestart
  <2>1. Undisturbed
    BY <1>4, UndisturbedBefore
  <2>2. Trace
    BY <2>1 DEF LostInv
  <2>3. CASE Scheduler
    BY <2>2, <2>3, SearchTrace, CommitTrace DEF Scheduler
  <2>4. CASE TimerExpires \/ StartTaskCommand \/ PerformKill \/ PMHeartbeat
    BY <2>2, <2>4, OtherThreadsTrace
  <2>5. CASE Listener
    BY <2>1, <2>2, <2>5, ListenerTrace
  <2>6. ASSUME NEW c \in Cmds, ChangeMode(c)
        PROVE  FALSE
    <3>1. cmd[c].pc = "idle"
      BY <2>2 DEF Trace, NoResets
    <3> QED
      BY <1>2, <2>6, <3>1 DEF ChangeMode, CmdReadMode, CmdSetMode, CmdPublish,
         CmdVerifyDM, CmdClear, CmdClearCounts, CmdStartUp, CmdRestore
  <2>7. ASSUME NEW p \in PM, ProcessManager(p)
        PROVE  Trace'
    BY <2>1, <2>2, <2>7, ProcessManagerTrace
  <2> QED
    BY <1>4, <2>3, <2>4, <2>5, <2>6, <2>7 DEF Next, CommandHandler
<1> QED
  BY <1>1, <1>3, <1>4

\* As long as no PM crashed or lost a task, no command changed the mode and the
\* TM was not restarted, a task the TM holds for SCHEDULED is on its way to its
\* PM, running there, or its end is on its way back: no interleaving of the
\* Scheduler's sleep, a PM declared failed, kills and reports loses one.
THEOREM TasksNotLost == Spec => []NoLostTask
<1>1. TypeInv /\ TypeInv' /\ PidInv /\ LostInv /\ [Next]_vars => LostInv'
  BY TraceStep
<1>2. LostInv => NoLostTask
  BY DEF LostInv, Undisturbed, Trace, TracedTasks, NoLostTask
<1> QED
  BY TraceInit, TypeInvariant, PidInvariant, <1>1, <1>2, PTL DEF Spec

-----------------------------------------------------------------------------
(* The numbers the Scheduler balances on are right until a PM is declared  *)
(* failed, a command changes the mode or the TM is restarted               *)
(* (CountsMatchUndisturbed): every pid is in one place at most (a Task     *)
(* message, running, a report, the Listener), so that its end is counted   *)
(* once, and belongs to a task of that PM, so that it is counted there.    *)

Steady == used.removals = 0 /\ used.cmds = 0 /\ used.restarts = 0

\* No PM is being declared failed, none reported running tasks, no reset.
NoFailures ==
  hb = NoPM /\ pending_pms = NoPMs /\ \A c \in Cmds : cmd[c].pc = "idle"

\* A PM has one record, and the PM of a SCHEDULED task, or of the task the
\* Scheduler is about to commit, has one.
OneRecord ==
  \A i, j \in Entries :
    pms[i].in_use /\ pms[j].in_use /\ pms[i].id = pms[j].id => i = j
Choosing == {"sleep", "relock", "assign", "commit"}
OnRecord ==
  /\ \A n \in Slots :
       tasks[n].state = "SCHEDULED" => AlreadyRegistered(pms, tasks[n].pm)
  /\ sched.pc \in Choosing => AlreadyRegistered(pms, sched.pm)

\* The tasks with a pid are those that are SCHEDULED or about to be.
Committing(n) == sched.pc = "commit" /\ n = sched.idx
Numbered ==
  /\ \A n \in Slots : tasks[n].pid # PID_INVALID
                        <=> tasks[n].state = "SCHEDULED" \/ Committing(n)
  /\ sched.pc # "idle" => tasks[sched.idx].state # "SCHEDULED"

\* pid is the pid of a task of PM p.
Owner(p, pid) ==
  /\ pid # PID_INVALID
  /\ \E n \in Slots : /\ tasks[n].pid = pid
                      /\ Committing(n) => sched.pm = p
                      /\ ~Committing(n) => tasks[n].pm = p

OfTask(m) == m.type \in {"Task", "TaskFinished"}

Owned ==
  /\ \A m \in net : OfTask(m) => Owner(m.pm, m.pid)
  /\ \A p \in PM : \A r \in run[p] : Owner(p, r.pid)
  /\ lsn.pc = "finish" => Owner(lsn.pm, lsn.pid)

OnePlace ==
  /\ \A m, k \in net : OfTask(m) /\ OfTask(k) /\ m.pid = k.pid => m = k
  /\ \A p, q \in PM : \A r \in run[p] : \A s \in run[q] :
       r.pid = s.pid => p = q /\ r = s
  /\ \A m \in net : OfTask(m) => \A p \in PM : \A r \in run[p] : r.pid # m.pid
  /\ lsn.pc = "finish" => /\ \A m \in net : OfTask(m) => m.pid # lsn.pid
                          /\ \A p \in PM : \A r \in run[p] : r.pid # lsn.pid

Tables == OneRecord /\ OnRecord /\ Numbered /\ CountsMatch
Places == Owned /\ OnePlace

CountInv == Steady => NoFailures /\ Tables /\ Places

-----------------------------------------------------------------------------
(* Counting.                                                               *)

\* The SCHEDULED tasks of a PM.
On(L, p) == {n \in Slots : L[n].state = "SCHEDULED" /\ L[n].pm = p}
Half(p) == IF lsn.pc = "finish" /\ lsn.pm = p THEN 1 ELSE 0

\* CountsMatch in these terms, before and after a step.
LEMMA CountsAre ==
  /\ CountsMatch <=> \A i \in Entries : pms[i].in_use =>
       pms[i].tasks = Cardinality(On(tasks, pms[i].id)) - Half(pms[i].id)
  /\ CountsMatch' <=> \A i \in Entries : pms'[i].in_use =>
       pms'[i].tasks = Cardinality(On(tasks', pms'[i].id)) - Half(pms[i].id)'
  BY DEF CountsMatch, On, Half

\* A PM's tasks are finitely many.
LEMMA OnFinite ==
  ASSUME NEW L, NEW p
  PROVE  IsFiniteSet(On(L, p)) /\ Cardinality(On(L, p)) \in Nat
<1>1. IsFiniteSet(Slots)
  BY NumTasksAssumption, FS_Interval DEF Slots
<1>2. On(L, p) \in SUBSET Slots
  BY DEF On
<1> QED
  BY <1>1, <1>2, FS_Subset, FS_CardinalityType

\* With one record for each PM, counting changes that one record.
LEMMA AddTasksEffect ==
  ASSUME NEW P \in PMTable, NEW p, NEW d \in Int,
         \A i, j \in Entries : P[i].in_use /\ P[j].in_use /\ P[i].id = P[j].id => i = j
  PROVE  \A i \in Entries : P[i].in_use =>
           AddTasks(P, p, d)[i].tasks = P[i].tasks + (IF P[i].id = p THEN d ELSE 0)
<1> SUFFICES ASSUME NEW i \in Entries, P[i].in_use
             PROVE  AddTasks(P, p, d)[i].tasks
                      = P[i].tasks + (IF P[i].id = p THEN d ELSE 0)
  OBVIOUS
<1>0. P[i] \in PMRecord /\ P[i].tasks \in Int
  BY DEF PMTable, PMRecord
<1>1. CASE EntriesOf(P, p) = {}
  <2>1. P[i].id # p
    BY <1>1 DEF EntriesOf
  <2> QED
    BY <1>0, <1>1, <2>1 DEF AddTasks
<1>2. CASE EntriesOf(P, p) # {}
  <2> DEFINE k == FirstOf(EntriesOf(P, p))
  <2>1. k \in Entries /\ P[k].in_use /\ P[k].id = p
    BY <1>2, FirstOfIn, SlotsNat DEF EntriesOf
  <2>2. AddTasks(P, p, d) = [P EXCEPT ![k].tasks = @ + d]
    BY <1>2 DEF AddTasks
  <2> HIDE DEF k
  <2>3. CASE i = k
    BY <1>0, <2>1, <2>2, <2>3 DEF PMTable, PMRecord
  <2>4. CASE i # k
    <3>1. P[i].id # p
      BY <2>1, <2>4
    <3> QED
      BY <1>0, <2>1, <2>2, <2>4, <3>1 DEF PMTable, PMRecord
  <2> QED
    BY <2>3, <2>4
<1> QED
  BY <1>1, <1>2

-----------------------------------------------------------------------------
(* What keeps the tables.                                                  *)

\* M has the SCHEDULED tasks and the pids of L.
SameScheduled(L, M) ==
  \A n \in Slots : /\ M[n].state = "SCHEDULED" <=> L[n].state = "SCHEDULED"
                   /\ M[n].pid = L[n].pid
                   /\ M[n].pid # PID_INVALID => M[n].pm = L[n].pm

\* A new PENDING task goes where no task is.
LEMMA AddToSame ==
  ASSUME NEW L \in TaskTable, NEW t \in Task, t.state = "PENDING", t.pid = PID_INVALID,
         \A n \in Slots : L[n].state = "INACTIVE" => L[n].pid = PID_INVALID
  PROVE  SameScheduled(L, AddTo(L, t))
<1> DEFINE u == [t EXCEPT !.pm = NoPM]
<1>1. u.state = "PENDING" /\ u.pid = PID_INVALID
  BY DEF Task
<1>2. \A n \in Slots : \/ AddTo(L, t)[n] = L[n]
                       \/ L[n].state = "INACTIVE" /\ AddTo(L, t)[n] = u
  BY AddToEffect
<1> HIDE DEF u
<1> QED
  BY <1>1, <1>2 DEF SameScheduled

\* RemovePreferredPmId changes no task in these terms.
LEMMA RemovePreferredSame ==
  ASSUME NEW L \in TaskTable, NEW id
  PROVE  SameScheduled(L, RemovePreferredPmId(L, id))
<1> SUFFICES ASSUME NEW n \in Slots
             PROVE  LET r == RemovePreferredPmId(L, id)[n] IN
                    r.state = L[n].state /\ r.pm = L[n].pm /\ r.pid = L[n].pid
  BY DEF SameScheduled
<1> DEFINE u == [L[n] EXCEPT !.res.pmid = 0]
<1>1. u.state = L[n].state /\ u.pm = L[n].pm /\ u.pid = L[n].pid
  BY DEF TaskTable, Task
<1>2. RemovePreferredPmId(L, id)[n] \in {L[n], u}
  BY DEF RemovePreferredPmId
<1> HIDE DEF u
<1> QED
  BY <1>1, <1>2

\* The tasks of the PMs stay the same then.
LEMMA OnSame ==
  ASSUME Numbered, SameScheduled(tasks, tasks'), NEW p
  PROVE  On(tasks', p) = On(tasks, p)
  BY DEF Numbered, SameScheduled, On

\* A step that changes no SCHEDULED task and no record, and in which the
\* Scheduler neither comes to a commit nor leaves one.
LEMMA TablesSame ==
  ASSUME TypeInv, Tables, SameScheduled(tasks, tasks'), UNCHANGED pms,
         sched.pc = "commit" \/ sched'.pc = "commit" => sched' = sched,
         sched'.pc # "idle" => sched'.idx \in Slots
                               /\ tasks[sched'.idx].state # "SCHEDULED",
         sched'.pc \in Choosing => AlreadyRegistered(pms, sched'.pm),
         lsn'.pc = "finish" \/ lsn.pc = "finish" => lsn' = lsn
  PROVE  /\ Tables'
         /\ \A p \in PM : \A pid \in Nat : Owner(p, pid) => Owner(p, pid)'
<1>1. \A n \in Slots : Committing(n)' <=> Committing(n)
  BY DEF Committing
<1>2. Numbered'
  BY <1>1 DEF Tables, Numbered, SameScheduled
<1>3. OneRecord' /\ OnRecord'
  BY DEF Tables, OneRecord, OnRecord, SameScheduled, Numbered
<1>4. CountsMatch'
  <2>1. \A p : On(tasks', p) = On(tasks, p)
    BY OnSame DEF Tables
  <2>2. \A p : Half(p)' = Half(p)
    BY DEF Half
  <2> QED
    BY <2>1, <2>2, CountsAre DEF Tables
<1>5. \A p \in PM : \A pid \in Nat : Owner(p, pid) => Owner(p, pid)'
  BY <1>1 DEF Owner, SameScheduled, Committing
<1> QED
  BY <1>2, <1>3, <1>4, <1>5 DEF Tables

-----------------------------------------------------------------------------
(* What keeps the places of pids.                                          *)

\* The pids in their places have their types.
LEMMA PlaceTypes ==
  ASSUME TypeInv
  PROVE  /\ \A m \in net : m.pm \in PM /\ m.pid \in Nat
         /\ \A p \in PM : \A r \in run[p] : r.pid \in Nat
         /\ lsn.pid \in Nat /\ (lsn.pc = "finish" => lsn.pm \in PM)
<1>1. net \subseteq Message /\ run \in [PM -> SUBSET [pid : Nat, name : Names \cup {NoName}]]
  BY DEF TypeInv, TypeOK, EnvTypes
<1>2. lsn.pid \in Nat /\ (lsn.pc = "finish" => lsn.pm \in PM)
  BY DEF TypeInv, TypeOK, ThreadTypes, LsnThread
<1> QED
  BY <1>1, <1>2 DEF Message

\* Places may be left, and owners stay.
LEMMA PlacesFewer ==
  ASSUME TypeInv, Places,
         \A p \in PM : \A pid \in Nat : Owner(p, pid) => Owner(p, pid)',
         \A m \in net' : OfTask(m) => m \in net,
         \A p \in PM : run'[p] \subseteq run[p],
         lsn'.pc = "finish" => lsn' = lsn
  PROVE  Places'
<1>1. Owned'
  BY PlaceTypes DEF Places, Owned, OfTask
<1>2. OnePlace'
  BY DEF Places, OnePlace, OfTask
<1> QED
  BY <1>1, <1>2 DEF Places

\* Owners depend on the task table and the Scheduler only.
LEMMA OwnersSame ==
  ASSUME UNCHANGED <<tasks, sched>>, NEW p, NEW pid
  PROVE  Owner(p, pid)' <=> Owner(p, pid)
  BY DEF Owner, Committing

\* A task's place is its PM, once started: the message is gone.
LEMMA PlaceStarted ==
  ASSUME TypeInv, Places, UNCHANGED <<tasks, sched, lsn>>, NEW p \in PM, NEW m \in net,
         OfTask(m), m.pm = p, NEW u, u.pid = m.pid, net' = net \ {m},
         \A q \in PM : run'[q] = IF q = p THEN run[q] \cup {u} ELSE run[q]
  PROVE  Places'
<1>1. Owner(p, m.pid) /\ \A q \in PM : \A r \in run[q] : r.pid # u.pid
  BY DEF Places, Owned, OnePlace
<1>2. \A k \in net' : OfTask(k) => k.pid # u.pid
  BY DEF Places, OnePlace
<1>3. lsn.pc = "finish" => lsn.pid # u.pid
  BY DEF Places, OnePlace
<1>4. Owned'
  <2>1. \A k \in net' : OfTask(k) => Owner(k.pm, k.pid)
    BY DEF Places, Owned
  <2>2. \A q \in PM : \A r \in run'[q] : Owner(q, r.pid)
    BY <1>1 DEF Places, Owned
  <2>3. lsn.pc = "finish" => Owner(lsn.pm, lsn.pid)
    BY DEF Places, Owned
  <2> QED
    BY <2>1, <2>2, <2>3, OwnersSame DEF Owned, OfTask
<1>5. OnePlace'
  <2>0. \A q \in PM : \A r \in run'[q] : r \in run[q] \/ (q = p /\ r = u)
    OBVIOUS
  <2>1. \A k, l \in net' : OfTask(k) /\ OfTask(l) /\ k.pid = l.pid => k = l
    BY DEF Places, OnePlace
  <2>2. \A q, o \in PM : \A r \in run'[q] : \A s \in run'[o] :
          r.pid = s.pid => q = o /\ r = s
    <3> SUFFICES ASSUME NEW q \in PM, NEW o \in PM, NEW r \in run'[q], NEW s \in run'[o],
                        r.pid = s.pid
                 PROVE  q = o /\ r = s
      OBVIOUS
    <3>1. r \in run[q] \/ (q = p /\ r = u)
      BY <2>0
    <3>2. s \in run[o] \/ (o = p /\ s = u)
      BY <2>0
    <3> QED
      BY <1>1, <3>1, <3>2 DEF Places, OnePlace
  <2>3. \A k \in net' : OfTask(k) => \A q \in PM : \A r \in run'[q] : r.pid # k.pid
    <3> SUFFICES ASSUME NEW k \in net', OfTask(k), NEW q \in PM, NEW r \in run'[q]
                 PROVE  r.pid # k.pid
      OBVIOUS
    <3>1. r \in run[q] \/ (q = p /\ r = u)
      BY <2>0
    <3> QED
      BY <1>2, <3>1 DEF Places, OnePlace
  <2>4. lsn.pc = "finish" => /\ \A k \in net' : OfTask(k) => k.pid # lsn.pid
                             /\ \A q \in PM : \A r \in run'[q] : r.pid # lsn.pid
    <3>1. lsn.pc = "finish" => /\ \A k \in net : OfTask(k) => k.pid # lsn.pid
                               /\ \A q \in PM : \A r \in run[q] : r.pid # lsn.pid
      BY DEF Places, OnePlace
    <3> QED
      BY <1>3, <2>0, <3>1
  <2> QED
    BY <2>1, <2>2, <2>3, <2>4 DEF OnePlace, OfTask
<1> QED
  BY <1>4, <1>5 DEF Places

\* Once ended, it is the report.
LEMMA PlaceEnded ==
  ASSUME TypeInv, Places, UNCHANGED <<tasks, sched, lsn>>, NEW p \in PM, NEW x \in run[p],
         \A m \in net' : OfTask(m) => m \in net \/ m = Finished(p, x.pid),
         \A q \in PM : run'[q] \subseteq run[q],
         \A q \in PM : \A r \in run'[q] : r.pid # x.pid
  PROVE  Places'
<1> DEFINE f == Finished(p, x.pid)
<1>0. f.pm = p /\ f.pid = x.pid
  BY DEF Finished, Msg
<1> HIDE DEF f
<1>a. \A m \in net' : OfTask(m) => m \in net \/ m = f
  BY DEF f
<1>1. Owner(p, x.pid) /\ \A m \in net : OfTask(m) => m.pid # x.pid
  BY DEF Places, Owned, OnePlace
<1>2. lsn.pc = "finish" => lsn.pid # x.pid
  BY DEF Places, OnePlace
<1>3. Owned'
  <2>1. \A k \in net' : OfTask(k) => Owner(k.pm, k.pid)
    BY <1>0, <1>a, <1>1 DEF Places, Owned
  <2>2. \A q \in PM : \A r \in run'[q] : Owner(q, r.pid)
    BY DEF Places, Owned
  <2>3. lsn.pc = "finish" => Owner(lsn.pm, lsn.pid)
    BY DEF Places, Owned
  <2> QED
    BY <2>1, <2>2, <2>3, OwnersSame DEF Owned, OfTask
<1>4. OnePlace'
  <2>1. \A k, l \in net' : OfTask(k) /\ OfTask(l) /\ k.pid = l.pid => k = l
    BY <1>0, <1>a, <1>1 DEF Places, OnePlace
  <2>2. \A q, o \in PM : \A r \in run'[q] : \A s \in run'[o] :
          r.pid = s.pid => q = o /\ r = s
    BY DEF Places, OnePlace
  <2>3. \A k \in net' : OfTask(k) => \A q \in PM : \A r \in run'[q] : r.pid # k.pid
    BY <1>0, <1>a DEF Places, OnePlace
  <2>4. lsn.pc = "finish" => /\ \A k \in net' : OfTask(k) => k.pid # lsn.pid
                             /\ \A q \in PM : \A r \in run'[q] : r.pid # lsn.pid
    BY <1>0, <1>a, <1>2 DEF Places, OnePlace
  <2> QED
    BY <2>1, <2>2, <2>3, <2>4 DEF OnePlace, OfTask
<1> QED
  BY <1>3, <1>4 DEF Places

-----------------------------------------------------------------------------
(* The initial state and the steps.                                        *)

\* At the start no task has a pid and no PM a record.
LEMMA CountInit == Init => CountInv
<1> SUFFICES ASSUME Init PROVE NoFailures /\ Tables /\ Places
  BY DEF CountInv
<1>1. \A n \in Slots : tasks[n].state # "SCHEDULED" /\ tasks[n].pid = PID_INVALID
  BY DEF Init, InitialStartUp, PendingTask, InitTask
<1>2. NoFailures
  BY DEF Init, NoFailures, IdleCmd
<1>3. \A i \in Entries : ~pms[i].in_use
  BY DEF Init, NoPMs, NoPMRecord
<1>4. Numbered /\ OneRecord /\ OnRecord /\ CountsMatch
  BY <1>1, <1>3, IdleTypes DEF Init, Numbered, Committing, OneRecord, OnRecord,
     CountsMatch, Choosing
<1>5. Places
  BY IdleTypes DEF Init, Places, Owned, OnePlace
<1> QED
  BY <1>2, <1>4, <1>5 DEF Tables

\* The Scheduler, but for assigning a pid and for the commit.
LEMMA SearchCounts ==
  ASSUME TypeInv, TypeInv', Tables, Places,
         \/ SchedPoll \/ SchedFind \/ SchedPreferred \/ SchedEligible
         \/ SchedWake \/ SchedRelock \/ SchedThrow
  PROVE  Tables' /\ Places'
<1> USE DEF tmVars, envVars, schedVars
<1>0. UNCHANGED <<pms, lsn, net, run>>
  BY DEF SchedPoll, SchedFind, SchedPreferred, SchedEligible, SchedWake, SchedRelock,
         SchedThrow
<1>1. SameScheduled(tasks, tasks')
  <2>1. tasks' = tasks \/ \E id : tasks' = RemovePreferredPmId(tasks, id)
    BY DEF SchedPoll, SchedFind, SchedPreferred, PreferredFound, PreferredMissing,
           SchedEligible, SchedWake, SchedRelock, SchedThrow
  <2>2. SameScheduled(tasks, tasks)
    BY DEF SameScheduled
  <2> QED
    BY <2>1, <2>2, RemovePreferredSame DEF TypeInv, TypeOK, TableTypes
<1>2. ASSUME sched.pc = "commit" \/ sched'.pc = "commit" => sched' = sched,
             sched'.pc # "idle" => sched'.idx \in Slots
                                   /\ tasks[sched'.idx].state # "SCHEDULED",
             sched'.pc \in Choosing => AlreadyRegistered(pms, sched'.pm)
      PROVE  Tables' /\ Places'
  <2>1. /\ Tables'
        /\ \A p \in PM : \A pid \in Nat : Owner(p, pid) => Owner(p, pid)'
    BY <1>0, <1>1, <1>2, TablesSame
  <2>2. Places'
    BY <1>0, <2>1, PlacesFewer
  <2> QED
    BY <2>1, <2>2
<1>3. sched \in SchedThread /\ sched.idx \in Slots
  BY DEF TypeInv, TypeOK, ThreadTypes, SchedThread
<1>4. CASE sched' = sched
  BY <1>2, <1>3, <1>4 DEF Tables, Numbered, OnRecord
<1>5. CASE sched' = IdleSched /\ sched.pc # "commit"
  BY <1>2, <1>5, IdleTypes DEF Choosing
<1>6. CASE SchedFind
  <2>1. AnyPending(tasks) /\ sched.pc = "idle"
    BY <1>6 DEF SchedFind, SomethingToSchedule
  <2>2. sched'.idx = FindPendingTask(tasks) /\ sched'.pc \in {"preferred", "eligible"}
    BY <1>6 DEF SchedFind, IdleSched
  <2>3. sched'.idx \in Slots /\ tasks[sched'.idx].state = "PENDING"
    BY <2>1, <2>2, FindPendingIn
  <2> QED
    BY <1>2, <2>1, <2>2, <2>3 DEF Choosing
<1>7. ASSUME NEW i \in Entries, pms[i].in_use, ChosenPM(pms[i].id),
             sched.pc \in {"preferred", "eligible"}
      PROVE  Tables' /\ Places'
  <2>1. /\ sched'.pm = pms[i].id /\ sched'.idx = sched.idx
        /\ sched'.pc \in {"sleep", "assign"}
    BY <1>3, <1>7 DEF ChosenPM, SchedThread
  <2>2. AlreadyRegistered(pms, pms[i].id)
    BY <1>7 DEF AlreadyRegistered, EntriesOf
  <2> QED
    BY <1>2, <1>3, <1>7, <2>1, <2>2 DEF Tables, Numbered
<1>8. CASE SchedPreferred
  <2>1. sched.pc = "preferred" /\ sched.task.res.pmid \in Nat \ {0}
    BY <1>8 DEF SchedPreferred, TypeInv, TypeOK, ThreadTypes, SchedThread,
                Resources, PreferenceSet
  <2>2. CASE PreferredFound
    BY <1>7, <2>1, <2>2, MatchingIsPM DEF PreferredFound
  <2>3. CASE PreferredMissing
    BY <1>5, <2>1, <2>3 DEF PreferredMissing
  <2> QED
    BY <1>8, <2>2, <2>3 DEF SchedPreferred
<1>9. CASE SchedEligible
  <2> DEFINE E == EligibleFrom(pms, infoIndex, sched.j, sched.task.res)
  <2>1. sched.pc = "eligible" /\ sched.j \in Int
    BY <1>3, <1>9 DEF SchedEligible, SchedThread
  <2>2. CASE E # {} /\ ChosenPM(pms[FirstOf(E)].id)
    <3>1. FirstOf(E) \in Entries /\ pms[FirstOf(E)].in_use
      BY <2>1, <2>2, EligibleIsPM DEF Fits
    <3> QED
      BY <1>7, <2>1, <2>2, <3>1
  <2>3. CASE sched' = [sched EXCEPT !.j = @ + 1]
    <3>1. sched'.pc = "eligible" /\ sched'.idx = sched.idx
      BY <1>3, <2>1, <2>3 DEF SchedThread
    <3> QED
      BY <1>2, <1>3, <2>1, <3>1 DEF Tables, Numbered, Choosing
  <2>4. CASE sched' = IdleSched
    BY <1>5, <2>1, <2>4
  <2> QED
    BY <1>9, <2>2, <2>3, <2>4 DEF SchedEligible
<1>10. ASSUME NEW pc \in {"relock", "assign"}, sched.pc \in {"sleep", "relock"},
              sched' = [sched EXCEPT !.pc = pc]
       PROVE  Tables' /\ Places'
  <2>1. sched'.pc = pc /\ sched'.pm = sched.pm /\ sched'.idx = sched.idx
    BY <1>3, <1>10 DEF SchedThread
  <2> QED
    BY <1>2, <1>3, <1>10, <2>1 DEF Tables, Numbered, OnRecord, Choosing
<1>11. CASE SchedWake
  BY <1>5, <1>10, <1>11 DEF SchedWake
<1>12. CASE SchedRelock
  BY <1>10, <1>12 DEF SchedRelock
<1> QED
  BY <1>4, <1>6, <1>8, <1>9, <1>11, <1>12 DEF SchedPoll, SchedThrow

\* A step that leaves the Scheduler, the records and the SCHEDULED tasks alone
\* and gives no pid a new place.
LEMMA LittleChanged ==
  ASSUME TypeInv, Tables, Places, SameScheduled(tasks, tasks'), UNCHANGED <<pms, sched>>,
         \A m \in net' : OfTask(m) => m \in net,
         \A p \in PM : run'[p] \subseteq run[p],
         lsn'.pc = "finish" \/ lsn.pc = "finish" => lsn' = lsn
  PROVE  Tables' /\ Places'
<1>1. sched.idx \in Slots
  BY DEF TypeInv, TypeOK, ThreadTypes, SchedThread
<1>2. /\ Tables'
      /\ \A p \in PM : \A pid \in Nat : Owner(p, pid) => Owner(p, pid)'
  <2>1. /\ sched.pc # "idle" => tasks[sched.idx].state # "SCHEDULED"
        /\ sched.pc \in Choosing => AlreadyRegistered(pms, sched.pm)
    BY DEF Tables, Numbered, OnRecord
  <2> QED
    BY <1>1, <2>1, TablesSame
<1> QED
  BY <1>2, PlacesFewer

\* The Scheduler numbers its task and sends it: the new pid is nowhere yet.
LEMMA AssignCounts ==
  ASSUME TypeInv, TypeInv', PidInv, Tables, Places, SchedAssign
  PROVE  Tables' /\ Places'
<1> USE DEF tmVars, envVars, schedVars
<1> DEFINE i == sched.idx
           t == Msg("Task", sched.pm, NextPID, sched.task.name)
<1>0. /\ sched \in SchedThread /\ i \in Slots /\ sched.pm \in PM
      /\ tasks \in TaskTable /\ NextPID \in Nat \ {0}
  BY DEF TypeInv, TypeOK, ThreadTypes, TableTypes, SchedThread, SchedAssign
<1>1. /\ sched.pc = "assign" /\ sched' = [sched EXCEPT !.pc = "commit"]
      /\ tasks' = [tasks EXCEPT ![i].pid = NextPID]
      /\ net' = net \cup {t} /\ UNCHANGED <<pms, lsn, run>>
  BY DEF SchedAssign, Send
<1>2. t.pm = sched.pm /\ t.pid = NextPID /\ OfTask(t)
  BY DEF Msg, OfTask
<1> HIDE DEF t
<1>3. sched'.pc = "commit" /\ sched'.idx = i /\ sched'.pm = sched.pm
  BY <1>0, <1>1 DEF SchedThread
<1>4. \A n \in Slots : /\ tasks'[n].state = tasks[n].state /\ tasks'[n].pm = tasks[n].pm
                       /\ tasks'[n].pid = IF n = i THEN NextPID ELSE tasks[n].pid
  BY <1>0, <1>1 DEF TaskTable, Task
<1>5. /\ \A n \in Slots : ~Committing(n) /\ (Committing(n)' <=> n = i)
      /\ tasks[i].state # "SCHEDULED" /\ tasks[i].pid = PID_INVALID
  BY <1>0, <1>1, <1>3 DEF Committing, Tables, Numbered
<1> HIDE DEF i
<1>6. Numbered'
  BY <1>0, <1>3, <1>4, <1>5 DEF Tables, Numbered, PID_INVALID, i
<1>7. OneRecord' /\ OnRecord'
  BY <1>1, <1>3, <1>4 DEF Tables, OneRecord, OnRecord, Choosing
<1>8. CountsMatch'
  <2>1. \A p : On(tasks', p) = On(tasks, p)
    BY <1>4 DEF On
  <2>2. \A p : Half(p)' = Half(p)
    BY <1>1 DEF Half
  <2> QED
    BY <1>1, <2>1, <2>2, CountsAre DEF Tables
<1>9. ASSUME NEW p, NEW pid, Owner(p, pid)
      PROVE  Owner(p, pid)' /\ pid # NextPID
  <2>1. PICK n \in Slots : tasks[n].pid = pid /\ pid # PID_INVALID /\ tasks[n].pm = p
    BY <1>5, <1>9 DEF Owner
  <2>2. n # i
    BY <1>5, <2>1
  <2>3. tasks[n].pid < NextPID /\ tasks[n].pid \in Nat
    BY <1>0 DEF PidInv, PidsFresh, TaskTable, Task
  <2> QED
    BY <1>0, <1>4, <1>5, <2>1, <2>2, <2>3 DEF Owner
<1>10. ASSUME NEW p, NEW pid, p = sched.pm, pid = NextPID
       PROVE  Owner(p, pid)'
  BY <1>10, <1>0, <1>3, <1>4, <1>5 DEF Owner, PID_INVALID
<1>11. Owned'
  <2>1. \A m \in net' : OfTask(m) => Owner(m.pm, m.pid)'
    BY <1>1, <1>2, <1>9, <1>10 DEF Places, Owned
  <2> QED
    BY <1>1, <1>9, <2>1 DEF Places, Owned, OfTask
<1>12. OnePlace'
  BY <1>1, <1>2, <1>9 DEF Places, Owned, OnePlace, OfTask
<1> QED
  BY <1>6, <1>7, <1>8, <1>11, <1>12 DEF Tables, Places

\* Its commit counts one more task, of the PM it was sent to.
LEMMA CommitCounts ==
  ASSUME TypeInv, TypeInv', Tables, Places, SchedCommit
  PROVE  Tables' /\ Places'
<1> USE DEF tmVars, envVars, schedVars
<1> DEFINE i == sched.idx
           q == sched.pm
<1>0. /\ sched \in SchedThread /\ i \in Slots /\ q \in PM
      /\ tasks \in TaskTable /\ pms \in PMTable
  BY DEF TypeInv, TypeOK, ThreadTypes, TableTypes, SchedThread, SchedCommit
<1>1. /\ sched.pc = "commit" /\ sched' = IdleSched /\ pms' = TaskHasStarted(pms, q)
      /\ UNCHANGED <<lsn, net, run>>
  BY DEF SchedCommit
<1>2. \A n \in Slots : /\ tasks'[n].pid = tasks[n].pid
                       /\ n # i => tasks'[n] = tasks[n]
                       /\ n = i => tasks'[n].state = "SCHEDULED" /\ tasks'[n].pm = q
  BY <1>0 DEF SchedCommit, TaskTable, Task
<1>3. /\ \A n \in Slots : (Committing(n) <=> n = i) /\ ~Committing(n)'
      /\ tasks[i].state # "SCHEDULED" /\ tasks[i].pid # PID_INVALID
      /\ AlreadyRegistered(pms, q)
  BY <1>0, <1>1, IdleTypes DEF Committing, Tables, Numbered, OnRecord, Choosing
<1> HIDE DEF i, q
<1>4. \A j \in Entries : pms'[j].in_use = pms[j].in_use /\ pms'[j].id = pms[j].id
  <2>1. \A j \in Entries : \A f \in {"in_use", "id", "res"} : pms'[j][f] = pms[j][f]
    BY <1>0, <1>1, CountsEffect
  <2>2. "in_use" \in {"in_use", "id", "res"} /\ "id" \in {"in_use", "id", "res"}
    OBVIOUS
  <2> QED
    BY <2>1, <2>2
<1>5. \A p : AlreadyRegistered(pms', p) <=> AlreadyRegistered(pms, p)
  BY <1>4 DEF AlreadyRegistered, EntriesOf
<1>6. Numbered'
  BY <1>1, <1>2, <1>3, IdleTypes DEF Tables, Numbered
<1>7. OneRecord' /\ OnRecord'
  BY <1>1, <1>2, <1>3, <1>4, <1>5, IdleTypes DEF Tables, OneRecord, OnRecord, Choosing
<1>8. CountsMatch'
  <2> SUFFICES ASSUME NEW j \in Entries, pms'[j].in_use
               PROVE  pms'[j].tasks = Cardinality(On(tasks', pms'[j].id)) - Half(pms[j].id)'
    BY CountsAre
  <2> DEFINE p == pms[j].id
  <2>0. pms[j].in_use /\ pms'[j].id = p /\ Half(pms[j].id)' = Half(p)
    BY <1>1, <1>4 DEF Half
  <2>1. pms'[j].tasks = pms[j].tasks + (IF p = q THEN 1 ELSE 0)
    BY <1>0, <1>1, <2>0, AddTasksEffect DEF TaskHasStarted, Tables, OneRecord
  <2>2. pms[j].tasks = Cardinality(On(tasks, p)) - Half(p) /\ Half(p) \in Int
    BY <2>0, CountsAre DEF Tables, Half
  <2> HIDE DEF p
  <2>3. IsFiniteSet(On(tasks, p)) /\ Cardinality(On(tasks, p)) \in Nat
    BY OnFinite
  <2>4. CASE p = q
    <3>1. On(tasks', p) = On(tasks, p) \cup {i} /\ i \notin On(tasks, p)
      BY <1>0, <1>2, <1>3, <2>4 DEF On
    <3>2. Cardinality(On(tasks', p)) = Cardinality(On(tasks, p)) + 1
      BY <2>3, <3>1, FS_AddElement
    <3> QED
      BY <2>0, <2>1, <2>2, <2>3, <2>4, <3>2
  <2>5. CASE p # q
    <3>1. On(tasks', p) = On(tasks, p)
      BY <1>0, <1>2, <1>3, <2>5 DEF On
    <3> QED
      BY <2>0, <2>1, <2>2, <2>3, <2>5, <3>1
  <2> QED
    BY <2>4, <2>5
<1>9. ASSUME NEW p, NEW pid, Owner(p, pid)
      PROVE  Owner(p, pid)'
  BY <1>2, <1>3, <1>9 DEF Owner, q
<1>10. Places'
  BY <1>1, <1>9, PlacesFewer
<1> QED
  BY <1>6, <1>7, <1>8, <1>10 DEF Tables

\* The Listener counts an ended task off, first for its PM.
LEMMA FinishedCounts ==
  ASSUME TypeInv, TypeInv', Tables, Places, TaskFinishedHandler
  PROVE  Tables' /\ Places'
<1> USE DEF LsnUnchanged, SchedUnchanged, PmsUnchanged
<1>0. pms \in PMTable
  BY DEF TypeInv, TypeOK, TableTypes
<1>1. PICK m \in net : /\ m.type = "TaskFinished" /\ net' = net \ {m}
                       /\ pms' = PMTaskFinished(pms, m.pm)
                       /\ lsn' = [IdleLsn EXCEPT !.pc = "finish", !.pm = m.pm,
                                                 !.pid = m.pid]
  BY DEF TaskFinishedHandler, Receive
<1>2. lsn.pc = "idle" /\ UNCHANGED <<tasks, sched, run>>
  BY DEF TaskFinishedHandler, ListenerReady
<1>3. lsn'.pc = "finish" /\ lsn'.pm = m.pm /\ lsn'.pid = m.pid /\ OfTask(m)
  BY <1>1 DEF IdleLsn, OfTask
<1>4. \A j \in Entries : pms'[j].in_use = pms[j].in_use /\ pms'[j].id = pms[j].id
  <2>1. \A j \in Entries : \A f \in {"in_use", "id", "res"} : pms'[j][f] = pms[j][f]
    BY <1>0, <1>1, CountsEffect
  <2>2. "in_use" \in {"in_use", "id", "res"} /\ "id" \in {"in_use", "id", "res"}
    OBVIOUS
  <2> QED
    BY <2>1, <2>2
<1>5. \A p : AlreadyRegistered(pms', p) <=> AlreadyRegistered(pms, p)
  BY <1>4 DEF AlreadyRegistered, EntriesOf
<1>6. Numbered' /\ OneRecord' /\ OnRecord'
  BY <1>2, <1>4, <1>5 DEF Tables, Numbered, Committing, OneRecord, OnRecord
<1>7. CountsMatch'
  <2> SUFFICES ASSUME NEW j \in Entries, pms'[j].in_use
               PROVE  pms'[j].tasks = Cardinality(On(tasks', pms'[j].id)) - Half(pms[j].id)'
    BY CountsAre
  <2> DEFINE p == pms[j].id
  <2>0. pms[j].in_use /\ pms'[j].id = p /\ tasks' = tasks
    BY <1>2, <1>4
  <2>1. pms'[j].tasks = pms[j].tasks + (IF p = m.pm THEN -1 ELSE 0)
    BY <1>0, <1>1, <2>0, AddTasksEffect DEF PMTaskFinished, Tables, OneRecord
  <2>2. pms[j].tasks = Cardinality(On(tasks, p))
    <3>1. Half(p) = 0 /\ Cardinality(On(tasks, p)) \in Nat
      BY <1>2, OnFinite DEF Half
    <3> QED
      BY <2>0, <3>1, CountsAre DEF Tables
  <2>3. Half(pms[j].id)' = IF p = m.pm THEN 1 ELSE 0
    BY <1>3, <2>0 DEF Half
  <2> HIDE DEF p
  <2>4. Cardinality(On(tasks, p)) \in Nat
    BY OnFinite
  <2> QED
    BY <2>0, <2>1, <2>2, <2>3, <2>4
<1>8. Owned'
  BY <1>1, <1>2, <1>3, OwnersSame DEF Places, Owned, OfTask
<1>9. OnePlace'
  BY <1>1, <1>2, <1>3 DEF Places, OnePlace, OfTask
<1> QED
  BY <1>6, <1>7, <1>8, <1>9 DEF Tables, Places

\* ... then in the task table: the task with that pid was one of that PM.
LEMMA FinishedListCounts ==
  ASSUME TypeInv, TypeInv', PidInv, Steady, Tables, Places, TaskFinishedList
  PROVE  Tables' /\ Places'
<1> USE DEF LsnUnchanged, SchedUnchanged, envVars
<1>0. tasks \in TaskTable /\ pms \in PMTable /\ lsn.pid \in Nat /\ sched.idx \in Slots
  BY DEF TypeInv, TypeOK, TableTypes, ThreadTypes, LsnThread, SchedThread
<1>1. /\ lsn.pc = "finish" /\ lsn' = IdleLsn /\ tasks' = TaskFinished(tasks, lsn.pid)
      /\ sched.pc # "commit" /\ UNCHANGED <<pms, sched, net, run>>
  BY DEF TaskFinishedList, ListFree, SchedHoldsList
<1>2. \A n \in Slots : ~Committing(n) /\ ~Committing(n)'
  BY <1>1 DEF Committing
<1>3. PICK k \in Slots : /\ tasks[k].pid = lsn.pid /\ lsn.pid # PID_INVALID
                         /\ tasks[k].pm = lsn.pm /\ tasks[k].state = "SCHEDULED"
  BY <1>1, <1>2 DEF Places, Owned, Owner, Tables, Numbered
<1>4. \A n \in Slots : n # k => tasks[n].pid # lsn.pid
  BY <1>3 DEF PidInv, UniquePidsUntilRestart, UniquePids, Steady
<1> DEFINE u == IF tasks[k].mode = MODE_NORMAL THEN InitTask
                ELSE [tasks[k] EXCEPT !.state = "PENDING", !.pid = PID_INVALID]
<1>5. u.state # "SCHEDULED" /\ u.pid = PID_INVALID
  BY <1>0 DEF TaskTable, Task, InitTask
<1>6. tasks' = [tasks EXCEPT ![k] = u]
  <2>1. WithPid(tasks, lsn.pid) = {k}
    BY <1>3, <1>4 DEF WithPid
  <2>2. FirstOf({k}) = k
    BY FirstOfIn, SlotsNat
  <2> QED
    BY <1>1, <2>1, <2>2 DEF TaskFinished
<1> HIDE DEF u
<1>7. \A n \in Slots : tasks'[n] = IF n = k THEN u ELSE tasks[n]
  BY <1>0, <1>6 DEF TaskTable
<1>8. Numbered'
  BY <1>0, <1>1, <1>2, <1>5, <1>7 DEF Tables, Numbered
<1>9. OneRecord' /\ OnRecord'
  BY <1>1, <1>5, <1>7 DEF Tables, OneRecord, OnRecord
<1>10. CountsMatch'
  <2> SUFFICES ASSUME NEW j \in Entries, pms'[j].in_use
               PROVE  pms'[j].tasks = Cardinality(On(tasks', pms'[j].id)) - Half(pms[j].id)'
    BY CountsAre
  <2> DEFINE p == pms[j].id
  <2>1. pms' = pms /\ Half(pms[j].id)' = 0
    BY <1>1, IdleTypes DEF Half
  <2>2. pms[j].tasks = Cardinality(On(tasks, p)) - (IF p = lsn.pm THEN 1 ELSE 0)
    BY <1>1, <2>1, CountsAre DEF Tables, Half
  <2> HIDE DEF p
  <2>3. IsFiniteSet(On(tasks, p)) /\ Cardinality(On(tasks, p)) \in Nat
    BY OnFinite
  <2>4. CASE p = lsn.pm
    <3>1. On(tasks', p) = On(tasks, p) \ {k} /\ k \in On(tasks, p)
      BY <1>3, <1>5, <1>7, <2>4 DEF On
    <3>2. Cardinality(On(tasks', p)) = Cardinality(On(tasks, p)) - 1
      BY <2>3, <3>1, FS_RemoveElement
    <3> QED
      BY <2>1, <2>2, <2>3, <2>4, <3>2 DEF p
  <2>5. CASE p # lsn.pm
    <3>1. On(tasks', p) = On(tasks, p)
      BY <1>3, <1>5, <1>7, <2>5 DEF On
    <3> QED
      BY <2>1, <2>2, <2>3, <2>5, <3>1 DEF p
  <2> QED
    BY <2>4, <2>5
<1>11. ASSUME NEW p, NEW pid, Owner(p, pid), pid # lsn.pid
       PROVE  Owner(p, pid)'
  BY <1>2, <1>3, <1>7, <1>11 DEF Owner
<1>12. Owned'
  BY <1>1, <1>11, IdleTypes DEF Places, Owned, OnePlace, OfTask
<1>13. OnePlace'
  BY <1>1, IdleTypes DEF Places, OnePlace, OfTask
<1> QED
  BY <1>8, <1>9, <1>10, <1>12, <1>13 DEF Tables, Places

\* A PM that registers has no record and no task yet.
LEMMA RegisterCounts ==
  ASSUME TypeInv, TypeInv', Tables, Places, RegPMHandler
  PROVE  Tables' /\ Places'
<1> USE DEF LsnUnchanged, SchedUnchanged, PmsUnchanged
<1>0. pms \in PMTable /\ PmRes \in [PM -> Resources]
  BY PmResAssumption DEF TypeInv, TypeOK, TableTypes
<1>1. lsn.pc = "idle" /\ UNCHANGED <<tasks, sched, run>>
  BY DEF RegPMHandler, ListenerReady
<1>2. PICK p \in PM :
        /\ net' = net \ {Msg("RegPM", p, 0, NoName)}
        /\ \/ UNCHANGED <<pms, lsn>>
           \/ /\ ~AlreadyRegistered(pms, p)
              /\ pms' = RegisterPM(pms, p, PmRes[p])
              /\ lsn' = [IdleLsn EXCEPT !.pc = "setTasks", !.pm = p]
  BY DEF RegPMHandler, Receive
<1>3. SameScheduled(tasks, tasks')
  BY <1>1 DEF SameScheduled
<1>4. lsn'.pc # "finish"
  BY <1>1, <1>2 DEF IdleLsn
<1>5. CASE pms' = pms
  BY <1>1, <1>2, <1>3, <1>4, <1>5, LittleChanged
<1>6. CASE /\ ~AlreadyRegistered(pms, p)
           /\ pms' = RegisterPM(pms, p, PmRes[p]) /\ pms' # pms
  <2> DEFINE u == [in_use |-> TRUE, id |-> p, tasks |-> 0, res |-> PmRes[p]]
  <2>1. PICK k \in Entries : /\ ~pms[k].in_use
                             /\ \A i \in Entries : pms'[i] = pms[i] \/ (i = k /\ pms'[i] = u)
    <3>1. CASE FreeEntries(pms) = {}
      <4>1. pms' = pms
        BY <1>6, <3>1 DEF RegisterPM
      <4> QED
        BY <1>6, <4>1
    <3>2. CASE FreeEntries(pms) # {}
      <4>1. /\ FirstOf(FreeEntries(pms)) \in Entries
            /\ ~pms[FirstOf(FreeEntries(pms))].in_use
        BY <3>2, FirstOfIn, SlotsNat DEF FreeEntries
      <4>2. pms' = [pms EXCEPT ![FirstOf(FreeEntries(pms))] = u]
        BY <1>6, <3>2 DEF RegisterPM
      <4> HIDE DEF u
      <4> QED
        BY <1>0, <4>1, <4>2 DEF PMTable
    <3> QED
      BY <3>1, <3>2
  <2>2. u.id = p /\ u.tasks = 0
    OBVIOUS
  <2> HIDE DEF u
  <2>3. \A i \in Entries : pms[i].in_use => pms'[i] = pms[i] /\ pms[i].id # p
    BY <1>6, <2>1 DEF AlreadyRegistered, EntriesOf
  <2>4. OneRecord'
    BY <2>1, <2>2, <2>3 DEF Tables, OneRecord
  <2>5. \A q : AlreadyRegistered(pms, q) => AlreadyRegistered(pms', q)
    BY <2>3 DEF AlreadyRegistered, EntriesOf
  <2>6. Numbered' /\ OnRecord'
    BY <1>1, <2>5 DEF Tables, Numbered, Committing, OnRecord
  <2>7. On(tasks, p) = {}
    BY <1>6 DEF Tables, OnRecord, On
  <2>8. CountsMatch'
    <3> SUFFICES ASSUME NEW j \in Entries, pms'[j].in_use
                 PROVE  pms'[j].tasks
                          = Cardinality(On(tasks', pms'[j].id)) - Half(pms[j].id)'
      BY CountsAre
    <3>1. /\ tasks' = tasks /\ Half(pms[j].id)' = 0 /\ Half(pms[j].id) = 0
          /\ Cardinality(On(tasks, p)) = 0
      BY <1>1, <1>4, <2>7, FS_EmptySet DEF Half
    <3> QED
      BY <2>1, <2>2, <3>1, CountsAre DEF Tables
  <2>9. Places'
    <3>1. \A q \in PM : \A pid \in Nat : Owner(q, pid) => Owner(q, pid)'
      BY <1>1, OwnersSame
    <3> QED
      BY <1>1, <1>2, <1>4, <3>1, PlacesFewer
  <2> QED
    BY <2>4, <2>6, <2>8, <2>9 DEF Tables
<1> QED
  BY <1>2, <1>5, <1>6

\* The Listener's other steps.
LEMMA ListenerCounts ==
  ASSUME TypeInv, TypeInv', PidInv, Steady, NoFailures, Tables, Places, Listener
  PROVE  NoFailures' /\ Tables' /\ Places'
<1> USE DEF tmVars, envVars, schedVars, LsnUnchanged, SchedUnchanged, PmsUnchanged
<1>0. tasks \in TaskTable /\ SameScheduled(tasks, tasks)
  BY DEF TypeInv, TypeOK, TableTypes, SameScheduled
<1>1. ~(PMRunningTaskHandler \/ PMRunningTaskAdd \/ PMRunningTaskCount)
  BY DEF PMRunningTaskHandler, PMRunningTaskAdd, PMRunningTaskCount, PidInv, NoReports,
         Steady
<1>2. UNCHANGED <<hb, pending_pms, cmd>>
  BY <1>1 DEF Listener, DMReady, DropMessage, RegPMHandler, RegPMSetTasks,
     PostTaskHandler, TaskFinishedHandler, TaskFinishedList
<1>3. NoFailures'
  BY <1>2 DEF NoFailures
<1>4. CASE DMReady \/ DropMessage
  <2>1. UNCHANGED <<tasks, pms, sched, run, lsn>> /\ net' \subseteq net
    BY <1>4 DEF DMReady, DropMessage, Receive
  <2> QED
    BY <1>0, <1>3, <2>1, LittleChanged
<1>5. CASE RegPMSetTasks
  <2>1. ~AlreadyRegistered(pending_pms, lsn.pm)
    BY DEF NoFailures, AlreadyRegistered, EntriesOf, NoPMs, NoPMRecord
  <2>2. UNCHANGED <<tasks, pms, sched, run, net>> /\ lsn.pc # "finish" /\ lsn' = IdleLsn
    BY <1>5, <2>1 DEF RegPMSetTasks
  <2> QED
    BY <1>0, <1>3, <2>2, IdleTypes, LittleChanged
<1>6. CASE PostTaskHandler
  <2>1. PICK d \in Posts : tasks' = AddTo(tasks, PendingTask(d))
    BY <1>6 DEF PostTaskHandler
  <2>2. UNCHANGED <<pms, sched, run, lsn, net>> /\ sched.pc # "commit"
    BY <1>6 DEF PostTaskHandler, ListFree, SchedHoldsList
  <2>3. PendingTask(d) \in Task
    BY PostsAssumption, PendingTaskType
  <2>4. PendingTask(d).state = "PENDING" /\ PendingTask(d).pid = PID_INVALID
    BY DEF PendingTask, InitTask
  <2>5. \A n \in Slots : tasks[n].state = "INACTIVE" => tasks[n].pid = PID_INVALID
    BY <2>2 DEF Tables, Numbered, Committing
  <2>6. SameScheduled(tasks, tasks')
    BY <1>0, <2>1, <2>3, <2>4, <2>5, AddToSame
  <2> QED
    BY <1>3, <2>2, <2>6, LittleChanged
<1> QED
  BY <1>1, <1>3, <1>4, <1>5, <1>6, RegisterCounts, FinishedCounts, FinishedListCounts
     DEF Listener

\* The timer, the commands and the heartbeat thread, which has no PM to fail.
LEMMA OtherThreadsCounts ==
  ASSUME TypeInv, TypeInv', NoFailures, Tables, Places,
         TimerExpires \/ StartTaskCommand \/ PerformKill \/ HeartbeatPMFailure
  PROVE  NoFailures' /\ Tables' /\ Places'
<1> USE DEF tmVars, envVars, schedVars, LsnUnchanged, SchedUnchanged, PmsUnchanged
<1>0. tasks \in TaskTable /\ SameScheduled(tasks, tasks)
  BY DEF TypeInv, TypeOK, TableTypes, SameScheduled
<1>1. ~HeartbeatPMFailure
  BY DEF HeartbeatPMFailure, NoFailures
<1>2. UNCHANGED <<hb, pending_pms, cmd, pms, sched, run, lsn>>
  BY <1>1 DEF TimerExpires, StartTaskCommand, PerformKill
<1>3. NoFailures'
  BY <1>2 DEF NoFailures
<1>4. CASE TimerExpires \/ PerformKill
  <2>1. tasks' = tasks /\ \A m \in net' : OfTask(m) => m \in net
    BY <1>4 DEF TimerExpires, PerformKill, OfTask, Msg
  <2> QED
    BY <1>0, <1>2, <1>3, <2>1, LittleChanged
<1>5. CASE StartTaskCommand
  <2> DEFINE new(d) == [PendingTask(d) EXCEPT !.res.pmid = 0, !.timeout = 0]
  <2>1. PICK d \in Posts : tasks' = AddTo(tasks, new(d))
    BY <1>5 DEF StartTaskCommand
  <2>2. net' = net /\ sched.pc # "commit"
    BY <1>5 DEF StartTaskCommand, ListFree, SchedHoldsList
  <2>3. new(d) \in Task
    BY PostsAssumption, StartTaskType
  <2>4. new(d).state = "PENDING" /\ new(d).pid = PID_INVALID
    BY DEF PendingTask, InitTask
  <2> HIDE DEF new
  <2>5. \A n \in Slots : tasks[n].state = "INACTIVE" => tasks[n].pid = PID_INVALID
    BY <2>2 DEF Tables, Numbered, Committing
  <2>6. SameScheduled(tasks, tasks')
    BY <1>0, <2>1, <2>3, <2>4, <2>5, AddToSame
  <2> QED
    BY <1>2, <1>3, <2>2, <2>6, LittleChanged
<1> QED
  BY <1>1, <1>4, <1>5

\* The PMs start tasks, end them and lose them.
LEMMA ProcessManagerCounts ==
  ASSUME TypeInv, TypeInv', PidInv, Steady, NoFailures, Tables, Places,
         NEW p \in PM, ProcessManager(p)
  PROVE  NoFailures' /\ Tables' /\ Places'
<1> USE DEF tmVars, envVars, schedVars, TMUnchanged
<1>0. /\ UNCHANGED <<tasks, pms, sched, lsn, hb, pending_pms, cmd>>
      /\ run \in [PM -> SUBSET [pid : Nat, name : Names \cup {NoName}]]
      /\ SameScheduled(tasks, tasks)
  BY DEF ProcessManager, PMStart, PMCrash, PMTask, PMTaskFinishes, PMLosesTask, PMKill,
         PMReset, PMRegInfo, TypeInv, TypeOK, EnvTypes, SameScheduled
<1>1. NoFailures'
  BY <1>0 DEF NoFailures
<1>2. Tables'
  <2>1. /\ sched.idx \in Slots
        /\ sched.pc # "idle" => tasks[sched.idx].state # "SCHEDULED"
        /\ sched.pc \in Choosing => AlreadyRegistered(pms, sched.pm)
    BY DEF Tables, Numbered, OnRecord, TypeInv, TypeOK, ThreadTypes, SchedThread
  <2> QED
    BY <1>0, <2>1, TablesSame
<1> SUFFICES Places'
  BY <1>1, <1>2
<1>3. ASSUME \A m \in net' : OfTask(m) => m \in net,
             \A q \in PM : run'[q] \subseteq run[q]
      PROVE  Places'
  BY <1>0, <1>3, LittleChanged
<1>4. CASE PMStart(p)
  <2>1. run' = run /\ \A m \in net' : OfTask(m) => m \in net
    BY <1>4 DEF PMStart, OfTask, Msg
  <2> QED
    BY <1>3, <2>1
<1>5. CASE PMCrash(p) \/ PMLosesTask(p) \/ PMReset(p)
  <2>1. net' \subseteq net /\ \A q \in PM : run'[q] \subseteq run[q]
    BY <1>0, <1>5 DEF PMCrash, PMLosesTask, PMReset, Receive
  <2> QED
    BY <1>3, <2>1
<1>6. CASE PMTask(p)
  <2>1. PICK m \in net : /\ m.type = "Task" /\ m.pm = p /\ net' = net \ {m}
                         /\ run' = [run EXCEPT ![p] = @ \cup
                                      {[pid |-> m.pid, name |-> m.name]}]
    BY <1>6 DEF PMTask, Receive
  <2> DEFINE u == [pid |-> m.pid, name |-> m.name]
  <2>2. u.pid = m.pid /\ OfTask(m)
    BY <2>1 DEF OfTask
  <2>3. run' = [run EXCEPT ![p] = @ \cup {u}]
    BY <2>1
  <2> HIDE DEF u
  <2>4. \A q \in PM : run'[q] = IF q = p THEN run[q] \cup {u} ELSE run[q]
    BY <1>0, <2>3
  <2> QED
    BY <1>0, <2>1, <2>2, <2>4, PlaceStarted
<1>7. CASE PMTaskFinishes(p)
  <2>1. PICK x \in run[p] : /\ run' = [run EXCEPT ![p] = @ \ {x}]
                            /\ net' = net \cup {Finished(p, x.pid)}
    BY <1>7 DEF PMTaskFinishes, Send
  <2>2. \A q \in PM : run'[q] = IF q = p THEN run[q] \ {x} ELSE run[q]
    BY <1>0, <2>1
  <2>3. \A q \in PM : \A r \in run'[q] : r.pid # x.pid
    <3>1. \A q \in PM : \A r \in run[q] : r.pid = x.pid => q = p /\ r = x
      BY DEF Places, OnePlace
    <3> QED
      BY <2>2, <3>1
  <2> QED
    BY <1>0, <2>1, <2>2, <2>3, PlaceEnded
<1>8. CASE PMKill(p)
  <2>1. PICK m \in net :
          /\ run' = [run EXCEPT ![p] = {r \in @ : r.pid # m.pid}]
          /\ net' = (net \ {m}) \cup
                    (IF RunsPid(p, m.pid) THEN {Finished(p, m.pid)} ELSE {})
    BY <1>8 DEF PMKill
  <2>2. \A q \in PM : run'[q] = IF q = p THEN {r \in run[q] : r.pid # m.pid} ELSE run[q]
    BY <1>0, <2>1
  <2>3. CASE ~RunsPid(p, m.pid)
    BY <1>3, <2>1, <2>2, <2>3
  <2>4. CASE RunsPid(p, m.pid)
    <3>1. PICK x \in run[p] : x.pid = m.pid
      BY <2>4 DEF RunsPid
    <3>2. \A q \in PM : \A r \in run'[q] : r.pid # x.pid
      BY <2>2, <3>1 DEF Places, OnePlace
    <3>3. \A k \in net' : k \in net \/ k = Finished(p, x.pid)
      BY <2>1, <3>1
    <3> QED
      BY <1>0, <2>2, <3>2, <3>3, PlaceEnded
  <2> QED
    BY <2>3, <2>4
<1>9. CASE PMRegInfo(p)
  BY <1>9 DEF PMRegInfo, PidInv, NoReports, Steady
<1> QED
  BY <1>4, <1>5, <1>6, <1>7, <1>8, <1>9 DEF ProcessManager

\* A PM declared failed, a command and a restart show in the counters.
LEMMA SteadyBefore ==
  ASSUME TypeInv, Next, Steady'
  PROVE  /\ Steady
         /\ ~RemoveAnyFailed /\ ~TMRestart /\ \A c \in Cmds : ~CmdReceive(c)
<1> USE DEF envVars, tmVars, schedVars
<1>1. ASSUME used' = used
      PROVE  Steady
  BY <1>1 DEF Steady
<1>2. ASSUME NEW w \in {"posts", "kills", "crashes", "losses"}, Use(w)
      PROVE  Steady
  BY <1>2 DEF Use, Steady, TypeInv, TypeOK, EnvTypes
<1>3. ASSUME NEW w \in {"removals", "cmds", "restarts"}, Use(w)
      PROVE  FALSE
  <2>1. used'[w] = used[w] + 1 /\ used[w] \in Nat
    BY <1>3 DEF Use, TypeInv, TypeOK, EnvTypes
  <2> QED
    BY <2>1 DEF Steady
<1>4. Scheduler \/ TimerExpires => used' = used
  BY DEF Scheduler, SchedPoll, SchedFind, SchedPreferred, SchedEligible, SchedWake,
         SchedRelock, SchedAssign, SchedThrow, SchedCommit, TimerExpires
<1>5. Listener => used' = used \/ Use("posts")
  BY DEF Listener, DMReady, DropMessage, RegPMHandler, RegPMSetTasks, PostTaskHandler,
         TaskFinishedHandler, TaskFinishedList, PMRunningTaskHandler, PMRunningTaskAdd,
         PMRunningTaskCount
<1>6. StartTaskCommand \/ PerformKill => Use("posts") \/ Use("kills")
  BY DEF StartTaskCommand, PerformKill
<1>7. RemoveAnyFailed => Use("removals")
  BY DEF RemoveAnyFailed
<1>8. HeartbeatPMFailure => used' = used
  BY DEF HeartbeatPMFailure
<1>9. ASSUME NEW c \in Cmds, ChangeMode(c), ~CmdReceive(c)
      PROVE  used' = used
  BY <1>9 DEF ChangeMode, CmdReadMode, CmdSetMode, CmdPublish, CmdVerifyDM, CmdClear,
              CmdClearCounts, CmdStartUp, CmdRestore
<1>10. \A c \in Cmds : CmdReceive(c) => Use("cmds")
  BY DEF CmdReceive
<1>11. ASSUME NEW p \in PM, ProcessManager(p)
       PROVE  used' = used \/ Use("crashes") \/ Use("losses")
  BY <1>11 DEF ProcessManager, PMStart, PMCrash, PMTask, PMTaskFinishes, PMLosesTask,
               PMKill, PMReset, PMRegInfo
<1>12. TMRestart => Use("restarts")
  BY DEF TMRestart
<1>13. ~RemoveAnyFailed /\ ~TMRestart /\ \A c \in Cmds : ~CmdReceive(c)
  BY <1>3, <1>7, <1>10, <1>12
<1>14. used' = used \/ \E w \in {"posts", "kills", "crashes", "losses"} : Use(w)
  BY <1>4, <1>5, <1>6, <1>8, <1>9, <1>11, <1>13 DEF Next, CommandHandler, PMHeartbeat
<1> QED
  BY <1>1, <1>2, <1>13, <1>14

\* Every step keeps the numbers right, or is one of the disturbances.
LEMMA CountStep ==
  ASSUME TypeInv, TypeInv', PidInv, CountInv, [Next]_vars
  PROVE  CountInv'
<1> SUFFICES ASSUME Steady' PROVE NoFailures' /\ Tables' /\ Places'
  BY DEF CountInv
<1> USE DEF envVars, tmVars, schedVars
<1>1. CASE UNCHANGED vars
  <2>1. Steady /\ UNCHANGED <<hb, pending_pms, cmd, tasks, pms, sched, run, lsn, net>>
    BY <1>1 DEF Steady, vars
  <2>2. NoFailures' /\ SameScheduled(tasks, tasks')
    BY <2>1 DEF CountInv, NoFailures, SameScheduled
  <2> QED
    BY <2>1, <2>2, LittleChanged DEF CountInv
<1>2. CASE Next
  <2>1. /\ Steady
        /\ ~RemoveAnyFailed /\ ~TMRestart /\ \A c \in Cmds : ~CmdReceive(c)
    BY <1>2, SteadyBefore
  <2>2. NoFailures /\ Tables /\ Places
    BY <2>1 DEF CountInv
  <2>3. CASE Scheduler
    <3>1. UNCHANGED <<hb, pending_pms, cmd>>
      BY <2>3 DEF Scheduler, SchedPoll, SchedFind, SchedPreferred, SchedEligible,
         SchedWake, SchedRelock, SchedAssign, SchedThrow, SchedCommit
    <3>2. NoFailures'
      BY <2>2, <3>1 DEF NoFailures
    <3> QED
      BY <2>2, <2>3, <3>2, SearchCounts, AssignCounts, CommitCounts DEF Scheduler
  <2>4. CASE TimerExpires \/ StartTaskCommand \/ PerformKill \/ HeartbeatPMFailure
    BY <2>2, <2>4, OtherThreadsCounts
  <2>5. CASE Listener
    BY <2>1, <2>2, <2>5, ListenerCounts
  <2>6. ASSUME NEW c \in Cmds, ChangeMode(c)
        PROVE  FALSE
    <3>1. cmd[c].pc = "idle"
      BY <2>2 DEF NoFailures
    <3> QED
      BY <2>1, <2>6, <3>1 DEF ChangeMode, CmdReadMode, CmdSetMode, CmdPublish,
         CmdVerifyDM, CmdClear, CmdClearCounts, CmdStartUp, CmdRestore
  <2>7. ASSUME NEW p \in PM, ProcessManager(p)
        PROVE  NoFailures' /\ Tables' /\ Places'
    BY <2>1, <2>2, <2>7, ProcessManagerCounts
  <2> QED
    BY <1>2, <2>1, <2>3, <2>4, <2>5, <2>6, <2>7 DEF Next, CommandHandler, PMHeartbeat
<1> QED
  BY <1>1, <1>2

\* As long as no PM was declared failed, no command changed the mode and the TM
\* was not restarted, the number of tasks pmList holds against each PM is the
\* number of its SCHEDULED tasks, less the one whose end is half handled: every
\* end is counted once and on the PM the task was sent to, whatever crashes,
\* kills and losses of tasks and messages come in between.
THEOREM CountsAreRight == Spec => []CountsMatchUndisturbed
<1>1. TypeInv /\ TypeInv' /\ PidInv /\ CountInv /\ [Next]_vars => CountInv'
  BY CountStep
<1>2. CountInv => CountsMatchUndisturbed
  BY DEF CountInv, Steady, Tables, CountsMatchUndisturbed
<1> QED
  BY CountInit, TypeInvariant, PidInvariant, <1>1, <1>2, PTL DEF Spec

=============================================================================
