------------------------ MODULE TaskManagerSchedule -------------------------
(***************************************************************************)
(* The Scheduler against the other threads, when no task has a schedule    *)
(* timeout: the task it selected stays the same until the commit           *)
(* (SelectedTaskKept), it commits to a PM that suits the task              *)
(* (SuitableAssignment), and every SCHEDULED task is on a PM whose failure *)
(* would make it PENDING again (ScheduledOnKnownPM).  With a timeout the   *)
(* Scheduler sleeps without list_mutex, and the selected task may go       *)
(* (TaskManagerThrow.cfg) or its PM fail (TaskManagerOrphan.cfg).          *)
(***************************************************************************)
EXTENDS TaskManagerProofs

NoTimeouts == /\ \A d \in Posts : d.timeout = 0
              /\ \A k \in 1 .. Len(Config) : Config[k].timeout = 0

\* No task has a timeout, so the Scheduler never gives up list_mutex.
NoDelay ==
  /\ \A n \in Slots : tasks[n].timeout = 0
  /\ SchedHoldsList => sched.task.timeout = 0
  /\ sched.pc \notin {"sleep", "relock"}

\* A PM that is registered, or whose PMFailure is still to come.
Known(p) == AlreadyRegistered(pms, p) \/ hb = p

\* The Scheduler's choice holds from the choice to the commit.
ChoiceHolds ==
  /\ sched.pc = "eligible" => ~IsPreferredPmIdSet(sched.task.res)
  /\ sched.pc \in {"assign", "commit"} => /\ Known(sched.pm)
                                          /\ Suits(sched.pm, sched.task.res)

SchedInv == NoDelay /\ SelectionIntact /\ ChoiceHolds /\ ScheduledOnKnownPM

-----------------------------------------------------------------------------
(* What the other threads do to the task table.                            *)

\* In M no slot has a timeout it did not have in L, and a SCHEDULED one was so
\* on the same PM or has just been filled, without a PM.
Harmless(L, M) ==
  \A n \in Slots :
    /\ M[n].timeout = L[n].timeout \/ M[n].timeout = 0
    /\ M[n].state = "SCHEDULED" =>
         \/ L[n].state = "SCHEDULED" /\ M[n].pm = L[n].pm
         \/ L[n].state = "INACTIVE" /\ M[n].pm = NoPM

\* Adding a task without a timeout is harmless.
LEMMA AddToHarmless ==
  ASSUME NEW L \in TaskTable, NEW t \in Task, t.timeout = 0
  PROVE  Harmless(L, AddTo(L, t))
<1> DEFINE u == [t EXCEPT !.pm = NoPM]
<1>1. u.timeout = 0 /\ u.pm = NoPM
  BY DEF Task
<1>2. \A n \in Slots : \/ AddTo(L, t)[n] = L[n]
                       \/ L[n].state = "INACTIVE" /\ AddTo(L, t)[n] = u
  BY AddToEffect
<1> QED
  BY <1>1, <1>2 DEF Harmless

\* So are TaskFinished, PMFailure, RemovePreferredPmId and ClearList.
LEMMA KeepHarmless ==
  ASSUME NEW L \in TaskTable, NEW pid \in Nat, NEW p, NEW id
  PROVE  /\ Harmless(L, TaskFinished(L, pid))
         /\ Harmless(L, PMFailure(L, p))
         /\ Harmless(L, RemovePreferredPmId(L, id))
         /\ Harmless(L, ClearList)
         /\ Harmless(L, L)
<1>0. InitTask.timeout = 0 /\ InitTask.state = "INACTIVE"
  BY DEF InitTask
<1>1. Harmless(L, TaskFinished(L, pid))
  <2> SUFFICES ASSUME NEW n \in Slots
               PROVE  LET r == TaskFinished(L, pid)[n] IN
                      /\ r.timeout = L[n].timeout \/ r.timeout = 0
                      /\ r.state = "SCHEDULED" => r = L[n]
    BY DEF Harmless
  <2> DEFINE u == [L[n] EXCEPT !.state = "PENDING", !.pid = PID_INVALID]
  <2>1. u.timeout = L[n].timeout /\ u.state = "PENDING"
    BY DEF TaskTable, Task
  <2>2. TaskFinished(L, pid)[n] \in {L[n], InitTask, u}
    BY TaskFinishedEffect
  <2> HIDE DEF u
  <2> QED
    BY <1>0, <2>1, <2>2
<1>2. Harmless(L, PMFailure(L, p))
  <2> SUFFICES ASSUME NEW n \in Slots
               PROVE  LET r == PMFailure(L, p)[n] IN
                      /\ r.timeout = L[n].timeout
                      /\ r.state = "SCHEDULED" => r = L[n]
    BY DEF Harmless
  <2> DEFINE u == [L[n] EXCEPT !.state = "PENDING"]
  <2>1. u.timeout = L[n].timeout /\ u.state = "PENDING"
    BY DEF TaskTable, Task
  <2>2. PMFailure(L, p)[n] \in {L[n], u}
    BY DEF PMFailure
  <2> HIDE DEF u
  <2> QED
    BY <2>1, <2>2
<1>3. Harmless(L, RemovePreferredPmId(L, id))
  <2> SUFFICES ASSUME NEW n \in Slots
               PROVE  LET r == RemovePreferredPmId(L, id)[n] IN
                      /\ r.timeout = L[n].timeout
                      /\ r.state = L[n].state /\ r.pm = L[n].pm
    BY DEF Harmless
  <2> DEFINE u == [L[n] EXCEPT !.res.pmid = 0]
  <2>1. u.timeout = L[n].timeout /\ u.state = L[n].state /\ u.pm = L[n].pm
    BY DEF TaskTable, Task
  <2>2. RemovePreferredPmId(L, id)[n] \in {L[n], u}
    BY DEF RemovePreferredPmId
  <2> HIDE DEF u
  <2> QED
    BY <2>1, <2>2
<1>4. Harmless(L, ClearList)
  BY <1>0 DEF Harmless, ClearList
<1>5. Harmless(L, L)
  BY DEF Harmless
<1> QED
  BY <1>1, <1>2, <1>3, <1>4, <1>5

\* A PM stays registered when its record stays.
LEMMA RegisteredKept ==
  ASSUME NEW P, NEW Q, NEW p,
         \A i \in Entries : P[i].in_use => Q[i].in_use /\ Q[i].id = P[i].id,
         AlreadyRegistered(P, p)
  PROVE  AlreadyRegistered(Q, p)
  BY DEF AlreadyRegistered, EntriesOf

\* What another thread than the Scheduler must respect: the task table while
\* the Scheduler holds list_mutex, and the PMs the Scheduler may rely on.
LEMMA OthersKeep ==
  ASSUME TypeInv, SchedInv, UNCHANGED sched,
         tasks' = tasks \/ ListFree, Harmless(tasks, tasks'),
         \A p \in PM : Known(p) => Known(p)'
  PROVE  SchedInv'
<1>1. NoDelay'
  BY DEF SchedInv, NoDelay, Harmless, SchedHoldsList
<1>2. SelectionIntact'
  BY DEF SchedInv, SelectionIntact, ListFree, SchedHoldsList
<1>3. ChoiceHolds'
  BY DEF SchedInv, ChoiceHolds, TypeInv, TypeOK, ThreadTypes
<1>4. ScheduledOnKnownPM'
  <2> SUFFICES ASSUME NEW n \in Slots, tasks'[n].state = "SCHEDULED",
                      tasks'[n].pm # NoPM
               PROVE  AlreadyRegistered(pms', tasks'[n].pm) \/ hb' = tasks'[n].pm
    BY DEF ScheduledOnKnownPM
  <2>1. tasks[n].state = "SCHEDULED" /\ tasks'[n].pm = tasks[n].pm
    BY DEF Harmless
  <2>2. tasks[n].pm \in PM
    BY <2>1 DEF TypeInv, TypeOK, TableTypes, TaskTable, Task
  <2>3. Known(tasks[n].pm)
    BY <2>1 DEF SchedInv, ScheduledOnKnownPM, Known
  <2>4. AlreadyRegistered(pms', tasks[n].pm) \/ hb' = tasks[n].pm
    BY <2>2, <2>3 DEF Known
  <2> QED
    BY <2>1, <2>4
<1> QED
  BY <1>1, <1>2, <1>3, <1>4 DEF SchedInv

\* Steps that leave the Scheduler, the task table and the PMs alone.
LEMMA SchedInvSame ==
  ASSUME TypeInv, SchedInv, UNCHANGED <<sched, tasks, pms, hb>>
  PROVE  SchedInv'
<1>1. Harmless(tasks, tasks')
  BY DEF Harmless
<1> QED
  BY <1>1, OthersKeep DEF Known

\* Steps that change the task table under list_mutex.
LEMMA SchedInvTasks ==
  ASSUME TypeInv, SchedInv, ListFree, Harmless(tasks, tasks'),
         UNCHANGED <<sched, pms, hb>>
  PROVE  SchedInv'
  BY OthersKeep DEF Known

\* Steps that change records of PMs without removing one.
LEMMA SchedInvPMs ==
  ASSUME TypeInv, SchedInv, UNCHANGED <<sched, tasks, hb>>,
         \A i \in Entries : pms[i].in_use => pms'[i].in_use /\ pms'[i].id = pms[i].id
  PROVE  SchedInv'
<1>1. Harmless(tasks, tasks')
  BY DEF Harmless
<1>2. \A p \in PM : Known(p) => Known(p)'
  BY RegisteredKept DEF Known
<1> QED
  BY <1>1, <1>2, OthersKeep

\* A commit changes the Scheduler's state.
LEMMA CommitMoves == UNCHANGED sched => ~SchedCommit
  BY IdleTypes DEF SchedCommit

\* Only the commit makes a slot SCHEDULED on a PM.
LEMMA OnlyCommitSchedules ==
  ASSUME NoTimeouts, TypeInv, Next, ~SchedCommit
  PROVE  Harmless(tasks, tasks')
<1> USE DEF tmVars, schedVars
<1>0. /\ tasks \in TaskTable /\ lsn \in LsnThread /\ sched \in SchedThread
      /\ Harmless(tasks, tasks)
  BY DEF TypeInv, TypeOK, TableTypes, ThreadTypes, Harmless
<1>1. CASE Scheduler
  <2>1. CASE SchedPreferred
    <3>1. Harmless(tasks, RemovePreferredPmId(tasks, sched.task.res.pmid))
      BY <1>0, KeepHarmless
    <3> QED
      BY <1>0, <2>1, <3>1 DEF SchedPreferred, PreferredFound, PreferredMissing
  <2>2. CASE SchedAssign
    BY <1>0, <2>2 DEF SchedAssign, Harmless, TaskTable, Task, SchedThread
  <2> QED
    BY <1>0, <1>1, <2>1, <2>2 DEF Scheduler, SchedPoll, SchedFind, SchedEligible,
       SchedWake, SchedRelock, SchedThrow
<1>2. CASE Listener
  <2>1. CASE PostTaskHandler
    <3>1. PICK d \in Posts : tasks' = AddTo(tasks, PendingTask(d))
      BY <2>1 DEF PostTaskHandler
    <3>2. PendingTask(d) \in Task
      BY PendingTaskType, PostsAssumption
    <3>3. PendingTask(d).timeout = 0
      BY DEF PendingTask, InitTask, NoTimeouts
    <3> QED
      BY <1>0, <3>1, <3>2, <3>3, AddToHarmless
  <2>2. CASE TaskFinishedList
    <3>1. Harmless(tasks, TaskFinished(tasks, lsn.pid))
      BY <1>0, KeepHarmless DEF LsnThread
    <3> QED
      BY <2>2, <3>1 DEF TaskFinishedList
  <2>3. CASE PMRunningTaskAdd
    <3> DEFINE t == [InitTask EXCEPT !.state = "SCHEDULED", !.pid = lsn.pid,
                                     !.name = lsn.name]
    <3>1. t \in Task /\ t.timeout = 0
      BY <1>0, InitTaskType DEF LsnThread, Task, InitTask
    <3>2. tasks' = AddTo(tasks, t)
      BY <2>3 DEF PMRunningTaskAdd
    <3> HIDE DEF t
    <3> QED
      BY <1>0, <3>1, <3>2, AddToHarmless
  <2> QED
    BY <1>0, <1>2, <2>1, <2>2, <2>3 DEF Listener, DMReady, DropMessage,
       RegPMHandler, RegPMSetTasks, TaskFinishedHandler, PMRunningTaskHandler,
       PMRunningTaskCount
<1>3. CASE \E c \in Cmds : ChangeMode(c)
  <2>1. PICK c \in Cmds : ChangeMode(c)
    BY <1>3
  <2>2. CASE CmdClear(c)
    BY <1>0, <2>2, KeepHarmless DEF CmdClear
  <2>3. CASE CmdStartUp(c)
    <3> DEFINE d == Config[cmd[c].next]
    <3>1. cmd[c].next \in 1 .. Len(Config)
      BY <2>3, ConfigAssumption
         DEF CmdStartUp, CmdThread, TypeInv, TypeOK, ThreadTypes
    <3>2. d \in TaskDef /\ d.timeout = 0
      BY <3>1, ConfigAssumption DEF NoTimeouts
    <3> HIDE DEF d
    <3>3. PendingTask(d) \in Task
      BY <3>2, PendingTaskType
    <3>4. PendingTask(d).timeout = 0
      BY <3>2 DEF PendingTask, InitTask
    <3>5. tasks' = AddTo(tasks, PendingTask(d))
      BY <2>3 DEF CmdStartUp, d
    <3> QED
      BY <1>0, <3>3, <3>4, <3>5, AddToHarmless
  <2> QED
    BY <1>0, <2>1, <2>2, <2>3 DEF ChangeMode, CmdReceive, CmdReadMode, CmdSetMode,
       CmdPublish, CmdVerifyDM, CmdClearCounts, CmdRestore
<1>4. CASE StartTaskCommand
  <2> DEFINE t(d) == [PendingTask(d) EXCEPT !.res.pmid = 0, !.timeout = 0]
  <2>1. PICK d \in Posts : tasks' = AddTo(tasks, t(d))
    BY <1>4 DEF StartTaskCommand
  <2>2. t(d) \in Task
    BY StartTaskType, PostsAssumption
  <2>3. t(d).timeout = 0
    BY DEF PendingTask, InitTask
  <2> HIDE DEF t
  <2> QED
    BY <1>0, <2>1, <2>2, <2>3, AddToHarmless
<1>5. CASE PerformKill \/ TimerExpires \/ RemoveAnyFailed
  BY <1>0, <1>5 DEF PerformKill, TimerExpires, RemoveAnyFailed
<1>6. CASE HeartbeatPMFailure
  BY <1>0, <1>6, KeepHarmless DEF HeartbeatPMFailure
<1>7. CASE \E p \in PM : ProcessManager(p)
  BY <1>0, <1>7 DEF ProcessManager, PMStart, PMCrash, PMTask, PMTaskFinishes,
     PMKill, PMReset, PMRegInfo, PMLosesTask, TMUnchanged
<1>8. CASE TMRestart
  BY <1>0, <1>8, KeepHarmless DEF TMRestart
<1> QED
  BY <1>1, <1>2, <1>3, <1>4, <1>5, <1>6, <1>7, <1>8 DEF Next, CommandHandler,
     PMHeartbeat

-----------------------------------------------------------------------------
(* The initial state and the steps.                                        *)

\* The invariant holds initially.
LEMMA SchedInit == NoTimeouts /\ Init => SchedInv
<1> SUFFICES ASSUME NoTimeouts, Init PROVE SchedInv
  OBVIOUS
<1>1. \A n \in Slots : tasks[n].timeout = 0 /\ tasks[n].state # "SCHEDULED"
  <2> SUFFICES ASSUME NEW n \in Slots
               PROVE  InitialStartUp[n].timeout = 0
                      /\ InitialStartUp[n].state # "SCHEDULED"
    BY DEF Init
  <2>1. CASE n < Len(Config)
    <3>1. n + 1 \in 1 .. Len(Config)
      BY <2>1, ConfigAssumption DEF Slots
    <3>2. Config[n + 1].timeout = 0
      BY <3>1 DEF NoTimeouts
    <3> QED
      BY <2>1, <3>2 DEF InitialStartUp, PendingTask, InitTask
  <2>2. CASE ~(n < Len(Config))
    BY <2>2 DEF InitialStartUp, InitTask
  <2> QED
    BY <2>1, <2>2
<1>2. sched.pc = "idle"
  BY IdleTypes DEF Init
<1> QED
  BY <1>1, <1>2 DEF SchedInv, NoDelay, SelectionIntact, SchedHoldsList,
     ChoiceHolds, ScheduledOnKnownPM

\* The Scheduler: its choice is of a registered PM that suits the task, and it
\* keeps list_mutex up to the commit.
LEMMA SchedulerSched == TypeInv /\ SchedInv /\ Scheduler => SchedInv'
<1> SUFFICES ASSUME TypeInv, SchedInv, Scheduler PROVE SchedInv'
  OBVIOUS
<1> USE DEF tmVars, envVars, schedVars
<1>0. /\ sched \in SchedThread /\ tasks \in TaskTable
      /\ \A n \in Slots : tasks[n] \in Task
  BY DEF TypeInv, TypeOK, ThreadTypes, TableTypes, TaskTable
<1>1. CASE SchedPoll \/ SchedThrow
  BY <1>1, SchedInvSame DEF SchedPoll, SchedThrow
<1>2. CASE SchedFind
  <2> DEFINE n == FindPendingTask(tasks)
  <2>1. n \in Slots /\ tasks[n].state = "PENDING"
    BY <1>2, FindPendingIn DEF SchedFind, SomethingToSchedule
  <2> HIDE DEF n
  <2>2. /\ sched'.pc = IF IsPreferredPmIdSet(tasks[n].res)
                       THEN "preferred" ELSE "eligible"
        /\ sched'.idx = n
        /\ sched'.task = TaskData(tasks[n])
    BY <1>2 DEF SchedFind, n, IdleSched
  <2>3. /\ sched'.task.name = tasks[n].name
        /\ sched'.task.res = tasks[n].res
        /\ sched'.task.timeout = tasks[n].timeout
    BY <2>2 DEF TaskData
  <2>4. UNCHANGED <<tasks, pms, hb>>
    BY <1>2 DEF SchedFind
  <2>5. NoDelay' /\ ChoiceHolds'
    BY <2>1, <2>2, <2>3, <2>4 DEF SchedInv, NoDelay, ChoiceHolds
  <2>6. SelectionIntact'
    BY <2>1, <2>2, <2>3, <2>4 DEF SelectionIntact
  <2>7. ScheduledOnKnownPM'
    BY <2>4 DEF SchedInv, ScheduledOnKnownPM
  <2> QED
    BY <2>5, <2>6, <2>7 DEF SchedInv
<1>3. ASSUME NEW p \in PM, ChosenPM(p), AlreadyRegistered(pms, p),
             Suits(p, sched.task.res), SchedHoldsList,
             UNCHANGED <<tasks, pms, hb>>
      PROVE  SchedInv'
  <2>1. /\ sched'.pc = "assign" /\ sched'.pm = p
        /\ sched'.idx = sched.idx /\ sched'.task = sched.task
    BY <1>0, <1>3 DEF ChosenPM, SchedThread, SchedInv, NoDelay
  <2> QED
    BY <1>3, <2>1 DEF SchedInv, NoDelay, SelectionIntact, ChoiceHolds, Known,
       SchedHoldsList, ScheduledOnKnownPM
<1>4. ASSUME sched' = IdleSched, Harmless(tasks, tasks'), UNCHANGED <<pms, hb>>
      PROVE  SchedInv'
  <2>1. sched'.pc = "idle"
    BY <1>4, IdleTypes
  <2>2. ScheduledOnKnownPM'
    BY <1>4 DEF SchedInv, ScheduledOnKnownPM, Harmless
  <2> QED
    BY <1>4, <2>1, <2>2 DEF SchedInv, NoDelay, SelectionIntact, ChoiceHolds,
       SchedHoldsList, Harmless
<1>5. CASE SchedPreferred
  <2>1. CASE PreferredFound
    <3> DEFINE k == FirstOf(MatchingId(pms, sched.task.res.pmid))
    <3>1. sched.task.res.pmid \in Nat \ {0}
      BY <1>0, <1>5 DEF SchedPreferred, TypeInv, PreferenceSet, SchedThread,
         Resources
    <3>2. k \in Entries /\ pms[k].in_use /\ pms[k].id \in PM
          /\ PmRes[pms[k].id].pmid = sched.task.res.pmid
      BY <2>1, <3>1, MatchingIsPM DEF PreferredFound
    <3>3. ChosenPM(pms[k].id)
      BY <2>1 DEF PreferredFound
    <3> HIDE DEF k
    <3>4. Suits(pms[k].id, sched.task.res)
      BY <3>1, <3>2 DEF Suits, IsPreferredPmIdSet
    <3>5. AlreadyRegistered(pms, pms[k].id)
      BY <3>2 DEF AlreadyRegistered, EntriesOf
    <3> QED
      BY <1>3, <1>5, <2>1, <3>2, <3>3, <3>4, <3>5
         DEF SchedPreferred, PreferredFound, SchedHoldsList
  <2>2. CASE PreferredMissing
    <3>1. Harmless(tasks, RemovePreferredPmId(tasks, sched.task.res.pmid))
          /\ Harmless(tasks, tasks)
      BY <1>0, KeepHarmless
    <3> QED
      BY <1>4, <1>5, <2>2, <3>1 DEF SchedPreferred, PreferredMissing
  <2> QED
    BY <1>5, <2>1, <2>2 DEF SchedPreferred
<1>6. CASE SchedEligible
  <2> DEFINE E == EligibleFrom(pms, infoIndex, sched.j, sched.task.res)
             k == FirstOf(E)
  <2>1. CASE E # {} /\ ChosenPM(pms[k].id)
    <3>1. k \in Entries /\ Fits(pms[k], sched.task.res) /\ pms[k].id \in PM
          /\ pms[k].res = PmRes[pms[k].id]
      BY <1>0, <2>1, EligibleIsPM DEF SchedThread
    <3>2. ~IsPreferredPmIdSet(sched.task.res)
      BY <1>6 DEF SchedEligible, SchedInv, ChoiceHolds
    <3> HIDE DEF k
    <3>3. Suits(pms[k].id, sched.task.res)
      BY <3>1, <3>2 DEF Suits, Fits
    <3>4. AlreadyRegistered(pms, pms[k].id)
      BY <3>1 DEF AlreadyRegistered, EntriesOf, Fits
    <3> QED
      BY <1>3, <1>6, <2>1, <3>1, <3>3, <3>4 DEF SchedEligible, SchedHoldsList
  <2>2. CASE sched' = [sched EXCEPT !.j = @ + 1]
    <3>1. /\ sched'.pc = sched.pc /\ sched'.pm = sched.pm
          /\ sched'.idx = sched.idx /\ sched'.task = sched.task
      BY <1>0, <2>2 DEF SchedThread
    <3>2. UNCHANGED <<tasks, pms, hb>>
      BY <1>6 DEF SchedEligible
    <3> QED
      BY <3>1, <3>2 DEF SchedInv, NoDelay, SelectionIntact, ChoiceHolds, Known,
         SchedHoldsList, ScheduledOnKnownPM
  <2>3. CASE sched' = IdleSched
    <3>1. Harmless(tasks, tasks)
      BY <1>0, KeepHarmless
    <3> QED
      BY <1>4, <1>6, <2>3, <3>1 DEF SchedEligible
  <2> QED
    BY <1>6, <2>1, <2>2, <2>3 DEF SchedEligible
<1>7. CASE SchedWake \/ SchedRelock
  BY <1>7 DEF SchedWake, SchedRelock, SchedInv, NoDelay
<1>8. CASE SchedAssign
  <2>1. \A n \in Slots : \A f \in {"state", "pm", "name", "res", "timeout"} :
          tasks'[n][f] = tasks[n][f]
    BY <1>0, <1>8 DEF SchedAssign, TaskTable, Task, SchedThread
  <2>2. /\ sched.pc = "assign" /\ sched'.pc = "commit" /\ sched'.pm = sched.pm
        /\ sched'.idx = sched.idx /\ sched'.task = sched.task
    BY <1>0, <1>8 DEF SchedAssign, SchedThread
  <2>3. UNCHANGED <<pms, hb>> /\ sched.idx \in Slots
    BY <1>0, <1>8 DEF SchedAssign, SchedThread
  <2>4. NoDelay' /\ ChoiceHolds'
    BY <2>1, <2>2, <2>3 DEF SchedInv, NoDelay, ChoiceHolds, Known, SchedHoldsList
  <2>5. SelectionIntact'
    BY <2>1, <2>2, <2>3 DEF SchedInv, SelectionIntact, SchedHoldsList
  <2>6. ScheduledOnKnownPM'
    BY <2>1, <2>3 DEF SchedInv, ScheduledOnKnownPM
  <2> QED
    BY <2>4, <2>5, <2>6 DEF SchedInv
<1>9. CASE SchedCommit
  <2> DEFINE u == [tasks[sched.idx] EXCEPT !.state = "SCHEDULED", !.timeout = 0,
                                           !.pm = sched.pm]
  <2>1. sched.idx \in Slots /\ sched.pc = "commit" /\ hb' = hb
    BY <1>0, <1>9 DEF SchedCommit, SchedThread
  <2>2. u.pm = sched.pm /\ u.timeout = 0
    BY <1>0, <2>1 DEF Task
  <2>3. \A n \in Slots : tasks'[n] = IF n = sched.idx THEN u ELSE tasks[n]
    BY <1>0, <1>9, <2>1 DEF SchedCommit, TaskTable
  <2> HIDE DEF u
  <2>4. sched'.pc = "idle"
    BY <1>9, IdleTypes DEF SchedCommit
  <2>5. \A p : AlreadyRegistered(pms, p) => AlreadyRegistered(pms', p)
    BY <1>9, CountsEffect
       DEF SchedCommit, AlreadyRegistered, EntriesOf, TypeInv, TypeOK, TableTypes
  <2>6. NoDelay' /\ ChoiceHolds' /\ SelectionIntact'
    BY <2>2, <2>3, <2>4 DEF SchedInv, NoDelay, ChoiceHolds, SelectionIntact,
       SchedHoldsList
  <2>7. Known(sched.pm)
    BY <2>1 DEF SchedInv, ChoiceHolds
  <2>8. ScheduledOnKnownPM'
    BY <2>1, <2>2, <2>3, <2>5, <2>7 DEF SchedInv, ScheduledOnKnownPM, Known
  <2> QED
    BY <2>6, <2>8 DEF SchedInv
<1> QED
  BY <1>1, <1>2, <1>5, <1>6, <1>7, <1>8, <1>9 DEF Scheduler

\* The Listener adds tasks without a timeout, and never removes a PM.
LEMMA ListenerSched ==
  NoTimeouts /\ TypeInv /\ SchedInv /\ Listener => SchedInv'
<1> SUFFICES ASSUME NoTimeouts, TypeInv, SchedInv, Listener PROVE SchedInv'
  OBVIOUS
<1> USE DEF tmVars, envVars, schedVars, LsnUnchanged, SchedUnchanged, PmsUnchanged
<1>0. pms \in PMTable /\ tasks \in TaskTable /\ lsn \in LsnThread
  BY DEF TypeInv, TypeOK, TableTypes, ThreadTypes
<1>1. CASE DMReady \/ DropMessage \/ PMRunningTaskHandler
  BY <1>1, SchedInvSame DEF DMReady, DropMessage, PMRunningTaskHandler
<1>2. CASE RegPMHandler
  <2>1. PICK p \in PM : pms' = pms \/ pms' = RegisterPM(pms, p, PmRes[p])
    BY <1>2 DEF RegPMHandler
  <2>3. ASSUME NEW i \in Entries, pms[i].in_use
        PROVE  pms'[i] = pms[i]
    <3>1. RegisterPM(pms, p, PmRes[p])[i] = pms[i]
      BY <1>0, <2>3, RegisterKeeps
    <3> QED
      BY <2>1, <3>1
  <2> QED
    BY <1>2, <2>3, SchedInvPMs DEF RegPMHandler
<1>3. CASE RegPMSetTasks \/ TaskFinishedHandler \/ PMRunningTaskCount
  <2> DEFINE Kept(Q) == \A i \in Entries : \A f \in {"in_use", "id", "res"} :
                          Q[i][f] = pms[i][f]
  <2>1. RegPMSetTasks => Kept(pms')
    <3>1. GetTasks(pending_pms, lsn.pm) \in Int
      BY GetTasksType DEF TypeInv, TypeOK, TableTypes
    <3>2. Kept(SetTasks(pms, lsn.pm, GetTasks(pending_pms, lsn.pm)))
      BY <1>0, <3>1, SetTasksEffect
    <3> HIDE DEF Kept
    <3>3. Kept(pms)
      BY DEF Kept
    <3> QED
      BY <3>2, <3>3 DEF RegPMSetTasks
  <2>2. \A p : Kept(TaskHasStarted(pms, p)) /\ Kept(PMTaskFinished(pms, p))
    BY <1>0, CountsEffect
  <2>3. TaskFinishedHandler \/ PMRunningTaskCount => Kept(pms')
    <3>1. Kept(pms)
      OBVIOUS
    <3> HIDE DEF Kept
    <3> QED
      BY <2>2, <3>1 DEF TaskFinishedHandler, PMRunningTaskCount
  <2>4. Kept(pms')
    BY <1>3, <2>1, <2>3
  <2> QED
    BY <1>3, <2>4, SchedInvPMs
       DEF RegPMSetTasks, TaskFinishedHandler, PMRunningTaskCount
<1>4. CASE PostTaskHandler \/ TaskFinishedList \/ PMRunningTaskAdd
  <2>1. ~SchedCommit
    BY <1>4, CommitMoves DEF PostTaskHandler, TaskFinishedList, PMRunningTaskAdd
  <2>2. Harmless(tasks, tasks')
    BY <2>1, OnlyCommitSchedules DEF Next
  <2> QED
    BY <1>4, <2>2, SchedInvTasks
       DEF PostTaskHandler, TaskFinishedList, PMRunningTaskAdd
<1> QED
  BY <1>1, <1>2, <1>3, <1>4 DEF Listener

\* A mode-change command empties and refills the table under list_mutex.
LEMMA ChangeModeSched ==
  ASSUME NoTimeouts, TypeInv, SchedInv, NEW c \in Cmds, ChangeMode(c)
  PROVE  SchedInv'
<1> USE DEF tmVars, envVars, schedVars, CmdUnchanged
<1>0. pms \in PMTable /\ tasks \in TaskTable
  BY DEF TypeInv, TypeOK, TableTypes
<1>1. CASE CmdReceive(c) \/ CmdReadMode(c) \/ CmdSetMode(c) \/ CmdPublish(c)
           \/ CmdVerifyDM(c) \/ CmdRestore(c)
  BY <1>1, SchedInvSame DEF CmdReceive, CmdReadMode, CmdSetMode, CmdPublish,
     CmdVerifyDM, CmdRestore
<1>2. CASE CmdClear(c)
  <2>1. Harmless(tasks, ClearList)
    BY <1>0, KeepHarmless
  <2> QED
    BY <1>2, <2>1, SchedInvTasks DEF CmdClear
<1>3. CASE CmdClearCounts(c)
  <2>1. \A i \in Entries : pms[i].in_use => pms'[i].in_use /\ pms'[i].id = pms[i].id
    BY <1>0, <1>3 DEF CmdClearCounts, ClearAllRunningTasks, PMTable, PMRecord
  <2> QED
    BY <1>3, <2>1, SchedInvPMs DEF CmdClearCounts
<1>4. CASE CmdStartUp(c)
  <2>1. ~SchedCommit
    BY <1>4, CommitMoves DEF CmdStartUp
  <2>2. Harmless(tasks, tasks')
    BY <2>1, OnlyCommitSchedules DEF Next, CommandHandler
  <2> QED
    BY <1>4, <2>2, SchedInvTasks DEF CmdStartUp
<1> QED
  BY <1>1, <1>2, <1>3, <1>4 DEF ChangeMode

\* The heartbeat thread keeps a removed PM known until its PMFailure, which
\* waits for list_mutex.
LEMMA HeartbeatSched == TypeInv /\ SchedInv /\ PMHeartbeat => SchedInv'
<1> SUFFICES ASSUME TypeInv, SchedInv, PMHeartbeat PROVE SchedInv'
  OBVIOUS
<1> USE DEF envVars, SchedUnchanged, PmsUnchanged
<1>0. pms \in PMTable /\ tasks \in TaskTable
  BY DEF TypeInv, TypeOK, TableTypes
<1>1. CASE RemoveAnyFailed
  <2>1. PICK i \in Entries : /\ hb' = pms[i].id
                             /\ pms' = RemoveEntry(pms, i)
    BY <1>1 DEF RemoveAnyFailed
  <2>2. \A k \in Entries \ {i} : pms'[k] = pms[k]
    BY <1>0, <2>1, RemoveEffect
  <2>3. hb = NoPM
    BY <1>1 DEF RemoveAnyFailed
  <2>4. ASSUME NEW p \in PM, Known(p)
        PROVE  Known(p)'
    <3>1. PICK k \in Entries : pms[k].in_use /\ pms[k].id = p
      BY <2>3, <2>4, NoPMAssumption DEF Known, AlreadyRegistered, EntriesOf
    <3>2. CASE k = i
      BY <2>1, <3>1, <3>2 DEF Known
    <3>3. CASE k # i
      BY <2>2, <3>1, <3>3 DEF Known, AlreadyRegistered, EntriesOf
    <3> QED
      BY <3>2, <3>3
  <2>5. Harmless(tasks, tasks)
    BY <1>0, KeepHarmless
  <2> QED
    BY <1>1, <2>4, <2>5, OthersKeep DEF RemoveAnyFailed
<1>2. CASE HeartbeatPMFailure
  <2>1. Harmless(tasks, PMFailure(tasks, hb))
    BY <1>0, KeepHarmless
  <2>2. ~SchedHoldsList /\ UNCHANGED <<sched, pms>> /\ hb' = NoPM
        /\ tasks' = PMFailure(tasks, hb)
    BY <1>2 DEF HeartbeatPMFailure, ListFree
  <2>3. NoDelay' /\ SelectionIntact' /\ ChoiceHolds'
    BY <2>1, <2>2 DEF SchedInv, NoDelay, SelectionIntact, ChoiceHolds,
       SchedHoldsList, Harmless
  <2>4. ScheduledOnKnownPM'
    <3> SUFFICES ASSUME NEW n \in Slots, tasks'[n].state = "SCHEDULED",
                        tasks'[n].pm # NoPM
                 PROVE  AlreadyRegistered(pms, tasks'[n].pm)
      BY <2>2 DEF ScheduledOnKnownPM
    <3>1. [tasks[n] EXCEPT !.state = "PENDING"].state = "PENDING"
      BY <1>0 DEF TaskTable, Task
    <3>2. tasks[n].pm # hb /\ tasks'[n] = tasks[n]
      BY <2>2, <3>1 DEF PMFailure
    <3> QED
      BY <3>2 DEF SchedInv, ScheduledOnKnownPM
  <2> QED
    BY <2>3, <2>4 DEF SchedInv
<1> QED
  BY <1>1, <1>2 DEF PMHeartbeat

\* The other commands, the timer and the Process Managers.
LEMMA OtherSched ==
  ASSUME NoTimeouts, TypeInv, SchedInv,
         \/ StartTaskCommand \/ PerformKill \/ TimerExpires
         \/ \E p \in PM : ProcessManager(p)
  PROVE  SchedInv'
<1> USE DEF tmVars, schedVars, LsnUnchanged, SchedUnchanged
<1>1. CASE StartTaskCommand
  <2>1. ~SchedCommit
    BY <1>1, CommitMoves DEF StartTaskCommand
  <2>2. Harmless(tasks, tasks')
    BY <1>1, <2>1, OnlyCommitSchedules DEF Next, CommandHandler
  <2> QED
    BY <1>1, <2>2, SchedInvTasks DEF StartTaskCommand
<1>2. CASE PerformKill \/ TimerExpires
  BY <1>2, SchedInvSame DEF PerformKill, TimerExpires
<1>3. CASE \E p \in PM : ProcessManager(p)
  BY <1>3, SchedInvSame DEF ProcessManager, PMStart, PMCrash, PMTask,
     PMTaskFinishes, PMKill, PMReset, PMRegInfo, PMLosesTask, TMUnchanged
<1> QED
  BY <1>1, <1>2, <1>3

\* A restart begins with an empty table and an idle Scheduler.
LEMMA TMRestartSched == TMRestart => SchedInv'
<1> SUFFICES ASSUME TMRestart PROVE SchedInv'
  OBVIOUS
<1>1. sched'.pc = "idle"
  BY IdleTypes DEF TMRestart
<1>2. \A n \in Slots : tasks'[n].timeout = 0 /\ tasks'[n].state = "INACTIVE"
  BY DEF TMRestart, ClearList, InitTask
<1> QED
  BY <1>1, <1>2 DEF SchedInv, NoDelay, SelectionIntact, SchedHoldsList,
     ChoiceHolds, ScheduledOnKnownPM

\* The invariant is inductive, given the types.
LEMMA SchedStep ==
  NoTimeouts /\ TypeInv /\ SchedInv /\ [Next]_vars => SchedInv'
<1> SUFFICES ASSUME NoTimeouts, TypeInv, SchedInv, [Next]_vars PROVE SchedInv'
  OBVIOUS
<1>1. CASE UNCHANGED vars
  BY <1>1, SchedInvSame DEF vars, schedVars, tmVars
<1>2. CASE \E c \in Cmds : ChangeMode(c)
  BY <1>2, ChangeModeSched
<1> QED
  BY <1>1, <1>2, SchedulerSched, ListenerSched, HeartbeatSched, OtherSched,
     TMRestartSched DEF Next, CommandHandler

\* The invariant holds always.
THEOREM SchedInvariant ==
  ASSUME NoTimeouts
  PROVE  Spec => []SchedInv
<1>1. Init => SchedInv
  BY SchedInit
<1>2. TypeInv /\ SchedInv /\ [Next]_vars => SchedInv'
  BY SchedStep
<1> QED
  BY <1>1, <1>2, TypeInvariant, PTL DEF Spec

\* Without schedule timeouts, no thread touches the task the Scheduler has
\* selected before the Scheduler commits it.
THEOREM SelectionKept ==
  ASSUME NoTimeouts
  PROVE  Spec => []SelectedTaskKept
<1>1. SchedInv => SelectedTaskKept
  BY DEF SchedInv, SelectedTaskKept
<1> QED
  BY <1>1, SchedInvariant, PTL

\* Without schedule timeouts, no SCHEDULED task is left on a PM that the
\* heartbeat thread has removed: when that PM failed, the task was or is about
\* to be made PENDING.
THEOREM NoOrphans ==
  ASSUME NoTimeouts
  PROVE  Spec => []ScheduledOnKnownPM
<1>1. SchedInv => ScheduledOnKnownPM
  BY DEF SchedInv
<1> QED
  BY <1>1, SchedInvariant, PTL

\* Without schedule timeouts, the Scheduler only ever commits a task to a PM
\* that suits it: FindPMID's choice has the preferred id, FindEligiblePM's the
\* architecture, the operating system and the memory.
THEOREM Suitability ==
  ASSUME NoTimeouts
  PROVE  Spec => SuitableAssignment
<1> DEFINE Suited == \A n \in Slots :
                       tasks[n].state = "PENDING" /\ tasks'[n].state = "SCHEDULED"
                         => Suits(tasks'[n].pm, tasks[n].res)
<1>1. ASSUME TypeInv, SchedInv, [Next]_vars
      PROVE  [Suited]_vars
  <2>1. CASE UNCHANGED vars
    BY <2>1
  <2>2. CASE Next /\ ~SchedCommit
    <3>1. Harmless(tasks, tasks')
      BY <1>1, <2>2, OnlyCommitSchedules
    <3> QED
      BY <3>1 DEF Harmless
  <2>3. CASE SchedCommit
    <3> DEFINE u == [tasks[sched.idx] EXCEPT !.state = "SCHEDULED", !.timeout = 0,
                                             !.pm = sched.pm]
    <3>1. sched.idx \in Slots /\ tasks[sched.idx] \in Task /\ tasks \in TaskTable
      BY <1>1 DEF TypeInv, TypeOK, ThreadTypes, TableTypes, SchedThread, TaskTable
    <3>2. u.pm = sched.pm
      BY <3>1 DEF Task
    <3>3. \A n \in Slots : tasks'[n] = IF n = sched.idx THEN u ELSE tasks[n]
      BY <2>3, <3>1 DEF SchedCommit, TaskTable
    <3> HIDE DEF u
    <3>4. /\ Suits(sched.pm, sched.task.res)
          /\ tasks[sched.idx].res = sched.task.res
      BY <1>1, <2>3 DEF SchedCommit, SchedInv, ChoiceHolds, SelectionIntact,
         SchedHoldsList
    <3> QED
      BY <3>2, <3>3, <3>4
  <2> QED
    BY <1>1, <2>1, <2>2, <2>3
<1> QED
  BY <1>1, SchedInvariant, TypeInvariant, PTL DEF Spec, SuitableAssignment

=============================================================================
