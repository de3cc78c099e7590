---------------------------- MODULE TaskManager -----------------------------
(***************************************************************************)
(* The Task Manager process (sdm/tm/tm.cpp): the Scheduler thread, the     *)
(* Listener thread with its handlers, the PMHeartbeat thread and the       *)
(* CommandHandler threads, over the shared task table (taskList, guarded   *)
(* by list_mutex), Process Manager table (pmList, guarded by DataMutex     *)
(* inside every method) and pid counter.  A step is the code between two   *)
(* points where another thread can get in: one critical section, or one    *)
(* message sent.                                                           *)
(*                                                                         *)
(* The Process Managers are modelled by what the Task Manager can see of   *)
(* them: messages over UDP (net; delivered in any order, at most once,     *)
(* possibly never) and the pids they run.  Module ProcessManager has the   *)
(* details.                                                                *)
(***************************************************************************)
EXTENDS PMRecordList, Sequences, FiniteSets

CONSTANTS
  MAX_JOBS,      \* most tasks the scheduler accepts on one PM (50 in tm.h)
  PmRes,         \* the resources each PM registers with
  Posts,         \* the tasks clients post: [name, res, timeout, mode]
  Config,        \* the tasks of SdmTaskList.config, in file order
  Cmds,          \* CommandHandler threads that change the mode
  Modes,         \* the modes they ask for
  MaxPosts,      \* bound: tasks posted by clients
  MaxPid,        \* bound: no scheduling once NextPID exceeds it
  MaxCrashes,    \* bound: crashes of Process Managers
  MaxLosses,     \* bound: tasks a PM forgets without a report
  MaxRemovals,   \* bound: PMs declared failed by the heartbeat thread
  MaxKills,      \* bound: kill requests
  MaxCmds,       \* bound: mode-change commands
  MaxRestarts    \* bound: restarts of the Task Manager by its monitor

NORMAL_MODE == 0
SOFT_RESET == 1
HARD_RESET == 2

TaskDef == [name : Names, res : Resources, timeout : Nat,
            mode : {MODE_NORMAL, MODE_ALWAYS_RUNNING}]

ASSUME MaxJobsAssumption == MAX_JOBS \in Nat \ {0}
ASSUME PmResAssumption == PmRes \in [PM -> Resources]
ASSUME PostsAssumption == Posts \subseteq TaskDef
ASSUME ConfigAssumption == Config \in Seq(TaskDef)
ASSUME ModesAssumption == Modes \subseteq 0 .. 255
ASSUME BoundsAssumption ==
  /\ MaxPosts \in Nat /\ MaxPid \in Nat /\ MaxCrashes \in Nat /\ MaxLosses \in Nat
  /\ MaxRemovals \in Nat /\ MaxKills \in Nat /\ MaxCmds \in Nat
  /\ MaxRestarts \in Nat

VARIABLES
  tmUp,        \* the TM process is alive
  tasks,       \* taskList
  pms,         \* pmList
  infoIndex,   \* pmList.schedulerInfoIndex
  pending_pms, \* running-task counts of PMs that have not registered yet
  NextPID,
  resetFlag,   \* g_bSchedulerReset
  prefTimer,   \* uiLastSeconds: "off" (0), "armed", or "expired" (> 60 s ago)
  sched,       \* the Scheduler thread
  lsn,         \* the Listener thread inside a handler of several sections
  hb,          \* the PM removed by PMHeartbeat, its PMFailure still to come
  cmd,         \* the CommandHandler threads
  g_ucMode,
  dm_found,
  net,         \* UDP messages in flight
  pmUp,        \* environment: the PM processes that are alive
  run,         \* environment: the pids each PM runs
  notify,      \* environment: PMs the DM will tell of a restarted TM
  used         \* environment: how much of each bound is used up

schedVars == <<tasks, pms, infoIndex, NextPID, resetFlag, prefTimer, sched>>
tmVars == <<tmUp, pending_pms, lsn, hb, cmd, g_ucMode, dm_found>>
envVars == <<net, pmUp, run, notify, used>>
vars == <<schedVars, tmVars, envVars>>

-----------------------------------------------------------------------------
(* Messages.  The fields a message does not have are the null ones.        *)

Message == [type : {"RegPM", "TaskFinished", "Running", "Task", "Kill", "Mode"},
            pm : PM, pid : Nat, name : Names \cup {NoName}]

Msg(t, p, pid, name) == [type |-> t, pm |-> p, pid |-> pid, name |-> name]
Send(m) == net' = net \cup {m}
Receive(m) == net' = net \ {m}

-----------------------------------------------------------------------------
(* Thread states.                                                          *)

\* What the Scheduler uses of its copy of the task.
TaskData(t) == [name |-> t.name, res |-> t.res, timeout |-> t.timeout]
NoTask == TaskData(InitTask)
IdleSched == [pc |-> "idle", idx |-> 0, task |-> NoTask, j |-> 0, pm |-> NoPM]
SchedPcs == {"idle", "preferred", "eligible", "sleep", "relock", "assign",
             "commit"}

\* Where the Scheduler holds list_mutex.  Every other thread takes and
\* releases it within one step.
SchedHoldsList == sched.pc \in {"preferred", "eligible", "assign", "commit"}
\* Mutant: nobody waits for the mutex.
ListIgnored == TRUE
ListFree == ~SchedHoldsList

IdleLsn == [pc |-> "idle", pm |-> NoPM, pid |-> 0, name |-> NoName]
LsnPcs == {"idle", "setTasks", "finish", "addTo", "count"}

IdleCmd == [pc |-> "idle", new |-> 0, old |-> 0, next |-> 1]
CmdPcs == {"idle", "read", "set", "publish", "verify", "clear", "counts", "startup"}

NoneUsed == [posts |-> 0, crashes |-> 0, losses |-> 0, removals |-> 0,
             kills |-> 0, cmds |-> 0, restarts |-> 0]
Use(what) == used' = [used EXCEPT ![what] = @ + 1]

\* PostTask's new entry.
PendingTask(d) == [InitTask EXCEPT !.state = "PENDING", !.name = d.name,
                     !.res = d.res, !.timeout = d.timeout, !.mode = d.mode]

\* InitialStartUp into the empty table, before any thread reads it.
InitialStartUp == [n \in Slots |-> IF n < Len(Config)
                                   THEN PendingTask(Config[n + 1])
                                   ELSE InitTask]

Init ==
  /\ tmUp = TRUE
  /\ tasks = InitialStartUp
  /\ pms = NoPMs
  /\ infoIndex = 0
  /\ pending_pms = NoPMs
  /\ NextPID = 1
  /\ resetFlag = FALSE
  /\ prefTimer = "off"
  /\ sched = IdleSched
  /\ lsn = IdleLsn
  /\ hb = NoPM
  /\ cmd = [c \in Cmds |-> IdleCmd]
  /\ g_ucMode = NORMAL_MODE
  /\ dm_found = FALSE
  /\ net = {}
  /\ pmUp = [p \in PM |-> FALSE]
  /\ run = [p \in PM |-> {}]
  /\ notify = {}
  /\ used = NoneUsed

-----------------------------------------------------------------------------
(* The Scheduler thread.                                                   *)

SomethingToSchedule ==
  AnyPending(tasks) /\ ~IsEmpty(pms) /\ NextPID <= MaxPid

\* Nothing to schedule, or nobody to schedule it on: wait.  With no pending
\* task the preferred-PM timeout is reset.
SchedPoll ==
  /\ tmUp /\ sched.pc = "idle"
  /\ ~SomethingToSchedule
  /\ prefTimer' = IF AnyPending(tasks) THEN prefTimer ELSE "off"
  /\ UNCHANGED <<tasks, pms, infoIndex, NextPID, resetFlag, sched>>
  /\ UNCHANGED <<tmVars, envVars>>

\* A pending task and at least one PM: keep list_mutex and look for a PM.
SchedFind ==
  /\ tmUp /\ sched.pc = "idle"
  /\ SomethingToSchedule
  /\ LET n == FindPendingTask(tasks) IN
     sched' = [IdleSched EXCEPT
                 !.pc = IF IsPreferredPmIdSet(tasks[n].res)
                        THEN "preferred" ELSE "eligible",
                 !.idx = n,
                 !.task = TaskData(tasks[n])]
  /\ UNCHANGED <<tasks, pms, infoIndex, NextPID, resetFlag, prefTimer>>
  /\ UNCHANGED <<tmVars, envVars>>

\* With a PM chosen, a task with a schedule timeout is slept on without
\* list_mutex; any other goes on under the mutex.
ChosenPM(p) ==
  sched' = [sched EXCEPT !.pm = p,
                         !.pc = IF sched.task.timeout # 0 THEN "sleep"
                                                          ELSE "assign"]

PreferredFound ==
  LET M == MatchingId(pms, sched.task.res.pmid) IN
  /\ M # {}
  /\ ChosenPM(pms[FirstOf(M)].id)
  /\ UNCHANGED <<tasks, prefTimer>>

\* The preferred PM is not registered: wait for it for a while, then forget
\* the preference of every task that has it.
PreferredMissing ==
  /\ MatchingId(pms, sched.task.res.pmid) = {}
  /\ sched' = IdleSched
  /\ prefTimer' = IF prefTimer = "off" THEN "armed" ELSE prefTimer
  /\ tasks' = IF prefTimer = "expired"
              THEN RemovePreferredPmId(tasks, sched.task.res.pmid)
              ELSE tasks

SchedPreferred ==
  /\ tmUp /\ sched.pc = "preferred"
  /\ PreferredFound \/ PreferredMissing
  /\ UNCHANGED <<pms, infoIndex, NextPID, resetFlag>>
  /\ UNCHANGED <<tmVars, envVars>>

\* One call FindEligiblePM(j) of the loop over j.
SchedEligible ==
  /\ tmUp /\ sched.pc = "eligible"
  /\ LET E == EligibleFrom(pms, infoIndex, sched.j, sched.task.res) IN
     \/ /\ E # {}
        /\ ChosenPM(pms[FirstOf(E)].id)
        /\ infoIndex' = FirstOf(E) + 1
     \/ /\ E = {}
        /\ infoIndex' = 0
        /\ sched' = IF sched.j + 1 < MAX_JOBS
                    THEN [sched EXCEPT !.j = @ + 1]
                    ELSE IdleSched
  /\ UNCHANGED <<tasks, pms, NextPID, resetFlag, prefTimer>>
  /\ UNCHANGED <<tmVars, envVars>>

\* The sleep is over: look at and clear g_bSchedulerReset.
SchedWake ==
  /\ tmUp /\ sched.pc = "sleep"
  /\ sched' = IF resetFlag THEN IdleSched ELSE [sched EXCEPT !.pc = "relock"]
  /\ resetFlag' = FALSE
  /\ UNCHANGED <<tasks, pms, infoIndex, NextPID, prefTimer>>
  /\ UNCHANGED <<tmVars, envVars>>

SchedRelock ==
  /\ tmUp /\ sched.pc = "relock"
  /\ sched' = [sched EXCEPT !.pc = "assign"]
  /\ UNCHANGED <<tasks, pms, infoIndex, NextPID, resetFlag, prefTimer>>
  /\ UNCHANGED <<tmVars, envVars>>

\* Mutant: the counter is read but not advanced.
SameNextPID == NextPID
AfterNextPID == NextPID + 1

\* taskList[TaskIndex].pid = NextPID++, and SendTask.
SchedAssign ==
  /\ tmUp /\ sched.pc = "assign"
  /\ tasks[sched.idx].state # "INACTIVE"
  /\ tasks' = [tasks EXCEPT ![sched.idx].pid = NextPID]
  /\ NextPID' = AfterNextPID
  /\ Send(Msg("Task", sched.pm, NextPID, sched.task.name))
  /\ sched' = [sched EXCEPT !.pc = "commit"]
  /\ UNCHANGED <<pms, infoIndex, resetFlag, prefTimer, tmVars>>
  /\ UNCHANGED <<pmUp, run, notify, used>>

\* operator[] of an INACTIVE slot throws SDMBadIndexException; nothing
\* catches it and the process terminates.
SchedThrow ==
  /\ tmUp /\ sched.pc = "assign"
  /\ tasks[sched.idx].state = "INACTIVE"
  /\ tmUp' = FALSE
  /\ UNCHANGED <<schedVars, envVars>>
  /\ UNCHANGED <<pending_pms, lsn, hb, cmd, g_ucMode, dm_found>>

SchedCommit ==
  /\ tmUp /\ sched.pc = "commit"
  /\ pms' = TaskHasStarted(pms, sched.pm)
  /\ tasks' = [tasks EXCEPT ![sched.idx] =
                  [@ EXCEPT !.state = "SCHEDULED", !.timeout = 0,
                            !.pm = sched.pm]]
  /\ prefTimer' = "off"
  /\ sched' = IdleSched
  /\ UNCHANGED <<infoIndex, NextPID, resetFlag, tmVars, envVars>>

\* PREFERRED_SCHEDULE_TIMEOUT passes.
TimerExpires ==
  /\ tmUp /\ prefTimer = "armed"
  /\ prefTimer' = "expired"
  /\ UNCHANGED <<tasks, pms, infoIndex, NextPID, resetFlag, sched>>
  /\ UNCHANGED <<tmVars, envVars>>

-----------------------------------------------------------------------------
(* The Listener thread.  It handles one message at a time; until the DM    *)
(* has been found it drops everything but the DM's SDMReady.               *)

ListenerReady == tmUp /\ lsn.pc = "idle" /\ dm_found
LsnUnchanged == UNCHANGED <<tmUp, hb, cmd, g_ucMode, dm_found>>
SchedUnchanged == UNCHANGED <<infoIndex, resetFlag, prefTimer, sched>>
PmsUnchanged == UNCHANGED <<pmUp, run, notify>>

DMReady ==
  /\ tmUp /\ lsn.pc = "idle" /\ ~dm_found
  /\ dm_found' = TRUE
  /\ UNCHANGED <<schedVars, envVars>>
  /\ UNCHANGED <<tmUp, pending_pms, lsn, hb, cmd, g_ucMode>>

DropMessage ==
  /\ tmUp /\ lsn.pc = "idle" /\ ~dm_found
  /\ \E m \in net : /\ m.type \in {"RegPM", "TaskFinished", "Running"}
                    /\ Receive(m)
  /\ UNCHANGED <<schedVars, tmVars, used>> /\ PmsUnchanged

\* RegPMHandler up to RegisterPM.  The listener alone registers PMs, so the
\* AlreadyRegistered test and RegisterPM can be one step.
RegPMHandler ==
  /\ ListenerReady
  /\ \E p \in PM :
       /\ Msg("RegPM", p, 0, NoName) \in net
       /\ Receive(Msg("RegPM", p, 0, NoName))
       /\ IF AlreadyRegistered(pms, p)
          THEN UNCHANGED <<pms, lsn>>
          ELSE /\ pms' = RegisterPM(pms, p, PmRes[p])
               /\ lsn' = [IdleLsn EXCEPT !.pc = "setTasks", !.pm = p]
  /\ UNCHANGED <<tasks, NextPID, pending_pms, used>>
  /\ LsnUnchanged /\ SchedUnchanged /\ PmsUnchanged

\* RegPMHandler: the running tasks reported before the registration.
RegPMSetTasks ==
  /\ tmUp /\ lsn.pc = "setTasks"
  /\ pms' = IF AlreadyRegistered(pending_pms, lsn.pm)
            THEN SetTasks(pms, lsn.pm, GetTasks(pending_pms, lsn.pm))
            ELSE pms
  /\ lsn' = IdleLsn
  /\ UNCHANGED <<tasks, NextPID, pending_pms, envVars>>
  /\ LsnUnchanged /\ SchedUnchanged

\* PostTask for a client's SDMPostTask message, in the Listener thread.
PostTaskHandler ==
  /\ ListenerReady /\ ListFree
  /\ used.posts < MaxPosts
  /\ \E d \in Posts : tasks' = AddTo(tasks, PendingTask(d))
  /\ Use("posts")
  /\ UNCHANGED <<pms, NextPID, pending_pms, lsn, net>>
  /\ LsnUnchanged /\ SchedUnchanged /\ PmsUnchanged

\* PostTask for a START_TASK command, in a thread of its own.  The command's
\* preferred node id is read after the resources were copied into the
\* message, so it is lost, and the command has no schedule timeout.
StartTaskCommand ==
  /\ tmUp /\ dm_found /\ ListFree
  /\ used.posts < MaxPosts
  /\ \E d \in Posts :
       tasks' = AddTo(tasks, [PendingTask(d) EXCEPT !.res.pmid = 0,
                                                    !.timeout = 0])
  /\ Use("posts")
  /\ UNCHANGED <<pms, NextPID, pending_pms, lsn, net>>
  /\ LsnUnchanged /\ SchedUnchanged /\ PmsUnchanged

\* TaskFinishedHandler, first half: the PM's task count.
TaskFinishedHandler ==
  /\ ListenerReady
  /\ \E m \in net :
       /\ m.type = "TaskFinished"
       /\ Receive(m)
       /\ pms' = PMTaskFinished(pms, m.pm)
       /\ lsn' = [IdleLsn EXCEPT !.pc = "finish", !.pm = m.pm, !.pid = m.pid]
  /\ UNCHANGED <<tasks, NextPID, pending_pms, used>>
  /\ LsnUnchanged /\ SchedUnchanged /\ PmsUnchanged

\* TaskFinishedHandler, second half: the task table, under list_mutex.
TaskFinishedList ==
  /\ tmUp /\ lsn.pc = "finish" /\ ListFree
  /\ tasks' = TaskFinished(tasks, lsn.pid)
  /\ lsn' = IdleLsn
  /\ UNCHANGED <<pms, NextPID, pending_pms, envVars>>
  /\ LsnUnchanged /\ SchedUnchanged

\* Mutant: > for >=.
RaisedPIDOffByOne(pid) == IF pid > NextPID THEN pid + 1 ELSE NextPID
RaisedPID(pid) == IF pid >= NextPID THEN pid + 1 ELSE NextPID

\* PMRunningTaskHandler: a PM reports a task it was running before the TM
\* restarted.  First the pid counter ...
PMRunningTaskHandler ==
  /\ ListenerReady
  /\ \E m \in net :
       /\ m.type = "Running"
       /\ Receive(m)
       /\ NextPID' = RaisedPID(m.pid)
       /\ lsn' = [pc |-> "addTo", pm |-> m.pm, pid |-> m.pid, name |-> m.name]
  /\ UNCHANGED <<tasks, pms, pending_pms, used>>
  /\ LsnUnchanged /\ SchedUnchanged /\ PmsUnchanged

\* ... then the task table (mode NORMAL, no resources, no PM address) ...
PMRunningTaskAdd ==
  /\ tmUp /\ lsn.pc = "addTo" /\ ListFree
  /\ tasks' = AddTo(tasks, [InitTask EXCEPT !.state = "SCHEDULED",
                              !.pid = lsn.pid, !.name = lsn.name])
  /\ lsn' = [lsn EXCEPT !.pc = "count"]
  /\ UNCHANGED <<pms, NextPID, pending_pms, envVars>>
  /\ LsnUnchanged /\ SchedUnchanged

\* ... then the count of the PM, or of its entry in pending_pms.
PMRunningTaskCount ==
  /\ tmUp /\ lsn.pc = "count"
  /\ IF AlreadyRegistered(pms, lsn.pm)
     THEN /\ pms' = TaskHasStarted(pms, lsn.pm)
          /\ UNCHANGED pending_pms
     ELSE /\ pending_pms' =
               TaskHasStarted(IF AlreadyRegistered(pending_pms, lsn.pm)
                              THEN pending_pms
                              ELSE RegisterPM(pending_pms, lsn.pm, NoResources),
                              lsn.pm)
          /\ UNCHANGED pms
  /\ lsn' = IdleLsn
  /\ UNCHANGED <<tasks, NextPID, envVars>>
  /\ LsnUnchanged /\ SchedUnchanged

\* KillHandler and the KILL_TASK command: PerformKill forwards the request
\* to the PM of the first slot with that pid.
PerformKill ==
  /\ tmUp /\ dm_found /\ ListFree
  /\ used.kills < MaxKills
  /\ \E pid \in 1 .. NextPID - 1 :
       LET p == GetPMAddress(tasks, pid) IN
       net' = IF p \in PM THEN net \cup {Msg("Kill", p, pid, NoName)} ELSE net
  /\ Use("kills")
  /\ UNCHANGED <<tasks, pms, NextPID, pending_pms, lsn>>
  /\ LsnUnchanged /\ SchedUnchanged /\ PmsUnchanged

-----------------------------------------------------------------------------
(* The PMHeartbeat thread.  Heartbeats and their replies are UDP messages, *)
(* so any registered PM may miss two rounds and be declared failed.        *)

RemoveAnyFailed ==
  /\ tmUp /\ hb = NoPM
  /\ used.removals < MaxRemovals
  /\ \E i \in Entries : /\ pms[i].in_use
                        /\ hb' = pms[i].id
                        /\ pms' = RemoveEntry(pms, i)
  /\ Use("removals")
  /\ UNCHANGED <<tasks, NextPID, tmUp, pending_pms, lsn, cmd, g_ucMode>>
  /\ UNCHANGED <<dm_found, net>> /\ SchedUnchanged /\ PmsUnchanged

\* taskList.PMFailure under list_mutex.
HeartbeatPMFailure ==
  /\ tmUp /\ hb # NoPM /\ ListFree
  /\ tasks' = PMFailure(tasks, hb)
  /\ hb' = NoPM
  /\ UNCHANGED <<pms, NextPID, tmUp, pending_pms, lsn, cmd, g_ucMode>>
  /\ UNCHANGED <<dm_found, envVars>> /\ SchedUnchanged

-----------------------------------------------------------------------------
(* CommandHandler threads: CMD_CHANGE_MODE.                                *)

CmdUnchanged == UNCHANGED <<tmUp, pending_pms, lsn, hb>>
IsReset(m) == m \in {SOFT_RESET, HARD_RESET}
CmdStep(c, pc) == cmd' = [cmd EXCEPT ![c].pc = pc]

\* The Listener starts the thread.
CmdReceive(c) ==
  /\ ListenerReady /\ cmd[c].pc = "idle"
  /\ used.cmds < MaxCmds
  /\ \E new \in Modes :
       cmd' = [cmd EXCEPT ![c] = [IdleCmd EXCEPT !.pc = "read", !.new = new]]
  /\ Use("cmds")
  /\ UNCHANGED <<schedVars, net, g_ucMode, dm_found>>
  /\ CmdUnchanged /\ PmsUnchanged

\* Mutant: the current mode is not compared with the new one.
CmdReadModeAlways(c) ==
  /\ tmUp /\ cmd[c].pc = "read"
  /\ cmd' = [cmd EXCEPT ![c] = [@ EXCEPT !.pc = "set", !.old = cmd[c].new]]
  /\ UNCHANGED <<schedVars, envVars, g_ucMode, dm_found>> /\ CmdUnchanged

\* Read the current mode; a command for the mode already set is ignored.
CmdReadMode(c) ==
  /\ tmUp /\ cmd[c].pc = "read"
  /\ cmd' = [cmd EXCEPT ![c] = IF cmd[c].new = g_ucMode
                               THEN IdleCmd
                               ELSE [@ EXCEPT !.pc = "set", !.old = g_ucMode]]
  /\ UNCHANGED <<schedVars, envVars, g_ucMode, dm_found>> /\ CmdUnchanged

\* Set the mode, and for a hard reset forget the DM.
CmdSetMode(c) ==
  /\ tmUp /\ cmd[c].pc = "set"
  /\ g_ucMode' = cmd[c].new
  /\ dm_found' = IF cmd[c].new = HARD_RESET THEN FALSE ELSE dm_found
  /\ CmdStep(c, "publish")
  /\ UNCHANGED <<schedVars, envVars>> /\ CmdUnchanged

\* PublishStatusMessage sends the mode as it is now to the subscribed PMs,
\* which reset themselves when it is a reset mode.
CmdPublish(c) ==
  /\ tmUp /\ cmd[c].pc = "publish"
  /\ net' = IF IsReset(g_ucMode)
            THEN net \cup {Msg("Mode", p, 0, NoName) :
                             p \in {q \in PM : pmUp[q]}}
            ELSE net
  /\ cmd' = [cmd EXCEPT ![c] =
               CASE @.new = HARD_RESET -> [@ EXCEPT !.pc = "verify"]
                 [] @.new = SOFT_RESET -> [@ EXCEPT !.pc = "clear"]
                 [] OTHER -> IdleCmd]
  /\ UNCHANGED <<schedVars, used, g_ucMode, dm_found>>
  /\ CmdUnchanged /\ PmsUnchanged

\* VerifyDM asks for the DM until the Listener has found it.
CmdVerifyDM(c) ==
  /\ tmUp /\ cmd[c].pc = "verify" /\ dm_found
  /\ CmdStep(c, "clear")
  /\ UNCHANGED <<schedVars, envVars, g_ucMode, dm_found>> /\ CmdUnchanged

\* g_mutexSchedulerReset and list_mutex held together.
CmdClear(c) ==
  /\ tmUp /\ cmd[c].pc = "clear" /\ ListFree
  /\ resetFlag' = TRUE
  /\ tasks' = ClearList
  /\ CmdStep(c, "counts")
  /\ UNCHANGED <<pms, infoIndex, NextPID, prefTimer, sched>>
  /\ UNCHANGED <<envVars, g_ucMode, dm_found>> /\ CmdUnchanged

CmdClearCounts(c) ==
  /\ tmUp /\ cmd[c].pc = "counts"
  /\ pms' = ClearAllRunningTasks(pms)
  /\ CmdStep(c, "startup")
  /\ UNCHANGED <<tasks, infoIndex, NextPID, resetFlag, prefTimer, sched>>
  /\ UNCHANGED <<envVars, g_ucMode, dm_found>> /\ CmdUnchanged

\* InitialStartUp: one PostTask per application of the task list file.
CmdStartUp(c) ==
  /\ tmUp /\ cmd[c].pc = "startup" /\ ListFree
  /\ cmd[c].next <= Len(Config)
  /\ tasks' = AddTo(tasks, PendingTask(Config[cmd[c].next]))
  /\ cmd' = [cmd EXCEPT ![c].next = @ + 1]
  /\ UNCHANGED <<pms, infoIndex, NextPID, resetFlag, prefTimer, sched>>
  /\ UNCHANGED <<envVars, g_ucMode, dm_found>> /\ CmdUnchanged

\* The mode of before the command is put back.
CmdRestore(c) ==
  /\ tmUp /\ cmd[c].pc = "startup"
  /\ cmd[c].next > Len(Config)
  /\ g_ucMode' = cmd[c].old
  /\ cmd' = [cmd EXCEPT ![c] = IdleCmd]
  /\ UNCHANGED <<schedVars, envVars, dm_found>> /\ CmdUnchanged

ChangeMode(c) ==
  \/ CmdReceive(c) \/ CmdReadMode(c) \/ CmdSetMode(c) \/ CmdPublish(c)
  \/ CmdVerifyDM(c) \/ CmdClear(c) \/ CmdClearCounts(c) \/ CmdStartUp(c)
  \/ CmdRestore(c)

-----------------------------------------------------------------------------
(* The Process Managers, as the TM sees them.                              *)

TMUnchanged == UNCHANGED <<schedVars, tmVars>>
RunsPid(p, pid) == \E r \in run[p] : r.pid = pid
FromTM == {"Task", "Kill", "Mode"}
Finished(p, pid) == Msg("TaskFinished", p, pid, NoName)

\* main(): VerifyTM needs an answer from the TM; then RegisterPM.  What was
\* sent to the PM while it was down is gone.
PMStart(p) ==
  /\ tmUp /\ dm_found /\ ~pmUp[p]
  /\ pmUp' = [pmUp EXCEPT ![p] = TRUE]
  /\ net' = {m \in net : m.pm # p \/ m.type \notin FromTM}
              \cup {Msg("RegPM", p, 0, NoName)}
  /\ UNCHANGED <<run, notify, used>> /\ TMUnchanged

PMCrash(p) ==
  /\ pmUp[p] /\ used.crashes < MaxCrashes
  /\ pmUp' = [pmUp EXCEPT ![p] = FALSE]
  /\ run' = [run EXCEPT ![p] = {}]
  /\ notify' = notify \ {p}
  /\ Use("crashes")
  /\ UNCHANGED net /\ TMUnchanged

\* A Task message counts as in flight until the PM has fetched the code and
\* started the process.
PMTask(p) ==
  /\ pmUp[p]
  /\ \E m \in net : /\ m.type = "Task" /\ m.pm = p
                    /\ Receive(m)
                    /\ run' = [run EXCEPT ![p] = @ \cup
                                 {[pid |-> m.pid, name |-> m.name]}]
  /\ UNCHANGED <<pmUp, notify, used>> /\ TMUnchanged

PMTaskFinishes(p) ==
  /\ pmUp[p]
  /\ \E r \in run[p] : /\ run' = [run EXCEPT ![p] = @ \ {r}]
                       /\ Send(Finished(p, r.pid))
  /\ UNCHANGED <<pmUp, notify, used>> /\ TMUnchanged

\* A faulty task, or one whose process cannot be started, is forgotten
\* without a report.
PMLosesTask(p) ==
  /\ pmUp[p] /\ used.losses < MaxLosses
  /\ \E r \in run[p] : run' = [run EXCEPT ![p] = @ \ {r}]
  /\ Use("losses")
  /\ UNCHANGED <<net, pmUp, notify>> /\ TMUnchanged

PMKill(p) ==
  /\ pmUp[p]
  /\ \E m \in net :
       /\ m.type = "Kill" /\ m.pm = p
       /\ run' = [run EXCEPT ![p] = {r \in @ : r.pid # m.pid}]
       /\ net' = (net \ {m}) \cup
                 (IF RunsPid(p, m.pid) THEN {Finished(p, m.pid)} ELSE {})
  /\ UNCHANGED <<pmUp, notify, used>> /\ TMUnchanged

\* The TM's status notification of a reset: DoReset kills every task.
PMReset(p) ==
  /\ pmUp[p]
  /\ Msg("Mode", p, 0, NoName) \in net
  /\ Receive(Msg("Mode", p, 0, NoName))
  /\ run' = [run EXCEPT ![p] = {}]
  /\ UNCHANGED <<pmUp, notify, used>> /\ TMUnchanged

\* The DM's SDMRegInfo about a TM that registered again: SendRunningTasks,
\* then RegisterPM.
PMRegInfo(p) ==
  /\ pmUp[p] /\ p \in notify
  /\ notify' = notify \ {p}
  /\ net' = net \cup {Msg("Running", p, r.pid, r.name) : r \in run[p]}
                \cup {Msg("RegPM", p, 0, NoName)}
  /\ UNCHANGED <<pmUp, run, used>> /\ TMUnchanged

ProcessManager(p) ==
  \/ PMStart(p) \/ PMCrash(p) \/ PMTask(p) \/ PMTaskFinishes(p)
  \/ PMLosesTask(p) \/ PMKill(p) \/ PMReset(p) \/ PMRegInfo(p)

-----------------------------------------------------------------------------
(* The TM's monitor restarts a TM that died or stopped answering, with -f: *)
(* no InitialStartUp.  The new process starts from nothing.                *)

TMRestart ==
  /\ used.restarts < MaxRestarts
  /\ Use("restarts")
  /\ tmUp' = TRUE
  /\ tasks' = ClearList
  /\ pms' = NoPMs
  /\ infoIndex' = 0
  /\ pending_pms' = NoPMs
  /\ NextPID' = 1
  /\ resetFlag' = FALSE
  /\ prefTimer' = "off"
  /\ sched' = IdleSched
  /\ lsn' = IdleLsn
  /\ hb' = NoPM
  /\ cmd' = [c \in Cmds |-> IdleCmd]
  /\ g_ucMode' = NORMAL_MODE
  /\ dm_found' = FALSE
  /\ net' = {m \in net : m.type \in FromTM}
  /\ notify' = {p \in PM : pmUp[p]}
  /\ UNCHANGED <<pmUp, run>>

-----------------------------------------------------------------------------
Scheduler ==
  \/ SchedPoll \/ SchedFind \/ SchedPreferred \/ SchedEligible \/ SchedWake
  \/ SchedRelock \/ SchedAssign \/ SchedThrow \/ SchedCommit

Listener ==
  \/ DMReady \/ DropMessage \/ RegPMHandler \/ RegPMSetTasks
  \/ PostTaskHandler \/ TaskFinishedHandler \/ TaskFinishedList
  \/ PMRunningTaskHandler \/ PMRunningTaskAdd \/ PMRunningTaskCount

CommandHandler == StartTaskCommand \/ PerformKill \/ \E c \in Cmds : ChangeMode(c)

PMHeartbeat == RemoveAnyFailed \/ HeartbeatPMFailure

Next ==
  \/ Scheduler \/ TimerExpires \/ Listener \/ CommandHandler \/ PMHeartbeat
  \/ \E p \in PM : ProcessManager(p)
  \/ TMRestart

Spec == Init /\ [][Next]_vars

-----------------------------------------------------------------------------
(* Properties.                                                             *)

Active(n) == tasks[n].state # "INACTIVE"

TableTypes ==
  /\ tasks \in TaskTable
  /\ pms \in PMTable
  /\ pending_pms \in PMTable
  /\ infoIndex \in 0 .. MAX_PM
  /\ NextPID \in Nat \ {0}

SchedThread == [pc : SchedPcs, idx : Slots,
                task : [name : Names \cup {NoName}, res : Resources,
                        timeout : Nat],
                j : Nat, pm : PM \cup {NoPM}]

LsnThread == [pc : LsnPcs, pm : PM \cup {NoPM}, pid : Nat,
              name : Names \cup {NoName}]

CmdThread == [pc : CmdPcs, new : 0 .. 255, old : 0 .. 255, next : Nat \ {0}]

ThreadTypes ==
  /\ sched \in SchedThread
  /\ sched.pc \in {"sleep", "relock", "assign", "commit"} => sched.pm \in PM
  /\ lsn \in LsnThread
  /\ lsn.pc # "idle" => lsn.pm \in PM
  /\ hb \in PM \cup {NoPM}
  /\ cmd \in [Cmds -> CmdThread]

FlagTypes ==
  /\ tmUp \in BOOLEAN
  /\ resetFlag \in BOOLEAN
  /\ prefTimer \in {"off", "armed", "expired"}
  /\ g_ucMode \in 0 .. 255
  /\ dm_found \in BOOLEAN

EnvTypes ==
  /\ net \in SUBSET Message
  /\ pmUp \in [PM -> BOOLEAN]
  /\ run \in [PM -> SUBSET [pid : Nat, name : Names \cup {NoName}]]
  /\ notify \in SUBSET PM
  /\ used \in [{"posts", "crashes", "losses", "removals", "kills", "cmds",
               "restarts"} -> Nat]

\* Every variable has the type of its C++ counterpart: the scheduler's index
\* is always a slot, infoIndex stays within the PM table or just past it, and
\* a thread that acts on a PM acts on a real one, never on the null address
\* a removed or rebuilt entry could have left it.
TypeOK == TableTypes /\ ThreadTypes /\ FlagTypes /\ EnvTypes

\* No pid in the table is one the counter has still to give out, so a task the
\* Scheduler numbers never takes the pid of another, not even of one a PM
\* reported after a restart: PMRunningTaskHandler raises NextPID before it adds
\* the task.
PidsFresh == \A n \in Slots : tasks[n].pid < NextPID

\* Two tasks never share a pid; TaskFinished and GetPMAddress look a task up
\* by pid alone ("Make sure the TM pid value stays at a consistent value",
\* tm.cpp).
UniquePids ==
  \A n, m \in Slots : n # m /\ tasks[n].pid # PID_INVALID
                        => tasks[n].pid # tasks[m].pid

\* The same, as long as the TM has not been restarted.
UniquePidsUntilRestart == used.restarts = 0 => UniquePids

\* A task that is SCHEDULED on a PM is on a registered one, or on the one the
\* heartbeat thread has just removed and whose tasks it is about to make
\* PENDING again ("This PM has failed, set all tasks to PENDING",
\* tasklist.cpp).  A task for which this fails is never rescheduled.
ScheduledOnKnownPM ==
  \A n \in Slots :
    tasks[n].state = "SCHEDULED" /\ tasks[n].pm # NoPM
      => AlreadyRegistered(pms, tasks[n].pm) \/ hb = tasks[n].pm

SelectionIntact ==
  SchedHoldsList => /\ tasks[sched.idx].state = "PENDING"
                    /\ tasks[sched.idx].name = sched.task.name
                    /\ tasks[sched.idx].res = sched.task.res

\* From the moment it holds list_mutex to the commit, the scheduler's index
\* still names the task it selected: no other thread finished, cleared or
\* replaced it, unless the task has a schedule timeout, during which the
\* scheduler gives up the mutex (SchedThrow is the extreme case of that).
SelectedTaskKept == sched.task.timeout = 0 => SelectionIntact

\* What a task asks for: the PM with its preferred id, or else a PM of its
\* architecture and operating system with enough memory.
Suits(p, res) ==
  IF IsPreferredPmIdSet(res)
  THEN PmRes[p].pmid = res.pmid
  ELSE PmRes[p].archos = res.archos /\ PmRes[p].mem >= res.mem

\* A task is only ever scheduled on a PM that suits it, however the tables
\* change between the choice of the PM and the commit.
SuitableAssignment ==
  [][\A n \in Slots :
       tasks[n].state = "PENDING" /\ tasks'[n].state = "SCHEDULED"
         => Suits(tasks'[n].pm, tasks[n].res)]_vars

\* The messages and handlers through which pid of PM p can be accounted for.
Accounted(p, pid) ==
  \/ \E m \in net : m.type = "Task" /\ m.pm = p /\ m.pid = pid
  \/ RunsPid(p, pid)
  \/ Finished(p, pid) \in net
  \/ lsn.pc = "finish" /\ lsn.pid = pid

\* As long as nothing has crashed or been reset and no PM lost a task, one the
\* TM believes to be SCHEDULED is on its way to its PM, running there, or its
\* end is on its way back.
NoLostTask ==
  used.crashes = 0 /\ used.losses = 0 /\ used.cmds = 0 /\ used.restarts = 0
    => \A n \in Slots : tasks[n].state = "SCHEDULED"
                          => Accounted(tasks[n].pm, tasks[n].pid)

\* The number of tasks pmList holds against a PM, on which the scheduler
\* balances the load, is the number of its SCHEDULED tasks (less the one whose
\* end is half handled).
CountsMatch ==
  \A i \in Entries :
    pms[i].in_use =>
      pms[i].tasks =
        Cardinality({n \in Slots : /\ tasks[n].state = "SCHEDULED"
                                   /\ tasks[n].pm = pms[i].id})
        - (IF lsn.pc = "finish" /\ lsn.pm = pms[i].id THEN 1 ELSE 0)

\* The same, as long as no PM failed, no reset came and the TM ran on.
CountsMatchUndisturbed ==
  used.removals = 0 /\ used.cmds = 0 /\ used.restarts = 0 => CountsMatch

\* After a restart, once every report and registration is handled, the number
\* pmList holds against a PM is what that PM was sent and has not reported
\* finished ("the scheduler for the TM knows how many tasks are running on all
\* registered PMs", tm.cpp).
Quiet == /\ tmUp /\ lsn.pc = "idle" /\ sched.pc = "idle" /\ notify = {}
         /\ \A m \in net : m.type = "Kill"

RecountedTasks ==
  Quiet => \A i \in Entries :
             pms[i].in_use => pms[i].tasks = Cardinality(run[pms[i].id])

\* No PM is credited with fewer tasks than none: FindEligiblePM takes the
\* count for the "number of running tasks" (pm_record_list.cpp).
CountsNotNegative ==
  \A i \in Entries : sched.pc = "eligible" /\ lsn.pc = "idle"
                       => pms[i].tasks >= 0

\* With no mode-change command in progress the TM is not left in a reset mode
\* ("Reset the mode back to the mode before the reset", tm.cpp).
ModeRestored ==
  tmUp /\ (\A c \in Cmds : cmd[c].pc = "idle") => ~IsReset(g_ucMode)

\* "Make sure a reset didn't occur while we were sleeping, if so, start
\* over" (tm.cpp): the scheduler never runs into an emptied slot.
NeverThrows == tmUp

-----------------------------------------------------------------------------
(* Liveness.  The threads keep running; the DM answers, the PMs start and  *)
(* their registrations arrive.                                             *)

Fairness ==
  /\ WF_vars(Scheduler) /\ WF_vars(TimerExpires)
  /\ WF_vars(DMReady) /\ WF_vars(RegPMHandler) /\ WF_vars(RegPMSetTasks)
  /\ WF_vars(TaskFinishedList)
  /\ \A p \in PM : WF_vars(PMStart(p))

LiveSpec == Spec /\ Fairness

\* A pending task is eventually scheduled, also one that prefers a PM that
\* never registers ("make sure this task eventually gets scheduled somewhere
\* even if the PM never does register", tm.cpp).
PendingIsScheduled ==
  \A n \in Slots :
    tasks[n].state = "PENDING" ~> \/ tasks[n].state # "PENDING"
                                  \/ NextPID > MaxPid

=============================================================================
