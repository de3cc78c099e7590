--------------------------- MODULE ProcessManager ---------------------------
(***************************************************************************)
(* One Process Manager (sdm/pm/pm_main.cpp, PMProcess.cpp,                 *)
(* PMProcessList.cpp, GetCode of pm.cpp), from its registration to its     *)
(* end: the Listener thread, a TaskHandler thread per task received, the   *)
(* signal thread, which alone launches and collects child processes, and   *)
(* the TaskHeartbeatMonitor thread.  They share the task queue             *)
(* (taskQueueMutex), the list of running tasks (taskListMutex) and the     *)
(* code files.                                                             *)
(*                                                                         *)
(* Child processes have OS pids 1, 2, ... in the order of the forks; 0 is  *)
(* the OS pid of an entry whose process has not been forked, and kill(0)   *)
(* kills the PM and everything it started.  Messages to the TM are only    *)
(* counted; a message from the TM is received at any time, or never.       *)
(***************************************************************************)
EXTENDS Naturals, SequencesExt

CONSTANTS
  MaxPid,                 \* bound: the tasks the TM sends have pids 1 .. MaxPid
  Names,                  \* executables
  NameOf,                 \* the executable of each task
  MAX_TASK_FAILURES,      \* 5 in pm_main.h
  TASK_TIMEOUT_ATTEMPTS,  \* 6 in PMProcess.h
  MaxSilent,              \* bound: heartbeat timeouts
  MaxKills,               \* bound: kill requests
  MaxResets,              \* bound: reset modes received
  MaxForkFails            \* bound: failing forks

Pids == 1 .. MaxPid

ASSUME NameOfAssumption == NameOf \in [Pids -> Names]
ASSUME LimitsAssumption == /\ MAX_TASK_FAILURES \in Nat
                           /\ TASK_TIMEOUT_ATTEMPTS \in Nat \ {0}
ASSUME PmBoundsAssumption ==
  /\ MaxPid \in Nat /\ MaxSilent \in Nat /\ MaxKills \in Nat
  /\ MaxResets \in Nat /\ MaxForkFails \in Nat

VARIABLES
  up,        \* the PM process is alive
  thr,       \* the TaskHandler thread of each pid
  file,      \* each executable on disk: "none" (or empty), "part", "full"
  queue,     \* taskQueue
  procs,     \* runningTaskList
  sig,       \* the signal thread
  mon,       \* TaskHeartbeatMonitor: the index it is at, 0 outside its loop
  restart,   \* SDMTask messages the PM sent to itself
  alive,     \* the child processes that run
  zombies,   \* those that ended and were not waited for
  forks,     \* forks so far
  reports,   \* SDMTaskFinished messages sent for each pid
  accepted,  \* history: pids received
  old,       \* history: pids received before the latest reset
  beat,      \* history: tasks heard of since they were last unresponsive
  gaveUp,    \* history: tasks given up by the monitor, or for want of a file
  used       \* how much of each bound is used up

listVars == <<procs, alive, zombies, reports>>
codeVars == <<thr, file, queue>>
histVars == <<accepted, old, beat, gaveUp>>
vars == <<up, listVars, codeVars, sig, mon, restart, forks, histVars, used>>

\* PMProcess.  hb abstracts m_ulLastHeartbeat: 0; less than
\* TASK_HEARTBEAT_TIMEOUT ago; longer ago; or a small multiple of the timeout,
\* which is what faked heartbeats make of 0.
PMProcess == [pid : Pids, os : Nat, fails : Nat, failed : BOOLEAN,
              hb : {"zero", "recent", "late", "ancient"},
              miss : 0 .. TASK_TIMEOUT_ATTEMPTS]
NewProc(pid) == [pid |-> pid, os |-> 0, fails |-> 0, failed |-> FALSE,
                 hb |-> "zero", miss |-> 0]

IdleSig == [pc |-> "idle", pid |-> 0, idx |-> 0, os |-> 0]
SigPcs == {"idle", "launch", "fork", "update", "wait", "reaped"}

NoneUsed == [silent |-> 0, kills |-> 0, resets |-> 0, forkFails |-> 0]
Use(what) == used' = [used EXCEPT ![what] = @ + 1]

Init ==
  /\ up = TRUE
  /\ thr = [pid \in Pids |-> "none"]
  /\ file = [n \in Names |-> "none"]
  /\ queue = << >>
  /\ procs = << >>
  /\ sig = IdleSig
  /\ mon = 0
  /\ restart = {}
  /\ alive = {}
  /\ zombies = {}
  /\ forks = 0
  /\ reports = [pid \in Pids |-> 0]
  /\ accepted = {}
  /\ old = {}
  /\ beat = {}
  /\ gaveUp = {}
  /\ used = NoneUsed

-----------------------------------------------------------------------------
(* PMProcessList.  Indices start at 1; 0 is "not found".                   *)

GetIndexOfSdmPid(pid) == SelectInSeq(procs, LAMBDA r : r.pid = pid)
GetIndexOfOsPid(os) == SelectInSeq(procs, LAMBDA r : r.os = os)

\* Mutant: a restarted task gets a second entry.
AddTwice(pid) == Append(procs, NewProc(pid))

\* The entry of a restarted task is kept and only loses its OS pid.
Add(pid) ==
  LET i == GetIndexOfSdmPid(pid) IN
  IF i = 0 THEN Append(procs, NewProc(pid)) ELSE [procs EXCEPT ![i].os = 0]

AddIndex(pid) ==
  LET i == GetIndexOfSdmPid(pid) IN IF i = 0 THEN Len(procs) + 1 ELSE i

\* The bounds test lets an index just past the end through; erasing there
\* drops the last element.
RemoveIndex(s, i) ==
  CASE i <= Len(s) -> RemoveAt(s, i)
    [] i = Len(s) + 1 /\ s # << >> -> Front(s)
    [] OTHER -> s

\* kill(os, SIGKILL) for every os of S.
KillAll(S) ==
  IF 0 \in S
  THEN up' = FALSE /\ alive' = {} /\ zombies' = {}
  ELSE /\ alive' = alive \ S
       /\ zombies' = zombies \cup (alive \cap S)
       /\ UNCHANGED up

\* Every thread but the monitor holds taskListMutex within one step only.
ListFree == mon = 0

Report(pid) == reports' = [reports EXCEPT ![pid] = @ + 1]

-----------------------------------------------------------------------------
(* The Listener thread and the TaskHandler threads.                        *)

\* An SDMTask message, from the TM or from the PM itself: a new thread.
TaskReceived(pid) ==
  /\ up
  /\ \/ pid \notin accepted /\ restart' = restart
     \/ pid \in restart /\ restart' = restart \ {pid}
  /\ thr' = [thr EXCEPT ![pid] = "start"]
  /\ accepted' = accepted \cup {pid}
  /\ UNCHANGED <<up, listVars, file, queue, sig, mon, forks, old, beat, gaveUp, used>>

IsFileAvailable(pid) == file[NameOf[pid]] # "none"

\* The code is there: queue the task.  A file some other thread has only
\* written a part of counts as there.
TaskHandlerQueue(pid) ==
  /\ up /\ thr[pid] = "start" /\ IsFileAvailable(pid)
  /\ thr' = [thr EXCEPT ![pid] = "none"]
  /\ queue' = Append(queue, pid)
  /\ UNCHANGED <<up, listVars, file, sig, mon, restart, forks, histVars, used>>

\* The code is not there: GetCode ...
TaskHandlerFetch(pid) ==
  /\ up /\ thr[pid] = "start" /\ ~IsFileAvailable(pid)
  /\ thr' = [thr EXCEPT ![pid] = "open"]
  /\ UNCHANGED <<up, listVars, file, queue, sig, mon, restart, forks>>
  /\ UNCHANGED <<histVars, used>>

\* ... creates the file, or truncates the one another thread has made ...
GetCodeOpen(pid) ==
  /\ up /\ thr[pid] = "open"
  /\ thr' = [thr EXCEPT ![pid] = "fetch"]
  /\ file' = [file EXCEPT ![NameOf[pid]] = "none"]
  /\ UNCHANGED <<up, listVars, queue, sig, mon, restart, forks>>
  /\ UNCHANGED <<histVars, used>>

\* (What it writes is lost when another thread has deleted the file since.)
Fetching(pid) == thr[pid] \in {"fetch", "unlinked"}
Write(pid, f) ==
  file' = IF thr[pid] = "fetch" THEN [file EXCEPT ![NameOf[pid]] = f] ELSE file

\* ... writes some of it ...
GetCodePart(pid) ==
  /\ up /\ Fetching(pid)
  /\ Write(pid, "part")
  /\ UNCHANGED <<up, listVars, thr, queue, sig, mon, restart, forks>>
  /\ UNCHANGED <<histVars, used>>

\* ... and the rest: queue the task.
GetCodeDone(pid) ==
  /\ up /\ Fetching(pid)
  /\ Write(pid, "full")
  /\ thr' = [thr EXCEPT ![pid] = "none"]
  /\ queue' = Append(queue, pid)
  /\ UNCHANGED <<up, listVars, sig, mon, restart, forks, histVars, used>>

\* The file is deleted, under the threads that write it.
Unlink(pid) ==
  /\ file' = [file EXCEPT ![NameOf[pid]] = "none"]
  /\ thr' = [q \in Pids |->
               IF q = pid THEN "none"
               ELSE IF thr[q] = "fetch" /\ NameOf[q] = NameOf[pid]
               THEN "unlinked" ELSE thr[q]]

\* Mutant: the TM is not told.
GetCodeFailsSilently(pid) ==
  /\ up /\ Fetching(pid)
  /\ Unlink(pid)
  /\ UNCHANGED <<up, listVars, queue, sig, mon, restart, forks, histVars, used>>

\* The transfer fails.  After a sequence number greater than the number of
\* segments the file is left there.
GetCodeFails(pid) ==
  /\ up /\ Fetching(pid)
  /\ \/ Unlink(pid)
     \/ thr' = [thr EXCEPT ![pid] = "none"] /\ UNCHANGED file
  /\ Report(pid)
  /\ UNCHANGED <<up, procs, alive, zombies, queue, sig, mon, restart, forks>>
  /\ UNCHANGED <<histVars, used>>

\* Mutant: a task that is killed permanently stays in the list.
KillHandlerKeeps(pid, level) ==
  /\ up /\ ListFree /\ used.kills < MaxKills
  /\ GetIndexOfSdmPid(pid) # 0
  /\ KillAll({procs[GetIndexOfSdmPid(pid)].os})
  /\ IF level = 1 /\ up' THEN Report(pid) ELSE UNCHANGED reports
  /\ UNCHANGED procs
  /\ Use("kills")
  /\ UNCHANGED <<codeVars, sig, mon, restart, forks, histVars>>

\* SDMKill: at level 1 the task's end is reported and the task forgotten at
\* once; otherwise the signal thread finds the dead process.
KillHandler(pid, level) ==
  /\ up /\ ListFree /\ used.kills < MaxKills
  /\ LET i == GetIndexOfSdmPid(pid) IN
     /\ i # 0
     /\ KillAll({procs[i].os})
     /\ IF level = 1 /\ up'
        THEN Report(pid) /\ procs' = RemoveIndex(procs, i)
        ELSE UNCHANGED <<procs, reports>>
  /\ Use("kills")
  /\ UNCHANGED <<codeVars, sig, mon, restart, forks, histVars>>

\* Mutant: the list is cleared before the tasks are killed.
DoResetClearsFirst ==
  /\ up /\ ListFree /\ used.resets < MaxResets
  /\ procs' = << >>
  /\ old' = accepted
  /\ Use("resets")
  /\ UNCHANGED <<up, alive, zombies, codeVars, sig, mon, restart, forks>>
  /\ UNCHANGED <<reports, accepted, beat, gaveUp>>

\* DataHandler, for a status message of the TM with a reset mode.
DoReset ==
  /\ up /\ ListFree /\ used.resets < MaxResets
  /\ KillAll({procs[i].os : i \in DOMAIN procs})
  /\ procs' = << >>
  /\ old' = accepted
  /\ Use("resets")
  /\ UNCHANGED <<codeVars, sig, mon, restart, forks, reports>>
  /\ UNCHANGED <<accepted, beat, gaveUp>>

\* SDMHeartbeat of a task, from its process or, delivered late, from an
\* earlier one: only a process sends them, and the first is forked before
\* its OS pid is entered.
HasRun(r) == \/ r.os # 0 \/ r.fails > 0
             \/ sig.pc = "update" /\ sig.pid = r.pid

HeartbeatHandler(i) ==
  /\ up /\ ListFree
  /\ HasRun(procs[i])
  /\ procs' = [procs EXCEPT ![i].hb = "recent", ![i].miss = 0]
  /\ beat' = beat \cup {procs[i].pid}
  /\ UNCHANGED <<up, alive, zombies, reports, codeVars, sig, mon, restart>>
  /\ UNCHANGED <<forks, accepted, old, gaveUp, used>>

-----------------------------------------------------------------------------
(* The signal thread: SigChldHandler, in a loop.  First a queued task is   *)
(* launched, then one child is waited for.                                 *)

SigStep(new) ==
  /\ sig' = new
  /\ UNCHANGED <<mon, histVars>>

\* Mutant: a child is only waited for after a launch.
SigPopOnly ==
  /\ up /\ sig.pc = "idle" /\ queue # << >>
  /\ SigStep([IdleSig EXCEPT !.pc = "launch", !.pid = Head(queue)])
  /\ queue' = Tail(queue)
  /\ UNCHANGED <<up, listVars, thr, file, restart, forks, used>>

SigPop ==
  /\ up /\ sig.pc = "idle"
  /\ IF queue = << >>
     THEN SigStep([IdleSig EXCEPT !.pc = "wait"]) /\ UNCHANGED queue
     ELSE /\ SigStep([IdleSig EXCEPT !.pc = "launch", !.pid = Head(queue)])
          /\ queue' = Tail(queue)
  /\ UNCHANGED <<up, listVars, thr, file, restart, forks, used>>

\* The file has disappeared: LaunchTask gives up.
LaunchNoFile ==
  /\ up /\ sig.pc = "launch" /\ ~IsFileAvailable(sig.pid)
  /\ sig' = [IdleSig EXCEPT !.pc = "wait"]
  /\ gaveUp' = gaveUp \cup {sig.pid}
  /\ UNCHANGED <<up, listVars, codeVars, mon, restart, forks, used>>
  /\ UNCHANGED <<accepted, old, beat>>

LaunchAdd ==
  /\ up /\ sig.pc = "launch" /\ IsFileAvailable(sig.pid) /\ ListFree
  /\ procs' = Add(sig.pid)
  /\ SigStep([sig EXCEPT !.pc = "fork", !.idx = AddIndex(sig.pid)])
  /\ UNCHANGED <<up, alive, zombies, reports, codeVars, restart, forks, used>>

LaunchFork ==
  /\ up /\ sig.pc = "fork"
  /\ forks' = forks + 1
  /\ alive' = alive \cup {forks + 1}
  /\ SigStep([sig EXCEPT !.pc = "update", !.os = forks + 1])
  /\ UNCHANGED <<up, procs, zombies, reports, codeVars, restart, used>>

\* fork fails: the entry is removed by the index it had when it was added.
LaunchForkFails ==
  /\ up /\ sig.pc = "fork" /\ ListFree /\ used.forkFails < MaxForkFails
  /\ procs' = RemoveIndex(procs, sig.idx)
  /\ Use("forkFails")
  /\ SigStep([IdleSig EXCEPT !.pc = "wait"])
  /\ UNCHANGED <<up, alive, zombies, reports, codeVars, restart, forks>>

UpdateOsPid ==
  /\ up /\ sig.pc = "update" /\ ListFree
  /\ LET i == GetIndexOfSdmPid(sig.pid) IN
     procs' = IF i = 0 THEN procs ELSE [procs EXCEPT ![i].os = sig.os]
  /\ SigStep([IdleSig EXCEPT !.pc = "wait"])
  /\ UNCHANGED <<up, alive, zombies, reports, codeVars, restart, forks, used>>

\* waitpid(-1, WNOHANG).
WaitPid ==
  /\ up /\ sig.pc = "wait"
  /\ \/ /\ zombies = {}
        /\ SigStep(IdleSig)
        /\ UNCHANGED zombies
     \/ \E os \in zombies :
          /\ zombies' = zombies \ {os}
          /\ SigStep([IdleSig EXCEPT !.pc = "reaped", !.os = os])
  /\ UNCHANGED <<up, procs, alive, reports, codeVars, restart, forks, used>>

\* Mutant: a task to be restarted leaves the list until it runs again.
ChildEndedDropped ==
  /\ up /\ sig.pc = "reaped" /\ ListFree
  /\ LET i == GetIndexOfOsPid(sig.os) IN
     /\ i # 0
     /\ procs' = RemoveIndex(procs, i)
     /\ IF procs[i].failed
        THEN restart' = restart \cup {procs[i].pid} /\ UNCHANGED reports
        ELSE Report(procs[i].pid) /\ UNCHANGED restart
  /\ SigStep(IdleSig)
  /\ UNCHANGED <<up, alive, zombies, codeVars, forks, used>>

\* The child that ended: one the monitor killed is started again, with the
\* same pid, through an SDMTask message of the PM to itself; any other is
\* reported.  One that is not in the list is ignored.
ChildEnded ==
  /\ up /\ sig.pc = "reaped" /\ ListFree
  /\ LET i == GetIndexOfOsPid(sig.os) IN
     \/ /\ i = 0
        /\ UNCHANGED <<procs, restart, reports>>
     \/ /\ i # 0 /\ procs[i].failed
        /\ procs' = [procs EXCEPT ![i].os = 0, ![i].failed = FALSE]
        /\ restart' = restart \cup {procs[i].pid}
        /\ UNCHANGED reports
     \/ /\ i # 0 /\ ~procs[i].failed
        /\ Report(procs[i].pid)
        /\ procs' = RemoveIndex(procs, i)
        /\ UNCHANGED restart
  /\ SigStep(IdleSig)
  /\ UNCHANGED <<up, alive, zombies, codeVars, forks, used>>

\* SIGINT: every listed task is killed, and the PM exits.  A child that is
\* not listed would survive it.
Shutdown ==
  /\ up /\ sig.pc = "idle" /\ ListFree
  /\ up' = FALSE
  /\ LET S == {procs[i].os : i \in DOMAIN procs} IN
     alive' = IF 0 \in S THEN {} ELSE alive \ S
  /\ zombies' = {}
  /\ UNCHANGED <<procs, reports, codeVars, sig, mon, restart, forks>>
  /\ UNCHANGED <<histVars, used>>

SigHandler ==
  \/ SigPop \/ LaunchNoFile \/ LaunchAdd \/ LaunchFork \/ LaunchForkFails
  \/ UpdateOsPid \/ WaitPid \/ ChildEnded

-----------------------------------------------------------------------------
(* The TaskHeartbeatMonitor thread: a pass over the list every 2 seconds,  *)
(* under taskListMutex.                                                    *)

MonUnchanged ==
  UNCHANGED <<codeVars, sig, restart, forks, accepted, old, used>>

MonitorBegin ==
  /\ up /\ mon = 0 /\ procs # << >>
  /\ mon' = 1
  /\ UNCHANGED <<up, listVars, gaveUp, beat>> /\ MonUnchanged

\* PMProcess::IsUnresponsive: what it makes of the entry.  Before the first
\* heartbeat it does nothing; a missed one is faked.
Missed(r) == r.hb \in {"late", "ancient"} \/ (r.hb = "zero" /\ r.failed)

AfterCheck(r) ==
  IF Missed(r)
  THEN [r EXCEPT !.hb = IF r.hb = "late" THEN "recent" ELSE "ancient",
                 !.miss = IF @ < TASK_TIMEOUT_ATTEMPTS THEN @ + 1 ELSE @]
  ELSE r

IsUnresponsive(r) ==
  Missed(r) /\ r.miss + 1 >= TASK_TIMEOUT_ATTEMPTS

Failure(r) == [r EXCEPT !.failed = TRUE, !.fails = @ + 1, !.hb = "zero",
                        !.miss = 0]

MonitorOk ==
  /\ up /\ mon \in DOMAIN procs
  /\ procs[mon].failed \/ ~IsUnresponsive(procs[mon])
  /\ procs' = [procs EXCEPT ![mon] = AfterCheck(@)]
  /\ mon' = mon + 1
  /\ UNCHANGED <<up, alive, zombies, reports, gaveUp, beat>> /\ MonUnchanged

\* An unresponsive task is killed.  After too many failures it is forgotten
\* (and the next entry is skipped); otherwise ChildEnded will restart it.
MonitorKill ==
  /\ up /\ mon \in DOMAIN procs
  /\ ~procs[mon].failed /\ IsUnresponsive(procs[mon])
  /\ KillAll({procs[mon].os})
  /\ IF procs[mon].fails >= MAX_TASK_FAILURES
     THEN /\ procs' = RemoveIndex(procs, mon)
          /\ gaveUp' = gaveUp \cup {procs[mon].pid}
     ELSE /\ procs' = [procs EXCEPT ![mon] = Failure(AfterCheck(@))]
          /\ UNCHANGED gaveUp
  /\ mon' = mon + 1
  /\ beat' = beat \ {procs[mon].pid}
  /\ UNCHANGED reports /\ MonUnchanged

MonitorEnd ==
  /\ up /\ mon > Len(procs)
  /\ mon' = 0
  /\ UNCHANGED <<up, listVars, gaveUp, beat>> /\ MonUnchanged

TaskHeartbeatMonitor ==
  MonitorBegin \/ MonitorOk \/ MonitorKill \/ MonitorEnd

-----------------------------------------------------------------------------
(* The tasks, and time.                                                    *)

TaskExits ==
  /\ up
  /\ \E os \in alive : alive' = alive \ {os} /\ zombies' = zombies \cup {os}
  /\ UNCHANGED <<up, procs, reports, codeVars, sig, mon, restart, forks>>
  /\ UNCHANGED <<histVars, used>>

HeartbeatTimeout(i) ==
  /\ up /\ ListFree /\ used.silent < MaxSilent
  /\ procs[i].hb = "recent"
  /\ procs' = [procs EXCEPT ![i].hb = "late"]
  /\ Use("silent")
  /\ UNCHANGED <<up, alive, zombies, reports, codeVars, sig, mon, restart>>
  /\ UNCHANGED <<forks, histVars>>

TaskHandler(pid) ==
  \/ TaskHandlerQueue(pid) \/ TaskHandlerFetch(pid) \/ GetCodeOpen(pid)
  \/ GetCodePart(pid) \/ GetCodeDone(pid) \/ GetCodeFails(pid)

Next ==
  \/ \E pid \in Pids : TaskReceived(pid) \/ TaskHandler(pid)
  \/ \E pid \in Pids, level \in {0, 1} : KillHandler(pid, level)
  \/ DoReset
  \/ \E i \in DOMAIN procs : HeartbeatHandler(i) \/ HeartbeatTimeout(i)
  \/ SigHandler
  \/ Shutdown
  \/ TaskHeartbeatMonitor
  \/ TaskExits

Spec == Init /\ [][Next]_vars

-----------------------------------------------------------------------------
(* Properties.                                                             *)

ListedPids == {procs[i].pid : i \in DOMAIN procs}

\* The types; the list never holds two entries of one task, although a
\* restarted task is added again (PMProcessList::Add).
TypeOK ==
  /\ up \in BOOLEAN
  /\ thr \in [Pids -> {"none", "start", "open", "fetch", "unlinked"}]
  /\ file \in [Names -> {"none", "part", "full"}]
  /\ queue \in Seq(Pids)
  /\ procs \in Seq(PMProcess)
  /\ Len(procs) = Cardinality(ListedPids)
  /\ sig.pc \in SigPcs
  /\ mon \in Nat
  /\ restart \subseteq accepted
  /\ alive \cup zombies \subseteq 1 .. forks
  /\ reports \in [Pids -> Nat]

\* Every child that runs is in the list under its OS pid, or is about to be
\* entered there, so that the PM can still kill it and will notice its end
\* ("Information about the task is kept in the running task list", LaunchTask);
\* and when the PM ends none is left behind.
EveryChildKnown ==
  IF up THEN \A os \in alive : \/ GetIndexOfOsPid(os) # 0
                               \/ sig.pc = "update" /\ sig.os = os
        ELSE alive = {}

\* The same, until a fork fails: LaunchForkFails may remove another task's
\* entry, by an index that was right before an earlier entry went.
ChildrenKnown == used.forkFails = 0 => EveryChildKnown

InProgress(pid) ==
  \/ thr[pid] # "none"
  \/ pid \in restart
  \/ \E i \in DOMAIN queue : queue[i] = pid
  \/ sig.pc \in {"launch", "fork", "update"} /\ sig.pid = pid
  \/ pid \in ListedPids

\* The end of a task is reported to the TM once, and only when it is over for
\* good: a kill request, the monitor and the signal thread never both report
\* it, and a task reported finished does not run again.
ReportedOnce ==
  \A pid \in Pids : reports[pid] > 0 => reports[pid] = 1 /\ ~(up /\ InProgress(pid))

\* A kill request, a reset or an unresponsive task never ends the PM itself
\* ("Find and kill the task", pm_main.cpp).
KillSparesPM == [][up /\ ~up' => Shutdown]_vars

\* A reset brings the PM to "the start state, before any tasks were started"
\* (DoReset): no task of before it is started after it.
ResetStartsOver == \A i \in DOMAIN procs : procs[i].pid \notin old

\* A task the PM accepted is being prepared, is in the list, or its end has
\* been reported, unless a reset ended it, the PM gave it up, or a fork failed.
NoTaskLost ==
  up /\ used.forkFails = 0 =>
    \A pid \in accepted \ (old \cup gaveUp) :
      InProgress(pid) \/ reports[pid] > 0

\* The end of every listed task is reported, that of a faulty one too: the PM
\* "will keep a list of running tasks and remove the PID of the finished task,
\* and sent an SDMTaskFinished message to the TM" (SigChldHandler).
FaultyIsReported == up => \A pid \in gaveUp : reports[pid] > 0

\* The monitor only kills a task that has sent a heartbeat since it was last
\* killed for not answering ("Don't try unless at least one heartbeat has been
\* received", PMProcess::IsUnresponsive).
KilledAfterHeartbeat == [][MonitorKill => procs[mon].pid \in beat]_vars

\* The PM as the TM sees it.
Contract == INSTANCE PmContract WITH
  up      <- up,
  waiting <- IF up THEN {pid \in Pids : InProgress(pid) /\ pid \notin ListedPids}
                   ELSE {},
  run     <- IF up THEN ListedPids ELSE {},
  done    <- {pid \in Pids : reports[pid] > 0}

\* The PM implements PmContract: the internal restarts of an unresponsive task
\* are invisible to the TM, and no report is repeated or contradicted.  With
\* three tasks it does so only until a fork fails: the index of the failed
\* launch may by then be that of another task, whose entry it removes.
ImplementsContract == Contract!Spec

-----------------------------------------------------------------------------
(* Liveness.  The threads keep running.  The monitor sleeps 2 seconds      *)
(* without taskListMutex between its passes, so the signal thread, which   *)
(* waits for that mutex, obtains it: strong fairness.                      *)

Fairness ==
  /\ SF_vars(SigHandler)
  /\ WF_vars(TaskHeartbeatMonitor)

LiveSpec == Spec /\ Fairness

\* The entry of a task names a process that has ended.
Ended(pid) ==
  \E i \in DOMAIN procs : procs[i].pid = pid /\ procs[i].os \notin alive \cup {0}

\* The end of a child process is noticed: unless the PM ends first, the task's
\* entry eventually goes, or is made ready for a process started anew
\* (SigChldHandler, which collects one child per call).
EndIsNoticed == \A pid \in Pids : Ended(pid) ~> ~up \/ ~Ended(pid)

=============================================================================
