---------------------------- MODULE PmHeartbeat -----------------------------
(***************************************************************************)
(* How the Task Manager finds out that a Process Manager has failed: the   *)
(* PMHeartbeat thread (tm.cpp), HeartbeatStatus and the methods of         *)
(* PMRecordList that use it, the Listener's QueueHeartbeat and the pipe    *)
(* between the two threads.                                                *)
(*                                                                         *)
(* A round: SendHeartbeatToAll counts one more unanswered heartbeat for    *)
(* every registered PM; then as many replies are read from the pipe as     *)
(* heartbeats were sent, whoever they are from, unless the pipe stays      *)
(* empty for PM_HEARTBEAT_TIMEOUT; then every PM with two unanswered       *)
(* heartbeats is removed.                                                  *)
(***************************************************************************)
EXTENDS PMRecordList, Sequences, FiniteSets

CONSTANTS
  Slow,         \* the PMs whose replies may be lost, or late
  MaxOwed,      \* bound: heartbeats to one PM that are not answered yet
  MaxCrashes,   \* bound: crashes of PMs
  AllAtBoot     \* assumption: every PM starts and registers before the first
                \* heartbeat is sent; one that crashes later is not restarted

ASSUME SlowAssumption == Slow \subseteq PM
ASSUME HbBoundsAssumption == MaxOwed \in Nat \ {0} /\ MaxCrashes \in Nat
ASSUME AllAtBootAssumption == AllAtBoot \in BOOLEAN

VARIABLES
  pms,            \* pmList
  status,         \* HeartbeatStatus
  pc,             \* the PMHeartbeat thread: "boot" (before its first round),
                  \* "send", "wait" or "remove"
  num_sent,
  num_received,
  pipe,           \* pm_heartbeat_pipe: the senders of the queued replies
  reg,            \* SDMRegPM messages in flight
  up,             \* environment: the PMs that are alive
  owed,           \* environment: heartbeats whose reply has yet to arrive
  crashes         \* environment: crashes so far

tmVars == <<pms, status, pc, num_sent, num_received, pipe>>
envVars == <<reg, up, owed, crashes>>
vars == <<tmVars, envVars>>

HEARTBEAT_INACTIVE == -1

Init ==
  /\ pms = NoPMs
  /\ status = [i \in Entries |-> 0]
  /\ pc = "boot"
  /\ num_sent = 0
  /\ num_received = 0
  /\ pipe = << >>
  /\ reg = {}
  /\ up = [p \in PM |-> FALSE]
  /\ owed = [p \in PM |-> 0]
  /\ crashes = 0

Registered == {p \in PM : AlreadyRegistered(pms, p)}

-----------------------------------------------------------------------------
(* The PMHeartbeat thread.                                                 *)

\* The PMs that answer at once have done so by the end of a poll that times
\* out, and by the end of the thread's sleep(5).
PromptRepliesArrived == \A p \in PM \ Slow : owed[p] = 0

\* Of the heartbeats, any that goes to a slow PM may get lost.
SendHeartbeatToAll ==
  /\ pc \in {"boot", "send"}
  /\ PromptRepliesArrived
  /\ AllAtBoot /\ pc = "boot" => Registered = PM
  /\ status' = [i \in Entries |-> IF pms[i].in_use THEN status[i] + 1
                                                   ELSE HEARTBEAT_INACTIVE]
  /\ num_sent' = Cardinality({i \in Entries : pms[i].in_use})
  /\ num_received' = 0
  /\ pc' = "wait"
  /\ \E lost \in SUBSET Slow :
       owed' = [p \in PM |-> IF /\ p \in Registered /\ up[p]
                                /\ p \notin lost /\ owed[p] < MaxOwed
                             THEN owed[p] + 1 ELSE owed[p]]
  /\ UNCHANGED <<pms, pipe, reg, up, crashes>>

\* Mutant: every PM is credited with the reply.
HeartbeatReceivedByAll(p) == [i \in Entries |-> 0]
HeartbeatReceived(p) == [i \in Entries |-> IF i \in EntriesOf(pms, p) THEN 0
                                                                      ELSE status[i]]

MoreExpected == num_sent > num_received

\* One reply from the pipe.
ReadReply ==
  /\ pc = "wait" /\ MoreExpected /\ pipe # << >>
  /\ status' = HeartbeatReceived(Head(pipe))
  /\ pipe' = Tail(pipe)
  /\ num_received' = num_received + 1
  /\ UNCHANGED <<pms, pc, num_sent, envVars>>

\* As many replies as heartbeats; or none for PM_HEARTBEAT_TIMEOUT.
WaitOver ==
  /\ pc = "wait"
  /\ \/ ~MoreExpected
     \/ pipe = << >> /\ PromptRepliesArrived
  /\ pc' = "remove"
  /\ UNCHANGED <<pms, status, num_sent, num_received, pipe, envVars>>

\* Mutant: one unanswered heartbeat is enough.
FailedAfterOne == {i \in Entries : pms[i].in_use /\ status[i] >= 1}
Failed == {i \in Entries : pms[i].in_use /\ status[i] >= 2}

\* One call of RemoveAnyFailed.  HeartbeatStatus stays as it is.
RemoveAnyFailed ==
  /\ pc = "remove" /\ Failed # {}
  /\ pms' = RemoveEntry(pms, FirstOf(Failed))
  /\ UNCHANGED <<status, pc, num_sent, num_received, pipe, envVars>>

\* The last call finds nobody; the thread sleeps until the next round.
NoneFailed ==
  /\ pc = "remove" /\ Failed = {}
  /\ pc' = "send"
  /\ UNCHANGED <<pms, status, num_sent, num_received, pipe, envVars>>

PMHeartbeat ==
  SendHeartbeatToAll \/ ReadReply \/ WaitOver \/ RemoveAnyFailed \/ NoneFailed

-----------------------------------------------------------------------------
(* The Listener thread.                                                    *)

QueueHeartbeat(p) ==
  /\ owed[p] > 0
  /\ owed' = [owed EXCEPT ![p] = @ - 1]
  /\ pipe' = Append(pipe, p)
  /\ UNCHANGED <<pms, status, pc, num_sent, num_received, reg, up, crashes>>

\* RegisterPM does not touch HeartbeatStatus.
RegPMHandler(p) ==
  /\ p \in reg
  /\ reg' = reg \ {p}
  /\ pms' = IF AlreadyRegistered(pms, p) THEN pms
            ELSE RegisterPM(pms, p, NoResources)
  /\ UNCHANGED <<status, pc, num_sent, num_received, pipe, up, owed, crashes>>

-----------------------------------------------------------------------------
(* The Process Managers.                                                   *)

PMStart(p) ==
  /\ ~up[p]
  /\ AllAtBoot => pc = "boot"
  /\ up' = [up EXCEPT ![p] = TRUE]
  /\ reg' = reg \cup {p}
  /\ UNCHANGED <<tmVars, owed, crashes>>

PMCrash(p) ==
  /\ up[p] /\ crashes < MaxCrashes
  /\ AllAtBoot => pc # "boot"
  /\ up' = [up EXCEPT ![p] = FALSE]
  /\ owed' = [owed EXCEPT ![p] = 0]
  /\ crashes' = crashes + 1
  /\ UNCHANGED <<tmVars, reg>>

Next ==
  \/ PMHeartbeat
  \/ \E p \in PM : \/ QueueHeartbeat(p) \/ RegPMHandler(p)
                   \/ PMStart(p) \/ PMCrash(p)

Spec == Init /\ [][Next]_vars

-----------------------------------------------------------------------------
(* Properties.                                                             *)

\* The types; no round reads more replies than it sent heartbeats.
TypeOK ==
  /\ pms \in PMTable
  /\ status \in [Entries -> Int]
  /\ pc \in {"boot", "send", "wait", "remove"}
  /\ num_sent \in 0 .. MAX_PM
  /\ num_received \in 0 .. num_sent
  /\ pipe \in Seq(PM)
  /\ reg \subseteq PM
  /\ up \in [PM -> BOOLEAN]
  /\ owed \in [PM -> 0 .. MaxOwed]
  /\ crashes \in 0 .. MaxCrashes

\* Only a PM that died, or whose replies are late or lost, is removed ("Check
\* for any PM nodes that haven't responded in a while", tm.cpp): a PM that
\* answers every heartbeat at once is never taken for failed, whatever the
\* other PMs do.
PromptStaysRegistered ==
  [][\A p \in PM \ Slow : p \in Registered /\ up[p] => p \in Registered']_vars

\* The heartbeat thread never stops, and the messages it waits for arrive or
\* the poll times out.
Fairness ==
  /\ WF_vars(PMHeartbeat)
  /\ \A p \in PM : WF_vars(QueueHeartbeat(p))

LiveSpec == Spec /\ Fairness

\* A PM that died and stays down is eventually removed, so that its tasks are
\* scheduled again.
DeadIsRemoved ==
  \A p \in PM : p \in Registered /\ ~up[p] ~> up[p] \/ p \notin Registered

=============================================================================
