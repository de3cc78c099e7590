---------------------------- MODULE PMRecordList ----------------------------
(***************************************************************************)
(* The Task Manager's table of Process Managers (sdm/tm/pm_record_list.cpp)*)
(* as operators on a table of MAX_PM records.  Each method of the class    *)
(* locks DataMutex for its whole body, so each operator is one atomic step *)
(* of the caller, and a caller that needs two of them can be interleaved   *)
(* between them.                                                           *)
(*                                                                         *)
(* HeartbeatStatus and the methods that use it are in module PmHeartbeat.  *)
(***************************************************************************)
EXTENDS TaskList, Integers

CONSTANTS MAX_PM      \* records in the table (8 in pm_record_list.h)

ASSUME MaxPMAssumption == MAX_PM \in Nat \ {0}

Entries == 0 .. MAX_PM - 1

PMRecord == [in_use : BOOLEAN,
             id     : PM \cup {NoPM},
             tasks  : Int,              \* a signed short in pm_record.h
             res    : Resources]

PMTable == [Entries -> PMRecord]

NoPMRecord == [in_use |-> FALSE, id |-> NoPM, tasks |-> 0,
               res |-> NoResources]
NoPMs == [i \in Entries |-> NoPMRecord]

\* The in-use records with address p; the code keeps at most one.
EntriesOf(P, p) == {i \in Entries : P[i].in_use /\ P[i].id = p}
FreeEntries(P) == {i \in Entries : ~P[i].in_use}

AlreadyRegistered(P, p) == EntriesOf(P, p) # {}
IsEmpty(P) == \A i \in Entries : ~P[i].in_use

\* A full table is left unchanged.
RegisterPM(P, p, res) ==
  IF FreeEntries(P) = {}
  THEN P
  ELSE [P EXCEPT ![FirstOf(FreeEntries(P))] =
          [in_use |-> TRUE, id |-> p, tasks |-> 0, res |-> res]]

\* TaskHasStarted (d = 1) and TaskFinished (d = -1): the first in-use record
\* with that address, if there is one.
AddTasks(P, p, d) ==
  IF EntriesOf(P, p) = {}
  THEN P
  ELSE [P EXCEPT ![FirstOf(EntriesOf(P, p))].tasks = @ + d]

TaskHasStarted(P, p) == AddTasks(P, p, 1)
\* Mutant: the count is left alone.
PMTaskFinishedIgnored(P, p) == P
PMTaskFinished(P, p) == AddTasks(P, p, -1)

ClearAllRunningTasks(P) == [i \in Entries |-> [P[i] EXCEPT !.tasks = 0]]

SetTasks(P, p, k) ==
  [i \in Entries |-> IF i \in EntriesOf(P, p) THEN [P[i] EXCEPT !.tasks = k]
                                              ELSE P[i]]

GetTasks(P, p) ==
  IF EntriesOf(P, p) = {} THEN 0 ELSE P[FirstOf(EntriesOf(P, p))].tasks

\* FindPMID does not look at in_use: it relies on RemoveEntry having cleared
\* the resources of a removed record.
MatchingId(P, id) == {i \in Entries : P[i].res.pmid = id}

(***************************************************************************)
(* FindEligiblePM(NumTasks): the first record from schedulerInfoIndex      *)
(* (start) on that is in use, has at most k tasks, the task's architecture *)
(* and operating system, and enough memory.                                *)
(***************************************************************************)
\* Mutant: the memory size is not compared.
FitsAnyMemory(r, res) == r.in_use /\ r.res.archos = res.archos

Fits(r, res) == r.in_use /\ r.res.archos = res.archos /\ r.res.mem >= res.mem

EligibleFrom(P, start, k, res) ==
  {i \in start .. MAX_PM - 1 : Fits(P[i], res) /\ P[i].tasks <= k}

\* Mutant: the resources of the failed PM stay in the record.
RemoveEntryKeepsResources(P, i) ==
  [P EXCEPT ![i] = [in_use |-> FALSE, id |-> P[i].id, tasks |-> 0,
                    res |-> P[i].res]]

\* What RemoveAnyFailed leaves of the record of a failed PM.
RemoveEntry(P, i) ==
  [P EXCEPT ![i] = [in_use |-> FALSE, id |-> P[i].id, tasks |-> 0,
                    res |-> NoResources]]

=============================================================================
