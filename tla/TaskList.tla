------------------------------ MODULE TaskList ------------------------------
(***************************************************************************)
(* The Task Manager's task table (sdm/tm/tasklist.cpp, sdm/tm/task.cpp):   *)
(* an array of NUMTASKS slots, each INACTIVE, PENDING (waiting to be       *)
(* scheduled) or SCHEDULED (sent to a Process Manager).  The methods of    *)
(* class TaskList are operators from a table to a table; the callers hold  *)
(* list_mutex around every one of them, so each is one atomic step of the  *)
(* modules that use it.                                                    *)
(*                                                                         *)
(* Slots are numbered from 0, as in the source.  The filename is the task  *)
(* name; priority and version are never read by the code and are left out. *)
(***************************************************************************)
EXTENDS Naturals

CONSTANTS NUMTASKS,   \* slots in the table (50 in taskdefs.h)
          PM,         \* addresses of the Process Manager nodes
          NoPM,       \* the null SDMComponent_ID
          Names,      \* task file names
          NoName      \* the NULL filename of an empty slot

ASSUME NumTasksAssumption == NUMTASKS \in Nat \ {0}
ASSUME NoPMAssumption == NoPM \notin PM

Slots == 0 .. NUMTASKS - 1
NoSlot == NUMTASKS                  \* FindPendingTask's "not found" (-1)
PID_INVALID == 0
MODE_NORMAL == 0
MODE_ALWAYS_RUNNING == 1

(***************************************************************************)
(* SDMTaskResources: one 16-bit word with the architecture and operating   *)
(* system (compared together, for equality), the memory size (compared     *)
(* with >=) and the preferred Process Manager id (0 when not set).         *)
(***************************************************************************)
Resources == [archos : Nat, mem : Nat, pmid : Nat]
NoResources == [archos |-> 0, mem |-> 0, pmid |-> 0]
IsPreferredPmIdSet(res) == res.pmid # 0

Task == [state   : {"INACTIVE", "PENDING", "SCHEDULED"},
         pid     : Nat,
         pm      : PM \cup {NoPM},
         name    : Names \cup {NoName},
         res     : Resources,
         timeout : Nat,
         mode    : {MODE_NORMAL, MODE_ALWAYS_RUNNING}]

TaskTable == [Slots -> Task]

\* Task::InitTask, which Task::Delete also ends with.
InitTask == [state |-> "INACTIVE", pid |-> PID_INVALID, pm |-> NoPM,
             name |-> NoName, res |-> NoResources, timeout |-> 0,
             mode |-> MODE_NORMAL]

\* TaskList::Init and TaskList::ClearList.
ClearList == [n \in Slots |-> InitTask]

\* The slot a "for (n = 0; n < NUMTASKS; n++)" search stops at.
FirstOf(S) == CHOOSE n \in S : \A m \in S : n <= m

InState(L, s) == {n \in Slots : L[n].state = s}
\* Mutant: >= for ==.
WithPidFrom(L, pid) == {n \in Slots : L[n].pid >= pid}
WithPid(L, pid) == {n \in Slots : L[n].pid = pid}

AnyInactive(L) == InState(L, "INACTIVE") # {}
AnyPending(L) == InState(L, "PENDING") # {}

(***************************************************************************)
(* AddTo: the first INACTIVE slot receives the task.  Task::operator=      *)
(* deletes the old contents, so the slot's PM address is the null one.     *)
(* With no INACTIVE slot the table is unchanged: AddTo returns false and   *)
(* no caller looks at the result.                                          *)
(***************************************************************************)
AddTo(L, t) ==
  IF AnyInactive(L)
  THEN [L EXCEPT ![FirstOf(InState(L, "INACTIVE"))] = [t EXCEPT !.pm = NoPM]]
  ELSE L

\* Mutant: the slot is marked, as SetState would, and never freed.
TaskFinishedKeepsSlot(L, pid) ==
  IF WithPid(L, pid) = {}
  THEN L
  ELSE [L EXCEPT ![FirstOf(WithPid(L, pid))].state = "FINISHED"]

(***************************************************************************)
(* TaskFinished: the first slot with the pid, whatever its state, is       *)
(* emptied (MODE_NORMAL) or made PENDING without a pid                     *)
(* (MODE_ALWAYS_RUNNING).                                                  *)
(***************************************************************************)
TaskFinished(L, pid) ==
  IF WithPid(L, pid) = {}
  THEN L
  ELSE LET n == FirstOf(WithPid(L, pid)) IN
       [L EXCEPT ![n] =
          IF L[n].mode = MODE_NORMAL
          THEN InitTask
          ELSE [L[n] EXCEPT !.state = "PENDING", !.pid = PID_INVALID]]

\* PMFailure: every slot with that PM address goes back to PENDING.  The pid
\* and the PM address stay in the slot.
PMFailure(L, p) ==
  [n \in Slots |-> IF L[n].pm = p THEN [L[n] EXCEPT !.state = "PENDING"]
                                  ELSE L[n]]

FindPendingTask(L) ==
  IF AnyPending(L) THEN FirstOf(InState(L, "PENDING")) ELSE NoSlot

\* Mutant: the preference is never given up.
KeepPreferredPmId(L, id) == L
RemovePreferredPmId(L, id) ==
  [n \in Slots |-> IF L[n].state # "INACTIVE" /\ L[n].res.pmid = id
                   THEN [L[n] EXCEPT !.res.pmid = 0]
                   ELSE L[n]]

\* GetPMAddress: the PM of the first slot with that pid, or the null address.
GetPMAddress(L, pid) ==
  IF WithPid(L, pid) = {} THEN NoPM ELSE L[FirstOf(WithPid(L, pid))].pm

=============================================================================
