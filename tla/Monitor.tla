------------------------------ MODULE Monitor -------------------------------
(***************************************************************************)
(* The monitor process of a manager (sdm/tm/tm_monitor.cpp,                *)
(* sdm/pm/pm_monitor.cpp, sdm/sm/sm_monitor.cpp): it starts the manager as *)
(* a child process, sends it a heartbeat every HEARTBEAT_INTERVAL, and     *)
(* starts it again when it quits or stops answering.  The three programs   *)
(* differ in the constants only.  One round of the loop is two steps, with *)
(* the sleep between them.                                                 *)
(*                                                                         *)
(* The child answers nothing while it starts (the TM drops the monitor's   *)
(* messages until it has found the DM), answers within the interval when   *)
(* it is up, and answers late, or never, when it hangs.                    *)
(***************************************************************************)
EXTENDS Naturals

CONSTANTS
  NUM_HEARTBEAT_TRIES,  \* 10 for the TM and the PM, 2 for the SM
  NumToGet,             \* replies to one heartbeat: 1, or 2 for the SM, which
                        \* is sent one over UDP and one over TCP
  FaultArgs,            \* a restart passes -f: do not load the start-up tasks
  MaxDeaths,            \* bound: the child quits
  MaxHangs,             \* bound: the child hangs
  MaxForkFails,         \* bound: failing forks
  MaxOwed               \* bound: heartbeats waiting in a hung child's socket

ASSUME TriesAssumption == NUM_HEARTBEAT_TRIES \in Nat \ {0}
ASSUME NumToGetAssumption == NumToGet \in Nat \ {0}
ASSUME FaultArgsAssumption == FaultArgs \in BOOLEAN
ASSUME MonitorBoundsAssumption ==
  /\ MaxDeaths \in Nat /\ MaxHangs \in Nat /\ MaxForkFails \in Nat
  /\ MaxOwed \in Nat /\ MaxOwed >= NumToGet

VARIABLES
  pc,          \* the monitor: "send", "wait" (asleep after sending), "exit"
  miss_count,  \* capped at NUM_HEARTBEAT_TRIES + 1, past which it has no effect
  inbox,       \* replies the monitor has not read
  child,       \* "starting", "up", "hung", or "dead" (and not waited for)
  owed,        \* heartbeats the child has received and not answered
  used,        \* how much of each bound is used up
  asked,       \* history: the child was up when the heartbeat was sent
  misses,      \* history: heartbeats in a row this child has not answered
  answered,    \* history: this child has answered a heartbeat
  posted       \* history: the start-up tasks reached a TM that found the DM,
               \* or are with the present one

monVars == <<pc, miss_count, inbox>>
histVars == <<asked, misses, answered, posted>>
vars == <<monVars, child, owed, used, histVars>>

MissCap == NUM_HEARTBEAT_TRIES + 1
Bump(n) == IF n < MissCap THEN n + 1 ELSE n
Use(what) == used' = [used EXCEPT ![what] = @ + 1]

Init ==
  /\ pc = "send"
  /\ miss_count = 0
  /\ inbox = 0
  /\ child = "starting"
  /\ owed = 0
  /\ used = [deaths |-> 0, hangs |-> 0, forkFails |-> 0]
  /\ asked = FALSE
  /\ misses = 0
  /\ answered = FALSE
  /\ posted = "no"

-----------------------------------------------------------------------------
(* The monitor.                                                            *)

SendHeartbeat ==
  /\ pc = "send"
  /\ pc' = "wait"
  /\ owed' = IF child \in {"up", "hung"} /\ owed + NumToGet <= MaxOwed
             THEN owed + NumToGet ELSE owed
  /\ asked' = (child = "up")
  /\ UNCHANGED <<miss_count, inbox, child, used, misses, answered, posted>>

\* The sleep is over: a child that is up has answered.
SleepOver == pc = "wait" /\ (child = "up" => owed = 0)

\* StartTM, StartPM, StartSM: a new child, or the monitor gives up.  Neither
\* miss_count nor the unread replies are touched.
Start ==
  /\ \/ /\ pc' = "send"
        /\ child' = "starting"
        /\ posted' = IF posted = "no" /\ FaultArgs THEN "lost" ELSE posted
        /\ UNCHANGED used
     \/ /\ used.forkFails < MaxForkFails
        /\ Use("forkFails")
        /\ pc' = "exit"
        /\ child' = "none"
        /\ UNCHANGED posted
  /\ owed' = 0
  /\ misses' = 0
  /\ answered' = FALSE
  /\ UNCHANGED <<inbox, asked>>

\* Mutant: a child that quit while heartbeats are being missed is not noticed.
QuitUnlessMissed == child = "dead" /\ miss_count = 0
\* waitpid(-1, WNOHANG) returns the child.
Quit == child = "dead"

ChildQuit ==
  /\ SleepOver /\ Quit
  /\ Start
  /\ UNCHANGED miss_count

\* Mutant: one reply is taken for none.
IsReadyFromTwo == inbox > 1
IsReady == inbox > 0

\* Too few replies are a miss, but only the branch without any compares
\* miss_count.
SomeReplies ==
  /\ SleepOver /\ ~Quit /\ IsReady
  /\ miss_count' = IF inbox < NumToGet THEN Bump(miss_count) ELSE 0
  /\ misses' = IF inbox < NumToGet THEN Bump(misses) ELSE 0
  /\ answered' = (answered \/ inbox >= NumToGet)
  /\ inbox' = 0
  /\ pc' = "send"
  /\ UNCHANGED <<child, owed, used, asked, posted>>

TooMany == miss_count + 1 = NUM_HEARTBEAT_TRIES

\* Mutant: only too few replies are counted as a miss.
NoRepliesNotCounted ==
  /\ SleepOver /\ ~Quit /\ ~IsReady /\ ~TooMany
  /\ misses' = Bump(misses)
  /\ pc' = "send"
  /\ UNCHANGED <<miss_count, inbox, child, owed, used, asked, answered, posted>>

NoReplies ==
  /\ SleepOver /\ ~Quit /\ ~IsReady /\ ~TooMany
  /\ miss_count' = Bump(miss_count)
  /\ misses' = Bump(misses)
  /\ pc' = "send"
  /\ UNCHANGED <<inbox, child, owed, used, asked, answered, posted>>

\* The child is killed, waited for, and started again.
Unresponsive ==
  /\ SleepOver /\ ~Quit /\ ~IsReady /\ TooMany
  /\ miss_count' = Bump(miss_count)
  /\ Start

\* SIGINT.  kill is called with its arguments swapped, so the child goes on.
SigIntHandler ==
  /\ pc # "exit"
  /\ pc' = "exit"
  /\ UNCHANGED <<miss_count, inbox, child, owed, used, histVars>>

MonitorLoop ==
  SendHeartbeat \/ ChildQuit \/ SomeReplies \/ NoReplies \/ Unresponsive

-----------------------------------------------------------------------------
(* The child.                                                              *)

ChildStarts ==
  /\ child = "starting"
  /\ child' = "up"
  /\ posted' = IF posted = "no" THEN "yes" ELSE posted
  /\ UNCHANGED <<monVars, owed, used, asked, misses, answered>>

\* Mutant: the child answers a heartbeat twice.
ReplyTwice ==
  /\ child = "up" /\ owed > 0
  /\ owed' = owed - 1
  /\ inbox' = IF inbox < NumToGet THEN inbox + 2 ELSE inbox
  /\ UNCHANGED <<pc, miss_count, child, used, histVars>>

\* One reply; the replies no longer waited for are not counted.
Reply ==
  /\ child = "up" /\ owed > 0
  /\ owed' = owed - 1
  /\ inbox' = IF inbox < NumToGet THEN inbox + 1 ELSE inbox
  /\ UNCHANGED <<pc, miss_count, child, used, histVars>>

ChildHangs ==
  /\ child = "up" /\ used.hangs < MaxHangs
  /\ child' = "hung"
  /\ Use("hangs")
  /\ UNCHANGED <<monVars, owed, histVars>>

ChildRecovers ==
  /\ child = "hung"
  /\ child' = "up"
  /\ UNCHANGED <<monVars, owed, used, histVars>>

ChildDies ==
  /\ child \in {"starting", "up", "hung"} /\ used.deaths < MaxDeaths
  /\ child' = "dead"
  /\ owed' = 0
  /\ Use("deaths")
  /\ UNCHANGED <<monVars, histVars>>

Child == ChildStarts \/ Reply \/ ChildHangs \/ ChildRecovers \/ ChildDies

Next == MonitorLoop \/ SigIntHandler \/ Child

Spec == Init /\ [][Next]_vars

-----------------------------------------------------------------------------
(* Properties.                                                             *)

\* The types; a round never leaves more replies unread than it can use.
TypeOK ==
  /\ pc \in {"send", "wait", "exit"}
  /\ miss_count \in 0 .. MissCap
  /\ inbox \in 0 .. NumToGet
  /\ child \in {"starting", "up", "hung", "dead", "none"}
  /\ owed \in 0 .. MaxOwed
  /\ used \in [{"deaths", "hangs", "forkFails"} -> Nat]
  /\ asked \in BOOLEAN
  /\ misses \in 0 .. MissCap
  /\ answered \in BOOLEAN
  /\ posted \in {"no", "yes", "lost"}

\* A child that was up when the heartbeat was sent and is up when the monitor
\* looks for the reply is not killed, whatever misses were counted before.
PromptNotKilled == [][Unresponsive => ~(asked /\ child = "up")]_vars

\* A child is only killed after NUM_HEARTBEAT_TRIES unanswered heartbeats
\* ("Number of times to miss a response before restarting the TM",
\* tm_monitor.cpp).
KilledAfterTries == [][Unresponsive => misses + 1 >= NUM_HEARTBEAT_TRIES]_vars

\* The start-up tasks survive until a TM has found the DM: the restart of a TM
\* that was only waiting for it is not "a result of a fault, don't load tasks"
\* (tm.cpp).
StartUpTasksKept == posted # "lost"

-----------------------------------------------------------------------------
(* Liveness.  The monitor keeps running and a child that is up answers.    *)

Fairness == WF_vars(MonitorLoop) /\ WF_vars(Reply)

LiveSpec == Spec /\ Fairness

\* A child that quit is started again, unless the monitor itself ends.
DeadIsRestarted == child = "dead" ~> child # "dead" \/ pc = "exit"

\* A child that has answered before and hangs is started again, unless it
\* recovers or the monitor ends ("If this monitor detects no or improper
\* response from the SM, the SM process will be restarted", sm_monitor.cpp).
HungIsRestarted == child = "hung" /\ answered ~> child # "hung" \/ pc = "exit"

\* The same of a child that has never answered.
SilentIsRestarted == child = "hung" ~> child # "hung" \/ pc = "exit"

=============================================================================
