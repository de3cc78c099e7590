--------------------------- MODULE MonitorProofs ----------------------------
(***************************************************************************)
(* Type correctness of the monitor, and that it never kills a child which  *)
(* was up when the heartbeat was sent and is up when the reply is looked   *)
(* for.  The second needs that such a child either owes a reply or has one *)
(* lying unread, hanging in between included.                              *)
(***************************************************************************)
EXTENDS Monitor, TLAPS

USE TriesAssumption, NumToGetAssumption, FaultArgsAssumption,
    MonitorBoundsAssumption

\* A (re)start leaves the monitor and its child well-typed.
LEMMA StartTypes ==
  ASSUME TypeOK, Start
  PROVE  /\ pc' \in {"send", "exit"}
         /\ child' \in {"starting", "none"}
         /\ owed' \in 0 .. MaxOwed
         /\ used' \in [{"deaths", "hangs", "forkFails"} -> Nat]
         /\ misses' \in 0 .. MissCap
         /\ answered' \in BOOLEAN
         /\ posted' \in {"no", "yes", "lost"}
         /\ inbox' = inbox /\ asked' = asked
<1>1. owed' \in 0 .. MaxOwed /\ misses' \in 0 .. MissCap
  BY DEF TypeOK, Start, MissCap
<1>2. used' \in [{"deaths", "hangs", "forkFails"} -> Nat]
  BY DEF TypeOK, Start, Use
<1>3. posted' \in {"no", "yes", "lost"}
  BY DEF TypeOK, Start
<1> QED BY <1>1, <1>2, <1>3 DEF TypeOK, Start

\* The initial state has its types.
LEMMA InitTypes == Init => TypeOK
<1> SUFFICES ASSUME Init PROVE TypeOK
  OBVIOUS
<1>1. used \in [{"deaths", "hangs", "forkFails"} -> Nat]
  <2>1. used = [x \in {"deaths", "hangs", "forkFails"} |-> 0]
    BY DEF Init
  <2> QED BY <2>1
<1>2. /\ miss_count \in 0 .. MissCap /\ misses \in 0 .. MissCap
      /\ inbox \in 0 .. NumToGet /\ owed \in 0 .. MaxOwed
  BY DEF Init, MissCap
<1> QED BY <1>1, <1>2 DEF Init, TypeOK

\* A count that stops at its cap stays within it.
LEMMA BumpType ==
  ASSUME NEW n \in 0 .. MissCap
  PROVE  Bump(n) \in 0 .. MissCap
  BY DEF Bump, MissCap

\* Every step preserves the types.
LEMMA TypeInductive == TypeOK /\ [Next]_vars => TypeOK'
<1> SUFFICES ASSUME TypeOK, [Next]_vars PROVE TypeOK'
  OBVIOUS
<1>1. CASE SendHeartbeat
  BY <1>1 DEF SendHeartbeat, TypeOK, MissCap
<1>2. CASE ChildQuit
  BY <1>2, StartTypes DEF ChildQuit, TypeOK, MissCap
<1>3. CASE SomeReplies
  <2>1. miss_count' \in 0 .. MissCap /\ misses' \in 0 .. MissCap
    BY <1>3, BumpType DEF SomeReplies, TypeOK, MissCap
  <2> QED BY <1>3, <2>1 DEF SomeReplies, TypeOK
<1>4. CASE NoReplies
  BY <1>4, BumpType DEF NoReplies, TypeOK
<1>5. CASE Unresponsive
  BY <1>5, BumpType, StartTypes DEF Unresponsive, TypeOK
<1>6. CASE SigIntHandler
  BY <1>6 DEF SigIntHandler, histVars, TypeOK
<1>7. CASE Child
  <2>1. CASE ChildStarts
    BY <2>1 DEF ChildStarts, monVars, TypeOK
  <2>2. CASE Reply
    BY <2>2 DEF Reply, histVars, TypeOK
  <2>3. CASE ChildHangs
    BY <2>3 DEF ChildHangs, Use, monVars, histVars, TypeOK
  <2>4. CASE ChildRecovers
    BY <2>4 DEF ChildRecovers, monVars, histVars, TypeOK
  <2>5. CASE ChildDies
    BY <2>5 DEF ChildDies, Use, monVars, histVars, TypeOK
  <2> QED BY <1>7, <2>1, <2>2, <2>3, <2>4, <2>5 DEF Child
<1>8. CASE UNCHANGED vars
  BY <1>8 DEF vars, monVars, histVars, TypeOK
<1> QED
  BY <1>1, <1>2, <1>3, <1>4, <1>5, <1>6, <1>7, <1>8 DEF Next, MonitorLoop

\* The counters of the monitor loop (tm_monitor.cpp main) stay in their ranges.
THEOREM MonitorTypes == Spec => []TypeOK
<1> QED BY InitTypes, TypeInductive, PTL DEF Spec

-----------------------------------------------------------------------------
\* A child that was up when it was asked has not been replaced, and owes a
\* reply or has sent one that is not read yet.
AskedOwes ==
  pc = "wait" /\ asked =>
    /\ child # "starting"
    /\ child \in {"up", "hung"} => owed > 0 \/ inbox > 0

\* Every step keeps the reply of a child that was asked owed or unread.
LEMMA AskedOwesInductive == TypeOK /\ AskedOwes /\ [Next]_vars => AskedOwes'
<1> SUFFICES ASSUME TypeOK, AskedOwes, [Next]_vars PROVE AskedOwes'
  OBVIOUS
<1>1. CASE SendHeartbeat
  <2>1. CASE child = "up"
    <3>1. owed' > 0
      BY <1>1, <2>1 DEF SendHeartbeat, TypeOK
    <3> QED BY <1>1, <2>1, <3>1 DEF SendHeartbeat, AskedOwes
  <2>2. CASE child # "up"
    <3>1. ~asked'
      BY <1>1, <2>2 DEF SendHeartbeat
    <3> QED BY <3>1 DEF AskedOwes
  <2> QED BY <2>1, <2>2
<1>2. CASE ChildQuit \/ SomeReplies \/ NoReplies \/ Unresponsive \/ SigIntHandler
  <2>1. pc' \in {"send", "exit"}
    BY <1>2, StartTypes
    DEF ChildQuit, SomeReplies, NoReplies, Unresponsive, SigIntHandler
  <2> QED BY <2>1 DEF AskedOwes
<1>3. CASE Child
  <2>1. CASE ChildStarts
    BY <2>1 DEF ChildStarts, monVars, AskedOwes
  <2>2. CASE Reply
    BY <2>2 DEF Reply, histVars, TypeOK, AskedOwes
  <2>3. CASE ChildHangs \/ ChildRecovers \/ ChildDies
    BY <2>3
    DEF ChildHangs, ChildRecovers, ChildDies, monVars, histVars, AskedOwes
  <2> QED BY <1>3, <2>1, <2>2, <2>3 DEF Child
<1>4. CASE UNCHANGED vars
  BY <1>4 DEF vars, monVars, histVars, AskedOwes
<1> QED BY <1>1, <1>2, <1>3, <1>4 DEF Next, MonitorLoop

\* The monitor loop of tm_monitor.cpp, pm_monitor.cpp and sm_monitor.cpp never
\* kills a child that was up when asked and is up when the reply is due,
\* whatever miss_count was left over from earlier rounds or children.
THEOREM PromptChildLives == Spec => PromptNotKilled
<1>1. Init => TypeOK /\ AskedOwes
  <2>1. Init => pc # "wait"
    BY DEF Init
  <2> QED BY <2>1, InitTypes DEF AskedOwes
<1>2. TypeOK /\ AskedOwes /\ [Next]_vars => (TypeOK /\ AskedOwes)'
  BY TypeInductive, AskedOwesInductive
<1>3. TypeOK /\ AskedOwes => [Unresponsive => ~(asked /\ child = "up")]_vars
  BY DEF TypeOK, AskedOwes, Unresponsive, SleepOver, IsReady
<1> QED BY <1>1, <1>2, <1>3, PTL DEF Spec, PromptNotKilled

=============================================================================
