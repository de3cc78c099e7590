------------------------- MODULE PmHeartbeatProofs --------------------------
(***************************************************************************)
(* Theorems about PmHeartbeat, for any number of Process Managers, table   *)
(* records and crashes: the state is well-typed, and a PM that answers at  *)
(* once is never taken for failed while at most one reply can be late.     *)
(***************************************************************************)
EXTENDS PmHeartbeat, WellFoundedInduction, FiniteSetTheorems, TLAPS

-----------------------------------------------------------------------------
(* The table of PMs.                                                       *)

\* A search that finds a record stops inside the set it searches.
LEMMA FirstIsIn ==
  ASSUME NEW S, S \subseteq Entries, S # {}
  PROVE  FirstOf(S) \in S
<1> DEFINE R == {ss \in Nat \X Nat : ss[1] < ss[2]}
<1>1. S \subseteq Nat
  BY MaxPMAssumption DEF Entries
<1>2. IsWellFoundedOn(R, Nat)
  BY NatLessThanWellFounded, Zenon DEF OpToRel
<1>3. \A a, b \in Nat : a < b => <<a, b>> \in R
  OBVIOUS
<1>4. PICK x \in S : \A y \in S : ~(<<y, x>> \in R)
  <2> HIDE DEF R
  <2> QED
    BY <1>1, <1>2, WFMin
<1>5. \A y \in S : x <= y
  <2> HIDE DEF R
  <2>1. \A y \in S : ~(y < x)
    BY <1>1, <1>3, <1>4
  <2> QED
    BY <1>1, <2>1
<1> QED
  BY <1>5 DEF FirstOf

\* RegisterPM fills one free record, or none when the table is full.
LEMMA RegisterFills ==
  ASSUME NEW P \in PMTable, NEW p \in PM
  PROVE  /\ RegisterPM(P, p, NoResources) \in PMTable
         /\ \A i \in Entries :
              \/ RegisterPM(P, p, NoResources)[i] = P[i]
              \/ RegisterPM(P, p, NoResources)[i].id = p
<1> DEFINE k == FirstOf(FreeEntries(P))
           u == [in_use |-> TRUE, id |-> p, tasks |-> 0, res |-> NoResources]
<1>1. CASE FreeEntries(P) = {}
  BY <1>1 DEF RegisterPM
<1>2. CASE FreeEntries(P) # {}
  <2>1. k \in Entries
    BY <1>2, FirstIsIn DEF FreeEntries
  <2>2. u \in PMRecord /\ u.id = p
    BY DEF PMRecord, Resources, NoResources
  <2>3. RegisterPM(P, p, NoResources) = [P EXCEPT ![k] = u]
    BY <1>2 DEF RegisterPM
  <2> HIDE DEF k, u
  <2> QED
    BY <2>1, <2>2, <2>3 DEF PMTable
<1> QED
  BY <1>1, <1>2

\* A record that is in use is not the one RegisterPM fills.
LEMMA RegisterSpares ==
  ASSUME NEW P \in PMTable, NEW p, NEW i \in Entries, P[i].in_use
  PROVE  RegisterPM(P, p, NoResources)[i] = P[i]
<1> DEFINE k == FirstOf(FreeEntries(P))
           u == [in_use |-> TRUE, id |-> p, tasks |-> 0, res |-> NoResources]
<1>1. CASE FreeEntries(P) = {}
  BY <1>1 DEF RegisterPM
<1>2. CASE FreeEntries(P) # {}
  <2>1. k \in Entries /\ k # i
    BY <1>2, FirstIsIn DEF FreeEntries
  <2>2. RegisterPM(P, p, NoResources) = [P EXCEPT ![k] = u]
    BY <1>2 DEF RegisterPM
  <2> HIDE DEF k, u
  <2> QED
    BY <2>1, <2>2 DEF PMTable
<1> QED
  BY <1>1, <1>2

\* RemoveAnyFailed frees the record it is at and leaves the others alone.
LEMMA RemoveFrees ==
  ASSUME NEW P \in PMTable, NEW k \in Entries
  PROVE  /\ RemoveEntry(P, k) \in PMTable
         /\ ~RemoveEntry(P, k)[k].in_use
         /\ \A i \in Entries \ {k} : RemoveEntry(P, k)[i] = P[i]
<1> DEFINE u == [in_use |-> FALSE, id |-> P[k].id, tasks |-> 0,
                 res |-> NoResources]
<1>1. u \in PMRecord /\ ~u.in_use
  BY DEF PMTable, PMRecord, Resources, NoResources
<1>2. RemoveEntry(P, k) = [P EXCEPT ![k] = u]
  BY DEF RemoveEntry
<1> HIDE DEF u
<1> QED
  BY <1>1, <1>2 DEF PMTable

\* As many heartbeats are sent as records are in use: no more than the table
\* has, and no fewer than there are registered PMs.
LEMMA InUseCount ==
  ASSUME pms \in PMTable
  PROVE  LET U == {i \in Entries : pms[i].in_use} IN
         /\ Cardinality(U) \in 0 .. MAX_PM
         /\ IsFiniteSet(Registered)
         /\ Cardinality(Registered) \in Nat
         /\ Cardinality(Registered) <= Cardinality(U)
         /\ Registered # {} => Cardinality(U) >= 1
<1> DEFINE U == {i \in Entries : pms[i].in_use}
<1>1. IsFiniteSet(Entries) /\ Cardinality(Entries) = MAX_PM
  <2>1. /\ IsFiniteSet(0 .. MAX_PM - 1)
        /\ Cardinality(0 .. MAX_PM - 1) =
             IF 0 > MAX_PM - 1 THEN 0 ELSE (MAX_PM - 1) - 0 + 1
    BY MaxPMAssumption, FS_Interval
  <2> QED
    BY <2>1, MaxPMAssumption DEF Entries
<1>2. IsFiniteSet(U) /\ Cardinality(U) <= MAX_PM /\ Cardinality(U) \in Nat
  <2>1. U \in SUBSET Entries
    OBVIOUS
  <2> HIDE DEF U
  <2> QED
    BY <1>1, <2>1, FS_Subset, FS_CardinalityType
<1> DEFINE V == {i \in U : pms[i].id \in PM}
           f == [i \in V |-> pms[i].id]
<1>3. IsFiniteSet(V) /\ Cardinality(V) <= Cardinality(U)
  <2>1. V \in SUBSET U
    OBVIOUS
  <2> HIDE DEF U, V
  <2> QED
    BY <1>2, <2>1, FS_Subset
<1>4. f \in Surjection(V, Registered)
  BY DEF Surjection, Registered, AlreadyRegistered, EntriesOf
<1>5. /\ IsFiniteSet(Registered)
      /\ Cardinality(Registered) <= Cardinality(V)
  <2> HIDE DEF U, V, f
  <2> QED
    BY <1>3, <1>4, FS_Surjection
<1>6. Cardinality(Registered) \in Nat /\ Cardinality(V) \in Nat
  <2> HIDE DEF U, V, f
  <2> QED
    BY <1>3, <1>5, FS_CardinalityType
<1>7. Registered # {} => Cardinality(Registered) # 0
  BY <1>5, FS_EmptySet
<1> HIDE DEF U, V, f
<1> QED
  BY <1>2, <1>3, <1>5, <1>6, <1>7, MaxPMAssumption DEF U

-----------------------------------------------------------------------------
(* Types.                                                                  *)

LEMMA InitTypes == Init => TypeOK
<1> SUFFICES ASSUME Init PROVE TypeOK
  OBVIOUS
<1>1. NoPMs \in PMTable
  BY DEF NoPMs, PMTable, NoPMRecord, PMRecord, Resources, NoResources
<1> QED
  BY <1>1, MaxPMAssumption, HbBoundsAssumption DEF Init, TypeOK

\* The steps of the PMHeartbeat thread.
LEMMA ThreadTypes == TypeOK /\ PMHeartbeat => TypeOK'
<1> SUFFICES ASSUME TypeOK, PMHeartbeat PROVE TypeOK'
  OBVIOUS
<1>1. CASE SendHeartbeatToAll
  <2>1. num_sent' \in 0 .. MAX_PM /\ num_received' = 0
    BY <1>1, InUseCount DEF SendHeartbeatToAll, TypeOK
  <2>2. status' \in [Entries -> Int]
    BY <1>1 DEF SendHeartbeatToAll, TypeOK, HEARTBEAT_INACTIVE
  <2>3. owed' \in [PM -> 0 .. MaxOwed]
    BY <1>1, HbBoundsAssumption DEF SendHeartbeatToAll, TypeOK
  <2>4. /\ pc' = "wait"
        /\ UNCHANGED <<pms, pipe, reg, up, crashes>>
    BY <1>1 DEF SendHeartbeatToAll
  <2> QED
    BY <2>1, <2>2, <2>3, <2>4 DEF TypeOK
<1>2. CASE ReadReply
  <2>1. /\ num_sent > num_received /\ pipe # << >>
        /\ status' = HeartbeatReceived(Head(pipe))
        /\ pipe' = Tail(pipe)
        /\ num_received' = num_received + 1
        /\ UNCHANGED <<pms, pc, num_sent, reg, up, owed, crashes>>
    BY <1>2 DEF ReadReply, MoreExpected, envVars
  <2>2. status' \in [Entries -> Int]
    BY <2>1 DEF HeartbeatReceived, TypeOK
  <2>3. pipe' \in Seq(PM)
    BY <2>1 DEF TypeOK
  <2>4. num_received' \in 0 .. num_sent
    BY <2>1 DEF TypeOK
  <2> QED
    BY <2>1, <2>2, <2>3, <2>4 DEF TypeOK
<1>3. CASE WaitOver
  BY <1>3 DEF WaitOver, TypeOK, envVars
<1>4. CASE RemoveAnyFailed
  <2>1. FirstOf(Failed) \in Entries
    BY <1>4, FirstIsIn DEF RemoveAnyFailed, Failed
  <2>2. pms' \in PMTable
    BY <1>4, <2>1, RemoveFrees DEF RemoveAnyFailed, TypeOK
  <2> QED
    BY <1>4, <2>2 DEF RemoveAnyFailed, TypeOK, envVars
<1>5. CASE NoneFailed
  BY <1>5 DEF NoneFailed, TypeOK, envVars
<1> QED
  BY <1>1, <1>2, <1>3, <1>4, <1>5 DEF PMHeartbeat

\* The steps of the Listener and of the PMs.
LEMMA OtherTypes ==
  ASSUME TypeOK, NEW p \in PM,
         QueueHeartbeat(p) \/ RegPMHandler(p) \/ PMStart(p) \/ PMCrash(p)
  PROVE  TypeOK'
<1>1. CASE QueueHeartbeat(p)
  <2>1. owed' \in [PM -> 0 .. MaxOwed] /\ pipe' \in Seq(PM)
    BY <1>1, HbBoundsAssumption DEF QueueHeartbeat, TypeOK
  <2> QED
    BY <1>1, <2>1 DEF QueueHeartbeat, TypeOK
<1>2. CASE RegPMHandler(p)
  <2>1. pms' \in PMTable
    BY <1>2, RegisterFills DEF RegPMHandler, TypeOK
  <2> QED
    BY <1>2, <2>1 DEF RegPMHandler, TypeOK
<1>3. CASE PMStart(p)
  BY <1>3 DEF PMStart, TypeOK, tmVars
<1>4. CASE PMCrash(p)
  <2>1. owed' \in [PM -> 0 .. MaxOwed]
    BY <1>4, HbBoundsAssumption DEF PMCrash, TypeOK
  <2>2. crashes' \in 0 .. MaxCrashes
    BY <1>4, HbBoundsAssumption DEF PMCrash, TypeOK
  <2> QED
    BY <1>4, <2>1, <2>2 DEF PMCrash, TypeOK, tmVars
<1> QED
  BY <1>1, <1>2, <1>3, <1>4

\* The types, and that a round reads at most as many replies as it sent
\* heartbeats (the loop of PMHeartbeat in tm.cpp).
THEOREM HbTypeCorrect == Spec => []TypeOK
<1>1. TypeOK /\ UNCHANGED vars => TypeOK'
  BY DEF TypeOK, vars, tmVars, envVars
<1>2. TypeOK /\ [Next]_vars => TypeOK'
  BY <1>1, ThreadTypes, OtherTypes DEF Next
<1> QED
  BY InitTypes, <1>2, PTL DEF Spec

-----------------------------------------------------------------------------
(* A PM that answers at once stays registered.                             *)

\* At most one PM can be late, and with one reply at a time.  With two such
\* replies, from one PM or from two, a round can be spent on them and end
\* before the prompt ones are read, twice in a row.
OneLate == (\A p, q \in Slow : p = q) /\ MaxOwed = 1

\* The PMs whose reply has yet to arrive; whether one from p is on its way.
Owing == {p \in PM : owed[p] > 0}
Outstanding(p) == owed[p] > 0 \/ \E k \in 1 .. Len(pipe) : pipe[k] = p

\* Before the first round nothing was asked, and a PM is in the table or on
\* its way there, not both.  After it nobody registers.
BootInv ==
  /\ pc = "boot" => /\ pipe = << >> /\ Owing = {}
                    /\ \A i \in Entries : status[i] = 0
                    /\ \A p \in reg : up[p] /\ p \notin Registered
                    /\ \A p \in Registered : up[p]
  /\ pc # "boot" => reg = {}

\* One reply is left over from a round, at most.
FewLate ==
  /\ IsFiniteSet(Owing)
  /\ IF pc = "wait"
     THEN num_received + Len(pipe) + Cardinality(Owing) <= num_sent + 1
     ELSE Len(pipe) + Cardinality(Owing) <= 1

\* A heartbeat counted against record i of p has its reply on its way.  With
\* two counted, the first of these replies is the next to be read.
Credited(p, i) ==
  \/ status[i] <= 0
  \/ status[i] = 1 /\ Outstanding(p)
  \/ /\ status[i] = 2 /\ pc = "wait" /\ num_received = 0 /\ num_sent >= 1
     /\ pipe # << >> /\ Head(pipe) = p

AllCredited ==
  \A p \in PM \ Slow : \A i \in EntriesOf(pms, p) : up[p] => Credited(p, i)

HbInv == TypeOK /\ BootInv /\ FewLate /\ AllCredited

LEMMA InitHb == Init => HbInv
<1> SUFFICES ASSUME Init PROVE HbInv
  OBVIOUS
<1>1. TypeOK
  BY InitTypes
<1>2. Owing = {}
  BY DEF Init, Owing
<1>3. Registered = {}
  BY DEF Init, Registered, AlreadyRegistered, EntriesOf, NoPMs, NoPMRecord
<1>4. BootInv
  BY <1>2, <1>3 DEF Init, BootInv
<1>5. FewLate
  <2>1. Cardinality(Owing) = 0 /\ IsFiniteSet(Owing)
    BY <1>2, FS_EmptySet
  <2>2. Len(pipe) = 0 /\ pc = "boot"
    BY DEF Init
  <2> QED
    BY <2>1, <2>2 DEF FewLate
<1>6. AllCredited
  BY DEF Init, AllCredited, Credited, EntriesOf
<1> QED
  BY <1>1, <1>4, <1>5, <1>6 DEF HbInv

\* While only a slow PM owes a reply, there is at most one to come.
LEMMA OnlySlowOwe ==
  ASSUME OneLate, Owing \subseteq Slow
  PROVE  IsFiniteSet(Owing) /\ Cardinality(Owing) \in 0 .. 1
<1>1. CASE Owing = {}
  BY <1>1, FS_EmptySet
<1>2. CASE Owing # {}
  <2>1. PICK q : q \in Owing
    BY <1>2
  <2>2. Owing = {q}
    BY <2>1 DEF OneLate
  <2>3. IsFiniteSet({q}) /\ Cardinality({q}) = 1
    BY FS_Singleton
  <2> QED
    BY <2>2, <2>3
<1> QED
  BY <1>1, <1>2

\* A queue of at most one reply starts with the reply it holds.
LEMMA OnlyReply ==
  ASSUME NEW s \in Seq(PM), Len(s) <= 1,
         NEW k \in 1 .. Len(s)
  PROVE  s # << >> /\ Head(s) = s[k]
<1> DEFINE n == Len(s)
<1>1. n \in Nat /\ k \in Nat /\ 1 <= k /\ k <= n /\ n <= 1
  OBVIOUS
<1>2. n = 1 /\ k = 1
  <2> HIDE DEF n
  <2> QED
    BY <1>1
<1>3. Len(s) # 0
  BY <1>2
<1>4. s # << >>
  BY <1>3
<1>5. Head(s) = s[1]
  BY <1>4
<1> QED
  BY <1>2, <1>4, <1>5

\* A round begins: what is left over, and one reply per registered PM.
LEMMA SendHb ==
  ASSUME OneLate, AllAtBoot, HbInv, TypeOK', SendHeartbeatToAll
  PROVE  HbInv'
<1> DEFINE U == {i \in Entries : pms[i].in_use}
<1>1. /\ pc \in {"boot", "send"} /\ PromptRepliesArrived
      /\ pc = "boot" => Registered = PM
      /\ status' = [i \in Entries |-> IF pms[i].in_use THEN status[i] + 1
                                                       ELSE HEARTBEAT_INACTIVE]
      /\ num_sent' = Cardinality(U)
      /\ num_received' = 0
      /\ pc' = "wait"
      /\ UNCHANGED <<pms, pipe, reg, up, crashes>>
  BY DEF SendHeartbeatToAll
<1>2. PICK lost \in SUBSET Slow :
        owed' = [p \in PM |-> IF /\ p \in Registered /\ up[p]
                                 /\ p \notin lost /\ owed[p] < MaxOwed
                              THEN owed[p] + 1 ELSE owed[p]]
  BY DEF SendHeartbeatToAll
<1>3. /\ IsFiniteSet(Registered)
      /\ Cardinality(Registered) \in Nat /\ Cardinality(U) \in Nat
      /\ Cardinality(Registered) <= Cardinality(U)
      /\ Registered # {} => Cardinality(U) >= 1
  BY InUseCount DEF HbInv, TypeOK
<1>4. reg = {}
  BY <1>1 DEF HbInv, BootInv, TypeOK
<1>5. BootInv'
  BY <1>1, <1>4 DEF BootInv
<1>6. /\ IsFiniteSet(Owing) /\ Len(pipe) \in Nat /\ Cardinality(Owing) \in Nat
      /\ Len(pipe) + Cardinality(Owing) <= 1
  BY <1>1, FS_CardinalityType DEF HbInv, FewLate, TypeOK
<1>7. FewLate'
  <2>1. Owing' \in SUBSET (Owing \cup Registered)
    BY <1>2 DEF Owing
  <2>2. /\ IsFiniteSet(Owing \cup Registered)
        /\ Cardinality(Owing \cup Registered) =
             Cardinality(Owing) + Cardinality(Registered)
               - Cardinality(Owing \cap Registered)
        /\ Cardinality(Owing \cap Registered) \in Nat
    <3>1. Owing \cap Registered \in SUBSET Owing
      OBVIOUS
    <3> QED
      BY <1>3, <1>6, <3>1, FS_Union, FS_Subset, FS_CardinalityType
  <2>3. /\ IsFiniteSet(Owing') /\ Cardinality(Owing') \in Nat
        /\ Cardinality(Owing') <= Cardinality(Owing) + Cardinality(Registered)
    BY <1>3, <1>6, <2>1, <2>2, FS_Subset, FS_CardinalityType
  <2> HIDE DEF U
  <2>4. num_received' + Len(pipe') + Cardinality(Owing') <= num_sent' + 1
    BY <1>1, <1>3, <1>6, <2>3
  <2> QED
    BY <1>1, <2>3, <2>4 DEF FewLate
<1>8. ASSUME NEW p \in PM \ Slow, NEW i \in EntriesOf(pms, p), up[p]
      PROVE  Credited(p, i)'
  <2>1. i \in Entries /\ pms[i].in_use /\ p \in Registered
    BY <1>8 DEF EntriesOf, Registered, AlreadyRegistered
  <2>2. status'[i] = status[i] + 1 /\ status[i] \in Int
    BY <1>1, <2>1 DEF HbInv, TypeOK
  <2>3. num_sent' >= 1
    BY <1>1, <1>3, <2>1
  <2>4. owed[p] = 0 /\ owed'[p] = 1
    BY <1>1, <1>2, <1>8, <2>1 DEF PromptRepliesArrived, OneLate
  <2>5. Outstanding(p)'
    BY <2>4 DEF Outstanding
  <2>6. CASE status[i] <= 0
    BY <2>2, <2>5, <2>6 DEF Credited
  <2>7. CASE status[i] = 1 /\ Outstanding(p)
    <3>1. PICK k \in 1 .. Len(pipe) : pipe[k] = p
      BY <2>4, <2>7 DEF Outstanding
    <3>2. pipe \in Seq(PM) /\ Len(pipe) <= 1
      BY <1>6 DEF HbInv, TypeOK
    <3>3. pipe # << >> /\ Head(pipe) = p
      BY <3>1, <3>2, OnlyReply
    <3> QED
      BY <1>1, <2>2, <2>3, <2>7, <3>3 DEF Credited
  <2>8. Credited(p, i)
    BY <1>8 DEF HbInv, AllCredited
  <2>9. pc # "wait"
    BY <1>1
  <2> QED
    BY <2>6, <2>7, <2>8, <2>9 DEF Credited
<1>9. AllCredited'
  BY <1>1, <1>8 DEF AllCredited
<1> QED
  BY <1>5, <1>7, <1>9 DEF HbInv

\* One reply is read: its sender has nothing counted against it, and the reply
\* of any other PM is still on its way.
LEMMA ReadHb ==
  ASSUME HbInv, TypeOK', ReadReply
  PROVE  HbInv'
<1>1. /\ pc = "wait" /\ num_sent > num_received /\ pipe # << >>
      /\ status' = HeartbeatReceived(Head(pipe))
      /\ pipe' = Tail(pipe)
      /\ num_received' = num_received + 1
      /\ UNCHANGED <<pms, pc, num_sent, reg, up, owed, crashes>>
  BY DEF ReadReply, MoreExpected, envVars
<1>2. BootInv'
  BY <1>1 DEF BootInv, HbInv
<1>3. /\ pipe \in Seq(PM) /\ Len(pipe) \in Nat /\ Len(pipe) >= 1
      /\ Len(Tail(pipe)) = Len(pipe) - 1
      /\ \A k \in 2 .. Len(pipe) : Tail(pipe)[k - 1] = pipe[k]
      /\ Head(pipe) = pipe[1]
      /\ num_sent \in Nat /\ num_received \in Nat
  BY <1>1 DEF HbInv, TypeOK
<1>4. Owing' = Owing
  BY <1>1 DEF Owing
<1>5. FewLate'
  <2>1. /\ IsFiniteSet(Owing) /\ Cardinality(Owing) \in Nat
        /\ num_received + Len(pipe) + Cardinality(Owing) <= num_sent + 1
    BY <1>1, FS_CardinalityType DEF HbInv, FewLate
  <2> QED
    BY <1>1, <1>3, <1>4, <2>1 DEF FewLate
<1>6. ASSUME NEW p \in PM \ Slow, NEW i \in EntriesOf(pms, p), up[p]
      PROVE  Credited(p, i)'
  <2>1. i \in Entries
    BY DEF EntriesOf
  <2>2. CASE Head(pipe) = p
    BY <1>1, <2>1, <2>2 DEF HeartbeatReceived, Credited
  <2>3. CASE Head(pipe) # p
    <3>1. status'[i] = status[i]
      BY <1>1, <2>1, <2>3 DEF HeartbeatReceived, EntriesOf
    <3>2. status[i] <= 0 \/ (status[i] = 1 /\ Outstanding(p))
      BY <1>6, <2>3 DEF HbInv, AllCredited, Credited
    <3>3. ASSUME Outstanding(p)
          PROVE  Outstanding(p)'
      <4>1. CASE owed[p] > 0
        BY <1>1, <4>1 DEF Outstanding
      <4>2. CASE \E k \in 1 .. Len(pipe) : pipe[k] = p
        <5>1. PICK k \in 1 .. Len(pipe) : pipe[k] = p
          BY <4>2
        <5>2. k # 1
          BY <1>3, <2>3, <5>1
        <5>3. k - 1 \in 1 .. Len(pipe') /\ pipe'[k - 1] = p
          BY <1>1, <1>3, <5>1, <5>2
        <5> QED
          BY <5>3 DEF Outstanding
      <4> QED
        BY <3>3, <4>1, <4>2 DEF Outstanding
    <3> QED
      BY <3>1, <3>2, <3>3 DEF Credited
  <2> QED
    BY <2>2, <2>3
<1>7. AllCredited'
  BY <1>1, <1>6 DEF AllCredited
<1> QED
  BY <1>2, <1>5, <1>7 DEF HbInv

\* The wait is over: with as many replies as heartbeats read, one is left over
\* at most; with the pipe empty, only the slow PM still owes one.
LEMMA WaitOverHb ==
  ASSUME OneLate, HbInv, TypeOK', WaitOver
  PROVE  HbInv'
<1>1. /\ pc = "wait" /\ pc' = "remove"
      /\ num_received >= num_sent \/ (pipe = << >> /\ PromptRepliesArrived)
      /\ UNCHANGED <<pms, status, num_sent, num_received, pipe>>
      /\ UNCHANGED <<reg, up, owed, crashes>>
  BY DEF WaitOver, MoreExpected, envVars, HbInv, TypeOK
<1>2. BootInv' /\ Owing' = Owing
  BY <1>1 DEF BootInv, HbInv, Owing
<1>3. /\ IsFiniteSet(Owing) /\ Cardinality(Owing) \in Nat /\ Len(pipe) \in Nat
      /\ num_sent \in Nat /\ num_received \in Nat
      /\ num_received + Len(pipe) + Cardinality(Owing) <= num_sent + 1
  BY <1>1, FS_CardinalityType DEF HbInv, FewLate, TypeOK
<1>4. FewLate'
  <2>1. CASE num_received >= num_sent
    BY <1>1, <1>2, <1>3, <2>1 DEF FewLate
  <2>2. CASE pipe = << >> /\ PromptRepliesArrived
    <3>1. Owing \subseteq Slow
      BY <2>2 DEF Owing, PromptRepliesArrived
    <3>2. Cardinality(Owing) <= 1 /\ Len(pipe) = 0
      BY <2>2, <3>1, OnlySlowOwe
    <3> QED
      BY <1>1, <1>2, <1>3, <3>2 DEF FewLate
  <2> QED
    BY <1>1, <2>1, <2>2
<1>5. ASSUME NEW p \in PM \ Slow, NEW i \in EntriesOf(pms, p), up[p]
      PROVE  Credited(p, i)'
  <2>1. Credited(p, i)
    BY <1>5 DEF HbInv, AllCredited
  <2>2. ~(status[i] = 2 /\ num_received = 0 /\ num_sent >= 1 /\ pipe # << >>)
    BY <1>1, <1>3
  <2>3. Outstanding(p)' <=> Outstanding(p)
    BY <1>1 DEF Outstanding
  <2> QED
    BY <1>1, <2>1, <2>2, <2>3 DEF Credited
<1>6. AllCredited'
  BY <1>1, <1>5 DEF AllCredited
<1> QED
  BY <1>2, <1>4, <1>6 DEF HbInv

\* No record of a prompt PM is among those RemoveAnyFailed looks for.
LEMMA PromptNotFailed ==
  ASSUME HbInv, pc = "remove",
         NEW p \in PM \ Slow, up[p]
  PROVE  EntriesOf(pms, p) \cap Failed = {}
<1> SUFFICES ASSUME NEW i \in EntriesOf(pms, p), i \in Failed
             PROVE  FALSE
  OBVIOUS
<1>1. status[i] >= 2 /\ status[i] \in Int
  BY DEF Failed, HbInv, TypeOK
<1>2. Credited(p, i)
  BY DEF HbInv, AllCredited
<1> QED
  BY <1>1, <1>2 DEF Credited

LEMMA RemoveHb ==
  ASSUME HbInv, TypeOK', RemoveAnyFailed
  PROVE  /\ HbInv'
         /\ \A p \in PM \ Slow : p \in Registered /\ up[p] => p \in Registered'
<1> DEFINE k == FirstOf(Failed)
<1>1. /\ pc = "remove" /\ Failed # {}
      /\ pms' = RemoveEntry(pms, k)
      /\ UNCHANGED <<status, pc, num_sent, num_received, pipe>>
      /\ UNCHANGED <<reg, up, owed, crashes>>
  BY DEF RemoveAnyFailed, envVars
<1>2. k \in Failed /\ k \in Entries
  BY <1>1, FirstIsIn DEF Failed
<1>3. /\ ~pms'[k].in_use
      /\ \A i \in Entries \ {k} : pms'[i] = pms[i]
  <2> HIDE DEF k
  <2> QED
    BY <1>1, <1>2, RemoveFrees DEF HbInv, TypeOK
<1>4. \A p : EntriesOf(pms', p) = EntriesOf(pms, p) \ {k}
  <2> HIDE DEF k
  <2> QED
    BY <1>3 DEF EntriesOf
<1> HIDE DEF k
<1>5. BootInv'
  BY <1>1 DEF HbInv, BootInv
<1>6. FewLate'
  BY <1>1 DEF HbInv, FewLate, Owing
<1>7. AllCredited'
  <2> SUFFICES ASSUME NEW p \in PM \ Slow, NEW i \in EntriesOf(pms', p), up[p]
               PROVE  Credited(p, i)'
    BY <1>1 DEF AllCredited
  <2>1. Credited(p, i)
    BY <1>4 DEF HbInv, AllCredited
  <2> QED
    BY <1>1, <2>1 DEF Credited, Outstanding
<1>8. ASSUME NEW p \in PM \ Slow, p \in Registered, up[p]
      PROVE  p \in Registered'
  <2>1. EntriesOf(pms, p) # {}
    BY <1>8 DEF Registered, AlreadyRegistered
  <2>2. k \notin EntriesOf(pms, p)
    BY <1>1, <1>2, <1>8, PromptNotFailed
  <2>3. EntriesOf(pms', p) # {}
    BY <1>4, <2>1, <2>2
  <2> QED
    BY <2>3 DEF Registered, AlreadyRegistered
<1> QED
  BY <1>5, <1>6, <1>7, <1>8 DEF HbInv

LEMMA NoneFailedHb ==
  ASSUME HbInv, TypeOK', NoneFailed
  PROVE  HbInv'
<1>1. /\ pc = "remove" /\ pc' = "send"
      /\ UNCHANGED <<pms, status, num_sent, num_received, pipe>>
      /\ UNCHANGED <<reg, up, owed, crashes>>
  BY DEF NoneFailed, envVars
<1>2. BootInv' /\ FewLate'
  BY <1>1 DEF HbInv, BootInv, FewLate, Owing
<1>3. AllCredited'
  <2> SUFFICES ASSUME NEW p \in PM \ Slow, NEW i \in EntriesOf(pms, p), up[p]
               PROVE  Credited(p, i)'
    BY <1>1 DEF AllCredited
  <2>1. Credited(p, i)
    BY DEF HbInv, AllCredited
  <2> QED
    BY <1>1, <2>1 DEF Credited, Outstanding
<1> QED
  BY <1>2, <1>3 DEF HbInv

\* A reply moves from the PM that owes it to the end of the pipe.
LEMMA QueueHb ==
  ASSUME OneLate, HbInv, TypeOK', NEW q \in PM, QueueHeartbeat(q)
  PROVE  HbInv'
<1>1. /\ owed[q] > 0
      /\ owed' = [owed EXCEPT ![q] = @ - 1]
      /\ pipe' = Append(pipe, q)
      /\ UNCHANGED <<pms, status, pc, num_sent, num_received, reg, up, crashes>>
  BY DEF QueueHeartbeat
<1>2. owed[q] = 1 /\ owed'[q] = 0 /\ \A p \in PM \ {q} : owed'[p] = owed[p]
  BY <1>1 DEF OneLate, HbInv, TypeOK
<1>3. q \in Owing /\ Owing' = Owing \ {q}
  BY <1>1, <1>2 DEF Owing
<1>4. /\ pipe \in Seq(PM)
      /\ Len(pipe') = Len(pipe) + 1
      /\ pipe'[Len(pipe) + 1] = q
      /\ \A j \in 1 .. Len(pipe) : pipe'[j] = pipe[j]
      /\ Len(pipe) \in Nat /\ num_received \in Nat /\ num_sent \in Nat
  BY <1>1 DEF HbInv, TypeOK
<1>5. BootInv'
  BY <1>1, <1>3 DEF HbInv, BootInv
<1>6. FewLate'
  <2>1. IsFiniteSet(Owing) /\ Cardinality(Owing) \in Nat
    BY FS_CardinalityType DEF HbInv, FewLate
  <2>2. IsFiniteSet(Owing') /\ Cardinality(Owing') = Cardinality(Owing) - 1
    BY <1>3, <2>1, FS_RemoveElement
  <2>3. IF pc = "wait"
        THEN num_received + Len(pipe) + Cardinality(Owing) <= num_sent + 1
        ELSE Len(pipe) + Cardinality(Owing) <= 1
    BY DEF HbInv, FewLate
  <2> QED
    BY <1>1, <1>4, <2>1, <2>2, <2>3 DEF FewLate
<1>7. ASSUME NEW p \in PM, Outstanding(p)
      PROVE  Outstanding(p)'
  <2>1. CASE p = q
    BY <1>4, <2>1 DEF Outstanding
  <2>2. CASE p # q /\ owed[p] > 0
    BY <1>2, <2>2 DEF Outstanding
  <2>3. CASE \E j \in 1 .. Len(pipe) : pipe[j] = p
    BY <1>4, <2>3 DEF Outstanding
  <2> QED
    BY <1>7, <2>1, <2>2, <2>3 DEF Outstanding
<1>8. pipe # << >> => pipe' # << >> /\ Head(pipe') = Head(pipe)
  BY <1>1, <1>4
<1>9. AllCredited'
  <2> SUFFICES ASSUME NEW p \in PM \ Slow, NEW i \in EntriesOf(pms, p), up[p]
               PROVE  Credited(p, i)'
    BY <1>1 DEF AllCredited
  <2>1. Credited(p, i)
    BY DEF HbInv, AllCredited
  <2> QED
    BY <1>1, <1>7, <1>8, <2>1 DEF Credited
<1> QED
  BY <1>5, <1>6, <1>9 DEF HbInv

\* Registrations are over before the first heartbeat.
LEMMA RegHb ==
  ASSUME HbInv, TypeOK', NEW q \in PM, RegPMHandler(q)
  PROVE  /\ HbInv'
         /\ \A p \in Registered : p \in Registered'
<1>1. /\ q \in reg /\ reg' = reg \ {q}
      /\ pms' = IF AlreadyRegistered(pms, q) THEN pms
                ELSE RegisterPM(pms, q, NoResources)
      /\ UNCHANGED <<status, pc, num_sent, num_received, pipe, up, owed, crashes>>
  BY DEF RegPMHandler
<1>2. /\ pc = "boot" /\ up[q] /\ q \notin Registered
      /\ pipe = << >> /\ Owing = {}
      /\ \A i \in Entries : status[i] = 0
      /\ \A p \in reg : up[p] /\ p \notin Registered
      /\ \A p \in Registered : up[p]
  BY <1>1 DEF HbInv, BootInv
<1>3. \A i \in Entries : pms'[i] = pms[i] \/ pms'[i].id = q
  BY <1>1, RegisterFills DEF HbInv, TypeOK
<1>4. \A p \in PM \ {q} : EntriesOf(pms', p) \subseteq EntriesOf(pms, p)
  BY <1>3 DEF EntriesOf
<1>5. \A p \in PM : p # q /\ p \in Registered' => p \in Registered
  BY <1>4 DEF Registered, AlreadyRegistered
<1>6. BootInv'
  <2>1. \A p \in reg' : up'[p] /\ p \notin Registered'
    BY <1>1, <1>2, <1>5 DEF HbInv, TypeOK
  <2>2. \A p \in Registered' : up'[p]
    BY <1>1, <1>2, <1>5 DEF Registered
  <2>3. Owing' = {}
    BY <1>1, <1>2 DEF Owing
  <2> QED
    BY <1>1, <1>2, <2>1, <2>2, <2>3 DEF BootInv
<1>7. FewLate'
  BY <1>1 DEF HbInv, FewLate, Owing
<1>8. AllCredited'
  BY <1>1, <1>2 DEF AllCredited, Credited, EntriesOf
<1>9. ASSUME NEW p \in Registered
      PROVE  p \in Registered'
  <2>1. PICK i \in EntriesOf(pms, p) : TRUE
    BY DEF Registered, AlreadyRegistered
  <2>2. i \in Entries /\ pms[i].in_use /\ pms[i].id = p /\ p \in PM
    BY <2>1 DEF EntriesOf, Registered
  <2>3. pms'[i] = pms[i]
    BY <1>1, <2>2, RegisterSpares DEF HbInv, TypeOK
  <2> QED
    BY <2>2, <2>3 DEF Registered, AlreadyRegistered, EntriesOf
<1> QED
  BY <1>6, <1>7, <1>8, <1>9 DEF HbInv

\* Every PM starts before the first round.
LEMMA StartHb ==
  ASSUME AllAtBoot, HbInv, TypeOK', NEW q \in PM, PMStart(q)
  PROVE  HbInv'
<1>1. /\ ~up[q] /\ pc = "boot"
      /\ up' = [up EXCEPT ![q] = TRUE]
      /\ reg' = reg \cup {q}
      /\ UNCHANGED <<pms, status, pc, num_sent, num_received, pipe>>
      /\ UNCHANGED <<owed, crashes>>
  BY DEF PMStart, tmVars
<1>2. q \notin Registered /\ Registered' = Registered /\ Owing' = Owing
  BY <1>1 DEF HbInv, BootInv, Registered, Owing
<1>3. \A p \in PM : up[p] => up'[p]
  BY <1>1 DEF HbInv, TypeOK
<1>4. up'[q]
  BY <1>1 DEF HbInv, TypeOK
<1>5. BootInv'
  <2>1. \A p \in reg' : up'[p] /\ p \notin Registered'
    BY <1>1, <1>2, <1>3, <1>4 DEF HbInv, BootInv, TypeOK
  <2>2. \A p \in Registered' : up'[p]
    BY <1>1, <1>2, <1>3 DEF HbInv, BootInv, Registered
  <2> QED
    BY <1>1, <1>2, <2>1, <2>2 DEF HbInv, BootInv
<1>6. FewLate'
  BY <1>1, <1>2 DEF HbInv, FewLate
<1>7. AllCredited'
  BY <1>1 DEF HbInv, BootInv, AllCredited, Credited, EntriesOf
<1> QED
  BY <1>5, <1>6, <1>7 DEF HbInv

\* A crash takes the PM's replies with it, but those already in the pipe.
LEMMA CrashHb ==
  ASSUME AllAtBoot, HbInv, TypeOK', NEW q \in PM, PMCrash(q)
  PROVE  HbInv'
<1>1. /\ pc # "boot" /\ up[q]
      /\ up' = [up EXCEPT ![q] = FALSE]
      /\ owed' = [owed EXCEPT ![q] = 0]
      /\ UNCHANGED <<pms, status, pc, num_sent, num_received, pipe, reg>>
  BY DEF PMCrash, tmVars
<1>2. /\ ~up'[q]
      /\ \A p \in PM \ {q} : up'[p] = up[p] /\ owed'[p] = owed[p]
      /\ owed'[q] = 0
  BY <1>1 DEF HbInv, TypeOK
<1>3. Owing' \in SUBSET Owing
  BY <1>2 DEF Owing
<1>4. BootInv'
  BY <1>1 DEF HbInv, BootInv
<1>5. FewLate'
  <2>1. /\ IsFiniteSet(Owing) /\ Cardinality(Owing) \in Nat
        /\ IsFiniteSet(Owing') /\ Cardinality(Owing') \in Nat
        /\ Cardinality(Owing') <= Cardinality(Owing)
    BY <1>3, FS_Subset, FS_CardinalityType DEF HbInv, FewLate
  <2>2. Len(pipe) \in Nat /\ num_received \in Nat /\ num_sent \in Nat
    BY DEF HbInv, TypeOK
  <2>3. IF pc = "wait"
        THEN num_received + Len(pipe) + Cardinality(Owing) <= num_sent + 1
        ELSE Len(pipe) + Cardinality(Owing) <= 1
    BY DEF HbInv, FewLate
  <2> QED
    BY <1>1, <2>1, <2>2, <2>3 DEF FewLate
<1>6. AllCredited'
  <2> SUFFICES ASSUME NEW p \in PM \ Slow, NEW i \in EntriesOf(pms, p), up'[p]
               PROVE  Credited(p, i)'
    BY <1>1 DEF AllCredited
  <2>1. p # q /\ up[p]
    BY <1>2
  <2>2. Credited(p, i)
    BY <2>1 DEF HbInv, AllCredited
  <2>3. Outstanding(p) => Outstanding(p)'
    BY <1>1, <1>2, <2>1 DEF Outstanding
  <2> QED
    BY <1>1, <2>2, <2>3 DEF Credited
<1> QED
  BY <1>4, <1>5, <1>6 DEF HbInv

\* The records are only touched by RegPMHandler and RemoveAnyFailed.
LEMMA StepHb ==
  ASSUME OneLate, AllAtBoot, HbInv, TypeOK', [Next]_vars
  PROVE  /\ HbInv'
         /\ \A p \in PM \ Slow : p \in Registered /\ up[p] => p \in Registered'
<1> DEFINE Kept == \A p \in PM \ Slow :
                     p \in Registered /\ up[p] => p \in Registered'
<1>1. UNCHANGED pms => Kept
  BY DEF Registered
<1>2. CASE PMHeartbeat
  <2>1. CASE SendHeartbeatToAll
    BY <1>1, <2>1, SendHb DEF SendHeartbeatToAll
  <2>2. CASE ReadReply
    BY <1>1, <2>2, ReadHb DEF ReadReply
  <2>3. CASE WaitOver
    BY <1>1, <2>3, WaitOverHb DEF WaitOver
  <2>4. CASE RemoveAnyFailed
    BY <2>4, RemoveHb
  <2>5. CASE NoneFailed
    BY <1>1, <2>5, NoneFailedHb DEF NoneFailed
  <2> QED
    BY <1>2, <2>1, <2>2, <2>3, <2>4, <2>5 DEF PMHeartbeat
<1>3. ASSUME NEW q \in PM,
             QueueHeartbeat(q) \/ RegPMHandler(q) \/ PMStart(q) \/ PMCrash(q)
      PROVE  HbInv' /\ Kept
  <2>1. CASE QueueHeartbeat(q)
    BY <1>1, <2>1, QueueHb DEF QueueHeartbeat
  <2>2. CASE RegPMHandler(q)
    BY <2>2, RegHb
  <2>3. CASE PMStart(q)
    BY <1>1, <2>3, StartHb DEF PMStart, tmVars
  <2>4. CASE PMCrash(q)
    BY <1>1, <2>4, CrashHb DEF PMCrash, tmVars
  <2> QED
    BY <1>3, <2>1, <2>2, <2>3, <2>4
<1>4. CASE UNCHANGED vars
  <2>1. /\ UNCHANGED <<pms, status, pc, num_sent, num_received, pipe>>
        /\ UNCHANGED <<reg, up, owed, crashes>>
    BY <1>4 DEF vars, tmVars, envVars
  <2>2. BootInv' /\ FewLate'
    BY <2>1 DEF HbInv, BootInv, FewLate, Owing, Registered
  <2>3. AllCredited'
    BY <2>1 DEF HbInv, AllCredited, Credited, Outstanding
  <2> QED
    BY <1>1, <2>1, <2>2, <2>3 DEF HbInv
<1> QED
  BY <1>2, <1>3, <1>4 DEF Next

\* Check for any PM nodes that haven't responded in a while (tm.cpp,
\* PMHeartbeat): a PM that answers every heartbeat at once is not removed,
\* whatever crashes there are, if the PMs register before the first round and
\* one other PM at most may be late, by one reply.
THEOREM HbPromptStays ==
  ASSUME AllAtBoot, OneLate
  PROVE  Spec => PromptStaysRegistered
<1> DEFINE Kept == \A p \in PM \ Slow :
                     p \in Registered /\ up[p] => p \in Registered'
<1>1. Init => HbInv
  BY InitHb
<1>2. HbInv /\ TypeOK' /\ [Next]_vars => HbInv' /\ Kept
  BY StepHb
<1>3. Spec => []TypeOK
  BY HbTypeCorrect
<1>4. Spec => [][Kept]_vars
  BY <1>1, <1>2, <1>3, PTL DEF Spec
<1> QED
  BY <1>4 DEF PromptStaysRegistered
=============================================================================
