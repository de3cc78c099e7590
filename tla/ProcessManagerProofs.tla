------------------------ MODULE ProcessManagerProofs ------------------------
(***************************************************************************)
(* Theorems about ProcessManager, for any number of tasks and executables  *)
(* and every value of the bounds: the state is well-typed and no task is   *)
(* listed twice; until a fork fails every child process is known and no    *)
(* task is lost; and, for tasks with executables of their own, the end of  *)
(* a task is reported once and the PM keeps its contract with the TM.      *)
(***************************************************************************)
EXTENDS ProcessManager, FiniteSetTheorems, FunctionTheorems,
        WellFoundedInduction, TLAPS

-----------------------------------------------------------------------------
(* Lists of running tasks, as the set of their entries.                    *)

Members(s) == {s[i] : i \in DOMAIN s}

\* No two entries are for one task.
Distinct(s) == \A i, j \in DOMAIN s : s[i].pid = s[j].pid => i = j

\* A set of numbers has a least element, which Min chooses.
LEMMA MinIn ==
  ASSUME NEW S, S \subseteq Nat, S # {}
  PROVE  Min(S) \in S
<1> DEFINE R == {ss \in Nat \X Nat : ss[1] < ss[2]}
<1>1. IsWellFoundedOn(R, Nat)
  BY NatLessThanWellFounded, Zenon DEF OpToRel
<1>2. \A x, y \in Nat : x < y => <<x, y>> \in R
  OBVIOUS
<1> HIDE DEF R
<1>3. PICK x \in S : \A y \in S : ~(<<y, x>> \in R)
  BY <1>1, WFMin
<1>4. \A y \in S : x <= y
  <2> TAKE y \in S
  <2>1. x \in Nat /\ y \in Nat /\ ~(y < x)
    BY <1>2, <1>3
  <2> QED
    BY <2>1
<1> QED
  BY <1>4 DEF Min

\* The searches: 0, or an entry that has what is looked for.
LEMMA FindSdmPid ==
  ASSUME procs \in Seq(PMProcess), NEW pid
  PROVE  LET i == GetIndexOfSdmPid(pid) IN
         \/ i = 0 /\ \A m \in Members(procs) : m.pid # pid
         \/ i \in DOMAIN procs /\ i # 0 /\ procs[i].pid = pid
<1> DEFINE I == {k \in 1..Len(procs) : procs[k].pid = pid}
<1>1. GetIndexOfSdmPid(pid) = IF I # {} THEN Min(I) ELSE 0
  BY DEF GetIndexOfSdmPid, SelectInSeq
<1>2. I \subseteq Nat /\ DOMAIN procs = 1..Len(procs)
  OBVIOUS
<1>3. CASE I = {}
  BY <1>1, <1>2, <1>3 DEF Members
<1>4. CASE I # {}
  <2>1. Min(I) \in I
    BY <1>2, <1>4, MinIn
  <2> QED
    BY <1>1, <1>2, <1>4, <2>1
<1> QED
  BY <1>3, <1>4

\* A search by process id finds an entry with that id, if there is one.
LEMMA FindOsPid ==
  ASSUME procs \in Seq(PMProcess), NEW os
  PROVE  LET i == GetIndexOfOsPid(os) IN
         \/ i = 0 /\ \A m \in Members(procs) : m.os # os
         \/ i \in DOMAIN procs /\ i # 0 /\ procs[i].os = os
<1> DEFINE I == {k \in 1..Len(procs) : procs[k].os = os}
<1>1. GetIndexOfOsPid(os) = IF I # {} THEN Min(I) ELSE 0
  BY DEF GetIndexOfOsPid, SelectInSeq
<1>2. I \subseteq Nat /\ DOMAIN procs = 1..Len(procs)
  OBVIOUS
<1>3. CASE I = {}
  BY <1>1, <1>2, <1>3 DEF Members
<1>4. CASE I # {}
  <2>1. Min(I) \in I
    BY <1>2, <1>4, MinIn
  <2> QED
    BY <1>1, <1>2, <1>4, <2>1
<1> QED
  BY <1>3, <1>4

\* Erasing an entry that is there.
LEMMA RemoveFacts ==
  ASSUME NEW s \in Seq(PMProcess), Distinct(s), NEW i \in DOMAIN s
  PROVE  /\ RemoveIndex(s, i) \in Seq(PMProcess)
         /\ Distinct(RemoveIndex(s, i))
         /\ Members(RemoveIndex(s, i)) = Members(s) \ {s[i]}
<1> DEFINE r == RemoveIndex(s, i)
           Old(k) == IF k < i THEN k ELSE k + 1
<1>1. i \in 1..Len(s) /\ Len(s) \in Nat
  OBVIOUS
<1>2. r = SubSeq(s, 1, i - 1) \o SubSeq(s, i + 1, Len(s))
  <2>1. i <= Len(s)
    BY <1>1
  <2>2. RemoveIndex(s, i) = RemoveAt(s, i)
    BY <2>1 DEF RemoveIndex
  <2> QED
    BY <2>2 DEF RemoveAt
<1>3. /\ r \in Seq(PMProcess) /\ Len(r) = Len(s) - 1
      /\ \A k \in 1..(Len(s) - 1) : r[k] = s[Old(k)]
  <2> DEFINE x == SubSeq(s, 1, i - 1)
             y == SubSeq(s, i + 1, Len(s))
  <2>1. /\ x \in Seq(PMProcess) /\ Len(x) = i - 1
        /\ \A k \in 1..(i - 1) : x[k] = s[k]
    BY <1>1
  <2>2. /\ y \in Seq(PMProcess) /\ Len(y) = Len(s) - i
        /\ \A k \in 1..(Len(s) - i) : y[k] = s[i + k]
    BY <1>1
  <2> HIDE DEF x, y
  <2>3. /\ x \o y \in Seq(PMProcess) /\ Len(x \o y) = Len(s) - 1
        /\ \A k \in 1..(Len(s) - 1) :
             (x \o y)[k] = IF k <= i - 1 THEN x[k] ELSE y[k - (i - 1)]
    <3>1. Len(x) + Len(y) = Len(s) - 1
      BY <1>1, <2>1, <2>2
    <3>2. /\ x \o y \in Seq(PMProcess) /\ Len(x \o y) = Len(x) + Len(y)
          /\ \A k \in 1..(Len(x) + Len(y)) :
               (x \o y)[k] = IF k <= Len(x) THEN x[k] ELSE y[k - Len(x)]
      BY <2>1, <2>2
    <3> QED
      BY <2>1, <3>1, <3>2
  <2>4. r = x \o y
    BY <1>2 DEF x, y
  <2> HIDE DEF r
  <2>5. \A k \in 1..(Len(s) - 1) : r[k] = s[Old(k)]
    <3> TAKE k \in 1..(Len(s) - 1)
    <3>1. CASE k <= i - 1
      BY <1>1, <2>1, <2>3, <2>4, <3>1
    <3>2. CASE k > i - 1
      <4>1. k - (i - 1) \in 1..(Len(s) - i) /\ i + (k - (i - 1)) = k + 1
        BY <1>1, <3>2
      <4>2. ~(k <= i - 1) /\ Old(k) = k + 1
        BY <1>1, <3>2
      <4>3. r[k] = y[k - (i - 1)]
        BY <2>3, <2>4, <4>2
      <4>4. y[k - (i - 1)] = s[i + (k - (i - 1))]
        BY <2>2, <4>1
      <4> QED
        BY <4>1, <4>2, <4>3, <4>4
    <3> QED
      BY <1>1, <3>1, <3>2
  <2> QED
    BY <2>3, <2>4, <2>5
<1>4. DOMAIN r = 1..(Len(s) - 1)
  BY <1>3
<1> HIDE DEF r
<1>5. Distinct(r)
  <2> SUFFICES ASSUME NEW a \in DOMAIN r, NEW b \in DOMAIN r, r[a].pid = r[b].pid
               PROVE  a = b
    BY DEF Distinct
  <2>1. a \in 1..(Len(s) - 1) /\ b \in 1..(Len(s) - 1)
    BY <1>4
  <2>2. Old(a) \in DOMAIN s /\ Old(b) \in DOMAIN s
    BY <1>1, <2>1
  <2>3. r[a] = s[Old(a)] /\ r[b] = s[Old(b)]
    BY <1>3, <2>1
  <2>4. Old(a) = Old(b)
    <3> HIDE DEF Old
    <3> QED
      BY <2>2, <2>3 DEF Distinct
  <2> QED
    BY <1>1, <2>1, <2>4
<1>6. \A m \in Members(r) : m \in Members(s) \ {s[i]}
  <2> TAKE m \in Members(r)
  <2>1. PICK k \in 1..(Len(s) - 1) : m = r[k]
    BY <1>4 DEF Members
  <2>2. m = s[Old(k)] /\ Old(k) \in DOMAIN s /\ Old(k) # i
    BY <1>1, <1>3, <2>1
  <2> QED
    BY <2>2 DEF Members, Distinct
<1>7. \A m \in Members(s) \ {s[i]} : m \in Members(r)
  <2> TAKE m \in Members(s) \ {s[i]}
  <2>1. PICK j \in 1..Len(s) : m = s[j] /\ j # i
    BY <1>1 DEF Members
  <2> DEFINE k == IF j < i THEN j ELSE j - 1
  <2>2. k \in 1..(Len(s) - 1) /\ Old(k) = j
    BY <1>1, <2>1
  <2> QED
    BY <1>3, <1>4, <2>1, <2>2 DEF Members
<1> QED
  BY <1>3, <1>5, <1>6, <1>7 DEF r

\* Erasing by an index that may be stale.
LEMMA RemoveStaleFacts ==
  ASSUME NEW s \in Seq(PMProcess), Distinct(s), NEW i \in Nat \ {0}
  PROVE  /\ RemoveIndex(s, i) \in Seq(PMProcess)
         /\ Distinct(RemoveIndex(s, i))
         /\ Members(RemoveIndex(s, i)) \subseteq Members(s)
<1>1. CASE i <= Len(s)
  BY <1>1, RemoveFacts
<1>2. CASE i = Len(s) + 1 /\ s # << >>
  <2>1. RemoveIndex(s, i) = SubSeq(s, 1, Len(s) - 1)
    BY <1>2 DEF RemoveIndex, Front
  <2> DEFINE r == SubSeq(s, 1, Len(s) - 1)
  <2>2. /\ r \in Seq(PMProcess) /\ DOMAIN r = 1..(Len(s) - 1)
        /\ \A k \in 1..(Len(s) - 1) : r[k] = s[k] /\ k \in DOMAIN s
    BY <1>2
  <2> HIDE DEF r
  <2>3. Distinct(r) /\ Members(r) \subseteq Members(s)
    BY <2>2 DEF Distinct, Members
  <2> QED
    BY <2>1, <2>2, <2>3 DEF r
<1>3. CASE i > Len(s) /\ ~(i = Len(s) + 1 /\ s # << >>)
  BY <1>3 DEF RemoveIndex
<1> QED
  BY <1>1, <1>2, <1>3

\* Changing an entry, but not whose it is.
LEMMA ChangeFacts ==
  ASSUME NEW s \in Seq(PMProcess), Distinct(s), NEW i \in DOMAIN s,
         NEW e \in PMProcess, e.pid = s[i].pid
  PROVE  /\ [s EXCEPT ![i] = e] \in Seq(PMProcess)
         /\ Distinct([s EXCEPT ![i] = e])
         /\ Members([s EXCEPT ![i] = e]) = (Members(s) \ {s[i]}) \cup {e}
<1> DEFINE r == [s EXCEPT ![i] = e]
<1>1. /\ r \in Seq(PMProcess) /\ DOMAIN r = DOMAIN s /\ r[i] = e
      /\ \A k \in DOMAIN s : k # i => r[k] = s[k]
  OBVIOUS
<1> HIDE DEF r
<1>2. Distinct(r)
  BY <1>1 DEF Distinct
<1>3. Members(r) = (Members(s) \ {s[i]}) \cup {e}
  BY <1>1 DEF Members, Distinct
<1> QED
  BY <1>1, <1>2, <1>3 DEF r

\* Adding an entry for a task that has none.
LEMMA AppendFacts ==
  ASSUME NEW s \in Seq(PMProcess), Distinct(s),
         NEW e \in PMProcess, \A m \in Members(s) : m.pid # e.pid
  PROVE  /\ Append(s, e) \in Seq(PMProcess)
         /\ Distinct(Append(s, e))
         /\ Members(Append(s, e)) = Members(s) \cup {e}
<1> DEFINE r == Append(s, e)
<1>1. /\ r \in Seq(PMProcess) /\ DOMAIN r = 1..(Len(s) + 1) /\ r[Len(s) + 1] = e
      /\ DOMAIN s = 1..Len(s) /\ Len(s) \in Nat
      /\ \A k \in 1..Len(s) : r[k] = s[k]
  OBVIOUS
<1> HIDE DEF r
<1>2. Distinct(r)
  BY <1>1 DEF Distinct, Members
<1>3. Members(r) = Members(s) \cup {e}
  BY <1>1 DEF Members
<1> QED
  BY <1>1, <1>2, <1>3 DEF r

-----------------------------------------------------------------------------
(* What the safety properties tell apart of the list: which task has which *)
(* process.                                                                *)

Tasks(s) == {<<m.pid, m.os>> : m \in Members(s)}

\* An entry of the list is one of its tasks.
LEMMA TaskOf ==
  ASSUME NEW s \in Seq(PMProcess), NEW i \in DOMAIN s
  PROVE  /\ s[i] \in PMProcess /\ s[i] \in Members(s)
         /\ <<s[i].pid, s[i].os>> \in Tasks(s)
BY DEF Members, Tasks

\* The tasks of a list are pids with process ids.
LEMMA TasksType ==
  ASSUME NEW s \in Seq(PMProcess)
  PROVE  Tasks(s) \subseteq Pids \X Nat
<1>1. \A m \in Members(s) : m \in PMProcess
  BY DEF Members
<1>2. \A m \in PMProcess : m.pid \in Pids /\ m.os \in Nat
  BY DEF PMProcess
<1> QED
  BY <1>1, <1>2 DEF Tasks

\* A listed task has one process.
LEMMA TasksOne ==
  ASSUME NEW s \in Seq(PMProcess), Distinct(s), NEW pid, NEW x, NEW y,
         <<pid, x>> \in Tasks(s), <<pid, y>> \in Tasks(s)
  PROVE  x = y
<1>1. PICK i \in DOMAIN s : <<pid, x>> = <<s[i].pid, s[i].os>>
  BY DEF Tasks, Members
<1>2. PICK j \in DOMAIN s : <<pid, y>> = <<s[j].pid, s[j].os>>
  BY DEF Tasks, Members
<1>3. i = j
  BY <1>1, <1>2 DEF Distinct
<1> QED
  BY <1>1, <1>2, <1>3

\* Erasing an entry takes its task off, and no other.
LEMMA RemoveTasks ==
  ASSUME NEW s \in Seq(PMProcess), Distinct(s), NEW i \in DOMAIN s
  PROVE  /\ RemoveIndex(s, i) \in Seq(PMProcess)
         /\ Distinct(RemoveIndex(s, i))
         /\ Tasks(RemoveIndex(s, i)) = Tasks(s) \ {<<s[i].pid, s[i].os>>}
<1>1. \A m \in Members(s) : m.pid = s[i].pid => m = s[i]
  BY DEF Members, Distinct
<1> QED
  BY <1>1, RemoveFacts DEF Tasks

\* Erasing by an index that may be stale adds none.
LEMMA RemoveStaleTasks ==
  ASSUME NEW s \in Seq(PMProcess), Distinct(s), NEW i \in Nat \ {0}
  PROVE  /\ RemoveIndex(s, i) \in Seq(PMProcess)
         /\ Distinct(RemoveIndex(s, i))
         /\ Tasks(RemoveIndex(s, i)) \subseteq Tasks(s)
BY RemoveStaleFacts DEF Tasks

\* Changing an entry under its pid changes its process id only.
LEMMA ChangeTasks ==
  ASSUME NEW s \in Seq(PMProcess), Distinct(s), NEW i \in DOMAIN s,
         NEW e \in PMProcess, e.pid = s[i].pid
  PROVE  /\ [s EXCEPT ![i] = e] \in Seq(PMProcess)
         /\ Distinct([s EXCEPT ![i] = e])
         /\ Tasks([s EXCEPT ![i] = e])
              = (Tasks(s) \ {<<s[i].pid, s[i].os>>}) \cup {<<e.pid, e.os>>}
<1>1. \A m \in Members(s) : m.pid = s[i].pid => m = s[i]
  BY DEF Members, Distinct
<1> DEFINE r == [s EXCEPT ![i] = e]
<1>2. /\ r \in Seq(PMProcess) /\ Distinct(r)
      /\ Members(r) = (Members(s) \ {s[i]}) \cup {e}
  BY ChangeFacts
<1>3. s[i] \in Members(s)
  BY DEF Members
<1> HIDE DEF r
<1>4. Tasks(r) = (Tasks(s) \ {<<s[i].pid, s[i].os>>}) \cup {<<e.pid, e.os>>}
  BY <1>1, <1>2, <1>3 DEF Tasks
<1> QED
  BY <1>2, <1>4 DEF r

\* Adding an entry for a pid that is not listed.
LEMMA AppendTasks ==
  ASSUME NEW s \in Seq(PMProcess), Distinct(s),
         NEW e \in PMProcess, \A x : <<e.pid, x>> \notin Tasks(s)
  PROVE  /\ Append(s, e) \in Seq(PMProcess)
         /\ Distinct(Append(s, e))
         /\ Tasks(Append(s, e)) = Tasks(s) \cup {<<e.pid, e.os>>}
<1>1. \A m \in Members(s) : m.pid # e.pid
  BY DEF Tasks
<1> QED
  BY <1>1, AppendFacts DEF Tasks

\* As many entries as pids.
LEMMA DistinctCount ==
  ASSUME procs \in Seq(PMProcess), Distinct(procs)
  PROVE  Len(procs) = Cardinality(ListedPids)
<1> DEFINE f == [i \in 1..Len(procs) |-> procs[i].pid]
<1>1. DOMAIN procs = 1..Len(procs) /\ Len(procs) \in Nat
  OBVIOUS
<1>2. f \in Bijection(1..Len(procs), ListedPids)
  <2>1. f \in [1..Len(procs) -> ListedPids]
    BY <1>1 DEF ListedPids
  <2>2. \A i, j \in 1..Len(procs) : f[i] = f[j] => i = j
    BY <1>1 DEF Distinct
  <2>3. \A x \in ListedPids : \E i \in 1..Len(procs) : f[i] = x
    BY <1>1 DEF ListedPids
  <2> HIDE DEF f
  <2> QED
    BY <2>1, <2>2, <2>3, Fun_IsBij
<1>3. ExistsBijection(1..Len(procs), ListedPids)
  BY <1>2 DEF ExistsBijection
<1>4. IsFiniteSet(1..Len(procs)) /\ Cardinality(1..Len(procs)) = Len(procs)
  BY <1>1, FS_Interval
<1> QED
  BY <1>3, <1>4, FS_Bijection

-----------------------------------------------------------------------------
(* Types.                                                                  *)

\* What the signal thread has in hand.
SigType ==
  /\ sig \in [pc : SigPcs, pid : Nat, idx : Nat, os : Nat]
  /\ sig.pc \in {"launch", "fork", "update"} => sig.pid \in Pids
  /\ sig.pc = "fork" => sig.idx # 0
  /\ sig.pc \in {"update", "reaped"} => sig.os \in 1..forks

ListType == procs \in Seq(PMProcess) /\ Distinct(procs)

OtherTypes ==
  /\ up \in BOOLEAN
  /\ thr \in [Pids -> {"none", "start", "open", "fetch", "unlinked"}]
  /\ file \in [Names -> {"none", "part", "full"}]
  /\ queue \in Seq(Pids)
  /\ mon \in Nat
  /\ accepted \subseteq Pids
  /\ restart \subseteq Pids
  /\ forks \in Nat
  /\ alive \cup zombies \subseteq 1..forks
  /\ reports \in [Pids -> Nat]
  /\ used \in [silent : Nat, kills : Nat, resets : Nat, forkFails : Nat]

Types == ListType /\ SigType /\ OtherTypes

\* The initial state has its types.
LEMMA TypesInit == Init => Types
<1> SUFFICES ASSUME Init PROVE Types
  OBVIOUS
<1>1. ListType
  BY DEF Init, ListType, Distinct
<1>2. SigType
  BY DEF Init, SigType, IdleSig, SigPcs
<1>3. OtherTypes
  BY DEF Init, OtherTypes, NoneUsed
<1> QED
  BY <1>1, <1>2, <1>3 DEF Types

\* Changes of the fields a check looks at.
LEMMA EntryType ==
  ASSUME NEW r \in PMProcess, NEW h \in {"zero", "recent", "late", "ancient"},
         NEW n \in 0..TASK_TIMEOUT_ATTEMPTS
  PROVE  /\ [r EXCEPT !.hb = h, !.miss = n] \in PMProcess
         /\ [r EXCEPT !.hb = h, !.miss = n].pid = r.pid
         /\ [r EXCEPT !.hb = h, !.miss = n].os = r.os
BY DEF PMProcess

\* A heartbeat check keeps the ids of the entry.
LEMMA CheckType ==
  ASSUME NEW r \in PMProcess
  PROVE  /\ AfterCheck(r) \in PMProcess
         /\ AfterCheck(r).pid = r.pid /\ AfterCheck(r).os = r.os
<1>1. /\ r.miss \in 0..TASK_TIMEOUT_ATTEMPTS
      /\ r.miss < TASK_TIMEOUT_ATTEMPTS => r.miss + 1 \in 0..TASK_TIMEOUT_ATTEMPTS
  BY LimitsAssumption DEF PMProcess
<1>2. \/ AfterCheck(r) = r
      \/ \E h \in {"zero", "recent", "late", "ancient"}, n \in 0..TASK_TIMEOUT_ATTEMPTS :
           AfterCheck(r) = [r EXCEPT !.hb = h, !.miss = n]
  BY <1>1 DEF AfterCheck, PMProcess
<1>3. ASSUME NEW h \in {"zero", "recent", "late", "ancient"},
             NEW n \in 0..TASK_TIMEOUT_ATTEMPTS,
             AfterCheck(r) = [r EXCEPT !.hb = h, !.miss = n]
      PROVE  /\ AfterCheck(r) \in PMProcess
             /\ AfterCheck(r).pid = r.pid /\ AfterCheck(r).os = r.os
  <2>1. /\ [r EXCEPT !.hb = h, !.miss = n] \in PMProcess
        /\ [r EXCEPT !.hb = h, !.miss = n].pid = r.pid
        /\ [r EXCEPT !.hb = h, !.miss = n].os = r.os
    BY DEF PMProcess
  <2> QED
    BY <1>3, <2>1
<1> QED
  BY <1>2, <1>3

\* A new entry has no process id yet.
LEMMA NewProcType ==
  ASSUME NEW pid \in Pids
  PROVE  NewProc(pid) \in PMProcess /\ NewProc(pid).pid = pid /\ NewProc(pid).os = 0
BY LimitsAssumption DEF NewProc, PMProcess

\* The effect on the list of each action that changes it.
LEMMA KillEffect ==
  ASSUME ListType, NEW pid \in Pids, NEW level \in {0, 1}, KillHandler(pid, level)
  PROVE  /\ ListType'
         /\ \E os \in Nat :
              /\ <<pid, os>> \in Tasks(procs) /\ KillAll({os})
              /\ \/ /\ up' /\ Report(pid)
                    /\ Tasks(procs)' = Tasks(procs) \ {<<pid, os>>}
                 \/ /\ UNCHANGED <<procs, reports>>
                    /\ Tasks(procs)' = Tasks(procs)
<1> DEFINE i == GetIndexOfSdmPid(pid)
<1>1. /\ i # 0 /\ KillAll({procs[i].os})
      /\ IF level = 1 /\ up'
         THEN Report(pid) /\ procs' = RemoveIndex(procs, i)
         ELSE UNCHANGED <<procs, reports>>
  BY DEF KillHandler
<1>2. i \in DOMAIN procs /\ procs[i].pid = pid
  BY <1>1, FindSdmPid DEF ListType
<1> HIDE DEF i
<1>3. procs[i].os \in Nat /\ <<pid, procs[i].os>> \in Tasks(procs)
  BY <1>2, TaskOf DEF ListType, PMProcess
<1>4. CASE level = 1 /\ up'
  <2>1. /\ procs' \in Seq(PMProcess) /\ Distinct(procs')
        /\ Tasks(procs') = Tasks(procs) \ {<<pid, procs[i].os>>}
    BY <1>1, <1>2, <1>4, RemoveTasks DEF ListType
  <2> QED
    BY <1>1, <1>3, <1>4, <2>1 DEF ListType
<1>5. CASE ~(level = 1 /\ up')
  BY <1>1, <1>3, <1>5 DEF ListType
<1> QED
  BY <1>4, <1>5

\* A reset empties the list and kills every process on it.
LEMMA ResetEffect ==
  ASSUME ListType, DoReset
  PROVE  /\ ListType' /\ Tasks(procs)' = {}
         /\ KillAll({t[2] : t \in Tasks(procs)})
<1>1. procs' = << >> /\ KillAll({procs[i].os : i \in DOMAIN procs})
  BY DEF DoReset
<1>2. ListType' /\ Tasks(procs') = {}
  BY <1>1 DEF ListType, Distinct, Tasks, Members
<1>3. {procs[i].os : i \in DOMAIN procs} = {t[2] : t \in Tasks(procs)}
  <2>1. ASSUME NEW i \in DOMAIN procs
        PROVE  procs[i].os \in {t[2] : t \in Tasks(procs)}
    <3>1. <<procs[i].pid, procs[i].os>> \in Tasks(procs)
      BY TaskOf DEF ListType
    <3> QED
      BY <3>1
  <2>2. ASSUME NEW t \in Tasks(procs)
        PROVE  t[2] \in {procs[i].os : i \in DOMAIN procs}
    <3>1. PICK i \in DOMAIN procs : t = <<procs[i].pid, procs[i].os>>
      BY DEF Tasks, Members
    <3> QED
      BY <3>1
  <2> QED
    BY <2>1, <2>2
<1> QED
  BY <1>1, <1>2, <1>3

\* A heartbeat, its absence and a check leave the tasks and their processes.
LEMMA QuietChange ==
  ASSUME ListType, NEW i \in DOMAIN procs, NEW e \in PMProcess,
         e.pid = procs[i].pid, e.os = procs[i].os,
         procs' = [procs EXCEPT ![i] = e]
  PROVE  ListType' /\ Tasks(procs)' = Tasks(procs)
<1>1. <<procs[i].pid, procs[i].os>> \in Tasks(procs)
  BY TaskOf DEF ListType
<1>2. /\ procs' \in Seq(PMProcess) /\ Distinct(procs')
      /\ Tasks(procs')
           = (Tasks(procs) \ {<<procs[i].pid, procs[i].os>>}) \cup {<<e.pid, e.os>>}
  BY ChangeTasks DEF ListType
<1> QED
  BY <1>1, <1>2 DEF ListType

\* Heartbeats and checks change no ids on the list.
LEMMA QuietEffect ==
  ASSUME ListType,
         \/ \E i \in DOMAIN procs : HeartbeatHandler(i) \/ HeartbeatTimeout(i)
         \/ MonitorOk
  PROVE  ListType' /\ Tasks(procs)' = Tasks(procs)
<1>1. ASSUME NEW i \in DOMAIN procs, HeartbeatHandler(i)
      PROVE  ListType' /\ Tasks(procs)' = Tasks(procs)
  <2> DEFINE e == [procs[i] EXCEPT !.hb = "recent", !.miss = 0]
  <2>1. procs[i] \in PMProcess
    BY DEF ListType
  <2>2. e \in PMProcess /\ e.pid = procs[i].pid /\ e.os = procs[i].os
    <3>1. 0 \in 0..TASK_TIMEOUT_ATTEMPTS
      BY LimitsAssumption
    <3> QED
      BY <2>1, <3>1, EntryType
  <2>3. procs' = [procs EXCEPT ![i] = e]
    BY <1>1 DEF HeartbeatHandler
  <2> QED
    BY <2>2, <2>3, QuietChange
<1>2. ASSUME NEW i \in DOMAIN procs, HeartbeatTimeout(i)
      PROVE  ListType' /\ Tasks(procs)' = Tasks(procs)
  <2> DEFINE e == [procs[i] EXCEPT !.hb = "late"]
  <2>1. procs[i] \in PMProcess
    BY DEF ListType
  <2>2. e \in PMProcess /\ e.pid = procs[i].pid /\ e.os = procs[i].os
    BY <2>1 DEF PMProcess
  <2>3. procs' = [procs EXCEPT ![i] = e]
    BY <1>2 DEF HeartbeatTimeout
  <2> QED
    BY <2>2, <2>3, QuietChange
<1>3. ASSUME MonitorOk
      PROVE  ListType' /\ Tasks(procs)' = Tasks(procs)
  <2> DEFINE e == AfterCheck(procs[mon])
  <2>1. mon \in DOMAIN procs /\ procs[mon] \in PMProcess
    BY <1>3 DEF ListType, MonitorOk
  <2>2. e \in PMProcess /\ e.pid = procs[mon].pid /\ e.os = procs[mon].os
    BY <2>1, CheckType
  <2>3. procs' = [procs EXCEPT ![mon] = e]
    BY <1>3 DEF MonitorOk
  <2> QED
    BY <2>1, <2>2, <2>3, QuietChange
<1> QED
  BY <1>1, <1>2, <1>3

\* The task has an entry, with or without a process.
IsListed(s, pid) == \E os \in Nat : <<pid, os>> \in Tasks(s)

\* The task is listed without a process.
LEMMA LaunchEffect ==
  ASSUME Types, LaunchAdd
  PROVE  /\ ListType' /\ AddIndex(sig.pid) \in Nat \ {0}
         /\ \/ /\ ~IsListed(procs, sig.pid)
               /\ Tasks(procs)' = Tasks(procs) \cup {<<sig.pid, 0>>}
            \/ \E os \in Nat :
                 /\ <<sig.pid, os>> \in Tasks(procs)
                 /\ Tasks(procs)' = (Tasks(procs) \ {<<sig.pid, os>>})
                                      \cup {<<sig.pid, 0>>}
<1> DEFINE i == GetIndexOfSdmPid(sig.pid)
<1>1. /\ procs' = IF i = 0 THEN Append(procs, NewProc(sig.pid))
                  ELSE [procs EXCEPT ![i].os = 0]
      /\ sig.pid \in Pids /\ procs \in Seq(PMProcess) /\ Distinct(procs)
  BY DEF LaunchAdd, Add, Types, ListType, SigType
<1>2. \/ i = 0 /\ \A m \in Members(procs) : m.pid # sig.pid
      \/ i \in DOMAIN procs /\ i # 0 /\ procs[i].pid = sig.pid
  BY <1>1, FindSdmPid
<1>3. AddIndex(sig.pid) = IF i = 0 THEN Len(procs) + 1 ELSE i
  BY DEF AddIndex
<1> HIDE DEF i
<1>4. AddIndex(sig.pid) \in Nat \ {0}
  BY <1>1, <1>2, <1>3
<1>5. CASE i = 0
  <2>1. \A x : <<sig.pid, x>> \notin Tasks(procs)
    BY <1>2, <1>5 DEF Tasks
  <2> DEFINE e == NewProc(sig.pid)
  <2>2. e \in PMProcess /\ e.pid = sig.pid /\ e.os = 0
    BY <1>1, NewProcType
  <2> HIDE DEF e
  <2>3. procs' = Append(procs, e)
    BY <1>1, <1>5 DEF e
  <2>4. /\ procs' \in Seq(PMProcess) /\ Distinct(procs')
        /\ Tasks(procs') = Tasks(procs) \cup {<<sig.pid, 0>>}
    BY <1>1, <2>1, <2>2, <2>3, AppendTasks
  <2> QED
    BY <1>4, <2>1, <2>4 DEF ListType, IsListed
<1>6. CASE i # 0
  <2>1. i \in DOMAIN procs /\ procs[i] \in PMProcess /\ procs[i].pid = sig.pid
    BY <1>1, <1>2, <1>6
  <2>2. /\ [procs[i] EXCEPT !.os = 0] \in PMProcess /\ procs[i].os \in Nat
        /\ [procs[i] EXCEPT !.os = 0].pid = sig.pid
        /\ [procs[i] EXCEPT !.os = 0].os = 0
    BY <1>1, <2>1 DEF PMProcess
  <2>3. PICK e \in PMProcess : /\ e.pid = sig.pid /\ e.os = 0
                               /\ procs' = [procs EXCEPT ![i] = e]
    BY <1>1, <1>6, <2>2
  <2>4. /\ procs' \in Seq(PMProcess) /\ Distinct(procs')
        /\ Tasks(procs') = (Tasks(procs) \ {<<procs[i].pid, procs[i].os>>})
                             \cup {<<e.pid, e.os>>}
    <3>1. e.pid = procs[i].pid
      BY <2>1, <2>3
    <3> QED
      <4> DEFINE r == [procs EXCEPT ![i] = e]
      <4>1. /\ r \in Seq(PMProcess) /\ Distinct(r)
            /\ Tasks(r) = (Tasks(procs) \ {<<procs[i].pid, procs[i].os>>})
                             \cup {<<e.pid, e.os>>}
        BY <1>1, <2>1, <3>1, ChangeTasks
      <4> HIDE DEF r
      <4> QED
        BY <2>3, <4>1 DEF r
  <2>5. <<sig.pid, procs[i].os>> \in Tasks(procs)
    BY <1>1, <2>1, TaskOf
  <2> QED
    BY <1>4, <2>1, <2>2, <2>3, <2>4, <2>5 DEF ListType
<1> QED
  BY <1>5, <1>6

\* A failing fork adds no task.
LEMMA ForkFailsEffect ==
  ASSUME Types, LaunchForkFails
  PROVE  ListType' /\ Tasks(procs)' \subseteq Tasks(procs)
<1>1. procs' = RemoveIndex(procs, sig.idx) /\ sig.idx \in Nat \ {0}
  BY DEF LaunchForkFails, Types, SigType
<1> QED
  BY <1>1, RemoveStaleTasks DEF Types, ListType

\* A launch notes its process id with the task, if that is still listed.
LEMMA UpdateEffect ==
  ASSUME Types, UpdateOsPid
  PROVE  /\ ListType'
         /\ \/ ~IsListed(procs, sig.pid) /\ Tasks(procs)' = Tasks(procs)
            \/ \E os \in Nat :
                 /\ <<sig.pid, os>> \in Tasks(procs)
                 /\ Tasks(procs)' = (Tasks(procs) \ {<<sig.pid, os>>})
                                      \cup {<<sig.pid, sig.os>>}
<1> DEFINE i == GetIndexOfSdmPid(sig.pid)
<1>1. /\ procs' = IF i = 0 THEN procs ELSE [procs EXCEPT ![i].os = sig.os]
      /\ procs \in Seq(PMProcess) /\ Distinct(procs) /\ sig.os \in Nat
  BY DEF UpdateOsPid, Types, ListType, SigType
<1>2. \/ i = 0 /\ \A m \in Members(procs) : m.pid # sig.pid
      \/ i \in DOMAIN procs /\ i # 0 /\ procs[i].pid = sig.pid
  BY <1>1, FindSdmPid
<1> HIDE DEF i
<1>3. CASE i = 0
  BY <1>1, <1>2, <1>3 DEF Tasks, ListType, IsListed
<1>4. CASE i # 0
  <2>1. i \in DOMAIN procs /\ procs[i] \in PMProcess /\ procs[i].pid = sig.pid
    BY <1>1, <1>2, <1>4
  <2>2. /\ [procs[i] EXCEPT !.os = sig.os] \in PMProcess /\ procs[i].os \in Nat
        /\ [procs[i] EXCEPT !.os = sig.os].pid = sig.pid
        /\ [procs[i] EXCEPT !.os = sig.os].os = sig.os
    BY <1>1, <2>1 DEF PMProcess
  <2>3. PICK e \in PMProcess : /\ e.pid = sig.pid /\ e.os = sig.os
                               /\ procs' = [procs EXCEPT ![i] = e]
    BY <1>1, <1>4, <2>2
  <2>4. /\ procs' \in Seq(PMProcess) /\ Distinct(procs')
        /\ Tasks(procs') = (Tasks(procs) \ {<<procs[i].pid, procs[i].os>>})
                             \cup {<<e.pid, e.os>>}
    <3>1. e.pid = procs[i].pid
      BY <2>1, <2>3
    <3> QED
      <4> DEFINE r == [procs EXCEPT ![i] = e]
      <4>1. /\ r \in Seq(PMProcess) /\ Distinct(r)
            /\ Tasks(r) = (Tasks(procs) \ {<<procs[i].pid, procs[i].os>>})
                             \cup {<<e.pid, e.os>>}
        BY <1>1, <2>1, <3>1, ChangeTasks
      <4> HIDE DEF r
      <4> QED
        BY <2>3, <4>1 DEF r
  <2>5. <<sig.pid, procs[i].os>> \in Tasks(procs)
    BY <1>1, <2>1, TaskOf
  <2> QED
    BY <2>1, <2>2, <2>3, <2>4, <2>5 DEF ListType
<1> QED
  BY <1>3, <1>4

\* The end of a child takes its task off or marks it for a restart; an
\* unknown child changes nothing.
LEMMA ChildEndedEffect ==
  ASSUME Types, ChildEnded
  PROVE  /\ ListType'
         /\ \/ /\ \A pid \in Pids : <<pid, sig.os>> \notin Tasks(procs)
               /\ Tasks(procs)' = Tasks(procs)
               /\ UNCHANGED <<restart, reports>>
            \/ \E pid \in Pids :
                 /\ <<pid, sig.os>> \in Tasks(procs)
                 /\ \/ /\ Tasks(procs)' = (Tasks(procs) \ {<<pid, sig.os>>})
                                            \cup {<<pid, 0>>}
                       /\ restart' = restart \cup {pid}
                       /\ UNCHANGED reports
                    \/ /\ Tasks(procs)' = Tasks(procs) \ {<<pid, sig.os>>}
                       /\ Report(pid)
                       /\ UNCHANGED restart
<1> DEFINE i == GetIndexOfOsPid(sig.os)
<1>1. /\ \/ /\ i = 0 /\ UNCHANGED <<procs, restart, reports>>
         \/ /\ i # 0 /\ procs[i].failed
            /\ procs' = [procs EXCEPT ![i].os = 0, ![i].failed = FALSE]
            /\ restart' = restart \cup {procs[i].pid}
            /\ UNCHANGED reports
         \/ /\ i # 0 /\ ~procs[i].failed
            /\ Report(procs[i].pid)
            /\ procs' = RemoveIndex(procs, i)
            /\ UNCHANGED restart
      /\ procs \in Seq(PMProcess) /\ Distinct(procs)
  BY DEF ChildEnded, Types, ListType
<1>2. \/ i = 0 /\ \A m \in Members(procs) : m.os # sig.os
      \/ i \in DOMAIN procs /\ i # 0 /\ procs[i].os = sig.os
  BY <1>1, FindOsPid
<1> HIDE DEF i
<1>3. CASE i = 0
  BY <1>1, <1>2, <1>3 DEF Tasks, ListType
<1>4. CASE i # 0
  <2>1. /\ i \in DOMAIN procs /\ procs[i] \in PMProcess /\ procs[i].os = sig.os
        /\ procs[i].pid \in Pids /\ <<procs[i].pid, sig.os>> \in Tasks(procs)
    <3>1. i \in DOMAIN procs /\ procs[i].os = sig.os
      BY <1>2, <1>4
    <3>2. procs[i] \in PMProcess /\ <<procs[i].pid, procs[i].os>> \in Tasks(procs)
      BY <1>1, <3>1, TaskOf
    <3> QED
      BY <3>1, <3>2 DEF PMProcess
  <2>2. CASE procs[i].failed
    <3>1. PICK e \in PMProcess : /\ e.pid = procs[i].pid /\ e.os = 0
                                 /\ procs' = [procs EXCEPT ![i] = e]
      <4> DEFINE e == [procs[i] EXCEPT !.os = 0, !.failed = FALSE]
      <4>1. e \in PMProcess /\ e.pid = procs[i].pid /\ e.os = 0
        BY <2>1 DEF PMProcess
      <4>2. procs' = [procs EXCEPT ![i] = e]
        BY <1>1, <1>4, <2>2
      <4> QED
        BY <4>1, <4>2
    <3> DEFINE r == [procs EXCEPT ![i] = e]
    <3>2. /\ r \in Seq(PMProcess) /\ Distinct(r)
          /\ Tasks(r) = (Tasks(procs) \ {<<procs[i].pid, procs[i].os>>})
                           \cup {<<e.pid, e.os>>}
      BY <1>1, <2>1, <3>1, ChangeTasks
    <3> HIDE DEF r
    <3>3. procs' = r
      BY <3>1 DEF r
    <3>4. ListType' /\ Tasks(procs') = (Tasks(procs) \ {<<procs[i].pid, sig.os>>})
                                         \cup {<<procs[i].pid, 0>>}
      BY <2>1, <3>1, <3>2, <3>3 DEF ListType
    <3>5. restart' = restart \cup {procs[i].pid} /\ UNCHANGED reports
      BY <1>1, <1>4, <2>2
    <3> QED
      BY <2>1, <3>4, <3>5
  <2>3. CASE ~procs[i].failed
    <3>1. ListType' /\ Tasks(procs') = Tasks(procs) \ {<<procs[i].pid, sig.os>>}
      BY <1>1, <1>4, <2>1, <2>3, RemoveTasks DEF ListType
    <3>2. Report(procs[i].pid) /\ UNCHANGED restart
      BY <1>1, <1>4, <2>3
    <3> QED
      BY <2>1, <3>1, <3>2
  <2> QED
    BY <2>2, <2>3
<1> QED
  BY <1>3, <1>4

\* The monitor kills the process of a listed task and may give the task up.
LEMMA MonitorKillEffect ==
  ASSUME Types, MonitorKill
  PROVE  /\ ListType'
         /\ \E pid \in Pids, os \in Nat :
              /\ <<pid, os>> \in Tasks(procs) /\ KillAll({os})
              /\ \/ /\ Tasks(procs)' = Tasks(procs) \ {<<pid, os>>}
                    /\ gaveUp' = gaveUp \cup {pid}
                 \/ /\ Tasks(procs)' = Tasks(procs)
                    /\ UNCHANGED gaveUp
<1> DEFINE pid == procs[mon].pid
           os == procs[mon].os
<1>1. /\ mon \in DOMAIN procs /\ KillAll({os})
      /\ \/ procs' = RemoveIndex(procs, mon) /\ gaveUp' = gaveUp \cup {pid}
         \/ procs' = [procs EXCEPT ![mon] = Failure(AfterCheck(procs[mon]))] /\ UNCHANGED gaveUp
      /\ procs \in Seq(PMProcess) /\ Distinct(procs)
  BY DEF MonitorKill, Types, ListType
<1>2. procs[mon] \in PMProcess /\ pid \in Pids /\ os \in Nat /\ <<pid, os>> \in Tasks(procs)
  <2>1. procs[mon] \in PMProcess /\ <<pid, os>> \in Tasks(procs)
    BY <1>1, TaskOf
  <2> QED
    BY <2>1 DEF PMProcess
<1>3. CASE procs' = RemoveIndex(procs, mon) /\ gaveUp' = gaveUp \cup {pid}
  <2>1. ListType' /\ Tasks(procs') = Tasks(procs) \ {<<pid, os>>}
    BY <1>1, <1>3, RemoveTasks DEF ListType
  <2> QED
    BY <1>1, <1>2, <1>3, <2>1
<1>4. CASE /\ procs' = [procs EXCEPT ![mon] = Failure(AfterCheck(procs[mon]))]
           /\ UNCHANGED gaveUp
  <2> DEFINE r == AfterCheck(procs[mon])
             e == Failure(r)
  <2>1. r \in PMProcess /\ r.pid = pid /\ r.os = os
    BY <1>2, CheckType
  <2> HIDE DEF r
  <2>2. e \in PMProcess /\ e.pid = r.pid /\ e.os = r.os
    <3>1. r.fails \in Nat /\ r.fails + 1 \in Nat /\ 0 \in 0..TASK_TIMEOUT_ATTEMPTS
      BY <2>1, LimitsAssumption DEF PMProcess
    <3> DEFINE d == [r EXCEPT !.failed = TRUE, !.fails = r.fails + 1]
    <3>2. d \in PMProcess /\ d.pid = r.pid /\ d.os = r.os
      BY <2>1, <3>1 DEF PMProcess
    <3>3. e = [d EXCEPT !.hb = "zero", !.miss = 0]
      BY <2>1 DEF Failure, PMProcess
    <3> HIDE DEF d, e
    <3> QED
      BY <3>1, <3>2, <3>3, EntryType
  <2>3. procs' = [procs EXCEPT ![mon] = e]
    BY <1>4 DEF r
  <2> HIDE DEF e
  <2>4. ListType' /\ Tasks(procs') = Tasks(procs)
    BY <1>1, <2>1, <2>2, <2>3, QuietChange DEF ListType
  <2> QED
    BY <1>1, <1>2, <1>4, <2>4
<1> QED
  BY <1>1, <1>3, <1>4

\* waitpid found nothing, or a process that ended.
LEMMA WaitEffect ==
  ASSUME WaitPid
  PROVE  \/ sig'.pc = "idle" /\ zombies' = zombies
         \/ \E os \in zombies : /\ sig'.pc = "reaped" /\ sig'.os = os
                               /\ zombies' = zombies \ {os}
<1>1. CASE sig' = IdleSig /\ zombies' = zombies
  BY <1>1 DEF IdleSig
<1>2. ASSUME NEW os \in zombies, zombies' = zombies \ {os},
             sig' = [IdleSig EXCEPT !.pc = "reaped", !.os = os]
      PROVE  sig'.pc = "reaped" /\ sig'.os = os
  <2>1. sig' = [pc |-> "reaped", pid |-> 0, idx |-> 0, os |-> os]
    BY <1>2 DEF IdleSig
  <2> QED
    BY <2>1
<1> QED
  BY <1>1, <1>2 DEF WaitPid, SigStep

\* The counters of faults grow one at a time.
LEMMA UseFacts ==
  ASSUME used \in [silent : Nat, kills : Nat, resets : Nat, forkFails : Nat],
         NEW what \in {"silent", "kills", "resets", "forkFails"}, Use(what)
  PROVE  /\ used' \in [silent : Nat, kills : Nat, resets : Nat, forkFails : Nat]
         /\ what # "forkFails" => used'.forkFails = used.forkFails
         /\ what = "forkFails" => used'.forkFails # 0
<1>1. CASE what = "silent"
  BY <1>1 DEF Use
<1>2. CASE what = "kills"
  BY <1>2 DEF Use
<1>3. CASE what = "resets"
  BY <1>3 DEF Use
<1>4. CASE what = "forkFails"
  BY <1>4 DEF Use
<1> QED
  BY <1>1, <1>2, <1>3, <1>4

\* Killing makes zombies of processes, and may end the PM.
LEMMA KillAllTypes ==
  ASSUME OtherTypes, NEW S, KillAll(S)
  PROVE  /\ up' \in BOOLEAN
         /\ forks' = forks => alive' \cup zombies' \subseteq 1..forks'
BY DEF OtherTypes, KillAll

\* A report is counted.
LEMMA ReportTypes ==
  ASSUME OtherTypes, NEW pid \in Pids, Report(pid)
  PROVE  reports' \in [Pids -> Nat]
BY DEF OtherTypes, Report

\* The Listener, the TaskHandler threads and the tasks.
LEMMA HandlerTypes ==
  ASSUME Types,
         \/ \E pid \in Pids : TaskReceived(pid) \/ TaskHandler(pid)
         \/ TaskExits
  PROVE  Types'
<1>1. ASSUME NEW pid \in Pids, TaskReceived(pid)
      PROVE  Types'
  BY <1>1 DEF TaskReceived, Types, ListType, SigType, OtherTypes, listVars
<1>2. ASSUME NEW pid \in Pids, TaskHandlerQueue(pid)
      PROVE  Types'
  BY <1>2 DEF TaskHandlerQueue, Types, ListType, SigType, OtherTypes, listVars, histVars
<1>3. ASSUME NEW pid \in Pids, TaskHandlerFetch(pid)
      PROVE  Types'
  BY <1>3 DEF TaskHandlerFetch, Types, ListType, SigType, OtherTypes, listVars, histVars
<1>4. ASSUME NEW pid \in Pids, GetCodeOpen(pid)
      PROVE  Types'
  BY <1>4, NameOfAssumption
     DEF GetCodeOpen, Types, ListType, SigType, OtherTypes, listVars, histVars
<1>5. ASSUME NEW pid \in Pids, GetCodePart(pid)
      PROVE  Types'
  BY <1>5, NameOfAssumption
     DEF GetCodePart, Write, Types, ListType, SigType, OtherTypes, listVars, histVars
<1>6. ASSUME NEW pid \in Pids, GetCodeDone(pid)
      PROVE  Types'
  <2>1. file' \in [Names -> {"none", "part", "full"}]
    BY <1>6, NameOfAssumption DEF GetCodeDone, Write, Types, OtherTypes
  <2> QED
    BY <1>6, <2>1 DEF GetCodeDone, Types, ListType, SigType, OtherTypes, listVars, histVars
<1>7. ASSUME NEW pid \in Pids, GetCodeFails(pid)
      PROVE  Types'
  <2>1. reports' \in [Pids -> Nat]
    BY <1>7, ReportTypes DEF GetCodeFails, Types
  <2>2. /\ thr' \in [Pids -> {"none", "start", "open", "fetch", "unlinked"}]
        /\ file' \in [Names -> {"none", "part", "full"}]
    BY <1>7, NameOfAssumption DEF GetCodeFails, Unlink, Types, OtherTypes
  <2> QED
    BY <1>7, <2>1, <2>2 DEF GetCodeFails, Types, ListType, SigType, OtherTypes, histVars
<1>8. ASSUME TaskExits
      PROVE  Types'
  BY <1>8 DEF TaskExits, Types, ListType, SigType, OtherTypes, codeVars, histVars
<1> QED
  BY <1>1, <1>2, <1>3, <1>4, <1>5, <1>6, <1>7, <1>8 DEF TaskHandler

\* What ends tasks and changes their entries.
LEMMA ListTypes ==
  ASSUME Types,
         \/ \E pid \in Pids, level \in {0, 1} : KillHandler(pid, level)
         \/ DoReset \/ Shutdown
         \/ \E i \in DOMAIN procs : HeartbeatHandler(i) \/ HeartbeatTimeout(i)
         \/ TaskHeartbeatMonitor
  PROVE  Types'
<1>1. ASSUME NEW pid \in Pids, NEW level \in {0, 1}, KillHandler(pid, level)
      PROVE  Types'
  <2>1. /\ ListType'
        /\ \E os \in Nat : KillAll({os})
        /\ Report(pid) \/ UNCHANGED reports
    BY <1>1, KillEffect DEF Types
  <2>2. /\ UNCHANGED <<codeVars, sig, mon, restart, forks, histVars>>
        /\ used' \in [silent : Nat, kills : Nat, resets : Nat, forkFails : Nat]
    BY <1>1, UseFacts DEF KillHandler, Types, OtherTypes
  <2>3. up' \in BOOLEAN /\ alive' \cup zombies' \subseteq 1..forks'
    BY <2>1, <2>2, KillAllTypes DEF Types
  <2>4. reports' \in [Pids -> Nat]
    BY <2>1, ReportTypes DEF Types, OtherTypes
  <2> QED
    BY <2>1, <2>2, <2>3, <2>4 DEF Types, SigType, OtherTypes, codeVars, histVars
<1>2. ASSUME DoReset
      PROVE  Types'
  <2>1. ListType' /\ \E S : KillAll(S)
    BY <1>2, ResetEffect DEF Types
  <2>2. /\ UNCHANGED <<codeVars, sig, mon, restart, forks, reports, accepted>>
        /\ used' \in [silent : Nat, kills : Nat, resets : Nat, forkFails : Nat]
    BY <1>2, UseFacts DEF DoReset, Types, OtherTypes
  <2>3. up' \in BOOLEAN /\ alive' \cup zombies' \subseteq 1..forks'
    BY <2>1, <2>2, KillAllTypes DEF Types
  <2> QED
    BY <2>1, <2>2, <2>3 DEF Types, SigType, OtherTypes, codeVars
<1>3. ASSUME Shutdown
      PROVE  Types'
  BY <1>3 DEF Shutdown, Types, ListType, SigType, OtherTypes, codeVars, histVars
<1>4. ASSUME NEW i \in DOMAIN procs, HeartbeatHandler(i) \/ HeartbeatTimeout(i)
      PROVE  Types'
  <2>1. ListType'
    BY <1>4, QuietEffect DEF Types
  <2>2. /\ UNCHANGED <<up, alive, zombies, reports, codeVars, sig, mon, restart>>
        /\ UNCHANGED <<forks, accepted>>
        /\ used' \in [silent : Nat, kills : Nat, resets : Nat, forkFails : Nat]
    BY <1>4, UseFacts DEF HeartbeatHandler, HeartbeatTimeout, histVars, Types, OtherTypes
  <2> QED
    BY <2>1, <2>2 DEF Types, SigType, OtherTypes, codeVars
<1>5. ASSUME MonitorBegin \/ MonitorEnd
      PROVE  Types'
  BY <1>5 DEF MonitorBegin, MonitorEnd, MonUnchanged, Types, ListType, SigType,
              OtherTypes, codeVars, listVars
<1>6. ASSUME MonitorOk
      PROVE  Types'
  <2>1. ListType'
    BY <1>6, QuietEffect DEF Types
  <2> QED
    BY <1>6, <2>1 DEF MonitorOk, MonUnchanged, Types, ListType, SigType, OtherTypes, codeVars
<1>7. ASSUME MonitorKill
      PROVE  Types'
  <2>1. ListType' /\ \E os \in Nat : KillAll({os})
    BY <1>7, MonitorKillEffect DEF Types
  <2>2. mon' \in Nat /\ UNCHANGED <<codeVars, sig, restart, forks, accepted, used, reports>>
    BY <1>7 DEF MonitorKill, MonUnchanged, Types, OtherTypes
  <2>3. up' \in BOOLEAN /\ alive' \cup zombies' \subseteq 1..forks'
    BY <2>1, <2>2, KillAllTypes DEF Types
  <2> QED
    BY <2>1, <2>2, <2>3 DEF Types, SigType, OtherTypes, codeVars
<1> QED
  BY <1>1, <1>2, <1>3, <1>4, <1>5, <1>6, <1>7 DEF TaskHeartbeatMonitor

\* The signal thread.
LEMMA SigTypes ==
  ASSUME Types, SigHandler
  PROVE  Types'
<1> USE DEF SigPcs, IdleSig
<1>1. ASSUME SigPop
      PROVE  Types'
  <2>1. CASE queue = << >>
    <3>1. sig' = [pc |-> "wait", pid |-> 0, idx |-> 0, os |-> 0] /\ UNCHANGED queue
      BY <1>1, <2>1 DEF SigPop, SigStep
    <3>2. SigType'
      BY <3>1 DEF SigType
    <3> QED
      BY <1>1, <3>1, <3>2 DEF SigPop, SigStep, Types, ListType, OtherTypes,
                              listVars, histVars
  <2>2. CASE queue # << >>
    <3>1. Head(queue) \in Pids /\ Tail(queue) \in Seq(Pids)
      BY <2>2 DEF Types, OtherTypes
    <3>2. /\ sig' = [pc |-> "launch", pid |-> Head(queue), idx |-> 0, os |-> 0]
          /\ queue' = Tail(queue)
      BY <1>1, <2>2 DEF SigPop, SigStep
    <3>3. Head(queue) \in Nat
      BY <3>1, PmBoundsAssumption DEF Pids
    <3>4. SigType'
      BY <3>1, <3>2, <3>3 DEF SigType
    <3> QED
      BY <1>1, <3>1, <3>2, <3>4 DEF SigPop, SigStep, Types, ListType, OtherTypes,
                                    listVars, histVars
  <2> QED
    BY <2>1, <2>2
<1>2. ASSUME LaunchNoFile
      PROVE  Types'
  BY <1>2 DEF LaunchNoFile, Types, ListType, SigType, OtherTypes, listVars, codeVars
<1>3. ASSUME LaunchAdd
      PROVE  Types'
  <2>1. ListType' /\ AddIndex(sig.pid) \in Nat \ {0}
    BY <1>3, LaunchEffect
  <2>2. SigType'
    BY <1>3, <2>1 DEF LaunchAdd, SigStep, Types, SigType
  <2> QED
    BY <1>3, <2>1, <2>2 DEF LaunchAdd, SigStep, Types, OtherTypes, codeVars, histVars
<1>4. ASSUME LaunchFork
      PROVE  Types'
  <2>1. forks + 1 \in Nat /\ forks + 1 \in 1..(forks + 1) /\ 1..forks \subseteq 1..(forks + 1)
    BY DEF Types, OtherTypes
  <2>2. SigType'
    BY <1>4, <2>1 DEF LaunchFork, SigStep, Types, SigType
  <2> QED
    BY <1>4, <2>1, <2>2 DEF LaunchFork, SigStep, Types, ListType, OtherTypes, codeVars, histVars
<1>5. ASSUME LaunchForkFails
      PROVE  Types'
  <2>1. ListType'
    BY <1>5, ForkFailsEffect
  <2>2. used' \in [silent : Nat, kills : Nat, resets : Nat, forkFails : Nat]
    BY <1>5, UseFacts DEF LaunchForkFails, Types, OtherTypes
  <2> QED
    BY <1>5, <2>1, <2>2 DEF LaunchForkFails, SigStep, Types, SigType, OtherTypes,
                            codeVars, histVars
<1>6. ASSUME UpdateOsPid
      PROVE  Types'
  <2>1. ListType'
    BY <1>6, UpdateEffect
  <2> QED
    BY <1>6, <2>1 DEF UpdateOsPid, SigStep, Types, SigType, OtherTypes, codeVars, histVars
<1>7. ASSUME WaitPid
      PROVE  Types'
  <2>1. /\ zombies' \subseteq zombies
        /\ \/ sig' = [pc |-> "idle", pid |-> 0, idx |-> 0, os |-> 0]
           \/ \E os \in zombies : sig' = [pc |-> "reaped", pid |-> 0, idx |-> 0, os |-> os]
    BY <1>7 DEF WaitPid, SigStep
  <2>2. forks' = forks /\ \A os \in zombies : os \in 1..forks /\ os \in Nat
    <3>1. forks' = forks
      BY <1>7 DEF WaitPid
    <3>2. \A os \in 1..forks : os \in Nat
      BY DEF Types, OtherTypes
    <3> QED
      BY <3>1, <3>2 DEF Types, OtherTypes
  <2>3. SigType'
    BY <2>1, <2>2 DEF SigType
  <2> QED
    BY <1>7, <2>1, <2>3 DEF WaitPid, SigStep, Types, ListType, OtherTypes, codeVars, histVars
<1>8. ASSUME ChildEnded
      PROVE  Types'
  <2>1. /\ ListType'
        /\ \/ UNCHANGED <<restart, reports>>
           \/ \E pid \in Pids : /\ <<pid, sig.os>> \in Tasks(procs)
                                /\ restart' = restart \cup {pid} /\ UNCHANGED reports
           \/ \E pid \in Pids : Report(pid) /\ UNCHANGED restart
    BY <1>8, ChildEndedEffect
  <2>2. reports' \in [Pids -> Nat]
    BY <2>1, ReportTypes DEF Types, OtherTypes
  <2> QED
    BY <1>8, <2>1, <2>2 DEF ChildEnded, SigStep, Types, SigType, OtherTypes, codeVars, histVars
<1> QED
  BY <1>1, <1>2, <1>3, <1>4, <1>5, <1>6, <1>7, <1>8 DEF SigHandler

\* Every step preserves the types.
LEMMA TypesStep == Types /\ [Next]_vars => Types'
<1> SUFFICES ASSUME Types, [Next]_vars
             PROVE  Types'
  OBVIOUS
<1>1. CASE UNCHANGED vars
  BY <1>1 DEF vars, listVars, codeVars, histVars, Types, ListType, SigType, OtherTypes
<1> QED
  BY <1>1, HandlerTypes, ListTypes, SigTypes DEF Next

-----------------------------------------------------------------------------
(* A task is in one place at a time.                                       *)

InHandler == {pid \in Pids : thr[pid] # "none"}
InQueue == {queue[i] : i \in DOMAIN queue}
InLaunch == {pid \in Pids : sig.pc \in {"launch", "fork", "update"} /\ sig.pid = pid}
Staged == InHandler \cup restart \cup InQueue \cup InLaunch
IsOnList == {pid \in Pids : IsListed(procs, pid)}

\* A task has one TaskHandler thread, or is asked to be restarted, or is in
\* the queue, once, or is being launched.
OneStage ==
  /\ InHandler \cap restart = {} /\ InHandler \cap InQueue = {}
  /\ InHandler \cap InLaunch = {} /\ restart \cap InQueue = {}
  /\ restart \cap InLaunch = {} /\ InQueue \cap InLaunch = {}

QueuedOnce == \A i, j \in DOMAIN queue : queue[i] = queue[j] => i = j

\* Only tasks that were received are in any of these places, or listed.
Received == Staged \cup IsOnList \subseteq accepted

\* A listed task that is in one of these places has no process yet.
StagedNoProcess ==
  \A pid \in Staged : \A os \in Nat : <<pid, os>> \in Tasks(procs) => os = 0

\* A task that is being forked is listed: with an OS pid of 0, so that whoever
\* takes it off the list meanwhile ends the PM.
ForkListed ==
  up /\ sig.pc \in {"fork", "update"} => sig.pid \in IsOnList

StageInv == OneStage /\ QueuedOnce /\ Received /\ StagedNoProcess /\ ForkListed

\* Initially no task is anywhere.
LEMMA StageInit == Init => StageInv
BY DEF Init, StageInv, OneStage, QueuedOnce, Received, StagedNoProcess, ForkListed,
       Staged, InHandler, InQueue, InLaunch, IsOnList, IsListed, Tasks, Members, IdleSig

\* Queueing a task that is not queued.
LEMMA QueueAppend ==
  ASSUME Types, QueuedOnce, NEW pid \in Pids, pid \notin InQueue,
         queue' = Append(queue, pid)
  PROVE  QueuedOnce' /\ InQueue' = InQueue \cup {pid}
<1>1. /\ DOMAIN queue = 1..Len(queue) /\ DOMAIN queue' = 1..(Len(queue) + 1)
      /\ Len(queue) \in Nat /\ queue'[Len(queue) + 1] = pid
      /\ \A i \in 1..Len(queue) : queue'[i] = queue[i]
  BY DEF Types, OtherTypes
<1>2. QueuedOnce'
  BY <1>1 DEF QueuedOnce, InQueue
<1>3. InQueue' = InQueue \cup {pid}
  BY <1>1 DEF InQueue
<1> QED
  BY <1>2, <1>3

\* Taking the first task off the queue.
LEMMA QueuePop ==
  ASSUME Types, QueuedOnce, queue # << >>, queue' = Tail(queue)
  PROVE  /\ Head(queue) \in InQueue
         /\ QueuedOnce' /\ InQueue' = InQueue \ {Head(queue)}
<1>1. /\ DOMAIN queue = 1..Len(queue) /\ DOMAIN queue' = 1..(Len(queue) - 1)
      /\ Len(queue) \in Nat \ {0} /\ Head(queue) = queue[1]
      /\ \A i \in 1..(Len(queue) - 1) : queue'[i] = queue[i + 1]
  BY DEF Types, OtherTypes
<1>2. QueuedOnce'
  BY <1>1 DEF QueuedOnce
<1>3. \A x \in InQueue' : x \in InQueue \ {queue[1]}
  BY <1>1 DEF InQueue, QueuedOnce
<1>4. \A x \in InQueue \ {queue[1]} : x \in InQueue'
  <2> TAKE x \in InQueue \ {queue[1]}
  <2>1. PICK i \in 1..Len(queue) : x = queue[i] /\ i # 1
    BY <1>1 DEF InQueue
  <2>2. i - 1 \in 1..(Len(queue) - 1) /\ queue'[i - 1] = x
    BY <1>1, <2>1
  <2> QED
    BY <1>1, <2>2 DEF InQueue
<1>5. Head(queue) \in InQueue
  BY <1>1 DEF InQueue
<1> QED
  BY <1>1, <1>2, <1>3, <1>4, <1>5

\* Places are left, tasks go, nothing else: only ForkListed needs a reason.
LEMMA StageShrink ==
  ASSUME StageInv, QueuedOnce', ForkListed', accepted \subseteq accepted',
         InHandler' \subseteq InHandler, restart' \subseteq restart,
         InQueue' \subseteq InQueue, InLaunch' \subseteq InLaunch,
         Tasks(procs)' \subseteq Tasks(procs)
  PROVE  StageInv'
<1>1. IsOnList' \subseteq IsOnList
  BY DEF IsOnList, IsListed
<1>2. Staged' \subseteq Staged
  BY DEF Staged
<1>3. OneStage'
  BY DEF StageInv, OneStage
<1>4. Received' /\ StagedNoProcess'
  BY <1>1, <1>2 DEF StageInv, Received, StagedNoProcess
<1> QED
  BY <1>3, <1>4 DEF StageInv

\* The same for a step that leaves the list alone.
LEMMA StageMove ==
  ASSUME StageInv, procs' = procs, QueuedOnce', OneStage', ForkListed',
         accepted \subseteq accepted', Staged' \subseteq Staged
  PROVE  StageInv'
<1>1. IsOnList' = IsOnList
  BY DEF IsOnList, IsListed
<1> QED
  BY <1>1 DEF StageInv, Received, StagedNoProcess

\* A kill that spares the PM did not hit the task that is being forked.
LEMMA KillSparesFork ==
  ASSUME Types, StageInv, NEW pid, NEW os \in Nat, KillAll({os}), sig' = sig, up,
         Tasks(procs) \ {<<pid, os>>} \subseteq Tasks(procs)'
  PROVE  ForkListed'
<1> SUFFICES ASSUME up', sig.pc \in {"fork", "update"}
             PROVE  sig.pid \in IsOnList'
  BY DEF ForkListed
<1>1. os # 0
  BY DEF KillAll
<1>2. sig.pid \in IsOnList /\ sig.pid \in Staged /\ sig.pid \in Pids
  BY DEF StageInv, ForkListed, Staged, InLaunch, Types, SigType
<1>3. <<sig.pid, 0>> \in Tasks(procs)
  BY <1>2 DEF IsOnList, IsListed, StageInv, StagedNoProcess
<1>4. <<sig.pid, 0>> \in Tasks(procs)'
  BY <1>1, <1>3
<1> QED
  BY <1>2, <1>4 DEF IsOnList, IsListed

\* The Listener, the TaskHandler threads and the tasks.
LEMMA HandlerStage ==
  ASSUME Types, StageInv,
         \/ \E pid \in Pids : TaskReceived(pid) \/ TaskHandler(pid)
         \/ TaskExits
  PROVE  StageInv'
<1> USE DEF listVars, codeVars, histVars
<1>1. ASSUME NEW pid \in Pids, TaskReceived(pid)
      PROVE  StageInv'
  <2>1. /\ InQueue' = InQueue /\ InLaunch' = InLaunch /\ QueuedOnce' /\ ForkListed'
        /\ IsOnList' = IsOnList /\ Tasks(procs)' = Tasks(procs)
    BY <1>1 DEF TaskReceived, InQueue, InLaunch, StageInv, QueuedOnce, ForkListed,
                IsOnList, IsListed
  <2>2. InHandler' = InHandler \cup {pid} /\ accepted' = accepted \cup {pid}
    BY <1>1 DEF TaskReceived, InHandler, Types, OtherTypes
  <2>3. CASE pid \notin accepted /\ restart' = restart
    <3>1. pid \notin Staged /\ pid \notin IsOnList
      BY <2>3 DEF StageInv, Received
    <3>2. OneStage'
      BY <2>1, <2>2, <2>3, <3>1 DEF StageInv, OneStage, Staged
    <3>3. Staged' = Staged \cup {pid}
      BY <2>1, <2>2, <2>3 DEF Staged
    <3>4. \A os \in Nat : <<pid, os>> \notin Tasks(procs)
      BY <3>1 DEF IsOnList, IsListed
    <3>5. Received' /\ StagedNoProcess'
      BY <2>1, <2>2, <3>3, <3>4 DEF StageInv, Received, StagedNoProcess
    <3> QED
      BY <2>1, <3>2, <3>5 DEF StageInv
  <2>4. CASE pid \in restart /\ restart' = restart \ {pid}
    <3>1. OneStage'
      BY <2>1, <2>2, <2>4 DEF StageInv, OneStage
    <3>2. Staged' \subseteq Staged
      BY <2>1, <2>2, <2>4 DEF Staged
    <3> QED
      BY <1>1, <2>1, <2>2, <3>1, <3>2, StageMove DEF TaskReceived
  <2> QED
    BY <1>1, <2>3, <2>4 DEF TaskReceived
<1>2. ASSUME NEW pid \in Pids, TaskHandlerQueue(pid) \/ GetCodeDone(pid)
      PROVE  StageInv'
  <2>1. /\ pid \in InHandler /\ InHandler' = InHandler \ {pid}
        /\ queue' = Append(queue, pid) /\ UNCHANGED <<restart, sig, procs, up, accepted>>
    BY <1>2 DEF TaskHandlerQueue, GetCodeDone, Fetching, InHandler, Types, OtherTypes
  <2>2. QueuedOnce' /\ InQueue' = InQueue \cup {pid}
    BY <2>1, QueueAppend DEF StageInv, OneStage
  <2>3. InLaunch' = InLaunch /\ ForkListed'
    BY <2>1 DEF InLaunch, StageInv, ForkListed, IsOnList, IsListed
  <2>4. OneStage' /\ Staged' \subseteq Staged
    BY <2>1, <2>2, <2>3 DEF StageInv, OneStage, Staged
  <2> QED
    BY <2>1, <2>2, <2>3, <2>4, StageMove
<1>3. ASSUME NEW pid \in Pids,
             TaskHandlerFetch(pid) \/ GetCodeOpen(pid) \/ GetCodePart(pid) \/ GetCodeFails(pid)
      PROVE  StageInv'
  <2>1. /\ InHandler' \subseteq InHandler
        /\ UNCHANGED <<queue, restart, sig, procs, up, accepted>>
    BY <1>3 DEF TaskHandlerFetch, GetCodeOpen, GetCodePart, GetCodeFails, Unlink, Fetching,
                InHandler, Types, OtherTypes
  <2>2. /\ QueuedOnce' /\ InQueue' = InQueue /\ InLaunch' = InLaunch
        /\ ForkListed' /\ Tasks(procs)' = Tasks(procs)
    BY <2>1 DEF StageInv, QueuedOnce, InQueue, InLaunch, ForkListed, IsOnList, IsListed
  <2> QED
    BY <2>1, <2>2, StageShrink
<1>4. ASSUME TaskExits
      PROVE  StageInv'
  <2>1. UNCHANGED <<thr, queue, restart, sig, procs, up, accepted>>
    BY <1>4 DEF TaskExits
  <2>2. /\ QueuedOnce' /\ InQueue' = InQueue /\ InLaunch' = InLaunch /\ InHandler' = InHandler
        /\ ForkListed' /\ Tasks(procs)' = Tasks(procs)
    BY <2>1 DEF StageInv, QueuedOnce, InQueue, InLaunch, InHandler, ForkListed, IsOnList, IsListed
  <2> QED
    BY <2>1, <2>2, StageShrink
<1> QED
  BY <1>1, <1>2, <1>3, <1>4 DEF TaskHandler

\* What ends tasks and changes their entries.
LEMMA ListStage ==
  ASSUME Types, StageInv,
         \/ \E pid \in Pids, level \in {0, 1} : KillHandler(pid, level)
         \/ DoReset \/ Shutdown
         \/ \E i \in DOMAIN procs : HeartbeatHandler(i) \/ HeartbeatTimeout(i)
         \/ TaskHeartbeatMonitor
  PROVE  StageInv'
<1> USE DEF listVars, codeVars, histVars
<1>1. /\ UNCHANGED <<thr, queue, restart, sig, accepted>> /\ up
  BY DEF KillHandler, DoReset, Shutdown, HeartbeatHandler, HeartbeatTimeout,
         TaskHeartbeatMonitor, MonitorBegin, MonitorOk, MonitorKill, MonitorEnd,
         MonUnchanged
<1>2. /\ InHandler' = InHandler /\ InQueue' = InQueue /\ InLaunch' = InLaunch
      /\ QueuedOnce'
  BY <1>1 DEF InHandler, InQueue, InLaunch, StageInv, QueuedOnce
<1>3. ASSUME Tasks(procs)' \subseteq Tasks(procs), ForkListed'
      PROVE  StageInv'
  BY <1>1, <1>2, <1>3, StageShrink
<1>4. ASSUME Tasks(procs)' = Tasks(procs), UNCHANGED up
      PROVE  StageInv'
  <2>1. ForkListed'
    BY <1>1, <1>4 DEF StageInv, ForkListed, IsOnList, IsListed
  <2> QED
    BY <1>3, <1>4, <2>1
<1>5. ASSUME NEW pid \in Pids, NEW level \in {0, 1}, KillHandler(pid, level)
      PROVE  StageInv'
  <2>1. PICK os \in Nat : /\ <<pid, os>> \in Tasks(procs) /\ KillAll({os})
                          /\ \/ Tasks(procs)' = Tasks(procs) \ {<<pid, os>>}
                             \/ Tasks(procs)' = Tasks(procs)
    BY <1>5, KillEffect DEF Types
  <2>2. /\ Tasks(procs)' \subseteq Tasks(procs)
        /\ Tasks(procs) \ {<<pid, os>>} \subseteq Tasks(procs)'
    BY <2>1
  <2>3. ForkListed'
    BY <1>1, <2>1, <2>2, KillSparesFork
  <2> QED
    BY <1>3, <2>2, <2>3
<1>6. CASE DoReset
  <2>1. Tasks(procs)' = {} /\ KillAll({t[2] : t \in Tasks(procs)})
    BY <1>6, ResetEffect DEF Types
  <2>2. ForkListed'
    <3> SUFFICES ASSUME up', sig.pc \in {"fork", "update"}
                 PROVE  FALSE
      BY <1>1 DEF ForkListed
    <3>1. sig.pid \in IsOnList /\ sig.pid \in Staged
      BY <1>1 DEF StageInv, ForkListed, Staged, InLaunch, Types, SigType
    <3>2. <<sig.pid, 0>> \in Tasks(procs)
      BY <3>1 DEF IsOnList, IsListed, StageInv, StagedNoProcess
    <3>3. 0 \in {t[2] : t \in Tasks(procs)}
      BY <3>2
    <3> QED
      BY <2>1, <3>3 DEF KillAll
  <2> QED
    BY <1>3, <2>1, <2>2
<1>7. CASE Shutdown
  <2>1. procs' = procs /\ ~up'
    BY <1>7 DEF Shutdown
  <2>2. ForkListed' /\ Tasks(procs)' = Tasks(procs)
    BY <2>1 DEF ForkListed
  <2> QED
    BY <1>3, <2>2
<1>8. CASE \E i \in DOMAIN procs : HeartbeatHandler(i) \/ HeartbeatTimeout(i)
  <2>1. Tasks(procs)' = Tasks(procs)
    BY <1>8, QuietEffect DEF Types
  <2>2. UNCHANGED up
    BY <1>8 DEF HeartbeatHandler, HeartbeatTimeout
  <2> QED
    BY <1>4, <2>1, <2>2
<1>9. CASE MonitorBegin \/ MonitorEnd
  <2>1. procs' = procs /\ UNCHANGED up
    BY <1>9 DEF MonitorBegin, MonitorEnd
  <2>2. Tasks(procs)' = Tasks(procs)
    BY <2>1
  <2> QED
    BY <1>4, <2>1, <2>2
<1>10. CASE MonitorOk
  <2>1. Tasks(procs)' = Tasks(procs)
    BY <1>10, QuietEffect DEF Types
  <2>2. UNCHANGED up
    BY <1>10 DEF MonitorOk
  <2> QED
    BY <1>4, <2>1, <2>2
<1>11. CASE MonitorKill
  <2>1. PICK pid \in Pids, os \in Nat :
          /\ <<pid, os>> \in Tasks(procs) /\ KillAll({os})
          /\ \/ Tasks(procs)' = Tasks(procs) \ {<<pid, os>>}
             \/ Tasks(procs)' = Tasks(procs)
    BY <1>11, MonitorKillEffect
  <2>2. /\ Tasks(procs)' \subseteq Tasks(procs)
        /\ Tasks(procs) \ {<<pid, os>>} \subseteq Tasks(procs)'
    BY <2>1
  <2>3. ForkListed'
    BY <1>1, <2>1, <2>2, KillSparesFork
  <2> QED
    BY <1>3, <2>2, <2>3
<1> QED
  BY <1>5, <1>6, <1>7, <1>8, <1>9, <1>10, <1>11 DEF TaskHeartbeatMonitor

\* What the signal thread has in hand after a step that launches nothing more.
LEMMA NoLaunch ==
  ASSUME sig'.pc \in {"idle", "wait", "reaped"}
  PROVE  InLaunch' = {} /\ ForkListed'
BY DEF InLaunch, ForkListed

\* The signal thread.
LEMMA SigStage ==
  ASSUME Types, StageInv, SigHandler
  PROVE  StageInv'
<1> USE DEF listVars, codeVars, histVars, SigStep
<1>1. UNCHANGED <<thr, accepted, up>>
  BY DEF SigHandler, SigPop, LaunchNoFile, LaunchAdd, LaunchFork, LaunchForkFails,
         UpdateOsPid, WaitPid, ChildEnded
<1>2. InHandler' = InHandler
  BY <1>1 DEF InHandler
<1>3. ASSUME queue' = queue
      PROVE  InQueue' = InQueue /\ QueuedOnce'
  BY <1>3 DEF InQueue, StageInv, QueuedOnce
<1>4. CASE SigPop
  <2>1. UNCHANGED <<procs, restart>>
    BY <1>4 DEF SigPop
  <2>2. CASE queue = << >>
    <3>1. queue' = queue /\ sig'.pc = "wait"
      BY <1>4, <2>2 DEF SigPop, IdleSig
    <3>2. InQueue' = InQueue /\ QueuedOnce' /\ InLaunch' = {} /\ ForkListed'
      BY <1>3, <3>1, NoLaunch
    <3>3. OneStage' /\ Staged' \subseteq Staged
      BY <1>2, <2>1, <3>2 DEF StageInv, OneStage, Staged
    <3> QED
      BY <1>1, <2>1, <3>2, <3>3, StageMove
  <2>3. CASE queue # << >>
    <3>1. queue' = Tail(queue) /\ sig'.pc = "launch" /\ sig'.pid = Head(queue) /\ sig.pc = "idle"
      BY <1>4, <2>3 DEF SigPop, IdleSig
    <3>2. Head(queue) \in InQueue /\ QueuedOnce' /\ InQueue' = InQueue \ {Head(queue)}
      BY <2>3, <3>1, QueuePop DEF StageInv
    <3>3. InLaunch' \subseteq {Head(queue)} /\ ForkListed'
      BY <3>1 DEF InLaunch, ForkListed
    <3>4. OneStage' /\ Staged' \subseteq Staged
      BY <1>2, <2>1, <3>2, <3>3 DEF StageInv, OneStage, Staged
    <3> QED
      BY <1>1, <2>1, <3>2, <3>3, <3>4, StageMove
  <2> QED
    BY <2>2, <2>3
<1>5. CASE LaunchNoFile \/ WaitPid
  <2>1. UNCHANGED <<procs, restart, queue>> /\ sig'.pc \in {"idle", "wait", "reaped"}
    <3>1. CASE LaunchNoFile
      BY <3>1 DEF LaunchNoFile, IdleSig
    <3>2. CASE WaitPid
      <4>1. UNCHANGED <<procs, restart, queue>>
        BY <3>2 DEF WaitPid
      <4> QED
        BY <3>2, <4>1, WaitEffect
    <3> QED
      BY <1>5, <3>1, <3>2
  <2>2. InQueue' = InQueue /\ QueuedOnce' /\ InLaunch' = {} /\ ForkListed'
    BY <1>3, <2>1, NoLaunch
  <2>3. Tasks(procs)' = Tasks(procs)
    BY <2>1
  <2> QED
    BY <1>1, <1>2, <2>1, <2>2, <2>3, StageShrink
<1>6. CASE LaunchFork
  <2>1. /\ UNCHANGED <<procs, restart, queue, up>> /\ sig.pc = "fork" /\ sig'.pc = "update"
        /\ sig'.pid = sig.pid
    BY <1>6 DEF LaunchFork, Types, SigType
  <2>2. InQueue' = InQueue /\ QueuedOnce'
    BY <1>3, <2>1
  <2>3. InLaunch' = InLaunch
    BY <2>1 DEF InLaunch
  <2>4. ForkListed'
    BY <2>1 DEF StageInv, ForkListed, IsOnList, IsListed
  <2>5. Tasks(procs)' = Tasks(procs)
    BY <2>1
  <2> QED
    BY <1>1, <1>2, <2>1, <2>2, <2>3, <2>4, <2>5, StageShrink
<1>7. CASE LaunchForkFails
  <2>1. UNCHANGED <<restart, queue>> /\ sig'.pc = "wait"
    BY <1>7 DEF LaunchForkFails, IdleSig
  <2>2. InQueue' = InQueue /\ QueuedOnce' /\ InLaunch' = {} /\ ForkListed'
    BY <1>3, <2>1, NoLaunch
  <2>3. Tasks(procs)' \subseteq Tasks(procs)
    BY <1>7, ForkFailsEffect
  <2> QED
    BY <1>1, <1>2, <2>1, <2>2, <2>3, StageShrink
<1>8. CASE LaunchAdd
  <2>1. /\ UNCHANGED <<restart, queue, up>> /\ sig.pc = "launch" /\ sig'.pc = "fork"
        /\ sig'.pid = sig.pid /\ sig.pid \in Pids /\ ListType'
    BY <1>8, LaunchEffect DEF LaunchAdd, Types, SigType
  <2>2. InQueue' = InQueue /\ QueuedOnce' /\ InLaunch' = InLaunch /\ sig.pid \in InLaunch
    BY <1>3, <2>1 DEF InLaunch
  <2>3. Tasks(procs)' = Tasks(procs) \cup {<<sig.pid, 0>>}
    <3>1. CASE Tasks(procs)' = Tasks(procs) \cup {<<sig.pid, 0>>}
      BY <3>1
    <3>2. ASSUME NEW os \in Nat, <<sig.pid, os>> \in Tasks(procs),
                 Tasks(procs)' = (Tasks(procs) \ {<<sig.pid, os>>}) \cup {<<sig.pid, 0>>}
          PROVE  Tasks(procs)' = Tasks(procs) \cup {<<sig.pid, 0>>}
      <4>1. os = 0
        BY <2>2, <3>2 DEF StageInv, StagedNoProcess, Staged
      <4> QED
        BY <3>2, <4>1
    <3> QED
      BY <1>8, <3>1, <3>2, LaunchEffect
  <2>4. Staged' = Staged /\ OneStage'
    BY <1>2, <2>1, <2>2 DEF Staged, StageInv, OneStage
  <2>5. IsOnList' = IsOnList \cup {sig.pid}
    BY <2>1, <2>3 DEF IsOnList, IsListed
  <2>6. Received'
    BY <1>1, <2>2, <2>4, <2>5 DEF StageInv, Received, Staged
  <2>7. StagedNoProcess'
    BY <2>3, <2>4 DEF StageInv, StagedNoProcess
  <2>8. ForkListed'
    BY <2>1, <2>5 DEF ForkListed
  <2> QED
    BY <2>2, <2>4, <2>6, <2>7, <2>8 DEF StageInv
<1>9. CASE UpdateOsPid
  <2>1. UNCHANGED <<restart, queue>> /\ sig'.pc = "wait" /\ sig.pc = "update" /\ sig.pid \in Pids
    BY <1>9 DEF UpdateOsPid, IdleSig, Types, SigType
  <2>2. InQueue' = InQueue /\ QueuedOnce' /\ InLaunch' = {} /\ ForkListed'
    BY <1>3, <2>1, NoLaunch
  <2>3. sig.pid \in InLaunch /\ sig.os \in Nat
    BY <2>1 DEF InLaunch, Types, SigType
  <2>4. OneStage' /\ Staged' \subseteq Staged \ {sig.pid}
    BY <1>2, <2>1, <2>2, <2>3 DEF StageInv, OneStage, Staged
  <2>5. \/ Tasks(procs)' = Tasks(procs)
        \/ /\ IsListed(procs, sig.pid)
           /\ Tasks(procs)' \subseteq Tasks(procs) \cup {<<sig.pid, sig.os>>}
    BY <1>9, UpdateEffect DEF IsListed
  <2>6. IsOnList' \subseteq IsOnList
    BY <2>1, <2>3, <2>5 DEF IsOnList, IsListed
  <2>7. Received'
    BY <1>1, <2>4, <2>6 DEF StageInv, Received
  <2>8. StagedNoProcess'
    BY <2>4, <2>5 DEF StageInv, StagedNoProcess
  <2> QED
    BY <2>2, <2>4, <2>7, <2>8 DEF StageInv
<1>10. CASE ChildEnded
  <2>1. queue' = queue /\ sig'.pc = "idle" /\ sig.pc = "reaped" /\ sig.os \in Nat \ {0}
    BY <1>10 DEF ChildEnded, IdleSig, Types, SigType, OtherTypes
  <2>2. InQueue' = InQueue /\ QueuedOnce' /\ InLaunch' = {} /\ ForkListed'
    BY <1>3, <2>1, NoLaunch
  <2>3. ASSUME Tasks(procs)' \subseteq Tasks(procs), UNCHANGED restart
        PROVE  StageInv'
    BY <1>1, <1>2, <2>2, <2>3, StageShrink
  <2>4. ASSUME NEW pid \in Pids, <<pid, sig.os>> \in Tasks(procs),
               Tasks(procs)' = (Tasks(procs) \ {<<pid, sig.os>>}) \cup {<<pid, 0>>},
               restart' = restart \cup {pid}
        PROVE  StageInv'
    <3>1. pid \notin Staged /\ pid \in IsOnList
      BY <2>1, <2>4 DEF StageInv, StagedNoProcess, IsOnList, IsListed
    <3>2. OneStage' /\ Staged' \subseteq Staged \cup {pid}
      BY <1>2, <2>2, <2>4, <3>1 DEF StageInv, OneStage, Staged
    <3>3. IsOnList' \subseteq IsOnList
      BY <2>4, <3>1 DEF IsOnList, IsListed
    <3>4. Received'
      BY <1>1, <3>1, <3>2, <3>3 DEF StageInv, Received
    <3>5. \A os \in Nat : <<pid, os>> \in Tasks(procs) => os = sig.os
      BY <2>1, <2>4, TasksOne DEF Types, ListType
    <3>6. StagedNoProcess'
      BY <2>4, <3>2, <3>5 DEF StageInv, StagedNoProcess
    <3> QED
      BY <2>2, <3>2, <3>4, <3>6 DEF StageInv
  <2>5. \/ Tasks(procs)' \subseteq Tasks(procs) /\ UNCHANGED restart
        \/ \E pid \in Pids :
             /\ <<pid, sig.os>> \in Tasks(procs)
             /\ Tasks(procs)' = (Tasks(procs) \ {<<pid, sig.os>>}) \cup {<<pid, 0>>}
             /\ restart' = restart \cup {pid}
    BY <1>10, ChildEndedEffect
  <2> QED
    BY <2>3, <2>4, <2>5
<1> QED
  BY <1>4, <1>5, <1>6, <1>7, <1>8, <1>9, <1>10 DEF SigHandler

\* Every step keeps a task in one place at a time.
LEMMA StageStep == Types /\ StageInv /\ [Next]_vars => StageInv'
<1> SUFFICES ASSUME Types, StageInv, [Next]_vars PROVE StageInv'
  OBVIOUS
<1>1. CASE UNCHANGED vars
  <2>1. UNCHANGED <<thr, queue, restart, sig, procs, up, accepted>>
    BY <1>1 DEF vars, codeVars, listVars, histVars
  <2>2. /\ QueuedOnce' /\ InQueue' = InQueue /\ InLaunch' = InLaunch /\ InHandler' = InHandler
        /\ ForkListed' /\ Tasks(procs)' = Tasks(procs)
    BY <2>1 DEF StageInv, QueuedOnce, InQueue, InLaunch, InHandler, ForkListed, IsOnList, IsListed
  <2> QED
    BY <2>1, <2>2, StageShrink
<1>2. CASE Next
  BY <1>2, HandlerStage, ListStage, SigStage DEF Next
<1> QED
  BY <1>1, <1>2

\* The inductive invariant of the task list: where each task is.
ListInv == Types /\ StageInv

\* The list and the places of the tasks are sound in every reachable state.
LEMMA ListInvariant == Spec => []ListInv
<1>1. Init => ListInv
  BY TypesInit, StageInit DEF ListInv
<1>2. ListInv /\ [Next]_vars => ListInv'
  BY TypesStep, StageStep DEF ListInv
<1> QED
  BY <1>1, <1>2, PTL DEF Spec

\* The variables of the PM keep their types, and although a task that is
\* restarted is added to the list again (PMProcessList::Add), the list never
\* holds two entries of one task; only a received task is restarted.
THEOREM PmTypeCorrect == Spec => []TypeOK
<1>1. ListInv => TypeOK
  <2> SUFFICES ASSUME ListInv PROVE TypeOK
    OBVIOUS
  <2>1. Len(procs) = Cardinality(ListedPids)
    BY DistinctCount DEF ListInv, Types, ListType
  <2>2. restart \subseteq accepted
    BY DEF ListInv, StageInv, Received, Staged
  <2> QED
    BY <2>1, <2>2 DEF TypeOK, ListInv, Types, ListType, SigType, OtherTypes
<1> QED
  BY <1>1, ListInvariant, PTL

-----------------------------------------------------------------------------
(* No child process is forgotten.                                          *)

\* A process that ended is not running, nor is one that was waited for.
Ends ==
  /\ alive \cap zombies = {}
  /\ sig.pc = "reaped" => sig.os \notin alive

\* EveryChildKnown, for the list as the set of its tasks.
KnownChildren ==
  IF up THEN \A os \in alive : \/ \E pid \in Pids : <<pid, os>> \in Tasks(procs)
                               \/ sig.pc = "update" /\ sig.os = os
        ELSE alive = {}

KnownInv == Ends /\ (used.forkFails = 0 => KnownChildren)

\* A kill spares no process it is meant for, and no process but those is lost.
LEMMA KillKnown ==
  ASSUME Types, KnownInv, NEW S, KillAll(S), up, UNCHANGED sig,
         used'.forkFails = used.forkFails,
         \A t \in Tasks(procs) : t[2] \notin S => t \in Tasks(procs)'
  PROVE  KnownInv'
<1>1. Ends'
  <2>1. CASE 0 \in S
    BY <2>1 DEF KillAll, Ends
  <2>2. CASE 0 \notin S
    BY <2>2 DEF KillAll, KnownInv, Ends
  <2> QED
    BY <2>1, <2>2
<1>2. ASSUME used.forkFails = 0
      PROVE  KnownChildren'
  <2>1. CASE 0 \in S
    BY <2>1 DEF KillAll, KnownChildren
  <2>2. CASE 0 \notin S
    <3>1. alive' = alive \ S /\ up'
      BY <2>2 DEF KillAll
    <3> SUFFICES ASSUME NEW os \in alive'
                 PROVE  \/ \E pid \in Pids : <<pid, os>> \in Tasks(procs)'
                        \/ sig.pc = "update" /\ sig.os = os
      BY <3>1 DEF KnownChildren
    <3>2. \/ \E pid \in Pids : <<pid, os>> \in Tasks(procs)
          \/ sig.pc = "update" /\ sig.os = os
      BY <1>2, <3>1 DEF KnownInv, KnownChildren
    <3>3. ASSUME NEW pid \in Pids, <<pid, os>> \in Tasks(procs)
          PROVE  <<pid, os>> \in Tasks(procs)'
      BY <3>1, <3>3
    <3> QED
      BY <3>2, <3>3
  <2> QED
    BY <2>1, <2>2
<1> QED
  BY <1>1, <1>2 DEF KnownInv

\* A step that ends no task and starts no process keeps the children known.
LEMMA SameKnown ==
  ASSUME Types, KnownInv, UNCHANGED <<up, zombies, alive, used, sig>>,
         Tasks(procs) \subseteq Tasks(procs)'
  PROVE  KnownInv'
<1>1. Ends'
  BY DEF KnownInv, Ends
<1>2. used.forkFails = 0 => KnownChildren'
  BY DEF KnownInv, KnownChildren
<1> QED
  BY <1>1, <1>2 DEF KnownInv

\* So do the handlers of a new task and the exit of a process.
LEMMA HandlerKnown ==
  ASSUME Types, KnownInv,
         \/ \E pid \in Pids : TaskReceived(pid) \/ TaskHandler(pid)
         \/ TaskExits
  PROVE  KnownInv'
<1> USE DEF listVars, codeVars, histVars
<1>1. ASSUME NEW pid \in Pids, TaskReceived(pid) \/ TaskHandler(pid)
      PROVE  KnownInv'
  <2>1. UNCHANGED <<up, zombies, alive, used, sig, procs>>
    BY <1>1 DEF TaskReceived, TaskHandler, TaskHandlerQueue, TaskHandlerFetch, GetCodeOpen,
                GetCodePart, GetCodeDone, GetCodeFails
  <2>2. Tasks(procs)' = Tasks(procs)
    BY <2>1
  <2> QED
    BY <2>1, <2>2, SameKnown
<1>2. CASE TaskExits
  <2>1. PICK os \in alive : alive' = alive \ {os} /\ zombies' = zombies \cup {os}
    BY <1>2 DEF TaskExits
  <2>2. UNCHANGED <<up, procs, sig, used>> /\ up
    BY <1>2 DEF TaskExits
  <2>3. Ends'
    BY <2>1, <2>2 DEF KnownInv, Ends
  <2>4. used.forkFails = 0 => KnownChildren'
    BY <2>1, <2>2 DEF KnownInv, KnownChildren
  <2> QED
    BY <2>2, <2>3, <2>4 DEF KnownInv
<1> QED
  BY <1>1, <1>2

\* So do kills, resets, shutdown and the heartbeat monitor.
LEMMA ListKnown ==
  ASSUME Types, KnownInv,
         \/ \E pid \in Pids, level \in {0, 1} : KillHandler(pid, level)
         \/ DoReset \/ Shutdown
         \/ \E i \in DOMAIN procs : HeartbeatHandler(i) \/ HeartbeatTimeout(i)
         \/ TaskHeartbeatMonitor
  PROVE  KnownInv'
<1> USE DEF listVars, codeVars, histVars
<1>1. UNCHANGED sig /\ up
  BY DEF KillHandler, DoReset, Shutdown, HeartbeatHandler, HeartbeatTimeout,
         TaskHeartbeatMonitor, MonitorBegin, MonitorOk, MonitorKill, MonitorEnd,
         MonUnchanged
<1>2. used'.forkFails = used.forkFails
  <2>1. CASE UNCHANGED used
    BY <2>1
  <2>2. CASE Use("silent") \/ Use("kills") \/ Use("resets")
    BY <2>2, UseFacts DEF Types, OtherTypes
  <2> QED
    BY <2>1, <2>2 DEF KillHandler, DoReset, Shutdown, HeartbeatHandler, HeartbeatTimeout,
         TaskHeartbeatMonitor, MonitorBegin, MonitorOk, MonitorKill, MonitorEnd,
         MonUnchanged
<1>3. ASSUME NEW pid \in Pids, NEW level \in {0, 1}, KillHandler(pid, level)
      PROVE  KnownInv'
  <2>1. PICK os \in Nat : /\ <<pid, os>> \in Tasks(procs) /\ KillAll({os})
                          /\ \/ Tasks(procs)' = Tasks(procs) \ {<<pid, os>>}
                             \/ Tasks(procs)' = Tasks(procs)
    BY <1>3, KillEffect DEF Types
  <2>2. \A t \in Tasks(procs) : t[2] \notin {os} => t \in Tasks(procs)'
    BY <2>1
  <2> QED
    BY <1>1, <1>2, <2>1, <2>2, KillKnown
<1>4. CASE DoReset
  <2> DEFINE S == {t[2] : t \in Tasks(procs)}
  <2>1. KillAll(S)
    BY <1>4, ResetEffect DEF Types
  <2>2. \A t \in Tasks(procs) : t[2] \notin S => t \in Tasks(procs)'
    OBVIOUS
  <2> HIDE DEF S
  <2> QED
    BY <1>1, <1>2, <2>1, <2>2, KillKnown
<1>5. CASE Shutdown
  <2> DEFINE S == {procs[i].os : i \in DOMAIN procs}
  <2>1. /\ ~up' /\ alive' = (IF 0 \in S THEN {} ELSE alive \ S) /\ zombies' = {}
        /\ sig.pc = "idle"
    BY <1>5 DEF Shutdown
  <2>2. Ends'
    BY <1>1, <2>1 DEF Ends
  <2>3. ASSUME used.forkFails = 0
        PROVE  KnownChildren'
    <3>1. ASSUME NEW pid \in Pids, NEW os, <<pid, os>> \in Tasks(procs)
          PROVE  os \in S
      BY <3>1 DEF Tasks, Members
    <3>2. \A os \in alive : \E pid \in Pids : <<pid, os>> \in Tasks(procs)
      BY <1>1, <2>1, <2>3 DEF KnownInv, KnownChildren
    <3>3. \A os \in alive : os \in S
      BY <3>1, <3>2
    <3> HIDE DEF S
    <3> QED
      BY <2>1, <3>3 DEF KnownChildren
  <2> QED
    BY <1>2, <2>2, <2>3 DEF KnownInv
<1>6. CASE \E i \in DOMAIN procs : HeartbeatHandler(i) \/ HeartbeatTimeout(i)
  <2>1. Tasks(procs)' = Tasks(procs)
    BY <1>6, QuietEffect DEF Types
  <2>2. UNCHANGED <<up, alive, zombies>>
    BY <1>6 DEF HeartbeatHandler, HeartbeatTimeout
  <2>3. KillAll({})
    BY <2>2 DEF KillAll
  <2> QED
    BY <1>1, <1>2, <2>1, <2>3, KillKnown
<1>7. CASE MonitorBegin \/ MonitorEnd \/ MonitorOk
  <2>1. Tasks(procs)' = Tasks(procs)
    <3>1. CASE MonitorOk
      BY <3>1, QuietEffect DEF Types
    <3>2. CASE procs' = procs
      BY <3>2
    <3> QED
      BY <1>7, <3>1, <3>2 DEF MonitorBegin, MonitorEnd
  <2>2. UNCHANGED <<up, alive, zombies, used>>
    BY <1>7 DEF MonitorBegin, MonitorEnd, MonitorOk, MonUnchanged
  <2> QED
    BY <1>1, <2>1, <2>2, SameKnown
<1>8. CASE MonitorKill
  <2>1. PICK pid \in Pids, os \in Nat :
          /\ <<pid, os>> \in Tasks(procs) /\ KillAll({os})
          /\ \/ Tasks(procs)' = Tasks(procs) \ {<<pid, os>>}
             \/ Tasks(procs)' = Tasks(procs)
    BY <1>8, MonitorKillEffect
  <2>2. \A t \in Tasks(procs) : t[2] \notin {os} => t \in Tasks(procs)'
    BY <2>1
  <2> QED
    BY <1>1, <1>2, <2>1, <2>2, KillKnown
<1> QED
  BY <1>3, <1>4, <1>5, <1>6, <1>7, <1>8 DEF TaskHeartbeatMonitor

\* So does the handler of ended children, restarts included.
LEMMA SigKnown ==
  ASSUME Types, StageInv, KnownInv, SigHandler
  PROVE  KnownInv'
<1> USE DEF listVars, codeVars, histVars, SigStep
<1>1. UNCHANGED up /\ up
  BY DEF SigHandler, SigPop, LaunchNoFile, LaunchAdd, LaunchFork, LaunchForkFails,
         UpdateOsPid, WaitPid, ChildEnded
<1>2. \A pid \in Pids, os \in alive : <<pid, os>> \in Tasks(procs) => os # 0
  BY DEF Types, OtherTypes
<1>3. CASE SigPop \/ LaunchNoFile
  <2>1. /\ UNCHANGED <<procs, alive, zombies, used>> /\ sig.pc # "update"
        /\ sig'.pc \in {"wait", "launch"}
    BY <1>3 DEF SigPop, LaunchNoFile, IdleSig
  <2>2. Ends'
    BY <2>1 DEF KnownInv, Ends
  <2>3. used.forkFails = 0 => KnownChildren'
    BY <1>1, <2>1 DEF KnownInv, KnownChildren
  <2> QED
    BY <2>1, <2>2, <2>3 DEF KnownInv
<1>4. CASE WaitPid
  <2>1. /\ UNCHANGED <<procs, alive, used>> /\ sig.pc # "update"
    BY <1>4 DEF WaitPid
  <2>2. /\ zombies' \subseteq zombies
        /\ \/ sig'.pc = "idle"
           \/ sig'.pc = "reaped" /\ sig'.os \in zombies
    BY <1>4, WaitEffect
  <2>3. Ends'
    BY <2>1, <2>2 DEF KnownInv, Ends
  <2>4. used.forkFails = 0 => KnownChildren'
    BY <1>1, <2>1, <2>2 DEF KnownInv, KnownChildren
  <2> QED
    BY <2>1, <2>3, <2>4 DEF KnownInv
<1>5. CASE LaunchAdd
  <2>1. /\ UNCHANGED <<alive, zombies, used>> /\ sig.pc = "launch" /\ sig'.pc = "fork"
        /\ sig.pid \in Staged
    BY <1>5 DEF LaunchAdd, Types, SigType, Staged, InLaunch
  <2>2. \A t \in Tasks(procs) : t \in Tasks(procs)' \/ \E os \in Nat : t = <<sig.pid, os>>
    BY <1>5, LaunchEffect
  <2>3. \A os \in Nat : <<sig.pid, os>> \in Tasks(procs) => os = 0
    BY <2>1 DEF StageInv, StagedNoProcess
  <2>4. Ends'
    BY <2>1 DEF KnownInv, Ends
  <2>5. ASSUME NEW pid \in Pids, NEW os \in alive, <<pid, os>> \in Tasks(procs)
        PROVE  <<pid, os>> \in Tasks(procs)'
    BY <1>2, <2>2, <2>3, <2>5
  <2>6. used.forkFails = 0 => KnownChildren'
    BY <1>1, <2>1, <2>5 DEF KnownInv, KnownChildren
  <2> QED
    BY <2>1, <2>4, <2>6 DEF KnownInv
<1>6. CASE LaunchFork
  <2>1. /\ UNCHANGED <<procs, zombies, used>> /\ sig.pc = "fork" /\ sig'.pc = "update"
        /\ sig'.os = forks + 1 /\ alive' = alive \cup {forks + 1}
    BY <1>6 DEF LaunchFork, Types, SigType
  <2>2. forks + 1 \notin zombies
    BY DEF Types, OtherTypes
  <2>3. Ends'
    BY <2>1, <2>2 DEF KnownInv, Ends
  <2>4. used.forkFails = 0 => KnownChildren'
    BY <1>1, <2>1 DEF KnownInv, KnownChildren
  <2> QED
    BY <2>1, <2>3, <2>4 DEF KnownInv
<1>7. CASE LaunchForkFails
  <2>1. UNCHANGED <<alive, zombies>> /\ sig'.pc = "wait" /\ Use("forkFails")
    BY <1>7 DEF LaunchForkFails, IdleSig
  <2>2. used'.forkFails # 0
    BY <2>1, UseFacts DEF Types, OtherTypes
  <2> QED
    BY <2>1, <2>2 DEF KnownInv, Ends
<1>8. CASE UpdateOsPid
  <2>1. /\ UNCHANGED <<alive, zombies, used>> /\ sig.pc = "update" /\ sig'.pc = "wait"
        /\ sig.pid \in Staged /\ sig.pid \in Pids
    BY <1>8 DEF UpdateOsPid, IdleSig, Types, SigType, Staged, InLaunch
  <2>2. IsListed(procs, sig.pid)
    BY <1>1, <2>1 DEF StageInv, ForkListed, IsOnList
  <2>3. PICK x \in Nat : /\ <<sig.pid, x>> \in Tasks(procs)
                         /\ Tasks(procs)' = (Tasks(procs) \ {<<sig.pid, x>>})
                                              \cup {<<sig.pid, sig.os>>}
    BY <1>8, <2>2, UpdateEffect
  <2>4. x = 0
    BY <2>1, <2>3 DEF StageInv, StagedNoProcess
  <2>5. Ends'
    BY <2>1 DEF KnownInv, Ends
  <2>6. ASSUME NEW pid \in Pids, NEW os \in alive, <<pid, os>> \in Tasks(procs)
        PROVE  <<pid, os>> \in Tasks(procs)'
    BY <1>2, <2>3, <2>4, <2>6
  <2>7. <<sig.pid, sig.os>> \in Tasks(procs)'
    BY <2>3
  <2>8. used.forkFails = 0 => KnownChildren'
    BY <1>1, <2>1, <2>6, <2>7 DEF KnownInv, KnownChildren
  <2> QED
    BY <2>1, <2>5, <2>8 DEF KnownInv
<1>9. CASE ChildEnded
  <2>1. UNCHANGED <<alive, zombies, used>> /\ sig.pc = "reaped" /\ sig'.pc = "idle"
    BY <1>9 DEF ChildEnded, IdleSig
  <2>2. \A pid \in Pids, os \in alive :
          <<pid, os>> \in Tasks(procs) /\ os # sig.os => <<pid, os>> \in Tasks(procs)'
    BY <1>9, ChildEndedEffect
  <2>3. Ends'
    BY <2>1 DEF KnownInv, Ends
  <2>4. used.forkFails = 0 => KnownChildren'
    BY <1>1, <2>1, <2>2 DEF KnownInv, KnownChildren, Ends
  <2> QED
    BY <2>1, <2>3, <2>4 DEF KnownInv
<1> QED
  BY <1>3, <1>4, <1>5, <1>6, <1>7, <1>8, <1>9 DEF SigHandler

\* Until a fork fails, every child process that runs is in the list of running
\* tasks under its OS pid or is about to be entered there by the signal thread,
\* so that a kill request, a reset and the signal thread find it; and the PM
\* leaves no child behind when it ends (LaunchTask, KillHandler, SigIntHandler).
THEOREM PmChildrenKnown == Spec => []ChildrenKnown
<1>1. Init => KnownInv
  BY DEF Init, KnownInv, Ends, KnownChildren
<1>2. ListInv /\ KnownInv /\ [Next]_vars => KnownInv'
  <2> SUFFICES ASSUME ListInv, KnownInv, [Next]_vars PROVE KnownInv'
    OBVIOUS
  <2> USE DEF ListInv
  <2>1. CASE UNCHANGED vars
    <3>1. UNCHANGED <<up, zombies, alive, used, sig, procs>>
      BY <2>1 DEF vars, listVars
    <3>2. Tasks(procs)' = Tasks(procs)
      BY <3>1
    <3> QED
      BY <3>1, <3>2, SameKnown
  <2>2. CASE Next
    BY <2>2, HandlerKnown, ListKnown, SigKnown DEF Next
  <2> QED
    BY <2>1, <2>2
<1>3. ListInv /\ KnownInv => ChildrenKnown
  <2> SUFFICES ASSUME ListInv, KnownInv, used.forkFails = 0
               PROVE  EveryChildKnown
    BY DEF ChildrenKnown
  <2>1. ASSUME NEW pid \in Pids, NEW os, <<pid, os>> \in Tasks(procs)
        PROVE  GetIndexOfOsPid(os) # 0
    <3>1. \E m \in Members(procs) : m.os = os
      BY <2>1 DEF Tasks
    <3> QED
      BY <3>1, FindOsPid DEF ListInv, Types, ListType
  <2> QED
    BY <2>1 DEF KnownInv, KnownChildren, EveryChildKnown
<1> QED
  BY <1>1, <1>2, <1>3, ListInvariant, PTL DEF Spec

-----------------------------------------------------------------------------
(* What a step does to a task, as far as the TM can tell: the places it is *)
(* in before it runs, the list of running tasks, and the reports.          *)

\* The history variables NoTaskLost looks at.
Noted == <<accepted, old, gaveUp>>

Quiet == Staged' = Staged /\ IsOnList' = IsOnList /\ UNCHANGED <<up, reports, Noted>>

Accepts(pid) ==
  /\ up /\ pid \notin accepted /\ accepted' = accepted \cup {pid}
  /\ Staged' = Staged \cup {pid} /\ IsOnList' = IsOnList
  /\ UNCHANGED <<up, reports, old, gaveUp>>

Lists(pid) ==
  /\ up /\ pid \in InLaunch
  /\ Staged' = Staged /\ IsOnList' = IsOnList \cup {pid}
  /\ UNCHANGED <<up, reports, Noted>>

Launched(pid) ==
  /\ pid \in IsOnList
  /\ Staged' = Staged \ {pid} /\ IsOnList' = IsOnList
  /\ UNCHANGED <<up, reports, Noted>>

Restarts(pid) ==
  /\ pid \in IsOnList
  /\ Staged' = Staged \cup {pid} /\ IsOnList' = IsOnList
  /\ UNCHANGED <<up, reports, Noted>>

FetchFails(pid) ==
  /\ up /\ pid \in Staged /\ Fetching(pid) /\ Report(pid)
  /\ Staged' = Staged \ {pid} /\ IsOnList' = IsOnList
  /\ UNCHANGED <<up, Noted>>

Finishes(pid) ==
  /\ up /\ pid \in IsOnList \ Staged /\ Report(pid)
  /\ Staged' = Staged /\ IsOnList' = IsOnList \ {pid}
  /\ UNCHANGED <<up, Noted>>

NoFile(pid) ==
  /\ up /\ pid \in InLaunch /\ ~IsFileAvailable(pid) /\ gaveUp' = gaveUp \cup {pid}
  /\ Staged' = Staged \ {pid} /\ IsOnList' = IsOnList
  /\ UNCHANGED <<up, reports, accepted, old>>

GivesUp(pid) ==
  /\ up /\ pid \in IsOnList \ Staged /\ gaveUp' = gaveUp \cup {pid}
  /\ Staged' = Staged /\ IsOnList' = IsOnList \ {pid}
  /\ UNCHANGED <<up, reports, accepted, old>>

Resets ==
  /\ up /\ Staged \cap IsOnList = {} /\ old' = accepted
  /\ Staged' = Staged /\ IsOnList' = {}
  /\ UNCHANGED <<up, reports, accepted, gaveUp>>

ForkFailed ==
  /\ used'.forkFails # 0
  /\ Staged' \subseteq Staged /\ IsOnList' \subseteq IsOnList
  /\ UNCHANGED <<up, reports, Noted>>

Stops ==
  /\ up /\ up' = FALSE
  /\ Staged' = Staged /\ IsOnList' \subseteq IsOnList
  /\ UNCHANGED <<reports, accepted>>

StepKind ==
  \/ Quiet \/ Resets \/ ForkFailed \/ Stops
  \/ \E pid \in Pids : \/ Accepts(pid) \/ Lists(pid) \/ Launched(pid) \/ Restarts(pid)
                       \/ FetchFails(pid) \/ Finishes(pid) \/ NoFile(pid) \/ GivesUp(pid)

\* The same tasks, the same pids on the list.
LEMMA ListedSame ==
  ASSUME Tasks(procs)' = Tasks(procs)
  PROVE  IsOnList' = IsOnList
BY DEF IsOnList, IsListed

\* Taking a task off takes its pid off.
LEMMA ListedLess ==
  ASSUME ListType, NEW pid \in Pids, NEW os \in Nat, <<pid, os>> \in Tasks(procs),
         Tasks(procs)' = Tasks(procs) \ {<<pid, os>>}
  PROVE  pid \in IsOnList /\ IsOnList' = IsOnList \ {pid}
<1>1. \A x \in Nat : <<pid, x>> \in Tasks(procs) => x = os
  BY TasksOne DEF ListType
<1>2. pid \in IsOnList /\ pid \notin IsOnList'
  BY <1>1 DEF IsOnList, IsListed
<1>3. \A q \in Pids \ {pid} : q \in IsOnList' <=> q \in IsOnList
  BY DEF IsOnList, IsListed
<1>4. IsOnList \subseteq Pids /\ IsOnList' \subseteq Pids
  BY DEF IsOnList
<1> QED
  BY <1>2, <1>3, <1>4

\* Another process id leaves the pids alone.
LEMMA ListedChanged ==
  ASSUME NEW pid \in Pids, NEW os \in Nat, NEW x \in Nat, <<pid, os>> \in Tasks(procs),
         Tasks(procs)' = (Tasks(procs) \ {<<pid, os>>}) \cup {<<pid, x>>}
  PROVE  pid \in IsOnList /\ IsOnList' = IsOnList
<1>1. pid \in IsOnList /\ pid \in IsOnList'
  BY DEF IsOnList, IsListed
<1>2. \A q \in Pids \ {pid} : q \in IsOnList' <=> q \in IsOnList
  BY DEF IsOnList, IsListed
<1>3. IsOnList \subseteq Pids /\ IsOnList' \subseteq Pids
  BY DEF IsOnList
<1> QED
  BY <1>1, <1>2, <1>3

\* A step that touches no thread, queue or restart keeps the tasks in their
\* stages.
LEMMA StagedSame ==
  ASSUME UNCHANGED <<thr, queue, restart, sig>>
  PROVE  Staged' = Staged
BY DEF Staged, InHandler, InQueue, InLaunch

\* What the handlers of a new task do to the places of tasks.
LEMMA HandlerKind ==
  ASSUME Types, StageInv,
         \/ \E pid \in Pids : TaskReceived(pid) \/ TaskHandler(pid)
         \/ TaskExits
  PROVE  StepKind
<1> USE DEF listVars, codeVars, histVars, Noted
<1>1. ASSUME NEW pid \in Pids, TaskReceived(pid)
      PROVE  StepKind
  <2>1. /\ UNCHANGED <<queue, sig, procs, up, reports, old, gaveUp>> /\ up
        /\ accepted' = accepted \cup {pid}
    BY <1>1 DEF TaskReceived
  <2>2. /\ InQueue' = InQueue /\ InLaunch' = InLaunch
        /\ IsOnList' = IsOnList
    BY <2>1 DEF InQueue, InLaunch, IsOnList, IsListed
  <2>3. InHandler' = InHandler \cup {pid}
    BY <1>1 DEF TaskReceived, InHandler, Types, OtherTypes
  <2>4. CASE pid \notin accepted /\ restart' = restart
    <3>1. Staged' = Staged \cup {pid}
      BY <2>2, <2>3, <2>4 DEF Staged
    <3>2. Accepts(pid)
      BY <2>1, <2>2, <2>4, <3>1 DEF Accepts
    <3> QED
      BY <3>2 DEF StepKind
  <2>5. CASE pid \in restart /\ restart' = restart \ {pid}
    <3>1. Staged' = Staged
      BY <2>2, <2>3, <2>5 DEF Staged
    <3>2. accepted' = accepted
      BY <2>1, <2>5 DEF StageInv, Received, Staged
    <3> QED
      BY <2>1, <2>2, <3>1, <3>2 DEF StepKind, Quiet
  <2> QED
    BY <1>1, <2>4, <2>5 DEF TaskReceived
<1>2. ASSUME NEW pid \in Pids, TaskHandlerQueue(pid) \/ GetCodeDone(pid)
      PROVE  StepKind
  <2>1. /\ pid \in InHandler /\ InHandler' = InHandler \ {pid}
        /\ queue' = Append(queue, pid)
        /\ UNCHANGED <<restart, sig, procs, up, reports, accepted, old, gaveUp>>
    BY <1>2 DEF TaskHandlerQueue, GetCodeDone, Fetching, InHandler, Types, OtherTypes
  <2>2. InQueue' = InQueue \cup {pid}
    BY <2>1, QueueAppend DEF StageInv, OneStage
  <2>3. InLaunch' = InLaunch /\ IsOnList' = IsOnList
    BY <2>1 DEF InLaunch, IsOnList, IsListed
  <2>4. Staged' = Staged
    BY <2>1, <2>2, <2>3 DEF Staged
  <2> QED
    BY <2>1, <2>3, <2>4 DEF StepKind, Quiet
<1>3. ASSUME NEW pid \in Pids, TaskHandlerFetch(pid) \/ GetCodeOpen(pid) \/ GetCodePart(pid)
      PROVE  StepKind
  <2>1. /\ InHandler' = InHandler
        /\ UNCHANGED <<restart, sig, procs, queue, up, reports, accepted, old, gaveUp>>
    BY <1>3 DEF TaskHandlerFetch, GetCodeOpen, GetCodePart, InHandler, Types, OtherTypes
  <2>2. InQueue' = InQueue /\ InLaunch' = InLaunch /\ IsOnList' = IsOnList
    BY <2>1 DEF InQueue, InLaunch, IsOnList, IsListed
  <2>3. Staged' = Staged
    BY <2>1, <2>2 DEF Staged
  <2> QED
    BY <2>1, <2>2, <2>3 DEF StepKind, Quiet
<1>4. ASSUME NEW pid \in Pids, GetCodeFails(pid)
      PROVE  StepKind
  <2>1. /\ UNCHANGED <<restart, sig, procs, queue, up, accepted, old, gaveUp>>
        /\ up /\ Fetching(pid) /\ Report(pid)
    BY <1>4 DEF GetCodeFails
  <2>2. pid \in InHandler /\ InHandler' = InHandler \ {pid}
    BY <1>4 DEF GetCodeFails, Unlink, Fetching, InHandler, Types, OtherTypes
  <2>3. InQueue' = InQueue /\ InLaunch' = InLaunch /\ IsOnList' = IsOnList
    BY <2>1 DEF InQueue, InLaunch, IsOnList, IsListed
  <2>4. Staged' = Staged \ {pid} /\ pid \in Staged
    BY <2>1, <2>2, <2>3 DEF Staged, StageInv, OneStage
  <2>5. FetchFails(pid)
    BY <2>1, <2>3, <2>4 DEF FetchFails
  <2> QED
    BY <2>5 DEF StepKind
<1>5. CASE TaskExits
  <2>1. UNCHANGED <<thr, queue, restart, sig, procs, up, reports, accepted, old, gaveUp>>
    BY <1>5 DEF TaskExits
  <2>2. Staged' = Staged /\ IsOnList' = IsOnList
    BY <2>1, StagedSame DEF IsOnList, IsListed
  <2> QED
    BY <2>1, <2>2 DEF StepKind, Quiet
<1> QED
  BY <1>1, <1>2, <1>3, <1>4, <1>5 DEF TaskHandler

\* What kills, resets, shutdown and the heartbeat monitor do to them.
LEMMA ListKind ==
  ASSUME Types, StageInv,
         \/ \E pid \in Pids, level \in {0, 1} : KillHandler(pid, level)
         \/ DoReset \/ Shutdown
         \/ \E i \in DOMAIN procs : HeartbeatHandler(i) \/ HeartbeatTimeout(i)
         \/ TaskHeartbeatMonitor
  PROVE  StepKind
<1> USE DEF listVars, codeVars, histVars, Noted
<1>1. /\ UNCHANGED <<thr, queue, restart, sig, accepted>> /\ up
  BY DEF KillHandler, DoReset, Shutdown, HeartbeatHandler, HeartbeatTimeout,
         TaskHeartbeatMonitor, MonitorBegin, MonitorOk, MonitorKill, MonitorEnd,
         MonUnchanged
<1>2. Staged' = Staged
  BY <1>1, StagedSame
<1>3. ASSUME NEW pid \in Pids, NEW os \in Nat, <<pid, os>> \in Tasks(procs), os # 0
      PROVE  pid \notin Staged
  BY <1>3 DEF StageInv, StagedNoProcess
<1>4. ASSUME NEW S, KillAll(S)
      PROVE  IF 0 \in S THEN up' = FALSE ELSE up' = up
  BY <1>4 DEF KillAll
<1>5. ASSUME UNCHANGED <<up, reports, old, gaveUp>>, Tasks(procs)' = Tasks(procs)
      PROVE  StepKind
  BY <1>1, <1>2, <1>5, ListedSame DEF StepKind, Quiet
<1>6. ASSUME up' = FALSE, UNCHANGED reports, Tasks(procs)' \subseteq Tasks(procs)
      PROVE  StepKind
  <2>1. IsOnList' \subseteq IsOnList
    BY <1>6 DEF IsOnList, IsListed
  <2> QED
    BY <1>1, <1>2, <1>6, <2>1 DEF StepKind, Stops
<1>7. ASSUME NEW pid \in Pids, NEW level \in {0, 1}, KillHandler(pid, level)
      PROVE  StepKind
  <2>1. PICK os \in Nat :
          /\ <<pid, os>> \in Tasks(procs) /\ KillAll({os})
          /\ \/ /\ up' /\ Report(pid)
                /\ Tasks(procs)' = Tasks(procs) \ {<<pid, os>>}
             \/ UNCHANGED reports /\ Tasks(procs)' = Tasks(procs)
    BY <1>7, KillEffect DEF Types
  <2>2. UNCHANGED <<old, gaveUp>>
    BY <1>7 DEF KillHandler
  <2>3. CASE UNCHANGED reports /\ Tasks(procs)' = Tasks(procs)
    <3>1. CASE os = 0
      <4>1. up' = FALSE
        BY <2>1, <3>1 DEF KillAll
      <4> QED
        BY <1>6, <2>3, <4>1
    <3>2. CASE os # 0
      <4>1. up' = up
        BY <2>1, <3>2 DEF KillAll
      <4> QED
        BY <1>5, <2>2, <2>3, <4>1
    <3> QED
      BY <3>1, <3>2
  <2>4. CASE /\ up' /\ Report(pid)
             /\ Tasks(procs)' = Tasks(procs) \ {<<pid, os>>}
    <3>1. os # 0 /\ up' = up
      BY <1>4, <2>1, <2>4
    <3>2. pid \in IsOnList /\ IsOnList' = IsOnList \ {pid}
      BY <2>1, <2>4, ListedLess DEF Types
    <3>3. pid \notin Staged
      BY <1>3, <2>1, <3>1
    <3>4. Finishes(pid)
      BY <1>1, <1>2, <2>2, <2>4, <3>1, <3>2, <3>3 DEF Finishes
    <3> QED
      BY <3>4 DEF StepKind
  <2> QED
    BY <2>1, <2>3, <2>4
<1>8. CASE DoReset
  <2> DEFINE S == {t[2] : t \in Tasks(procs)}
  <2>1. Tasks(procs)' = {} /\ KillAll(S)
    BY <1>8, ResetEffect DEF Types
  <2>2. UNCHANGED <<reports, gaveUp>> /\ old' = accepted
    BY <1>8 DEF DoReset
  <2>3. CASE 0 \in S
    <3>1. up' = FALSE
      BY <1>4, <2>1, <2>3
    <3> QED
      BY <1>6, <2>1, <2>2, <3>1
  <2>4. CASE 0 \notin S
    <3>1. up' = up
      BY <1>4, <2>1, <2>4
    <3>2. Staged \cap IsOnList = {}
      <4> SUFFICES ASSUME NEW pid \in Staged, pid \in IsOnList PROVE FALSE
        OBVIOUS
      <4>1. <<pid, 0>> \in Tasks(procs)
        BY DEF StageInv, StagedNoProcess, IsOnList, IsListed
      <4> QED
        BY <2>4, <4>1
    <3>3. IsOnList' = {}
      BY <2>1 DEF IsOnList, IsListed
    <3> QED
      BY <1>1, <1>2, <2>2, <3>1, <3>2, <3>3 DEF StepKind, Resets
  <2> QED
    BY <2>3, <2>4
<1>9. CASE Shutdown
  <2>1. up' = FALSE /\ UNCHANGED <<reports, procs>>
    BY <1>9 DEF Shutdown
  <2>2. Tasks(procs)' = Tasks(procs)
    BY <2>1
  <2> QED
    BY <1>6, <2>1, <2>2
<1>10. CASE \E i \in DOMAIN procs : HeartbeatHandler(i) \/ HeartbeatTimeout(i)
  <2>1. Tasks(procs)' = Tasks(procs)
    BY <1>10, QuietEffect DEF Types
  <2>2. UNCHANGED <<up, reports, old, gaveUp>>
    BY <1>10 DEF HeartbeatHandler, HeartbeatTimeout
  <2> QED
    BY <1>5, <2>1, <2>2
<1>11. CASE MonitorBegin \/ MonitorEnd \/ MonitorOk
  <2>1. Tasks(procs)' = Tasks(procs)
    <3>1. CASE MonitorOk
      BY <3>1, QuietEffect DEF Types
    <3>2. CASE procs' = procs
      BY <3>2
    <3> QED
      BY <1>11, <3>1, <3>2 DEF MonitorBegin, MonitorEnd
  <2>2. UNCHANGED <<up, reports, old, gaveUp>>
    BY <1>11 DEF MonitorBegin, MonitorEnd, MonitorOk, MonUnchanged
  <2> QED
    BY <1>5, <2>1, <2>2
<1>12. CASE MonitorKill
  <2>1. PICK pid \in Pids, os \in Nat :
          /\ <<pid, os>> \in Tasks(procs) /\ KillAll({os})
          /\ \/ /\ Tasks(procs)' = Tasks(procs) \ {<<pid, os>>}
                /\ gaveUp' = gaveUp \cup {pid}
             \/ /\ Tasks(procs)' = Tasks(procs)
                /\ UNCHANGED gaveUp
    BY <1>12, MonitorKillEffect
  <2>2. UNCHANGED <<reports, old>>
    BY <1>12 DEF MonitorKill, MonUnchanged
  <2>3. CASE os = 0
    <3>1. up' = FALSE
      BY <2>1, <2>3 DEF KillAll
    <3>2. Tasks(procs)' \subseteq Tasks(procs)
      BY <2>1
    <3> QED
      BY <1>6, <2>2, <3>1, <3>2
  <2>4. CASE os # 0 /\ Tasks(procs)' = Tasks(procs) /\ UNCHANGED gaveUp
    <3>1. up' = up
      BY <2>1, <2>4 DEF KillAll
    <3> QED
      BY <1>5, <2>2, <2>4, <3>1
  <2>5. CASE /\ os # 0 /\ Tasks(procs)' = Tasks(procs) \ {<<pid, os>>}
             /\ gaveUp' = gaveUp \cup {pid}
    <3>1. up' = up /\ pid \notin Staged
      BY <1>3, <1>4, <2>1, <2>5
    <3>2. pid \in IsOnList /\ IsOnList' = IsOnList \ {pid}
      BY <2>1, <2>5, ListedLess DEF Types
    <3>3. GivesUp(pid)
      BY <1>1, <1>2, <2>2, <2>5, <3>1, <3>2 DEF GivesUp
    <3> QED
      BY <3>3 DEF StepKind
  <2> QED
    BY <2>1, <2>3, <2>4, <2>5
<1> QED
  BY <1>7, <1>8, <1>9, <1>10, <1>11, <1>12 DEF TaskHeartbeatMonitor

\* What the handler of ended children does to them.
LEMMA SigKind ==
  ASSUME Types, StageInv, SigHandler
  PROVE  StepKind
<1> USE DEF listVars, codeVars, histVars, SigStep, Noted
<1>1. UNCHANGED <<thr, accepted, up, old>> /\ up
  BY DEF SigHandler, SigPop, LaunchNoFile, LaunchAdd, LaunchFork, LaunchForkFails,
         UpdateOsPid, WaitPid, ChildEnded
<1>2. InHandler' = InHandler
  BY <1>1 DEF InHandler
<1>3. ASSUME queue' = queue
      PROVE  InQueue' = InQueue
  BY <1>3 DEF InQueue
<1>4. CASE SigPop
  <2>1. UNCHANGED <<procs, restart, reports, gaveUp>> /\ sig.pc = "idle"
    BY <1>4 DEF SigPop
  <2>2. InLaunch = {} /\ IsOnList' = IsOnList
    BY <2>1 DEF InLaunch, IsOnList, IsListed
  <2>3. InQueue' \cup InLaunch' = InQueue
    <3>1. CASE queue = << >>
      <4>1. queue' = queue /\ sig'.pc = "wait"
        BY <1>4, <3>1 DEF SigPop, IdleSig
      <4> QED
        BY <1>3, <4>1, NoLaunch
    <3>2. CASE queue # << >>
      <4>1. queue' = Tail(queue) /\ sig'.pc = "launch" /\ sig'.pid = Head(queue)
        BY <1>4, <3>2 DEF SigPop, IdleSig
      <4>2. Head(queue) \in InQueue /\ InQueue' = InQueue \ {Head(queue)}
        BY <3>2, <4>1, QueuePop DEF StageInv
      <4>3. Head(queue) \in Pids
        BY <3>2 DEF Types, OtherTypes
      <4>4. InLaunch' = {Head(queue)}
        BY <4>1, <4>3 DEF InLaunch
      <4> QED
        BY <4>2, <4>4
    <3> QED
      BY <3>1, <3>2
  <2>4. Staged' = Staged
    BY <1>2, <2>1, <2>2, <2>3 DEF Staged
  <2> QED
    BY <1>1, <2>1, <2>2, <2>4 DEF StepKind, Quiet
<1>5. CASE WaitPid
  <2>1. UNCHANGED <<procs, restart, queue, reports, gaveUp>> /\ sig.pc = "wait"
    BY <1>5 DEF WaitPid
  <2>2. sig'.pc \in {"idle", "reaped"}
    BY <1>5, WaitEffect
  <2>3. InQueue' = InQueue /\ InLaunch = {} /\ InLaunch' = {} /\ IsOnList' = IsOnList
    BY <1>3, <2>1, <2>2 DEF InLaunch, IsOnList, IsListed
  <2>4. Staged' = Staged
    BY <1>2, <2>1, <2>3 DEF Staged
  <2> QED
    BY <1>1, <2>1, <2>3, <2>4 DEF StepKind, Quiet
<1>6. CASE LaunchNoFile
  <2>1. /\ UNCHANGED <<procs, restart, queue, reports>> /\ sig'.pc = "wait"
        /\ gaveUp' = gaveUp \cup {sig.pid} /\ ~IsFileAvailable(sig.pid)
        /\ sig.pc = "launch" /\ sig.pid \in Pids
    BY <1>6 DEF LaunchNoFile, IdleSig, Types, SigType
  <2>2. /\ InQueue' = InQueue /\ InLaunch = {sig.pid} /\ InLaunch' = {}
        /\ IsOnList' = IsOnList
    BY <1>3, <2>1 DEF InLaunch, IsOnList, IsListed
  <2>3. Staged' = Staged \ {sig.pid}
    BY <1>2, <2>1, <2>2 DEF Staged, StageInv, OneStage
  <2>4. NoFile(sig.pid)
    BY <1>1, <2>1, <2>2, <2>3 DEF NoFile
  <2> QED
    BY <2>1, <2>4 DEF StepKind
<1>7. CASE LaunchAdd
  <2>1. /\ UNCHANGED <<restart, queue, reports, gaveUp>> /\ sig.pc = "launch"
        /\ sig'.pc = "fork" /\ sig'.pid = sig.pid /\ sig.pid \in Pids
    BY <1>7 DEF LaunchAdd, Types, SigType
  <2>2. InQueue' = InQueue /\ InLaunch' = InLaunch /\ sig.pid \in InLaunch
    BY <1>3, <2>1 DEF InLaunch
  <2>3. Staged' = Staged
    BY <1>2, <2>1, <2>2 DEF Staged
  <2>4. IsOnList' = IsOnList \cup {sig.pid}
    <3>1. CASE Tasks(procs)' = Tasks(procs) \cup {<<sig.pid, 0>>}
      BY <2>1, <3>1 DEF IsOnList, IsListed
    <3>2. ASSUME NEW os \in Nat, <<sig.pid, os>> \in Tasks(procs),
                 Tasks(procs)' = (Tasks(procs) \ {<<sig.pid, os>>}) \cup {<<sig.pid, 0>>}
          PROVE  IsOnList' = IsOnList \cup {sig.pid}
      <4>1. sig.pid \in IsOnList /\ IsOnList' = IsOnList
        BY <2>1, <3>2, ListedChanged
      <4> QED
        BY <4>1
    <3> QED
      BY <1>7, <3>1, <3>2, LaunchEffect
  <2>5. Lists(sig.pid)
    BY <1>1, <2>1, <2>2, <2>3, <2>4 DEF Lists
  <2> QED
    BY <2>1, <2>5 DEF StepKind
<1>8. CASE LaunchFork
  <2>1. /\ UNCHANGED <<procs, restart, queue, reports, gaveUp>> /\ sig.pc = "fork"
        /\ sig'.pc = "update" /\ sig'.pid = sig.pid
    BY <1>8 DEF LaunchFork, Types, SigType
  <2>2. InQueue' = InQueue /\ InLaunch' = InLaunch /\ IsOnList' = IsOnList
    BY <1>3, <2>1 DEF InLaunch, IsOnList, IsListed
  <2>3. Staged' = Staged
    BY <1>2, <2>1, <2>2 DEF Staged
  <2> QED
    BY <1>1, <2>1, <2>2, <2>3 DEF StepKind, Quiet
<1>9. CASE LaunchForkFails
  <2>1. /\ UNCHANGED <<restart, queue, reports, gaveUp>> /\ sig'.pc = "wait"
        /\ Use("forkFails")
    BY <1>9 DEF LaunchForkFails, IdleSig
  <2>2. InQueue' = InQueue /\ InLaunch' = {}
    BY <1>3, <2>1, NoLaunch
  <2>3. Staged' \subseteq Staged
    BY <1>2, <2>1, <2>2 DEF Staged
  <2>4. Tasks(procs)' \subseteq Tasks(procs)
    BY <1>9, ForkFailsEffect
  <2>5. IsOnList' \subseteq IsOnList
    BY <2>4 DEF IsOnList, IsListed
  <2>6. used'.forkFails # 0
    BY <2>1, UseFacts DEF Types, OtherTypes
  <2> QED
    BY <1>1, <2>1, <2>3, <2>5, <2>6 DEF StepKind, ForkFailed
<1>10. CASE UpdateOsPid
  <2>1. /\ UNCHANGED <<restart, queue, reports, gaveUp>> /\ sig'.pc = "wait"
        /\ sig.pc = "update" /\ sig.pid \in Pids /\ sig.os \in Nat
    BY <1>10 DEF UpdateOsPid, IdleSig, Types, SigType
  <2>2. InQueue' = InQueue /\ InLaunch' = {} /\ InLaunch = {sig.pid}
    BY <1>3, <2>1, NoLaunch DEF InLaunch
  <2>3. Staged' = Staged \ {sig.pid}
    BY <1>2, <2>1, <2>2 DEF StageInv, OneStage, Staged
  <2>4. sig.pid \in IsOnList
    BY <1>1, <2>1 DEF StageInv, ForkListed
  <2>5. PICK os \in Nat : /\ <<sig.pid, os>> \in Tasks(procs)
                          /\ Tasks(procs)' = (Tasks(procs) \ {<<sig.pid, os>>})
                                               \cup {<<sig.pid, sig.os>>}
    BY <1>10, <2>4, UpdateEffect DEF IsOnList
  <2>6. IsOnList' = IsOnList
    BY <2>1, <2>5, ListedChanged
  <2>7. Launched(sig.pid)
    BY <1>1, <2>1, <2>3, <2>4, <2>6 DEF Launched
  <2> QED
    BY <2>1, <2>7 DEF StepKind
<1>11. CASE ChildEnded
  <2>1. /\ queue' = queue /\ gaveUp' = gaveUp /\ sig'.pc = "idle" /\ sig.pc = "reaped"
        /\ sig.os \in Nat \ {0}
    BY <1>11 DEF ChildEnded, IdleSig, Types, SigType, OtherTypes
  <2>2. InQueue' = InQueue /\ InLaunch' = {} /\ InLaunch = {}
    BY <1>3, <2>1, NoLaunch DEF InLaunch
  <2>3. CASE Tasks(procs)' = Tasks(procs) /\ UNCHANGED <<restart, reports>>
    <3>1. Staged' = Staged
      BY <1>2, <2>2, <2>3 DEF Staged
    <3> QED
      BY <1>1, <2>1, <2>3, <3>1, ListedSame DEF StepKind, Quiet
  <2>4. ASSUME NEW pid \in Pids, <<pid, sig.os>> \in Tasks(procs),
               Tasks(procs)' = (Tasks(procs) \ {<<pid, sig.os>>}) \cup {<<pid, 0>>},
               restart' = restart \cup {pid}, UNCHANGED reports
        PROVE  StepKind
    <3>1. pid \in IsOnList /\ IsOnList' = IsOnList
      BY <2>1, <2>4, ListedChanged
    <3>2. Staged' = Staged \cup {pid}
      BY <1>2, <2>2, <2>4 DEF Staged
    <3>3. Restarts(pid)
      BY <1>1, <2>1, <2>4, <3>1, <3>2 DEF Restarts
    <3> QED
      BY <3>3 DEF StepKind
  <2>5. ASSUME NEW pid \in Pids, <<pid, sig.os>> \in Tasks(procs),
               Tasks(procs)' = Tasks(procs) \ {<<pid, sig.os>>}, Report(pid),
               UNCHANGED restart
        PROVE  StepKind
    <3>1. pid \in IsOnList /\ IsOnList' = IsOnList \ {pid}
      BY <2>1, <2>5, ListedLess DEF Types
    <3>2. pid \notin Staged
      BY <2>1, <2>5 DEF StageInv, StagedNoProcess
    <3>3. Staged' = Staged
      BY <1>2, <2>2, <2>5 DEF Staged
    <3>4. Finishes(pid)
      BY <1>1, <2>1, <2>5, <3>1, <3>2, <3>3 DEF Finishes
    <3> QED
      BY <3>4 DEF StepKind
  <2> QED
    BY <1>11, <2>3, <2>4, <2>5, ChildEndedEffect
<1> QED
  BY <1>4, <1>5, <1>6, <1>7, <1>8, <1>9, <1>10, <1>11 DEF SigHandler

\* Every step is of one of these kinds.
LEMMA StepKinds == ListInv /\ [Next]_vars => StepKind
<1> SUFFICES ASSUME ListInv, [Next]_vars PROVE StepKind
  OBVIOUS
<1> USE DEF ListInv
<1>1. CASE UNCHANGED vars
  <2>1. UNCHANGED <<thr, queue, restart, sig, procs, up, reports, accepted, old, gaveUp>>
    BY <1>1 DEF vars, listVars, codeVars, histVars
  <2>2. Staged' = Staged /\ IsOnList' = IsOnList
    BY <2>1, StagedSame DEF IsOnList, IsListed
  <2> QED
    BY <2>1, <2>2 DEF StepKind, Quiet, Noted
<1>2. CASE Next
  BY <1>2, HandlerKind, ListKind, SigKind DEF Next
<1> QED
  BY <1>1, <1>2

\* A failed fork is never forgotten.
LEMMA ForkFailsStay ==
  ASSUME Types, [Next]_vars, used.forkFails # 0
  PROVE  used'.forkFails # 0
<1>1. \/ UNCHANGED used
      \/ Use("silent") \/ Use("kills") \/ Use("resets") \/ Use("forkFails")
  BY DEF Next, vars, TaskReceived, TaskHandler, TaskHandlerQueue, TaskHandlerFetch,
         GetCodeOpen, GetCodePart, GetCodeDone, GetCodeFails, KillHandler, DoReset,
         Shutdown, HeartbeatHandler, HeartbeatTimeout, TaskHeartbeatMonitor,
         MonitorBegin, MonitorOk, MonitorKill, MonitorEnd, MonUnchanged, TaskExits,
         SigHandler, SigPop, LaunchNoFile, LaunchAdd, LaunchFork, LaunchForkFails,
         UpdateOsPid, WaitPid, ChildEnded
<1> QED
  BY <1>1, UseFacts DEF Types, OtherTypes

\* InProgress, as the places a task is in.
LEMMA ProgressPlaces ==
  ASSUME ListInv, NEW pid \in Pids
  PROVE  /\ InProgress(pid) <=> pid \in Staged \cup IsOnList
         /\ pid \in ListedPids <=> pid \in IsOnList
<1>1. pid \in ListedPids <=> pid \in IsOnList
  <2>1. ASSUME NEW i \in DOMAIN procs, procs[i].pid = pid
        PROVE  pid \in IsOnList
    BY <2>1, TaskOf DEF ListInv, Types, ListType, PMProcess, IsOnList, IsListed
  <2>2. ASSUME NEW os \in Nat, <<pid, os>> \in Tasks(procs)
        PROVE  pid \in ListedPids
    BY <2>2 DEF Tasks, Members, ListedPids
  <2> QED
    BY <2>1, <2>2 DEF ListedPids, IsOnList, IsListed
<1>2. thr[pid] # "none" <=> pid \in InHandler
  BY DEF InHandler
<1>3. (\E i \in DOMAIN queue : queue[i] = pid) <=> pid \in InQueue
  BY DEF InQueue
<1>4. (sig.pc \in {"launch", "fork", "update"} /\ sig.pid = pid) <=> pid \in InLaunch
  BY DEF InLaunch
<1> QED
  BY <1>1, <1>2, <1>3, <1>4 DEF InProgress, Staged

-----------------------------------------------------------------------------
(* No task is lost.                                                        *)

Reported == {pid \in Pids : reports[pid] > 0}

AccountedFor == Staged \cup IsOnList \cup Reported \cup old \cup gaveUp

LostInv == up /\ used.forkFails = 0 => accepted \subseteq AccountedFor

\* A report concerns one task.
LEMMA ReportFacts ==
  ASSUME Types, NEW pid \in Pids, Report(pid)
  PROVE  /\ Reported' = Reported \cup {pid}
         /\ reports'[pid] = reports[pid] + 1
         /\ \A q \in Pids \ {pid} : reports'[q] = reports[q]
<1>1. /\ reports \in [Pids -> Nat]
      /\ reports' = [reports EXCEPT ![pid] = @ + 1]
  BY DEF Types, OtherTypes, Report
<1> QED
  BY <1>1 DEF Reported

\* A task the PM accepted is on its way, is in the list of running tasks, or
\* was reported finished, unless a reset ended it, the PM gave it up or a fork
\* failed (TaskHandler, LaunchTask, SigChldHandler, KillHandler).
THEOREM PmNoTaskLost == Spec => []NoTaskLost
<1>1. Init => LostInv
  BY DEF Init, LostInv
<1>2. ListInv /\ LostInv /\ [Next]_vars => LostInv'
  <2> SUFFICES ASSUME ListInv, LostInv, [Next]_vars, up', used'.forkFails = 0
               PROVE  accepted' \subseteq AccountedFor'
    BY DEF LostInv
  <2> USE DEF AccountedFor, Noted
  <2>1. used.forkFails = 0 /\ Types /\ StepKind
    BY ForkFailsStay, StepKinds DEF ListInv
  <2>2. up => accepted \subseteq AccountedFor
    BY <2>1 DEF LostInv
  <2>3. UNCHANGED reports => Reported' = Reported
    BY DEF Reported
  <2>4. CASE Quiet
    BY <2>2, <2>3, <2>4 DEF Quiet
  <2>5. CASE Resets
    BY <2>5 DEF Resets
  <2>6. CASE ForkFailed \/ Stops
    BY <2>6 DEF ForkFailed, Stops
  <2>7. ASSUME NEW pid \in Pids,
               Accepts(pid) \/ Lists(pid) \/ Launched(pid) \/ Restarts(pid)
        PROVE  accepted' \subseteq AccountedFor'
    BY <2>2, <2>3, <2>7 DEF Accepts, Lists, Launched, Restarts
  <2>8. ASSUME NEW pid \in Pids, FetchFails(pid) \/ Finishes(pid)
        PROVE  accepted' \subseteq AccountedFor'
    <3>1. Reported' = Reported \cup {pid}
      BY <2>1, <2>8, ReportFacts DEF FetchFails, Finishes
    <3> QED
      BY <2>2, <2>8, <3>1 DEF FetchFails, Finishes
  <2>9. ASSUME NEW pid \in Pids, NoFile(pid) \/ GivesUp(pid)
        PROVE  accepted' \subseteq AccountedFor'
    BY <2>2, <2>3, <2>9 DEF NoFile, GivesUp
  <2> QED
    BY <2>1, <2>4, <2>5, <2>6, <2>7, <2>8, <2>9 DEF StepKind
<1>3. ListInv /\ LostInv => NoTaskLost
  <2> SUFFICES ASSUME ListInv, LostInv, up, used.forkFails = 0,
                      NEW pid \in accepted \ (old \cup gaveUp)
               PROVE  InProgress(pid) \/ reports[pid] > 0
    BY DEF NoTaskLost
  <2>1. pid \in Pids
    BY DEF ListInv, Types, OtherTypes
  <2>2. pid \in Staged \cup IsOnList \cup Reported
    BY DEF LostInv, AccountedFor
  <2> QED
    BY <2>1, <2>2, ProgressPlaces DEF Reported
<1> QED
  BY <1>1, <1>2, <1>3, ListInvariant, PTL DEF Spec

-----------------------------------------------------------------------------
(* Tasks with executables of their own.                                    *)

OwnExecutables == \A p, q \in Pids : NameOf[p] = NameOf[q] => p = q

\* Code is only fetched for a task that is not listed, by its own thread.
FetchUnlisted ==
  \A pid \in Pids : /\ thr[pid] # "unlinked"
                    /\ thr[pid] \in {"open", "fetch"} => pid \notin IsOnList

\* Past its TaskHandler thread, a task's executable is on disk.
FileThere == \A pid \in (Staged \ InHandler) \cup IsOnList : IsFileAvailable(pid)

FileInv == FetchUnlisted /\ FileThere

\* A reported task was received, reported once, and is over.
ReportInv ==
  \A pid \in Reported : /\ reports[pid] = 1 /\ pid \in accepted
                        /\ up => pid \notin Staged \cup IsOnList

\* The places of tasks hold pids.
LEMMA PlacesType ==
  ASSUME ListInv
  PROVE  Staged \subseteq Pids /\ IsOnList \subseteq Pids
BY DEF ListInv, Types, OtherTypes, Staged, InHandler, InQueue, InLaunch, IsOnList

\* All but the TaskHandler threads leave the files alone.
LEMMA OtherFiles ==
  ASSUME ListInv, FileInv, StepKind, UNCHANGED <<thr, file, accepted>>
  PROVE  FileInv'
<1>1. InHandler' = InHandler /\ InLaunch \subseteq Staged \ InHandler
  BY DEF InHandler, ListInv, StageInv, OneStage, Staged
<1>2. /\ Staged' \subseteq Staged \cup IsOnList
      /\ IsOnList' \subseteq IsOnList \cup InLaunch
  BY DEF StepKind, Quiet, Resets, ForkFailed, Stops, Accepts, Lists, Launched, Restarts,
         FetchFails, Finishes, NoFile, GivesUp
<1>3. (Staged' \ InHandler') \cup IsOnList' \subseteq (Staged \ InHandler) \cup IsOnList
  BY <1>1, <1>2
<1>4. FileThere'
  BY <1>3 DEF FileInv, FileThere, IsFileAvailable
<1>5. FetchUnlisted'
  <2> SUFFICES ASSUME NEW pid \in Pids
               PROVE  /\ thr[pid] # "unlinked"
                      /\ thr[pid] \in {"open", "fetch"} => pid \notin IsOnList'
    BY DEF FetchUnlisted
  <2>1. thr[pid] \in {"open", "fetch"} => pid \in InHandler
    BY DEF InHandler
  <2> QED
    BY <1>1, <1>2, <2>1 DEF FileInv, FetchUnlisted
<1> QED
  BY <1>4, <1>5 DEF FileInv

\* The file of one task changes.
LEMMA HandlerFiles ==
  ASSUME OwnExecutables, ListInv, FileInv, NEW pid \in Pids,
         TaskReceived(pid) \/ TaskHandler(pid)
  PROVE  FileInv'
<1> USE DEF listVars, codeVars, histVars
<1> DEFINE After == (Staged \ InHandler) \cup IsOnList
<1>0. /\ thr \in [Pids -> {"none", "start", "open", "fetch", "unlinked"}]
      /\ file \in [Names -> {"none", "part", "full"}]
      /\ queue \in Seq(Pids) /\ Types /\ StageInv /\ After \subseteq Pids
      /\ restart \cup InQueue \cup InLaunch \cup IsOnList = After
  BY PlacesType DEF ListInv, Types, OtherTypes, StageInv, OneStage, Staged
<1>1. /\ procs' = procs /\ sig' = sig /\ IsOnList' = IsOnList /\ InLaunch' = InLaunch
  <2>1. procs' = procs /\ sig' = sig
    BY DEF TaskReceived, TaskHandler, TaskHandlerQueue, TaskHandlerFetch, GetCodeOpen,
           GetCodePart, GetCodeDone, GetCodeFails
  <2> QED
    BY <2>1 DEF IsOnList, IsListed, InLaunch
<1>2. After' \subseteq restart' \cup InQueue' \cup InLaunch \cup IsOnList
  BY <1>1 DEF Staged
<1>3. pid \in InHandler => pid \notin restart \cup InQueue \cup InLaunch
  BY DEF ListInv, StageInv, OneStage
<1> HIDE DEF After
<1>4. \A q \in After : q \in Pids /\ file[NameOf[q]] # "none"
  BY <1>0 DEF After, FileInv, FileThere, IsFileAvailable
<1>5. ASSUME \A q \in After' : file'[NameOf[q]] # "none"
      PROVE  FileThere'
  BY <1>5 DEF After, FileThere, IsFileAvailable
<1>6. \A q \in Pids : NameOf[q] = NameOf[pid] => q = pid
  BY DEF OwnExecutables
<1>7. NameOf[pid] \in Names /\ \A q \in Pids : NameOf[q] \in Names
  BY NameOfAssumption
<1>8. CASE TaskReceived(pid)
  <2>1. /\ file' = file /\ queue' = queue /\ restart' \subseteq restart
        /\ thr' = [thr EXCEPT ![pid] = "start"]
    BY <1>8 DEF TaskReceived
  <2>2. After' \subseteq After
    BY <1>0, <1>2, <2>1 DEF InQueue
  <2>3. FileThere'
    BY <1>4, <1>5, <2>1, <2>2
  <2>4. FetchUnlisted'
    BY <1>0, <1>1, <2>1 DEF FileInv, FetchUnlisted
  <2> QED
    BY <2>3, <2>4 DEF FileInv
<1>9. CASE TaskHandlerQueue(pid)
  <2>1. /\ file' = file /\ queue' = Append(queue, pid) /\ restart' = restart
        /\ thr' = [thr EXCEPT ![pid] = "none"] /\ file[NameOf[pid]] # "none"
        /\ pid \in InHandler
    BY <1>9 DEF TaskHandlerQueue, IsFileAvailable, InHandler
  <2>2. InQueue' = InQueue \cup {pid}
    BY <1>0, <1>3, <2>1, QueueAppend DEF StageInv
  <2>3. After' \subseteq After \cup {pid}
    BY <1>0, <1>2, <2>1, <2>2
  <2>4. FileThere'
    BY <1>4, <1>5, <2>1, <2>3
  <2>5. FetchUnlisted'
    BY <1>0, <1>1, <2>1 DEF FileInv, FetchUnlisted
  <2> QED
    BY <2>4, <2>5 DEF FileInv
<1>10. CASE TaskHandlerFetch(pid)
  <2>1. /\ file' = file /\ queue' = queue /\ restart' = restart
        /\ thr' = [thr EXCEPT ![pid] = "open"] /\ file[NameOf[pid]] = "none"
    BY <1>10 DEF TaskHandlerFetch, IsFileAvailable
  <2>2. After' \subseteq After
    BY <1>0, <1>2, <2>1 DEF InQueue
  <2>3. FileThere'
    BY <1>4, <1>5, <2>1, <2>2
  <2>4. pid \notin IsOnList
    BY <1>0, <1>4, <2>1
  <2>5. FetchUnlisted'
    BY <1>0, <1>1, <2>1, <2>4 DEF FileInv, FetchUnlisted
  <2> QED
    BY <2>3, <2>5 DEF FileInv
<1>11. CASE GetCodeOpen(pid)
  <2>1. /\ file' = [file EXCEPT ![NameOf[pid]] = "none"] /\ queue' = queue
        /\ restart' = restart /\ thr' = [thr EXCEPT ![pid] = "fetch"]
        /\ pid \in InHandler /\ thr[pid] = "open"
    BY <1>11 DEF GetCodeOpen, InHandler
  <2>2. After' \subseteq After /\ pid \notin After
    BY <1>0, <1>2, <1>3, <2>1 DEF InQueue, FileInv, FetchUnlisted
  <2>3. FileThere'
    BY <1>0, <1>4, <1>5, <1>6, <1>7, <2>1, <2>2
  <2>4. FetchUnlisted'
    BY <1>0, <1>1, <2>1 DEF FileInv, FetchUnlisted
  <2> QED
    BY <2>3, <2>4 DEF FileInv
<1>12. CASE GetCodePart(pid)
  <2>1. /\ file' = [file EXCEPT ![NameOf[pid]] = "part"] /\ queue' = queue
        /\ restart' = restart /\ thr' = thr
    BY <1>12 DEF GetCodePart, Fetching, Write, FileInv, FetchUnlisted
  <2>2. After' \subseteq After
    BY <1>0, <1>2, <2>1 DEF InQueue
  <2>3. FileThere'
    BY <1>0, <1>4, <1>5, <1>7, <2>1, <2>2
  <2>4. FetchUnlisted'
    BY <1>1, <2>1 DEF FileInv, FetchUnlisted
  <2> QED
    BY <2>3, <2>4 DEF FileInv
<1>13. CASE GetCodeDone(pid)
  <2>1. /\ file' = [file EXCEPT ![NameOf[pid]] = "full"] /\ queue' = Append(queue, pid)
        /\ restart' = restart /\ thr' = [thr EXCEPT ![pid] = "none"] /\ pid \in InHandler
    BY <1>13 DEF GetCodeDone, Fetching, Write, FileInv, FetchUnlisted, InHandler
  <2>2. InQueue' = InQueue \cup {pid}
    BY <1>0, <1>3, <2>1, QueueAppend DEF StageInv
  <2>3. After' \subseteq After \cup {pid}
    BY <1>0, <1>2, <2>1, <2>2
  <2>4. FileThere'
    BY <1>0, <1>4, <1>5, <1>7, <2>1, <2>3
  <2>5. FetchUnlisted'
    BY <1>0, <1>1, <2>1 DEF FileInv, FetchUnlisted
  <2> QED
    BY <2>4, <2>5 DEF FileInv
<1>14. CASE GetCodeFails(pid)
  <2>1. /\ queue' = queue /\ restart' = restart /\ pid \in InHandler /\ pid \notin IsOnList
    BY <1>14 DEF GetCodeFails, Fetching, FileInv, FetchUnlisted, InHandler
  <2>2. After' \subseteq After /\ pid \notin After
    BY <1>0, <1>2, <1>3, <2>1 DEF InQueue
  <2>3. /\ file' = file \/ file' = [file EXCEPT ![NameOf[pid]] = "none"]
        /\ thr' = [thr EXCEPT ![pid] = "none"]
    BY <1>0, <1>6, <1>14 DEF GetCodeFails, Unlink
  <2>4. FileThere'
    BY <1>0, <1>4, <1>5, <1>6, <1>7, <2>2, <2>3
  <2>5. FetchUnlisted'
    BY <1>0, <1>1, <2>3 DEF FileInv, FetchUnlisted
  <2> QED
    BY <2>4, <2>5 DEF FileInv
<1> QED
  BY <1>8, <1>9, <1>10, <1>11, <1>12, <1>13, <1>14 DEF TaskHandler

\* No step takes the file of a task that is still to be started from it.
LEMMA FilesStep ==
  ASSUME OwnExecutables, ListInv, FileInv, [Next]_vars
  PROVE  FileInv'
<1>1. CASE \E pid \in Pids : TaskReceived(pid) \/ TaskHandler(pid)
  BY <1>1, HandlerFiles
<1>2. CASE UNCHANGED <<thr, file, accepted>>
  BY <1>2, StepKinds, OtherFiles
<1> QED
  BY <1>1, <1>2
     DEF Next, vars, codeVars, histVars, KillHandler, DoReset, Shutdown, HeartbeatHandler,
         HeartbeatTimeout, TaskHeartbeatMonitor, MonitorBegin, MonitorOk, MonitorKill,
         MonitorEnd, MonUnchanged, TaskExits, SigHandler, SigPop, LaunchNoFile, LaunchAdd,
         LaunchFork, LaunchForkFails, UpdateOsPid, WaitPid, ChildEnded, SigStep

\* No step reports a task twice: one reported is in no other place.
LEMMA ReportStep ==
  ASSUME ListInv, FileInv, ReportInv, [Next]_vars
  PROVE  ReportInv'
<1> USE DEF Noted
<1>1. StepKind /\ Types /\ Staged \cup IsOnList \subseteq accepted
  BY StepKinds DEF ListInv, StageInv, Received
<1>2. UNCHANGED reports => Reported' = Reported
  BY DEF Reported
<1>3. CASE Quiet \/ Resets \/ ForkFailed \/ Stops
  BY <1>2, <1>3 DEF Quiet, Resets, ForkFailed, Stops, ReportInv
<1>4. ASSUME NEW pid \in Pids, FetchFails(pid) \/ Finishes(pid)
      PROVE  ReportInv'
  <2>1. /\ Reported' = Reported \cup {pid}
        /\ reports'[pid] = reports[pid] + 1
        /\ \A q \in Pids \ {pid} : reports'[q] = reports[q]
    BY <1>1, <1>4, ReportFacts DEF FetchFails, Finishes
  <2>2. /\ pid \notin Reported /\ pid \in accepted /\ accepted' = accepted /\ up' = up
        /\ Staged' \cup IsOnList' \subseteq (Staged \cup IsOnList) \ {pid}
    <3>1. CASE FetchFails(pid)
      <4>1. pid \notin IsOnList
        BY <3>1 DEF FetchFails, Fetching, FileInv, FetchUnlisted
      <4> QED
        BY <1>1, <3>1, <4>1 DEF FetchFails, ReportInv
    <3>2. CASE Finishes(pid)
      BY <1>1, <3>2 DEF Finishes, ReportInv
    <3> QED
      BY <1>4, <3>1, <3>2
  <2>3. reports'[pid] = 1
    BY <1>1, <2>1, <2>2 DEF Reported, Types, OtherTypes
  <2>4. Reported \subseteq Pids
    BY DEF Reported
  <2> QED
    BY <2>1, <2>2, <2>3, <2>4 DEF ReportInv
<1>5. ASSUME NEW pid \in Pids,
             \/ Accepts(pid) \/ Lists(pid) \/ Launched(pid) \/ Restarts(pid)
             \/ NoFile(pid) \/ GivesUp(pid)
      PROVE  ReportInv'
  <2>1. /\ Reported' = Reported /\ reports' = reports /\ up' = up
        /\ accepted \subseteq accepted'
    BY <1>2, <1>5 DEF Accepts, Lists, Launched, Restarts, NoFile, GivesUp
  <2>2. \A q \in Staged' \cup IsOnList' : q \in Staged \cup IsOnList \/ q \notin accepted
    BY <1>5 DEF Accepts, Lists, Launched, Restarts, NoFile, GivesUp, Staged
  <2> QED
    BY <2>1, <2>2 DEF ReportInv
<1> QED
  BY <1>1, <1>3, <1>4, <1>5 DEF StepKind

\* What holds besides ListInv for tasks with executables of their own.
OwnInv == ListInv /\ FileInv /\ ReportInv

\* With executables of their own, tasks keep their files and are reported
\* once.
LEMMA OwnInvariant ==
  ASSUME OwnExecutables
  PROVE  Spec => []OwnInv
<1>1. Init => FileInv /\ ReportInv
  BY NameOfAssumption
     DEF Init, FileInv, FetchUnlisted, FileThere, ReportInv, Reported, Staged, InHandler,
         InQueue, InLaunch, IsOnList, IsListed, Tasks, Members, IdleSig
<1>2. ListInv /\ (FileInv /\ ReportInv) /\ [Next]_vars => (FileInv /\ ReportInv)'
  BY FilesStep, ReportStep
<1> QED
  BY <1>1, <1>2, ListInvariant, PTL DEF Spec, OwnInv

\* When no two tasks have one executable, the end of a task is reported to the
\* TM once, and only when it is over for good: GetCode, KillHandler and
\* SigChldHandler never both report it, and a task that was reported is neither
\* prepared, queued, launched nor listed again, whatever forks fail.
THEOREM PmReportedOnce ==
  ASSUME OwnExecutables
  PROVE  Spec => []ReportedOnce
<1>1. OwnInv => ReportedOnce
  <2> SUFFICES ASSUME OwnInv, NEW pid \in Pids, reports[pid] > 0
               PROVE  reports[pid] = 1 /\ ~(up /\ InProgress(pid))
    BY DEF ReportedOnce
  <2>1. pid \in Reported
    BY DEF Reported
  <2> QED
    BY <2>1, ProgressPlaces DEF OwnInv, ReportInv
<1> QED
  BY <1>1, OwnInvariant, PTL

-----------------------------------------------------------------------------
(* The Process Manager implements its contract.                            *)

\* The variables of PmContract, as Contract gives them and as the places a
\* task is in.
Waiting == IF up THEN {pid \in Pids : InProgress(pid) /\ pid \notin ListedPids} ELSE {}
Run == IF up THEN ListedPids ELSE {}

ContractPlaces ==
  /\ Waiting = (IF up THEN Staged \ IsOnList ELSE {})
  /\ Run = (IF up THEN IsOnList ELSE {})

\* The places of tasks in the contract are those of the PM's lists.
LEMMA ContractState == ListInv => ContractPlaces
<1> SUFFICES ASSUME ListInv PROVE ContractPlaces
  OBVIOUS
<1>1. Staged \subseteq Pids /\ IsOnList \subseteq Pids
  BY PlacesType
<1>2. ListedPids \subseteq Pids
  <2>1. \A i \in DOMAIN procs : procs[i] \in PMProcess
    BY DEF ListInv, Types, ListType
  <2>2. \A m \in PMProcess : m.pid \in Pids
    BY DEF PMProcess
  <2> QED
    BY <2>1, <2>2 DEF ListedPids
<1>3. \A pid \in Pids : /\ InProgress(pid) <=> pid \in Staged \cup IsOnList
                        /\ pid \in ListedPids <=> pid \in IsOnList
  BY ProgressPlaces
<1>4. ListedPids = IsOnList
  BY <1>1, <1>2, <1>3
<1>5. {pid \in Pids : InProgress(pid) /\ pid \notin ListedPids} = Staged \ IsOnList
  BY <1>1, <1>3
<1> QED
  BY <1>4, <1>5 DEF ContractPlaces, Waiting, Run

\* The same after the step.
LEMMA NextContractState == ListInv' => ContractPlaces'
BY ContractState, PTL

\* The steps of the contract, in those terms.
LEMMA ContractSteps ==
  /\ Contract!Init <=> up = TRUE /\ Waiting = {} /\ Run = {} /\ Reported = {}
  /\ \A pid : Contract!Accept(pid) <=>
       /\ up /\ pid \notin Waiting \cup Run \cup Reported
       /\ Waiting' = Waiting \cup {pid} /\ up' = up /\ Run' = Run /\ Reported' = Reported
  /\ \A pid : Contract!Start(pid) <=>
       /\ up /\ pid \in Waiting /\ Waiting' = Waiting \ {pid} /\ Run' = Run \cup {pid}
       /\ up' = up /\ Reported' = Reported
  /\ \A pid : Contract!Finish(pid) <=>
       /\ up /\ pid \in Waiting \cup Run
       /\ Waiting' = Waiting \ {pid} /\ Run' = Run \ {pid}
       /\ Reported' = Reported \cup {pid} /\ up' = up
  /\ \A pid : Contract!Lose(pid) <=>
       /\ up /\ pid \in Waiting \cup Run
       /\ Waiting' = Waiting \ {pid} /\ Run' = Run \ {pid}
       /\ up' = up /\ Reported' = Reported
  /\ Contract!Reset <=> /\ up /\ Run' = {} /\ up' = up /\ Waiting' = Waiting
                        /\ Reported' = Reported
  /\ Contract!Stop <=> /\ up /\ up' = FALSE /\ Waiting' = {} /\ Run' = {}
                       /\ Reported' = Reported
  /\ (UNCHANGED Contract!vars) <=> /\ up' = up /\ Waiting' = Waiting /\ Run' = Run
                                   /\ Reported' = Reported
BY DEF Contract!Init, Contract!Accept, Contract!Start, Contract!Finish, Contract!Lose,
       Contract!Reset, Contract!Stop, Contract!vars, Waiting, Run, Reported

\* Every step without a failing fork is one of the contract, or a stutter.
LEMMA ContractStep ==
  ASSUME OwnInv, ListInv', [Next]_vars, used'.forkFails = 0
  PROVE  [Contract!Next]_(Contract!vars)
<1> USE DEF Noted
<1>1. /\ StepKind /\ Types /\ Staged \cup IsOnList \subseteq accepted
      /\ FileInv /\ ReportInv /\ OneStage
  BY StepKinds DEF OwnInv, ListInv, StageInv, Received
<1>2. UNCHANGED reports => Reported' = Reported
  BY DEF Reported
<1>3. /\ Waiting = (IF up THEN Staged \ IsOnList ELSE {})
      /\ Run = (IF up THEN IsOnList ELSE {})
  BY ContractState DEF OwnInv, ContractPlaces
<1>4. /\ Waiting' = (IF up' THEN Staged' \ IsOnList' ELSE {})
      /\ Run' = (IF up' THEN IsOnList' ELSE {})
  BY NextContractState DEF ContractPlaces
<1>5. ASSUME up' = up, Reported' = Reported,
             Staged' \ IsOnList' = Staged \ IsOnList, IsOnList' = IsOnList
      PROVE  UNCHANGED Contract!vars
  BY <1>3, <1>4, <1>5, ContractSteps
<1>6. CASE Quiet
  BY <1>2, <1>5, <1>6 DEF Quiet
<1>7. CASE Resets
  <2>1. Contract!Reset
    BY <1>2, <1>3, <1>4, <1>7, ContractSteps DEF Resets
  <2> QED
    BY <2>1 DEF Contract!Next
<1>8. CASE ForkFailed
  BY <1>8 DEF ForkFailed
<1>9. CASE Stops
  <2>1. Contract!Stop
    BY <1>2, <1>3, <1>4, <1>9, ContractSteps DEF Stops
  <2> QED
    BY <2>1 DEF Contract!Next
<1>10. ASSUME NEW pid \in Pids, Accepts(pid)
       PROVE  Contract!Next
  <2>1. pid \notin Reported /\ pid \notin Staged \cup IsOnList
    BY <1>1, <1>10 DEF Accepts, ReportInv
  <2>2. Contract!Accept(pid)
    BY <1>2, <1>3, <1>4, <1>10, <2>1, ContractSteps DEF Accepts
  <2> QED
    BY <2>2 DEF Contract!Next
<1>11. ASSUME NEW pid \in Pids, Lists(pid)
       PROVE  Contract!Next \/ UNCHANGED Contract!vars
  <2>1. CASE pid \in IsOnList
    BY <1>2, <1>5, <1>11, <2>1 DEF Lists
  <2>2. CASE pid \notin IsOnList
    <3>1. pid \in Staged
      BY <1>11 DEF Lists, Staged
    <3>2. Contract!Start(pid)
      BY <1>2, <1>3, <1>4, <1>11, <2>2, <3>1, ContractSteps DEF Lists
    <3> QED
      BY <3>2 DEF Contract!Next
  <2> QED
    BY <2>1, <2>2
<1>12. ASSUME NEW pid \in Pids, Launched(pid) \/ Restarts(pid)
       PROVE  UNCHANGED Contract!vars
  BY <1>2, <1>5, <1>12 DEF Launched, Restarts
<1>13. ASSUME NEW pid \in Pids, FetchFails(pid)
       PROVE  Contract!Next
  <2>1. pid \notin IsOnList
    BY <1>1, <1>13 DEF FetchFails, Fetching, FileInv, FetchUnlisted
  <2>2. Reported' = Reported \cup {pid}
    BY <1>1, <1>13, ReportFacts DEF FetchFails
  <2>3. Contract!Finish(pid)
    BY <1>3, <1>4, <1>13, <2>1, <2>2, ContractSteps DEF FetchFails
  <2> QED
    BY <2>3 DEF Contract!Next
<1>14. ASSUME NEW pid \in Pids, Finishes(pid)
       PROVE  Contract!Next
  <2>1. Reported' = Reported \cup {pid}
    BY <1>1, <1>14, ReportFacts DEF Finishes
  <2>2. Contract!Finish(pid)
    BY <1>3, <1>4, <1>14, <2>1, ContractSteps DEF Finishes
  <2> QED
    BY <2>2 DEF Contract!Next
<1>15. ASSUME NEW pid \in Pids, NoFile(pid)
       PROVE  FALSE
  BY <1>1, <1>15 DEF NoFile, FileInv, FileThere, OneStage, Staged
<1>16. ASSUME NEW pid \in Pids, GivesUp(pid)
       PROVE  Contract!Next
  <2>1. Contract!Lose(pid)
    BY <1>2, <1>3, <1>4, <1>16, ContractSteps DEF GivesUp
  <2> QED
    BY <2>1 DEF Contract!Next
<1> QED
  BY <1>1, <1>6, <1>7, <1>8, <1>9, <1>10, <1>11, <1>12, <1>13, <1>14, <1>15, <1>16
     DEF StepKind

\* When no two tasks have one executable and until a fork fails, the PM keeps
\* the contract the TM relies on: the restarts of an unresponsive task through
\* the PM's own SDMTask message (SigChldHandler) are invisible outside, every
\* task is started, finished or lost at most once, and a reset or the PM's end
\* takes all running tasks with it.
THEOREM PmImplementsContract ==
  ASSUME OwnExecutables
  PROVE  Spec /\ [](used.forkFails = 0) => ImplementsContract
<1>1. Init => Contract!Init
  <2> SUFFICES ASSUME Init PROVE Contract!Init
    OBVIOUS
  <2>1. up = TRUE /\ Reported = {}
    BY DEF Init, Reported
  <2>2. Staged = {} /\ IsOnList = {}
    BY DEF Init, Staged, InHandler, InQueue, InLaunch, IsOnList, IsListed, Tasks, Members, IdleSig
  <2>3. ListInv
    BY TypesInit, StageInit DEF ListInv
  <2> QED
    BY <2>1, <2>2, <2>3, ContractState, ContractSteps DEF ContractPlaces
<1>2. OwnInv /\ OwnInv' /\ [Next]_vars /\ (used.forkFails = 0)'
        => [Contract!Next]_(Contract!vars)
  BY ContractStep DEF OwnInv
<1> QED
  BY <1>1, <1>2, OwnInvariant, PTL DEF Spec, ImplementsContract, Contract!Spec
=============================================================================
