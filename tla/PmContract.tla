----------------------------- MODULE PmContract -----------------------------
(***************************************************************************)
(* What a Process Manager promises the Task Manager, and all that module   *)
(* TaskManager assumes of one: a task it accepted is started at most once  *)
(* from the TM's point of view, runs, and its end is reported at most      *)
(* once, never before; a reset ends every task that runs, unreported; a    *)
(* task may also be lost.  Module ProcessManager implements it.            *)
(***************************************************************************)
CONSTANTS Pids        \* the pids the TM gives out

VARIABLES
  up,        \* the PM process is alive
  waiting,   \* accepted tasks: code being fetched, or queued
  run,       \* the tasks in the list of running tasks
  done       \* the tasks reported finished

vars == <<up, waiting, run, done>>

Init == up = TRUE /\ waiting = {} /\ run = {} /\ done = {}

Accept(pid) ==
  /\ up /\ pid \notin waiting \cup run \cup done
  /\ waiting' = waiting \cup {pid}
  /\ UNCHANGED <<up, run, done>>

Start(pid) ==
  /\ up /\ pid \in waiting
  /\ waiting' = waiting \ {pid}
  /\ run' = run \cup {pid}
  /\ UNCHANGED <<up, done>>

Finish(pid) ==
  /\ up /\ pid \in waiting \cup run
  /\ waiting' = waiting \ {pid}
  /\ run' = run \ {pid}
  /\ done' = done \cup {pid}
  /\ UNCHANGED up

Lose(pid) ==
  /\ up /\ pid \in waiting \cup run
  /\ waiting' = waiting \ {pid}
  /\ run' = run \ {pid}
  /\ UNCHANGED <<up, done>>

Reset == up /\ run' = {} /\ UNCHANGED <<up, waiting, done>>

Stop == up /\ up' = FALSE /\ waiting' = {} /\ run' = {} /\ UNCHANGED done

Next ==
  \/ \E pid \in Pids : Accept(pid) \/ Start(pid) \/ Finish(pid) \/ Lose(pid)
  \/ Reset
  \/ Stop

Spec == Init /\ [][Next]_vars

=============================================================================
