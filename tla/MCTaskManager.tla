---------------------------- MODULE MCTaskManager ---------------------------
(***************************************************************************)
(* Instances of TaskManager for TLC.  Resources: architecture/OS 1, one    *)
(* memory size each; PM id 1 is p1.                                        *)
(***************************************************************************)
EXTENDS TaskManager, TLC

CONSTANTS p1, p2, t1, t2, c1, c2

MCPmRes == (p1 :> [archos |-> 1, mem |-> 2, pmid |-> 1])
             @@ (p2 :> [archos |-> 1, mem |-> 1, pmid |-> 2])
MCPmRes1 == p1 :> [archos |-> 1, mem |-> 2, pmid |-> 1]

Def(t, m, id, timeout, mode) ==
  [name |-> t, res |-> [archos |-> 1, mem |-> m, pmid |-> id],
   timeout |-> timeout, mode |-> mode]

\* A task any PM can run, and one that asks for PM 1 and that PM 2 is too
\* small for.
PlainPosts == {Def(t1, 1, 0, 0, MODE_NORMAL), Def(t2, 2, 1, 0, MODE_NORMAL)}
\* A task with a schedule timeout.
TimeoutPosts == {Def(t1, 1, 0, 1, MODE_NORMAL)}
DelayPosts == {Def(t1, 1, 0, 1, MODE_NORMAL), Def(t2, 1, 0, 0, MODE_NORMAL)}
OnePost == {Def(t1, 1, 0, 0, MODE_NORMAL)}

\* One of each mode.
MixedPosts == {Def(t1, 2, 0, 0, MODE_ALWAYS_RUNNING),
               Def(t2, 1, 0, 0, MODE_NORMAL)}

NoConfig == << >>
PlainConfig == <<Def(t1, 1, 0, 0, MODE_NORMAL)>>
\* No PM has id 3.
PreferConfig == <<Def(t1, 1, 0, 0, MODE_NORMAL), Def(t2, 1, 3, 0, MODE_NORMAL)>>

=============================================================================
