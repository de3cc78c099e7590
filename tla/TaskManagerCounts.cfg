\* No PM fails, but one may lose a task; an always-running task, a kill request,
\* and a restart of the TM, to which the PMs report their tasks.
CONSTANTS
  p1 = p1
  p2 = p2
  t1 = t1
  t2 = t2
  c1 = c1
  c2 = c2
  NoPM = NoPM
  NoName = NoName
  PM = {p1, p2}
  Names = {t1, t2}
  Cmds = {}
  Modes = {0, 1, 2}
  NUMTASKS = 2
  MAX_PM = 2
  MAX_JOBS = 2
  MaxPosts = 2
  MaxPid = 3
  MaxCrashes = 0
  MaxLosses = 1
  MaxRemovals = 0
  MaxKills = 1
  MaxCmds = 0
  MaxRestarts = 1
  PmRes <- MCPmRes
  Posts <- MixedPosts
  Config <- NoConfig
SPECIFICATION Spec
INVARIANTS
  CountsMatchUndisturbed
  PidsFresh
