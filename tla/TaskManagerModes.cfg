\* One PM, two mode changes, a start-up task, tasks with and without a schedule
\* timeout.  A TM that died of a reset while the Scheduler slept stays dead, so
\* the system may stop.
CONSTANTS
  p1 = p1
  p2 = p2
  t1 = t1
  t2 = t2
  c1 = c1
  c2 = c2
  NoPM = NoPM
  NoName = NoName
  PM = {p1}
  Names = {t1, t2}
  Cmds = {c1}
  Modes = {0, 1, 2}
  NUMTASKS = 2
  MAX_PM = 1
  MAX_JOBS = 2
  MaxPosts = 2
  MaxPid = 3
  MaxCrashes = 0
  MaxLosses = 0
  MaxRemovals = 0
  MaxKills = 0
  MaxCmds = 2
  MaxRestarts = 0
  PmRes <- MCPmRes1
  Posts <- DelayPosts
  Config <- PlainConfig
SPECIFICATION Spec
INVARIANTS
  
  SelectedTaskKept
CHECK_DEADLOCK FALSE
