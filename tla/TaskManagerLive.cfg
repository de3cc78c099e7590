\* One PM, a task that prefers a PM that never registers.
CONSTANTS
  p1 = p1
  p2 = p2
  t1 = t1
  t2 = t2
  c1 = c1
  c2 = c2
  NoPM = NoPM
  NoName = NoName
  PM = {p1}
  Names = {t1, t2}
  Cmds = {}
  Modes = {0, 1, 2}
  NUMTASKS = 2
  MAX_PM = 1
  MAX_JOBS = 2
  MaxPosts = 1
  MaxPid = 3
  MaxCrashes = 0
  MaxLosses = 0
  MaxRemovals = 0
  MaxKills = 0
  MaxCmds = 0
  MaxRestarts = 0
  PmRes <- MCPmRes1
  Posts <- OnePost
  Config <- PreferConfig
SPECIFICATION LiveSpec
PROPERTIES
  PendingIsScheduled
