\* Two PMs, one crash and restart of a PM, one PM declared failed; no
\* schedule timeouts.
CONSTANTS
  p1 = p1
  p2 = p2
  t1 = t1
  t2 = t2
  c1 = c1
  c2 = c2
  NoPM = NoPM
  NoName = NoName
  PM = {p1, p2}
  Names = {t1, t2}
  Cmds = {}
  Modes = {0, 1, 2}
  NUMTASKS = 2
  MAX_PM = 2
  MAX_JOBS = 2
  MaxPosts = 2
  MaxPid = 3
  MaxCrashes = 1
  MaxLosses = 0
  MaxRemovals = 1
  MaxKills = 0
  MaxCmds = 0
  MaxRestarts = 0
  PmRes <- MCPmRes
  Posts <- PlainPosts
  Config <- NoConfig
SPECIFICATION Spec
INVARIANTS
  TypeOK
  UniquePidsUntilRestart
  ScheduledOnKnownPM
  NoLostTask
PROPERTIES
  SuitableAssignment
