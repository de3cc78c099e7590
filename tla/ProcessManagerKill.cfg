\* A kill request while a task is being started.
CONSTANTS
  a = a
  b = b
  MaxPid = 1
  Names = {a, b}
  NameOf <- OneTask
  MAX_TASK_FAILURES = 1
  TASK_TIMEOUT_ATTEMPTS = 1
  MaxSilent = 0
  MaxKills = 1
  MaxResets = 0
  MaxForkFails = 0
SPECIFICATION Spec
PROPERTIES
  KillSparesPM
CHECK_DEADLOCK FALSE
