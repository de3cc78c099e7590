\* Two tasks of one executable, whose file may disappear, and a failing fork.
\* The PM may be shut down, and then stops.
CONSTANTS
  a = a
  b = b
  MaxPid = 2
  Names = {a, b}
  NameOf <- SameName
  MAX_TASK_FAILURES = 1
  TASK_TIMEOUT_ATTEMPTS = 1
  MaxSilent = 1
  MaxKills = 1
  MaxResets = 1
  MaxForkFails = 1
SPECIFICATION Spec
INVARIANTS
  ChildrenKnown
  
CHECK_DEADLOCK FALSE
