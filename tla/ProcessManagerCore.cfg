\* Two tasks of one executable each; a kill request and a reset; a task that does
\* not answer.
\* The PM may be shut down, and then stops.
CONSTANTS
  a = a
  b = b
  MaxPid = 2
  Names = {a, b}
  NameOf <- OwnNames
  MAX_TASK_FAILURES = 1
  TASK_TIMEOUT_ATTEMPTS = 1
  MaxSilent = 1
  MaxKills = 1
  MaxResets = 1
  MaxForkFails = 1
SPECIFICATION LiveSpec
INVARIANTS
  TypeOK
  ReportedOnce
  
PROPERTIES
  ImplementsContract
  EndIsNoticed
CHECK_DEADLOCK FALSE
