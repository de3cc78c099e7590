\* The TM's monitor: the TM hangs, recovers and quits.  After SIGINT, or when it
\* cannot fork, the monitor stops.
CONSTANTS
  NUM_HEARTBEAT_TRIES = 3
  NumToGet = 1
  FaultArgs = TRUE
  MaxDeaths = 2
  MaxHangs = 2
  MaxForkFails = 1
  MaxOwed = 2
SPECIFICATION LiveSpec
INVARIANTS
  TypeOK
PROPERTIES
  PromptNotKilled
  DeadIsRestarted
  HungIsRestarted
CHECK_DEADLOCK FALSE
