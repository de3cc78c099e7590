\* PMs that register at boot; one of them may be late by a round, one may crash.
CONSTANTS
  p1 = p1
  p2 = p2
  p3 = p3
  NoPM = NoPM
  NoName = NoName
  Names = {}
  NUMTASKS = 1
  PM = {p1, p2, p3}
  Slow = {p1}
  MaxOwed = 1
  MaxCrashes = 1
  MAX_PM = 3
  AllAtBoot = TRUE
SPECIFICATION LiveSpec
PROPERTIES
  PromptStaysRegistered
  DeadIsRemoved
