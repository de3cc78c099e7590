\* An application, which may fail, that asks for registrations and consumes the
\* data of a sensor.
SPECIFICATION FairSpec
CONSTANTS
  a = a
  b = b
  s1 = s1
  s2 = s2
  o = o
  DM = DM
  x1 = x1
  x2 = x2
  App = {a}
  Sensor = {s1}
  Observer = {o}
  Asking = {a}
  XThread = {x1}
  Malformed = {}
  MAX_OUTSTANDING_XTEDS = 2
  Kinds = {"NOTI_REGISTRATION_CHANGE","SEARCH_REPLY"}
  Plain = {"Consume","Cancel"}
  MaxRequests = 2
  MaxErrors = 1
  MayExit = {a}
  MayKill = {}
  MayFail = {a}
  LosesId = FALSE
  CancelDM = FALSE
  Patient = TRUE
  Name <- AllNames
  NameOf <- OwnName
  LocalOf <- Locals
  MsgOf <- OwnMsg
  Wants <- WantsOthers
  MaxStarts <- Once
INVARIANTS
  ToldOfAll
  
PROPERTIES
  
  ChildComesBack
CHECK_DEADLOCK FALSE
