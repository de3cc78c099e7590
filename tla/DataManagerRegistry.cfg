\* Two applications that exit, are killed, fail and are started again, and an
\* observer that asks for registrations and cancellations.
SPECIFICATION Spec
CONSTANTS
  a = a
  b = b
  s1 = s1
  s2 = s2
  o = o
  DM = DM
  x1 = x1
  x2 = x2
  App = {a, b}
  Sensor = {}
  Observer = {o}
  Asking = {o}
  XThread = {x1, x2}
  Malformed = {}
  MAX_OUTSTANDING_XTEDS = 2
  Kinds = {"REQ_REG_CANCELLATION"}
  Plain = {"ReqReg"}
  MaxRequests = 2
  MaxErrors = 1
  MayExit = {a}
  MayKill = {b}
  MayFail = {a}
  LosesId = TRUE
  CancelDM = TRUE
  Patient = TRUE
  Name <- AllNames
  NameOf <- OwnName
  LocalOf <- Locals
  MsgOf <- OwnMsg
  Wants <- WantsOthers
  MaxStarts <- FirstTwice
SYMMETRY Symmetry
INVARIANTS
  TypeOK
  
  ToldOfAll
  ToldOfEnds
  
  
PROPERTIES
  PostsOnlyEnded
CHECK_DEADLOCK FALSE
