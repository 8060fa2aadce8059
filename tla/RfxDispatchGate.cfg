CONSTANTS
  r1 = r1 r2 = r2 r3 = r3 s1 = s1 s2 = s2
  c1 = c1 c2 = c2 ch1 = ch1 ch2 = ch2
  NoOne = NoOne
  Ril = {r1, r2, r3}
  Sap = {}
  Unsupported = {}
  NoData = {}
  Exempt = {r1}
  AtFront = {r2}
  Controllers = {c1}
  Serial = {}
  GateResponses = {c1}
  Channels = {ch1, ch2}
  Owner <- OneOwner
  Channel <- TwoChannels
  MaxReplies = 2
  MaxSync = 1
SPECIFICATION Spec
INVARIANTS FirstReplyFindsRequest RequestTracked ControllerOrder SuspendedInOrder NoneLeftBehind
CHECK_DEADLOCK FALSE
