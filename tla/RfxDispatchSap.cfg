CONSTANTS
  r1 = r1 r2 = r2 r3 = r3 s1 = s1 s2 = s2
  c1 = c1 c2 = c2 ch1 = ch1 ch2 = ch2
  NoOne = NoOne
  Ril = {r1}
  Sap = {s1, s2}
  Unsupported = {s2}
  NoData = {}
  Exempt = {}
  AtFront = {}
  Controllers = {c1}
  Serial = {c1}
  GateResponses = {}
  Channels = {ch1}
  Owner <- MixedOwner
  Channel <- MixedChannel
  MaxReplies = 1
  MaxSync = 1
SPECIFICATION FairSpec
PROPERTIES SapNotSupportedAnswered
CHECK_DEADLOCK FALSE
