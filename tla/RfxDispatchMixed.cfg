CONSTANTS
  r1 = r1 r2 = r2 r3 = r3 s1 = s1 s2 = s2
  c1 = c1 c2 = c2 ch1 = ch1 ch2 = ch2
  NoOne = NoOne
  Ril = {r1, r2, r3}
  Sap = {s1}
  Unsupported = {r1}
  NoData = {r2}
  Exempt = {}
  AtFront = {s1}
  Controllers = {c1}
  Serial = {c1}
  GateResponses = {}
  Channels = {ch1}
  Owner <- MixedOwner
  Channel <- MixedChannel
  MaxReplies = 2
  MaxSync = 1
SPECIFICATION FairSpec
INVARIANTS AtMostOneReply SerialOneOutstanding
PROPERTIES RilAnswered ImplementsService
CHECK_DEADLOCK FALSE
