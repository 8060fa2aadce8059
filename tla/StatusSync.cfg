CONSTANTS
  kRadio = kRadio kMode = kMode t1 = t1 t2 = t2 off = off on = on r1 = r1 r2 = r2
  Keys = {kRadio, kMode}
  Values = {off, on}
  Default = off
  Watched = {kMode}
  Threads = {t1, t2}
  Writers <- KeyWriters
  Forced = {kMode}
  Requests = {r1, r2}
  AtFront = {r2}
  MaxWrites = 3
SPECIFICATION FairSpec
INVARIANTS ReplicasAgree RequestFindsStatus
PROPERTIES EventuallyAgree
CHECK_DEADLOCK FALSE
