CONSTANTS
  main = main
  binder = binder
  Grabbers = {main, binder}
  Ackers = {binder}
  MaxTimers = 4
  MaxFails = 1
  ClientType = "RADIO_AOSP"
  MaxUrcs = 3
  MaxDeaths = 2
SPECIFICATION DaemonSpec
INVARIANTS CountIsTruth TimerMatchesLock CachedKept
PROPERTIES EventuallyReleased OnlyFailedReset
CHECK_DEADLOCK FALSE
