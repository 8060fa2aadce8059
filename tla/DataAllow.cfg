CONSTANT Instances <- DataAllowInstances
SPECIFICATION FairSpec
INVARIANTS PropertyIsModem WantedIsAllowed PeersCounted
PROPERTIES AllowEnds
CHECK_DEADLOCK FALSE
