----------------------------- MODULE MCRilDaemon -----------------------------
(***************************************************************************)
(* The RIL daemon library for TLC: its wake lock, and the cache of its     *)
(* indications.  They share no state in the code either (each has a mutex  *)
(* of its own), so a behavior is one of the wake lock or one of the cache, *)
(* and the other part rests.                                               *)
(***************************************************************************)
EXTENDS WakeLock, RilUrcCache

VARIABLE part   \* "wake lock" or "urc cache"

daemonVars == << vars, urcVars, part >>
-----------------------------------------------------------------------------
Wake(A)  == part = "wake lock" /\ A /\ UNCHANGED << urcVars, part >>
Cache(A) == part = "urc cache" /\ A /\ UNCHANGED << vars, part >>

DaemonInit == part \in {"wake lock", "urc cache"} /\ Init /\ UrcInit

DaemonNext == Wake(Next) \/ Cache(UrcNext)

\* The fairness of WakeLock!FairSpec and RilUrcCache!UrcFairSpec
DaemonSpec ==
  /\ DaemonInit /\ [][DaemonNext]_daemonVars
  /\ WF_daemonVars(Wake(EventLoop))
  /\ \A t \in Threads : WF_daemonVars(Wake(Look(t) \/ CancelAndUnlock(t)))
  /\ WF_daemonVars(Cache(ClientUp)) /\ WF_daemonVars(Cache(CacheUrc)) /\ WF_daemonVars(Cache(Connecting))
  /\ \A t \in Senders : WF_daemonVars(Cache(Sending(t)))
=============================================================================
