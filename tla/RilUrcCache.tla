----------------------------- MODULE RilUrcCache -----------------------------
(***************************************************************************)
(* Indications of the RIL daemon library to one HIDL client (libril/ril.cpp *)
(* and ril_service.cpp), for one slot and one client type.                 *)
(*                                                                         *)
(* The main thread sends indications (RIL_onUnsolicitedResponse), which    *)
(* are cached while the client is not connected.  The one binder thread    *)
(* (configureRpcThreadpool(1, true)) runs setResponseFunctions when the    *)
(* client comes up, and sends what was cached.  The callbacks are guarded  *)
(* by a read-write lock, the cache by s_pendingUrcMutex (recursive); a     *)
(* thread whose call fails because the client died resets the callbacks    *)
(* (checkReturnStatus).                                                    *)
(***************************************************************************)
EXTENDS Naturals, FiniteSets, SequencesExt

CONSTANTS
  main, binder,     \* the threads
  ClientType,       \* one of RADIO_AOSP, RADIO_MTK and IMS_MTK
  MaxUrcs,          \* bound: indications
  MaxDeaths         \* bound: deaths of the client

Senders == {main, binder}
NoUrc == 0
Connected == MaxUrcs + 1    \* RIL_UNSOL_RIL_CONNECTED, never cached

ASSUME RilUrcCacheAssumption ==
  /\ main # binder /\ {main, binder} \cap {"none", "free"} = {}
  /\ ClientType \in {"RADIO_AOSP", "RADIO_MTK", "IMS_MTK"}
  /\ MaxUrcs \in Nat /\ MaxDeaths \in Nat

VARIABLES
  alive, generation,   \* the client process, and how many there have been
  registered,          \* the last one that called setResponseFunctions
  callback,            \* mRadioIndication: the generation it belongs to, or NoUrc
  counter,             \* mCounterRadio / mCounterMtkRadioEx
  readers, writer,     \* radioServiceRwlock
  mutex,               \* s_pendingUrcMutex: its owner or "free"
  ready,               \* bIsCallbackReady
  pendedUrcList,
  at, msg, noted,      \* per thread: place, indication being sent, counter noted
  head,                \* per thread: the head of the list it read before the mutex
  urcs, deaths,        \* indications so far, deaths so far
  \* history
  cached,              \* indications that were put into the cache
  called,              \* << generation, indication >> in the order of the calls
  staleHead            \* a thread has used a head that was not the list's any more

client  == << alive, generation, registered, deaths >>
locks   == << readers, writer, mutex >>
history == << cached, called, staleHead >>
urcVars == << client, callback, counter, locks, ready, pendedUrcList, at, msg, noted, head, urcs,
           history >>
-----------------------------------------------------------------------------
HeadOf(q) == IF q = << >> THEN NoUrc ELSE Head(q)
Go(t, place) == at' = [at EXCEPT ![t] = place]

UrcInit ==
  /\ alive = FALSE /\ generation = 0 /\ registered = 0 /\ deaths = 0
  /\ callback = NoUrc /\ counter = 0
  /\ readers = {} /\ writer = "none" /\ mutex = "free"
  /\ ready = FALSE /\ pendedUrcList = << >>
  /\ at = [t \in Senders |-> "idle"] /\ msg = [t \in Senders |-> NoUrc]
  /\ noted = [t \in Senders |-> 0] /\ head = [t \in Senders |-> NoUrc]
  /\ urcs = 0
  /\ cached = {} /\ called = << >> /\ staleHead = FALSE

\* The client process (external)
ClientUp ==
  /\ ~alive /\ generation <= MaxDeaths
  /\ alive' = TRUE /\ generation' = generation + 1
  /\ UNCHANGED << registered, deaths, callback, counter, locks, ready, pendedUrcList, at, msg, noted, head,
                  urcs, history >>

ClientDies ==
  /\ alive /\ deaths < MaxDeaths
  /\ alive' = FALSE /\ deaths' = deaths + 1
  /\ UNCHANGED << generation, registered, callback, counter, locks, ready, pendedUrcList, at, msg, noted,
                  head, urcs, history >>
-----------------------------------------------------------------------------
(* Sending, on either thread, and what follows a call that fails *)

\* lockRadioServiceRlock
LockR(t) ==
  /\ at[t] \in {"rlock", "relock"} /\ writer = "none"
  /\ readers' = readers \cup {t}
  /\ Go(t, IF at[t] = "rlock" THEN "call" ELSE "unlockR")
  /\ UNCHANGED << client, callback, counter, writer, mutex, ready, pendedUrcList, msg, noted,
                  head, urcs, history >>

\* The indication function, and checkReturnStatus up to the release of the read lock:
\* nothing to call, a call that arrives, a call on a dead client
Call(t) ==
  /\ at[t] = "call"
  /\ called' = Append(called, << callback, msg[t] >>)
  /\ IF callback = NoUrc \/ (alive /\ callback = generation)
     THEN /\ Go(t, "unlockR")
          /\ UNCHANGED << noted, readers >>
     ELSE /\ noted' = [noted EXCEPT ![t] = counter]
          /\ readers' = readers \ {t}
          /\ Go(t, "wlock")
  /\ UNCHANGED << client, callback, counter, writer, mutex, ready, pendedUrcList, msg, head,
                  urcs, cached, staleHead >>

\* Mutant: the counter is not compared
MutResetCallbacks(t) ==
  /\ at[t] = "wlock" /\ writer = "none" /\ readers = {}
  /\ writer' = t
  /\ callback' = NoUrc /\ counter' = counter + 1
  /\ Go(t, "disconnect")
  /\ UNCHANGED << client, readers, mutex, ready, pendedUrcList, msg, noted, head, urcs, history >>

\* checkReturnStatus: the write lock, and the callbacks unless they were renewed
ResetCallbacks(t) ==
  /\ at[t] = "wlock" /\ writer = "none" /\ readers = {}
  /\ writer' = t
  /\ IF counter = noted[t]
     THEN callback' = NoUrc /\ counter' = counter + 1 /\ Go(t, "disconnect")
     ELSE Go(t, "wunlock") /\ UNCHANGED << callback, counter >>
  /\ UNCHANGED << client, readers, mutex, ready, pendedUrcList, msg, noted, head, urcs, history >>

\* onCommandDisconnect, with the write lock held
OnCommandDisconnect(t) ==
  /\ at[t] = "disconnect" /\ mutex \in {"free", t}
  /\ ready' = FALSE
  /\ Go(t, "wunlock")
  /\ UNCHANGED << client, callback, counter, locks, pendedUrcList, msg, noted, head, urcs, history >>

UnlockW(t) ==
  /\ at[t] = "wunlock"
  /\ writer' = "none"
  /\ Go(t, "relock")
  /\ UNCHANGED << client, callback, counter, readers, mutex, ready, pendedUrcList, msg, noted,
                  head, urcs, history >>

\* The send is over: the main thread is done, the binder thread goes on connecting
UnlockR(t) ==
  /\ at[t] = "unlockR"
  /\ readers' = readers \ {t}
  /\ Go(t, IF t = main THEN "idle" ELSE IF msg[t] = Connected THEN "drainHead" ELSE "pop")
  /\ UNCHANGED << client, callback, counter, writer, mutex, ready, pendedUrcList, msg, noted,
                  head, urcs, history >>
-----------------------------------------------------------------------------
(* RIL_onUnsolicitedResponse on the main thread *)

\* cacheUrc reads the head of the list before it takes the mutex
CacheUrcHead ==
  /\ at[main] = "idle" /\ urcs < MaxUrcs
  /\ urcs' = urcs + 1 /\ msg' = [msg EXCEPT ![main] = urcs + 1]
  /\ head' = [head EXCEPT ![main] = HeadOf(pendedUrcList)]
  /\ Go(main, "cache")
  /\ UNCHANGED << client, callback, counter, locks, ready, pendedUrcList, noted, history >>

\* ... and appends at the end of the chain it has read.  If that head has been freed
\* meanwhile, the chain may still lead into the list, or nowhere.
CacheUrc ==
  /\ at[main] = "cache" /\ mutex = "free"
  /\ IF ready
     THEN Go(main, "rlock") /\ UNCHANGED << pendedUrcList, cached, staleHead >>
     ELSE /\ Go(main, "idle")
          /\ cached' = cached \cup {msg[main]}
          /\ IF head[main] = HeadOf(pendedUrcList)
             THEN /\ pendedUrcList' = Append(pendedUrcList, msg[main])
                  /\ UNCHANGED staleHead
             ELSE /\ staleHead' = TRUE
                  /\ \/ UNCHANGED pendedUrcList
                     \/ pendedUrcList # << >> /\ pendedUrcList' = Append(pendedUrcList, msg[main])
  /\ UNCHANGED << client, callback, counter, locks, ready, msg, noted, head, urcs, called >>
-----------------------------------------------------------------------------
(* setResponseFunctions on the binder thread *)

\* A client that is up registers its callbacks, once; setResponseFunctionsIms leaves
\* the counter alone
SetResponseFunctions ==
  /\ at[binder] = "idle" /\ alive /\ registered # generation
  /\ writer = "none" /\ readers = {}
  /\ callback' = generation /\ registered' = generation
  /\ counter' = IF ClientType = "IMS_MTK" THEN counter ELSE counter + 1
  /\ Go(binder, "ready")
  /\ UNCHANGED << alive, generation, deaths, locks, ready, pendedUrcList, msg, noted, head, urcs,
                  history >>

\* onNewCommandConnect: ready, then RIL_CONNECTED to an AOSP radio client
OnNewCommandConnect ==
  /\ at[binder] = "ready" /\ mutex = "free"
  /\ ready' = TRUE
  /\ IF ClientType = "RADIO_AOSP"
     THEN msg' = [msg EXCEPT ![binder] = Connected] /\ Go(binder, "rlock")
     ELSE UNCHANGED msg /\ Go(binder, "drainHead")
  /\ UNCHANGED << client, callback, counter, locks, pendedUrcList, noted, head, urcs, history >>

\* sendUrc reads the head of the list, then takes the mutex
SendUrcHead ==
  /\ at[binder] = "drainHead"
  /\ head' = [head EXCEPT ![binder] = HeadOf(pendedUrcList)]
  /\ Go(binder, "drainLock")
  /\ UNCHANGED << client, callback, counter, locks, ready, pendedUrcList, msg, noted, urcs, history >>

SendUrcLock ==
  /\ at[binder] = "drainLock" /\ mutex = "free"
  /\ mutex' = binder
  /\ staleHead' = (staleHead \/ head[binder] # HeadOf(pendedUrcList))
  /\ Go(binder, "drain")
  /\ UNCHANGED << client, callback, counter, readers, writer, ready, pendedUrcList, msg, noted,
                  head, urcs, cached, called >>

\* Mutant: the list is cleared when the loop ends early
MutSendUrc ==
  /\ at[binder] = "drain"
  /\ IF head[binder] # NoUrc /\ ready
     THEN /\ msg' = [msg EXCEPT ![binder] = head[binder]]
          /\ Go(binder, "rlock")
          /\ UNCHANGED << mutex, pendedUrcList >>
     ELSE /\ pendedUrcList' = << >>
          /\ mutex' = "free"
          /\ Go(binder, "idle") /\ UNCHANGED msg
  /\ UNCHANGED << client, callback, counter, readers, writer, ready, noted, head, urcs, history >>

\* One turn of sendUrc's loop, up to RIL_onUnsolicitedResponse (which finds the client
\* ready); or its end, which stores its own idea of the list
SendUrc ==
  /\ at[binder] = "drain"
  /\ IF head[binder] # NoUrc /\ ready
     THEN /\ msg' = [msg EXCEPT ![binder] = head[binder]]
          /\ Go(binder, "rlock")
          /\ UNCHANGED << mutex, pendedUrcList >>
     ELSE /\ pendedUrcList' = IF head[binder] = NoUrc THEN << >> ELSE pendedUrcList
          /\ mutex' = "free"
          /\ Go(binder, "idle") /\ UNCHANGED msg
  /\ UNCHANGED << client, callback, counter, readers, writer, ready, noted, head, urcs, history >>

\* The indication is freed, sent or not
PopUrc ==
  /\ at[binder] = "pop"
  /\ pendedUrcList' = Tail(pendedUrcList)
  /\ head' = [head EXCEPT ![binder] = HeadOf(Tail(pendedUrcList))]
  /\ Go(binder, "drain")
  /\ UNCHANGED << client, callback, counter, locks, ready, msg, noted, urcs, history >>
-----------------------------------------------------------------------------
Sending(t) ==
  LockR(t) \/ Call(t) \/ ResetCallbacks(t) \/ OnCommandDisconnect(t) \/ UnlockW(t) \/ UnlockR(t)
Connecting ==
  SetResponseFunctions \/ OnNewCommandConnect \/ SendUrcHead \/ SendUrcLock \/ SendUrc \/ PopUrc

UrcNext ==
  \/ ClientUp \/ ClientDies
  \/ CacheUrcHead \/ CacheUrc
  \/ Connecting
  \/ \E t \in Senders : Sending(t)

UrcSpec == UrcInit /\ [][UrcNext]_urcVars

\* A dead client is started again (by init or the framework), and every thread that
\* can go on does
UrcFairSpec ==
  /\ UrcSpec /\ WF_urcVars(ClientUp) /\ WF_urcVars(CacheUrc) /\ WF_urcVars(Connecting)
  /\ \A t \in Senders : WF_urcVars(Sending(t))
-----------------------------------------------------------------------------
(* Properties *)

Messages == 1 .. Connected

UrcTypeOK ==
  /\ alive \in BOOLEAN /\ generation \in 0 .. MaxDeaths + 1 /\ registered \in 0 .. generation
  /\ deaths \in 0 .. MaxDeaths
  /\ callback \in 0 .. generation /\ counter \in Nat
  /\ readers \subseteq Senders /\ writer \in Senders \cup {"none"}
  /\ (writer # "none" => readers = {}) /\ mutex \in {"free", binder}
  /\ ready \in BOOLEAN /\ pendedUrcList \in Seq(1 .. MaxUrcs)
  /\ msg \in [Senders -> Messages \cup {NoUrc}] /\ noted \in [Senders -> Nat]
  /\ head \in [Senders -> 0 .. MaxUrcs] /\ urcs \in 0 .. MaxUrcs
  /\ cached \subseteq 1 .. MaxUrcs /\ called \in Seq((0 .. generation) \X Messages)
  /\ staleHead \in BOOLEAN

Calls(u) == {i \in DOMAIN called : called[i][2] = u}

\* An indication that was cached stays in the list until its indication function has
\* been called, across disconnects and new clients -- unless one of the two functions
\* that read the head before the mutex (ril.cpp:1730, 1777) used a head that had moved.
\* None is sent twice, a failed call and a new client included, and they are sent in the
\* order they arrived in (newer ones that were not cached may overtake them: the client
\* is ready before the cache is sent).
CachedKept ==
  /\ ~staleHead => \A u \in cached : u \in Range(pendedUrcList) \/ Calls(u) # {}
  /\ \A u \in 1 .. MaxUrcs : Cardinality(Calls(u)) <= 1
  /\ \A i, j \in DOMAIN called :
       i < j /\ {called[i][2], called[j][2]} \subseteq cached => called[i][2] < called[j][2]

\* "note the current counter to avoid overwriting updates made by another thread before
\* write lock is acquired" (ril_service.cpp:1458-1459, 1530-1531): a call that failed
\* resets the callbacks it failed on, never those of a client that came up since
OnlyFailedReset ==
  [][\A t \in Senders :
       at[t] = "wlock" /\ at'[t] = "disconnect" => callback = called[Max(Calls(msg[t]))][1]]_urcVars

=============================================================================
