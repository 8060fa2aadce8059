------------------------------ MODULE DataAllow ------------------------------
(***************************************************************************)
(* Which SIM may use packet data: RtcDataAllowController (one for all      *)
(* slots) keeps the queue of on-demand networks (MMS, SUPL, ...), asks the *)
(* modem with AT+EDALLOW one request at a time, and recovers when the      *)
(* modem refuses because another slot is still allowed (4117).             *)
(* RtcDataController sends a data call only when its slot is allowed.      *)
(*                                                                         *)
(* The main looper is a queue; every action that takes from it is one      *)
(* turn of the main thread.  The message gate before the controllers, and  *)
(* the suspended list in general, are in RfxDispatch.                      *)
(***************************************************************************)
EXTENDS Integers, FiniteSets, SequencesExt

CONSTANT Instances   \* what the device and the bounds of the run may be

VARIABLE inst        \* the instance that runs

SimCount       == inst.simCount      \* rfxGetSimCount()
Types          == inst.types         \* profiles of on-demand networks
PreferredMode  == inst.preferred     \* vendor.ril.data.preferred_data_mode
MaxEvents      == inst.events        \* bound: what the framework and the SIM lock do
MaxRequests    == inst.requests      \* bound: RFX_MSG_REQUEST_ALLOW_DATA of the framework
MaxRefused     == inst.refused       \* bound: EDALLOW that fail for another reason than 4117
MaxUnsupported == inst.unsupported   \* bound: requests that no handler takes yet
MaxRestarts    == inst.restarts      \* bound: restarts of the daemon, which reset the modem

Slots  == 0 .. SimCount - 1
NoSlot == -1

ASSUME DataAllowAssumption ==
  \A i \in Instances :
    /\ i.simCount \in Nat \ {0}
    /\ i.preferred \in BOOLEAN
    /\ {i.events, i.requests, i.refused, i.unsupported, i.restarts} \subseteq Nat

VARIABLES
  mDoingDataAllow, mReqDataAllow, mDisallowingPeer,
  mLastAllowTrueRequest,  \* a request, or << >> for NULL
  mOnDemandQueue,         \* of << type, slot >>
  mIsPreferredDataMode,
  allow_data_slot,        \* the property, which survives a restart
  legacy_allow_mode,      \* the property
  preferredSim,           \* PREFERRED_DATA_SIM
  SLOT_ALLOW,             \* per slot, the status as the telephony core sees it
  m_mapProfileIdToken,    \* << type, slot >> of calls that went to the modem
  mainLooper, suspended,  \* messages
  mcl,                    \* per slot, requests on their way to the channel
  mdAllowed,              \* the slots the modem allows (AT+EDALLOW=1)
  requests, answered,     \* framework requests; the answers to them, in order
  events, refused, unsupported, restarts,  \* counters
  \* history
  allowLost,              \* an EDALLOW=1 failed and was reported as done
  cleared                 \* the queue was cleared and the slot not set again

dacVars == << mDoingDataAllow, mReqDataAllow, mDisallowingPeer, mLastAllowTrueRequest >>
slotVars == << mOnDemandQueue, mIsPreferredDataMode, allow_data_slot, legacy_allow_mode,
               preferredSim, cleared >>
dataVars == << SLOT_ALLOW, m_mapProfileIdToken >>
bounds == << events, refused, unsupported, restarts >>
vars == << inst, dacVars, slotVars, dataVars, mainLooper, suspended, mcl, mdAllowed, requests, answered,
           bounds, allowLost >>

\* A request with id 0 is the daemon's own
Request(s, allow, id) == [type |-> "request", slot |-> s, allow |-> allow, id |-> id]
Response(m, error) == [type |-> "response", slot |-> m.slot, id |-> m.id, error |-> error]
Sync(s, value) == [type |-> "sync", slot |-> s, value |-> value]
-----------------------------------------------------------------------------
Init ==
  /\ inst \in Instances
  /\ mDoingDataAllow = FALSE /\ mReqDataAllow = FALSE /\ mDisallowingPeer = 0
  /\ mLastAllowTrueRequest = << >>
  /\ mOnDemandQueue = << >> /\ mIsPreferredDataMode = PreferredMode
  /\ allow_data_slot = NoSlot /\ legacy_allow_mode = NoSlot /\ preferredSim = NoSlot
  /\ SLOT_ALLOW = [s \in Slots |-> 0] /\ m_mapProfileIdToken = {}
  /\ mainLooper = << >> /\ suspended = << >> /\ mcl = [s \in Slots |-> << >>]
  /\ mdAllowed = {} /\ requests = 0 /\ answered = << >>
  /\ events = 0 /\ refused = 0 /\ unsupported = 0 /\ restarts = 0
  /\ allowLost = FALSE /\ cleared = FALSE

\* The others first, then the slot
SetAllowed(s) ==
  [i \in 1 .. SimCount - 1 |-> Request(IF i <= s THEN i - 1 ELSE i, FALSE, 0)]
    \o << Request(s, TRUE, 0) >>

\* Mutant: the property is not written
MutOnSetDataAllow(s, current) ==
  /\ mainLooper' = IF s \notin Slots \/ s = current THEN mainLooper ELSE mainLooper \o SetAllowed(s)
  /\ allow_data_slot' = current
  /\ cleared' = FALSE

\* onSetDataAllow, when the property says current
OnSetDataAllow(s, current) ==
  /\ IF s \notin Slots \/ s = current
     THEN UNCHANGED mainLooper /\ allow_data_slot' = current
     ELSE mainLooper' = mainLooper \o SetAllowed(s) /\ allow_data_slot' = s
  /\ cleared' = FALSE

\* The on-demand networks in the queue come first, then the preferred SIM
Wanted(queue) == IF queue = << >> THEN preferredSim ELSE Head(queue)[2]

\* The networks that are not gone, in their order (std::remove_if)
Without(queue, gone) ==
  LET kept[i \in 0 .. Len(queue)] ==
        IF i = 0 THEN << >>
        ELSE IF queue[i] \in gone THEN kept[i - 1] ELSE Append(kept[i - 1], queue[i])
  IN  kept[Len(queue)]
-----------------------------------------------------------------------------
(* The framework and the SIM lock: each a message of its own, executed on  *)
(* the main thread                                                         *)

Event == events < MaxEvents /\ events' = events + 1

\* handleSetPreferredDataModem and onPreferredChanged: a queue that is not empty goes first
SetPreferredDataModem(s) ==
  /\ Event
  /\ preferredSim' = s
  /\ IF legacy_allow_mode = 1
     THEN legacy_allow_mode' = NoSlot /\ mIsPreferredDataMode' = TRUE
     ELSE UNCHANGED << legacy_allow_mode, mIsPreferredDataMode >>
  /\ LET current == IF legacy_allow_mode = 1 THEN NoSlot ELSE allow_data_slot IN
       IF mOnDemandQueue = << >> THEN OnSetDataAllow(s, current)
       ELSE allow_data_slot' = current /\ UNCHANGED << mainLooper, cleared >>
  /\ UNCHANGED << dacVars, mOnDemandQueue, dataVars, suspended, mcl, mdAllowed, requests, answered,
                  refused, unsupported, restarts, allowLost >>

\* enqueueNetworkRequest: the first moves the allowed slot, the others wait
EnqueueNetworkRequest(t, s) ==
  IF << t, s >> \in Range(mOnDemandQueue)
  THEN UNCHANGED << mOnDemandQueue, mainLooper, allow_data_slot, cleared >>
  ELSE /\ mOnDemandQueue' = Append(mOnDemandQueue, << t, s >>)
       /\ IF mOnDemandQueue = << >> THEN OnSetDataAllow(s, allow_data_slot)
          ELSE UNCHANGED << mainLooper, allow_data_slot, cleared >>

\* handleSetupDataRequest for an on-demand network
SetupDataCall(t, s) ==
  /\ mIsPreferredDataMode /\ Event
  /\ IF << t, s >> \in m_mapProfileIdToken
     THEN UNCHANGED << mOnDemandQueue, mainLooper, allow_data_slot, cleared >>
     ELSE EnqueueNetworkRequest(t, s)
  /\ m_mapProfileIdToken' =
       IF SLOT_ALLOW[s] = 1 THEN m_mapProfileIdToken \cup {<< t, s >>} ELSE m_mapProfileIdToken
  /\ UNCHANGED << dacVars, mIsPreferredDataMode, legacy_allow_mode, preferredSim, SLOT_ALLOW,
                  suspended, mcl, mdAllowed, requests, answered, refused, unsupported, restarts,
                  allowLost >>

\* Mutant: only the last network of the queue gives the slot back
MutDeactivateDataCall(t, s) ==
  /\ mIsPreferredDataMode /\ Event
  /\ m_mapProfileIdToken' = m_mapProfileIdToken \ {<< t, s >>}
  /\ mOnDemandQueue' = Without(mOnDemandQueue, {<< t, s >>})
  /\ IF mOnDemandQueue' = << >> THEN OnSetDataAllow(Wanted(mOnDemandQueue'), allow_data_slot)
     ELSE UNCHANGED << mainLooper, allow_data_slot, cleared >>
  /\ UNCHANGED << dacVars, mIsPreferredDataMode, legacy_allow_mode, preferredSim, SLOT_ALLOW,
                  suspended, mcl, mdAllowed, requests, answered, refused, unsupported, restarts,
                  allowLost >>

\* dequeueForPreferredDataMode and dequeueNetworkRequest: the next network, or the preferred SIM
DeactivateDataCall(t, s) ==
  /\ mIsPreferredDataMode /\ Event
  /\ m_mapProfileIdToken' = m_mapProfileIdToken \ {<< t, s >>}
  /\ mOnDemandQueue' = Without(mOnDemandQueue, {<< t, s >>})
  /\ OnSetDataAllow(Wanted(mOnDemandQueue'), allow_data_slot)
  /\ UNCHANGED << dacVars, mIsPreferredDataMode, legacy_allow_mode, preferredSim, SLOT_ALLOW,
                  suspended, mcl, mdAllowed, requests, answered, refused, unsupported, restarts,
                  allowLost >>

\* onSimMeLockChanged: the slot has lost its packet service
SimMeLockChanged(s) ==
  /\ Event
  /\ mOnDemandQueue' = Without(mOnDemandQueue, Types \X {s})
  /\ OnSetDataAllow(Wanted(mOnDemandQueue'), allow_data_slot)
  /\ UNCHANGED << dacVars, mIsPreferredDataMode, legacy_allow_mode, preferredSim, dataVars,
                  suspended, mcl, mdAllowed, requests, answered, refused, unsupported, restarts,
                  allowLost >>

\* onHidlStateChanged: a client of the daemon came or went
HidlStateChanged ==
  /\ Event
  /\ mOnDemandQueue' = << >>
  /\ cleared' = (cleared \/ mOnDemandQueue # << >>)
  /\ UNCHANGED << dacVars, mIsPreferredDataMode, allow_data_slot, legacy_allow_mode, preferredSim,
                  dataVars, mainLooper, suspended, mcl, mdAllowed, requests, answered, refused,
                  unsupported, restarts, allowLost >>

\* The vendor's framework announces that it will leave its own allow mode
SetLegacyMode ==
  /\ ~mIsPreferredDataMode /\ legacy_allow_mode # 1
  /\ legacy_allow_mode' = 1
  /\ UNCHANGED << dacVars, mOnDemandQueue, mIsPreferredDataMode, allow_data_slot, preferredSim,
                  cleared, dataVars, mainLooper, suspended, mcl, mdAllowed, requests, answered,
                  bounds, allowLost >>

\* Without preferred data mode the framework itself asks for every slot
AllowData(s, allow) ==
  /\ ~mIsPreferredDataMode /\ requests < MaxRequests
  /\ requests' = requests + 1
  /\ mainLooper' = Append(mainLooper, Request(s, allow, requests'))
  /\ UNCHANGED << dacVars, slotVars, dataVars, suspended, mcl, mdAllowed, answered, bounds,
                  allowLost >>
-----------------------------------------------------------------------------
(* ALLOW_DATA on the main thread.  After each message the suspended ones   *)
(* that may go on return to the front of the looper                        *)

Resumed(doing, rest) ==
  IF doing THEN mainLooper' = rest /\ UNCHANGED suspended
  ELSE mainLooper' = suspended \o rest /\ suspended' = << >>

Message(type) == mainLooper # << >> /\ Head(mainLooper).type = type

\* isNeedSuspendRequest: one request at a time
SuspendRequest ==
  /\ Message("request") /\ mDoingDataAllow
  /\ mainLooper' = Tail(mainLooper)
  /\ suspended' = Append(suspended, Head(mainLooper))
  /\ UNCHANGED << dacVars, slotVars, dataVars, mcl, mdAllowed, requests, answered, bounds,
                  allowLost >>

\* handleSetDataAllowRequest
SetDataAllowRequest(m) ==
  /\ mReqDataAllow' = m.allow
  /\ allow_data_slot' = IF ~mIsPreferredDataMode /\ m.allow THEN m.slot ELSE allow_data_slot
  /\ mcl' = [mcl EXCEPT ![m.slot] = Append(@, m)]

\* preprocessRequest
HandleRequest ==
  /\ Message("request") /\ ~mDoingDataAllow
  /\ mDoingDataAllow' = TRUE
  /\ LET m == Head(mainLooper) IN
     /\ mLastAllowTrueRequest' = IF m.allow THEN m ELSE mLastAllowTrueRequest
     /\ SetDataAllowRequest(m)
  /\ mainLooper' = Tail(mainLooper)
  /\ UNCHANGED << mDisallowingPeer, mOnDemandQueue, mIsPreferredDataMode, legacy_allow_mode,
                  preferredSim, cleared, dataVars, suspended, mdAllowed, requests, answered, bounds,
                  allowLost >>

rspRest == << mOnDemandQueue, mIsPreferredDataMode, legacy_allow_mode, preferredSim, cleared,
              dataVars, mdAllowed, requests, bounds, allowLost >>

\* No handler took it: the same again, as a new message, 100 ms later
ResendRequest ==
  /\ Message("response") /\ Head(mainLooper).error = "not_supported"
  /\ LET s == Head(mainLooper).slot IN
       mcl' = [mcl EXCEPT ![s] = Append(@, Request(s, mReqDataAllow, 0))]
  /\ Resumed(TRUE, Tail(mainLooper))
  /\ UNCHANGED << dacVars, allow_data_slot, answered, rspRest >>

\* The modem refused to allow a second slot
MultiAllow(m) == mReqDataAllow /\ m.error = "multi_allow"

Peers(s) == Slots \ {s}

\* handleMultiAllowError: all the other slots are disallowed, whatever the modem allows
HandleMultiAllowError ==
  /\ Message("response") /\ MultiAllow(Head(mainLooper))
  /\ LET peers == Peers(Head(mainLooper).slot) IN
     /\ mDisallowingPeer' = mDisallowingPeer + Cardinality(peers)
     /\ mcl' = [s \in Slots |-> IF s \in peers THEN Append(mcl[s], Request(s, FALSE, 0)) ELSE mcl[s]]
     /\ mReqDataAllow' = IF peers = {} THEN mReqDataAllow ELSE FALSE
  /\ Resumed(TRUE, Tail(mainLooper))
  /\ UNCHANGED << mDoingDataAllow, mLastAllowTrueRequest, allow_data_slot, answered, rspRest >>

\* Mutant: the original request is sent again after the first peer
MutPeersDone == TRUE

PeersDone == mDisallowingPeer = 1

\* checkDisallowingPeer: after the last peer the original request is sent again
PeerDisallowed ==
  /\ Message("response") /\ Head(mainLooper).error # "not_supported"
  /\ ~MultiAllow(Head(mainLooper)) /\ mDisallowingPeer > 0
  /\ mDisallowingPeer' = mDisallowingPeer - 1
  /\ IF PeersDone THEN SetDataAllowRequest(mLastAllowTrueRequest)
     ELSE UNCHANGED << mReqDataAllow, allow_data_slot, mcl >>
  /\ Resumed(TRUE, Tail(mainLooper))
  /\ UNCHANGED << mDoingDataAllow, mLastAllowTrueRequest, answered, rspRest >>

\* Mutant: the flag stays
MutDoneFlag == mDoingDataAllow' = TRUE

DoneFlag == mDoingDataAllow' = FALSE

\* responseToRilj, which drops the answers to the daemon's own requests
AllowDone ==
  /\ Message("response") /\ Head(mainLooper).error # "not_supported"
  /\ ~MultiAllow(Head(mainLooper)) /\ mDisallowingPeer = 0
  /\ answered' = IF Head(mainLooper).id = 0 THEN answered ELSE Append(answered, Head(mainLooper).id)
  /\ DoneFlag
  /\ Resumed(mDoingDataAllow', Tail(mainLooper))
  /\ UNCHANGED << mReqDataAllow, mDisallowingPeer, mLastAllowTrueRequest, allow_data_slot, mcl,
                  rspRest >>

\* The status SLOT_ALLOW comes from the modem side
ApplyStatusSync ==
  /\ Message("sync")
  /\ SLOT_ALLOW' = [SLOT_ALLOW EXCEPT ![Head(mainLooper).slot] = Head(mainLooper).value]
  /\ Resumed(mDoingDataAllow, Tail(mainLooper))
  /\ UNCHANGED << dacVars, slotVars, m_mapProfileIdToken, mcl, mdAllowed, requests, answered, bounds,
                  allowLost >>
-----------------------------------------------------------------------------
(* The modem side: RmcDcMsimReqHandler::setDataAllowed on the slot's channel *)

Take(s, messages) ==
  /\ mcl' = [mcl EXCEPT ![s] = Tail(@)]
  /\ mainLooper' = mainLooper \o messages

\* The handler is not registered yet
NoHandler(s) ==
  /\ mcl[s] # << >> /\ unsupported < MaxUnsupported
  /\ unsupported' = unsupported + 1
  /\ Take(s, << Response(Head(mcl[s]), "not_supported") >>)
  /\ UNCHANGED << dacVars, slotVars, dataVars, suspended, mdAllowed, requests, answered, events,
                  refused, restarts, allowLost >>

\* EDALLOW succeeds, or the modem refuses to allow two slots (4117)
SetDataAllowed(s) ==
  /\ mcl[s] # << >>
  /\ LET m == Head(mcl[s])
         pre == Sync(s, IF m.allow THEN -2 ELSE -1)
     IN IF m.allow /\ mdAllowed \ {s} # {}
        THEN Take(s, << pre, Response(m, "multi_allow") >>) /\ UNCHANGED mdAllowed
        ELSE /\ Take(s, << pre, Sync(s, IF m.allow THEN 1 ELSE 0), Response(m, "success") >>)
             /\ mdAllowed' = IF m.allow THEN {s} ELSE mdAllowed \ {s}
  /\ UNCHANGED << dacVars, slotVars, dataVars, suspended, requests, answered, bounds, allowLost >>

\* Any other error is reported as a success (cause keeps its initial value)
EdallowFails(s) ==
  /\ mcl[s] # << >> /\ refused < MaxRefused
  /\ refused' = refused + 1
  /\ LET m == Head(mcl[s]) IN
     /\ Take(s, << Sync(s, IF m.allow THEN -2 ELSE -1), Response(m, "success") >>)
     /\ allowLost' = (allowLost \/ m.allow)
  /\ UNCHANGED << dacVars, slotVars, dataVars, suspended, mdAllowed, requests, answered, events,
                  unsupported, restarts >>

\* onInit of a new daemon: resendAllowData from the property
Restart ==
  /\ restarts < MaxRestarts
  /\ restarts' = restarts + 1
  /\ mDoingDataAllow' = FALSE /\ mReqDataAllow' = FALSE /\ mDisallowingPeer' = 0
  /\ mLastAllowTrueRequest' = << >> /\ mOnDemandQueue' = << >>
  /\ mIsPreferredDataMode' = PreferredMode /\ legacy_allow_mode' = NoSlot /\ preferredSim' = NoSlot
  /\ SLOT_ALLOW' = [s \in Slots |-> 0] /\ m_mapProfileIdToken' = {}
  /\ mainLooper' = IF allow_data_slot = NoSlot THEN << >> ELSE << Request(allow_data_slot, TRUE, 0) >>
  /\ suspended' = << >> /\ mcl' = [s \in Slots |-> << >>] /\ mdAllowed' = {}
  /\ allowLost' = FALSE /\ cleared' = FALSE
  /\ UNCHANGED << allow_data_slot, requests, answered, events, refused, unsupported >>
-----------------------------------------------------------------------------
Framework ==
  \/ \E s \in Slots : SetPreferredDataModem(s) \/ SimMeLockChanged(s)
  \/ \E t \in Types, s \in Slots : SetupDataCall(t, s) \/ DeactivateDataCall(t, s)
  \/ \E s \in Slots, allow \in BOOLEAN : AllowData(s, allow)
  \/ HidlStateChanged \/ SetLegacyMode

MainThread ==
  \/ SuspendRequest \/ HandleRequest \/ ResendRequest \/ HandleMultiAllowError \/ PeerDisallowed
  \/ AllowDone \/ ApplyStatusSync

ModemSide(s) == NoHandler(s) \/ SetDataAllowed(s) \/ EdallowFails(s)

Steps == Framework \/ MainThread \/ Restart \/ \E s \in Slots : ModemSide(s)

Next == Steps /\ UNCHANGED inst

Spec == Init /\ [][Next]_vars

\* The main thread takes its messages, and the modem side answers every request
FairSpec ==
  /\ Spec /\ WF_vars(MainThread /\ UNCHANGED inst)
  /\ \A s \in UNION {0 .. i.simCount - 1 : i \in Instances} :
       WF_vars(s \in Slots /\ ModemSide(s) /\ UNCHANGED inst)
-----------------------------------------------------------------------------
(* Properties *)

MessageSet ==
  [type : {"request"}, slot : Slots, allow : BOOLEAN, id : Nat]
    \cup [type : {"response"}, slot : Slots, id : Nat,
          error : {"success", "multi_allow", "not_supported"}]
    \cup [type : {"sync"}, slot : Slots, value : -2 .. 1]

TypeOK ==
  /\ mDoingDataAllow \in BOOLEAN /\ mReqDataAllow \in BOOLEAN
  /\ mDisallowingPeer \in 0 .. Cardinality(Slots) - 1
  /\ mLastAllowTrueRequest \in MessageSet \cup {<< >>}
  /\ mOnDemandQueue \in Seq(Types \X Slots) /\ mIsPreferredDataMode \in BOOLEAN
  /\ {allow_data_slot, preferredSim} \subseteq Slots \cup {NoSlot}
  /\ legacy_allow_mode \in {NoSlot, 1}
  /\ SLOT_ALLOW \in [Slots -> -2 .. 1] /\ m_mapProfileIdToken \subseteq Types \X Slots
  /\ mainLooper \in Seq(MessageSet) /\ suspended \in Seq(MessageSet)
  /\ \A s \in Slots : mcl[s] \in Seq(MessageSet)
  /\ mdAllowed \subseteq Slots /\ requests \in Nat /\ answered \in Seq(Nat)
  /\ allowLost \in BOOLEAN /\ cleared \in BOOLEAN

\* The places of the requests at the modem side, and of the responses on their way back
AtModem(queues) == UNION {{<< s, i >> : i \in DOMAIN queues[s]} : s \in Slots}
ResponsesIn(q)  == {i \in DOMAIN q : q[i].type = "response"}

\* How many are under way
UnderWay == Cardinality(AtModem(mcl)) + Cardinality(ResponsesIn(mainLooper))

Quiet == mainLooper = << >> /\ suspended = << >> /\ UnderWay = 0

\* While a conflict is resolved, mDisallowingPeer counts exactly the requests to the
\* peers that are not answered yet; else at most the one request of mDoingDataAllow is
\* under way, and never one without it.  So the flag keeps the framework's requests
\* apart over conflicts and retries: they are answered in their order, each once.
PeersCounted ==
  /\ UnderWay = IF mDisallowingPeer > 0 THEN mDisallowingPeer ELSE IF mDoingDataAllow THEN 1 ELSE 0
  /\ \A i, j \in DOMAIN answered : i < j => answered[i] < answered[j]

\* The property, which onSetDataAllow believes without asking the modem
\* (RtcDataAllowController.cpp:221), is what the modem allows once all messages are done,
\* in preferred data mode and unless an EDALLOW=1 was lost
PropertyIsModem ==
  Quiet /\ PreferredMode /\ ~allowLost
    => mdAllowed = IF allow_data_slot = NoSlot THEN {} ELSE {allow_data_slot}

\* Once all messages are done, the head of the on-demand queue or else the preferred SIM
\* is the slot that is allowed -- unless a client's death cleared the queue
\* (RtcDataAllowController.cpp:691), or a restart forgot what the framework wants.
\* Without preferred data mode no slot stays allowed that the framework did not ask for
\* last, however its requests conflict, unless an EDALLOW=1 was lost.
WantedIsAllowed ==
  /\ Quiet /\ PreferredMode /\ ~allowLost /\ ~cleared /\ Wanted(mOnDemandQueue) # NoSlot
       => mdAllowed = {Wanted(mOnDemandQueue)}
  /\ Quiet /\ ~mIsPreferredDataMode /\ ~allowLost => mdAllowed \subseteq {allow_data_slot}

\* A request under way comes to an end; no later one stays suspended
AllowEnds == mDoingDataAllow ~> ~mDoingDataAllow
=============================================================================
