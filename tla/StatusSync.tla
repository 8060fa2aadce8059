----------------------------- MODULE StatusSync -----------------------------
(***************************************************************************)
(* The status keys of the RIL daemon (RfxStatusManager on the main thread, *)
(* RfxMclStatusManager on the modem side).  Every key has a copy on either *)
(* side; a setter writes its own copy and sends the value to the other.    *)
(*                                                                         *)
(*   modem side --> dispatchStatusSyncQueue --> main looper --> TelCore    *)
(*   TelCore    --> Mcl looper --> Mcl dispatcher thread --> modem side    *)
(*                                                                         *)
(* One slot is modelled; a copy whose entry is NULL reads as Default.      *)
(***************************************************************************)
EXTENDS Naturals, FiniteSets, Looper

CONSTANTS
  Keys, Values,
  Default,    \* the value of the default table, in Values
  Watched,    \* keys with a callback (registerStatusChanged)
  Threads,    \* modem-side threads that set values
  Writers,    \* [Keys -> SUBSET (Threads \cup {"main"})]: who sets a key
  Forced,     \* keys whose setters pass force_notify
  Requests,   \* requests forwarded to the modem side between the updates
  AtFront,    \* those with setAddAtFront(true)
  MaxWrites   \* bound: calls of setValue

ASSUME StatusAssumption ==
  /\ Default \in Values /\ Watched \subseteq Keys
  /\ "main" \notin Threads
  /\ Writers \in [Keys -> SUBSET (Threads \cup {"main"})]
  /\ Forced \subseteq Keys
  /\ AtFront \subseteq Requests /\ MaxWrites \in Nat

VARIABLES
  tcValue, mclValue,   \* the two copies
  setting,             \* per thread, the update it has stored but not sent
  dispatchStatusSyncQueue, mainLooper,   \* updates on their way to TelCore
  mclLooper,           \* updates and requests on their way to the modem side
  asyncQueue,          \* RfxAsyncSignalQueue: callbacks posted, not yet run
  heard,               \* the value a key's callback was last given
  writes,              \* calls of setValue so far
  forwarded,           \* requests sent to the modem side
  \* history
  raced,               \* keys set by two parties within one propagation time
  down,                \* updates sent to the modem side so far
  early                \* requests dispatched before an update sent ahead of them

tcVars   == << tcValue, asyncQueue, heard >>
upVars   == << dispatchStatusSyncQueue, mainLooper >>
vars == << tcVars, mclValue, setting, upVars, mclLooper, writes, forwarded, raced, down, early >>
-----------------------------------------------------------------------------
Updates == [key : Keys, value : Values]
Idle == [key |-> "none"]

\* A request, with the number of updates sent before it
Sent(r) == [req |-> r, after |-> down]

Init ==
  /\ tcValue = [k \in Keys |-> Default] /\ mclValue = [k \in Keys |-> Default]
  /\ setting = [t \in Threads |-> Idle]
  /\ dispatchStatusSyncQueue = << >> /\ mainLooper = << >>
  /\ mclLooper = EmptyLooper
  /\ asyncQueue = << >> /\ heard = [k \in Watched |-> Default]
  /\ writes = 0 /\ forwarded = {}
  /\ raced = {} /\ down = 0 /\ early = {}

UpdatesIn(q) == {i \in DOMAIN q : q[i] \in Updates}

OfKey(q, k) == \E i \in DOMAIN q : q[i] \in Updates /\ q[i].key = k

GoingUp(k) ==
  \/ \E t \in Threads : setting[t] # Idle /\ setting[t].key = k
  \/ OfKey(dispatchStatusSyncQueue, k) \/ OfKey(mainLooper, k)
GoingDown(k) == OfKey(mclLooper.lo, k)
-----------------------------------------------------------------------------
(* The main thread *)

\* RfxStatusManager::setValueInternal: store, and post to the callbacks.  No
\* caller passes is_default.
SetTelCore(u) ==
  /\ tcValue' = [tcValue EXCEPT ![u.key] = u.value]
  /\ asyncQueue' = IF u.key \in Watched /\ (tcValue[u.key] # u.value \/ u.key \in Forced)
                   THEN Append(asyncQueue, u) ELSE asyncQueue

\* A controller sets a value (also from within a callback): updateValueMdComm
TelCoreSetValue(u) ==
  /\ writes < MaxWrites
  /\ "main" \in Writers[u.key]
  /\ writes' = writes + 1
  /\ SetTelCore(u)
  /\ mclLooper' = SendMessage(mclLooper, u) /\ down' = down + 1
  /\ raced' = IF GoingUp(u.key) THEN raced \cup {u.key} ELSE raced
  /\ UNCHANGED << mclValue, setting, upVars, heard, forwarded, early >>

\* Mutant: an update that arrives while a request waits is dropped
MutApplySyncDrops ==
  /\ asyncQueue = << >> /\ mainLooper # << >>
  /\ IF LooperBusy(mclLooper) THEN UNCHANGED << tcValue, asyncQueue >>
     ELSE SetTelCore(Head(mainLooper))
  /\ mainLooper' = Tail(mainLooper)
  /\ UNCHANGED << mclValue, setting, dispatchStatusSyncQueue, mclLooper, heard, writes,
                  forwarded, raced, down, early >>

\* STATUS_SYNC in RfxRootController::processMessage: setValueByRfx.  A message
\* is taken only when the callbacks of the one before have run.
ApplySync ==
  /\ asyncQueue = << >> /\ mainLooper # << >>
  /\ SetTelCore(Head(mainLooper))
  /\ mainLooper' = Tail(mainLooper)
  /\ UNCHANGED << mclValue, setting, dispatchStatusSyncQueue, mclLooper, heard, writes,
                  forwarded, raced, down, early >>

\* RfxAsyncSignalQueue::processEmit, one callback
ProcessEmit ==
  /\ asyncQueue # << >>
  /\ LET u == Head(asyncQueue) IN heard' = [heard EXCEPT ![u.key] = u.value]
  /\ asyncQueue' = Tail(asyncQueue)
  /\ UNCHANGED << tcValue, mclValue, setting, upVars, mclLooper, writes, forwarded,
                  raced, down, early >>

\* Mutant: every request goes to the front of the Mcl looper
MutForwardAlwaysFront(r) ==
  /\ r \notin forwarded
  /\ forwarded' = forwarded \cup {r}
  /\ mclLooper' = SendMessageFront(mclLooper, Sent(r))
  /\ UNCHANGED << tcVars, mclValue, setting, upVars, writes, raced, down, early >>

\* RfxRilAdapter::requestToMcl, of a request
ForwardRequest(r) ==
  /\ r \notin forwarded
  /\ forwarded' = forwarded \cup {r}
  /\ mclLooper' = IF r \in AtFront THEN SendMessageFront(mclLooper, Sent(r))
                                   ELSE SendMessage(mclLooper, Sent(r))
  /\ UNCHANGED << tcVars, mclValue, setting, upVars, writes, raced, down, early >>
-----------------------------------------------------------------------------
(* The modem side *)

\* RfxMclStatusManager::setValueInternal, under the key's mutex
MclSetValue(t, u) ==
  /\ writes < MaxWrites
  /\ t \in Writers[u.key]
  /\ setting[t] = Idle
  /\ writes' = writes + 1
  /\ mclValue' = [mclValue EXCEPT ![u.key] = u.value]
  /\ setting' = [setting EXCEPT ![t] = u]
  /\ raced' = IF \/ GoingDown(u.key)
                 \/ \E s \in Threads : setting[s] # Idle /\ setting[s].key = u.key
              THEN raced \cup {u.key} ELSE raced
  /\ UNCHANGED << tcVars, upVars, mclLooper, forwarded, down, early >>

\* Mutant: enqueue as its comment has it, "to the front"
MutUpdateToTelCoreFront(t) ==
  /\ setting[t] # Idle
  /\ dispatchStatusSyncQueue' = << setting[t] >> \o dispatchStatusSyncQueue
  /\ setting' = [setting EXCEPT ![t] = Idle]
  /\ UNCHANGED << tcVars, mclValue, mainLooper, mclLooper, writes, forwarded, raced, down, early >>

\* updateValueToTelCore, after the mutex is released
UpdateValueToTelCore(t) ==
  /\ setting[t] # Idle
  /\ dispatchStatusSyncQueue' = Append(dispatchStatusSyncQueue, setting[t])
  /\ setting' = [setting EXCEPT ![t] = Idle]
  /\ UNCHANGED << tcVars, mclValue, mainLooper, mclLooper, writes, forwarded, raced, down, early >>

ProcessStatusSyncQueue ==
  /\ dispatchStatusSyncQueue # << >>
  /\ mainLooper' = Append(mainLooper, Head(dispatchStatusSyncQueue))
  /\ dispatchStatusSyncQueue' = Tail(dispatchStatusSyncQueue)
  /\ UNCHANGED << tcVars, mclValue, setting, mclLooper, writes, forwarded, raced, down, early >>

\* RfxMclMessenger::onHandleMessage: STATUS_SYNC is stored, a request goes on
\* to its channel
MclDispatch ==
  /\ LooperBusy(mclLooper)
  /\ LET m == LooperHead(mclLooper) IN
       \/ /\ m \in Updates
          /\ mclValue' = [mclValue EXCEPT ![m.key] = m.value]
          /\ UNCHANGED early
       \/ /\ m \notin Updates
          /\ early' = IF m.after + Cardinality(UpdatesIn(mclLooper.lo)) > down
                      THEN early \cup {m.req} ELSE early
          /\ UNCHANGED mclValue
  /\ mclLooper' = LooperTail(mclLooper)
  /\ UNCHANGED << tcVars, setting, upVars, writes, forwarded, raced, down >>
-----------------------------------------------------------------------------
Next ==
  \/ \E u \in Updates : TelCoreSetValue(u) \/ \E t \in Threads : MclSetValue(t, u)
  \/ \E r \in Requests : ForwardRequest(r)
  \/ ApplySync \/ ProcessEmit
  \/ \E t \in Threads : UpdateValueToTelCore(t)
  \/ ProcessStatusSyncQueue
  \/ MclDispatch

Spec == Init /\ [][Next]_vars

\* Each thread keeps running: it blocks on nothing but its own queue
Fairness ==
  /\ WF_vars(ApplySync) /\ WF_vars(ProcessEmit)
  /\ WF_vars(ProcessStatusSyncQueue) /\ WF_vars(MclDispatch)
  /\ \A t \in Threads : WF_vars(UpdateValueToTelCore(t))

FairSpec == Spec /\ Fairness
-----------------------------------------------------------------------------
(* Properties *)

(* Both copies, the paths between them and the posted callbacks hold status
   values of known keys. *)
TypeOK ==
  /\ tcValue \in [Keys -> Values] /\ mclValue \in [Keys -> Values]
  /\ setting \in [Threads -> Updates \cup {Idle}]
  /\ dispatchStatusSyncQueue \in Seq(Updates) /\ mainLooper \in Seq(Updates)
  /\ asyncQueue \in Seq(Updates) /\ heard \in [Watched -> Values]
  /\ writes \in Nat /\ forwarded \subseteq Requests
  /\ down \in Nat /\ raced \subseteq Keys /\ early \subseteq Requests

(* setValueInternal writes one copy and sends the value to the other without
   a version or an acknowledgement.  The copies can only end up different when
   two parties set the key within one propagation time; for a key with one
   setter, or setters that wait for each other, they agree as soon as no
   update of it is under way.  The callbacks hold a third copy: a callback is
   given the value of its update, not the current one, and runs after the
   message that caused it.  When none is left to run, the last value each was
   given is the current one: no change, forced or not, from here or from the
   modem side, goes unannounced or is announced late. *)
ReplicasAgree ==
  /\ \A k \in Keys \ raced : ~GoingUp(k) /\ ~GoingDown(k) => tcValue[k] = mclValue[k]
  /\ asyncQueue = << >> => \A k \in Watched : heard[k] = tcValue[k]

(* A handler that runs for a request finds on the modem side every status
   TelCore set before it forwarded the request, since both take the Mcl
   looper; only a request added at the front can be too early. *)
RequestFindsStatus == early \subseteq AtFront

(* With every thread running, the copies of a key nobody raced for become
   equal and stay so: no update goes round in circles or gets lost. *)
EventuallyAgree == \A k \in Keys : <>[](k \in raced \/ tcValue[k] = mclValue[k])
=============================================================================
