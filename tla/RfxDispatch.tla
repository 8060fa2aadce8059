---------------------------- MODULE RfxDispatch ----------------------------
(***************************************************************************)
(* The life of a request in the RIL daemon (mtk-ril/framework/core).       *)
(*                                                                         *)
(*  client --> dispatchRequestQueue --> main looper --> RfxRootController  *)
(*     --> (controller: reject | suspend | forward) --> pendingQueue and   *)
(*     Mcl looper --> channel looper --> handler --> enqueueResponse       *)
(*     --> dispatchResponseQueue --> main looper --> controller --> client *)
(*                                                                         *)
(* Threads: one drainer per dispatch queue, the main thread, the Mcl       *)
(* dispatcher, one sender per channel.  A request stands for its token:    *)
(* generateToken gives each RfxMessage its own.  The ignore time stamp of  *)
(* RfxMessageHandler is never set by this code base and is left out.       *)
(***************************************************************************)
EXTENDS Naturals, FiniteSets, SequencesExt, Looper

CONSTANTS
  Ril,           \* requests that RILJ (or another RIL client) issues
  Sap,           \* requests that the Bluetooth SAP socket issues
  Unsupported,   \* requests whose id has no message id (INVALID_ID)
  NoData,        \* requests whose id has no RfxBaseData class
  Exempt,        \* requests their controller accepts with the radio off
  AtFront,       \* requests forwarded with setAddAtFront(true)
  Controllers,   \* controllers that register for requests
  Serial,        \* those that forward one request at a time (mSmsSending)
  GateResponses, \* those whose onPreviewMessage also holds back responses
  Channels,      \* AT channels
  Owner,         \* [Ril \cup Sap -> Controllers \cup {NoOne}]
  Channel,       \* [Ril \cup Sap -> Channels \cup {NoOne}]
  NoOne,         \* nobody registered
  MaxReplies,    \* bound: replies a handler may send for one request
  MaxSync        \* bound: radio state changes reported by the modem side

Requests == Ril \cup Sap

ASSUME ConstAssumption ==
  /\ Ril \cap Sap = {}
  /\ Unsupported \subseteq Requests /\ NoData \subseteq Requests
  /\ Exempt \subseteq Requests /\ AtFront \subseteq Requests
  /\ Serial \subseteq Controllers /\ GateResponses \subseteq Controllers
  /\ Serial \cap GateResponses = {}
  /\ NoOne \notin Controllers \cup Channels
  /\ Owner \in [Requests -> Controllers \cup {NoOne}]
  /\ Channel \in [Requests -> Channels \cup {NoOne}]
  /\ MaxReplies \in Nat /\ MaxSync \in Nat

VARIABLES
  dispatchRequestQueue, dispatchResponseQueue, dispatchStatusSyncQueue,
  mainLooper,          \* RfxMainThread::m_looper
  main,                \* what the main thread is doing
  m_suspended_msg_list,
  pendingQueue,        \* number of entries per token
  mclLooper,           \* RfxMclDispatcherThread::m_looper
  chanLooper,          \* RfxSender::m_looper, per channel
  handled,             \* requests some handler has been given
  mdReplies,           \* replies handlers have sent, per request
  blocked,             \* controller state behind onPreviewMessage
  radioOn,             \* TelCore's RADIO_STATE / MODEM_POWER_OFF
  syncs,               \* radio changes reported so far
  toRilj, toBT,        \* calls of RFX_(SAP_)onRequestComplete, per request
  issued, sent,        \* history: order of issue, order of requestToMcl
  place                \* history: where the request's one message is

queues  == << dispatchRequestQueue, dispatchResponseQueue, dispatchStatusSyncQueue >>
mdVars  == << mclLooper, chanLooper, handled, mdReplies >>
ctlVars == << m_suspended_msg_list, blocked, radioOn >>
outVars == << toRilj, toBT >>
vars == << queues, mainLooper, main, pendingQueue, mdVars, ctlVars, syncs,
           outVars, issued, sent, place >>
-----------------------------------------------------------------------------
(* Messages *)

Msg(t, r) == [type |-> t, req |-> r]
RequestOf(r)  == Msg(IF r \in Sap THEN "SAP_REQUEST" ELSE "REQUEST", r)
ResponseOf(r) == Msg(IF r \in Sap THEN "SAP_RESPONSE" ELSE "RESPONSE", r)
StatusSync(on) == [type |-> "STATUS_SYNC", on |-> on]

Messages == [type : {"REQUEST", "SAP_REQUEST", "RESPONSE", "SAP_RESPONSE"},
             req : Requests]
SyncMessages == [type : {"STATUS_SYNC"}, on : BOOLEAN]

IsRequest(m)  == m.type \in {"REQUEST", "SAP_REQUEST"}
IsResponse(m) == m.type \in {"RESPONSE", "SAP_RESPONSE"}

\* copyData found no class for the id, so getData() is NULL
DataMissing(m) == m.req \in NoData \cup Unsupported

Places == {"new", "request", "main", "suspended", "sending", "mcl", "channel",
           "handler", "response", "done"}
-----------------------------------------------------------------------------
Init ==
  /\ dispatchRequestQueue = << >> /\ dispatchResponseQueue = << >>
  /\ dispatchStatusSyncQueue = << >>
  /\ mainLooper = EmptyLooper
  /\ main = [pc |-> "idle"]
  /\ m_suspended_msg_list = << >>
  /\ pendingQueue = [r \in Requests |-> 0]
  /\ mclLooper = EmptyLooper
  /\ chanLooper = [c \in Channels |-> EmptyLooper]
  /\ handled = {}
  /\ mdReplies = [r \in Requests |-> 0]
  /\ blocked = [c \in Controllers |-> FALSE]
  /\ radioOn = FALSE
  /\ syncs = 0
  /\ toRilj = [r \in Requests |-> 0] /\ toBT = [r \in Requests |-> 0]
  /\ issued = << >> /\ sent = << >>
  /\ place = [r \in Requests |-> "new"]
-----------------------------------------------------------------------------
(* The client threads and the modem side *)

Move(r, p) == place' = [place EXCEPT ![r] = p]

\* enqueueRequestMessage / enqueueSapRequestMessage
EnqueueRequest(r) ==
  /\ place[r] = "new"
  /\ issued' = Append(issued, r)
  /\ \/ /\ r \in Unsupported
        /\ dispatchResponseQueue' = Append(dispatchResponseQueue, ResponseOf(r))
        /\ Move(r, "response")
        /\ UNCHANGED << dispatchRequestQueue, dispatchStatusSyncQueue >>
     \/ /\ r \notin Unsupported
        /\ dispatchRequestQueue' = Append(dispatchRequestQueue, RequestOf(r))
        /\ Move(r, "request")
        /\ UNCHANGED << dispatchResponseQueue, dispatchStatusSyncQueue >>
  /\ UNCHANGED << mainLooper, main, pendingQueue, mdVars, ctlVars, syncs, outVars, sent >>

\* enqueueStatusSyncMessage, from RfxMclStatusManager when the modem reports
EnqueueStatusSync(on) ==
  /\ syncs < MaxSync
  /\ syncs' = syncs + 1
  /\ dispatchStatusSyncQueue' = Append(dispatchStatusSyncQueue, StatusSync(on))
  /\ UNCHANGED << dispatchRequestQueue, dispatchResponseQueue, mainLooper, main,
                  pendingQueue, mdVars, ctlVars, outVars, issued, sent, place >>
-----------------------------------------------------------------------------
(* The three drainers: process*MessageLooper, dequeue then enqueueMessage *)

ProcessRequestQueue ==
  /\ dispatchRequestQueue # << >>
  /\ LET m == Head(dispatchRequestQueue) IN
       /\ mainLooper' = SendMessage(mainLooper, m)
       /\ Move(m.req, "main")
  /\ dispatchRequestQueue' = Tail(dispatchRequestQueue)
  /\ UNCHANGED << dispatchResponseQueue, dispatchStatusSyncQueue, main, pendingQueue,
                  mdVars, ctlVars, syncs, outVars, issued, sent >>

ProcessResponseQueue ==
  /\ dispatchResponseQueue # << >>
  /\ LET m == Head(dispatchResponseQueue) IN
       /\ mainLooper' = SendMessage(mainLooper, m)
       /\ Move(m.req, "main")
  /\ dispatchResponseQueue' = Tail(dispatchResponseQueue)
  /\ UNCHANGED << dispatchRequestQueue, dispatchStatusSyncQueue, main, pendingQueue,
                  mdVars, ctlVars, syncs, outVars, issued, sent >>

ProcessStatusSyncQueue ==
  /\ dispatchStatusSyncQueue # << >>
  /\ mainLooper' = SendMessage(mainLooper, Head(dispatchStatusSyncQueue))
  /\ dispatchStatusSyncQueue' = Tail(dispatchStatusSyncQueue)
  /\ UNCHANGED << dispatchRequestQueue, dispatchResponseQueue, main, pendingQueue,
                  mdVars, ctlVars, syncs, outVars, issued, sent, place >>
-----------------------------------------------------------------------------
(* The main thread: RfxMainHandler::handleMessage *)

\* What follows the dispatch of every message: processEmit, whose effect on
\* the controllers is in the dispatch action, then processSuspendedMessage
AfterMessage == main' = [pc |-> "resume", i |-> 1]

\* onPreviewMessage of the owner, which onCheckIfResumeMessage agrees with;
\* a message nobody registered for is never held back
Closed == {c \in Controllers : blocked[c]}
Admits(c, m) == c \notin Closed \/ (IsResponse(m) /\ c \notin GateResponses)

\* RfxController::onCheckIfRejectMessage, consulted by the root controller
Rejects(m) == ~radioOn /\ m.req \notin Exempt

Taken == LooperHead(mainLooper)
OwnerOf(m) == Owner[m.req]

\* The main thread takes the next message, which is not a status sync
Take(m) ==
  /\ main.pc = "idle"
  /\ LooperBusy(mainLooper)
  /\ m = Taken
  /\ m \in Messages
  /\ mainLooper' = LooperTail(mainLooper)

\* Mutant: a serial controller that opens as soon as it has forwarded
MutControllerActsEarlyOpen(m) ==
  IF OwnerOf(m) = NoOne THEN UNCHANGED blocked
  ELSE IF OwnerOf(m) \in Serial
       THEN blocked' = [blocked EXCEPT ![OwnerOf(m)] = FALSE]
       ELSE \E b \in BOOLEAN : blocked' = [blocked EXCEPT ![OwnerOf(m)] = b]

\* What the owner's code may do to its own admission state.  A serial
\* controller closes when it forwards and opens when the response is back.
ControllerActs(m) ==
  IF OwnerOf(m) = NoOne THEN UNCHANGED blocked
  ELSE IF OwnerOf(m) \in Serial
       THEN blocked' = [blocked EXCEPT ![OwnerOf(m)] = IsRequest(m)]
       ELSE \E b \in BOOLEAN : blocked' = [blocked EXCEPT ![OwnerOf(m)] = b]

\* responseToRilj calls RFX_onRequestComplete for a RESPONSE only, so a
\* SAP_RESPONSE given to it goes nowhere; responseToBT is the other way round
ResponseToRilj(m) == toRilj' = [toRilj EXCEPT ![m.req] = @ + IF m.type = "RESPONSE" THEN 1 ELSE 0]
ResponseToBT(m)   == toBT' = [toBT EXCEPT ![m.req] = @ + IF m.type = "SAP_RESPONSE" THEN 1 ELSE 0]

\* Requests the root controller answers itself with RADIO_NOT_AVAILABLE; a
\* registered owner's verdict counts for REQUEST only, not for SAP_REQUEST
Unavailable(m) ==
  /\ IsRequest(m)
  /\ IF OwnerOf(m) = NoOne THEN ~radioOn ELSE m.type = "REQUEST" /\ Rejects(m)

\* processMessage: data == NULL, REQUEST_NOT_SUPPORTED through responseToRilj
ReplyNotSupported ==
  \E m \in Messages :
    /\ Take(m)
    /\ DataMissing(m)
    /\ ResponseToRilj(ResponseOf(m.req))
    /\ Move(m.req, "done")
    /\ AfterMessage
    /\ UNCHANGED << queues, pendingQueue, mdVars, ctlVars, syncs, toBT, issued, sent >>

\* Mutant: the reply is sent but the return is missing, so it also goes on
MutReplyUnavailableNoReturn ==
  \E m \in Messages :
    /\ Take(m)
    /\ ~DataMissing(m) /\ Unavailable(m)
    /\ ResponseToRilj(Msg("RESPONSE", m.req))
    /\ Move(m.req, "sending")
    /\ main' = [pc |-> "send", req |-> m.req,
                steps |-> << "addMessageToPendingQueue", "enqueueMclMessage" >>]
    /\ UNCHANGED << queues, pendingQueue, mdVars, ctlVars, syncs, toBT, issued, sent >>

\* processMessage: radio or modem off, obtainResponse makes a RESPONSE
ReplyUnavailable ==
  \E m \in Messages :
    /\ Take(m)
    /\ ~DataMissing(m) /\ Unavailable(m)
    /\ ResponseToRilj(Msg("RESPONSE", m.req))
    /\ Move(m.req, "done")
    /\ AfterMessage
    /\ UNCHANGED << queues, pendingQueue, mdVars, ctlVars, syncs, toBT, issued, sent >>

\* RfxController::processMessage: suspended when the preview says no
Suspend ==
  \E m \in Messages :
    /\ Take(m)
    /\ ~DataMissing(m) /\ ~Unavailable(m)
    /\ ~Admits(OwnerOf(m), m)
    /\ m_suspended_msg_list' = Append(m_suspended_msg_list, m)
    /\ Move(m.req, "suspended")
    /\ AfterMessage
    /\ UNCHANGED << queues, pendingQueue, mdVars, blocked, radioOn, syncs, outVars,
                    issued, sent >>

\* Mutant: the modem side gets the request before the token is recorded
MutRequestToMclStepsSwapped == << "enqueueMclMessage", "addMessageToPendingQueue" >>

\* The calls requestToMcl makes, in order
RequestToMclSteps == << "addMessageToPendingQueue", "enqueueMclMessage" >>

\* onHandleRequest (or no owner): requestToMcl begins
Forward ==
  \E m \in Messages :
    /\ Take(m)
    /\ ~DataMissing(m) /\ ~Unavailable(m)
    /\ IsRequest(m)
    /\ Admits(OwnerOf(m), m)
    /\ ControllerActs(m)
    /\ Move(m.req, "sending")
    /\ main' = [pc |-> "send", req |-> m.req, steps |-> RequestToMclSteps]
    /\ UNCHANGED << queues, pendingQueue, mdVars, m_suspended_msg_list, radioOn, syncs,
                    outVars, issued, sent >>

\* onHandleResponse, or no owner: back to the client the type belongs to
Deliver ==
  \E m \in Messages :
    /\ Take(m)
    /\ ~DataMissing(m)
    /\ IsResponse(m)
    /\ Admits(OwnerOf(m), m)
    /\ ControllerActs(m)
    /\ ResponseToRilj(m) /\ ResponseToBT(m)
    /\ Move(m.req, "done")
    /\ AfterMessage
    /\ UNCHANGED << queues, pendingQueue, mdVars, m_suspended_msg_list, radioOn, syncs,
                    issued, sent >>

\* STATUS_SYNC: RfxStatusManager::setValueByRfx
ApplyStatusSync ==
  /\ main.pc = "idle"
  /\ LooperBusy(mainLooper)
  /\ Taken \in SyncMessages
  /\ mainLooper' = LooperTail(mainLooper)
  /\ radioOn' = Taken.on
  /\ AfterMessage
  /\ UNCHANGED << queues, pendingQueue, mdVars, m_suspended_msg_list, blocked, syncs,
                  outVars, issued, sent, place >>

\* A URC or timer handled on the main thread changes a controller; it is a
\* normal looper message, so no resumed message is waiting in front of it
ControllerEvent(c) ==
  /\ main.pc = "idle"
  /\ mainLooper.hi = << >>
  /\ c \notin Serial
  /\ blocked' = [blocked EXCEPT ![c] = ~@]
  /\ AfterMessage
  /\ UNCHANGED << queues, mainLooper, pendingQueue, mdVars, m_suspended_msg_list, radioOn,
                  syncs, outVars, issued, sent, place >>

\* RfxRilAdapter::requestToMcl, one call at a time
AddMessageToPendingQueue ==
  /\ main.pc = "send"
  /\ Head(main.steps) = "addMessageToPendingQueue"
  /\ pendingQueue' = [pendingQueue EXCEPT ![main.req] = @ + 1]
  /\ UNCHANGED << mclLooper, sent, place >>

EnqueueMclMessage ==
  /\ main.pc = "send"
  /\ Head(main.steps) = "enqueueMclMessage"
  /\ mclLooper' = IF main.req \in AtFront THEN SendMessageFront(mclLooper, main.req)
                                          ELSE SendMessage(mclLooper, main.req)
  /\ sent' = Append(sent, main.req)
  /\ Move(main.req, "mcl")
  /\ UNCHANGED pendingQueue

RequestToMcl ==
  /\ AddMessageToPendingQueue \/ EnqueueMclMessage
  /\ IF Len(main.steps) = 1 THEN AfterMessage
     ELSE main' = [pc |-> "send", req |-> main.req, steps |-> Tail(main.steps)]
  /\ UNCHANGED << queues, mainLooper, chanLooper, handled, mdReplies, ctlVars, syncs,
                  outVars, issued >>

\* Mutant: a resumed message goes to the end of the main looper
MutResumeMessageAtEnd ==
  /\ main.pc = "resume"
  /\ main.i <= Len(m_suspended_msg_list)
  /\ LET m == m_suspended_msg_list[main.i] IN
       /\ Admits(OwnerOf(m), m)
       /\ mainLooper' = SendMessage(mainLooper, m)
       /\ m_suspended_msg_list' = RemoveAt(m_suspended_msg_list, main.i)
       /\ Move(m.req, "main")
  /\ UNCHANGED << queues, main, pendingQueue, mdVars, blocked, radioOn, syncs, outVars,
                  issued, sent >>

\* Mutant: the index moves on although the entry under it was removed
MutResumeMessageSkips ==
  /\ main.pc = "resume"
  /\ main.i <= Len(m_suspended_msg_list)
  /\ LET m == m_suspended_msg_list[main.i] IN
       /\ Admits(OwnerOf(m), m)
       /\ mainLooper' = SendMessageFront(mainLooper, m)
       /\ m_suspended_msg_list' = RemoveAt(m_suspended_msg_list, main.i)
       /\ Move(m.req, "main")
  /\ main' = [pc |-> "resume", i |-> main.i + 1]
  /\ UNCHANGED << queues, pendingQueue, mdVars, blocked, radioOn, syncs, outVars,
                  issued, sent >>

\* processSuspendedMessage, one entry of the list at a time
ResumeMessage ==
  /\ main.pc = "resume"
  /\ main.i <= Len(m_suspended_msg_list)
  /\ LET m == m_suspended_msg_list[main.i] IN
       /\ Admits(OwnerOf(m), m)
       /\ mainLooper' = SendMessageFront(mainLooper, m)
       /\ m_suspended_msg_list' = RemoveAt(m_suspended_msg_list, main.i)
       /\ Move(m.req, "main")
  /\ UNCHANGED << queues, main, pendingQueue, mdVars, blocked, radioOn, syncs, outVars,
                  issued, sent >>

KeepSuspended ==
  /\ main.pc = "resume"
  /\ main.i <= Len(m_suspended_msg_list)
  /\ LET m == m_suspended_msg_list[main.i] IN ~Admits(OwnerOf(m), m)
  /\ main' = [pc |-> "resume", i |-> main.i + 1]
  /\ UNCHANGED << queues, mainLooper, pendingQueue, mdVars, ctlVars, syncs, outVars, issued,
                  sent, place >>

HandleMessageEnd ==
  /\ main.pc = "resume"
  /\ main.i > Len(m_suspended_msg_list)
  /\ main' = [pc |-> "idle"]
  /\ UNCHANGED << queues, mainLooper, pendingQueue, mdVars, ctlVars, syncs, outVars, issued,
                  sent, place >>
-----------------------------------------------------------------------------
(* The Mcl dispatcher thread, the channels and the handlers *)

\* Mutant: every answer is taken for the answer of a pending request
MutEnqueueResponseUnchecked(r, m) ==
  /\ pendingQueue' = [pendingQueue EXCEPT ![r] = @ - 1]
  /\ dispatchResponseQueue' = Append(dispatchResponseQueue, m)
  /\ Move(r, "response")

\* enqueueResponseMessage: the response exists only if the token was pending
EnqueueResponse(r, m) ==
  IF pendingQueue[r] > 0
  THEN /\ pendingQueue' = [pendingQueue EXCEPT ![r] = @ - 1]
       /\ dispatchResponseQueue' = Append(dispatchResponseQueue, m)
       /\ Move(r, "response")
  ELSE UNCHANGED << pendingQueue, dispatchResponseQueue, place >>

\* Mutant: a request nobody registered for is dropped
MutMclDispatchDrops ==
  /\ LooperBusy(mclLooper)
  /\ LET r == LooperHead(mclLooper) IN
       \/ /\ Channel[r] # NoOne
          /\ chanLooper' = [chanLooper EXCEPT ![Channel[r]] =
                              IF r \in AtFront THEN SendMessageFront(@, r) ELSE SendMessage(@, r)]
          /\ Move(r, "channel")
       \/ /\ Channel[r] = NoOne
          /\ UNCHANGED << chanLooper, place >>
  /\ mclLooper' = LooperTail(mclLooper)
  /\ UNCHANGED << queues, mainLooper, main, pendingQueue, handled, mdReplies, ctlVars, syncs,
                  outVars, issued, sent >>

\* RfxMclMessenger::onHandleMessage
MclDispatch ==
  /\ LooperBusy(mclLooper)
  /\ LET r == LooperHead(mclLooper) IN
       \/ /\ Channel[r] # NoOne
          /\ chanLooper' = [chanLooper EXCEPT ![Channel[r]] =
                              IF r \in AtFront THEN SendMessageFront(@, r) ELSE SendMessage(@, r)]
          /\ Move(r, "channel")
          /\ UNCHANGED << pendingQueue, dispatchResponseQueue >>
       \/ /\ Channel[r] = NoOne
          /\ EnqueueResponse(r, Msg("RESPONSE", r))
          /\ UNCHANGED chanLooper
  /\ mclLooper' = LooperTail(mclLooper)
  /\ UNCHANGED << dispatchRequestQueue, dispatchStatusSyncQueue, mainLooper, main, handled,
                  mdReplies, ctlVars, syncs, outVars, issued, sent >>

\* RfxSender::processMessage gives the request to its handler
ChannelDispatch(c) ==
  /\ LooperBusy(chanLooper[c])
  /\ LET r == LooperHead(chanLooper[c]) IN
       /\ handled' = handled \cup {r}
       /\ Move(r, "handler")
  /\ chanLooper' = [chanLooper EXCEPT ![c] = LooperTail(@)]
  /\ UNCHANGED << queues, mainLooper, main, pendingQueue, mclLooper, mdReplies, ctlVars,
                  syncs, outVars, issued, sent >>

\* A handler answers, while it runs or later from a URC, perhaps again
HandlerReply(r) ==
  /\ r \in handled
  /\ mdReplies[r] < MaxReplies
  /\ mdReplies' = [mdReplies EXCEPT ![r] = @ + 1]
  /\ EnqueueResponse(r, ResponseOf(r))
  /\ UNCHANGED << dispatchRequestQueue, dispatchStatusSyncQueue, mainLooper, main, mclLooper,
                  chanLooper, handled, ctlVars, syncs, outVars, issued, sent >>
-----------------------------------------------------------------------------
MainThread ==
  \/ ReplyNotSupported \/ ReplyUnavailable \/ Suspend \/ Forward \/ Deliver
  \/ ApplyStatusSync \/ RequestToMcl \/ ResumeMessage \/ KeepSuspended \/ HandleMessageEnd

Drainers == ProcessRequestQueue \/ ProcessResponseQueue \/ ProcessStatusSyncQueue

Next ==
  \/ \E r \in Requests : EnqueueRequest(r) \/ HandlerReply(r)
  \/ \E on \in BOOLEAN : EnqueueStatusSync(on)
  \/ Drainers
  \/ MainThread
  \/ \E c \in Controllers : ControllerEvent(c)
  \/ MclDispatch
  \/ \E c \in Channels : ChannelDispatch(c)

Spec == Init /\ [][Next]_vars

\* Every thread keeps running, and every handler answers at least once
Fairness ==
  /\ WF_vars(ProcessRequestQueue) /\ WF_vars(ProcessResponseQueue)
  /\ WF_vars(ProcessStatusSyncQueue)
  /\ WF_vars(MainThread)
  /\ WF_vars(MclDispatch)
  /\ \A c \in Channels : WF_vars(ChannelDispatch(c))
  /\ \A r \in Requests : WF_vars(HandlerReply(r))

FairSpec == Spec /\ Fairness
-----------------------------------------------------------------------------
(* Properties *)

MainStates == [pc : {"idle"}] \cup [pc : {"resume"}, i : Nat \ {0}]
              \cup [pc : {"send"}, req : Requests,
                    steps : Seq({"addMessageToPendingQueue", "enqueueMclMessage"}) \ {<< >>}]

(* Every queue and looper holds the messages its readers expect. *)
TypeOK ==
  /\ dispatchRequestQueue \in Seq(Messages)
  /\ dispatchResponseQueue \in Seq(Messages)
  /\ dispatchStatusSyncQueue \in Seq(SyncMessages)
  /\ mainLooper \in LooperOf(Messages \cup SyncMessages)
  /\ main \in MainStates
  /\ m_suspended_msg_list \in Seq(Messages)
  /\ pendingQueue \in [Requests -> Nat]
  /\ mclLooper \in LooperOf(Requests)
  /\ chanLooper \in [Channels -> LooperOf(Requests)]
  /\ handled \subseteq Requests
  /\ mdReplies \in [Requests -> Nat]
  /\ blocked \in [Controllers -> BOOLEAN]
  /\ radioOn \in BOOLEAN
  /\ syncs \in Nat
  /\ toRilj \in [Requests -> Nat] /\ toBT \in [Requests -> Nat]
  /\ issued \in Seq(Requests) /\ sent \in Seq(Requests)
  /\ place \in [Requests -> Places]

(* RFX_onRequestComplete frees the client's RequestInfo, so completing one
   request twice hands libril a dangling token.  Whatever rejects, resumes,
   duplicate handler replies or NOT_SUPPORTED answers happen on the way, a
   request is completed at most once, on one of the two sockets. *)
AtMostOneReply == \A r \in Requests : toRilj[r] + toBT[r] <= 1

(* requestToMcl records the token before the modem side can see the request,
   and only enqueueResponseMessage takes it out: the first answer for a
   request that the modem side holds always finds its pending entry, so it is
   never dropped as "No correspending request!". *)
FirstReplyFindsRequest ==
  \A r \in Requests :
    (\/ r \in ToSet(mclLooper.hi) \cup ToSet(mclLooper.lo)
     \/ \E c \in Channels : r \in ToSet(chanLooper[c].hi) \cup ToSet(chanLooper[c].lo)
     \/ r \in handled /\ mdReplies[r] = 0)
    => pendingQueue[r] = 1

Position(q, x) == CHOOSE i \in DOMAIN q : q[i] = x

IssuedBefore(r1, r2) == Position(issued, r1) < Position(issued, r2)

(* Suspension does not reorder: the requests one controller handles reach the
   modem side in the order they were issued, because a resumed message goes to
   the front of the main looper, behind the ones resumed with it. *)
ControllerOrder ==
  \A i, j \in DOMAIN sent :
    i < j /\ Owner[sent[i]] = Owner[sent[j]] => IssuedBefore(sent[i], sent[j])

(* "the messages are recorded in the list in the sequence of they are enqueued
   into main looper": the suspended requests of one controller stay in issue
   order, also after some were resumed and suspended again. *)
SuspendedInOrder ==
  \A i, j \in DOMAIN m_suspended_msg_list :
    LET m == m_suspended_msg_list[i]  n == m_suspended_msg_list[j] IN
      i < j /\ IsRequest(m) /\ IsRequest(n) /\ OwnerOf(m) = OwnerOf(n)
      => IssuedBefore(m.req, n.req)

(* Between two looper messages no suspended message is left whose controller
   would take it: processSuspendedMessage skips none when it removes entries
   while it walks the list. *)
NoneLeftBehind ==
  main.pc = "idle" =>
    \A i \in DOMAIN m_suspended_msg_list :
      ~Admits(OwnerOf(m_suspended_msg_list[i]), m_suspended_msg_list[i])

\* Forwarded (or being forwarded) and the response not yet processed
Outstanding(r) == (r \in ToSet(sent) \/ place[r] = "sending") /\ place[r] # "done"

(* "We only send one request to rmc, the following request should queue in
   rtc": a serial controller has at most one request between requestToMcl and
   the handling of its response, although several resume at once. *)
SerialOneOutstanding ==
  \A c \in Serial :
    Cardinality({r \in Requests : Owner[r] = c /\ Outstanding(r)}) <= 1

(* Every request a RIL client issues is completed, provided the controllers
   other than the serial ones do not stay closed for ever. *)
RilAnswered ==
  (\A c \in Controllers \ Serial : <>[](~blocked[c]))
  => \A r \in Ril : place[r] # "new" ~> toRilj[r] = 1

(* "send NOT_SUPPORT to BT process": a SAP request with an unknown id is
   answered on the SAP socket. *)
SapNotSupportedAnswered ==
  \A r \in Sap \cap Unsupported : place[r] # "new" ~> toBT[r] = 1
=============================================================================
