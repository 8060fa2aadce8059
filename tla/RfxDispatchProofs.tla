------------------------- MODULE RfxDispatchProofs -------------------------
(***************************************************************************)
(* Proofs about RfxDispatch, for every set of requests, controllers and    *)
(* channels and every bound.  The last part is about the gates of the      *)
(* controllers: a serial controller (mSmsSending) has one request with the *)
(* modem side at a time, because its gate is closed exactly as long as its *)
(* request is out; the walk over the suspended list leaves no message      *)
(* behind an open gate; and suspension does not reorder: the requests of   *)
(* one controller stay in the order of their issue in the suspended list,  *)
(* and reach the modem side in that order.                                 *)
(***************************************************************************)
EXTENDS RfxDispatchInv, SequenceTheorems, FiniteSetTheorems, TLAPS

-----------------------------------------------------------------------------
(* Loopers and sequences *)

(* sendMessage and sendMessageAtTime keep a Looper's list of messages one. *)
LEMMA LooperSendType ==
  ASSUME NEW S, NEW l \in LooperOf(S), NEW m \in S
  PROVE  SendMessage(l, m) \in LooperOf(S) /\ SendMessageFront(l, m) \in LooperOf(S)
<1>1. l.hi \in Seq(S) /\ l.lo \in Seq(S)
  BY DEF LooperOf
<1>2. Append(l.hi, m) \in Seq(S) /\ Append(l.lo, m) \in Seq(S)
  BY <1>1
<1> QED
  BY <1>1, <1>2 DEF LooperOf, SendMessage, SendMessageFront

(* pollInner takes one of the Looper's messages and leaves the others. *)
LEMMA LooperTakeType ==
  ASSUME NEW S, NEW l \in LooperOf(S), LooperBusy(l)
  PROVE  LooperHead(l) \in S /\ LooperTail(l) \in LooperOf(S)
<1>1. l.hi \in Seq(S) /\ l.lo \in Seq(S)
  BY DEF LooperOf
<1>2. CASE l.hi # << >>
  <2>1. Head(l.hi) \in S /\ Tail(l.hi) \in Seq(S)
    BY <1>1, <1>2
  <2> QED
    BY <1>1, <1>2, <2>1 DEF LooperOf, LooperHead, LooperTail
<1>3. CASE l.hi = << >>
  <2>1. Head(l.lo) \in S /\ Tail(l.lo) \in Seq(S)
    BY <1>1, <1>3 DEF LooperBusy
  <2> QED
    BY <1>1, <1>3, <2>1 DEF LooperOf, LooperHead, LooperTail
<1> QED
  BY <1>2, <1>3

(* erase on the suspended list leaves a list of the same messages. *)
LEMMA RemoveAtType ==
  ASSUME NEW S, NEW s \in Seq(S), NEW i \in 1 .. Len(s)
  PROVE  /\ RemoveAt(s, i) \in Seq(S)
         /\ Len(RemoveAt(s, i)) = Len(s) - 1
         /\ \A j \in 1 .. Len(s) - 1 : RemoveAt(s, i)[j] = IF j < i THEN s[j] ELSE s[j + 1]
<1>1. SubSeq(s, 1, i - 1) \in Seq(S) /\ SubSeq(s, i + 1, Len(s)) \in Seq(S)
  OBVIOUS
<1>2. Len(SubSeq(s, 1, i - 1)) = i - 1 /\ Len(SubSeq(s, i + 1, Len(s))) = Len(s) - i
  OBVIOUS
<1>3. \A j \in 1 .. i - 1 : SubSeq(s, 1, i - 1)[j] = s[j]
  OBVIOUS
<1>4. \A j \in 1 .. Len(s) - i : SubSeq(s, i + 1, Len(s))[j] = s[i + j]
  OBVIOUS
<1> QED
  <2> DEFINE a == SubSeq(s, 1, i - 1)
             b == SubSeq(s, i + 1, Len(s))
  <2>1. RemoveAt(s, i) = a \o b
    BY DEF RemoveAt
  <2>2. a \in Seq(S) /\ b \in Seq(S) /\ Len(a) = i - 1 /\ Len(b) = Len(s) - i
    BY <1>1, <1>2
  <2>3. /\ \A j \in 1 .. i - 1 : a[j] = s[j]
        /\ \A j \in 1 .. Len(s) - i : b[j] = s[i + j]
    BY <1>3, <1>4
  <2> HIDE DEF a, b
  <2>4. a \o b \in Seq(S) /\ Len(a \o b) = Len(s) - 1
    BY <2>2
  <2>5. \A j \in 1 .. Len(s) - 1 : (a \o b)[j] = IF j < i THEN s[j] ELSE s[j + 1]
    BY <2>2, <2>3, ConcatProperties
  <2> QED
    BY <2>1, <2>4, <2>5

-----------------------------------------------------------------------------
(* Type correctness *)

(* The four kinds of message built by RfxMessage::obtain* are Messages. *)
LEMMA MessageTypes ==
  ASSUME NEW r \in Requests
  PROVE  RequestOf(r) \in Messages /\ ResponseOf(r) \in Messages
         /\ Msg("RESPONSE", r) \in Messages
BY DEF RequestOf, ResponseOf, Msg, Messages

(* Moving a request between two named places keeps the history variable typed. *)
LEMMA MoveType ==
  ASSUME TypeOK, NEW r \in Requests, NEW p \in Places, Move(r, p)
  PROVE  place' \in [Requests -> Places]
BY DEF TypeOK, Move

(* Dropping the first of two or more steps leaves a step. *)
LEMMA TailType ==
  ASSUME NEW S, NEW s \in Seq(S) \ {<< >>}, Len(s) # 1
  PROVE  Tail(s) \in Seq(S) \ {<< >>}
<1>1. s \in Seq(S) /\ s # << >>
  OBVIOUS
<1>2. Len(s) \in Nat /\ Len(s) # 0
  BY <1>1, EmptySeq
<1>3. Tail(s) \in Seq(S) /\ Len(Tail(s)) = Len(s) - 1
  BY <1>1
<1>4. Len(Tail(s)) # 0
  BY <1>2, <1>3
<1>5. Tail(s) # << >>
  BY <1>4, EmptySeq
<1> QED
  BY <1>3, <1>5

(* Taking a message keeps the main looper well typed. *)
LEMMA TakeType ==
  ASSUME TypeOK, NEW m \in Messages, Take(m)
  PROVE  m.req \in Requests /\ mainLooper' \in LooperOf(Messages \cup SyncMessages)
BY LooperTakeType DEF TypeOK, Take, Messages

(* The state the main thread returns to after a message is a main state. *)
LEMMA AfterMessageType == AfterMessage => main' \in MainStates
BY DEF AfterMessage, MainStates

(* A controller's admission state stays a Boolean per controller. *)
LEMMA ControllerActsType ==
  ASSUME TypeOK, NEW m \in Messages, ControllerActs(m)
  PROVE  blocked' \in [Controllers -> BOOLEAN]
<1>1. IsRequest(m) \in BOOLEAN
  BY DEF IsRequest
<1>2. CASE OwnerOf(m) = NoOne
  BY <1>2 DEF TypeOK, ControllerActs
<1>3. CASE OwnerOf(m) # NoOne
  <2>1. PICK b \in BOOLEAN : blocked' = [blocked EXCEPT ![OwnerOf(m)] = b]
    BY <1>1, <1>3 DEF ControllerActs
  <2> QED
    BY <2>1 DEF TypeOK
<1> QED
  BY <1>2, <1>3

(* The two client-facing counters stay natural numbers. *)
LEMMA ReplyType ==
  ASSUME TypeOK, NEW m \in Messages
  PROVE  /\ ResponseToRilj(m) => toRilj' \in [Requests -> Nat]
         /\ ResponseToBT(m) => toBT' \in [Requests -> Nat]
<1>1. m.req \in Requests
  BY DEF Messages
<1>2. /\ toRilj[m.req] + (IF m.type = "RESPONSE" THEN 1 ELSE 0) \in Nat
      /\ toBT[m.req] + (IF m.type = "SAP_RESPONSE" THEN 1 ELSE 0) \in Nat
  BY <1>1 DEF TypeOK
<1> QED
  BY <1>1, <1>2 DEF TypeOK, ResponseToRilj, ResponseToBT

(* enqueueResponseMessage keeps its queue and the pending counts well typed. *)
LEMMA EnqueueResponseType ==
  ASSUME TypeOK, NEW r \in Requests, NEW m \in Messages, EnqueueResponse(r, m)
  PROVE  /\ pendingQueue' \in [Requests -> Nat]
         /\ dispatchResponseQueue' \in Seq(Messages)
         /\ place' \in [Requests -> Places]
<1>1. CASE pendingQueue[r] > 0
  <2>1. pendingQueue[r] - 1 \in Nat
    BY <1>1 DEF TypeOK
  <2>2. pendingQueue' \in [Requests -> Nat]
    BY <1>1, <2>1 DEF TypeOK, EnqueueResponse
  <2>3. dispatchResponseQueue' \in Seq(Messages)
    <3>1. dispatchResponseQueue' = Append(dispatchResponseQueue, m)
      BY <1>1 DEF EnqueueResponse
    <3> QED
      BY <3>1 DEF TypeOK
  <2>4. place' \in [Requests -> Places]
    BY <1>1 DEF TypeOK, EnqueueResponse, Move, Places
  <2> QED
    BY <2>2, <2>3, <2>4
<1>2. CASE ~(pendingQueue[r] > 0)
  BY <1>2 DEF TypeOK, EnqueueResponse
<1> QED
  BY <1>1, <1>2

(* Every step of every thread keeps the state well typed. *)
LEMMA TypeStep == TypeOK /\ [Next]_vars => TypeOK'
<1> SUFFICES ASSUME TypeOK, [Next]_vars PROVE TypeOK'
  OBVIOUS
<1> USE DEF queues, mdVars, ctlVars, outVars
<1>1. ASSUME NEW r \in Requests, EnqueueRequest(r) PROVE TypeOK'
  <2>1. issued' \in Seq(Requests)
    <3>1. issued' = Append(issued, r)
      BY <1>1 DEF EnqueueRequest
    <3> QED
      BY <3>1 DEF TypeOK
  <2>2. /\ dispatchRequestQueue' \in Seq(Messages)
        /\ dispatchResponseQueue' \in Seq(Messages)
        /\ place' \in [Requests -> Places]
    <3>1. CASE r \in Unsupported
      <4>1. /\ dispatchResponseQueue' = Append(dispatchResponseQueue, ResponseOf(r))
            /\ dispatchRequestQueue' = dispatchRequestQueue
            /\ Move(r, "response")
        BY <1>1, <3>1 DEF EnqueueRequest
      <4>2. dispatchResponseQueue' \in Seq(Messages)
        BY <4>1, MessageTypes DEF TypeOK
      <4>3. "response" \in Places
        BY DEF Places
      <4> QED
        BY <4>1, <4>2, <4>3, MoveType DEF TypeOK
    <3>2. CASE r \notin Unsupported
      <4>1. /\ dispatchRequestQueue' = Append(dispatchRequestQueue, RequestOf(r))
            /\ dispatchResponseQueue' = dispatchResponseQueue
            /\ Move(r, "request")
        BY <1>1, <3>2 DEF EnqueueRequest
      <4>2. dispatchRequestQueue' \in Seq(Messages)
        BY <4>1, MessageTypes DEF TypeOK
      <4>3. "request" \in Places
        BY DEF Places
      <4> QED
        BY <4>1, <4>2, <4>3, MoveType DEF TypeOK
    <3> QED
      BY <3>1, <3>2
  <2>3. dispatchStatusSyncQueue' = dispatchStatusSyncQueue
    BY <1>1 DEF EnqueueRequest
  <2> QED
    BY <1>1, <2>1, <2>2, <2>3 DEF TypeOK, EnqueueRequest
<1>2. ASSUME NEW on \in BOOLEAN, EnqueueStatusSync(on) PROVE TypeOK'
  <2>1. dispatchStatusSyncQueue' \in Seq(SyncMessages) /\ syncs' \in Nat
    BY <1>2 DEF TypeOK, EnqueueStatusSync, StatusSync, SyncMessages
  <2> QED
    BY <1>2, <2>1 DEF TypeOK, EnqueueStatusSync
<1>3. ASSUME ProcessRequestQueue PROVE TypeOK'
  <2>1. Head(dispatchRequestQueue) \in Messages
    BY <1>3 DEF TypeOK, ProcessRequestQueue
  <2>2. mainLooper' \in LooperOf(Messages \cup SyncMessages)
    BY <1>3, <2>1, LooperSendType DEF TypeOK, ProcessRequestQueue
  <2>3. dispatchRequestQueue' \in Seq(Messages)
    BY <1>3 DEF TypeOK, ProcessRequestQueue
  <2>4. Head(dispatchRequestQueue).req \in Requests /\ "main" \in Places
    BY <2>1 DEF Messages, Places
  <2>5. place' \in [Requests -> Places]
    BY <1>3, <2>4, MoveType DEF ProcessRequestQueue
  <2> QED
    BY <1>3, <2>2, <2>3, <2>5 DEF TypeOK, ProcessRequestQueue
<1>4. ASSUME ProcessResponseQueue PROVE TypeOK'
  <2>1. Head(dispatchResponseQueue) \in Messages
    BY <1>4 DEF TypeOK, ProcessResponseQueue
  <2>2. mainLooper' \in LooperOf(Messages \cup SyncMessages)
    BY <1>4, <2>1, LooperSendType DEF TypeOK, ProcessResponseQueue
  <2>3. dispatchResponseQueue' \in Seq(Messages)
    BY <1>4 DEF TypeOK, ProcessResponseQueue
  <2>4. Head(dispatchResponseQueue).req \in Requests /\ "main" \in Places
    BY <2>1 DEF Messages, Places
  <2>5. place' \in [Requests -> Places]
    BY <1>4, <2>4, MoveType DEF ProcessResponseQueue
  <2> QED
    BY <1>4, <2>2, <2>3, <2>5 DEF TypeOK, ProcessResponseQueue
<1>5. ASSUME ProcessStatusSyncQueue PROVE TypeOK'
  <2>1. Head(dispatchStatusSyncQueue) \in SyncMessages
    BY <1>5 DEF TypeOK, ProcessStatusSyncQueue
  <2>2. mainLooper' \in LooperOf(Messages \cup SyncMessages)
    BY <1>5, <2>1, LooperSendType DEF TypeOK, ProcessStatusSyncQueue
  <2>3. dispatchStatusSyncQueue' \in Seq(SyncMessages)
    BY <1>5 DEF TypeOK, ProcessStatusSyncQueue
  <2> QED
    BY <1>5, <2>2, <2>3 DEF TypeOK, ProcessStatusSyncQueue
<1>6. ASSUME ReplyNotSupported PROVE TypeOK'
  <2>1. PICK m \in Messages :
          /\ Take(m) /\ ResponseToRilj(ResponseOf(m.req)) /\ Move(m.req, "done") /\ AfterMessage
          /\ UNCHANGED << queues, pendingQueue, mdVars, ctlVars, syncs, toBT, issued, sent >>
    BY <1>6 DEF ReplyNotSupported
  <2>2. toRilj' \in [Requests -> Nat]
    BY <2>1, TakeType, MessageTypes, ReplyType
  <2>3. place' \in [Requests -> Places]
    BY <2>1, TakeType DEF TypeOK, Move, Places
  <2> QED
    BY <2>1, <2>2, <2>3, TakeType, AfterMessageType DEF TypeOK
<1>7. ASSUME ReplyUnavailable PROVE TypeOK'
  <2>1. PICK m \in Messages :
          /\ Take(m) /\ ResponseToRilj(Msg("RESPONSE", m.req)) /\ Move(m.req, "done") /\ AfterMessage
          /\ UNCHANGED << queues, pendingQueue, mdVars, ctlVars, syncs, toBT, issued, sent >>
    BY <1>7 DEF ReplyUnavailable
  <2>2. toRilj' \in [Requests -> Nat]
    BY <2>1, TakeType, MessageTypes, ReplyType
  <2>3. place' \in [Requests -> Places]
    BY <2>1, TakeType DEF TypeOK, Move, Places
  <2> QED
    BY <2>1, <2>2, <2>3, TakeType, AfterMessageType DEF TypeOK
<1>8. ASSUME Suspend PROVE TypeOK'
  <2>1. PICK m \in Messages :
          /\ Take(m) /\ Move(m.req, "suspended") /\ AfterMessage
          /\ m_suspended_msg_list' = Append(m_suspended_msg_list, m)
          /\ UNCHANGED << queues, pendingQueue, mdVars, blocked, radioOn, syncs, outVars,
                          issued, sent >>
    BY <1>8 DEF Suspend
  <2>2. m_suspended_msg_list' \in Seq(Messages)
    BY <2>1 DEF TypeOK
  <2>3. place' \in [Requests -> Places]
    BY <2>1, TakeType DEF TypeOK, Move, Places
  <2> QED
    BY <2>1, <2>2, <2>3, TakeType, AfterMessageType DEF TypeOK
<1>9. ASSUME Forward PROVE TypeOK'
  <2>1. PICK m \in Messages :
          /\ Take(m) /\ ControllerActs(m) /\ Move(m.req, "sending")
          /\ main' = [pc |-> "send", req |-> m.req, steps |-> RequestToMclSteps]
          /\ UNCHANGED << queues, pendingQueue, mdVars, m_suspended_msg_list, radioOn, syncs,
                          outVars, issued, sent >>
    BY <1>9 DEF Forward
  <2>2. RequestToMclSteps \in
          Seq({"addMessageToPendingQueue", "enqueueMclMessage"}) \ {<< >>}
    BY DEF RequestToMclSteps
  <2>3. main' \in MainStates
    BY <2>1, <2>2, TakeType DEF MainStates
  <2>4. place' \in [Requests -> Places]
    BY <2>1, TakeType DEF TypeOK, Move, Places
  <2> QED
    BY <2>1, <2>3, <2>4, TakeType, ControllerActsType DEF TypeOK
<1>10. ASSUME Deliver PROVE TypeOK'
  <2>1. PICK m \in Messages :
          /\ Take(m) /\ ControllerActs(m) /\ Move(m.req, "done") /\ AfterMessage
          /\ ResponseToRilj(m) /\ ResponseToBT(m)
          /\ UNCHANGED << queues, pendingQueue, mdVars, m_suspended_msg_list, radioOn, syncs,
                          issued, sent >>
    BY <1>10 DEF Deliver
  <2>2. place' \in [Requests -> Places]
    BY <2>1, TakeType DEF TypeOK, Move, Places
  <2> QED
    BY <2>1, <2>2, TakeType, ControllerActsType, ReplyType, AfterMessageType DEF TypeOK
<1>11. ASSUME ApplyStatusSync PROVE TypeOK'
  <2>1. mainLooper' \in LooperOf(Messages \cup SyncMessages)
    BY <1>11, LooperTakeType DEF TypeOK, ApplyStatusSync
  <2>2. radioOn' \in BOOLEAN
    BY <1>11 DEF ApplyStatusSync, SyncMessages
  <2> QED
    BY <1>11, <2>1, <2>2, AfterMessageType DEF TypeOK, ApplyStatusSync
<1>12. ASSUME NEW c \in Controllers, ControllerEvent(c) PROVE TypeOK'
  <2>1. blocked' \in [Controllers -> BOOLEAN]
    BY <1>12 DEF TypeOK, ControllerEvent
  <2> QED
    BY <1>12, <2>1, AfterMessageType DEF TypeOK, ControllerEvent
<1>13. ASSUME RequestToMcl PROVE TypeOK'
  <2>1. /\ main.pc = "send" /\ main.req \in Requests
        /\ main.steps \in Seq({"addMessageToPendingQueue", "enqueueMclMessage"}) \ {<< >>}
    BY <1>13 DEF TypeOK, MainStates, RequestToMcl, AddMessageToPendingQueue, EnqueueMclMessage
  <2>2. main' \in MainStates
    <3>1. CASE Len(main.steps) = 1
      BY <1>13, <3>1, AfterMessageType DEF RequestToMcl
    <3>2. CASE Len(main.steps) # 1
      <4>1. Tail(main.steps) \in
              Seq({"addMessageToPendingQueue", "enqueueMclMessage"}) \ {<< >>}
        BY <2>1, <3>2, TailType
      <4>2. main' = [pc |-> "send", req |-> main.req, steps |-> Tail(main.steps)]
        BY <1>13, <3>2 DEF RequestToMcl
      <4> QED
        BY <2>1, <4>1, <4>2 DEF MainStates
    <3> QED
      BY <3>1, <3>2
  <2>3. CASE AddMessageToPendingQueue
    <3>1. pendingQueue' \in [Requests -> Nat]
      BY <2>1, <2>3 DEF TypeOK, AddMessageToPendingQueue
    <3> QED
      BY <1>13, <2>2, <2>3, <3>1 DEF TypeOK, RequestToMcl, AddMessageToPendingQueue
  <2>4. CASE EnqueueMclMessage
    <3>1. mclLooper' \in LooperOf(Requests)
      BY <2>1, <2>4, LooperSendType DEF TypeOK, EnqueueMclMessage
    <3>2. sent' \in Seq(Requests)
      BY <2>1, <2>4 DEF TypeOK, EnqueueMclMessage
    <3>3. "mcl" \in Places
      BY DEF Places
    <3>4. place' \in [Requests -> Places]
      BY <2>1, <2>4, <3>3, MoveType DEF EnqueueMclMessage
    <3> QED
      BY <1>13, <2>2, <2>4, <3>1, <3>2, <3>4 DEF TypeOK, RequestToMcl, EnqueueMclMessage
  <2> QED
    BY <1>13, <2>3, <2>4 DEF RequestToMcl
<1>14. ASSUME ResumeMessage PROVE TypeOK'
  <2> DEFINE m == m_suspended_msg_list[main.i]
  <2>1. main.i \in 1 .. Len(m_suspended_msg_list)
    BY <1>14 DEF TypeOK, ResumeMessage, MainStates
  <2>2. m \in Messages
    BY <2>1 DEF TypeOK
  <2>3. mainLooper' \in LooperOf(Messages \cup SyncMessages)
    BY <1>14, <2>2, LooperSendType DEF TypeOK, ResumeMessage
  <2>4. m_suspended_msg_list' \in Seq(Messages)
    BY <1>14, <2>1, RemoveAtType DEF TypeOK, ResumeMessage
  <2>5. m.req \in Requests /\ "main" \in Places
    BY <2>2 DEF Messages, Places
  <2>6. place' \in [Requests -> Places]
    BY <1>14, <2>5, MoveType DEF ResumeMessage
  <2> QED
    BY <1>14, <2>3, <2>4, <2>6 DEF TypeOK, ResumeMessage
<1>15. ASSUME KeepSuspended PROVE TypeOK'
  <2>1. main' \in MainStates
    BY <1>15 DEF TypeOK, KeepSuspended, MainStates
  <2> QED
    BY <1>15, <2>1 DEF TypeOK, KeepSuspended
<1>16. ASSUME HandleMessageEnd PROVE TypeOK'
  <2>1. main' \in MainStates
    BY <1>16 DEF HandleMessageEnd, MainStates
  <2> QED
    BY <1>16, <2>1 DEF TypeOK, HandleMessageEnd
<1>17. ASSUME MclDispatch PROVE TypeOK'
  <2> DEFINE r == LooperHead(mclLooper)
  <2>1. r \in Requests /\ mclLooper' \in LooperOf(Requests)
    BY <1>17, LooperTakeType DEF TypeOK, MclDispatch
  <2> HIDE DEF r
  <2>2. CASE Channel[r] # NoOne
    <3>1. Channel[r] \in Channels
      BY <2>1, <2>2, ConstAssumption
    <3>2. /\ chanLooper' = [chanLooper EXCEPT ![Channel[r]] =
                              IF r \in AtFront THEN SendMessageFront(@, r) ELSE SendMessage(@, r)]
          /\ place' = [place EXCEPT ![r] = "channel"]
          /\ UNCHANGED << pendingQueue, dispatchResponseQueue >>
      BY <1>17, <2>2 DEF MclDispatch, Move, r
    <3>3. chanLooper' \in [Channels -> LooperOf(Requests)]
      BY <2>1, <3>1, <3>2, LooperSendType DEF TypeOK
    <3>4. place' \in [Requests -> Places]
      BY <2>1, <3>2 DEF TypeOK, Places
    <3> QED
      BY <1>17, <2>1, <3>2, <3>3, <3>4 DEF TypeOK, MclDispatch
  <2>3. CASE Channel[r] = NoOne
    <3>1. EnqueueResponse(r, Msg("RESPONSE", r)) /\ UNCHANGED chanLooper
      BY <1>17, <2>3 DEF MclDispatch, r
    <3> QED
      BY <1>17, <2>1, <3>1, MessageTypes, EnqueueResponseType DEF TypeOK, MclDispatch
  <2> QED
    BY <2>2, <2>3
<1>18. ASSUME NEW c \in Channels, ChannelDispatch(c) PROVE TypeOK'
  <2>1. LooperHead(chanLooper[c]) \in Requests /\ LooperTail(chanLooper[c]) \in LooperOf(Requests)
    BY <1>18, LooperTakeType DEF TypeOK, ChannelDispatch
  <2>2. chanLooper' \in [Channels -> LooperOf(Requests)] /\ handled' \subseteq Requests
    BY <1>18, <2>1 DEF TypeOK, ChannelDispatch
  <2>3. place' \in [Requests -> Places]
    BY <1>18, <2>1 DEF TypeOK, ChannelDispatch, Move, Places
  <2> QED
    BY <1>18, <2>2, <2>3 DEF TypeOK, ChannelDispatch
<1>19. ASSUME NEW r \in Requests, HandlerReply(r) PROVE TypeOK'
  <2>1. mdReplies' \in [Requests -> Nat]
    BY <1>19 DEF TypeOK, HandlerReply
  <2>2. EnqueueResponse(r, ResponseOf(r))
    BY <1>19 DEF HandlerReply
  <2> QED
    BY <1>19, <2>1, <2>2, MessageTypes, EnqueueResponseType DEF TypeOK, HandlerReply
<1>20. CASE UNCHANGED vars
  BY <1>20 DEF vars, TypeOK
<1> QED
  BY <1>1, <1>2, <1>3, <1>4, <1>5, <1>6, <1>7, <1>8, <1>9, <1>10, <1>11, <1>12, <1>13,
     <1>14, <1>15, <1>16, <1>17, <1>18, <1>19, <1>20 DEF Next, Drainers, MainThread

(* Every queue, looper, counter and list keeps the type its readers rely on,
   for any number of requests, controllers and channels. *)
THEOREM TypeCorrect == Spec => []TypeOK
<1>1. Init => TypeOK
  <2> SUFFICES ASSUME Init PROVE TypeOK
    OBVIOUS
  <2>1. EmptyLooper \in LooperOf(Messages \cup SyncMessages) /\ EmptyLooper \in LooperOf(Requests)
    BY DEF EmptyLooper, LooperOf
  <2>2. main \in MainStates
    BY DEF Init, MainStates
  <2>3. place \in [Requests -> Places]
    BY DEF Init, Places
  <2>4. << >> \in Seq(Messages) /\ << >> \in Seq(SyncMessages) /\ << >> \in Seq(Requests)
    OBVIOUS
  <2>5. /\ pendingQueue \in [Requests -> Nat] /\ mdReplies \in [Requests -> Nat]
        /\ toRilj \in [Requests -> Nat] /\ toBT \in [Requests -> Nat]
    BY DEF Init
  <2>6. blocked \in [Controllers -> BOOLEAN] /\ radioOn \in BOOLEAN
    BY DEF Init
  <2>7. chanLooper \in [Channels -> LooperOf(Requests)]
    BY <2>1 DEF Init
  <2> QED
    BY <2>1, <2>2, <2>3, <2>4, <2>5, <2>6, <2>7 DEF Init, TypeOK
<1> QED
  BY <1>1, TypeStep, PTL DEF Spec

-----------------------------------------------------------------------------
(* Tracking: what moving one request does to a queue.  D is the set of entries
   that stand for a request (the others are status syncs), R the requests. *)

(* A queue does not notice the move of a request that is not in it. *)
LEMMA TrackedMove ==
  ASSUME NEW S, NEW D, NEW R, NEW P, NEW key \in [D -> R], NEW q \in Seq(S),
         NEW pl \in [R -> P], NEW p, NEW p2, NEW r \in R,
         Tracked(q, key, pl, p), pl[r] # p
  PROVE  Tracked(q, key, [pl EXCEPT ![r] = p2], p)
<1>1. \A x \in R : [pl EXCEPT ![r] = p2][x] = IF x = r THEN p2 ELSE pl[x]
  OBVIOUS
<1>2. \A i \in DOMAIN q : q[i] \in D => key[q[i]] \in R /\ key[q[i]] # r
  BY DEF Tracked
<1> QED
  BY <1>1, <1>2 DEF Tracked

(* A request that was elsewhere may be appended while it moves in. *)
LEMMA TrackedAppend ==
  ASSUME NEW S, NEW D, NEW R, NEW P, NEW key \in [D -> R], NEW q \in Seq(S),
         NEW pl \in [R -> P], NEW p, NEW m \in S, m \in D,
         Tracked(q, key, pl, p), pl[key[m]] # p
  PROVE  Tracked(Append(q, m), key, [pl EXCEPT ![key[m]] = p], p)
<1> DEFINE q2 == Append(q, m)
           r == key[m]
           pl2 == [pl EXCEPT ![r] = p]
<1>0. r \in R
  OBVIOUS
<1>1. \A x \in R : pl2[x] = IF x = r THEN p ELSE pl[x]
  BY <1>0
<1>2. \A i \in DOMAIN q : q[i] \in D => key[q[i]] \in R /\ key[q[i]] # r
  BY DEF Tracked
<1>3. /\ DOMAIN q = 1 .. Len(q) /\ DOMAIN q2 = 1 .. Len(q) + 1 /\ Len(q) \in Nat
      /\ \A i \in 1 .. Len(q) : q2[i] = q[i]
      /\ q2[Len(q) + 1] = m
  OBVIOUS
<1> HIDE DEF q2, r, pl2
<1>4. SUFFICES ASSUME NEW i \in DOMAIN q2, q2[i] \in D
               PROVE  /\ pl2[key[q2[i]]] = p
                      /\ \A j \in DOMAIN q2 : q2[j] \in D /\ key[q2[j]] = key[q2[i]] => j = i
  BY DEF Tracked, q2, r, pl2
<1>5. \A j \in DOMAIN q2 : (j \in DOMAIN q /\ q2[j] = q[j]) \/ (j = Len(q) + 1 /\ q2[j] = m)
  BY <1>3
<1>6. CASE i \in DOMAIN q /\ q2[i] = q[i]
  <2>1. pl2[key[q2[i]]] = p
    BY <1>1, <1>2, <1>4, <1>6 DEF Tracked
  <2>2. \A j \in DOMAIN q2 : q2[j] \in D /\ key[q2[j]] = key[q2[i]] => j = i
    BY <1>2, <1>4, <1>5, <1>6 DEF Tracked, r
  <2> QED
    BY <2>1, <2>2
<1>7. CASE i = Len(q) + 1 /\ q2[i] = m
  <2>1. pl2[key[q2[i]]] = p
    BY <1>0, <1>1, <1>7 DEF r
  <2>2. \A j \in DOMAIN q2 : q2[j] \in D /\ key[q2[j]] = key[q2[i]] => j = i
    BY <1>2, <1>5, <1>7 DEF r
  <2> QED
    BY <2>1, <2>2
<1> QED
  BY <1>5, <1>6, <1>7

(* Entries that stand for no request come and go unnoticed. *)
LEMMA TrackedAppendOther ==
  ASSUME NEW S, NEW D, NEW R, NEW key \in [D -> R], NEW q \in Seq(S),
         NEW pl, NEW p, NEW m \in S, m \notin D, Tracked(q, key, pl, p)
  PROVE  Tracked(Append(q, m), key, pl, p)
<1>1. /\ DOMAIN Append(q, m) = 1 .. Len(q) + 1 /\ DOMAIN q = 1 .. Len(q) /\ Len(q) \in Nat
      /\ \A i \in 1 .. Len(q) : Append(q, m)[i] = q[i]
      /\ Append(q, m)[Len(q) + 1] = m
  OBVIOUS
<1>2. \A i \in DOMAIN Append(q, m) : Append(q, m)[i] \in D =>
         i \in DOMAIN q /\ Append(q, m)[i] = q[i]
  BY <1>1
<1> QED
  BY <1>2 DEF Tracked

(* erase at i: the removed request may move anywhere. *)
LEMMA TrackedRemoveAt ==
  ASSUME NEW S, NEW D, NEW R, NEW P, NEW key \in [D -> R], NEW q \in Seq(S),
         NEW pl \in [R -> P], NEW p, NEW p2, NEW i \in 1 .. Len(q), q[i] \in D,
         Tracked(q, key, pl, p)
  PROVE  Tracked(RemoveAt(q, i), key, [pl EXCEPT ![key[q[i]]] = p2], p)
<1> DEFINE q2 == RemoveAt(q, i)
           r == key[q[i]]
           pl2 == [pl EXCEPT ![r] = p2]
           at(j) == IF j < i THEN j ELSE j + 1
<1>0. r \in R /\ Len(q) \in Nat /\ DOMAIN q = 1 .. Len(q)
  OBVIOUS
<1>1. \A x \in R : pl2[x] = IF x = r THEN p2 ELSE pl[x]
  BY <1>0
<1>2. \A j \in DOMAIN q2 : at(j) \in DOMAIN q /\ q2[j] = q[at(j)] /\ at(j) # i
  <2>1. DOMAIN q2 = 1 .. Len(q) - 1
    BY RemoveAtType, <1>0
  <2>2. \A j \in 1 .. Len(q) - 1 : q2[j] = q[at(j)]
    BY RemoveAtType
  <2> QED
    BY <1>0, <2>1, <2>2
<1>3. \A j \in DOMAIN q2, k \in DOMAIN q2 : at(j) = at(k) => j = k
  <2>1. DOMAIN q2 \subseteq Int
    BY RemoveAtType, <1>0
  <2> QED
    BY <2>1
<1>4. \A j \in DOMAIN q2 : q2[j] \in D => key[q2[j]] \in R /\ key[q2[j]] # r
  BY <1>0, <1>2 DEF Tracked
<1> HIDE DEF q2, r, pl2, at
<1>5. \A j \in DOMAIN q2 : q2[j] \in D => pl2[key[q2[j]]] = p
  BY <1>1, <1>2, <1>4 DEF Tracked
<1>6. \A j \in DOMAIN q2, k \in DOMAIN q2 :
        q2[j] \in D /\ q2[k] \in D /\ key[q2[k]] = key[q2[j]] => at(k) = at(j)
  BY <1>2 DEF Tracked
<1>7. Tracked(q2, key, pl2, p)
  BY <1>3, <1>5, <1>6 DEF Tracked
<1> QED
  BY <1>7 DEF q2, r, pl2

(* pop_front, for an entry that stands for a request ... *)
LEMMA TrackedTail ==
  ASSUME NEW S, NEW D, NEW R, NEW P, NEW key \in [D -> R], NEW q \in Seq(S), q # << >>,
         NEW pl \in [R -> P], NEW p, NEW p2, Head(q) \in D, Tracked(q, key, pl, p)
  PROVE  Tracked(Tail(q), key, [pl EXCEPT ![key[Head(q)]] = p2], p)
<1> DEFINE q2 == Tail(q)
           r == key[Head(q)]
           pl2 == [pl EXCEPT ![r] = p2]
<1>0. /\ r \in R /\ Len(q) \in Nat /\ Len(q) > 0 /\ DOMAIN q = 1 .. Len(q)
      /\ Head(q) = q[1] /\ 1 \in DOMAIN q
  BY EmptySeq
<1>1. \A x \in R : pl2[x] = IF x = r THEN p2 ELSE pl[x]
  BY <1>0
<1>2. DOMAIN q2 = 1 .. Len(q) - 1 /\ \A j \in 1 .. Len(q) - 1 : q2[j] = q[j + 1]
  BY <1>0
<1>3. \A j \in DOMAIN q2 : j \in Int /\ j + 1 \in DOMAIN q /\ q2[j] = q[j + 1] /\ j + 1 # 1
  BY <1>0, <1>2
<1> HIDE DEF q2, r, pl2
<1>4. \A j \in DOMAIN q2 : q2[j] \in D => key[q2[j]] \in R /\ key[q2[j]] # r
  BY <1>0, <1>3 DEF Tracked, r
<1>5. \A j \in DOMAIN q2 : q2[j] \in D => pl2[key[q2[j]]] = p
  BY <1>1, <1>3, <1>4 DEF Tracked
<1>6. \A j \in DOMAIN q2, k \in DOMAIN q2 :
        q2[j] \in D /\ q2[k] \in D /\ key[q2[k]] = key[q2[j]] => k + 1 = j + 1
  BY <1>3 DEF Tracked
<1>7. Tracked(q2, key, pl2, p)
  BY <1>3, <1>5, <1>6 DEF Tracked
<1> QED
  BY <1>7 DEF q2, r, pl2

(* ... and for one that does not. *)
LEMMA TrackedTailOther ==
  ASSUME NEW S, NEW D, NEW R, NEW key \in [D -> R], NEW q \in Seq(S), q # << >>,
         NEW pl, NEW p, Tracked(q, key, pl, p)
  PROVE  Tracked(Tail(q), key, pl, p)
<1>0. Len(q) \in Nat /\ Len(q) > 0 /\ DOMAIN q = 1 .. Len(q)
  BY EmptySeq
<1>1. DOMAIN Tail(q) = 1 .. Len(q) - 1 /\ \A j \in 1 .. Len(q) - 1 : Tail(q)[j] = q[j + 1]
  BY <1>0
<1>2. \A j \in DOMAIN Tail(q) : j \in Int /\ j + 1 \in DOMAIN q /\ Tail(q)[j] = q[j + 1]
  BY <1>0, <1>1
<1>3. \A j \in DOMAIN Tail(q) : Tail(q)[j] \in D => pl[key[Tail(q)[j]]] = p
  BY <1>2 DEF Tracked
<1>4. \A j \in DOMAIN Tail(q), k \in DOMAIN Tail(q) :
        Tail(q)[j] \in D /\ Tail(q)[k] \in D /\ key[Tail(q)[k]] = key[Tail(q)[j]] => k + 1 = j + 1
  BY <1>2 DEF Tracked
<1> QED
  BY <1>2, <1>3, <1>4 DEF Tracked

(* The same facts for the two segments of a Looper. *)
LEMMA LooperMove ==
  ASSUME NEW S, NEW D, NEW R, NEW P, NEW key \in [D -> R], NEW l \in LooperOf(S),
         NEW pl \in [R -> P], NEW p, NEW p2, NEW r \in R,
         LooperTracked(l, key, pl, p), pl[r] # p
  PROVE  LooperTracked(l, key, [pl EXCEPT ![r] = p2], p)
<1>1. l.hi \in Seq(S) /\ l.lo \in Seq(S)
  BY DEF LooperOf
<1> QED
  BY <1>1, TrackedMove DEF LooperTracked

(* Sending to either segment, while the request moves in. *)
LEMMA LooperSendTracked ==
  ASSUME NEW S, NEW D, NEW R, NEW P, NEW key \in [D -> R], NEW l \in LooperOf(S),
         NEW pl \in [R -> P], NEW p, NEW m \in S, m \in D,
         LooperTracked(l, key, pl, p), pl[key[m]] # p
  PROVE  /\ LooperTracked(SendMessage(l, m), key, [pl EXCEPT ![key[m]] = p], p)
         /\ LooperTracked(SendMessageFront(l, m), key, [pl EXCEPT ![key[m]] = p], p)
<1> DEFINE r == key[m]
           pl2 == [pl EXCEPT ![r] = p]
<1>1. l.hi \in Seq(S) /\ l.lo \in Seq(S) /\ r \in R
  BY DEF LooperOf
<1>2. \A x \in R : pl2[x] = IF x = r THEN p ELSE pl[x]
  BY <1>1
<1>3. /\ \A i \in DOMAIN l.hi : l.hi[i] \in D => pl[key[l.hi[i]]] = p /\ key[l.hi[i]] \in R
      /\ \A i \in DOMAIN l.lo : l.lo[i] \in D => pl[key[l.lo[i]]] = p /\ key[l.lo[i]] \in R
  BY DEF LooperTracked, Tracked
<1>4. Tracked(Append(l.hi, m), key, pl2, p) /\ Tracked(Append(l.lo, m), key, pl2, p)
  BY <1>1, TrackedAppend DEF LooperTracked
<1>5. Tracked(l.hi, key, pl2, p) /\ Tracked(l.lo, key, pl2, p)
  BY <1>2, <1>3 DEF LooperTracked, Tracked
<1>6. ASSUME NEW q \in Seq(S)
      PROVE  \A i \in DOMAIN Append(q, m) : (i \in DOMAIN q /\ Append(q, m)[i] = q[i]) \/ Append(q, m)[i] = m
  <2>1. /\ DOMAIN Append(q, m) = 1 .. Len(q) + 1 /\ DOMAIN q = 1 .. Len(q) /\ Len(q) \in Nat
        /\ \A i \in 1 .. Len(q) : Append(q, m)[i] = q[i]
        /\ Append(q, m)[Len(q) + 1] = m
    OBVIOUS
  <2> QED
    BY <2>1
<1>7. Apart(l.hi, Append(l.lo, m), key)
  <2>1. SUFFICES ASSUME NEW i \in DOMAIN l.hi, NEW j \in DOMAIN Append(l.lo, m),
                        l.hi[i] \in D, Append(l.lo, m)[j] \in D
                 PROVE  key[l.hi[i]] # key[Append(l.lo, m)[j]]
    BY DEF Apart
  <2>2. CASE j \in DOMAIN l.lo /\ Append(l.lo, m)[j] = l.lo[j]
    BY <2>1, <2>2 DEF LooperTracked, Apart
  <2>3. CASE Append(l.lo, m)[j] = m
    BY <1>3, <2>1, <2>3
  <2> QED
    BY <1>1, <1>6, <2>2, <2>3
<1>8. Apart(Append(l.hi, m), l.lo, key)
  <2>1. SUFFICES ASSUME NEW i \in DOMAIN Append(l.hi, m), NEW j \in DOMAIN l.lo,
                        Append(l.hi, m)[i] \in D, l.lo[j] \in D
                 PROVE  key[Append(l.hi, m)[i]] # key[l.lo[j]]
    BY DEF Apart
  <2>2. CASE i \in DOMAIN l.hi /\ Append(l.hi, m)[i] = l.hi[i]
    BY <2>1, <2>2 DEF LooperTracked, Apart
  <2>3. CASE Append(l.hi, m)[i] = m
    BY <1>3, <2>1, <2>3
  <2> QED
    BY <1>1, <1>6, <2>2, <2>3
<1> QED
  BY <1>4, <1>5, <1>7, <1>8 DEF LooperTracked, SendMessage, SendMessageFront

(* A status sync sent to the Looper tracks nothing. *)
LEMMA LooperSendOther ==
  ASSUME NEW S, NEW D, NEW R, NEW key \in [D -> R], NEW l \in LooperOf(S),
         NEW pl, NEW p, NEW m \in S, m \notin D, LooperTracked(l, key, pl, p)
  PROVE  LooperTracked(SendMessage(l, m), key, pl, p)
<1>1. l.hi \in Seq(S) /\ l.lo \in Seq(S)
  BY DEF LooperOf
<1>2. Tracked(Append(l.lo, m), key, pl, p)
  BY <1>1, TrackedAppendOther DEF LooperTracked
<1>3. /\ DOMAIN Append(l.lo, m) = 1 .. Len(l.lo) + 1 /\ DOMAIN l.lo = 1 .. Len(l.lo)
      /\ Len(l.lo) \in Nat
      /\ \A i \in 1 .. Len(l.lo) : Append(l.lo, m)[i] = l.lo[i]
      /\ Append(l.lo, m)[Len(l.lo) + 1] = m
  BY <1>1
<1>4. \A i \in DOMAIN Append(l.lo, m) : Append(l.lo, m)[i] \in D =>
         i \in DOMAIN l.lo /\ Append(l.lo, m)[i] = l.lo[i]
  BY <1>3
<1>5. Apart(l.hi, Append(l.lo, m), key)
  BY <1>4 DEF LooperTracked, Apart
<1> QED
  BY <1>2, <1>5 DEF LooperTracked, SendMessage

(* Entries of a tail are entries of the list. *)
LEMMA TailEntries ==
  ASSUME NEW S, NEW q \in Seq(S), q # << >>
  PROVE  /\ Head(q) = q[1] /\ 1 \in DOMAIN q
         /\ \A j \in DOMAIN Tail(q) : j + 1 \in DOMAIN q /\ Tail(q)[j] = q[j + 1]
<1>0. Len(q) \in Nat /\ Len(q) > 0 /\ DOMAIN q = 1 .. Len(q) /\ Head(q) = q[1]
  BY EmptySeq
<1>1. DOMAIN Tail(q) = 1 .. Len(q) - 1 /\ \A j \in 1 .. Len(q) - 1 : Tail(q)[j] = q[j + 1]
  BY <1>0
<1> QED
  BY <1>0, <1>1

(* Taking a request from the Looper, while the request moves on. *)
LEMMA LooperTakeTracked ==
  ASSUME NEW S, NEW D, NEW R, NEW P, NEW key \in [D -> R], NEW l \in LooperOf(S),
         LooperBusy(l), NEW pl \in [R -> P], NEW p, NEW p2,
         LooperHead(l) \in D, LooperTracked(l, key, pl, p)
  PROVE  /\ pl[key[LooperHead(l)]] = p
         /\ LooperTracked(LooperTail(l), key, [pl EXCEPT ![key[LooperHead(l)]] = p2], p)
<1> DEFINE r == key[LooperHead(l)]
           pl2 == [pl EXCEPT ![r] = p2]
<1>1. l.hi \in Seq(S) /\ l.lo \in Seq(S) /\ r \in R
  BY DEF LooperOf
<1>2. \A x \in R : pl2[x] = IF x = r THEN p2 ELSE pl[x]
  BY <1>1
<1>3. CASE l.hi # << >>
  <2>1. /\ LooperHead(l) = Head(l.hi) /\ LooperHead(l) = l.hi[1] /\ 1 \in DOMAIN l.hi
        /\ \A j \in DOMAIN Tail(l.hi) : j + 1 \in DOMAIN l.hi /\ Tail(l.hi)[j] = l.hi[j + 1]
    BY <1>1, <1>3, TailEntries DEF LooperHead
  <2>2. LooperTail(l) = [hi |-> Tail(l.hi), lo |-> l.lo]
    BY <1>3 DEF LooperTail
  <2>3. Tracked(Tail(l.hi), key, pl2, p)
    BY <1>1, <1>3, <2>1, TrackedTail DEF LooperTracked
  <2>4. \A i \in DOMAIN l.lo : l.lo[i] \in D => key[l.lo[i]] \in R /\ key[l.lo[i]] # r
    BY <2>1 DEF LooperTracked, Apart
  <2>5. Tracked(l.lo, key, pl2, p)
    BY <1>2, <2>4 DEF LooperTracked, Tracked
  <2>6. Apart(Tail(l.hi), l.lo, key)
    BY <2>1 DEF LooperTracked, Apart
  <2>7. pl[r] = p
    BY <2>1 DEF LooperTracked, Tracked
  <2> QED
    BY <2>2, <2>3, <2>5, <2>6, <2>7 DEF LooperTracked
<1>4. CASE l.hi = << >>
  <2>1. /\ l.lo # << >>
        /\ LooperHead(l) = Head(l.lo) /\ LooperHead(l) = l.lo[1] /\ 1 \in DOMAIN l.lo
        /\ \A j \in DOMAIN Tail(l.lo) : j + 1 \in DOMAIN l.lo /\ Tail(l.lo)[j] = l.lo[j + 1]
    BY <1>1, <1>4, TailEntries DEF LooperHead, LooperBusy
  <2>2. LooperTail(l) = [hi |-> l.hi, lo |-> Tail(l.lo)]
    BY <1>4 DEF LooperTail
  <2>3. Tracked(Tail(l.lo), key, pl2, p)
    BY <1>1, <1>4, <2>1, TrackedTail DEF LooperTracked
  <2>4. DOMAIN l.hi = {}
    BY <1>4
  <2>5. Tracked(l.hi, key, pl2, p) /\ Apart(l.hi, Tail(l.lo), key)
    BY <2>4 DEF Tracked, Apart
  <2>6. pl[r] = p
    BY <2>1 DEF LooperTracked, Tracked
  <2> QED
    BY <2>2, <2>3, <2>5, <2>6 DEF LooperTracked
<1> QED
  BY <1>3, <1>4

(* Taking a status sync, which moves no request. *)
LEMMA LooperTakeOther ==
  ASSUME NEW S, NEW D, NEW R, NEW key \in [D -> R], NEW l \in LooperOf(S),
         LooperBusy(l), NEW pl, NEW p, LooperTracked(l, key, pl, p)
  PROVE  LooperTracked(LooperTail(l), key, pl, p)
<1>1. l.hi \in Seq(S) /\ l.lo \in Seq(S)
  BY DEF LooperOf
<1>2. CASE l.hi # << >>
  <2>1. Tracked(Tail(l.hi), key, pl, p)
    BY <1>1, <1>2, TrackedTailOther DEF LooperTracked
  <2>2. Apart(Tail(l.hi), l.lo, key)
    BY <1>1, <1>2, TailEntries DEF LooperTracked, Apart
  <2> QED
    BY <1>2, <2>1, <2>2 DEF LooperTracked, LooperTail
<1>3. CASE l.hi = << >>
  <2>1. l.lo # << >>
    BY <1>3 DEF LooperBusy
  <2>2. Tracked(Tail(l.lo), key, pl, p)
    BY <1>1, <2>1, TrackedTailOther DEF LooperTracked
  <2>3. Apart(l.hi, Tail(l.lo), key)
    BY <1>1, <2>1, TailEntries DEF LooperTracked, Apart
  <2> QED
    BY <1>3, <2>2, <2>3 DEF LooperTracked, LooperTail
<1> QED
  BY <1>2, <1>3

-----------------------------------------------------------------------------
(* One message per request *)

(* The two key functions return requests, and status syncs have no key. *)
LEMMA Keys ==
  /\ MsgKey \in [Messages -> Requests]
  /\ ReqKey \in [Requests -> Requests]
  /\ \A m \in Messages : MsgKey[m] = m.req
  /\ \A r \in Requests : ReqKey[r] = r
  /\ \A m \in SyncMessages : m \notin Messages
BY DEF MsgKey, ReqKey, Messages, SyncMessages

(* What a list tells about handled requests survives append, tail and erase. *)
LEMMA NotHandledLists ==
  ASSUME NEW S, NEW q \in Seq(S), NEW h, NotHandled(q, h)
  PROVE  /\ \A m \in S : (m \in Messages /\ IsRequest(m) => m.req \notin h)
                        => NotHandled(Append(q, m), h)
         /\ q # << >> => NotHandled(Tail(q), h)
         /\ \A i \in 1 .. Len(q) : NotHandled(RemoveAt(q, i), h)
<1>1. ASSUME NEW m \in S, m \in Messages /\ IsRequest(m) => m.req \notin h
      PROVE  NotHandled(Append(q, m), h)
  <2>1. /\ DOMAIN Append(q, m) = 1 .. Len(q) + 1 /\ DOMAIN q = 1 .. Len(q) /\ Len(q) \in Nat
        /\ \A i \in 1 .. Len(q) : Append(q, m)[i] = q[i]
        /\ Append(q, m)[Len(q) + 1] = m
    OBVIOUS
  <2>2. \A i \in DOMAIN Append(q, m) :
          (i \in DOMAIN q /\ Append(q, m)[i] = q[i]) \/ Append(q, m)[i] = m
    BY <2>1
  <2> QED
    BY <1>1, <2>2 DEF NotHandled
<1>2. ASSUME q # << >> PROVE NotHandled(Tail(q), h)
  BY <1>2, TailEntries DEF NotHandled
<1>3. ASSUME NEW i \in 1 .. Len(q) PROVE NotHandled(RemoveAt(q, i), h)
  <2>1. /\ DOMAIN RemoveAt(q, i) = 1 .. Len(q) - 1 /\ DOMAIN q = 1 .. Len(q) /\ Len(q) \in Nat
        /\ \A j \in 1 .. Len(q) - 1 : RemoveAt(q, i)[j] = IF j < i THEN q[j] ELSE q[j + 1]
    BY RemoveAtType
  <2>2. \A j \in DOMAIN RemoveAt(q, i) : \E k \in DOMAIN q : RemoveAt(q, i)[j] = q[k]
    BY <2>1
  <2> QED
    BY <2>2 DEF NotHandled
<1> QED
  BY <1>1, <1>2, <1>3

(* The queues a request is not in do not notice where it goes. *)
LEMMA Elsewhere ==
  ASSUME TypeOK, OneMessage, NEW r \in Requests, NEW p2, Move(r, p2)
  PROVE  /\ place[r] # "request" => Tracked(dispatchRequestQueue, MsgKey, place', "request")
         /\ place[r] # "response" => Tracked(dispatchResponseQueue, MsgKey, place', "response")
         /\ place[r] # "main" => LooperTracked(mainLooper, MsgKey, place', "main")
         /\ place[r] # "suspended" => Tracked(m_suspended_msg_list, MsgKey, place', "suspended")
         /\ place[r] # "mcl" => LooperTracked(mclLooper, ReqKey, place', "mcl")
         /\ place[r] # "channel" =>
              \A c \in Channels : LooperTracked(chanLooper[c], ReqKey, place', "channel")
<1>1. place' = [place EXCEPT ![r] = p2] /\ place \in [Requests -> Places]
  BY DEF Move, TypeOK
<1>2. place[r] # "request" => Tracked(dispatchRequestQueue, MsgKey, place', "request")
  BY <1>1, Keys, TrackedMove DEF OneMessage, TypeOK
<1>3. place[r] # "response" => Tracked(dispatchResponseQueue, MsgKey, place', "response")
  BY <1>1, Keys, TrackedMove DEF OneMessage, TypeOK
<1>4. place[r] # "main" => LooperTracked(mainLooper, MsgKey, place', "main")
  BY <1>1, Keys, LooperMove DEF OneMessage, TypeOK
<1>5. place[r] # "suspended" => Tracked(m_suspended_msg_list, MsgKey, place', "suspended")
  BY <1>1, Keys, TrackedMove DEF OneMessage, TypeOK
<1>6. place[r] # "mcl" => LooperTracked(mclLooper, ReqKey, place', "mcl")
  BY <1>1, Keys, LooperMove DEF OneMessage, TypeOK
<1>7. ASSUME place[r] # "channel", NEW c \in Channels
      PROVE  LooperTracked(chanLooper[c], ReqKey, place', "channel")
  <2>1. chanLooper[c] \in LooperOf(Requests) /\ LooperTracked(chanLooper[c], ReqKey, place, "channel")
    BY DEF OneMessage, TypeOK
  <2> QED
    BY <1>1, <1>7, <2>1, Keys, LooperMove
<1> QED
  BY <1>2, <1>3, <1>4, <1>5, <1>6, <1>7

(* The main thread takes a message: its request was in the main looper, is not
   there any more, and if it is the request itself no handler has had it. *)
LEMMA TakeTracked ==
  ASSUME TypeOK, OneMessage, HandledOnce, NEW m \in Messages, NEW p2,
         Take(m), Move(m.req, p2)
  PROVE  /\ m.req \in Requests /\ place[m.req] = "main" /\ main.pc = "idle"
         /\ LooperTracked(mainLooper', MsgKey, place', "main")
         /\ NotHandled(mainLooper'.hi, handled) /\ NotHandled(mainLooper'.lo, handled)
         /\ IsRequest(m) => m.req \notin handled
<1>1. /\ m.req \in Requests /\ main.pc = "idle" /\ LooperBusy(mainLooper)
      /\ m = LooperHead(mainLooper) /\ mainLooper' = LooperTail(mainLooper)
      /\ place' = [place EXCEPT ![m.req] = p2] /\ place \in [Requests -> Places]
      /\ mainLooper \in LooperOf(Messages \cup SyncMessages)
  BY DEF Take, Taken, Move, Messages, TypeOK
<1>2. MsgKey[LooperHead(mainLooper)] = m.req
  BY <1>1, Keys
<1>3. /\ place[m.req] = "main" /\ LooperTracked(mainLooper', MsgKey, place', "main")
  <2>1. LooperTracked(mainLooper, MsgKey, place, "main") /\ LooperHead(mainLooper) \in Messages
    BY <1>1 DEF OneMessage
  <2>2. MsgKey \in [Messages -> Requests]
    BY Keys
  <2>3. /\ place[MsgKey[LooperHead(mainLooper)]] = "main"
        /\ LooperTracked(LooperTail(mainLooper), MsgKey,
                         [place EXCEPT ![MsgKey[LooperHead(mainLooper)]] = p2], "main")
    BY <1>1, <2>1, <2>2, LooperTakeTracked
  <2> QED
    BY <1>1, <1>2, <2>3
<1>4. mainLooper.hi \in Seq(Messages \cup SyncMessages) /\ mainLooper.lo \in Seq(Messages \cup SyncMessages)
  BY <1>1 DEF LooperOf
<1>5. NotHandled(mainLooper.hi, handled) /\ NotHandled(mainLooper.lo, handled)
  BY DEF HandledOnce
<1>6. CASE mainLooper.hi # << >>
  <2>1. mainLooper' = [hi |-> Tail(mainLooper.hi), lo |-> mainLooper.lo] /\ m = Head(mainLooper.hi)
    BY <1>1, <1>6 DEF LooperTail, LooperHead
  <2>2. NotHandled(Tail(mainLooper.hi), handled)
    BY <1>4, <1>5, <1>6, NotHandledLists
  <2>3. m = mainLooper.hi[1] /\ 1 \in DOMAIN mainLooper.hi
    BY <1>4, <1>6, <2>1, TailEntries
  <2>4. IsRequest(m) => m.req \notin handled
    BY <1>5, <2>3 DEF NotHandled
  <2> QED
    BY <1>1, <1>3, <1>5, <2>1, <2>2, <2>4
<1>7. CASE mainLooper.hi = << >>
  <2>1. /\ mainLooper' = [hi |-> mainLooper.hi, lo |-> Tail(mainLooper.lo)] /\ m = Head(mainLooper.lo)
        /\ mainLooper.lo # << >>
    BY <1>1, <1>7 DEF LooperTail, LooperHead, LooperBusy
  <2>2. NotHandled(Tail(mainLooper.lo), handled)
    BY <1>4, <1>5, <2>1, NotHandledLists
  <2>3. m = mainLooper.lo[1] /\ 1 \in DOMAIN mainLooper.lo
    BY <1>4, <2>1, TailEntries
  <2>4. IsRequest(m) => m.req \notin handled
    BY <1>5, <2>3 DEF NotHandled
  <2> QED
    BY <1>1, <1>3, <1>5, <2>1, <2>2, <2>4
<1> QED
  BY <1>6, <1>7

(* Steps that move no request: at most a status sync enters or leaves the main
   looper, and the main thread goes on to its next message. *)
LEMMA QuietStep ==
  ASSUME RequestTracked,
         UNCHANGED << dispatchRequestQueue, dispatchResponseQueue, m_suspended_msg_list,
                      pendingQueue, mdVars, outVars, place >>,
         main' = main \/ (main.pc # "send" /\ main'.pc # "send"),
         LooperTracked(mainLooper', MsgKey, place, "main"),
         NotHandled(mainLooper'.hi, handled), NotHandled(mainLooper'.lo, handled)
  PROVE  RequestTracked'
<1> USE DEF mdVars, outVars
<1>1. OneMessage'
  BY DEF RequestTracked, OneMessage
<1>2. ChannelsApart' /\ HandledOnce' /\ RepliesCounted'
  BY DEF RequestTracked, ChannelsApart, OnItsChannel, HandledOnce, RepliesCounted
<1>3. PendingExact'
  BY DEF RequestTracked, PendingExact, Recorded
<1> QED
  BY <1>1, <1>2, <1>3 DEF RequestTracked

(* The main thread takes a message and completes, suspends or forwards it. *)
LEMMA TakeStep ==
  ASSUME TypeOK, RequestTracked, NEW m \in Messages,
         NEW p2 \in {"done", "suspended", "sending"}, Take(m), Move(m.req, p2),
         p2 = "sending" => IsRequest(m),
         toRilj'[m.req] \in Nat, toBT'[m.req] \in Nat,
         UNCHANGED << queues, pendingQueue, mdVars >>,
         \/ main'.pc # "send"
         \/ p2 = "sending" /\ main' = [pc |-> "send", req |-> m.req, steps |-> RequestToMclSteps],
         \/ m_suspended_msg_list' = m_suspended_msg_list
         \/ p2 = "suspended" /\ m_suspended_msg_list' = Append(m_suspended_msg_list, m),
         \A r \in Requests \ {m.req} : toRilj'[r] = toRilj[r] /\ toBT'[r] = toBT[r],
         toRilj'[m.req] + toBT'[m.req]
           <= toRilj[m.req] + toBT[m.req] + (IF p2 = "done" THEN 1 ELSE 0)
  PROVE  RequestTracked'
<1> USE DEF queues, mdVars
<1>1. /\ OneMessage /\ ChannelsApart /\ HandledOnce /\ PendingExact /\ RepliesCounted
  BY DEF RequestTracked
<1>2. /\ m.req \in Requests /\ place[m.req] = "main" /\ main.pc = "idle"
      /\ LooperTracked(mainLooper', MsgKey, place', "main")
      /\ NotHandled(mainLooper'.hi, handled) /\ NotHandled(mainLooper'.lo, handled)
      /\ IsRequest(m) => m.req \notin handled
  BY <1>1, TakeTracked
<1>3. /\ place'[m.req] = p2
      /\ \A r \in Requests \ {m.req} : place'[r] = place[r]
  BY <1>2 DEF Move, TypeOK
<1>4. OneMessage'
  <2>1. Tracked(m_suspended_msg_list', MsgKey, place', "suspended")
    <3>1. CASE m_suspended_msg_list' = m_suspended_msg_list
      BY <1>1, <1>2, <3>1, Elsewhere
    <3>2. CASE p2 = "suspended" /\ m_suspended_msg_list' = Append(m_suspended_msg_list, m)
      <4>1. /\ MsgKey \in [Messages -> Requests] /\ MsgKey[m] = m.req
            /\ place \in [Requests -> Places] /\ m_suspended_msg_list \in Seq(Messages)
            /\ Tracked(m_suspended_msg_list, MsgKey, place, "suspended")
        BY <1>1, Keys DEF TypeOK, OneMessage
      <4>2. place[MsgKey[m]] # "suspended"
        BY <1>2, <4>1
      <4>3. Tracked(Append(m_suspended_msg_list, m), MsgKey,
                    [place EXCEPT ![MsgKey[m]] = "suspended"], "suspended")
        BY <4>1, <4>2, TrackedAppend
      <4> QED
        BY <3>2, <4>1, <4>3 DEF Move
    <3> QED
      BY <3>1, <3>2
  <2>2. main'.pc = "send" => place'[main'.req] = "sending"
    BY <1>3
  <2>3. /\ Tracked(dispatchRequestQueue, MsgKey, place', "request")
        /\ Tracked(dispatchResponseQueue, MsgKey, place', "response")
        /\ LooperTracked(mclLooper, ReqKey, place', "mcl")
        /\ \A c \in Channels : LooperTracked(chanLooper[c], ReqKey, place', "channel")
    BY <1>1, <1>2, Elsewhere
  <2> QED
    BY <1>2, <2>1, <2>2, <2>3 DEF OneMessage
<1>5. ChannelsApart'
  BY <1>1 DEF ChannelsApart, OnItsChannel
<1>6. HandledOnce'
  <2>1. NotHandled(m_suspended_msg_list', handled)
    <3>1. NotHandled(m_suspended_msg_list, handled) /\ m_suspended_msg_list \in Seq(Messages)
      BY <1>1 DEF HandledOnce, TypeOK
    <3>2. NotHandled(Append(m_suspended_msg_list, m), handled)
      BY <1>2, <3>1, NotHandledLists
    <3> QED
      BY <3>1, <3>2
  <2>2. \A r \in handled : place'[r] \in {"handler", "response", "main", "suspended", "done"}
    <3> SUFFICES ASSUME NEW r \in handled
                 PROVE  place'[r] \in {"handler", "response", "main", "suspended", "done"}
      OBVIOUS
    <3>1. r \in Requests /\ place[r] \in {"handler", "response", "main", "suspended", "done"}
      BY <1>1 DEF HandledOnce, TypeOK
    <3>2. CASE r # m.req
      BY <1>3, <3>1, <3>2
    <3>3. CASE r = m.req /\ p2 # "sending"
      BY <1>3, <3>3
    <3>4. CASE r = m.req /\ p2 = "sending"
      BY <1>2, <3>4
    <3> QED
      BY <3>2, <3>3, <3>4
  <2> QED
    BY <1>1, <1>2, <2>1, <2>2 DEF HandledOnce
<1>7. PendingExact'
  <2>1. main'.pc = "send" => main'.steps = RequestToMclSteps
    OBVIOUS
  <2>2. RequestToMclSteps # << "enqueueMclMessage" >>
    BY DEF RequestToMclSteps
  <2>3. \A r \in Requests : ~Recorded(r) /\ ~Recorded(r)'
    BY <1>2, <2>1, <2>2 DEF Recorded
  <2>4. \A r \in Requests :
          pendingQueue'[r] = IF place'[r] \in {"mcl", "channel", "handler"} \/ Recorded(r)'
                             THEN 1 ELSE 0
    BY <1>1, <1>2, <1>3, <2>3 DEF PendingExact
  <2>5. \A r \in handled : mdReplies[r] = 0 => place'[r] = "handler"
    BY <1>1, <1>2, <1>3 DEF PendingExact, TypeOK
  <2> QED
    BY <2>1, <2>4, <2>5 DEF PendingExact
<1>8. RepliesCounted'
  <2> SUFFICES ASSUME NEW r \in Requests
               PROVE  toRilj'[r] + toBT'[r] <= IF place'[r] = "done" THEN 1 ELSE 0
    BY DEF RepliesCounted
  <2>1. CASE r # m.req
    BY <1>1, <1>3, <2>1 DEF RepliesCounted
  <2>2. CASE r = m.req
    <3>1. toRilj[r] + toBT[r] <= 0 /\ toRilj[r] \in Nat /\ toBT[r] \in Nat
      BY <1>1, <1>2, <2>2 DEF RepliesCounted, TypeOK
    <3> QED
      BY <1>3, <2>2, <3>1
  <2> QED
    BY <2>1, <2>2
<1> QED
  BY <1>4, <1>5, <1>6, <1>7, <1>8 DEF RequestTracked

(* A client's request, or its NOT_SUPPORTED answer, enters its queue. *)
LEMMA EnqueueRequestStep ==
  ASSUME TypeOK, RequestTracked, NEW r \in Requests, EnqueueRequest(r)
  PROVE  RequestTracked'
<1> USE DEF mdVars, ctlVars, outVars
<1>1. OneMessage /\ ChannelsApart /\ HandledOnce /\ PendingExact /\ RepliesCounted
  BY DEF RequestTracked
<1>2. PICK p2 \in {"response", "request"} : Move(r, p2) /\ (p2 = "response" <=> r \in Unsupported)
  BY DEF EnqueueRequest
<1>3. /\ place[r] = "new" /\ place'[r] = p2
      /\ \A x \in Requests \ {r} : place'[x] = place[x]
  BY <1>2 DEF EnqueueRequest, Move, TypeOK
<1>4. /\ RequestOf(r) \in Messages /\ ResponseOf(r) \in Messages
      /\ MsgKey \in [Messages -> Requests] /\ MsgKey[RequestOf(r)] = r /\ MsgKey[ResponseOf(r)] = r
      /\ place \in [Requests -> Places]
      /\ dispatchRequestQueue \in Seq(Messages) /\ dispatchResponseQueue \in Seq(Messages)
  BY Keys, MessageTypes DEF RequestOf, ResponseOf, Msg, TypeOK
<1>5. Tracked(dispatchRequestQueue', MsgKey, place', "request")
  <2>1. CASE r \in Unsupported
    BY <1>1, <1>2, <1>3, <2>1, Elsewhere DEF EnqueueRequest
  <2>2. CASE r \notin Unsupported
    <3>1. /\ dispatchRequestQueue' = Append(dispatchRequestQueue, RequestOf(r))
          /\ place' = [place EXCEPT ![MsgKey[RequestOf(r)]] = "request"]
      BY <1>4, <2>2 DEF EnqueueRequest, Move
    <3>2. Tracked(dispatchRequestQueue, MsgKey, place, "request") /\ place[MsgKey[RequestOf(r)]] # "request"
      BY <1>1, <1>3, <1>4 DEF OneMessage
    <3> QED
      BY <1>4, <3>1, <3>2, TrackedAppend
  <2> QED
    BY <2>1, <2>2
<1>6. Tracked(dispatchResponseQueue', MsgKey, place', "response")
  <2>1. CASE r \notin Unsupported
    BY <1>1, <1>2, <1>3, <2>1, Elsewhere DEF EnqueueRequest
  <2>2. CASE r \in Unsupported
    <3>1. /\ dispatchResponseQueue' = Append(dispatchResponseQueue, ResponseOf(r))
          /\ place' = [place EXCEPT ![MsgKey[ResponseOf(r)]] = "response"]
      BY <1>4, <2>2 DEF EnqueueRequest, Move
    <3>2. Tracked(dispatchResponseQueue, MsgKey, place, "response") /\ place[MsgKey[ResponseOf(r)]] # "response"
      BY <1>1, <1>3, <1>4 DEF OneMessage
    <3> QED
      BY <1>4, <3>1, <3>2, TrackedAppend
  <2> QED
    BY <2>1, <2>2
<1>7. /\ LooperTracked(mainLooper, MsgKey, place', "main")
      /\ Tracked(m_suspended_msg_list, MsgKey, place', "suspended")
      /\ LooperTracked(mclLooper, ReqKey, place', "mcl")
      /\ \A c \in Channels : LooperTracked(chanLooper[c], ReqKey, place', "channel")
  BY <1>1, <1>2, <1>3, Elsewhere
<1>8. UNCHANGED << mainLooper, main, pendingQueue, mclLooper, chanLooper, handled, mdReplies,
                   m_suspended_msg_list, toRilj, toBT >>
  BY DEF EnqueueRequest
<1>9. main.pc = "send" => main.req \in Requests \ {r}
  BY <1>1, <1>3 DEF OneMessage, TypeOK, MainStates
<1>10. OneMessage'
  BY <1>1, <1>3, <1>5, <1>6, <1>7, <1>8, <1>9 DEF OneMessage
<1>11. ChannelsApart'
  BY <1>1, <1>8 DEF ChannelsApart, OnItsChannel
<1>12. r \notin handled
  BY <1>1, <1>3 DEF HandledOnce
<1>13. HandledOnce'
  <2>1. NotHandled(dispatchResponseQueue', handled)
    <3>1. NotHandled(dispatchResponseQueue, handled)
      BY <1>1 DEF HandledOnce
    <3>2. ~IsRequest(ResponseOf(r))
      BY DEF IsRequest, ResponseOf, Msg
    <3>3. NotHandled(Append(dispatchResponseQueue, ResponseOf(r)), handled)
      BY <1>4, <3>1, <3>2, NotHandledLists
    <3> QED
      BY <3>1, <3>3 DEF EnqueueRequest
  <2>2. \A x \in handled : place'[x] \in {"handler", "response", "main", "suspended", "done"}
    BY <1>1, <1>3, <1>12 DEF HandledOnce, TypeOK
  <2> QED
    BY <1>1, <1>8, <2>1, <2>2 DEF HandledOnce
<1>14. PendingExact'
  <2>1. pendingQueue[r] = 0 /\ ~Recorded(r)
    BY <1>1, <1>3, <1>9 DEF PendingExact, Recorded
  <2>2. \A x \in Requests : Recorded(x)' <=> Recorded(x)
    BY <1>8 DEF Recorded
  <2>3. \A x \in Requests :
          pendingQueue'[x] = IF place'[x] \in {"mcl", "channel", "handler"} \/ Recorded(x)'
                             THEN 1 ELSE 0
    BY <1>1, <1>3, <1>8, <2>1, <2>2 DEF PendingExact
  <2> QED
    BY <1>1, <1>3, <1>8, <1>12, <2>3 DEF PendingExact, TypeOK
<1>15. RepliesCounted'
  BY <1>1, <1>3, <1>8 DEF RepliesCounted
<1> QED
  BY <1>10, <1>11, <1>13, <1>14, <1>15 DEF RequestTracked

(* A drainer moves the head of its queue to the main looper.  q is that queue
   and p its place; what it hands over no handler has had, or is a response. *)
LEMMA DrainStep ==
  ASSUME TypeOK, RequestTracked, NEW q \in Seq(Messages), q # << >>,
         NEW p \in {"request", "response"}, Tracked(q, MsgKey, place, p),
         Move(Head(q).req, "main"), mainLooper' = SendMessage(mainLooper, Head(q)),
         UNCHANGED << main, pendingQueue, mdVars, m_suspended_msg_list, outVars >>,
         \/ /\ p = "request" /\ q = dispatchRequestQueue /\ dispatchRequestQueue' = Tail(q)
            /\ dispatchResponseQueue' = dispatchResponseQueue
         \/ /\ p = "response" /\ q = dispatchResponseQueue /\ dispatchResponseQueue' = Tail(q)
            /\ dispatchRequestQueue' = dispatchRequestQueue,
         IsRequest(Head(q)) => Head(q).req \notin handled
  PROVE  RequestTracked'
<1> USE DEF mdVars, outVars
<1> DEFINE m == Head(q)
           r == m.req
<1>1. OneMessage /\ ChannelsApart /\ HandledOnce /\ PendingExact /\ RepliesCounted
  BY DEF RequestTracked
<1>2. m \in Messages
  OBVIOUS
<1>3. /\ r \in Requests /\ MsgKey \in [Messages -> Requests] /\ MsgKey[m] = r
      /\ place \in [Requests -> Places]
  BY <1>2, Keys DEF Messages, TypeOK
<1>4. place[r] = p
  <2>1. m = q[1] /\ 1 \in DOMAIN q
    BY TailEntries
  <2>2. q[1] \in DOMAIN MsgKey
    BY <1>2, <1>3, <2>1
  <2>3. place[MsgKey[q[1]]] = p
    BY <2>1, <2>2 DEF Tracked
  <2> QED
    BY <1>3, <2>1, <2>3
<1> HIDE DEF m
<1>5. /\ place' = [place EXCEPT ![MsgKey[m]] = "main"]
      /\ place'[r] = "main" /\ \A x \in Requests \ {r} : place'[x] = place[x]
  BY <1>3 DEF Move, m
<1>6. Tracked(Tail(q), MsgKey, place', p)
  BY <1>2, <1>3, <1>5, TrackedTail DEF m
<1>7. LooperTracked(mainLooper', MsgKey, place', "main")
  <2>1. /\ mainLooper \in LooperOf(Messages \cup SyncMessages)
        /\ LooperTracked(mainLooper, MsgKey, place, "main") /\ place[MsgKey[m]] # "main"
    BY <1>1, <1>3, <1>4 DEF TypeOK, OneMessage
  <2>2. m \in Messages \cup SyncMessages
    BY <1>2
  <2>3. LooperTracked(SendMessage(mainLooper, m), MsgKey, [place EXCEPT ![MsgKey[m]] = "main"], "main")
    BY <1>2, <1>3, <2>1, <2>2, LooperSendTracked
  <2> QED
    BY <1>5, <2>3 DEF m
<1>8. /\ p # "request" => Tracked(dispatchRequestQueue, MsgKey, place', "request")
      /\ p # "response" => Tracked(dispatchResponseQueue, MsgKey, place', "response")
      /\ Tracked(m_suspended_msg_list, MsgKey, place', "suspended")
      /\ LooperTracked(mclLooper, ReqKey, place', "mcl")
      /\ \A c \in Channels : LooperTracked(chanLooper[c], ReqKey, place', "channel")
  BY <1>1, <1>3, <1>4, Elsewhere DEF m
<1>9. main.pc = "send" => main.req \in Requests \ {r}
  BY <1>1, <1>4 DEF OneMessage, TypeOK, MainStates
<1>10. OneMessage'
  <2>1. main'.pc = "send" => place'[main'.req] = "sending"
    BY <1>1, <1>5, <1>9 DEF OneMessage
  <2>2. Tracked(dispatchRequestQueue', MsgKey, place', "request")
        /\ Tracked(dispatchResponseQueue', MsgKey, place', "response")
    BY <1>6, <1>8
  <2> QED
    BY <1>7, <1>8, <2>1, <2>2 DEF OneMessage
<1>11. ChannelsApart'
  BY <1>1 DEF ChannelsApart, OnItsChannel
<1>12. HandledOnce'
  <2>1. mainLooper.hi \in Seq(Messages \cup SyncMessages) /\ mainLooper.lo \in Seq(Messages \cup SyncMessages)
    BY DEF TypeOK, LooperOf
  <2>2. mainLooper'.hi = mainLooper.hi /\ mainLooper'.lo = Append(mainLooper.lo, m)
    BY DEF SendMessage, m
  <2>3. NotHandled(Append(mainLooper.lo, m), handled)
    BY <1>1, <1>2, <2>1, NotHandledLists DEF HandledOnce, m
  <2>4. \A x \in handled : place'[x] \in {"handler", "response", "main", "suspended", "done"}
    BY <1>1, <1>5 DEF HandledOnce, TypeOK
  <2>5. NotHandled(dispatchResponseQueue', handled)
    <3>1. NotHandled(dispatchResponseQueue, handled) /\ dispatchResponseQueue \in Seq(Messages)
      BY <1>1 DEF HandledOnce, TypeOK
    <3>2. q = dispatchResponseQueue => NotHandled(Tail(q), handled)
      BY <3>1, NotHandledLists
    <3> QED
      BY <3>1, <3>2
  <2> QED
    BY <1>1, <2>2, <2>3, <2>4, <2>5 DEF HandledOnce
<1>13. PendingExact'
  <2>1. pendingQueue[r] = 0 /\ ~Recorded(r)
    BY <1>1, <1>3, <1>4, <1>9 DEF PendingExact, Recorded
  <2>2. \A x \in Requests : Recorded(x)' <=> Recorded(x)
    BY DEF Recorded
  <2>3. \A x \in Requests :
          pendingQueue'[x] = IF place'[x] \in {"mcl", "channel", "handler"} \/ Recorded(x)'
                             THEN 1 ELSE 0
    BY <1>1, <1>5, <2>1, <2>2 DEF PendingExact
  <2>4. \A x \in handled : mdReplies[x] = 0 => place'[x] = "handler"
    BY <1>1, <1>4, <1>5 DEF PendingExact, TypeOK
  <2> QED
    BY <1>1, <2>3, <2>4 DEF PendingExact
<1>14. RepliesCounted'
  BY <1>1, <1>4, <1>5 DEF RepliesCounted
<1> QED
  BY <1>10, <1>11, <1>12, <1>13, <1>14 DEF RequestTracked

(* requestToMcl: the pending entry first, the message to the modem side then. *)
LEMMA RequestToMclStep ==
  ASSUME TypeOK, RequestTracked, RequestToMcl
  PROVE  RequestTracked'
<1> USE DEF queues, ctlVars, outVars
<1> DEFINE r == main.req
<1>1. OneMessage /\ ChannelsApart /\ HandledOnce /\ PendingExact /\ RepliesCounted
  BY DEF RequestTracked
<1>2. main.pc = "send" /\ r \in Requests /\ place[r] = "sending"
  BY <1>1 DEF RequestToMcl, AddMessageToPendingQueue, EnqueueMclMessage, OneMessage, TypeOK, MainStates
<1>3. UNCHANGED << dispatchRequestQueue, dispatchResponseQueue, mainLooper, chanLooper, handled,
                   mdReplies, m_suspended_msg_list, toRilj, toBT >>
  BY DEF RequestToMcl
<1>4. main.steps = RequestToMclSteps \/ main.steps = << "enqueueMclMessage" >>
  BY <1>1, <1>2 DEF PendingExact
<1>5. CASE AddMessageToPendingQueue
  <2>1. Head(main.steps) = "addMessageToPendingQueue"
    BY <1>5 DEF AddMessageToPendingQueue
  <2>2. main.steps = RequestToMclSteps
    <3>1. Head(<< "enqueueMclMessage" >>) # "addMessageToPendingQueue"
      OBVIOUS
    <3> QED
      BY <1>4, <2>1, <3>1
  <2>3. Len(RequestToMclSteps) = 2 /\ Tail(RequestToMclSteps) = << "enqueueMclMessage" >>
        /\ RequestToMclSteps # << "enqueueMclMessage" >>
    BY DEF RequestToMclSteps
  <2>4. main' = [pc |-> "send", req |-> r, steps |-> << "enqueueMclMessage" >>]
    <3>1. Len(main.steps) # 1 /\ Tail(main.steps) = << "enqueueMclMessage" >>
      BY <2>2, <2>3
    <3>2. main' = [pc |-> "send", req |-> main.req, steps |-> Tail(main.steps)]
      BY <3>1 DEF RequestToMcl
    <3> QED
      BY <3>1, <3>2
  <2>5. /\ pendingQueue' = [pendingQueue EXCEPT ![r] = @ + 1]
        /\ UNCHANGED << mclLooper, sent, place >>
    BY <1>5 DEF AddMessageToPendingQueue
  <2>6. OneMessage'
    BY <1>1, <1>2, <1>3, <2>4, <2>5 DEF OneMessage
  <2>7. ChannelsApart' /\ HandledOnce' /\ RepliesCounted'
    BY <1>1, <1>3, <2>5 DEF ChannelsApart, OnItsChannel, HandledOnce, RepliesCounted
  <2>8. PendingExact'
    <3>1. \A x \in Requests : ~Recorded(x) /\ (Recorded(x)' <=> x = r)
      BY <2>2, <2>3, <2>4 DEF Recorded
    <3>2. pendingQueue[r] = 0
      BY <1>1, <1>2, <3>1 DEF PendingExact
    <3>3. pendingQueue'[r] = 1 /\ \A x \in Requests \ {r} : pendingQueue'[x] = pendingQueue[x]
      BY <1>2, <2>5, <3>2 DEF TypeOK
    <3>4. \A x \in Requests :
            pendingQueue'[x] = IF place'[x] \in {"mcl", "channel", "handler"} \/ Recorded(x)'
                               THEN 1 ELSE 0
      BY <1>1, <2>5, <3>1, <3>3 DEF PendingExact
    <3> QED
      BY <1>1, <1>3, <2>4, <2>5, <3>4 DEF PendingExact
  <2> QED
    BY <2>6, <2>7, <2>8 DEF RequestTracked
<1>6. CASE EnqueueMclMessage
  <2>1. Head(main.steps) = "enqueueMclMessage"
    BY <1>6 DEF EnqueueMclMessage
  <2>2. main.steps = << "enqueueMclMessage" >>
    <3>1. Head(RequestToMclSteps) # "enqueueMclMessage"
      BY DEF RequestToMclSteps
    <3> QED
      BY <1>4, <2>1, <3>1
  <2>3. main' = [pc |-> "resume", i |-> 1]
    BY <2>2 DEF RequestToMcl, AfterMessage
  <2>4. /\ mclLooper' = IF r \in AtFront THEN SendMessageFront(mclLooper, r) ELSE SendMessage(mclLooper, r)
        /\ Move(r, "mcl") /\ UNCHANGED pendingQueue
    BY <1>6 DEF EnqueueMclMessage
  <2>5. /\ place' = [place EXCEPT ![ReqKey[r]] = "mcl"] /\ place \in [Requests -> Places]
        /\ place'[r] = "mcl" /\ \A x \in Requests \ {r} : place'[x] = place[x]
    BY <1>2, <2>4, Keys DEF Move, TypeOK
  <2>6. LooperTracked(mclLooper', ReqKey, place', "mcl")
    <3>1. /\ mclLooper \in LooperOf(Requests) /\ LooperTracked(mclLooper, ReqKey, place, "mcl")
          /\ ReqKey \in [Requests -> Requests] /\ place[ReqKey[r]] # "mcl"
      BY <1>1, <1>2, Keys DEF TypeOK, OneMessage
    <3>2. /\ LooperTracked(SendMessage(mclLooper, r), ReqKey, [place EXCEPT ![ReqKey[r]] = "mcl"], "mcl")
          /\ LooperTracked(SendMessageFront(mclLooper, r), ReqKey, [place EXCEPT ![ReqKey[r]] = "mcl"], "mcl")
      BY <1>2, <2>5, <3>1, LooperSendTracked
    <3> QED
      BY <2>4, <2>5, <3>2
  <2>7. OneMessage'
    BY <1>1, <1>2, <1>3, <2>3, <2>4, <2>6, Elsewhere DEF OneMessage
  <2>8. ChannelsApart' /\ RepliesCounted'
    BY <1>1, <1>2, <1>3, <2>5 DEF ChannelsApart, OnItsChannel, RepliesCounted
  <2>9. r \notin handled
    BY <1>1, <1>2 DEF HandledOnce
  <2>10. HandledOnce'
    BY <1>1, <1>3, <2>5, <2>9 DEF HandledOnce, TypeOK
  <2>11. PendingExact'
    <3>1. \A x \in Requests : ~Recorded(x)' /\ (Recorded(x) <=> x = r)
      BY <1>2, <2>2, <2>3 DEF Recorded
    <3>2. \A x \in Requests :
            pendingQueue'[x] = IF place'[x] \in {"mcl", "channel", "handler"} \/ Recorded(x)'
                               THEN 1 ELSE 0
      BY <1>1, <2>4, <2>5, <3>1 DEF PendingExact
    <3>3. \A x \in handled : mdReplies[x] = 0 => place'[x] = "handler"
      BY <1>1, <2>5, <2>9 DEF PendingExact, TypeOK
    <3> QED
      BY <1>3, <2>3, <3>2, <3>3 DEF PendingExact
  <2> QED
    BY <2>7, <2>8, <2>10, <2>11 DEF RequestTracked
<1> QED
  BY <1>5, <1>6 DEF RequestToMcl

(* processSuspendedMessage puts one suspended message back on the looper. *)
LEMMA ResumeStep ==
  ASSUME TypeOK, RequestTracked, ResumeMessage
  PROVE  RequestTracked'
<1> USE DEF queues, mdVars, outVars
<1> DEFINE m == m_suspended_msg_list[main.i]
           r == m.req
<1>1. OneMessage /\ ChannelsApart /\ HandledOnce /\ PendingExact /\ RepliesCounted
  BY DEF RequestTracked
<1>2. main.i \in 1 .. Len(m_suspended_msg_list) /\ main.pc = "resume"
  BY DEF TypeOK, ResumeMessage, MainStates
<1>3. m \in Messages
  BY <1>2 DEF TypeOK
<1>4. /\ r \in Requests /\ MsgKey \in [Messages -> Requests] /\ MsgKey[m] = r
      /\ place \in [Requests -> Places] /\ m_suspended_msg_list \in Seq(Messages)
  BY <1>3, Keys DEF Messages, TypeOK
<1>5. place[r] = "suspended"
  <2>1. main.i \in DOMAIN m_suspended_msg_list /\ m \in DOMAIN MsgKey
    BY <1>2, <1>3, <1>4
  <2>2. Tracked(m_suspended_msg_list, MsgKey, place, "suspended")
    BY <1>1 DEF OneMessage
  <2>3. place[MsgKey[m]] = "suspended"
    BY <2>1, <2>2 DEF Tracked
  <2> QED
    BY <1>4, <2>3
<1>6. IsRequest(m) => r \notin handled
  <2>1. NotHandled(m_suspended_msg_list, handled) /\ main.i \in DOMAIN m_suspended_msg_list
    BY <1>1, <1>2, <1>4 DEF HandledOnce
  <2> QED
    BY <1>3, <2>1 DEF NotHandled
<1>7. /\ mainLooper' = SendMessageFront(mainLooper, m)
      /\ m_suspended_msg_list' = RemoveAt(m_suspended_msg_list, main.i)
      /\ Move(r, "main")
      /\ UNCHANGED << dispatchRequestQueue, dispatchResponseQueue, main, pendingQueue, mclLooper,
                      chanLooper, handled, mdReplies, toRilj, toBT >>
  BY DEF ResumeMessage
<1> HIDE DEF m
<1>8. /\ place' = [place EXCEPT ![MsgKey[m]] = "main"]
      /\ place'[r] = "main" /\ \A x \in Requests \ {r} : place'[x] = place[x]
  BY <1>4, <1>7 DEF Move
<1>9. Tracked(m_suspended_msg_list', MsgKey, place', "suspended")
  BY <1>1, <1>2, <1>3, <1>4, <1>7, <1>8, TrackedRemoveAt DEF OneMessage, m
<1>10. LooperTracked(mainLooper', MsgKey, place', "main")
  <2>1. /\ mainLooper \in LooperOf(Messages \cup SyncMessages) /\ m \in Messages \cup SyncMessages
        /\ LooperTracked(mainLooper, MsgKey, place, "main") /\ place[MsgKey[m]] # "main"
    BY <1>1, <1>3, <1>4, <1>5 DEF TypeOK, OneMessage
  <2>2. LooperTracked(SendMessageFront(mainLooper, m), MsgKey, [place EXCEPT ![MsgKey[m]] = "main"], "main")
    BY <1>3, <1>4, <2>1, LooperSendTracked
  <2> QED
    BY <1>7, <1>8, <2>2
<1>11. /\ Tracked(dispatchRequestQueue, MsgKey, place', "request")
       /\ Tracked(dispatchResponseQueue, MsgKey, place', "response")
       /\ LooperTracked(mclLooper, ReqKey, place', "mcl")
       /\ \A c \in Channels : LooperTracked(chanLooper[c], ReqKey, place', "channel")
  BY <1>1, <1>4, <1>5, <1>7, Elsewhere
<1>12. OneMessage'
  BY <1>2, <1>7, <1>9, <1>10, <1>11 DEF OneMessage
<1>13. ChannelsApart' /\ RepliesCounted'
  BY <1>1, <1>5, <1>7, <1>8 DEF ChannelsApart, OnItsChannel, RepliesCounted
<1>14. HandledOnce'
  <2>1. mainLooper.hi \in Seq(Messages \cup SyncMessages) /\ mainLooper.lo \in Seq(Messages \cup SyncMessages)
    BY DEF TypeOK, LooperOf
  <2>2. mainLooper'.lo = mainLooper.lo /\ mainLooper'.hi = Append(mainLooper.hi, m)
    BY <1>7 DEF SendMessageFront
  <2>3. NotHandled(Append(mainLooper.hi, m), handled)
    BY <1>1, <1>3, <1>6, <2>1, NotHandledLists DEF HandledOnce
  <2>4. NotHandled(m_suspended_msg_list', handled)
    BY <1>1, <1>2, <1>4, <1>7, NotHandledLists DEF HandledOnce
  <2>5. \A x \in handled : place'[x] \in {"handler", "response", "main", "suspended", "done"}
    BY <1>1, <1>8 DEF HandledOnce, TypeOK
  <2> QED
    BY <1>1, <1>7, <2>2, <2>3, <2>4, <2>5 DEF HandledOnce
<1>15. PendingExact'
  <2>1. \A x \in Requests : ~Recorded(x) /\ ~Recorded(x)'
    BY <1>2, <1>7 DEF Recorded
  <2>2. \A x \in Requests :
          pendingQueue'[x] = IF place'[x] \in {"mcl", "channel", "handler"} \/ Recorded(x)'
                             THEN 1 ELSE 0
    BY <1>1, <1>5, <1>7, <1>8, <2>1 DEF PendingExact
  <2>3. \A x \in handled : mdReplies[x] = 0 => place'[x] = "handler"
    BY <1>1, <1>5, <1>8 DEF PendingExact, TypeOK
  <2> QED
    BY <1>2, <1>7, <2>2, <2>3 DEF PendingExact
<1> QED
  BY <1>12, <1>13, <1>14, <1>15 DEF RequestTracked

(* enqueueResponseMessage finds the pending entry of a request whose answer is
   owed, takes it out and puts the response in its queue. *)
LEMMA AnswerFound ==
  ASSUME TypeOK, OneMessage, HandledOnce, NEW r \in Requests, NEW m \in Messages,
         m.req = r, ~IsRequest(m), pendingQueue[r] = 1, place[r] # "response",
         EnqueueResponse(r, m)
  PROVE  /\ Move(r, "response")
         /\ pendingQueue' = [pendingQueue EXCEPT ![r] = 0]
         /\ Tracked(dispatchResponseQueue', MsgKey, place', "response")
         /\ NotHandled(dispatchResponseQueue', handled)
<1>1. /\ Move(r, "response")
      /\ pendingQueue' = [pendingQueue EXCEPT ![r] = pendingQueue[r] - 1]
      /\ dispatchResponseQueue' = Append(dispatchResponseQueue, m)
  BY DEF EnqueueResponse
<1>2. pendingQueue' = [pendingQueue EXCEPT ![r] = 0]
  BY <1>1
<1>3. /\ MsgKey \in [Messages -> Requests] /\ MsgKey[m] = r /\ place \in [Requests -> Places]
      /\ dispatchResponseQueue \in Seq(Messages)
      /\ Tracked(dispatchResponseQueue, MsgKey, place, "response")
      /\ NotHandled(dispatchResponseQueue, handled)
  BY Keys DEF TypeOK, OneMessage, HandledOnce
<1>4. place[MsgKey[m]] # "response" /\ place' = [place EXCEPT ![MsgKey[m]] = "response"]
  BY <1>1, <1>3 DEF Move
<1>5. Tracked(dispatchResponseQueue', MsgKey, place', "response")
  BY <1>1, <1>3, <1>4, TrackedAppend
<1>6. NotHandled(dispatchResponseQueue', handled)
  BY <1>1, <1>3, NotHandledLists
<1> QED
  BY <1>1, <1>2, <1>5, <1>6

(* The Mcl dispatcher hands a request to its channel, or answers it. *)
LEMMA MclDispatchStep ==
  ASSUME TypeOK, RequestTracked, MclDispatch
  PROVE  RequestTracked'
<1> USE DEF queues, mdVars, ctlVars, outVars
<1> DEFINE r == LooperHead(mclLooper)
<1>1. OneMessage /\ ChannelsApart /\ HandledOnce /\ PendingExact /\ RepliesCounted
  BY DEF RequestTracked
<1>2. /\ LooperBusy(mclLooper) /\ mclLooper' = LooperTail(mclLooper)
      /\ mclLooper \in LooperOf(Requests)
      /\ UNCHANGED << dispatchRequestQueue, mainLooper, main, handled, mdReplies,
                      m_suspended_msg_list, toRilj, toBT >>
  BY DEF MclDispatch, TypeOK
<1>3. r \in Requests
  BY <1>2, LooperTakeType
<1>4. /\ ReqKey \in [Requests -> Requests] /\ ReqKey[r] = r /\ place \in [Requests -> Places]
      /\ LooperTracked(mclLooper, ReqKey, place, "mcl")
  BY <1>1, <1>3, Keys DEF TypeOK, OneMessage
<1>5. place[r] = "mcl"
  BY <1>2, <1>3, <1>4, LooperTakeTracked
<1>6. ASSUME NEW p2, Move(r, p2) PROVE LooperTracked(mclLooper', ReqKey, place', "mcl")
  <2>1. place' = [place EXCEPT ![ReqKey[r]] = p2]
    BY <1>4, <1>6 DEF Move
  <2> QED
    BY <1>2, <1>3, <1>4, <2>1, LooperTakeTracked
<1>7. /\ main.pc = "send" => main.req \in Requests /\ place[main.req] = "sending"
      /\ ~Recorded(r) /\ (\A x \in Requests : Recorded(x)' <=> Recorded(x))
  BY <1>1, <1>2, <1>5 DEF OneMessage, TypeOK, MainStates, Recorded
<1>8. pendingQueue[r] = 1 /\ r \notin handled
  BY <1>1, <1>3, <1>5 DEF PendingExact, HandledOnce
<1> HIDE DEF r
<1>9. CASE Channel[r] # NoOne
  <2> DEFINE c == Channel[r]
  <2>1. c \in Channels
    BY <1>3, <1>9, ConstAssumption
  <2> HIDE DEF c
  <2>2. /\ chanLooper' = [chanLooper EXCEPT ![c] =
                            IF r \in AtFront THEN SendMessageFront(@, r) ELSE SendMessage(@, r)]
        /\ Move(r, "channel")
        /\ UNCHANGED << pendingQueue, dispatchResponseQueue >>
    BY <1>9 DEF MclDispatch, r, c
  <2>3. /\ place' = [place EXCEPT ![ReqKey[r]] = "channel"] /\ place'[r] = "channel"
        /\ \A x \in Requests \ {r} : place'[x] = place[x]
    BY <1>3, <1>4, <2>2 DEF Move
  <2>4. /\ chanLooper \in [Channels -> LooperOf(Requests)]
        /\ chanLooper'[c] = IF r \in AtFront THEN SendMessageFront(chanLooper[c], r)
                                              ELSE SendMessage(chanLooper[c], r)
        /\ \A d \in Channels \ {c} : chanLooper'[d] = chanLooper[d]
    BY <2>1, <2>2 DEF TypeOK
  <2>5. LooperTracked(chanLooper'[c], ReqKey, place', "channel")
    <3>1. chanLooper[c] \in LooperOf(Requests) /\ LooperTracked(chanLooper[c], ReqKey, place, "channel")
          /\ place[ReqKey[r]] # "channel"
      BY <1>1, <1>4, <1>5, <2>1, <2>4 DEF OneMessage, r
    <3>2. /\ LooperTracked(SendMessage(chanLooper[c], r), ReqKey, [place EXCEPT ![ReqKey[r]] = "channel"], "channel")
          /\ LooperTracked(SendMessageFront(chanLooper[c], r), ReqKey, [place EXCEPT ![ReqKey[r]] = "channel"], "channel")
      BY <1>3, <1>4, <3>1, LooperSendTracked
    <3> QED
      BY <2>3, <2>4, <3>2
  <2>6. \A d \in Channels : LooperTracked(chanLooper'[d], ReqKey, place', "channel")
    <3>1. \A d \in Channels : LooperTracked(chanLooper[d], ReqKey, place', "channel")
      BY <1>1, <1>3, <1>5, <2>2, Elsewhere DEF r
    <3> QED
      BY <2>4, <2>5, <3>1
  <2>7. OneMessage'
    <3>1. /\ Tracked(dispatchRequestQueue, MsgKey, place', "request")
          /\ Tracked(dispatchResponseQueue, MsgKey, place', "response")
          /\ LooperTracked(mainLooper, MsgKey, place', "main")
          /\ Tracked(m_suspended_msg_list, MsgKey, place', "suspended")
      BY <1>1, <1>3, <1>5, <2>2, Elsewhere DEF r
    <3>2. main'.pc = "send" => place'[main'.req] = "sending"
      BY <1>2, <1>5, <1>7, <2>3 DEF r
    <3>3. LooperTracked(mclLooper', ReqKey, place', "mcl")
      BY <1>6, <2>2
    <3> QED
      BY <1>2, <2>2, <2>6, <3>1, <3>2, <3>3 DEF OneMessage
  <2>8. ChannelsApart'
    <3>1. OnItsChannel(chanLooper[c], c) /\ chanLooper[c] \in LooperOf(Requests)
      BY <1>1, <2>1, <2>4 DEF ChannelsApart
    <3>2. chanLooper[c].hi \in Seq(Requests) /\ chanLooper[c].lo \in Seq(Requests)
      BY <3>1 DEF LooperOf
    <3>3. ASSUME NEW q \in Seq(Requests), \A i \in DOMAIN q : Channel[q[i]] = c
          PROVE  \A i \in DOMAIN Append(q, r) : Channel[Append(q, r)[i]] = c
      <4>1. /\ DOMAIN Append(q, r) = 1 .. Len(q) + 1 /\ DOMAIN q = 1 .. Len(q) /\ Len(q) \in Nat
            /\ \A i \in 1 .. Len(q) : Append(q, r)[i] = q[i]
            /\ Append(q, r)[Len(q) + 1] = r
        OBVIOUS
      <4>2. \A i \in DOMAIN Append(q, r) :
              (i \in DOMAIN q /\ Append(q, r)[i] = q[i]) \/ Append(q, r)[i] = r
        BY <4>1
      <4> QED
        BY <3>3, <4>2 DEF c
    <3>4. /\ \A i \in DOMAIN Append(chanLooper[c].hi, r) : Channel[Append(chanLooper[c].hi, r)[i]] = c
          /\ \A i \in DOMAIN Append(chanLooper[c].lo, r) : Channel[Append(chanLooper[c].lo, r)[i]] = c
      BY <3>1, <3>2, <3>3 DEF OnItsChannel
    <3>5. OnItsChannel(SendMessage(chanLooper[c], r), c) /\ OnItsChannel(SendMessageFront(chanLooper[c], r), c)
      BY <3>1, <3>4 DEF OnItsChannel, SendMessage, SendMessageFront
    <3>6. \A d \in Channels : OnItsChannel(chanLooper'[d], d)
      BY <1>1, <2>4, <3>5 DEF ChannelsApart
    <3> QED
      BY <3>6 DEF ChannelsApart, OnItsChannel
  <2>9. HandledOnce'
    BY <1>1, <1>2, <1>8, <2>2, <2>3 DEF HandledOnce, TypeOK, r
  <2>10. PendingExact'
    <3>1. \A x \in Requests :
            pendingQueue'[x] = IF place'[x] \in {"mcl", "channel", "handler"} \/ Recorded(x)'
                               THEN 1 ELSE 0
      BY <1>1, <1>5, <1>7, <1>8, <2>2, <2>3 DEF PendingExact, r
    <3>2. \A x \in handled : mdReplies[x] = 0 => place'[x] = "handler"
      BY <1>1, <1>8, <2>3 DEF PendingExact, TypeOK, r
    <3> QED
      BY <1>1, <1>2, <3>1, <3>2 DEF PendingExact
  <2>11. RepliesCounted'
    BY <1>1, <1>2, <1>5, <2>3 DEF RepliesCounted, r
  <2> QED
    BY <2>7, <2>8, <2>9, <2>10, <2>11 DEF RequestTracked
<1>10. CASE Channel[r] = NoOne
  <2>1. EnqueueResponse(r, Msg("RESPONSE", r)) /\ chanLooper' = chanLooper
    BY <1>10 DEF MclDispatch, r
  <2>2. /\ Msg("RESPONSE", r) \in Messages /\ Msg("RESPONSE", r).req = r
        /\ ~IsRequest(Msg("RESPONSE", r))
    BY <1>3, MessageTypes DEF Msg, IsRequest
  <2>3. /\ Move(r, "response")
        /\ pendingQueue' = [pendingQueue EXCEPT ![r] = 0]
        /\ Tracked(dispatchResponseQueue', MsgKey, place', "response")
        /\ NotHandled(dispatchResponseQueue', handled)
    BY <1>1, <1>3, <1>5, <1>8, <2>1, <2>2, AnswerFound DEF r
  <2>4. /\ place'[r] = "response" /\ \A x \in Requests \ {r} : place'[x] = place[x]
        /\ pendingQueue'[r] = 0 /\ \A x \in Requests \ {r} : pendingQueue'[x] = pendingQueue[x]
    BY <1>3, <2>3 DEF Move, TypeOK
  <2>5. OneMessage'
    <3>1. /\ Tracked(dispatchRequestQueue, MsgKey, place', "request")
          /\ LooperTracked(mainLooper, MsgKey, place', "main")
          /\ Tracked(m_suspended_msg_list, MsgKey, place', "suspended")
          /\ \A d \in Channels : LooperTracked(chanLooper[d], ReqKey, place', "channel")
      BY <1>1, <1>3, <1>5, <2>3, Elsewhere DEF r
    <3>2. main'.pc = "send" => place'[main'.req] = "sending"
      BY <1>2, <1>5, <1>7, <2>4 DEF r
    <3>3. LooperTracked(mclLooper', ReqKey, place', "mcl")
      BY <1>6, <2>3
    <3> QED
      BY <1>2, <2>1, <2>3, <3>1, <3>2, <3>3 DEF OneMessage
  <2>6. ChannelsApart' /\ RepliesCounted'
    BY <1>1, <1>2, <1>5, <2>1, <2>4 DEF ChannelsApart, OnItsChannel, RepliesCounted, r
  <2>7. HandledOnce'
    BY <1>1, <1>2, <1>8, <2>3, <2>4 DEF HandledOnce, TypeOK, r
  <2>8. PendingExact'
    <3>1. \A x \in Requests :
            pendingQueue'[x] = IF place'[x] \in {"mcl", "channel", "handler"} \/ Recorded(x)'
                               THEN 1 ELSE 0
      BY <1>1, <1>7, <2>4 DEF PendingExact, r
    <3>2. \A x \in handled : mdReplies[x] = 0 => place'[x] = "handler"
      BY <1>1, <1>8, <2>4 DEF PendingExact, TypeOK, r
    <3> QED
      BY <1>1, <1>2, <3>1, <3>2 DEF PendingExact
  <2> QED
    BY <2>5, <2>6, <2>7, <2>8 DEF RequestTracked
<1> QED
  BY <1>9, <1>10

(* A list whose requests are elsewhere does not mind r being handled. *)
LEMMA HandledElsewhere ==
  ASSUME NEW q, NEW r, NEW h, NEW p, Tracked(q, MsgKey, place, p), place[r] # p,
         NotHandled(q, h)
  PROVE  NotHandled(q, h \cup {r})
<1>1. \A i \in DOMAIN q : q[i] \in Messages => place[q[i].req] = p
  BY Keys DEF Tracked
<1> QED
  BY <1>1 DEF NotHandled

(* A channel's sender gives the next request to its handler. *)
LEMMA ChannelDispatchStep ==
  ASSUME TypeOK, RequestTracked, NEW c \in Channels, ChannelDispatch(c)
  PROVE  RequestTracked'
<1> USE DEF queues, ctlVars, outVars
<1> DEFINE r == LooperHead(chanLooper[c])
<1>1. OneMessage /\ ChannelsApart /\ HandledOnce /\ PendingExact /\ RepliesCounted
  BY DEF RequestTracked
<1>2. /\ LooperBusy(chanLooper[c]) /\ chanLooper' = [chanLooper EXCEPT ![c] = LooperTail(@)]
      /\ handled' = handled \cup {r} /\ Move(r, "handler")
      /\ chanLooper \in [Channels -> LooperOf(Requests)]
      /\ UNCHANGED << dispatchRequestQueue, dispatchResponseQueue, mainLooper, main, pendingQueue,
                      mclLooper, mdReplies, m_suspended_msg_list, toRilj, toBT >>
  BY DEF ChannelDispatch, TypeOK
<1>3. /\ chanLooper[c] \in LooperOf(Requests) /\ chanLooper'[c] = LooperTail(chanLooper[c])
      /\ \A d \in Channels \ {c} : chanLooper'[d] = chanLooper[d]
  BY <1>2
<1>4. r \in Requests
  BY <1>2, <1>3, LooperTakeType
<1>5. /\ ReqKey \in [Requests -> Requests] /\ ReqKey[r] = r /\ place \in [Requests -> Places]
      /\ LooperTracked(chanLooper[c], ReqKey, place, "channel")
  BY <1>1, <1>4, Keys DEF TypeOK, OneMessage
<1>6. place[r] = "channel"
  <2>1. /\ place[ReqKey[LooperHead(chanLooper[c])]] = "channel"
        /\ LooperTracked(LooperTail(chanLooper[c]), ReqKey,
                         [place EXCEPT ![ReqKey[LooperHead(chanLooper[c])]] = "handler"], "channel")
    BY <1>2, <1>3, <1>4, <1>5, LooperTakeTracked
  <2> QED
    BY <1>5, <2>1
<1>7. /\ place' = [place EXCEPT ![ReqKey[r]] = "handler"] /\ place'[r] = "handler"
      /\ \A x \in Requests \ {r} : place'[x] = place[x]
  BY <1>2, <1>4, <1>5 DEF Move
<1>8. LooperTracked(chanLooper'[c], ReqKey, place', "channel")
  BY <1>2, <1>3, <1>4, <1>5, <1>7, LooperTakeTracked
<1>9. Channel[r] = c
  <2>1. OnItsChannel(chanLooper[c], c) /\ chanLooper[c].hi \in Seq(Requests) /\ chanLooper[c].lo \in Seq(Requests)
    BY <1>1, <1>3 DEF ChannelsApart, LooperOf
  <2>2. CASE chanLooper[c].hi # << >>
    BY <2>1, <2>2, TailEntries DEF OnItsChannel, LooperHead
  <2>3. CASE chanLooper[c].hi = << >>
    BY <1>2, <2>1, <2>3, TailEntries DEF OnItsChannel, LooperHead, LooperBusy
  <2> QED
    BY <2>2, <2>3
<1> HIDE DEF r
<1>10. ASSUME NEW d \in Channels \ {c} PROVE LooperTracked(chanLooper'[d], ReqKey, place', "channel")
  <2>1. LooperTracked(chanLooper[d], ReqKey, place, "channel") /\ OnItsChannel(chanLooper[d], d)
        /\ chanLooper[d] \in LooperOf(Requests)
    BY <1>1, <1>2 DEF OneMessage, ChannelsApart
  <2>2. /\ \A i \in DOMAIN chanLooper[d].hi : chanLooper[d].hi[i] # r
        /\ \A i \in DOMAIN chanLooper[d].lo : chanLooper[d].lo[i] # r
    BY <1>9, <2>1 DEF OnItsChannel
  <2>3. Tracked(chanLooper[d].hi, ReqKey, place', "channel") /\ Tracked(chanLooper[d].lo, ReqKey, place', "channel")
    BY <1>7, <2>1, <2>2, Keys DEF LooperTracked, Tracked
  <2> QED
    BY <1>3, <2>1, <2>3 DEF LooperTracked
<1>11. OneMessage'
  <2>1. /\ Tracked(dispatchRequestQueue, MsgKey, place', "request")
        /\ Tracked(dispatchResponseQueue, MsgKey, place', "response")
        /\ LooperTracked(mainLooper, MsgKey, place', "main")
        /\ Tracked(m_suspended_msg_list, MsgKey, place', "suspended")
        /\ LooperTracked(mclLooper, ReqKey, place', "mcl")
    BY <1>1, <1>2, <1>4, <1>6, Elsewhere DEF r
  <2>2. \A d \in Channels : LooperTracked(chanLooper'[d], ReqKey, place', "channel")
    BY <1>8, <1>10
  <2>3. main.pc = "send" => main.req \in Requests /\ place[main.req] = "sending"
    BY <1>1 DEF OneMessage, TypeOK, MainStates
  <2>4. main'.pc = "send" => place'[main'.req] = "sending"
    BY <1>2, <1>6, <1>7, <2>3 DEF r
  <2> QED
    BY <1>2, <2>1, <2>2, <2>4 DEF OneMessage
<1>12. ChannelsApart'
  <2>1. OnItsChannel(chanLooper[c], c) /\ chanLooper[c].hi \in Seq(Requests) /\ chanLooper[c].lo \in Seq(Requests)
    BY <1>1, <1>3 DEF ChannelsApart, LooperOf
  <2>2. OnItsChannel(LooperTail(chanLooper[c]), c)
    <3>1. CASE chanLooper[c].hi # << >>
      BY <2>1, <3>1, TailEntries DEF OnItsChannel, LooperTail
    <3>2. CASE chanLooper[c].hi = << >>
      BY <1>2, <2>1, <3>2, TailEntries DEF OnItsChannel, LooperTail, LooperBusy
    <3> QED
      BY <3>1, <3>2
  <2>3. \A d \in Channels : OnItsChannel(chanLooper'[d], d)
    BY <1>1, <1>3, <2>2 DEF ChannelsApart
  <2> QED
    BY <2>3 DEF ChannelsApart, OnItsChannel
<1>13. HandledOnce'
  <2>1. /\ NotHandled(m_suspended_msg_list, handled \cup {r})
        /\ NotHandled(dispatchResponseQueue, handled \cup {r})
    BY <1>1, <1>6, HandledElsewhere DEF HandledOnce, OneMessage, r
  <2>2. /\ NotHandled(mainLooper.hi, handled \cup {r}) /\ NotHandled(mainLooper.lo, handled \cup {r})
    BY <1>1, <1>6, HandledElsewhere DEF HandledOnce, OneMessage, LooperTracked, r
  <2>3. \A x \in handled \cup {r} : place'[x] \in {"handler", "response", "main", "suspended", "done"}
    BY <1>1, <1>7 DEF HandledOnce, TypeOK, r
  <2> QED
    BY <1>2, <2>1, <2>2, <2>3 DEF HandledOnce, r
<1>14. PendingExact'
  <2>1. \A x \in Requests : Recorded(x)' <=> Recorded(x)
    BY <1>2 DEF Recorded
  <2>2. \A x \in Requests :
          pendingQueue'[x] = IF place'[x] \in {"mcl", "channel", "handler"} \/ Recorded(x)'
                             THEN 1 ELSE 0
    BY <1>1, <1>2, <1>6, <1>7, <2>1 DEF PendingExact, r
  <2>3. \A x \in handled \cup {r} : mdReplies[x] = 0 => place'[x] = "handler"
    BY <1>1, <1>7 DEF PendingExact, TypeOK, r
  <2> QED
    BY <1>1, <1>2, <2>2, <2>3 DEF PendingExact, r
<1>15. RepliesCounted'
  BY <1>1, <1>2, <1>6, <1>7 DEF RepliesCounted, r
<1> QED
  BY <1>11, <1>12, <1>13, <1>14, <1>15 DEF RequestTracked

(* A handler's answer is queued if it is the first and dropped otherwise. *)
LEMMA HandlerReplyStep ==
  ASSUME TypeOK, RequestTracked, NEW r \in Requests, HandlerReply(r)
  PROVE  RequestTracked'
<1> USE DEF ctlVars, outVars
<1>1. OneMessage /\ ChannelsApart /\ HandledOnce /\ PendingExact /\ RepliesCounted
  BY DEF RequestTracked
<1>2. /\ r \in handled /\ mdReplies' = [mdReplies EXCEPT ![r] = @ + 1]
      /\ EnqueueResponse(r, ResponseOf(r))
      /\ UNCHANGED << dispatchRequestQueue, mainLooper, main, mclLooper, chanLooper, handled,
                      m_suspended_msg_list, toRilj, toBT >>
  BY DEF HandlerReply
<1>3. /\ mdReplies'[r] # 0 /\ \A x \in Requests \ {r} : mdReplies'[x] = mdReplies[x]
      /\ \A x \in Requests : Recorded(x)' <=> Recorded(x)
  BY <1>2 DEF TypeOK, Recorded
<1>4. place[r] \in {"handler", "response", "main", "suspended", "done"} /\ ~Recorded(r)
  BY <1>1, <1>2 DEF HandledOnce, OneMessage, Recorded
<1>5. CASE pendingQueue[r] > 0
  <2>1. place[r] = "handler" /\ pendingQueue[r] = 1
    BY <1>1, <1>4, <1>5 DEF PendingExact
  <2>2. ResponseOf(r) \in Messages /\ ResponseOf(r).req = r /\ ~IsRequest(ResponseOf(r))
    BY MessageTypes DEF ResponseOf, Msg, IsRequest
  <2>3. /\ Move(r, "response")
        /\ pendingQueue' = [pendingQueue EXCEPT ![r] = 0]
        /\ Tracked(dispatchResponseQueue', MsgKey, place', "response")
        /\ NotHandled(dispatchResponseQueue', handled)
    BY <1>1, <1>2, <2>1, <2>2, AnswerFound
  <2>4. /\ place'[r] = "response" /\ \A x \in Requests \ {r} : place'[x] = place[x]
        /\ pendingQueue'[r] = 0 /\ \A x \in Requests \ {r} : pendingQueue'[x] = pendingQueue[x]
    BY <2>3 DEF Move, TypeOK
  <2>5. OneMessage'
    <3>1. /\ Tracked(dispatchRequestQueue, MsgKey, place', "request")
          /\ LooperTracked(mainLooper, MsgKey, place', "main")
          /\ Tracked(m_suspended_msg_list, MsgKey, place', "suspended")
          /\ LooperTracked(mclLooper, ReqKey, place', "mcl")
          /\ \A d \in Channels : LooperTracked(chanLooper[d], ReqKey, place', "channel")
      BY <1>1, <2>1, <2>3, Elsewhere
    <3>2. main.pc = "send" => main.req \in Requests /\ place[main.req] = "sending"
      BY <1>1 DEF OneMessage, TypeOK, MainStates
    <3>3. main'.pc = "send" => place'[main'.req] = "sending"
      BY <1>2, <2>1, <2>4, <3>2
    <3> QED
      BY <1>2, <2>3, <3>1, <3>3 DEF OneMessage
  <2>6. ChannelsApart' /\ RepliesCounted'
    BY <1>1, <1>2, <2>1, <2>4 DEF ChannelsApart, OnItsChannel, RepliesCounted
  <2>7. HandledOnce'
    BY <1>1, <1>2, <2>3, <2>4 DEF HandledOnce, TypeOK
  <2>8. PendingExact'
    <3>1. \A x \in Requests :
            pendingQueue'[x] = IF place'[x] \in {"mcl", "channel", "handler"} \/ Recorded(x)'
                               THEN 1 ELSE 0
      BY <1>1, <1>3, <1>4, <2>4 DEF PendingExact
    <3>2. \A x \in handled' : mdReplies'[x] = 0 => place'[x] = "handler"
      BY <1>1, <1>2, <1>3, <2>4 DEF PendingExact, TypeOK
    <3> QED
      BY <1>1, <1>2, <3>1, <3>2 DEF PendingExact
  <2> QED
    BY <2>5, <2>6, <2>7, <2>8 DEF RequestTracked
<1>6. CASE ~(pendingQueue[r] > 0)
  <2>1. UNCHANGED << pendingQueue, dispatchResponseQueue, place >>
    BY <1>2, <1>6 DEF EnqueueResponse
  <2>2. OneMessage'
    BY <1>1, <1>2, <2>1 DEF OneMessage
  <2>3. ChannelsApart' /\ HandledOnce' /\ RepliesCounted'
    BY <1>1, <1>2, <2>1 DEF ChannelsApart, OnItsChannel, HandledOnce, RepliesCounted
  <2>4. PendingExact'
    <3>1. \A x \in handled' : mdReplies'[x] = 0 => place'[x] = "handler"
      BY <1>1, <1>2, <1>3, <2>1 DEF PendingExact, TypeOK
    <3> QED
      BY <1>1, <1>2, <1>3, <2>1, <3>1 DEF PendingExact
  <2> QED
    BY <2>2, <2>3, <2>4 DEF RequestTracked
<1> QED
  BY <1>5, <1>6

(* Every step of every thread keeps one message per request. *)
LEMMA TrackedStep == TypeOK /\ TypeOK' /\ RequestTracked /\ [Next]_vars => RequestTracked'
<1> SUFFICES ASSUME TypeOK, TypeOK', RequestTracked, [Next]_vars PROVE RequestTracked'
  OBVIOUS
<1> USE DEF queues, mdVars, ctlVars, outVars
<1>a. OneMessage /\ HandledOnce
  BY DEF RequestTracked
<1>b. /\ LooperTracked(mainLooper, MsgKey, place, "main")
      /\ NotHandled(mainLooper.hi, handled) /\ NotHandled(mainLooper.lo, handled)
      /\ mainLooper \in LooperOf(Messages \cup SyncMessages)
      /\ mainLooper.hi \in Seq(Messages \cup SyncMessages)
      /\ mainLooper.lo \in Seq(Messages \cup SyncMessages)
  BY <1>a DEF OneMessage, HandledOnce, TypeOK, LooperOf
<1>1. ASSUME NEW r \in Requests, EnqueueRequest(r) PROVE RequestTracked'
  BY <1>1, EnqueueRequestStep
<1>2. ASSUME NEW on \in BOOLEAN, EnqueueStatusSync(on) PROVE RequestTracked'
  BY <1>2, <1>b, QuietStep DEF EnqueueStatusSync
<1>3. ASSUME ProcessRequestQueue PROVE RequestTracked'
  <2> DEFINE q == dispatchRequestQueue
  <2>1. q \in Seq(Messages) /\ q # << >> /\ Tracked(q, MsgKey, place, "request")
    BY <1>3, <1>a DEF TypeOK, ProcessRequestQueue, OneMessage
  <2>2. Head(q) = q[1] /\ 1 \in DOMAIN q /\ Head(q) \in Messages
    BY <2>1, TailEntries
  <2>3. place[Head(q).req] = "request"
    BY <2>1, <2>2, Keys DEF Tracked
  <2>4. Head(q).req \notin handled
    BY <1>a, <2>3 DEF HandledOnce
  <2> QED
    BY <1>3, <2>1, <2>4, DrainStep DEF ProcessRequestQueue
<1>4. ASSUME ProcessResponseQueue PROVE RequestTracked'
  <2> DEFINE q == dispatchResponseQueue
  <2>1. /\ q \in Seq(Messages) /\ q # << >> /\ Tracked(q, MsgKey, place, "response")
        /\ NotHandled(q, handled)
    BY <1>4, <1>a DEF TypeOK, ProcessResponseQueue, OneMessage, HandledOnce
  <2>2. Head(q) = q[1] /\ 1 \in DOMAIN q /\ Head(q) \in Messages
    BY <2>1, TailEntries
  <2>3. IsRequest(Head(q)) => Head(q).req \notin handled
    BY <2>1, <2>2 DEF NotHandled
  <2> QED
    BY <1>4, <2>1, <2>3, DrainStep DEF ProcessResponseQueue
<1>5. ASSUME ProcessStatusSyncQueue PROVE RequestTracked'
  <2> DEFINE s == Head(dispatchStatusSyncQueue)
  <2>1. s \in SyncMessages
    BY <1>5 DEF TypeOK, ProcessStatusSyncQueue
  <2>2. s \notin Messages /\ s \in Messages \cup SyncMessages
    BY <2>1, Keys
  <2>3. mainLooper' = SendMessage(mainLooper, s)
    BY <1>5 DEF ProcessStatusSyncQueue
  <2> HIDE DEF s
  <2>4. LooperTracked(mainLooper', MsgKey, place, "main")
    BY <1>b, <2>2, <2>3, Keys, LooperSendOther
  <2>5. mainLooper'.hi = mainLooper.hi /\ mainLooper'.lo = Append(mainLooper.lo, s)
    BY <2>3 DEF SendMessage
  <2>6. NotHandled(mainLooper'.hi, handled) /\ NotHandled(mainLooper'.lo, handled)
    BY <1>b, <2>2, <2>5, NotHandledLists
  <2> QED
    BY <1>5, <2>4, <2>6, QuietStep DEF ProcessStatusSyncQueue
<1>6. ASSUME ReplyNotSupported PROVE RequestTracked'
  <2>1. PICK m \in Messages :
          /\ Take(m) /\ ResponseToRilj(ResponseOf(m.req)) /\ Move(m.req, "done") /\ AfterMessage
          /\ UNCHANGED << queues, pendingQueue, mdVars, ctlVars, syncs, toBT, issued, sent >>
    BY <1>6 DEF ReplyNotSupported
  <2>2. m.req \in Requests /\ ResponseOf(m.req).req = m.req /\ main'.pc # "send"
    BY <2>1, TakeType DEF ResponseOf, Msg, AfterMessage
  <2>3. /\ \A r \in Requests \ {m.req} : toRilj'[r] = toRilj[r] /\ toBT'[r] = toBT[r]
        /\ toRilj'[m.req] \in Nat /\ toBT'[m.req] \in Nat
        /\ toRilj'[m.req] + toBT'[m.req] <= toRilj[m.req] + toBT[m.req] + 1
    BY <2>1, <2>2 DEF ResponseToRilj, TypeOK
  <2> QED
    BY <2>1, <2>2, <2>3, TakeStep
<1>7. ASSUME ReplyUnavailable PROVE RequestTracked'
  <2>1. PICK m \in Messages :
          /\ Take(m) /\ ResponseToRilj(Msg("RESPONSE", m.req)) /\ Move(m.req, "done") /\ AfterMessage
          /\ UNCHANGED << queues, pendingQueue, mdVars, ctlVars, syncs, toBT, issued, sent >>
    BY <1>7 DEF ReplyUnavailable
  <2>2. m.req \in Requests /\ Msg("RESPONSE", m.req).req = m.req /\ main'.pc # "send"
    BY <2>1, TakeType DEF Msg, AfterMessage
  <2>3. /\ \A r \in Requests \ {m.req} : toRilj'[r] = toRilj[r] /\ toBT'[r] = toBT[r]
        /\ toRilj'[m.req] \in Nat /\ toBT'[m.req] \in Nat
        /\ toRilj'[m.req] + toBT'[m.req] <= toRilj[m.req] + toBT[m.req] + 1
    BY <2>1, <2>2 DEF ResponseToRilj, TypeOK
  <2> QED
    BY <2>1, <2>2, <2>3, TakeStep
<1>8. ASSUME Suspend PROVE RequestTracked'
  <2>1. PICK m \in Messages :
          /\ Take(m) /\ Move(m.req, "suspended") /\ AfterMessage
          /\ m_suspended_msg_list' = Append(m_suspended_msg_list, m)
          /\ UNCHANGED << queues, pendingQueue, mdVars, blocked, radioOn, syncs, outVars,
                          issued, sent >>
    BY <1>8 DEF Suspend
  <2>2. m.req \in Requests /\ main'.pc # "send"
    BY <2>1, TakeType DEF AfterMessage
  <2>3. /\ \A r \in Requests \ {m.req} : toRilj'[r] = toRilj[r] /\ toBT'[r] = toBT[r]
        /\ toRilj'[m.req] \in Nat /\ toBT'[m.req] \in Nat
        /\ toRilj'[m.req] + toBT'[m.req] <= toRilj[m.req] + toBT[m.req] + 0
    BY <2>1, <2>2 DEF TypeOK
  <2> QED
    BY <2>1, <2>2, <2>3, TakeStep
<1>9. ASSUME Forward PROVE RequestTracked'
  <2>1. PICK m \in Messages :
          /\ Take(m) /\ IsRequest(m) /\ Move(m.req, "sending")
          /\ main' = [pc |-> "send", req |-> m.req, steps |-> RequestToMclSteps]
          /\ UNCHANGED << queues, pendingQueue, mdVars, m_suspended_msg_list, radioOn, syncs,
                          outVars, issued, sent >>
    BY <1>9 DEF Forward
  <2>2. m.req \in Requests
    BY <2>1, TakeType
  <2>3. /\ \A r \in Requests \ {m.req} : toRilj'[r] = toRilj[r] /\ toBT'[r] = toBT[r]
        /\ toRilj'[m.req] \in Nat /\ toBT'[m.req] \in Nat
        /\ toRilj'[m.req] + toBT'[m.req] <= toRilj[m.req] + toBT[m.req] + 0
    BY <2>1, <2>2 DEF TypeOK
  <2> QED
    BY <2>1, <2>2, <2>3, TakeStep
<1>10. ASSUME Deliver PROVE RequestTracked'
  <2>1. PICK m \in Messages :
          /\ Take(m) /\ Move(m.req, "done") /\ AfterMessage
          /\ ResponseToRilj(m) /\ ResponseToBT(m)
          /\ UNCHANGED << queues, pendingQueue, mdVars, m_suspended_msg_list, radioOn, syncs,
                          issued, sent >>
    BY <1>10 DEF Deliver
  <2>2. m.req \in Requests /\ main'.pc # "send"
    BY <2>1, TakeType DEF AfterMessage
  <2>3. /\ \A r \in Requests \ {m.req} : toRilj'[r] = toRilj[r] /\ toBT'[r] = toBT[r]
        /\ toRilj'[m.req] = toRilj[m.req] + (IF m.type = "RESPONSE" THEN 1 ELSE 0)
        /\ toBT'[m.req] = toBT[m.req] + (IF m.type = "SAP_RESPONSE" THEN 1 ELSE 0)
        /\ toRilj[m.req] \in Nat /\ toBT[m.req] \in Nat
    BY <2>1, <2>2 DEF ResponseToRilj, ResponseToBT, TypeOK
  <2>4. /\ toRilj'[m.req] \in Nat /\ toBT'[m.req] \in Nat
        /\ toRilj'[m.req] + toBT'[m.req] <= toRilj[m.req] + toBT[m.req] + 1
    BY <2>3
  <2> QED
    BY <2>1, <2>2, <2>3, <2>4, TakeStep
<1>11. ASSUME ApplyStatusSync PROVE RequestTracked'
  <2>1. LooperBusy(mainLooper) /\ mainLooper' = LooperTail(mainLooper) /\ main.pc = "idle"
    BY <1>11 DEF ApplyStatusSync
  <2>2. LooperTracked(mainLooper', MsgKey, place, "main")
    BY <1>b, <2>1, Keys, LooperTakeOther
  <2>3. NotHandled(mainLooper'.hi, handled) /\ NotHandled(mainLooper'.lo, handled)
    <3>1. CASE mainLooper.hi # << >>
      BY <1>b, <2>1, <3>1, NotHandledLists DEF LooperTail
    <3>2. CASE mainLooper.hi = << >>
      BY <1>b, <2>1, <3>2, NotHandledLists DEF LooperTail, LooperBusy
    <3> QED
      BY <3>1, <3>2
  <2>4. main'.pc # "send"
    BY <1>11 DEF ApplyStatusSync, AfterMessage
  <2> QED
    BY <1>11, <2>1, <2>2, <2>3, <2>4, QuietStep DEF ApplyStatusSync
<1>12. ASSUME NEW c \in Controllers, ControllerEvent(c) PROVE RequestTracked'
  BY <1>12, <1>b, QuietStep DEF ControllerEvent, AfterMessage
<1>13. ASSUME RequestToMcl PROVE RequestTracked'
  BY <1>13, RequestToMclStep
<1>14. ASSUME ResumeMessage PROVE RequestTracked'
  BY <1>14, ResumeStep
<1>15. ASSUME KeepSuspended PROVE RequestTracked'
  BY <1>15, <1>b, QuietStep DEF KeepSuspended
<1>16. ASSUME HandleMessageEnd PROVE RequestTracked'
  BY <1>16, <1>b, QuietStep DEF HandleMessageEnd
<1>17. ASSUME MclDispatch PROVE RequestTracked'
  BY <1>17, MclDispatchStep
<1>18. ASSUME NEW c \in Channels, ChannelDispatch(c) PROVE RequestTracked'
  BY <1>18, ChannelDispatchStep
<1>19. ASSUME NEW r \in Requests, HandlerReply(r) PROVE RequestTracked'
  BY <1>19, HandlerReplyStep
<1>20. CASE UNCHANGED vars
  BY <1>20, <1>b, QuietStep DEF vars
<1> QED
  BY <1>1, <1>2, <1>3, <1>4, <1>5, <1>6, <1>7, <1>8, <1>9, <1>10, <1>11, <1>12, <1>13,
     <1>14, <1>15, <1>16, <1>17, <1>18, <1>19, <1>20 DEF Next, Drainers, MainThread

(* From enqueueRequestMessage to the completion a request is one message in one
   place, and its pending entry exists exactly while an answer is owed. *)
THEOREM OneMessagePerRequest == Spec => []RequestTracked
<1>1. Init => RequestTracked
  <2> SUFFICES ASSUME Init PROVE RequestTracked
    OBVIOUS
  <2>1. /\ DOMAIN dispatchRequestQueue = {} /\ DOMAIN dispatchResponseQueue = {}
        /\ DOMAIN m_suspended_msg_list = {}
        /\ DOMAIN mainLooper.hi = {} /\ DOMAIN mainLooper.lo = {}
        /\ DOMAIN mclLooper.hi = {} /\ DOMAIN mclLooper.lo = {}
        /\ \A c \in Channels : DOMAIN chanLooper[c].hi = {} /\ DOMAIN chanLooper[c].lo = {}
        /\ main.pc = "idle" /\ handled = {}
    BY DEF Init, EmptyLooper
  <2>2. OneMessage /\ ChannelsApart /\ HandledOnce
    BY <2>1 DEF OneMessage, ChannelsApart, OnItsChannel, HandledOnce, NotHandled,
                LooperTracked, Tracked, Apart
  <2>3. PendingExact
    BY <2>1 DEF Init, PendingExact, Recorded
  <2>4. RepliesCounted
    BY DEF Init, RepliesCounted
  <2> QED
    BY <2>2, <2>3, <2>4 DEF RequestTracked
<1> QED
  BY <1>1, TypeCorrect, TrackedStep, PTL DEF Spec

(* No request is completed twice, on either socket, whatever is rejected,
   suspended, resumed or answered more than once on the way. *)
THEOREM AtMostOneReplyCorrect == Spec => []AtMostOneReply
<1>1. TypeOK /\ RequestTracked => AtMostOneReply
  <2> SUFFICES ASSUME TypeOK, RequestTracked, NEW r \in Requests
               PROVE  toRilj[r] + toBT[r] <= 1
    BY DEF AtMostOneReply
  <2>1. toRilj[r] + toBT[r] <= IF place[r] = "done" THEN 1 ELSE 0
    BY DEF RequestTracked, RepliesCounted
  <2>2. toRilj[r] \in Nat /\ toBT[r] \in Nat
    BY DEF TypeOK
  <2> QED
    BY <2>1, <2>2
<1> QED
  BY <1>1, TypeCorrect, OneMessagePerRequest, PTL

(* The first answer of the modem side always finds its pending entry. *)
THEOREM FirstReplyCorrect == Spec => []FirstReplyFindsRequest
<1>1. TypeOK /\ RequestTracked => FirstReplyFindsRequest
  <2> SUFFICES ASSUME TypeOK, RequestTracked, NEW r \in Requests,
                      \/ r \in ToSet(mclLooper.hi) \cup ToSet(mclLooper.lo)
                      \/ \E c \in Channels :
                           r \in ToSet(chanLooper[c].hi) \cup ToSet(chanLooper[c].lo)
                      \/ r \in handled /\ mdReplies[r] = 0
               PROVE  pendingQueue[r] = 1
    BY DEF FirstReplyFindsRequest
  <2>1. ASSUME NEW l, NEW p, LooperTracked(l, ReqKey, place, p),
               r \in ToSet(l.hi) \cup ToSet(l.lo)
        PROVE  place[r] = p
    <3>1. r \in DOMAIN ReqKey /\ ReqKey[r] = r
      BY Keys
    <3> QED
      BY <2>1, <3>1 DEF LooperTracked, Tracked, ToSet
  <2>2. place[r] \in {"mcl", "channel", "handler"}
    <3>1. CASE r \in ToSet(mclLooper.hi) \cup ToSet(mclLooper.lo)
      BY <2>1, <3>1 DEF RequestTracked, OneMessage
    <3>2. CASE \E c \in Channels : r \in ToSet(chanLooper[c].hi) \cup ToSet(chanLooper[c].lo)
      BY <2>1, <3>2 DEF RequestTracked, OneMessage
    <3>3. CASE r \in handled /\ mdReplies[r] = 0
      BY <3>3 DEF RequestTracked, PendingExact
    <3> QED
      BY <3>1, <3>2, <3>3
  <2> QED
    BY <2>2 DEF RequestTracked, PendingExact
<1> QED
  BY <1>1, TypeCorrect, OneMessagePerRequest, PTL
-----------------------------------------------------------------------------
(* The dispatch machinery is the request service of RequestService: every step is an
   issue, an answer or a loss of one request, or changes nothing a client can tell. *)

Underway(r) == r \in Requests /\ place[r] \notin {"new", "done"}

(* A request that goes from one place of the daemon to another is neither issued
   nor closed. *)
LEMMA MoveStutters ==
  ASSUME TypeOK, NEW r, Underway(r), NEW p, p \notin {"new", "done"},
         Move(r, p), UNCHANGED outVars
  PROVE  UNCHANGED Service!vars
<1>1. place' = [place EXCEPT ![r] = p] /\ place \in [Requests -> Places] /\ r \in Requests
  BY DEF Move, TypeOK, Underway
<1>2. ServiceStatus' = ServiceStatus
  BY <1>1 DEF ServiceStatus, Underway
<1>3. ServiceAnswers' = ServiceAnswers
  BY DEF ServiceAnswers, outVars
<1> QED
  BY <1>2, <1>3 DEF Service!vars

(* A request that is completed where its message ends is answered. *)
LEMMA DoneAnswers ==
  ASSUME TypeOK, NEW r, Underway(r), Move(r, "done"),
         \A q \in Requests \ {r} : toRilj'[q] = toRilj[q] /\ toBT'[q] = toBT[q],
         toRilj'[r] + toBT'[r] = toRilj[r] + toBT[r] + 1
  PROVE  Service!Answer(r)
<1>1. place' = [place EXCEPT ![r] = "done"] /\ place \in [Requests -> Places] /\ r \in Requests
  BY DEF Move, TypeOK, Underway
<1>2. ServiceStatus[r] = "open" /\ ServiceStatus' = [ServiceStatus EXCEPT ![r] = "closed"]
  BY <1>1 DEF ServiceStatus, Underway
<1>3. ServiceAnswers' = [ServiceAnswers EXCEPT ![r] = @ + 1]
  BY <1>1 DEF ServiceAnswers
<1> QED
  BY <1>2, <1>3 DEF Service!Answer

(* A SAP request whose RESPONSE goes to neither socket is lost. *)
LEMMA DoneLoses ==
  ASSUME TypeOK, NEW r, Underway(r), Move(r, "done"), UNCHANGED outVars, r \in Sap
  PROVE  Service!Lose(r)
<1>1. place' = [place EXCEPT ![r] = "done"] /\ place \in [Requests -> Places] /\ r \in Requests
  BY DEF Move, TypeOK, Underway
<1>2. ServiceStatus[r] = "open" /\ ServiceStatus' = [ServiceStatus EXCEPT ![r] = "closed"]
  BY <1>1 DEF ServiceStatus, Underway
<1>3. ServiceAnswers' = ServiceAnswers
  BY DEF ServiceAnswers, outVars
<1> QED
  BY <1>2, <1>3 DEF Service!Lose

(* The message the main thread takes is of a request that is under way. *)
LEMMA TakenUnderway ==
  ASSUME TypeOK, RequestTracked, NEW m \in Messages, NEW p2, Take(m), Move(m.req, p2)
  PROVE  Underway(m.req)
<1>1. OneMessage /\ HandledOnce
  BY DEF RequestTracked
<1> QED
  BY <1>1, TakeTracked DEF Underway

(* The request at the head of a drainer's queue is under way. *)
LEMMA HeadUnderway ==
  ASSUME TypeOK, RequestTracked
  PROVE  /\ dispatchRequestQueue # << >> => Underway(Head(dispatchRequestQueue).req)
         /\ dispatchResponseQueue # << >> => Underway(Head(dispatchResponseQueue).req)
<1>1. OneMessage
  BY DEF RequestTracked
<1>2. ASSUME NEW q \in Seq(Messages), q # << >>, NEW p \in Places \ {"new", "done"},
             Tracked(q, MsgKey, place, p)
      PROVE  Underway(Head(q).req)
  <2>1. Head(q) = q[1] /\ 1 \in DOMAIN q /\ Head(q) \in Messages
    BY <1>2, TailEntries
  <2>2. MsgKey[Head(q)] = Head(q).req /\ Head(q) \in DOMAIN MsgKey
    BY <2>1, Keys
  <2>3. place[MsgKey[q[1]]] = p
    BY <1>2, <2>1, <2>2 DEF Tracked
  <2>4. place[Head(q).req] = p /\ Head(q).req \in Requests
    BY <2>1, <2>2, <2>3 DEF Messages
  <2> QED
    BY <2>4 DEF Underway
<1> QED
  BY <1>1, <1>2 DEF OneMessage, TypeOK, Places

(* A request with the modem side is under way. *)
LEMMA LooperHeadUnderway ==
  ASSUME TypeOK, NEW l \in LooperOf(Requests), LooperBusy(l),
         NEW p \in Places \ {"new", "done"}, LooperTracked(l, ReqKey, place, p)
  PROVE  Underway(LooperHead(l))
<1>1. LooperHead(l) \in Requests /\ ReqKey \in [Requests -> Requests]
      /\ ReqKey[LooperHead(l)] = LooperHead(l) /\ place \in [Requests -> Places]
  BY LooperTakeType, Keys DEF TypeOK
<1>2. /\ place[ReqKey[LooperHead(l)]] = p
      /\ LooperTracked(LooperTail(l), ReqKey,
                       [place EXCEPT ![ReqKey[LooperHead(l)]] = "main"], p)
  BY <1>1, LooperTakeTracked
<1> QED
  BY <1>1, <1>2 DEF Underway

(* enqueueResponseMessage finds a pending entry only of a request under way. *)
LEMMA PendingUnderway ==
  ASSUME TypeOK, RequestTracked, NEW r \in Requests, NEW m, EnqueueResponse(r, m),
         UNCHANGED outVars
  PROVE  UNCHANGED Service!vars
<1>1. CASE pendingQueue[r] > 0
  <2>1. place[r] \in {"mcl", "channel", "handler"} \/ Recorded(r)
    BY <1>1 DEF RequestTracked, PendingExact
  <2>2. Recorded(r) => place[r] = "sending"
    BY DEF RequestTracked, OneMessage, Recorded
  <2>3. Underway(r)
    BY <2>1, <2>2 DEF Underway
  <2>4. Move(r, "response")
    BY <1>1 DEF EnqueueResponse
  <2> QED
    BY <2>3, <2>4, MoveStutters
<1>2. CASE ~(pendingQueue[r] > 0)
  BY <1>2 DEF EnqueueResponse, Service!vars, ServiceStatus, ServiceAnswers, outVars
<1> QED
  BY <1>1, <1>2

-----------------------------------------------------------------------------
(* Every step of the machinery is a step of the service. *)
LEMMA ServiceStep ==
  TypeOK /\ RequestTracked /\ [Next]_vars => [Service!Next]_(Service!vars)
<1> SUFFICES ASSUME TypeOK, RequestTracked, [Next]_vars
             PROVE  Service!Next \/ UNCHANGED Service!vars
  OBVIOUS
<1>a. ASSUME NEW r \in Requests, Service!Issue(r) \/ Service!Answer(r) \/ Service!Lose(r)
      PROVE  Service!Next
  BY <1>a DEF Service!Next
<1>b. ASSUME UNCHANGED << outVars, place >> PROVE UNCHANGED Service!vars
  BY <1>b DEF Service!vars, ServiceStatus, ServiceAnswers, outVars
<1>1. ASSUME NEW r \in Requests, EnqueueRequest(r) PROVE Service!Next
  <2>1. PICK p \in {"request", "response"} : Move(r, p)
    BY <1>1 DEF EnqueueRequest
  <2>2. place[r] = "new" /\ place' = [place EXCEPT ![r] = p] /\ place \in [Requests -> Places]
    BY <1>1, <2>1 DEF EnqueueRequest, Move, TypeOK
  <2>3. ServiceStatus[r] = "new" /\ ServiceStatus' = [ServiceStatus EXCEPT ![r] = "open"]
    BY <2>2 DEF ServiceStatus
  <2>4. ServiceAnswers' = ServiceAnswers
    BY <1>1 DEF EnqueueRequest, outVars, ServiceAnswers
  <2> QED
    BY <2>3, <2>4, <1>a DEF Service!Issue
<1>2. ASSUME ProcessRequestQueue \/ ProcessResponseQueue PROVE UNCHANGED Service!vars
  <2>1. PICK m : Underway(m.req) /\ Move(m.req, "main") /\ UNCHANGED outVars
    BY <1>2, HeadUnderway DEF ProcessRequestQueue, ProcessResponseQueue
  <2> QED
    BY <2>1, MoveStutters
<1>3. ASSUME ReplyNotSupported PROVE Service!Next
  <2>1. PICK m \in Messages : Take(m) /\ ResponseToRilj(ResponseOf(m.req)) /\ Move(m.req, "done")
                              /\ UNCHANGED toBT
    BY <1>3 DEF ReplyNotSupported
  <2>2. Underway(m.req) /\ m.req \in Requests
    BY <2>1, TakenUnderway DEF Underway
  <2>3. CASE m.req \in Sap
    <3>1. toRilj' = [toRilj EXCEPT ![m.req] = @ + 0]
      BY <2>1, <2>3 DEF ResponseToRilj, ResponseOf, Msg
    <3>2. UNCHANGED outVars
      BY <2>1, <3>1 DEF outVars, TypeOK
    <3> QED
      BY <1>a, <2>1, <2>2, <2>3, <3>2, DoneLoses
  <2>4. CASE m.req \notin Sap
    <3>1. toRilj' = [toRilj EXCEPT ![m.req] = @ + 1]
      BY <2>1, <2>4 DEF ResponseToRilj, ResponseOf, Msg
    <3>2. /\ \A q \in Requests \ {m.req} : toRilj'[q] = toRilj[q] /\ toBT'[q] = toBT[q]
          /\ toRilj'[m.req] + toBT'[m.req] = toRilj[m.req] + toBT[m.req] + 1
      BY <2>1, <2>2, <3>1 DEF TypeOK
    <3> QED
      BY <1>a, <2>1, <2>2, <3>2, DoneAnswers
  <2> QED
    BY <2>3, <2>4
<1>4. ASSUME ReplyUnavailable PROVE Service!Next
  <2>1. PICK m \in Messages : Take(m) /\ ResponseToRilj(Msg("RESPONSE", m.req))
                              /\ Move(m.req, "done") /\ UNCHANGED toBT
    BY <1>4 DEF ReplyUnavailable
  <2>2. Underway(m.req) /\ m.req \in Requests
    BY <2>1, TakenUnderway DEF Underway
  <2>3. toRilj' = [toRilj EXCEPT ![m.req] = @ + 1]
    BY <2>1 DEF ResponseToRilj, Msg
  <2>4. /\ \A q \in Requests \ {m.req} : toRilj'[q] = toRilj[q] /\ toBT'[q] = toBT[q]
        /\ toRilj'[m.req] + toBT'[m.req] = toRilj[m.req] + toBT[m.req] + 1
    BY <2>1, <2>2, <2>3 DEF TypeOK
  <2> QED
    BY <1>a, <2>1, <2>2, <2>4, DoneAnswers
<1>5. ASSUME Suspend \/ Forward PROVE UNCHANGED Service!vars
  <2>1. PICK m \in Messages, p \in {"suspended", "sending"} :
          Take(m) /\ Move(m.req, p) /\ UNCHANGED outVars
    BY <1>5 DEF Suspend, Forward
  <2> QED
    BY <2>1, TakenUnderway, MoveStutters
<1>6. ASSUME Deliver PROVE Service!Next
  <2>1. PICK m \in Messages : /\ Take(m) /\ IsResponse(m) /\ ResponseToRilj(m) /\ ResponseToBT(m)
                              /\ Move(m.req, "done")
    BY <1>6 DEF Deliver
  <2>2. Underway(m.req) /\ m.req \in Requests
    BY <2>1, TakenUnderway DEF Underway
  <2>3. /\ toRilj' = [toRilj EXCEPT ![m.req] = @ + IF m.type = "RESPONSE" THEN 1 ELSE 0]
        /\ toBT' = [toBT EXCEPT ![m.req] = @ + IF m.type = "SAP_RESPONSE" THEN 1 ELSE 0]
        /\ m.type \in {"RESPONSE", "SAP_RESPONSE"}
    BY <2>1 DEF ResponseToRilj, ResponseToBT, IsResponse
  <2>4. /\ \A q \in Requests \ {m.req} : toRilj'[q] = toRilj[q] /\ toBT'[q] = toBT[q]
        /\ toRilj'[m.req] + toBT'[m.req] = toRilj[m.req] + toBT[m.req] + 1
    BY <2>2, <2>3 DEF TypeOK
  <2> QED
    BY <1>a, <2>1, <2>2, <2>4, DoneAnswers
<1>7. ASSUME RequestToMcl PROVE UNCHANGED Service!vars
  <2>1. UNCHANGED outVars
    BY <1>7 DEF RequestToMcl
  <2>2. CASE AddMessageToPendingQueue
    BY <2>1, <2>2, <1>b DEF AddMessageToPendingQueue
  <2>3. CASE EnqueueMclMessage
    <3>1. main.pc = "send" /\ Move(main.req, "mcl")
      BY <2>3 DEF EnqueueMclMessage
    <3>2. place[main.req] = "sending" /\ main.req \in Requests
      BY <3>1 DEF RequestTracked, OneMessage, TypeOK, MainStates
    <3> QED
      BY <2>1, <3>1, <3>2, MoveStutters DEF Underway
  <2> QED
    BY <1>7, <2>2, <2>3 DEF RequestToMcl
<1>8. ASSUME ResumeMessage PROVE UNCHANGED Service!vars
  <2> DEFINE i == main.i
             m == m_suspended_msg_list[i]
  <2>1. main.pc = "resume" /\ i <= Len(m_suspended_msg_list) /\ Move(m.req, "main") /\ UNCHANGED outVars
    BY <1>8 DEF ResumeMessage
  <2>2. i \in Nat \ {0} /\ m_suspended_msg_list \in Seq(Messages)
    BY <2>1 DEF TypeOK, MainStates
  <2>3. i \in DOMAIN m_suspended_msg_list /\ m \in Messages
    BY <2>1, <2>2
  <2>4. Tracked(m_suspended_msg_list, MsgKey, place, "suspended")
    BY DEF RequestTracked, OneMessage
  <2>5. place[m.req] = "suspended" /\ m.req \in Requests
    BY <2>3, <2>4, Keys DEF Tracked, Messages
  <2> QED
    BY <2>1, <2>5, MoveStutters DEF Underway
<1>9. ASSUME MclDispatch PROVE UNCHANGED Service!vars
  <2> DEFINE r == LooperHead(mclLooper)
  <2>1. LooperBusy(mclLooper) /\ UNCHANGED outVars
        /\ (Move(r, "channel") \/ EnqueueResponse(r, Msg("RESPONSE", r)))
    BY <1>9 DEF MclDispatch
  <2>2. mclLooper \in LooperOf(Requests) /\ LooperTracked(mclLooper, ReqKey, place, "mcl")
    BY DEF RequestTracked, OneMessage, TypeOK
  <2>3. Underway(r) /\ r \in Requests
    BY <2>1, <2>2, LooperHeadUnderway DEF Underway, Places
  <2> HIDE DEF r
  <2> QED
    BY <2>1, <2>3, MoveStutters, PendingUnderway
<1>10. ASSUME NEW c \in Channels, ChannelDispatch(c) PROVE UNCHANGED Service!vars
  <2> DEFINE r == LooperHead(chanLooper[c])
  <2>1. LooperBusy(chanLooper[c]) /\ UNCHANGED outVars /\ Move(r, "handler")
    BY <1>10 DEF ChannelDispatch
  <2>2. chanLooper[c] \in LooperOf(Requests) /\ LooperTracked(chanLooper[c], ReqKey, place, "channel")
    BY DEF RequestTracked, OneMessage, TypeOK
  <2>3. Underway(r)
    BY <2>1, <2>2, LooperHeadUnderway DEF Places
  <2> HIDE DEF r
  <2> QED
    BY <2>1, <2>3, MoveStutters
<1>11. ASSUME NEW r \in Requests, HandlerReply(r) PROVE UNCHANGED Service!vars
  <2>1. EnqueueResponse(r, ResponseOf(r)) /\ UNCHANGED outVars
    BY <1>11 DEF HandlerReply
  <2> QED
    BY <2>1, PendingUnderway
<1>12. ASSUME \/ \E on \in BOOLEAN : EnqueueStatusSync(on)
              \/ ProcessStatusSyncQueue \/ ApplyStatusSync \/ KeepSuspended \/ HandleMessageEnd
              \/ \E c \in Controllers : ControllerEvent(c)
              \/ UNCHANGED vars
       PROVE  UNCHANGED Service!vars
  BY <1>12, <1>b DEF EnqueueStatusSync, ProcessStatusSyncQueue, ApplyStatusSync, KeepSuspended,
                     HandleMessageEnd, ControllerEvent, vars
<1> QED
  BY <1>1, <1>2, <1>3, <1>4, <1>5, <1>6, <1>7, <1>8, <1>9, <1>10, <1>11, <1>12
     DEF Next, Drainers, MainThread

(* The dispatch machinery implements the request service: a request is issued
   once and closed once, its completion is seen in the very step that disposes of
   its message, and only a SAP request is ever closed in silence. *)
THEOREM ServiceImplemented == Spec => ImplementsService
<1>1. Init => Service!Init
  <2> SUFFICES ASSUME Init PROVE Service!Init
    OBVIOUS
  <2>1. /\ place = [r \in Requests |-> "new"]
        /\ toRilj = [r \in Requests |-> 0] /\ toBT = [r \in Requests |-> 0]
    BY DEF Init
  <2> QED
    BY <2>1 DEF Service!Init, ServiceStatus, ServiceAnswers
<1> QED
  BY <1>1, ServiceStep, TypeCorrect, OneMessagePerRequest, PTL
     DEF Spec, ImplementsService, Service!Spec
-----------------------------------------------------------------------------
(* Lists of consistent messages *)

(* A list whose entries all lie in T is a list over T. *)
LEMMA SeqNarrow ==
  ASSUME NEW S, NEW T, NEW q \in Seq(S), \A i \in DOMAIN q : q[i] \in T
  PROVE  q \in Seq(T)
<1>1. q \in [1 .. Len(q) -> T] /\ Len(q) \in Nat
  OBVIOUS
<1> QED
  BY <1>1, IsASeq

(* Dropping entries leaves a list over the same set. *)
LEMMA SeqParts ==
  ASSUME NEW T, NEW q \in Seq(T)
  PROVE  /\ q # << >> => Head(q) \in T /\ Tail(q) \in Seq(T)
         /\ \A m \in T : Append(q, m) \in Seq(T)
         /\ \A i \in 1 .. Len(q) : q[i] \in T /\ RemoveAt(q, i) \in Seq(T)
BY RemoveAtType

(* requestToMcl appends to the history of sent requests. *)
LEMMA SentGrows ==
  ASSUME NEW s \in Seq(Requests), NEW r \in Requests
  PROVE  ToSet(Append(s, r)) = ToSet(s) \cup {r}
<1>1. /\ DOMAIN Append(s, r) = 1 .. Len(s) + 1 /\ DOMAIN s = 1 .. Len(s) /\ Len(s) \in Nat
      /\ \A i \in 1 .. Len(s) : Append(s, r)[i] = s[i]
      /\ Append(s, r)[Len(s) + 1] = r
  OBVIOUS
<1>2. ToSet(Append(s, r)) \subseteq ToSet(s) \cup {r}
  BY <1>1 DEF ToSet
<1>3. ToSet(s) \subseteq ToSet(Append(s, r))
  BY <1>1 DEF ToSet
<1>4. r \in ToSet(Append(s, r))
  <2>1. Len(s) + 1 \in DOMAIN Append(s, r)
    BY <1>1
  <2> QED
    BY <1>1, <2>1 DEF ToSet
<1> QED
  BY <1>2, <1>3, <1>4

(* A list that holds no message of r does not notice that r is sent. *)
LEMMA SeqStaysConsistent ==
  ASSUME NEW q \in Seq(Consistent), NEW p, NEW r \in Requests, sent \in Seq(Requests),
         Tracked(q, MsgKey, place, p), place[r] # p, sent' = Append(sent, r)
  PROVE  q \in Seq(Consistent')
<1>1. ToSet(sent') = ToSet(sent) \cup {r}
  BY SentGrows
<1>2. ASSUME NEW i \in DOMAIN q PROVE q[i] \in Consistent'
  <2>1. q[i] \in Consistent
    OBVIOUS
  <2>2. q[i] \in Messages => q[i].req # r
    BY Keys DEF Tracked
  <2> QED
    BY <1>1, <2>1, <2>2 DEF Consistent, IsRequest
<1> QED
  BY <1>2, SeqNarrow

-----------------------------------------------------------------------------
(* The two halves of the invariant *)

(* A step that sends nothing keeps the set of consistent messages. *)
LEMMA ConsistentFixed == sent' = sent => Consistent' = Consistent
BY DEF Consistent, IsRequest

(* A request that goes to a place inside the daemon keeps SentPlaces. *)
LEMMA SentPlacesMove ==
  ASSUME TypeOK, SentPlaces, NEW r \in Requests, NEW p, p # "new",
         p \in {"mcl", "channel", "handler"} => r \in ToSet(sent),
         Move(r, p), UNCHANGED sent
  PROVE  SentPlaces'
BY DEF SentPlaces, Move, TypeOK

(* A step that makes no request outstanding and opens no serial controller. *)
LEMMA SerialKept ==
  ASSUME OneOutstanding, ClosedMeanwhile,
         \A r \in Requests : Outstanding(r)' => Outstanding(r),
         \A c \in Serial : blocked[c] => blocked'[c]
  PROVE  OneOutstanding' /\ ClosedMeanwhile'
BY DEF OneOutstanding, ClosedMeanwhile

(* A move from one place to another, neither of them where sending begins,
   makes no request outstanding. *)
LEMMA MoveOutstanding ==
  ASSUME TypeOK, NEW r \in Requests, NEW p, Move(r, p), UNCHANGED sent,
         p # "sending", place[r] # "done"
  PROVE  \A q \in Requests : Outstanding(q)' => Outstanding(q)
BY DEF Outstanding, Move, TypeOK

(* The message the main thread takes is consistent with what was sent. *)
LEMMA TakeConsistent ==
  ASSUME SentConsistent, NEW m \in Messages, Take(m)
  PROVE  m \in Consistent /\ mainLooper' \in LooperOf(Consistent)
BY LooperTakeType DEF SentConsistent, Take, Taken

(* A request is not sent twice: what a controller lets through is new. *)
LEMMA TakenRequestFresh ==
  ASSUME SentConsistent, NEW m \in Messages, Take(m)
  PROVE  /\ IsRequest(m) => m.req \notin ToSet(sent)
         /\ ~IsRequest(m) => m.req \in ToSet(sent) \cup Unsupported
BY TakeConsistent, Keys DEF Consistent

-----------------------------------------------------------------------------
(* The steps *)

(* A step that moves the request r inside the daemon and sends nothing. *)
LEMMA SerialMove ==
  ASSUME TypeOK, SerialInv, NEW r \in Requests, NEW p \in Places \ {"new", "sending"},
         Move(r, p), place[r] # "done", UNCHANGED sent,
         p \in {"mcl", "channel", "handler"} => r \in ToSet(sent),
         \A c \in Serial : blocked[c] => blocked'[c],
         dispatchRequestQueue' \in Seq(Consistent), dispatchResponseQueue' \in Seq(Consistent),
         mainLooper' \in LooperOf(Consistent), m_suspended_msg_list' \in Seq(Consistent)
  PROVE  SerialInv'
<1>1. SentPlaces'
  BY SentPlacesMove DEF SerialInv
<1>2. \A q \in Requests : Outstanding(q)' => Outstanding(q)
  BY MoveOutstanding
<1>3. OneOutstanding' /\ ClosedMeanwhile'
  BY <1>2, SerialKept DEF SerialInv
<1>4. SentConsistent'
  BY ConsistentFixed DEF SentConsistent
<1> QED
  BY <1>1, <1>3, <1>4 DEF SerialInv

(* A step that moves no request and sends nothing. *)
LEMMA SerialQuiet ==
  ASSUME SerialInv, UNCHANGED << dispatchRequestQueue, dispatchResponseQueue,
                                 m_suspended_msg_list, sent, place >>,
         \A c \in Serial : blocked[c] => blocked'[c],
         mainLooper' \in LooperOf(Consistent)
  PROVE  SerialInv'
<1>1. SentPlaces'
  BY DEF SerialInv, SentPlaces
<1>2. OneOutstanding' /\ ClosedMeanwhile'
  BY SerialKept DEF SerialInv, Outstanding
<1>3. SentConsistent'
  BY ConsistentFixed DEF SerialInv, SentConsistent
<1> QED
  BY <1>1, <1>2, <1>3 DEF SerialInv

(* A client issues a request, or gets an unsupported one answered at once. *)
LEMMA SerialEnqueueRequest ==
  ASSUME TypeOK, SerialInv, NEW r \in Requests, EnqueueRequest(r)
  PROVE  SerialInv'
<1>1. SentConsistent /\ r \notin ToSet(sent) /\ place[r] = "new"
  BY DEF EnqueueRequest, SerialInv, SentPlaces
<1>2. UNCHANGED << sent, mainLooper, m_suspended_msg_list, blocked >>
  BY DEF EnqueueRequest, ctlVars
<1>3. CASE r \in Unsupported
  <2>1. /\ dispatchResponseQueue' = Append(dispatchResponseQueue, ResponseOf(r))
        /\ Move(r, "response") /\ UNCHANGED dispatchRequestQueue
    BY <1>3 DEF EnqueueRequest
  <2>2. ResponseOf(r) \in Consistent
    BY <1>3, MessageTypes DEF Consistent, ResponseOf, Msg, IsRequest
  <2>3. dispatchResponseQueue' \in Seq(Consistent)
    BY <1>1, <2>1, <2>2 DEF SentConsistent
  <2> QED
    BY <1>1, <1>2, <2>1, <2>3, SerialMove DEF SentConsistent, Places
<1>4. CASE r \notin Unsupported
  <2>1. /\ dispatchRequestQueue' = Append(dispatchRequestQueue, RequestOf(r))
        /\ Move(r, "request") /\ UNCHANGED dispatchResponseQueue
    BY <1>4 DEF EnqueueRequest
  <2>2. RequestOf(r) \in Consistent
    BY <1>1, MessageTypes DEF Consistent, RequestOf, Msg, IsRequest
  <2>3. dispatchRequestQueue' \in Seq(Consistent)
    BY <1>1, <2>1, <2>2 DEF SentConsistent
  <2> QED
    BY <1>1, <1>2, <2>1, <2>3, SerialMove DEF SentConsistent, Places
<1> QED
  BY <1>3, <1>4

(* A drainer hands the head of its queue to the main looper. *)
LEMMA SerialDrain ==
  ASSUME TypeOK, RequestTracked, SerialInv, ProcessRequestQueue \/ ProcessResponseQueue
  PROVE  SerialInv'
<1>1. SentConsistent /\ UNCHANGED << sent, m_suspended_msg_list, blocked >>
  BY DEF SerialInv, ProcessRequestQueue, ProcessResponseQueue, ctlVars
<1>2. ASSUME NEW q \in Seq(Messages), NEW p, p # "done", q # << >>, Tracked(q, MsgKey, place, p)
      PROVE  Head(q).req \in Requests /\ place[Head(q).req] # "done"
  <2>1. Head(q) = q[1] /\ 1 \in DOMAIN q /\ Head(q) \in Messages
    BY <1>2, TailEntries
  <2>2. MsgKey[Head(q)] = Head(q).req /\ Head(q) \in DOMAIN MsgKey
    BY <2>1, Keys
  <2> QED
    BY <1>2, <2>1, <2>2 DEF Tracked, Messages
<1>3. CASE ProcessRequestQueue
  <2> DEFINE m == Head(dispatchRequestQueue)
  <2>1. /\ dispatchRequestQueue # << >> /\ dispatchRequestQueue' = Tail(dispatchRequestQueue)
        /\ mainLooper' = SendMessage(mainLooper, m) /\ Move(m.req, "main")
        /\ UNCHANGED dispatchResponseQueue
    BY <1>3 DEF ProcessRequestQueue
  <2>2. m \in Consistent /\ dispatchRequestQueue' \in Seq(Consistent)
    BY <1>1, <2>1, SeqParts DEF SentConsistent
  <2>3. m.req \in Requests /\ place[m.req] # "done"
    BY <1>2, <2>1 DEF RequestTracked, OneMessage, TypeOK
  <2>4. mainLooper' \in LooperOf(Consistent)
    BY <1>1, <2>1, <2>2, LooperSendType DEF SentConsistent
  <2> HIDE DEF m
  <2> QED
    BY <1>1, <2>1, <2>2, <2>3, <2>4, SerialMove DEF SentConsistent, Places
<1>4. CASE ProcessResponseQueue
  <2> DEFINE m == Head(dispatchResponseQueue)
  <2>1. /\ dispatchResponseQueue # << >> /\ dispatchResponseQueue' = Tail(dispatchResponseQueue)
        /\ mainLooper' = SendMessage(mainLooper, m) /\ Move(m.req, "main")
        /\ UNCHANGED dispatchRequestQueue
    BY <1>4 DEF ProcessResponseQueue
  <2>2. m \in Consistent /\ dispatchResponseQueue' \in Seq(Consistent)
    BY <1>1, <2>1, SeqParts DEF SentConsistent
  <2>3. m.req \in Requests /\ place[m.req] # "done"
    BY <1>2, <2>1 DEF RequestTracked, OneMessage, TypeOK
  <2>4. mainLooper' \in LooperOf(Consistent)
    BY <1>1, <2>1, <2>2, LooperSendType DEF SentConsistent
  <2> HIDE DEF m
  <2> QED
    BY <1>1, <2>1, <2>2, <2>3, <2>4, SerialMove DEF SentConsistent, Places
<1> QED
  BY <1>3, <1>4

(* The main thread takes a message and rejects or suspends it. *)
LEMMA SerialRejectOrSuspend ==
  ASSUME TypeOK, RequestTracked, SerialInv, ReplyNotSupported \/ ReplyUnavailable \/ Suspend
  PROVE  SerialInv'
<1>1. PICK m \in Messages, p \in {"done", "suspended"} :
        /\ Take(m) /\ Move(m.req, p)
        /\ UNCHANGED << dispatchRequestQueue, dispatchResponseQueue, sent, blocked >>
        /\ \/ UNCHANGED m_suspended_msg_list
           \/ m_suspended_msg_list' = Append(m_suspended_msg_list, m)
  BY DEF ReplyNotSupported, ReplyUnavailable, Suspend, queues, ctlVars
<1>2. SentConsistent /\ OneMessage /\ HandledOnce
  BY DEF SerialInv, RequestTracked
<1>3. m.req \in Requests /\ place[m.req] # "done"
  BY <1>1, <1>2, TakeTracked
<1>4. m \in Consistent /\ mainLooper' \in LooperOf(Consistent)
  BY <1>1, <1>2, TakeConsistent
<1>5. m_suspended_msg_list' \in Seq(Consistent)
  BY <1>1, <1>2, <1>4 DEF SentConsistent
<1> QED
  BY <1>1, <1>2, <1>3, <1>4, <1>5, SerialMove DEF SentConsistent, Places

(* What a message does to the gates: a serial owner's gate follows the kind of
   the message, and every other serial controller's gate stays. *)
LEMMA SerialGates ==
  ASSUME TypeOK, NEW m \in Messages, ControllerActs(m), NEW c \in Serial
  PROVE  blocked'[c] = IF OwnerOf(m) = c THEN IsRequest(m) ELSE blocked[c]
<1>1. c \in Controllers /\ c # NoOne /\ blocked \in [Controllers -> BOOLEAN]
  BY ConstAssumption DEF TypeOK
<1>2. CASE OwnerOf(m) = NoOne
  BY <1>1, <1>2 DEF ControllerActs
<1>3. CASE OwnerOf(m) \in Serial
  <2>1. blocked' = [blocked EXCEPT ![OwnerOf(m)] = IsRequest(m)]
    BY <1>3, ConstAssumption DEF ControllerActs
  <2> QED
    BY <1>1, <2>1
<1>4. CASE OwnerOf(m) # NoOne /\ OwnerOf(m) \notin Serial
  <2>1. PICK b \in BOOLEAN : blocked' = [blocked EXCEPT ![OwnerOf(m)] = b]
    BY <1>4 DEF ControllerActs
  <2> QED
    BY <1>1, <1>4, <2>1
<1> QED
  BY <1>2, <1>3, <1>4

(* A controller forwards a request.  Its gate was open, so none of its requests
   was outstanding, and closes behind this one. *)
LEMMA SerialForward ==
  ASSUME TypeOK, RequestTracked, SerialInv, Forward
  PROVE  SerialInv'
<1>1. PICK m \in Messages :
        /\ Take(m) /\ IsRequest(m) /\ Admits(OwnerOf(m), m) /\ ControllerActs(m)
        /\ Move(m.req, "sending")
        /\ UNCHANGED << dispatchRequestQueue, dispatchResponseQueue, m_suspended_msg_list, sent >>
  BY DEF Forward, queues
<1>2. /\ SentConsistent /\ SentPlaces /\ OneOutstanding /\ ClosedMeanwhile
      /\ OneMessage /\ HandledOnce
  BY DEF SerialInv, RequestTracked
<1>3. m.req \in Requests /\ place[m.req] = "main"
  BY <1>1, <1>2, TakeTracked
<1>4. mainLooper' \in LooperOf(Consistent)
  BY <1>1, <1>2, TakeConsistent
<1>5. SentConsistent'
  BY <1>1, <1>2, <1>4, ConsistentFixed DEF SentConsistent
<1>6. SentPlaces'
  BY <1>1, <1>2, <1>3, SentPlacesMove
<1>7. \A q \in Requests : Outstanding(q)' => q = m.req \/ Outstanding(q)
  BY <1>1, <1>3 DEF Outstanding, Move, TypeOK
<1>8. OwnerOf(m) \in Serial => \A q \in Requests : Owner[q] = OwnerOf(m) => ~Outstanding(q)
  <2>1. ~(IsRequest(m) /\ IsResponse(m))
    BY DEF IsRequest, IsResponse
  <2>2. OwnerOf(m) \in Serial => ~blocked[OwnerOf(m)]
    BY <1>1, <2>1, ConstAssumption DEF Admits, Closed
  <2> QED
    BY <1>2, <2>2 DEF ClosedMeanwhile
<1>9. \A c \in Serial : blocked'[c] = IF OwnerOf(m) = c THEN IsRequest(m) ELSE blocked[c]
  BY <1>1, SerialGates
<1>10. OneOutstanding'
  BY <1>2, <1>7, <1>8 DEF OneOutstanding, OwnerOf
<1>11. ClosedMeanwhile'
  BY <1>1, <1>2, <1>7, <1>9 DEF ClosedMeanwhile, OwnerOf
<1> QED
  BY <1>5, <1>6, <1>10, <1>11 DEF SerialInv

(* A controller handles a response.  It was of the one outstanding request, so
   none is left when the gate opens. *)
LEMMA SerialDeliver ==
  ASSUME TypeOK, RequestTracked, SerialInv, Deliver
  PROVE  SerialInv'
<1>1. PICK m \in Messages :
        /\ Take(m) /\ ~DataMissing(m) /\ IsResponse(m) /\ ControllerActs(m)
        /\ Move(m.req, "done")
        /\ UNCHANGED << dispatchRequestQueue, dispatchResponseQueue, m_suspended_msg_list, sent >>
  BY DEF Deliver, queues
<1>2. /\ SentConsistent /\ SentPlaces /\ OneOutstanding /\ ClosedMeanwhile
      /\ OneMessage /\ HandledOnce
  BY DEF SerialInv, RequestTracked
<1>3. m.req \in Requests /\ place[m.req] = "main"
  BY <1>1, <1>2, TakeTracked
<1>4. mainLooper' \in LooperOf(Consistent)
  BY <1>1, <1>2, TakeConsistent
<1>5. SentConsistent'
  BY <1>1, <1>2, <1>4, ConsistentFixed DEF SentConsistent
<1>6. SentPlaces'
  BY <1>1, <1>2, <1>3, SentPlacesMove
<1>7. m.req \in ToSet(sent)
  <2>1. ~IsRequest(m) /\ m.req \notin Unsupported
    BY <1>1 DEF IsRequest, IsResponse, DataMissing
  <2> QED
    BY <1>1, <1>2, <2>1, TakenRequestFresh
<1>8. Outstanding(m.req)
  BY <1>3, <1>7 DEF Outstanding
<1>9. \A q \in Requests : Outstanding(q)' => q # m.req /\ Outstanding(q)
  BY <1>1, <1>3 DEF Outstanding, Move, TypeOK
<1>10. \A c \in Serial : blocked'[c] = IF OwnerOf(m) = c THEN IsRequest(m) ELSE blocked[c]
  BY <1>1, SerialGates
<1>11. OneOutstanding'
  BY <1>2, <1>9 DEF OneOutstanding
<1>12. ASSUME NEW q \in Requests, Outstanding(q)', Owner[q] \in Serial
       PROVE  blocked'[Owner[q]]
  <2>1. Outstanding(q) /\ q # m.req
    BY <1>9, <1>12
  <2>2. Owner[q] # OwnerOf(m)
    BY <1>2, <1>3, <1>8, <1>12, <2>1 DEF OneOutstanding, OwnerOf
  <2> QED
    BY <1>2, <1>10, <1>12, <2>1, <2>2 DEF ClosedMeanwhile
<1>13. ClosedMeanwhile'
  BY <1>12 DEF ClosedMeanwhile
<1> QED
  BY <1>5, <1>6, <1>11, <1>13 DEF SerialInv

(* requestToMcl: the request leaves the main thread and counts as sent. *)
LEMMA SerialRequestToMcl ==
  ASSUME TypeOK, RequestTracked, SerialInv, RequestToMcl
  PROVE  SerialInv'
<1>1. UNCHANGED << dispatchRequestQueue, dispatchResponseQueue, mainLooper,
                   m_suspended_msg_list, blocked >>
  BY DEF RequestToMcl, queues, ctlVars
<1>2. SentConsistent /\ SentPlaces /\ OneOutstanding /\ ClosedMeanwhile /\ OneMessage
  BY DEF SerialInv, RequestTracked
<1>3. CASE AddMessageToPendingQueue
  BY <1>1, <1>2, <1>3, SerialQuiet DEF AddMessageToPendingQueue, SentConsistent
<1>4. CASE EnqueueMclMessage
  <2> DEFINE r == main.req
  <2>1. main.pc = "send" /\ sent' = Append(sent, r) /\ Move(r, "mcl")
    BY <1>4 DEF EnqueueMclMessage
  <2>2. r \in Requests /\ place[r] = "sending" /\ sent \in Seq(Requests)
    BY <1>2, <2>1 DEF OneMessage, TypeOK, MainStates
  <2> HIDE DEF r
  <2>3. ToSet(sent') = ToSet(sent) \cup {r}
    BY <2>1, <2>2, SentGrows
  <2>4. SentPlaces'
    BY <1>2, <2>1, <2>2, <2>3 DEF SentPlaces, Move, TypeOK
  <2>5. \A q \in Requests : Outstanding(q)' => Outstanding(q)
    BY <2>1, <2>2, <2>3 DEF Outstanding, Move, TypeOK
  <2>6. OneOutstanding' /\ ClosedMeanwhile'
    BY <1>1, <1>2, <2>5, SerialKept
  <2>7. /\ dispatchRequestQueue \in Seq(Consistent')
        /\ dispatchResponseQueue \in Seq(Consistent')
        /\ m_suspended_msg_list \in Seq(Consistent')
    BY <1>2, <2>1, <2>2, SeqStaysConsistent DEF SentConsistent, OneMessage
  <2>8. mainLooper.hi \in Seq(Consistent') /\ mainLooper.lo \in Seq(Consistent')
    <3>1. mainLooper.hi \in Seq(Consistent) /\ mainLooper.lo \in Seq(Consistent)
      BY <1>2 DEF SentConsistent, LooperOf
    <3>2. Tracked(mainLooper.hi, MsgKey, place, "main") /\ Tracked(mainLooper.lo, MsgKey, place, "main")
      BY <1>2 DEF OneMessage, LooperTracked
    <3> QED
      BY <2>1, <2>2, <3>1, <3>2, SeqStaysConsistent
  <2>9. mainLooper \in LooperOf(Consistent')
    BY <1>2, <2>8 DEF SentConsistent, LooperOf
  <2>10. SentConsistent'
    BY <1>1, <2>7, <2>9 DEF SentConsistent
  <2> QED
    BY <2>4, <2>6, <2>10 DEF SerialInv
<1> QED
  BY <1>3, <1>4 DEF RequestToMcl

(* A suspended message goes back to the front of the main looper. *)
LEMMA SerialResume ==
  ASSUME TypeOK, RequestTracked, SerialInv, ResumeMessage
  PROVE  SerialInv'
<1> DEFINE i == main.i
           m == m_suspended_msg_list[i]
<1>1. /\ main.pc = "resume" /\ i <= Len(m_suspended_msg_list) /\ Move(m.req, "main")
      /\ mainLooper' = SendMessageFront(mainLooper, m)
      /\ m_suspended_msg_list' = RemoveAt(m_suspended_msg_list, i)
      /\ UNCHANGED << dispatchRequestQueue, dispatchResponseQueue, sent, blocked >>
  BY DEF ResumeMessage, queues
<1>2. i \in 1 .. Len(m_suspended_msg_list) /\ m_suspended_msg_list \in Seq(Messages)
  BY <1>1 DEF TypeOK, MainStates
<1>3. SentConsistent /\ Tracked(m_suspended_msg_list, MsgKey, place, "suspended")
  BY DEF SerialInv, RequestTracked, OneMessage
<1>4. m \in Consistent /\ m_suspended_msg_list' \in Seq(Consistent)
  BY <1>1, <1>2, <1>3, SeqParts DEF SentConsistent
<1>5. m.req \in Requests /\ place[m.req] = "suspended"
  <2>1. i \in DOMAIN m_suspended_msg_list /\ m \in Messages
    BY <1>2
  <2> QED
    BY <1>3, <2>1, Keys DEF Tracked, Messages
<1> HIDE DEF m, i
<1>6. mainLooper' \in LooperOf(Consistent)
  BY <1>1, <1>3, <1>4, LooperSendType DEF SentConsistent
<1> QED
  BY <1>1, <1>3, <1>4, <1>5, <1>6, SerialMove DEF SentConsistent, Places

(* An answer that finds its pending entry is the response to a sent request. *)
LEMMA SerialEnqueueResponse ==
  ASSUME TypeOK, RequestTracked, SerialInv, NEW r \in Requests, NEW m \in Messages,
         EnqueueResponse(r, m), m.req = r, IsResponse(m), place[r] # "sending",
         UNCHANGED << dispatchRequestQueue, mainLooper, m_suspended_msg_list, blocked, sent >>
  PROVE  SerialInv'
<1>1. SentConsistent /\ SentPlaces
  BY DEF SerialInv
<1>2. CASE pendingQueue[r] > 0
  <2>1. /\ dispatchResponseQueue' = Append(dispatchResponseQueue, m) /\ Move(r, "response")
    BY <1>2 DEF EnqueueResponse
  <2>2. place[r] \in {"mcl", "channel", "handler"}
    <3>1. place[r] \in {"mcl", "channel", "handler"} \/ Recorded(r)
      BY <1>2 DEF RequestTracked, PendingExact
    <3>2. Recorded(r) => place[r] = "sending"
      BY DEF RequestTracked, OneMessage, Recorded
    <3> QED
      BY <3>1, <3>2
  <2>3. r \in ToSet(sent)
    BY <1>1, <2>2 DEF SentPlaces
  <2>4. m \in Consistent
    BY <2>3 DEF Consistent, IsRequest, IsResponse
  <2>5. dispatchResponseQueue' \in Seq(Consistent)
    BY <1>1, <2>1, <2>4 DEF SentConsistent
  <2> QED
    BY <1>1, <2>1, <2>2, <2>5, SerialMove DEF SentConsistent, Places
<1>3. CASE ~(pendingQueue[r] > 0)
  BY <1>1, <1>3, SerialQuiet DEF EnqueueResponse, SentConsistent
<1> QED
  BY <1>2, <1>3

(* The Mcl dispatcher hands a request to its channel, or answers it itself. *)
LEMMA SerialMclDispatch ==
  ASSUME TypeOK, RequestTracked, SerialInv, MclDispatch
  PROVE  SerialInv'
<1> DEFINE r == LooperHead(mclLooper)
<1>1. /\ LooperBusy(mclLooper)
      /\ UNCHANGED << dispatchRequestQueue, mainLooper, m_suspended_msg_list, blocked, sent >>
      /\ \/ Move(r, "channel") /\ UNCHANGED dispatchResponseQueue
         \/ EnqueueResponse(r, Msg("RESPONSE", r))
  BY DEF MclDispatch, ctlVars
<1>2. mclLooper \in LooperOf(Requests) /\ LooperTracked(mclLooper, ReqKey, place, "mcl")
  BY DEF RequestTracked, OneMessage, TypeOK
<1>3. r \in Requests /\ ReqKey \in [Requests -> Requests] /\ ReqKey[r] = r
      /\ place \in [Requests -> Places]
  BY <1>1, <1>2, LooperTakeType, Keys DEF TypeOK
<1>4. place[r] = "mcl"
  <2>1. /\ place[ReqKey[LooperHead(mclLooper)]] = "mcl"
        /\ LooperTracked(LooperTail(mclLooper), ReqKey,
                         [place EXCEPT ![ReqKey[LooperHead(mclLooper)]] = "channel"], "mcl")
    BY <1>1, <1>2, <1>3, LooperTakeTracked
  <2> QED
    BY <1>3, <2>1
<1> HIDE DEF r
<1>5. SentConsistent /\ r \in ToSet(sent)
  BY <1>3, <1>4 DEF SerialInv, SentPlaces
<1>6. CASE Move(r, "channel") /\ UNCHANGED dispatchResponseQueue
  BY <1>1, <1>3, <1>4, <1>5, <1>6, SerialMove DEF SentConsistent, Places
<1>7. CASE EnqueueResponse(r, Msg("RESPONSE", r))
  <2>1. LET m == Msg("RESPONSE", r) IN m \in Messages /\ m.req = r /\ IsResponse(m)
    BY <1>3, MessageTypes DEF Msg, IsResponse
  <2> QED
    BY <1>1, <1>3, <1>4, <1>7, <2>1, SerialEnqueueResponse
<1> QED
  BY <1>1, <1>6, <1>7

(* A channel's sender gives the next request to its handler. *)
LEMMA SerialChannelDispatch ==
  ASSUME TypeOK, RequestTracked, SerialInv, NEW c \in Channels, ChannelDispatch(c)
  PROVE  SerialInv'
<1> DEFINE r == LooperHead(chanLooper[c])
<1>1. /\ LooperBusy(chanLooper[c]) /\ Move(r, "handler")
      /\ UNCHANGED << dispatchRequestQueue, dispatchResponseQueue, mainLooper,
                      m_suspended_msg_list, blocked, sent >>
  BY DEF ChannelDispatch, queues, ctlVars
<1>2. chanLooper[c] \in LooperOf(Requests) /\ LooperTracked(chanLooper[c], ReqKey, place, "channel")
  BY DEF RequestTracked, OneMessage, TypeOK
<1>3. r \in Requests /\ ReqKey \in [Requests -> Requests] /\ ReqKey[r] = r
      /\ place \in [Requests -> Places]
  BY <1>1, <1>2, LooperTakeType, Keys DEF TypeOK
<1>4. place[r] = "channel"
  <2>1. /\ place[ReqKey[LooperHead(chanLooper[c])]] = "channel"
        /\ LooperTracked(LooperTail(chanLooper[c]), ReqKey,
                         [place EXCEPT ![ReqKey[LooperHead(chanLooper[c])]] = "handler"], "channel")
    BY <1>1, <1>2, <1>3, LooperTakeTracked
  <2> QED
    BY <1>3, <2>1
<1> HIDE DEF r
<1>5. SentConsistent /\ r \in ToSet(sent)
  BY <1>3, <1>4 DEF SerialInv, SentPlaces
<1> QED
  BY <1>1, <1>3, <1>4, <1>5, SerialMove DEF SentConsistent, Places

(* A handler answers, for the first time or again. *)
LEMMA SerialHandlerReply ==
  ASSUME TypeOK, RequestTracked, SerialInv, NEW r \in Requests, HandlerReply(r)
  PROVE  SerialInv'
<1>1. /\ r \in handled /\ EnqueueResponse(r, ResponseOf(r))
      /\ UNCHANGED << dispatchRequestQueue, mainLooper, m_suspended_msg_list, blocked, sent >>
  BY DEF HandlerReply, ctlVars
<1>2. place[r] # "sending"
  BY <1>1 DEF RequestTracked, HandledOnce
<1>3. ResponseOf(r) \in Messages /\ ResponseOf(r).req = r /\ IsResponse(ResponseOf(r))
  BY MessageTypes DEF ResponseOf, Msg, IsResponse
<1> QED
  BY <1>1, <1>2, <1>3, SerialEnqueueResponse

(* Status syncs, timers and the walk over the suspended list move no request. *)
LEMMA SerialOther ==
  ASSUME TypeOK, SerialInv,
         \/ \E on \in BOOLEAN : EnqueueStatusSync(on)
         \/ ProcessStatusSyncQueue \/ ApplyStatusSync \/ KeepSuspended \/ HandleMessageEnd
         \/ \E c \in Controllers : ControllerEvent(c)
         \/ UNCHANGED vars
  PROVE  SerialInv'
<1> USE DEF queues, ctlVars
<1>1. SentConsistent
  BY DEF SerialInv
<1>2. ASSUME NEW on \in BOOLEAN, EnqueueStatusSync(on) PROVE SerialInv'
  BY <1>1, <1>2, SerialQuiet DEF EnqueueStatusSync, SentConsistent
<1>3. CASE ProcessStatusSyncQueue
  <2>1. Head(dispatchStatusSyncQueue) \in Consistent
    BY <1>3 DEF ProcessStatusSyncQueue, TypeOK, Consistent
  <2>2. mainLooper' \in LooperOf(Consistent)
    BY <1>1, <1>3, <2>1, LooperSendType DEF ProcessStatusSyncQueue, SentConsistent
  <2> QED
    BY <1>3, <2>2, SerialQuiet DEF ProcessStatusSyncQueue
<1>4. CASE ApplyStatusSync
  <2>1. mainLooper' \in LooperOf(Consistent)
    BY <1>1, <1>4, LooperTakeType DEF ApplyStatusSync, SentConsistent
  <2> QED
    BY <1>4, <2>1, SerialQuiet DEF ApplyStatusSync
<1>5. CASE KeepSuspended \/ HandleMessageEnd
  BY <1>1, <1>5, SerialQuiet DEF KeepSuspended, HandleMessageEnd, SentConsistent
<1>6. ASSUME NEW c \in Controllers, ControllerEvent(c) PROVE SerialInv'
  <2>1. \A d \in Serial : blocked'[d] = blocked[d]
    BY <1>6, ConstAssumption DEF ControllerEvent, TypeOK
  <2> QED
    BY <1>1, <1>6, <2>1, SerialQuiet DEF ControllerEvent, SentConsistent
<1>7. CASE UNCHANGED vars
  BY <1>1, <1>7, SerialQuiet DEF vars, SentConsistent
<1> QED
  BY <1>2, <1>3, <1>4, <1>5, <1>6, <1>7

(* Every step keeps the serial invariant. *)
LEMMA SerialStep == TypeOK /\ RequestTracked /\ SerialInv /\ [Next]_vars => SerialInv'
BY SerialEnqueueRequest, SerialDrain, SerialRejectOrSuspend, SerialForward, SerialDeliver,
   SerialRequestToMcl, SerialResume, SerialMclDispatch, SerialChannelDispatch,
   SerialHandlerReply, SerialOther
   DEF Next, Drainers, MainThread

-----------------------------------------------------------------------------
(* A serial controller is closed while its request is out, and opens only when
   the response to that request is handled. *)
THEOREM SerialInvariant == Spec => []SerialInv
<1>1. Init => SerialInv
  <2> SUFFICES ASSUME Init PROVE SerialInv
    OBVIOUS
  <2>1. /\ dispatchRequestQueue = << >> /\ dispatchResponseQueue = << >>
        /\ m_suspended_msg_list = << >> /\ mainLooper.hi = << >> /\ mainLooper.lo = << >>
        /\ mainLooper = [hi |-> << >>, lo |-> << >>] /\ sent = << >>
        /\ place = [r \in Requests |-> "new"]
    BY DEF Init, EmptyLooper
  <2>2. ToSet(sent) = {}
    BY <2>1 DEF ToSet
  <2>3. SentConsistent
    BY <2>1 DEF SentConsistent, LooperOf
  <2>4. SentPlaces
    BY <2>1, <2>2 DEF SentPlaces
  <2>5. \A r \in Requests : ~Outstanding(r)
    BY <2>1, <2>2 DEF Outstanding
  <2> QED
    BY <2>3, <2>4, <2>5 DEF SerialInv, OneOutstanding, ClosedMeanwhile
<1> QED
  BY <1>1, SerialStep, TypeCorrect, OneMessagePerRequest, PTL DEF Spec

(* "We only send one request to rmc": a serial controller never has two requests
   between requestToMcl and the handling of the response. *)
THEOREM SerialOneOutstandingCorrect == Spec => []SerialOneOutstanding
<1>1. SerialInv => SerialOneOutstanding
  <2> SUFFICES ASSUME SerialInv, NEW c \in Serial
               PROVE  Cardinality({r \in Requests : Owner[r] = c /\ Outstanding(r)}) <= 1
    BY DEF SerialOneOutstanding
  <2> DEFINE out == {r \in Requests : Owner[r] = c /\ Outstanding(r)}
  <2>1. \A p, q \in out : p = q
    BY DEF SerialInv, OneOutstanding
  <2> HIDE DEF out
  <2>2. CASE out = {}
    BY <2>2, FS_EmptySet DEF out
  <2>3. CASE out # {}
    <3>1. PICK p : out = {p}
      BY <2>1, <2>3
    <3>2. Cardinality(out) = 1
      BY <3>1, FS_Singleton
    <3> QED
      BY <3>2 DEF out
  <2> QED
    BY <2>2, <2>3
<1> QED
  BY <1>1, SerialInvariant, PTL

-----------------------------------------------------------------------------
(* The walk over the suspended list *)

(* What a gate lets through depends on the gates only. *)
LEMMA AdmitsFixed ==
  ASSUME UNCHANGED blocked
  PROVE  \A m : Admits(OwnerOf(m), m)' = Admits(OwnerOf(m), m)
BY DEF Admits, Closed, OwnerOf, IsResponse

(* A step that leaves the main thread, the list and the gates alone. *)
LEMMA WalkFixed ==
  ASSUME WalkInv, UNCHANGED << main, m_suspended_msg_list, blocked >>
  PROVE  WalkInv'
BY AdmitsFixed DEF WalkInv, NoneLeftBehind

(* A step after which the walk begins, or the main thread sends. *)
LEMMA WalkBegins ==
  ASSUME TypeOK', main' = [pc |-> "resume", i |-> 1] \/ main'.pc = "send"
  PROVE  WalkInv'
<1>1. CASE main' = [pc |-> "resume", i |-> 1]
  <2>1. main'.pc = "resume" /\ main'.i = 1
    BY <1>1
  <2>2. \A j \in DOMAIN m_suspended_msg_list' : ~(j < 1)
    BY DEF TypeOK
  <2> QED
    BY <2>1, <2>2 DEF WalkInv, NoneLeftBehind
<1>2. CASE main'.pc = "send"
  BY <1>2 DEF WalkInv, NoneLeftBehind
<1> QED
  BY <1>1, <1>2

(* Every step keeps the walk's invariant. *)
LEMMA WalkStep == TypeOK /\ TypeOK' /\ WalkInv /\ [Next]_vars => WalkInv'
<1> SUFFICES ASSUME TypeOK, TypeOK', WalkInv, [Next]_vars PROVE WalkInv'
  OBVIOUS
<1> USE DEF queues, mdVars, ctlVars, outVars
<1>1. ASSUME \/ \E r \in Requests : EnqueueRequest(r) \/ HandlerReply(r)
             \/ \E on \in BOOLEAN : EnqueueStatusSync(on)
             \/ Drainers \/ MclDispatch
             \/ \E c \in Channels : ChannelDispatch(c)
             \/ UNCHANGED vars
      PROVE  WalkInv'
  <2>1. UNCHANGED << main, m_suspended_msg_list, blocked >>
    BY <1>1 DEF EnqueueRequest, HandlerReply, EnqueueStatusSync, Drainers, ProcessRequestQueue,
                ProcessResponseQueue, ProcessStatusSyncQueue, MclDispatch, ChannelDispatch, vars
  <2> QED
    BY <2>1, WalkFixed
<1>2. ASSUME \/ ReplyNotSupported \/ ReplyUnavailable \/ Suspend \/ Deliver \/ ApplyStatusSync
             \/ \E c \in Controllers : ControllerEvent(c)
      PROVE  WalkInv'
  <2>1. main' = [pc |-> "resume", i |-> 1]
    BY <1>2 DEF ReplyNotSupported, ReplyUnavailable, Suspend, Deliver, ApplyStatusSync,
                ControllerEvent, AfterMessage
  <2> QED
    BY <2>1, WalkBegins
<1>3. ASSUME Forward PROVE WalkInv'
  BY <1>3, WalkBegins DEF Forward
<1>4. ASSUME RequestToMcl PROVE WalkInv'
  <2>1. main' = [pc |-> "resume", i |-> 1] \/ main'.pc = "send"
    BY <1>4 DEF RequestToMcl, AfterMessage
  <2> QED
    BY <2>1, WalkBegins
<1>5. ASSUME ResumeMessage PROVE WalkInv'
  <2> DEFINE s == m_suspended_msg_list
  <2>1. /\ main.pc = "resume" /\ main.i \in 1 .. Len(s) /\ s \in Seq(Messages)
        /\ s' = RemoveAt(s, main.i) /\ UNCHANGED << main, blocked >>
    BY <1>5 DEF ResumeMessage, TypeOK, MainStates
  <2>2. \A j \in DOMAIN s' : j < main.i => j \in DOMAIN s /\ s'[j] = s[j]
    <3>1. /\ s' \in Seq(Messages) /\ Len(s') = Len(s) - 1
          /\ \A j \in 1 .. Len(s) - 1 : s'[j] = IF j < main.i THEN s[j] ELSE s[j + 1]
      BY <2>1, RemoveAtType
    <3> QED
      BY <2>1, <3>1
  <2> QED
    BY <2>1, <2>2, AdmitsFixed DEF WalkInv, NoneLeftBehind
<1>6. ASSUME KeepSuspended PROVE WalkInv'
  <2> DEFINE s == m_suspended_msg_list
  <2>1. /\ main.pc = "resume" /\ main' = [pc |-> "resume", i |-> main.i + 1]
        /\ main.i \in Nat /\ ~Admits(OwnerOf(s[main.i]), s[main.i])
        /\ UNCHANGED << s, blocked >>
    BY <1>6 DEF KeepSuspended, TypeOK, MainStates
  <2>2. main'.pc = "resume" /\ main'.i = main.i + 1
    BY <2>1
  <2>3. \A j \in DOMAIN s : j < main.i + 1 => j < main.i \/ j = main.i
    BY <2>1 DEF TypeOK
  <2>4. \A j \in DOMAIN s : j < main'.i => ~Admits(OwnerOf(s[j]), s[j])
    BY <2>1, <2>2, <2>3 DEF WalkInv
  <2> QED
    BY <2>1, <2>2, <2>4, AdmitsFixed DEF WalkInv, NoneLeftBehind
<1>7. ASSUME HandleMessageEnd PROVE WalkInv'
  <2> DEFINE s == m_suspended_msg_list
  <2>1. /\ main.pc = "resume" /\ main' = [pc |-> "idle"] /\ main.i \in Nat
        /\ main.i > Len(s) /\ s \in Seq(Messages) /\ UNCHANGED << s, blocked >>
    BY <1>7 DEF HandleMessageEnd, TypeOK, MainStates
  <2>2. \A j \in DOMAIN s : j < main.i
    BY <2>1
  <2>3. \A j \in DOMAIN s : ~Admits(OwnerOf(s[j]), s[j])
    BY <2>1, <2>2 DEF WalkInv
  <2> QED
    BY <2>1, <2>3, AdmitsFixed DEF WalkInv, NoneLeftBehind
<1> QED
  BY <1>1, <1>2, <1>3, <1>4, <1>5, <1>6, <1>7 DEF Next, MainThread

(* While the main thread walks over the suspended list, what it has passed is
   held back by its gate. *)
THEOREM WalkInvariant == Spec => []WalkInv
<1>1. Init => WalkInv
  BY DEF Init, WalkInv, NoneLeftBehind
<1> QED
  BY <1>1, WalkStep, TypeCorrect, PTL DEF Spec

(* Between two messages of the main looper no suspended message is left whose
   controller would take it. *)
THEOREM NoneLeftBehindCorrect == Spec => []NoneLeftBehind
<1>1. WalkInv => NoneLeftBehind
  BY DEF WalkInv
<1> QED
  BY <1>1, WalkInvariant, PTL
-----------------------------------------------------------------------------
(* Lists in order *)

(* What append, pop_front and erase do to the requests found in a list. *)
LEMMA AskedLists ==
  ASSUME NEW S, NEW q \in Seq(S)
  PROVE  /\ \A m \in S : /\ IsOpen(m) => Asked(Append(q, m)) = Asked(q) \cup {m.req}
                         /\ ~IsOpen(m) => Asked(Append(q, m)) = Asked(q)
         /\ q # << >> => /\ Asked(Tail(q)) \subseteq Asked(q)
                         /\ IsOpen(Head(q)) => Head(q).req \in Asked(q)
         /\ \A i \in 1 .. Len(q) : /\ Asked(RemoveAt(q, i)) \subseteq Asked(q)
                                   /\ IsOpen(q[i]) => q[i].req \in Asked(q)
<1>1. ASSUME NEW m \in S
      PROVE  /\ IsOpen(m) => Asked(Append(q, m)) = Asked(q) \cup {m.req}
             /\ ~IsOpen(m) => Asked(Append(q, m)) = Asked(q)
  <2> DEFINE a == Append(q, m)
  <2>1. /\ DOMAIN a = 1 .. Len(q) + 1 /\ DOMAIN q = 1 .. Len(q) /\ Len(q) \in Nat
        /\ \A i \in 1 .. Len(q) : a[i] = q[i]
        /\ a[Len(q) + 1] = m
    OBVIOUS
  <2> HIDE DEF a
  <2>2. /\ \A i \in DOMAIN q : i \in DOMAIN a /\ a[i] = q[i]
        /\ \A i \in DOMAIN a : (i \in DOMAIN q /\ a[i] = q[i]) \/ a[i] = m
        /\ \E i \in DOMAIN a : a[i] = m
    BY <2>1
  <2>3. Asked(q) \subseteq Asked(a)
    BY <2>2 DEF Asked
  <2>4. \A x \in Asked(a) : x \in Asked(q) \/ (IsOpen(m) /\ x = m.req)
    BY <2>2 DEF Asked
  <2>5. IsOpen(m) => m.req \in Asked(a)
    BY <2>2 DEF Asked
  <2> QED
    BY <2>3, <2>4, <2>5 DEF a
<1>2. ASSUME q # << >>
      PROVE  /\ Asked(Tail(q)) \subseteq Asked(q)
             /\ IsOpen(Head(q)) => Head(q).req \in Asked(q)
  <2>1. /\ Head(q) = q[1] /\ 1 \in DOMAIN q
        /\ \A j \in DOMAIN Tail(q) : j + 1 \in DOMAIN q /\ Tail(q)[j] = q[j + 1]
    BY <1>2, TailEntries
  <2> QED
    BY <2>1 DEF Asked
<1>3. ASSUME NEW i \in 1 .. Len(q)
      PROVE  /\ Asked(RemoveAt(q, i)) \subseteq Asked(q)
             /\ IsOpen(q[i]) => q[i].req \in Asked(q)
  <2>1. /\ DOMAIN RemoveAt(q, i) = 1 .. Len(q) - 1 /\ DOMAIN q = 1 .. Len(q) /\ Len(q) \in Nat
        /\ \A j \in 1 .. Len(q) - 1 : RemoveAt(q, i)[j] = IF j < i THEN q[j] ELSE q[j + 1]
    BY RemoveAtType
  <2>2. \A j \in DOMAIN RemoveAt(q, i) : \E k \in DOMAIN q : RemoveAt(q, i)[j] = q[k]
    BY <2>1
  <2> QED
    BY <2>1, <2>2 DEF Asked
<1> QED
  BY <1>1, <1>2, <1>3

(* A request behind all those in a list may be appended. *)
LEMMA AppendInOrder ==
  ASSUME NEW S, NEW q \in Seq(S), NEW m \in S, NEW B, InOrder(q, B),
         IsOpen(m) => AllPrecede(Asked(q), {m.req}, B)
  PROVE  InOrder(Append(q, m), B)
<1> DEFINE a == Append(q, m)
<1>1. /\ DOMAIN a = 1 .. Len(q) + 1 /\ DOMAIN q = 1 .. Len(q) /\ Len(q) \in Nat
      /\ \A i \in 1 .. Len(q) : a[i] = q[i]
      /\ a[Len(q) + 1] = m
  OBVIOUS
<1> HIDE DEF a
<1> SUFFICES ASSUME NEW i \in DOMAIN a, NEW j \in DOMAIN a, i < j, IsOpen(a[i]), IsOpen(a[j])
             PROVE  << a[i].req, a[j].req >> \in B
  BY DEF InOrder, a
<1>2. i \in DOMAIN q /\ a[i] = q[i]
  BY <1>1
<1>3. CASE j \in DOMAIN q
  BY <1>1, <1>2, <1>3 DEF InOrder
<1>4. CASE j \notin DOMAIN q
  <2>1. a[j] = m
    BY <1>1, <1>4
  <2>2. a[i].req \in Asked(q)
    BY <1>2 DEF Asked
  <2> QED
    BY <2>1, <2>2 DEF AllPrecede
<1> QED
  BY <1>3, <1>4

(* The head of a list precedes the rest, and the rest stays in order. *)
LEMMA TailInOrder ==
  ASSUME NEW S, NEW q \in Seq(S), q # << >>, NEW B, InOrder(q, B)
  PROVE  /\ InOrder(Tail(q), B)
         /\ IsOpen(Head(q)) => AllPrecede({Head(q).req}, Asked(Tail(q)), B)
<1>1. /\ Head(q) = q[1] /\ 1 \in DOMAIN q /\ DOMAIN Tail(q) \subseteq Nat \ {0}
      /\ \A j \in DOMAIN Tail(q) : j + 1 \in DOMAIN q /\ Tail(q)[j] = q[j + 1]
  BY TailEntries
<1>2. InOrder(Tail(q), B)
  BY <1>1 DEF InOrder
<1>3. ASSUME IsOpen(Head(q)), NEW j \in DOMAIN Tail(q), IsOpen(Tail(q)[j])
      PROVE  << Head(q).req, Tail(q)[j].req >> \in B
  <2>1. 1 < j + 1 /\ j + 1 \in DOMAIN q /\ Tail(q)[j] = q[j + 1]
    BY <1>1
  <2> QED
    BY <1>1, <1>3, <2>1 DEF InOrder
<1> QED
  BY <1>2, <1>3 DEF AllPrecede, Asked

(* Erasing the entry i leaves a list in order; if none of the owner's requests
   was ahead of i, the erased request precedes those that stay. *)
LEMMA RemoveAtInOrder ==
  ASSUME NEW S, NEW q \in Seq(S), NEW i \in 1 .. Len(q), NEW B, InOrder(q, B)
  PROVE  /\ InOrder(RemoveAt(q, i), B)
         /\ \A w \in Asked(RemoveAt(q, i)) :
              \/ \E j \in 1 .. i - 1 : IsOpen(q[j]) /\ q[j].req = w
              \/ IsOpen(q[i]) => << q[i].req, w >> \in B
<1> DEFINE a == RemoveAt(q, i)
           at(j) == IF j < i THEN j ELSE j + 1
<1>1. /\ DOMAIN a = 1 .. Len(q) - 1 /\ DOMAIN q = 1 .. Len(q) /\ Len(q) \in Nat
      /\ \A j \in 1 .. Len(q) - 1 : a[j] = IF j < i THEN q[j] ELSE q[j + 1]
  BY RemoveAtType
<1> HIDE DEF a
<1>2. \A j \in DOMAIN a : at(j) \in DOMAIN q /\ a[j] = q[at(j)]
  BY <1>1
<1>3. \A j \in DOMAIN a, k \in DOMAIN a : j < k => at(j) < at(k)
  BY <1>1
<1>4. \A j \in DOMAIN a : at(j) \in 1 .. i - 1 \/ i < at(j)
  BY <1>1
<1> HIDE DEF at
<1>5. InOrder(a, B)
  BY <1>2, <1>3 DEF InOrder
<1>6. ASSUME NEW w \in Asked(a)
      PROVE  \/ \E j \in 1 .. i - 1 : IsOpen(q[j]) /\ q[j].req = w
             \/ IsOpen(q[i]) => << q[i].req, w >> \in B
  <2>1. PICK j \in DOMAIN a : IsOpen(a[j]) /\ a[j].req = w
    BY <1>6 DEF Asked
  <2>2. CASE at(j) \in 1 .. i - 1
    BY <1>2, <2>1, <2>2
  <2>3. CASE i < at(j)
    BY <1>1, <1>2, <2>1, <2>3 DEF InOrder
  <2> QED
    BY <1>4, <2>2, <2>3
<1> QED
  BY <1>5, <1>6 DEF a

(* The main thread takes the head of a Looper in which the resumed messages
   precede the others. *)
LEMMA LooperTakeOrder ==
  ASSUME NEW S, NEW l \in LooperOf(S), LooperBusy(l), NEW B,
         InOrder(l.hi, B), InOrder(l.lo, B), AllPrecede(Asked(l.hi), Asked(l.lo), B),
         GatedResponses(l.hi)
  PROVE  LET t == LooperTail(l)
             m == LooperHead(l)
         IN  /\ InOrder(t.hi, B) /\ InOrder(t.lo, B)
             /\ Asked(t.hi) \subseteq Asked(l.hi) /\ Asked(t.lo) \subseteq Asked(l.lo)
             /\ GatedResponses(t.hi)
             /\ IsOpen(m) => /\ AllPrecede({m.req}, Asked(t.hi) \cup Asked(t.lo), B)
                             /\ \/ m.req \in Asked(l.hi)
                                \/ m.req \in Asked(l.lo) /\ Asked(t.hi) = {}
             /\ \/ m \in Messages /\ IsResponse(m) => OwnerOf(m) \in GateResponses
                \/ Asked(t.hi) = {}
<1> DEFINE t == LooperTail(l)
           m == LooperHead(l)
<1>1. l.hi \in Seq(S) /\ l.lo \in Seq(S)
  BY DEF LooperOf
<1>2. CASE l.hi # << >>
  <2>1. t.hi = Tail(l.hi) /\ t.lo = l.lo /\ m = Head(l.hi)
    BY <1>2 DEF LooperTail, LooperHead
  <2>2. /\ m = l.hi[1] /\ 1 \in DOMAIN l.hi
        /\ \A j \in DOMAIN t.hi : j + 1 \in DOMAIN l.hi /\ t.hi[j] = l.hi[j + 1]
    BY <1>1, <1>2, <2>1, TailEntries
  <2>3. GatedResponses(t.hi) /\ (m \in Messages /\ IsResponse(m) => OwnerOf(m) \in GateResponses)
    BY <2>2 DEF GatedResponses
  <2>4. /\ InOrder(t.hi, B) /\ Asked(t.hi) \subseteq Asked(l.hi)
        /\ IsOpen(m) => AllPrecede({m.req}, Asked(t.hi), B) /\ m.req \in Asked(l.hi)
    BY <1>1, <1>2, <2>1, TailInOrder, AskedLists
  <2>5. IsOpen(m) => AllPrecede({m.req}, Asked(t.hi) \cup Asked(t.lo), B)
    BY <2>1, <2>4 DEF AllPrecede
  <2> QED
    BY <2>1, <2>3, <2>4, <2>5
<1>3. CASE l.hi = << >>
  <2>1. t.hi = l.hi /\ t.lo = Tail(l.lo) /\ m = Head(l.lo) /\ l.lo # << >>
    BY <1>3 DEF LooperTail, LooperHead, LooperBusy
  <2>2. Asked(t.hi) = {}
    BY <1>3, <2>1 DEF Asked
  <2>3. /\ InOrder(t.lo, B) /\ Asked(t.lo) \subseteq Asked(l.lo)
        /\ IsOpen(m) => AllPrecede({m.req}, Asked(t.lo), B) /\ m.req \in Asked(l.lo)
    BY <1>1, <2>1, TailInOrder, AskedLists
  <2>4. IsOpen(m) => AllPrecede({m.req}, Asked(t.hi) \cup Asked(t.lo), B)
    BY <2>2, <2>3 DEF AllPrecede
  <2> QED
    BY <2>1, <2>2, <2>3, <2>4
<1> QED
  BY <1>2, <1>3

-----------------------------------------------------------------------------
(* The order of issue *)

(* A step that issues nothing changes no order. *)
LEMMA BeforeFixed == UNCHANGED issued => Before' = Before
BY DEF Before, IssuedBefore, Position

(* The place of a request in the order of issue. *)
LEMMA PositionFound ==
  ASSUME NEW S, NEW s \in Seq(S), \A i, j \in DOMAIN s : s[i] = s[j] => i = j,
         NEW k \in DOMAIN s
  PROVE  Position(s, s[k]) = k
BY DEF Position

(* A new request is behind every other, whose order stays. *)
LEMMA BeforeGrows ==
  ASSUME IssuedOnce, issued \in Seq(Requests), NEW r \in Requests, r \notin ToSet(issued),
         issued' = Append(issued, r)
  PROVE  /\ \A i, j \in DOMAIN issued' : issued'[i] = issued'[j] => i = j
         /\ ToSet(issued') = ToSet(issued) \cup {r}
         /\ \A p, q \in ToSet(issued) : << p, q >> \in Before => << p, q >> \in Before'
         /\ \A p \in ToSet(issued) : << p, r >> \in Before'
<1>1. /\ DOMAIN issued' = 1 .. Len(issued) + 1 /\ DOMAIN issued = 1 .. Len(issued)
      /\ Len(issued) \in Nat /\ issued' \in Seq(Requests)
      /\ \A i \in 1 .. Len(issued) : issued'[i] = issued[i]
      /\ issued'[Len(issued) + 1] = r
  OBVIOUS
<1>2. \A i \in DOMAIN issued : issued[i] # r
  BY DEF ToSet
<1>3. \A i, j \in DOMAIN issued' : issued'[i] = issued'[j] => i = j
  BY <1>1, <1>2 DEF IssuedOnce
<1>4. ToSet(issued') = ToSet(issued) \cup {r}
  BY SentGrows
<1>5. \A p \in ToSet(issued) : /\ Position(issued', p) = Position(issued, p)
                               /\ Position(issued, p) \in 1 .. Len(issued)
  <2> SUFFICES ASSUME NEW p \in ToSet(issued)
               PROVE  /\ Position(issued', p) = Position(issued, p)
                      /\ Position(issued, p) \in 1 .. Len(issued)
    OBVIOUS
  <2>1. PICK k \in DOMAIN issued : issued[k] = p
    BY DEF ToSet
  <2>2. Position(issued, p) = k
    BY <2>1, PositionFound DEF IssuedOnce
  <2>3. k \in DOMAIN issued' /\ issued'[k] = p
    BY <1>1, <2>1
  <2>4. Position(issued', p) = k
    BY <1>1, <1>3, <2>3, PositionFound
  <2> QED
    BY <1>1, <2>2, <2>4
<1>6. Position(issued', r) = Len(issued) + 1
  <2>1. Len(issued) + 1 \in DOMAIN issued' /\ issued'[Len(issued) + 1] = r
    BY <1>1
  <2> QED
    BY <1>1, <1>3, <2>1, PositionFound
<1>7. ToSet(issued) \subseteq Requests
  BY DEF ToSet
<1>8. \A p, q \in ToSet(issued) : << p, q >> \in Before => << p, q >> \in Before'
  BY <1>5, <1>7 DEF Before, IssuedBefore
<1>9. \A p \in ToSet(issued) : << p, r >> \in Before'
  BY <1>1, <1>5, <1>6, <1>7 DEF Before, IssuedBefore
<1> QED
  BY <1>3, <1>4, <1>8, <1>9

(* Whatever is in a queue, with a gate or with the modem side was issued. *)
LEMMA AllIssued ==
  ASSUME TypeOK, RequestTracked, SentPlaces, IssuedOnce
  PROVE  /\ Asked(dispatchRequestQueue) \subseteq ToSet(issued)
         /\ Asked(mainLooper.lo) \subseteq ToSet(issued)
         /\ Resumed \cup Waiting \cup Coming \cup Sending \cup ToSet(sent) \subseteq ToSet(issued)
<1>1. ASSUME NEW q, NEW p, p # "new", Tracked(q, MsgKey, place, p)
      PROVE  Asked(q) \subseteq ToSet(issued)
  <2> SUFFICES ASSUME NEW i \in DOMAIN q, IsOpen(q[i]) PROVE q[i].req \in ToSet(issued)
    BY DEF Asked
  <2>1. q[i] \in DOMAIN MsgKey /\ MsgKey[q[i]] = q[i].req /\ q[i].req \in Requests
    BY Keys DEF IsOpen, Messages
  <2>2. place[q[i].req] = p
    BY <1>1, <2>1 DEF Tracked
  <2> QED
    BY <1>1, <2>1, <2>2 DEF IssuedOnce
<1>2. /\ Tracked(dispatchRequestQueue, MsgKey, place, "request")
      /\ Tracked(mainLooper.hi, MsgKey, place, "main") /\ Tracked(mainLooper.lo, MsgKey, place, "main")
      /\ Tracked(m_suspended_msg_list, MsgKey, place, "suspended")
  BY DEF RequestTracked, OneMessage, LooperTracked
<1>3. ToSet(sent) \subseteq ToSet(issued)
  <2>1. sent \in Seq(Requests)
    BY DEF TypeOK
  <2>2. ToSet(sent) \subseteq Requests
    BY <2>1 DEF ToSet
  <2> QED
    BY <2>2 DEF SentPlaces, IssuedOnce
<1>4. Sending \subseteq ToSet(issued)
  BY DEF Sending, RequestTracked, OneMessage, TypeOK, MainStates, IssuedOnce
<1> QED
  BY <1>1, <1>2, <1>3, <1>4 DEF Resumed, Waiting, Coming

(* A request under way that moves on was issued before and is so after. *)
LEMMA IssuedMove ==
  ASSUME TypeOK, IssuedOnce, NEW r \in Requests, NEW p, p # "new", place[r] # "new",
         Move(r, p), UNCHANGED issued
  PROVE  IssuedOnce'
BY DEF IssuedOnce, Move, TypeOK

-----------------------------------------------------------------------------
(* The steps *)

(* A step after which every stage holds no more requests than before. *)
LEMMA StagesShrink ==
  ASSUME StagesInOrder, Before' = Before, UNCHANGED sent,
         Sending' \subseteq Sending, Resumed' \subseteq Resumed, Waiting' \subseteq Waiting,
         Asked(mainLooper.lo)' \subseteq Asked(mainLooper.lo),
         Asked(dispatchRequestQueue)' \subseteq Asked(dispatchRequestQueue)
  PROVE  StagesInOrder'
<1>1. Coming' \subseteq Coming /\ ToSet(sent') = ToSet(sent)
  BY DEF Coming
<1> QED
  BY <1>1 DEF StagesInOrder, AllPrecede

(* The same for the resumed and the suspended requests, the gates unmoved. *)
LEMMA GatesShrink ==
  ASSUME ResumedAndWaiting, Before' = Before, Closed' = Closed,
         Resumed' \subseteq Resumed, Waiting' \subseteq Waiting
  PROVE  ResumedAndWaiting'
BY DEF ResumedAndWaiting

(* A step that moves no request that is not yet answered. *)
LEMMA OrderKept ==
  ASSUME OrderInv, IssuedOnce',
         UNCHANGED << issued, sent, dispatchRequestQueue, m_suspended_msg_list, blocked >>,
         Sending' \subseteq Sending, mainLooper'.hi = mainLooper.hi,
         InOrder(mainLooper'.lo, Before), Asked(mainLooper'.lo) = Asked(mainLooper.lo),
         Asked(dispatchResponseQueue') = {}
  PROVE  OrderInv'
<1>1. Before' = Before
  BY BeforeFixed
<1>2. Closed' = Closed
  BY DEF Closed
<1>3. Resumed' = Resumed /\ Waiting' = Waiting
  BY DEF Resumed, Waiting
<1>4. StagesInOrder'
  BY <1>1, <1>3, StagesShrink DEF OrderInv
<1>5. ResumedAndWaiting'
  BY <1>1, <1>2, <1>3, GatesShrink DEF OrderInv
<1>6. ListsInOrder'
  BY <1>1 DEF OrderInv, ListsInOrder
<1> QED
  BY <1>4, <1>5, <1>6 DEF OrderInv, GatedResponses

(* A client issues a request: it is behind all others, whose order stays. *)
LEMMA OrderEnqueueRequest ==
  ASSUME TypeOK, RequestTracked, SerialInv, OrderInv, NEW r \in Requests, EnqueueRequest(r)
  PROVE  OrderInv'
<1> DEFINE I == ToSet(issued)
<1>1. /\ issued' = Append(issued, r) /\ place[r] = "new" /\ issued \in Seq(Requests)
      /\ UNCHANGED << mainLooper, main, m_suspended_msg_list, blocked, sent >>
  BY DEF EnqueueRequest, ctlVars, TypeOK
<1>2. /\ IssuedOnce /\ ListsInOrder /\ StagesInOrder /\ ResumedAndWaiting /\ SentPlaces
      /\ GatedResponses(mainLooper.hi) /\ GatedResponses(m_suspended_msg_list)
      /\ Asked(dispatchResponseQueue) = {}
  BY DEF OrderInv, SerialInv
<1>3. r \notin I
  BY <1>1, <1>2 DEF IssuedOnce
<1>4. /\ \A i, j \in DOMAIN issued' : issued'[i] = issued'[j] => i = j
      /\ ToSet(issued') = I \cup {r}
      /\ \A p, q \in I : << p, q >> \in Before => << p, q >> \in Before'
      /\ \A p \in I : << p, r >> \in Before'
  BY <1>1, <1>2, <1>3, BeforeGrows
<1>5. /\ Asked(dispatchRequestQueue) \subseteq I /\ Asked(mainLooper.lo) \subseteq I
      /\ Resumed \cup Waiting \cup Coming \cup Sending \cup ToSet(sent) \subseteq I
  BY <1>2, AllIssued
<1>6. PICK p \in Places \ {"new"} : Move(r, p)
  BY DEF EnqueueRequest, Places
<1>7. IssuedOnce'
  <2>1. place' = [place EXCEPT ![r] = p] /\ place \in [Requests -> Places]
    BY <1>6 DEF Move, TypeOK
  <2>2. I \cup {r} = {x \in Requests : place'[x] # "new"}
    BY <1>2, <2>1 DEF IssuedOnce
  <2> QED
    BY <1>4, <2>2 DEF IssuedOnce
<1>8. ASSUME NEW q, InOrder(q, Before), Asked(q) \subseteq I PROVE InOrder(q, Before')
  <2> SUFFICES ASSUME NEW i \in DOMAIN q, NEW j \in DOMAIN q, i < j, IsOpen(q[i]), IsOpen(q[j])
               PROVE  << q[i].req, q[j].req >> \in Before'
    BY DEF InOrder
  <2>1. q[i].req \in I /\ q[j].req \in I
    BY <1>8 DEF Asked
  <2> QED
    BY <1>4, <1>8, <2>1 DEF InOrder
<1>9. ASSUME NEW P, NEW R, AllPrecede(P, R, Before), P \subseteq I, R \subseteq I
      PROVE  AllPrecede(P, R, Before')
  BY <1>4, <1>9 DEF AllPrecede
<1>10. Sending' = Sending /\ Resumed' = Resumed /\ Waiting' = Waiting /\ Closed' = Closed
  BY <1>1 DEF Sending, Resumed, Waiting, Closed
<1>11. /\ InOrder(mainLooper.hi, Before') /\ InOrder(mainLooper.lo, Before')
       /\ InOrder(m_suspended_msg_list, Before')
  BY <1>2, <1>5, <1>8 DEF ListsInOrder, Resumed, Waiting
<1>12. \A i, j \in DOMAIN sent : i < j => << sent[i], sent[j] >> \in Before'
  <2>1. \A i \in DOMAIN sent : sent[i] \in I
    BY <1>5 DEF ToSet
  <2> QED
    BY <1>2, <1>4, <2>1 DEF ListsInOrder
<1>13. ResumedAndWaiting'
  <2>1. \A h \in Resumed, w \in Waiting : h \in I /\ w \in I
    BY <1>5
  <2> QED
    BY <1>2, <1>4, <1>10, <2>1 DEF ResumedAndWaiting
<1>14. /\ Asked(dispatchResponseQueue') = {}
       /\ InOrder(dispatchRequestQueue', Before')
       /\ Asked(dispatchRequestQueue') \subseteq Asked(dispatchRequestQueue) \cup {r}
  <2>1. InOrder(dispatchRequestQueue, Before')
    BY <1>2, <1>5, <1>8 DEF ListsInOrder
  <2>2. CASE r \in Unsupported
    <3>1. /\ dispatchResponseQueue' = Append(dispatchResponseQueue, ResponseOf(r))
          /\ UNCHANGED dispatchRequestQueue
      BY <2>2 DEF EnqueueRequest
    <3>2. ~IsOpen(ResponseOf(r)) /\ ResponseOf(r) \in Messages
      BY MessageTypes DEF ResponseOf, Msg, IsOpen, IsRequest
    <3> QED
      BY <1>2, <2>1, <3>1, <3>2, AskedLists DEF TypeOK
  <2>3. CASE r \notin Unsupported
    <3>1. /\ dispatchRequestQueue' = Append(dispatchRequestQueue, RequestOf(r))
          /\ UNCHANGED dispatchResponseQueue
      BY <2>3 DEF EnqueueRequest
    <3>2. RequestOf(r).req = r /\ RequestOf(r) \in Messages /\ IsOpen(RequestOf(r))
      BY MessageTypes DEF RequestOf, Msg, IsOpen, IsRequest
    <3>3. AllPrecede(Asked(dispatchRequestQueue), {r}, Before')
      BY <1>4, <1>5 DEF AllPrecede
    <3>4. dispatchRequestQueue \in Seq(Messages)
      BY DEF TypeOK
    <3>5. InOrder(dispatchRequestQueue', Before')
      <4> DEFINE B == Before'
      <4>1. InOrder(dispatchRequestQueue, B) /\ AllPrecede(Asked(dispatchRequestQueue), {r}, B)
        BY <2>1, <3>3
      <4> HIDE DEF B
      <4>2. InOrder(Append(dispatchRequestQueue, RequestOf(r)), B)
        BY <3>2, <3>4, <4>1, AppendInOrder
      <4> QED
        BY <3>1, <4>2 DEF B
    <3>6. Asked(dispatchRequestQueue') = Asked(dispatchRequestQueue) \cup {r}
      BY <3>1, <3>2, <3>4, AskedLists
    <3> QED
      BY <1>2, <3>1, <3>5, <3>6
  <2> QED
    BY <2>2, <2>3
<1>15. StagesInOrder'
  <2>1. Coming' \subseteq Coming \cup {r}
    BY <1>1, <1>14 DEF Coming
  <2>2. /\ AllPrecede(ToSet(sent), Sending \cup Resumed \cup Waiting \cup Coming, Before')
        /\ AllPrecede(Sending, Resumed \cup Waiting \cup Coming, Before')
        /\ AllPrecede(Resumed \cup Waiting, Coming, Before')
        /\ AllPrecede(Asked(mainLooper.lo), Asked(dispatchRequestQueue), Before')
    BY <1>2, <1>5, <1>9 DEF StagesInOrder
  <2>3. /\ AllPrecede(ToSet(sent), {r}, Before') /\ AllPrecede(Sending, {r}, Before')
        /\ AllPrecede(Resumed \cup Waiting, {r}, Before')
        /\ AllPrecede(Asked(mainLooper.lo), {r}, Before')
    BY <1>4, <1>5 DEF AllPrecede
  <2>4. ToSet(sent)' = ToSet(sent) /\ Asked(mainLooper.lo)' = Asked(mainLooper.lo)
    BY <1>1
  <2> HIDE DEF I
  <2> QED
    BY <1>10, <1>14, <2>1, <2>2, <2>3, <2>4 DEF StagesInOrder, AllPrecede
<1> QED
  BY <1>1, <1>2, <1>7, <1>11, <1>12, <1>13, <1>14, <1>15 DEF OrderInv, ListsInOrder, GatedResponses

(* A drainer hands a message to the main looper: a request goes from the head of
   one line to the end of the next, a response is not in line. *)
LEMMA OrderDrain ==
  ASSUME TypeOK, RequestTracked, OrderInv, ProcessRequestQueue \/ ProcessResponseQueue
  PROVE  OrderInv'
<1>1. /\ IssuedOnce /\ ListsInOrder /\ StagesInOrder /\ ResumedAndWaiting
      /\ GatedResponses(mainLooper.hi) /\ GatedResponses(m_suspended_msg_list)
      /\ Asked(dispatchResponseQueue) = {}
  BY DEF OrderInv
<1>2. /\ UNCHANGED << main, m_suspended_msg_list, blocked, sent, issued >>
      /\ mainLooper.lo \in Seq(Messages \cup SyncMessages)
      /\ mainLooper.hi \in Seq(Messages \cup SyncMessages)
  BY DEF ProcessRequestQueue, ProcessResponseQueue, ctlVars, TypeOK, LooperOf
<1>3. Before' = Before /\ Closed' = Closed /\ Sending' = Sending /\ Waiting' = Waiting
  BY <1>2, BeforeFixed DEF Closed, Sending, Waiting
<1>4. ASSUME NEW q \in Seq(Messages), NEW p, p # "new", q # << >>, Tracked(q, MsgKey, place, p)
      PROVE  Head(q).req \in Requests /\ place[Head(q).req] # "new" /\ Head(q) \in Messages
  <2>1. Head(q) = q[1] /\ 1 \in DOMAIN q /\ Head(q) \in Messages
    BY <1>4, TailEntries
  <2>2. MsgKey[Head(q)] = Head(q).req /\ Head(q) \in DOMAIN MsgKey
    BY <2>1, Keys
  <2> QED
    BY <1>4, <2>1, <2>2 DEF Tracked, Messages
<1>5. CASE ProcessRequestQueue
  <2> DEFINE m == Head(dispatchRequestQueue)
  <2>1. /\ dispatchRequestQueue # << >> /\ dispatchRequestQueue' = Tail(dispatchRequestQueue)
        /\ mainLooper' = SendMessage(mainLooper, m) /\ Move(m.req, "main")
        /\ UNCHANGED dispatchResponseQueue
    BY <1>5 DEF ProcessRequestQueue
  <2>2. dispatchRequestQueue \in Seq(Messages)
        /\ Tracked(dispatchRequestQueue, MsgKey, place, "request")
    BY DEF TypeOK, RequestTracked, OneMessage
  <2>3. m.req \in Requests /\ place[m.req] # "new" /\ m \in Messages
    BY <1>4, <2>1, <2>2
  <2>4. IssuedOnce'
    BY <1>1, <1>2, <2>1, <2>3, IssuedMove
  <2>5. /\ InOrder(dispatchRequestQueue', Before)
        /\ Asked(dispatchRequestQueue') \subseteq Asked(dispatchRequestQueue)
        /\ IsOpen(m) => /\ AllPrecede({m.req}, Asked(dispatchRequestQueue'), Before)
                        /\ m.req \in Asked(dispatchRequestQueue)
    BY <1>1, <2>1, <2>2, TailInOrder, AskedLists DEF ListsInOrder
  <2> HIDE DEF m
  <2>6. mainLooper'.hi = mainLooper.hi /\ mainLooper'.lo = Append(mainLooper.lo, m)
    BY <2>1 DEF SendMessage
  <2>7. IsOpen(m) => AllPrecede(Asked(mainLooper.lo), {m.req}, Before)
    BY <1>1, <2>5 DEF StagesInOrder, AllPrecede
  <2>8. InOrder(mainLooper'.lo, Before)
    BY <1>1, <1>2, <2>3, <2>6, <2>7, AppendInOrder DEF ListsInOrder
  <2>9. /\ IsOpen(m) => Asked(mainLooper'.lo) = Asked(mainLooper.lo) \cup {m.req}
        /\ ~IsOpen(m) => Asked(mainLooper'.lo) = Asked(mainLooper.lo)
    BY <1>2, <2>3, <2>6, AskedLists
  <2>10. Coming' \subseteq Coming
    BY <2>5, <2>9 DEF Coming
  <2>11. Resumed' = Resumed
    BY <2>6 DEF Resumed
  <2>12. AllPrecede(Asked(mainLooper'.lo), Asked(dispatchRequestQueue'), Before)
    BY <1>1, <2>5, <2>9 DEF StagesInOrder, AllPrecede
  <2>13. StagesInOrder'
    BY <1>1, <1>2, <1>3, <2>10, <2>11, <2>12 DEF StagesInOrder, AllPrecede
  <2>14. ResumedAndWaiting'
    BY <1>1, <1>3, <2>11, GatesShrink
  <2>15. ListsInOrder'
    BY <1>1, <1>2, <1>3, <2>5, <2>6, <2>8 DEF ListsInOrder
  <2> QED
    BY <1>1, <1>2, <2>1, <2>4, <2>6, <2>13, <2>14, <2>15 DEF OrderInv, GatedResponses
<1>6. CASE ProcessResponseQueue
  <2> DEFINE m == Head(dispatchResponseQueue)
  <2>1. /\ dispatchResponseQueue # << >> /\ dispatchResponseQueue' = Tail(dispatchResponseQueue)
        /\ mainLooper' = SendMessage(mainLooper, m) /\ Move(m.req, "main")
        /\ UNCHANGED dispatchRequestQueue
    BY <1>6 DEF ProcessResponseQueue
  <2>2. dispatchResponseQueue \in Seq(Messages)
        /\ Tracked(dispatchResponseQueue, MsgKey, place, "response")
    BY DEF TypeOK, RequestTracked, OneMessage
  <2>3. m.req \in Requests /\ place[m.req] # "new" /\ m \in Messages
    BY <1>4, <2>1, <2>2
  <2>4. IssuedOnce'
    BY <1>1, <1>2, <2>1, <2>3, IssuedMove
  <2>5. Asked(dispatchResponseQueue') = {} /\ ~IsOpen(m)
    BY <1>1, <2>1, <2>2, AskedLists
  <2> HIDE DEF m
  <2>6. mainLooper'.hi = mainLooper.hi /\ mainLooper'.lo = Append(mainLooper.lo, m)
    BY <2>1 DEF SendMessage
  <2>7. InOrder(mainLooper'.lo, Before)
    BY <1>1, <1>2, <2>3, <2>5, <2>6, AppendInOrder DEF ListsInOrder
  <2>8. Asked(mainLooper'.lo) = Asked(mainLooper.lo)
    BY <1>2, <2>3, <2>5, <2>6, AskedLists
  <2> QED
    BY <1>2, <1>3, <2>1, <2>4, <2>5, <2>6, <2>7, <2>8, OrderKept
<1> QED
  BY <1>5, <1>6

(* The message the main thread takes precedes what stays in the looper and what
   is still to come, and follows what was sent. *)
LEMMA TakeOrder ==
  ASSUME TypeOK, OrderInv, LooperBusy(mainLooper), mainLooper' = LooperTail(mainLooper)
  PROVE  /\ InOrder(mainLooper'.hi, Before) /\ InOrder(mainLooper'.lo, Before)
         /\ Asked(mainLooper'.hi) \subseteq Resumed
         /\ Asked(mainLooper'.lo) \subseteq Asked(mainLooper.lo)
         /\ GatedResponses(mainLooper'.hi)
         /\ \/ Taken \in Messages /\ IsResponse(Taken) => OwnerOf(Taken) \in GateResponses
            \/ Asked(mainLooper'.hi) = {}
         /\ IsOpen(Taken) =>
              /\ AllPrecede(ToSet(sent), {Taken.req}, Before)
              /\ AllPrecede({Taken.req}, Asked(mainLooper'.hi) \cup Asked(mainLooper'.lo)
                                         \cup Asked(dispatchRequestQueue), Before)
              /\ \A w \in Waiting : Owner[w] = Owner[Taken.req] /\ Owner[w] \in Closed
                                    => << w, Taken.req >> \in Before
<1>1. /\ InOrder(mainLooper.hi, Before) /\ InOrder(mainLooper.lo, Before)
      /\ GatedResponses(mainLooper.hi) /\ StagesInOrder /\ ResumedAndWaiting
  BY DEF OrderInv, ListsInOrder
<1>2. mainLooper \in LooperOf(Messages \cup SyncMessages) /\ Taken = LooperHead(mainLooper)
  BY DEF TypeOK, Taken
<1>3. AllPrecede(Asked(mainLooper.hi), Asked(mainLooper.lo), Before)
  BY <1>1 DEF StagesInOrder, Resumed, Coming, AllPrecede
<1> DEFINE t == mainLooper'
           m == Taken
<1> HIDE DEF t, m
<1>4. t = LooperTail(mainLooper) /\ m = LooperHead(mainLooper)
  BY <1>2 DEF t, m
<1>5. /\ InOrder(t.hi, Before) /\ InOrder(t.lo, Before)
      /\ Asked(t.hi) \subseteq Asked(mainLooper.hi) /\ Asked(t.lo) \subseteq Asked(mainLooper.lo)
      /\ GatedResponses(t.hi)
      /\ IsOpen(m) => /\ AllPrecede({m.req}, Asked(t.hi) \cup Asked(t.lo), Before)
                      /\ \/ m.req \in Asked(mainLooper.hi)
                         \/ m.req \in Asked(mainLooper.lo) /\ Asked(t.hi) = {}
      /\ \/ m \in Messages /\ IsResponse(m) => OwnerOf(m) \in GateResponses
         \/ Asked(t.hi) = {}
  <2> DEFINE S == Messages \cup SyncMessages
             l == mainLooper
             B == Before
  <2>1. /\ l \in LooperOf(S) /\ LooperBusy(l) /\ InOrder(l.hi, B) /\ InOrder(l.lo, B)
        /\ AllPrecede(Asked(l.hi), Asked(l.lo), B) /\ GatedResponses(l.hi)
        /\ t = LooperTail(l) /\ m = LooperHead(l)
    BY <1>1, <1>2, <1>3, <1>4
  <2> HIDE DEF S, l, B
  <2>2. /\ InOrder(t.hi, B) /\ InOrder(t.lo, B)
        /\ Asked(t.hi) \subseteq Asked(l.hi) /\ Asked(t.lo) \subseteq Asked(l.lo)
        /\ GatedResponses(t.hi)
        /\ IsOpen(m) => /\ AllPrecede({m.req}, Asked(t.hi) \cup Asked(t.lo), B)
                        /\ \/ m.req \in Asked(l.hi)
                           \/ m.req \in Asked(l.lo) /\ Asked(t.hi) = {}
        /\ \/ m \in Messages /\ IsResponse(m) => OwnerOf(m) \in GateResponses
           \/ Asked(t.hi) = {}
    BY <2>1, LooperTakeOrder
  <2> QED
    BY <2>2 DEF l, B
<1>6. ASSUME IsOpen(m)
      PROVE  /\ AllPrecede(ToSet(sent), {m.req}, Before)
             /\ AllPrecede({m.req}, Asked(dispatchRequestQueue), Before)
             /\ \A w \in Waiting : Owner[w] = Owner[m.req] /\ Owner[w] \in Closed
                                   => << w, m.req >> \in Before
  <2>1. CASE m.req \in Resumed
    BY <1>1, <2>1 DEF StagesInOrder, Coming, ResumedAndWaiting, AllPrecede
  <2>2. CASE m.req \in Asked(mainLooper.lo)
    BY <1>1, <2>2 DEF StagesInOrder, Coming, AllPrecede
  <2> QED
    BY <1>5, <1>6, <2>1, <2>2 DEF Resumed
<1>7. IsOpen(m) => AllPrecede({m.req}, Asked(t.hi) \cup Asked(t.lo)
                                       \cup Asked(dispatchRequestQueue), Before)
  BY <1>5, <1>6 DEF AllPrecede
<1> QED
  BY <1>5, <1>6, <1>7 DEF t, m, Resumed

(* The main thread takes a message that leaves the line for good: a request that
   is rejected, a response that is not held back, or a status sync. *)
LEMMA OrderTake ==
  ASSUME TypeOK, OrderInv, LooperBusy(mainLooper), mainLooper' = LooperTail(mainLooper),
         IssuedOnce', main'.pc # "send",
         UNCHANGED << issued, sent, dispatchRequestQueue, dispatchResponseQueue,
                      m_suspended_msg_list >>,
         ResumedAndWaiting'
  PROVE  OrderInv'
<1>1. /\ InOrder(mainLooper'.hi, Before) /\ InOrder(mainLooper'.lo, Before)
      /\ Asked(mainLooper'.hi) \subseteq Resumed
      /\ Asked(mainLooper'.lo) \subseteq Asked(mainLooper.lo)
      /\ GatedResponses(mainLooper'.hi)
  BY TakeOrder
<1>2. Before' = Before
  BY BeforeFixed
<1>3. /\ Resumed' \subseteq Resumed /\ Waiting' = Waiting /\ Sending' \subseteq Sending
      /\ Asked(mainLooper.lo)' \subseteq Asked(mainLooper.lo)
      /\ Asked(dispatchRequestQueue)' = Asked(dispatchRequestQueue)
  BY <1>1 DEF Resumed, Waiting, Sending
<1>4. StagesInOrder'
  BY <1>2, <1>3, StagesShrink DEF OrderInv
<1>5. ListsInOrder'
  BY <1>1, <1>2 DEF OrderInv, ListsInOrder
<1> QED
  BY <1>1, <1>4, <1>5 DEF OrderInv, GatedResponses

(* A message the root controller rejects, or a status sync it applies. *)
LEMMA OrderReject ==
  ASSUME TypeOK, RequestTracked, OrderInv,
         ReplyNotSupported \/ ReplyUnavailable \/ ApplyStatusSync
  PROVE  OrderInv'
<1>1. /\ LooperBusy(mainLooper) /\ mainLooper' = LooperTail(mainLooper)
      /\ main'.pc # "send"
      /\ UNCHANGED << issued, sent, dispatchRequestQueue, dispatchResponseQueue,
                      m_suspended_msg_list, blocked >>
  BY DEF ReplyNotSupported, ReplyUnavailable, ApplyStatusSync, Take, AfterMessage, queues, ctlVars
<1>2. IssuedOnce'
  <2>1. CASE ApplyStatusSync
    BY <1>1, <2>1 DEF ApplyStatusSync, OrderInv, IssuedOnce
  <2>2. CASE ReplyNotSupported \/ ReplyUnavailable
    <3>1. PICK m \in Messages : Take(m) /\ Move(m.req, "done")
      BY <2>2 DEF ReplyNotSupported, ReplyUnavailable
    <3>2. m.req \in Requests /\ place[m.req] = "main"
      BY <3>1, TakeTracked DEF RequestTracked
    <3> QED
      BY <1>1, <3>1, <3>2, IssuedMove DEF OrderInv
  <2> QED
    BY <2>1, <2>2
<1>3. ResumedAndWaiting'
  <2>1. Resumed' \subseteq Resumed /\ Waiting' = Waiting /\ Closed' = Closed /\ Before' = Before
    BY <1>1, TakeOrder, BeforeFixed DEF Resumed, Waiting, Closed
  <2> QED
    BY <2>1, GatesShrink DEF OrderInv
<1> QED
  BY <1>1, <1>2, <1>3, OrderTake

(* A closed gate sends a message to the end of the suspended list. *)
LEMMA OrderSuspend ==
  ASSUME TypeOK, RequestTracked, OrderInv, Suspend
  PROVE  OrderInv'
<1>1. PICK m \in Messages :
        /\ Take(m) /\ ~Admits(OwnerOf(m), m) /\ Move(m.req, "suspended") /\ AfterMessage
        /\ m_suspended_msg_list' = Append(m_suspended_msg_list, m)
        /\ UNCHANGED << issued, sent, dispatchRequestQueue, dispatchResponseQueue, blocked >>
  BY DEF Suspend, queues
<1>2. /\ IssuedOnce /\ ListsInOrder /\ StagesInOrder /\ ResumedAndWaiting
      /\ GatedResponses(m_suspended_msg_list) /\ Asked(dispatchResponseQueue) = {}
  BY DEF OrderInv
<1>3. LooperBusy(mainLooper) /\ mainLooper' = LooperTail(mainLooper) /\ m = Taken
  BY <1>1 DEF Take
<1>4. /\ InOrder(mainLooper'.hi, Before) /\ InOrder(mainLooper'.lo, Before)
      /\ Asked(mainLooper'.hi) \subseteq Resumed
      /\ Asked(mainLooper'.lo) \subseteq Asked(mainLooper.lo)
      /\ GatedResponses(mainLooper'.hi)
      /\ IsOpen(m) =>
           /\ AllPrecede(ToSet(sent), {m.req}, Before)
           /\ AllPrecede({m.req}, Asked(mainLooper'.hi) \cup Asked(mainLooper'.lo)
                                  \cup Asked(dispatchRequestQueue), Before)
           /\ \A w \in Waiting : Owner[w] = Owner[m.req] /\ Owner[w] \in Closed
                                 => << w, m.req >> \in Before
  BY <1>3, TakeOrder
<1>5. m.req \in Requests /\ place[m.req] = "main" /\ main.pc = "idle"
  BY <1>1, TakeTracked DEF RequestTracked
<1>6. IssuedOnce'
  BY <1>1, <1>2, <1>5, IssuedMove
<1>7. Owner[m.req] \in Closed /\ (IsResponse(m) => Owner[m.req] \in GateResponses)
  BY <1>1 DEF Admits, OwnerOf
<1>8. Before' = Before /\ Closed' = Closed /\ Sending' = {} /\ Sending = {}
  BY <1>1, <1>5, BeforeFixed DEF Closed, Sending, AfterMessage
<1>9. m_suspended_msg_list \in Seq(Messages) /\ Waiting \subseteq Requests
  <2>1. m_suspended_msg_list \in Seq(Messages)
    BY DEF TypeOK
  <2> QED
    BY <2>1 DEF Waiting, Asked, IsOpen, Messages
<1>10. IsOpen(m) => AllPrecede(Waiting, {m.req}, Before)
  <2> SUFFICES ASSUME IsOpen(m), NEW w \in Waiting PROVE << w, m.req >> \in Before
    BY DEF AllPrecede
  <2>1. CASE Owner[w] = Owner[m.req]
    BY <1>4, <1>7, <2>1
  <2>2. CASE Owner[w] # Owner[m.req]
    BY <1>5, <1>9, <2>2 DEF Before
  <2> QED
    BY <2>1, <2>2
<1>11. InOrder(m_suspended_msg_list', Before)
  BY <1>1, <1>2, <1>9, <1>10, AppendInOrder DEF ListsInOrder, Waiting
<1>12. /\ IsOpen(m) => Waiting' = Waiting \cup {m.req}
       /\ ~IsOpen(m) => Waiting' = Waiting
  BY <1>1, <1>9, AskedLists DEF Waiting
<1>13. GatedResponses(m_suspended_msg_list')
  <2>1. /\ DOMAIN m_suspended_msg_list' = 1 .. Len(m_suspended_msg_list) + 1
        /\ DOMAIN m_suspended_msg_list = 1 .. Len(m_suspended_msg_list)
        /\ Len(m_suspended_msg_list) \in Nat
        /\ \A i \in 1 .. Len(m_suspended_msg_list) :
             m_suspended_msg_list'[i] = m_suspended_msg_list[i]
        /\ m_suspended_msg_list'[Len(m_suspended_msg_list) + 1] = m
    BY <1>1, <1>9
  <2>2. \A i \in DOMAIN m_suspended_msg_list' :
          \/ i \in DOMAIN m_suspended_msg_list /\ m_suspended_msg_list'[i] = m_suspended_msg_list[i]
          \/ m_suspended_msg_list'[i] = m
    BY <2>1
  <2> QED
    BY <1>2, <1>7, <2>2 DEF GatedResponses, OwnerOf
<1>14. Resumed' = Asked(mainLooper'.hi)
       /\ Coming' = Asked(mainLooper'.lo) \cup Asked(dispatchRequestQueue)
  BY <1>1 DEF Resumed, Coming
<1>15. ResumedAndWaiting'
  BY <1>2, <1>4, <1>7, <1>8, <1>12, <1>14 DEF ResumedAndWaiting, AllPrecede
<1>16. StagesInOrder'
  <2>1. Coming' \subseteq Coming /\ Resumed' \subseteq Resumed
    BY <1>4, <1>14 DEF Coming
  <2>2. IsOpen(m) => AllPrecede({m.req}, Coming', Before)
    BY <1>4, <1>14 DEF AllPrecede
  <2> QED
    BY <1>1, <1>2, <1>4, <1>8, <1>12, <2>1, <2>2 DEF StagesInOrder, AllPrecede
<1>17. ListsInOrder'
  BY <1>1, <1>2, <1>4, <1>8, <1>11 DEF ListsInOrder
<1> QED
  BY <1>1, <1>2, <1>4, <1>6, <1>13, <1>15, <1>16, <1>17 DEF OrderInv, GatedResponses

(* Of an open controller no request is suspended between two messages. *)
LEMMA OpenNoneWaiting ==
  ASSUME WalkInv, main.pc = "idle"
  PROVE  \A w \in Waiting : Owner[w] \in Closed
<1> SUFFICES ASSUME NEW i \in DOMAIN m_suspended_msg_list, IsOpen(m_suspended_msg_list[i])
             PROVE  Owner[m_suspended_msg_list[i].req] \in Closed
  BY DEF Waiting, Asked
<1> QED
  BY DEF WalkInv, NoneLeftBehind, Admits, OwnerOf

(* A controller that acts moves its own gate only. *)
LEMMA OtherGates ==
  ASSUME TypeOK, NEW m \in Messages, ControllerActs(m)
  PROVE  \A c : c # OwnerOf(m) => (c \in Closed' <=> c \in Closed)
<1>1. blocked \in [Controllers -> BOOLEAN]
  BY DEF TypeOK
<1>2. blocked' = blocked \/ \E b : blocked' = [blocked EXCEPT ![OwnerOf(m)] = b]
  BY DEF ControllerActs
<1> QED
  BY <1>1, <1>2 DEF Closed

(* A controller forwards a request: none of its requests is suspended, so it
   precedes everything that is left. *)
LEMMA OrderForward ==
  ASSUME TypeOK, RequestTracked, WalkInv, OrderInv, Forward
  PROVE  OrderInv'
<1>1. PICK m \in Messages :
        /\ Take(m) /\ IsRequest(m) /\ Admits(OwnerOf(m), m) /\ ControllerActs(m)
        /\ Move(m.req, "sending")
        /\ main' = [pc |-> "send", req |-> m.req, steps |-> RequestToMclSteps]
        /\ UNCHANGED << issued, sent, dispatchRequestQueue, dispatchResponseQueue,
                        m_suspended_msg_list >>
  BY DEF Forward, queues
<1>2. /\ IssuedOnce /\ ListsInOrder /\ StagesInOrder /\ ResumedAndWaiting
      /\ GatedResponses(m_suspended_msg_list) /\ Asked(dispatchResponseQueue) = {}
  BY DEF OrderInv
<1>3. LooperBusy(mainLooper) /\ mainLooper' = LooperTail(mainLooper) /\ m = Taken /\ IsOpen(m)
  BY <1>1 DEF Take, IsOpen
<1>4. /\ InOrder(mainLooper'.hi, Before) /\ InOrder(mainLooper'.lo, Before)
      /\ Asked(mainLooper'.hi) \subseteq Resumed
      /\ Asked(mainLooper'.lo) \subseteq Asked(mainLooper.lo)
      /\ GatedResponses(mainLooper'.hi)
      /\ AllPrecede(ToSet(sent), {m.req}, Before)
      /\ AllPrecede({m.req}, Asked(mainLooper'.hi) \cup Asked(mainLooper'.lo)
                             \cup Asked(dispatchRequestQueue), Before)
  BY <1>3, TakeOrder
<1>5. m.req \in Requests /\ place[m.req] = "main" /\ main.pc = "idle"
  BY <1>1, TakeTracked DEF RequestTracked
<1>6. IssuedOnce'
  BY <1>1, <1>2, <1>5, IssuedMove
<1>7. \A w \in Waiting : Owner[w] # Owner[m.req]
  <2>1. OwnerOf(m) \notin Closed
    BY <1>1 DEF Admits, IsRequest, IsResponse
  <2> QED
    BY <1>5, <2>1, OpenNoneWaiting DEF OwnerOf
<1>8. Waiting \subseteq Requests
  <2>1. m_suspended_msg_list \in Seq(Messages)
    BY DEF TypeOK
  <2> QED
    BY <2>1 DEF Waiting, Asked, IsOpen, Messages
<1>9. AllPrecede({m.req}, Waiting, Before)
  BY <1>5, <1>7, <1>8 DEF AllPrecede, Before
<1>10. /\ Before' = Before /\ Waiting' = Waiting /\ Sending' = {m.req} /\ Sending = {}
       /\ Resumed' = Asked(mainLooper'.hi)
       /\ Coming' = Asked(mainLooper'.lo) \cup Asked(dispatchRequestQueue)
  BY <1>1, <1>5, BeforeFixed DEF Waiting, Sending, Resumed, Coming
<1>11. ResumedAndWaiting'
  BY <1>1, <1>2, <1>4, <1>7, <1>10, OtherGates DEF ResumedAndWaiting, OwnerOf
<1>12. StagesInOrder'
  <2>1. Coming' \subseteq Coming /\ Resumed' \subseteq Resumed
    BY <1>4, <1>10 DEF Coming
  <2>2. AllPrecede(Sending', Resumed' \cup Waiting' \cup Coming', Before)
    BY <1>4, <1>9, <1>10 DEF AllPrecede
  <2>3. AllPrecede(ToSet(sent), Sending' \cup Resumed' \cup Waiting' \cup Coming', Before)
    BY <1>2, <1>4, <1>10, <2>1 DEF StagesInOrder, AllPrecede
  <2>4. AllPrecede(Resumed' \cup Waiting', Coming', Before)
    BY <1>2, <1>10, <2>1 DEF StagesInOrder, AllPrecede
  <2>5. AllPrecede(Asked(mainLooper'.lo), Asked(dispatchRequestQueue'), Before)
    BY <1>1, <1>2, <1>4 DEF StagesInOrder, AllPrecede
  <2> QED
    BY <1>1, <1>10, <2>2, <2>3, <2>4, <2>5 DEF StagesInOrder
<1>13. ListsInOrder'
  BY <1>1, <1>2, <1>4, <1>10 DEF ListsInOrder
<1> QED
  BY <1>1, <1>2, <1>4, <1>6, <1>11, <1>12, <1>13 DEF OrderInv, GatedResponses

(* A controller handles a response.  If that opens its gate, none of its
   requests is still among the resumed: only a response not resumed itself
   passes a closed gate. *)
LEMMA OrderDeliver ==
  ASSUME TypeOK, RequestTracked, WalkInv, OrderInv, Deliver
  PROVE  OrderInv'
<1>1. PICK m \in Messages :
        /\ Take(m) /\ IsResponse(m) /\ Admits(OwnerOf(m), m) /\ ControllerActs(m)
        /\ Move(m.req, "done") /\ AfterMessage
        /\ UNCHANGED << issued, sent, dispatchRequestQueue, dispatchResponseQueue,
                        m_suspended_msg_list >>
  BY DEF Deliver, queues
<1>2. LooperBusy(mainLooper) /\ mainLooper' = LooperTail(mainLooper) /\ m = Taken
  BY <1>1 DEF Take
<1>3. m.req \in Requests /\ place[m.req] = "main" /\ main.pc = "idle"
  BY <1>1, TakeTracked DEF RequestTracked
<1>4. IssuedOnce'
  BY <1>1, <1>3, IssuedMove DEF OrderInv
<1>5. /\ Asked(mainLooper'.hi) \subseteq Resumed
      /\ OwnerOf(m) \in GateResponses \/ Asked(mainLooper'.hi) = {}
  BY <1>1, <1>2, TakeOrder
<1>6. /\ Before' = Before /\ Waiting' = Waiting /\ Resumed' = Asked(mainLooper'.hi)
  BY <1>1, BeforeFixed DEF Waiting, Resumed
<1>7. \A h \in Resumed', w \in Waiting : Owner[h] = Owner[w] => Owner[h] # OwnerOf(m)
  <2>1. CASE OwnerOf(m) \in Closed
    BY <1>1, <1>5, <1>6, <2>1 DEF Admits
  <2>2. CASE OwnerOf(m) \notin Closed
    BY <1>3, <2>2, OpenNoneWaiting
  <2> QED
    BY <2>1, <2>2
<1>8. ResumedAndWaiting'
  BY <1>1, <1>5, <1>6, <1>7, OtherGates DEF OrderInv, ResumedAndWaiting
<1>9. main'.pc # "send"
  BY <1>1 DEF AfterMessage
<1> QED
  BY <1>1, <1>2, <1>4, <1>8, <1>9, OrderTake

(* A timer or a URC moves a gate while no resumed message waits. *)
LEMMA OrderControllerEvent ==
  ASSUME TypeOK, OrderInv, NEW c \in Controllers, ControllerEvent(c)
  PROVE  OrderInv'
<1>1. /\ mainLooper.hi = << >> /\ main'.pc # "send"
      /\ UNCHANGED << issued, sent, place, mainLooper, dispatchRequestQueue,
                      dispatchResponseQueue, m_suspended_msg_list >>
  BY DEF ControllerEvent, AfterMessage, queues
<1>2. Before' = Before /\ Waiting' = Waiting /\ Resumed' = Resumed /\ Resumed = {}
  BY <1>1, BeforeFixed DEF Waiting, Resumed, Asked
<1>3. ResumedAndWaiting'
  BY <1>2 DEF ResumedAndWaiting
<1>4. Sending' \subseteq Sending
  BY <1>1 DEF Sending
<1>5. StagesInOrder'
  BY <1>1, <1>2, <1>4, StagesShrink DEF OrderInv
<1>6. ListsInOrder' /\ IssuedOnce'
  BY <1>1, <1>2 DEF OrderInv, ListsInOrder, IssuedOnce
<1> QED
  BY <1>1, <1>3, <1>5, <1>6 DEF OrderInv, GatedResponses

(* requestToMcl: the request that is being sent follows all that were sent. *)
LEMMA OrderRequestToMcl ==
  ASSUME TypeOK, RequestTracked, OrderInv, RequestToMcl
  PROVE  OrderInv'
<1>1. /\ UNCHANGED << dispatchRequestQueue, dispatchResponseQueue, mainLooper,
                      m_suspended_msg_list, blocked, issued >>
      /\ main.pc = "send" /\ main.req \in Requests
  BY DEF RequestToMcl, AddMessageToPendingQueue, EnqueueMclMessage, queues, ctlVars,
         TypeOK, MainStates
<1>2. /\ IssuedOnce /\ ListsInOrder /\ StagesInOrder /\ ResumedAndWaiting
      /\ Asked(dispatchResponseQueue) = {} /\ InOrder(mainLooper.lo, Before)
  BY DEF OrderInv, ListsInOrder
<1>3. /\ Before' = Before /\ Closed' = Closed /\ Resumed' = Resumed /\ Waiting' = Waiting
      /\ Coming' = Coming
  BY <1>1, BeforeFixed DEF Closed, Resumed, Waiting, Coming
<1>4. CASE AddMessageToPendingQueue
  <2>1. UNCHANGED << sent, place >>
    BY <1>4 DEF AddMessageToPendingQueue
  <2>2. Sending' \subseteq Sending
    <3>1. main'.pc = "send" => main'.req = main.req
      BY DEF RequestToMcl, AfterMessage
    <3> QED
      BY <1>1, <3>1 DEF Sending
  <2>3. IssuedOnce'
    BY <1>1, <1>2, <2>1 DEF IssuedOnce
  <2> QED
    BY <1>1, <1>2, <2>1, <2>2, <2>3, OrderKept
<1>5. CASE EnqueueMclMessage
  <2> DEFINE r == main.req
  <2>1. sent' = Append(sent, r) /\ Move(r, "mcl") /\ sent \in Seq(Requests)
    BY <1>5 DEF EnqueueMclMessage, TypeOK
  <2>2. place[r] = "sending" /\ Sending = {r} /\ r \in Requests
    BY <1>1 DEF RequestTracked, OneMessage, Sending
  <2>3. Sending' = {}
    <3>1. Head(main.steps) = "enqueueMclMessage"
      BY <1>5 DEF EnqueueMclMessage
    <3>2. main.steps \in {RequestToMclSteps, << "enqueueMclMessage" >>}
      BY <1>1 DEF RequestTracked, PendingExact
    <3>3. main.steps = << "enqueueMclMessage" >>
      BY <3>1, <3>2 DEF RequestToMclSteps
    <3>4. AfterMessage
      BY <3>3 DEF RequestToMcl
    <3> QED
      BY <3>4 DEF Sending, AfterMessage
  <2> HIDE DEF r
  <2>4. IssuedOnce'
    BY <1>1, <1>2, <2>1, <2>2, IssuedMove
  <2>5. ToSet(sent') = ToSet(sent) \cup {r}
    BY <2>1, <2>2, SentGrows
  <2>6. StagesInOrder'
    <3>1. /\ AllPrecede(ToSet(sent'), Resumed \cup Waiting \cup Coming, Before)
          /\ AllPrecede(Resumed \cup Waiting, Coming, Before)
      BY <1>2, <2>2, <2>5 DEF StagesInOrder, AllPrecede
    <3> QED
      BY <1>1, <1>2, <1>3, <2>3, <3>1 DEF StagesInOrder, AllPrecede
  <2>7. \A i, j \in DOMAIN sent' : i < j => << sent'[i], sent'[j] >> \in Before
    <3>1. /\ DOMAIN sent' = 1 .. Len(sent) + 1 /\ DOMAIN sent = 1 .. Len(sent)
          /\ Len(sent) \in Nat /\ \A i \in 1 .. Len(sent) : sent'[i] = sent[i]
          /\ sent'[Len(sent) + 1] = r
      BY <2>1, <2>2
    <3>2. \A i \in DOMAIN sent : << sent[i], r >> \in Before
      BY <1>2, <2>2 DEF StagesInOrder, AllPrecede, ToSet
    <3> QED
      BY <1>2, <3>1, <3>2 DEF ListsInOrder
  <2>8. ListsInOrder'
    BY <1>1, <1>2, <1>3, <2>7 DEF ListsInOrder
  <2>9. ResumedAndWaiting'
    BY <1>2, <1>3, GatesShrink
  <2> QED
    BY <1>1, <2>4, <2>6, <2>8, <2>9 DEF OrderInv, GatedResponses
<1> QED
  BY <1>4, <1>5 DEF RequestToMcl

(* A suspended message goes back to the main looper, behind those resumed with
   it.  Its controller is open, and so it was the first of its controller's that
   still waited. *)
LEMMA OrderResume ==
  ASSUME TypeOK, RequestTracked, WalkInv, OrderInv, ResumeMessage
  PROVE  OrderInv'
<1> DEFINE i == main.i
           s == m_suspended_msg_list
           m == s[i]
<1>1. /\ main.pc = "resume" /\ Admits(OwnerOf(m), m) /\ Move(m.req, "main")
      /\ mainLooper' = SendMessageFront(mainLooper, m) /\ s' = RemoveAt(s, i)
      /\ UNCHANGED << main, blocked, issued, sent, dispatchRequestQueue, dispatchResponseQueue >>
  BY DEF ResumeMessage, queues
<1>2. i \in 1 .. Len(s) /\ s \in Seq(Messages) /\ m \in Messages /\ i \in DOMAIN s
  <2>1. i \in 1 .. Len(s) /\ s \in Seq(Messages)
    BY <1>1 DEF ResumeMessage, TypeOK, MainStates
  <2> QED
    BY <2>1
<1>3. /\ IssuedOnce /\ ListsInOrder /\ StagesInOrder /\ ResumedAndWaiting
      /\ GatedResponses(mainLooper.hi) /\ GatedResponses(s)
      /\ Asked(dispatchResponseQueue) = {}
  BY DEF OrderInv
<1>4. m.req \in Requests /\ place[m.req] = "suspended"
  <2>1. Tracked(s, MsgKey, place, "suspended")
    BY DEF RequestTracked, OneMessage
  <2> QED
    BY <1>2, <2>1, Keys DEF Tracked, Messages
<1>5. /\ mainLooper'.hi = Append(mainLooper.hi, m) /\ mainLooper'.lo = mainLooper.lo
      /\ mainLooper.hi \in Seq(Messages \cup SyncMessages)
  BY <1>1 DEF SendMessageFront, TypeOK, LooperOf
<1>6. /\ Before' = Before /\ Closed' = Closed /\ Sending' = Sending /\ Coming' = Coming
  BY <1>1, <1>5, BeforeFixed DEF Closed, Sending, Coming
<1>7. IssuedOnce'
  BY <1>1, <1>3, <1>4, IssuedMove
<1>8. /\ InOrder(s', Before) /\ Asked(s') \subseteq Asked(s)
      /\ IsOpen(m) => m.req \in Asked(s)
      /\ \A w \in Asked(s') : \/ \E j \in 1 .. i - 1 : IsOpen(s[j]) /\ s[j].req = w
                              \/ IsOpen(m) => << m.req, w >> \in Before
  <2>1. InOrder(s, Before)
    BY <1>3 DEF ListsInOrder
  <2>2. /\ InOrder(RemoveAt(s, i), Before)
        /\ \A w \in Asked(RemoveAt(s, i)) :
             \/ \E j \in 1 .. i - 1 : IsOpen(s[j]) /\ s[j].req = w
             \/ IsOpen(s[i]) => << s[i].req, w >> \in Before
    BY <1>2, <2>1, RemoveAtInOrder
  <2>3. Asked(RemoveAt(s, i)) \subseteq Asked(s) /\ (IsOpen(s[i]) => s[i].req \in Asked(s))
    BY <1>2, AskedLists
  <2> QED
    BY <1>1, <2>2, <2>3
<1>9. GatedResponses(s')
  <2>1. /\ DOMAIN s' = 1 .. Len(s) - 1 /\ DOMAIN s = 1 .. Len(s) /\ Len(s) \in Nat
        /\ \A j \in 1 .. Len(s) - 1 : s'[j] = IF j < i THEN s[j] ELSE s[j + 1]
    BY <1>1, <1>2, RemoveAtType
  <2>2. \A j \in DOMAIN s' : \E k \in DOMAIN s : s'[j] = s[k]
    BY <2>1
  <2> QED
    BY <1>3, <2>2 DEF GatedResponses
<1>10. \A j \in 1 .. i - 1 : IsOpen(s[j]) => Owner[s[j].req] \in Closed
  <2>1. \A j \in 1 .. i - 1 : j \in DOMAIN s /\ j < i
    BY <1>2
  <2> QED
    BY <1>1, <2>1 DEF WalkInv, Admits, OwnerOf
<1>11. IsOpen(m) => Owner[m.req] \notin Closed
  BY <1>1 DEF IsOpen, Admits, OwnerOf, IsRequest, IsResponse
<1>12. IsResponse(m) => OwnerOf(m) \in GateResponses
  BY <1>2, <1>3 DEF GatedResponses
<1> HIDE DEF m, i
<1>13. Resumed \subseteq Requests /\ Asked(s) = Waiting /\ Asked(s') = Waiting'
  <2>1. Resumed \subseteq Requests
    BY DEF Resumed, Asked, IsOpen, Messages
  <2> QED
    BY <2>1 DEF Waiting
<1>14. IsOpen(m) => AllPrecede(Resumed, {m.req}, Before)
  <2> SUFFICES ASSUME IsOpen(m), NEW h \in Resumed PROVE << h, m.req >> \in Before
    BY DEF AllPrecede
  <2>1. CASE Owner[h] = Owner[m.req]
    BY <1>3, <1>8, <1>11, <1>13, <2>1 DEF ResumedAndWaiting
  <2>2. CASE Owner[h] # Owner[m.req]
    BY <1>4, <1>13, <2>2 DEF Before
  <2> QED
    BY <2>1, <2>2
<1>15. InOrder(mainLooper'.hi, Before)
  <2>1. InOrder(mainLooper.hi, Before) /\ m \in Messages \cup SyncMessages
    BY <1>2, <1>3 DEF ListsInOrder
  <2> QED
    BY <1>5, <1>14, <2>1, AppendInOrder DEF Resumed
<1>16. /\ IsOpen(m) => Resumed' = Resumed \cup {m.req}
       /\ ~IsOpen(m) => Resumed' = Resumed
  <2>1. m \in Messages \cup SyncMessages
    BY <1>2
  <2> QED
    BY <1>5, <2>1, AskedLists DEF Resumed
<1>17. GatedResponses(mainLooper'.hi)
  <2> DEFINE a == Append(mainLooper.hi, m)
  <2>1. /\ DOMAIN a = 1 .. Len(mainLooper.hi) + 1
        /\ DOMAIN mainLooper.hi = 1 .. Len(mainLooper.hi) /\ Len(mainLooper.hi) \in Nat
        /\ \A j \in 1 .. Len(mainLooper.hi) : a[j] = mainLooper.hi[j]
        /\ a[Len(mainLooper.hi) + 1] = m
    BY <1>5
  <2> HIDE DEF a
  <2>2. \A j \in DOMAIN a : (j \in DOMAIN mainLooper.hi /\ a[j] = mainLooper.hi[j]) \/ a[j] = m
    BY <2>1
  <2>3. GatedResponses(a)
    BY <1>3, <1>12, <2>2 DEF GatedResponses
  <2> QED
    BY <1>5, <2>3 DEF a
<1>18. Resumed' \cup Waiting' \subseteq Resumed \cup Waiting /\ Waiting' \subseteq Waiting
  BY <1>8, <1>13, <1>16
<1>19. ResumedAndWaiting'
  <2>1. CASE ~IsOpen(m)
    BY <1>3, <1>6, <1>16, <1>18, <2>1, GatesShrink
  <2>2. CASE IsOpen(m)
    <3> SUFFICES ASSUME NEW h \in Resumed', NEW w \in Waiting', Owner[h] = Owner[w]
                 PROVE  IF Owner[h] \in Closed THEN << w, h >> \in Before
                                               ELSE << h, w >> \in Before
      BY <1>6 DEF ResumedAndWaiting
    <3>1. CASE h \in Resumed
      BY <1>3, <1>18, <3>1 DEF ResumedAndWaiting
    <3>2. CASE h = m.req
      <4>1. Owner[w] \notin Closed
        BY <1>11, <2>2, <3>2
      <4>2. ~\E j \in 1 .. i - 1 : IsOpen(s[j]) /\ s[j].req = w
        BY <1>10, <4>1
      <4> QED
        BY <1>8, <1>13, <2>2, <3>2, <4>1, <4>2
    <3> QED
      BY <1>16, <2>2, <3>1, <3>2
  <2> QED
    BY <2>1, <2>2
<1>20. StagesInOrder'
  <2>1. ToSet(sent)' = ToSet(sent) /\ Asked(mainLooper'.lo) = Asked(mainLooper.lo)
    BY <1>1, <1>5
  <2>2. AllPrecede(ToSet(sent), Sending \cup Resumed' \cup Waiting' \cup Coming, Before)
    BY <1>3, <1>18 DEF StagesInOrder, AllPrecede
  <2>3. AllPrecede(Sending, Resumed' \cup Waiting' \cup Coming, Before)
    BY <1>3, <1>18 DEF StagesInOrder, AllPrecede
  <2>4. AllPrecede(Resumed' \cup Waiting', Coming, Before)
    BY <1>3, <1>18 DEF StagesInOrder, AllPrecede
  <2> QED
    BY <1>1, <1>3, <1>6, <2>1, <2>2, <2>3, <2>4 DEF StagesInOrder
<1>21. ListsInOrder'
  BY <1>1, <1>3, <1>5, <1>6, <1>8, <1>15 DEF ListsInOrder
<1> QED
  BY <1>1, <1>3, <1>7, <1>9, <1>17, <1>19, <1>20, <1>21 DEF OrderInv

(* An answer from the modem side is a response, which is not in line. *)
LEMMA OrderEnqueueResponse ==
  ASSUME TypeOK, RequestTracked, SerialInv, OrderInv,
         NEW r \in Requests, NEW m \in Messages, IsResponse(m), EnqueueResponse(r, m),
         UNCHANGED << issued, sent, main, mainLooper, dispatchRequestQueue,
                      m_suspended_msg_list, blocked >>
  PROVE  OrderInv'
<1>1. /\ IssuedOnce /\ ListsInOrder /\ Asked(dispatchResponseQueue) = {} /\ SentPlaces
      /\ dispatchResponseQueue \in Seq(Messages)
  BY DEF OrderInv, SerialInv, TypeOK
<1>2. Sending' = Sending /\ InOrder(mainLooper.lo, Before)
  BY <1>1 DEF Sending, ListsInOrder
<1>3. CASE pendingQueue[r] > 0
  <2>1. dispatchResponseQueue' = Append(dispatchResponseQueue, m) /\ Move(r, "response")
    BY <1>3 DEF EnqueueResponse
  <2>2. place[r] # "new"
    <3>1. place[r] \in {"mcl", "channel", "handler"} \/ Recorded(r)
      BY <1>3 DEF RequestTracked, PendingExact
    <3>2. Recorded(r) => place[r] = "sending"
      BY DEF RequestTracked, OneMessage, Recorded
    <3> QED
      BY <3>1, <3>2
  <2>3. IssuedOnce'
    BY <1>1, <2>1, <2>2, IssuedMove
  <2>4. Asked(dispatchResponseQueue') = {}
    <3>1. ~IsOpen(m)
      BY DEF IsOpen, IsRequest, IsResponse
    <3> QED
      BY <1>1, <2>1, <3>1, AskedLists
  <2> QED
    BY <1>2, <2>3, <2>4, OrderKept
<1>4. CASE ~(pendingQueue[r] > 0)
  <2>1. UNCHANGED << dispatchResponseQueue, place >>
    BY <1>4 DEF EnqueueResponse
  <2>2. IssuedOnce'
    BY <1>1, <2>1 DEF IssuedOnce
  <2> QED
    BY <1>1, <1>2, <2>1, <2>2, OrderKept
<1> QED
  BY <1>3, <1>4

(* On the modem side a request only moves on or is answered. *)
LEMMA OrderModemSide ==
  ASSUME TypeOK, RequestTracked, SerialInv, OrderInv,
         \/ MclDispatch
         \/ \E c \in Channels : ChannelDispatch(c)
         \/ \E r \in Requests : HandlerReply(r)
  PROVE  OrderInv'
<1>1. /\ UNCHANGED << issued, sent, main, mainLooper, dispatchRequestQueue,
                      m_suspended_msg_list, blocked >>
  BY DEF MclDispatch, ChannelDispatch, HandlerReply, queues, ctlVars
<1>2. ASSUME NEW r \in Requests, NEW p, p # "new", Move(r, p), place[r] # "new",
             UNCHANGED dispatchResponseQueue
      PROVE  OrderInv'
  <2>1. IssuedOnce'
    BY <1>1, <1>2, IssuedMove DEF OrderInv
  <2>2. Sending' = Sending
    BY <1>1 DEF Sending
  <2> QED
    BY <1>1, <1>2, <2>1, <2>2, OrderKept DEF OrderInv, ListsInOrder
<1>3. ASSUME NEW l \in LooperOf(Requests), LooperBusy(l), NEW p, LooperTracked(l, ReqKey, place, p)
      PROVE  LooperHead(l) \in Requests /\ place[LooperHead(l)] = p
  <2>1. /\ LooperHead(l) \in Requests /\ ReqKey \in [Requests -> Requests]
        /\ ReqKey[LooperHead(l)] = LooperHead(l) /\ place \in [Requests -> Places]
    BY <1>3, LooperTakeType, Keys DEF TypeOK
  <2>2. /\ place[ReqKey[LooperHead(l)]] = p
        /\ LooperTracked(LooperTail(l), ReqKey,
                         [place EXCEPT ![ReqKey[LooperHead(l)]] = "handler"], p)
    BY <1>3, <2>1, LooperTakeTracked
  <2> QED
    BY <2>1, <2>2
<1>4. CASE MclDispatch
  <2> DEFINE r == LooperHead(mclLooper)
  <2>1. /\ LooperBusy(mclLooper)
        /\ \/ Move(r, "channel") /\ UNCHANGED dispatchResponseQueue
           \/ EnqueueResponse(r, Msg("RESPONSE", r))
    BY <1>4 DEF MclDispatch
  <2>2. mclLooper \in LooperOf(Requests) /\ LooperTracked(mclLooper, ReqKey, place, "mcl")
    BY DEF RequestTracked, OneMessage, TypeOK
  <2>3. r \in Requests /\ place[r] = "mcl"
    BY <1>3, <2>1, <2>2
  <2> HIDE DEF r
  <2>4. Msg("RESPONSE", r) \in Messages /\ IsResponse(Msg("RESPONSE", r))
    BY <2>3, MessageTypes DEF Msg, IsResponse
  <2> QED
    BY <1>1, <1>2, <2>1, <2>3, <2>4, OrderEnqueueResponse
<1>5. ASSUME NEW c \in Channels, ChannelDispatch(c) PROVE OrderInv'
  <2> DEFINE r == LooperHead(chanLooper[c])
  <2>1. LooperBusy(chanLooper[c]) /\ Move(r, "handler") /\ UNCHANGED dispatchResponseQueue
    BY <1>5 DEF ChannelDispatch, queues
  <2>2. chanLooper[c] \in LooperOf(Requests) /\ LooperTracked(chanLooper[c], ReqKey, place, "channel")
    BY DEF RequestTracked, OneMessage, TypeOK
  <2>3. r \in Requests /\ place[r] = "channel"
    BY <1>3, <2>1, <2>2
  <2> HIDE DEF r
  <2> QED
    BY <1>2, <2>1, <2>3
<1>6. ASSUME NEW r \in Requests, HandlerReply(r) PROVE OrderInv'
  <2>1. EnqueueResponse(r, ResponseOf(r))
    BY <1>6 DEF HandlerReply
  <2>2. ResponseOf(r) \in Messages /\ IsResponse(ResponseOf(r))
    BY MessageTypes DEF ResponseOf, Msg, IsResponse
  <2> QED
    BY <1>1, <2>1, <2>2, OrderEnqueueResponse
<1> QED
  BY <1>4, <1>5, <1>6

(* Status syncs and the walk over the suspended list move no request. *)
LEMMA OrderOther ==
  ASSUME TypeOK, OrderInv,
         \/ \E on \in BOOLEAN : EnqueueStatusSync(on)
         \/ ProcessStatusSyncQueue \/ KeepSuspended \/ HandleMessageEnd
         \/ UNCHANGED vars
  PROVE  OrderInv'
<1>1. /\ UNCHANGED << issued, sent, place, dispatchRequestQueue, dispatchResponseQueue,
                      m_suspended_msg_list, blocked >>
      /\ main' = main \/ main'.pc # "send"
      /\ mainLooper' = mainLooper \/ ProcessStatusSyncQueue
  BY DEF EnqueueStatusSync, ProcessStatusSyncQueue, KeepSuspended, HandleMessageEnd, vars,
         queues, ctlVars
<1>2. /\ IssuedOnce' /\ InOrder(mainLooper.lo, Before) /\ Sending' \subseteq Sending
      /\ Asked(dispatchResponseQueue') = {}
  BY <1>1 DEF OrderInv, IssuedOnce, ListsInOrder, Sending
<1>3. CASE mainLooper' = mainLooper
  BY <1>1, <1>2, <1>3, OrderKept
<1>4. CASE ProcessStatusSyncQueue
  <2> DEFINE m == Head(dispatchStatusSyncQueue)
  <2>1. /\ mainLooper' = SendMessage(mainLooper, m) /\ m \in SyncMessages
        /\ mainLooper.lo \in Seq(Messages \cup SyncMessages)
    BY <1>4 DEF ProcessStatusSyncQueue, TypeOK, LooperOf
  <2> HIDE DEF m
  <2>2. ~IsOpen(m) /\ m \in Messages \cup SyncMessages
    BY <2>1, Keys DEF IsOpen
  <2>3. mainLooper'.hi = mainLooper.hi /\ mainLooper'.lo = Append(mainLooper.lo, m)
    BY <2>1 DEF SendMessage
  <2>4. InOrder(mainLooper'.lo, Before)
    BY <1>2, <2>1, <2>2, <2>3, AppendInOrder
  <2>5. Asked(mainLooper'.lo) = Asked(mainLooper.lo)
    BY <2>1, <2>2, <2>3, AskedLists
  <2> QED
    BY <1>1, <1>2, <2>3, <2>4, <2>5, OrderKept
<1> QED
  BY <1>1, <1>3, <1>4

(* Every step keeps the order invariant. *)
LEMMA OrderStep ==
  TypeOK /\ RequestTracked /\ SerialInv /\ WalkInv /\ OrderInv /\ [Next]_vars => OrderInv'
BY OrderEnqueueRequest, OrderDrain, OrderReject, OrderSuspend, OrderForward, OrderDeliver,
   OrderRequestToMcl, OrderResume, OrderControllerEvent, OrderModemSide, OrderOther
   DEF Next, Drainers, MainThread

-----------------------------------------------------------------------------
(* The theorems *)

(* The requests of one controller keep the order of their issue in every list
   and from list to list. *)
THEOREM OrderInvariant == Spec => []OrderInv
<1>1. Init => OrderInv
  <2> SUFFICES ASSUME Init PROVE OrderInv
    OBVIOUS
  <2>1. /\ dispatchRequestQueue = << >> /\ dispatchResponseQueue = << >>
        /\ m_suspended_msg_list = << >> /\ mainLooper.hi = << >> /\ mainLooper.lo = << >>
        /\ issued = << >> /\ sent = << >> /\ main.pc = "idle"
        /\ place = [r \in Requests |-> "new"]
    BY DEF Init, EmptyLooper
  <2>2. Asked(<< >>) = {} /\ \A B : InOrder(<< >>, B)
    BY DEF Asked, InOrder
  <2>3. ToSet(sent) = {} /\ ToSet(issued) = {} /\ Sending = {}
    BY <2>1 DEF ToSet, Sending
  <2>4. IssuedOnce
    BY <2>1, <2>3 DEF IssuedOnce
  <2>5. ListsInOrder
    BY <2>1, <2>2 DEF ListsInOrder
  <2>6. StagesInOrder /\ ResumedAndWaiting
    BY <2>1, <2>2, <2>3 DEF StagesInOrder, ResumedAndWaiting, AllPrecede, Resumed, Waiting, Coming
  <2> QED
    BY <2>1, <2>2, <2>4, <2>5, <2>6 DEF OrderInv, GatedResponses
<1> QED
  BY <1>1, OrderStep, TypeCorrect, OneMessagePerRequest, SerialInvariant, WalkInvariant, PTL
     DEF Spec

(* Suspension does not reorder: the requests one controller handles reach the
   modem side in the order they were issued. *)
THEOREM ControllerOrderCorrect == Spec => []ControllerOrder
<1>1. TypeOK /\ OrderInv => ControllerOrder
  <2> SUFFICES ASSUME TypeOK, OrderInv, NEW i \in DOMAIN sent, NEW j \in DOMAIN sent,
                      i < j, Owner[sent[i]] = Owner[sent[j]]
               PROVE  IssuedBefore(sent[i], sent[j])
    BY DEF ControllerOrder
  <2>1. << sent[i], sent[j] >> \in Before
    BY DEF OrderInv, ListsInOrder
  <2> QED
    BY <2>1 DEF Before
<1> QED
  BY <1>1, TypeCorrect, OrderInvariant, PTL

(* "the messages are recorded in the list in the sequence of they are enqueued
   into main looper": the suspended requests of one controller stay in the order
   of their issue. *)
THEOREM SuspendedInOrderCorrect == Spec => []SuspendedInOrder
<1>1. TypeOK /\ OrderInv => SuspendedInOrder
  <2> DEFINE s == m_suspended_msg_list
  <2> SUFFICES ASSUME TypeOK, OrderInv, NEW i \in DOMAIN s, NEW j \in DOMAIN s, i < j,
                      IsRequest(s[i]), IsRequest(s[j]), OwnerOf(s[i]) = OwnerOf(s[j])
               PROVE  IssuedBefore(s[i].req, s[j].req)
    BY DEF SuspendedInOrder
  <2>1. s \in Seq(Messages)
    BY DEF TypeOK
  <2>2. IsOpen(s[i]) /\ IsOpen(s[j])
    BY <2>1 DEF IsOpen
  <2>3. << s[i].req, s[j].req >> \in Before
    BY <2>2 DEF OrderInv, ListsInOrder, InOrder
  <2> QED
    BY <2>3 DEF Before, OwnerOf
<1> QED
  BY <1>1, TypeCorrect, OrderInvariant, PTL
=============================================================================
