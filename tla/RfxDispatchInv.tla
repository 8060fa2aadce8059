--------------------------- MODULE RfxDispatchInv ---------------------------
(***************************************************************************)
(* The inductive invariants of the request path.  RequestTracked, on which *)
(* the others build: a request is one message, the message is in one       *)
(* place, and the pending entry and the reply count follow from the place. *)
(* SerialInv and WalkInv: what the gates hold back.  OrderInv: in which    *)
(* order.  TLC checks RequestTracked as an invariant of a run and the      *)
(* refinement as a property; the Rfx...Proofs modules prove all of them.   *)
(***************************************************************************)
EXTENDS RfxDispatch

\* The request an entry of a queue stands for: messages, or bare requests
MsgKey == [m \in Messages |-> m.req]
ReqKey == [r \in Requests |-> r]

\* Every entry of q is of a request that is at p, and no two are of one
Tracked(q, key, pl, p) ==
  \A i \in DOMAIN q : q[i] \in DOMAIN key =>
    /\ pl[key[q[i]]] = p
    /\ \A j \in DOMAIN q : q[j] \in DOMAIN key /\ key[q[j]] = key[q[i]] => j = i

Apart(q1, q2, key) ==
  \A i \in DOMAIN q1, j \in DOMAIN q2 :
    q1[i] \in DOMAIN key /\ q2[j] \in DOMAIN key => key[q1[i]] # key[q2[j]]

LooperTracked(l, key, pl, p) ==
  /\ Tracked(l.hi, key, pl, p)
  /\ Tracked(l.lo, key, pl, p)
  /\ Apart(l.hi, l.lo, key)

OneMessage ==
  /\ Tracked(dispatchRequestQueue, MsgKey, place, "request")
  /\ Tracked(dispatchResponseQueue, MsgKey, place, "response")
  /\ LooperTracked(mainLooper, MsgKey, place, "main")
  /\ Tracked(m_suspended_msg_list, MsgKey, place, "suspended")
  /\ LooperTracked(mclLooper, ReqKey, place, "mcl")
  /\ \A c \in Channels : LooperTracked(chanLooper[c], ReqKey, place, "channel")
  /\ main.pc = "send" => place[main.req] = "sending"

\* A channel's looper only holds requests of that channel
OnItsChannel(l, c) ==
  /\ \A i \in DOMAIN l.hi : Channel[l.hi[i]] = c
  /\ \A i \in DOMAIN l.lo : Channel[l.lo[i]] = c

ChannelsApart == \A c \in Channels : OnItsChannel(chanLooper[c], c)

\* A request that a handler has had comes back as a response only
NotHandled(q, h) ==
  \A i \in DOMAIN q : q[i] \in Messages /\ IsRequest(q[i]) => q[i].req \notin h

HandledOnce ==
  /\ \A r \in handled : place[r] \in {"handler", "response", "main", "suspended", "done"}
  /\ NotHandled(mainLooper.hi, handled) /\ NotHandled(mainLooper.lo, handled)
  /\ NotHandled(m_suspended_msg_list, handled)
  /\ NotHandled(dispatchResponseQueue, handled)

\* A pending entry exists exactly while an answer is owed by the modem side
Recorded(r) == main.pc = "send" /\ main.req = r /\ main.steps = << "enqueueMclMessage" >>

PendingExact ==
  /\ main.pc = "send" =>
       main.steps \in {RequestToMclSteps, << "enqueueMclMessage" >>}
  /\ \A r \in Requests :
       pendingQueue[r] = IF place[r] \in {"mcl", "channel", "handler"} \/ Recorded(r)
                         THEN 1 ELSE 0
  /\ \A r \in handled : mdReplies[r] = 0 => place[r] = "handler"

RepliesCounted ==
  \A r \in Requests : toRilj[r] + toBT[r] <= IF place[r] = "done" THEN 1 ELSE 0

(* One request is one message from enqueueRequestMessage to the completion:
   no queue, looper or list ever holds two messages of it, the request part is
   not sent to a handler twice, and the pending entry, the replies of the
   handler and the completions all agree with where that message is. *)
RequestTracked ==
  /\ OneMessage
  /\ ChannelsApart
  /\ HandledOnce
  /\ PendingExact
  /\ RepliesCounted
-----------------------------------------------------------------------------
\* The request service as the daemon provides it: a request is open from
\* enqueueRequestMessage until its message is gone
ServiceStatus == [r \in Requests |-> IF place[r] = "new" THEN "new"
                                     ELSE IF place[r] = "done" THEN "closed" ELSE "open"]
ServiceAnswers == [r \in Requests |-> toRilj[r] + toBT[r]]

Service == INSTANCE RequestService
           WITH Losable <- Sap, status <- ServiceStatus, answers <- ServiceAnswers

(* The dispatch machinery is a request service: RFX_(SAP_)onRequestComplete is
   called in the very step that disposes of a request's only message, and only
   a SAP request (which responseToRilj may ignore) is ever closed in silence. *)
ImplementsService == Service!Spec
-----------------------------------------------------------------------------
(* The inductive invariant behind SerialOneOutstanding, on top of
   RequestTracked; RfxDispatchProofs proves it.                            *)

\* While a request has not been sent, its message is the request itself, or the
\* answer to an unsupported one; from then on its message is the response
Consistent ==
  SyncMessages \cup
  {m \in Messages : IF IsRequest(m) THEN m.req \notin ToSet(sent)
                                    ELSE m.req \in ToSet(sent) \cup Unsupported}

SentConsistent ==
  /\ dispatchRequestQueue \in Seq(Consistent)
  /\ dispatchResponseQueue \in Seq(Consistent)
  /\ mainLooper \in LooperOf(Consistent)
  /\ m_suspended_msg_list \in Seq(Consistent)

\* What the modem side holds was sent, and what was sent was issued
SentPlaces ==
  /\ \A r \in ToSet(sent) : place[r] # "new"
  /\ \A r \in Requests : place[r] \in {"mcl", "channel", "handler"} => r \in ToSet(sent)

OneOutstanding ==
  \A p, q \in Requests :
    Outstanding(p) /\ Outstanding(q) /\ Owner[p] = Owner[q] /\ Owner[p] \in Serial => p = q

ClosedMeanwhile ==
  \A r \in Requests : Outstanding(r) /\ Owner[r] \in Serial => blocked[Owner[r]]

(* A serial controller stays closed from the forwarding of its one outstanding
   request to the handling of the response, and only that response opens it. *)
SerialInv == SentConsistent /\ SentPlaces /\ OneOutstanding /\ ClosedMeanwhile
-----------------------------------------------------------------------------
(* While the main thread walks over the suspended list, every entry it has
   passed is held back by its gate; when it is done, every entry is. *)
WalkInv ==
  /\ NoneLeftBehind
  /\ main.pc = "resume" =>
       \A j \in DOMAIN m_suspended_msg_list :
         j < main.i => ~Admits(OwnerOf(m_suspended_msg_list[j]), m_suspended_msg_list[j])
-----------------------------------------------------------------------------
(* The inductive invariant behind ControllerOrder and SuspendedInOrder, on top
   of RequestTracked, SerialInv and WalkInv; RfxDispatchProofs proves it. *)

IsOpen(m) == m \in Messages /\ IsRequest(m)

\* The requests, not yet answered, whose message is in q
Asked(q) == {q[i].req : i \in {j \in DOMAIN q : IsOpen(q[j])}}

\* Pairs of requests that stand in the order of issue if they have one owner
Before == {b \in Requests \X Requests :
             Owner[b[1]] = Owner[b[2]] => IssuedBefore(b[1], b[2])}

AllPrecede(P, R, before) == \A p \in P, r \in R : << p, r >> \in before

\* The requests of each controller stand in q in the order of their issue
InOrder(q, before) ==
  \A i, j \in DOMAIN q :
    i < j /\ IsOpen(q[i]) /\ IsOpen(q[j]) => << q[i].req, q[j].req >> \in before

Sending == IF main.pc = "send" THEN {main.req} ELSE {}
Resumed == Asked(mainLooper.hi)
Waiting == Asked(m_suspended_msg_list)
Coming  == Asked(mainLooper.lo) \cup Asked(dispatchRequestQueue)

IssuedOnce ==
  /\ \A i, j \in DOMAIN issued : issued[i] = issued[j] => i = j
  /\ ToSet(issued) = {r \in Requests : place[r] # "new"}

ListsInOrder ==
  /\ InOrder(dispatchRequestQueue, Before)
  /\ InOrder(mainLooper.hi, Before) /\ InOrder(mainLooper.lo, Before)
  /\ InOrder(m_suspended_msg_list, Before)
  /\ \A i, j \in DOMAIN sent : i < j => << sent[i], sent[j] >> \in Before

\* From the modem side back to the clients, earlier requests come first
StagesInOrder ==
  /\ AllPrecede(ToSet(sent), Sending \cup Resumed \cup Waiting \cup Coming, Before)
  /\ AllPrecede(Sending, Resumed \cup Waiting \cup Coming, Before)
  /\ AllPrecede(Resumed \cup Waiting, Coming, Before)
  /\ AllPrecede(Asked(mainLooper.lo), Asked(dispatchRequestQueue), Before)

\* Of a closed controller the suspended requests are ahead of those resumed
\* before it closed; of an open one they follow those resumed already
ResumedAndWaiting ==
  \A h \in Resumed, w \in Waiting :
    Owner[h] = Owner[w] =>
      IF Owner[h] \in Closed THEN << w, h >> \in Before ELSE << h, w >> \in Before

\* Only a controller that holds back responses ever has one suspended
GatedResponses(q) ==
  \A i \in DOMAIN q : q[i] \in Messages /\ IsResponse(q[i]) => OwnerOf(q[i]) \in GateResponses

(* The requests of one controller keep their order in every list and from list
   to list, which needs to be known of the suspended and the resumed ones in
   either state of the gate. *)
OrderInv ==
  /\ IssuedOnce
  /\ ListsInOrder
  /\ StagesInOrder
  /\ ResumedAndWaiting
  /\ GatedResponses(mainLooper.hi) /\ GatedResponses(m_suspended_msg_list)
  /\ Asked(dispatchResponseQueue) = {}
=============================================================================
