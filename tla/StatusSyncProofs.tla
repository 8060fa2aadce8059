-------------------------- MODULE StatusSyncProofs --------------------------
(***************************************************************************)
(* Proofs about StatusSync: the two copies of a status key and the values  *)
(* its callbacks were given come to agree, for any keys, values, threads   *)
(* and requests.                                                           *)
(***************************************************************************)
EXTENDS StatusSync, FiniteSetTheorems, SequenceTheorems, TLAPS

SentRequests == [req : Requests, after : Nat]

\* The entry m is an update of the key k
OfKeyIs(m, k) == m \in Updates /\ m.key = k

\* The last update of k in q, if there is one, carries the value v
LastIs(q, k, v) ==
  \A i \in DOMAIN q :
    OfKeyIs(q[i], k) /\ (\A j \in DOMAIN q : j > i => ~OfKeyIs(q[j], k)) => q[i].value = v

\* A modem-side thread has stored an update of k and not sent it
Setting(k) == \E t \in Threads : OfKeyIs(setting[t], k)

PathsTyped ==
  /\ mclLooper \in LooperOf(Updates \cup SentRequests)
  /\ \A k \in Keys : ~OfKey(mclLooper.hi, k)

\* Updates of a key travel in one direction at a time, and from one thread at most
OneWay(k) ==
  /\ ~(GoingUp(k) /\ GoingDown(k))
  /\ \A s, t \in Threads : OfKeyIs(setting[s], k) /\ OfKeyIs(setting[t], k) => s = t

\* The last update on the way to TelCore carries the modem side's value
UpCarries(k) ==
  /\ \A t \in Threads : OfKeyIs(setting[t], k) => setting[t].value = mclValue[k]
  /\ ~Setting(k) => LastIs(dispatchStatusSyncQueue, k, mclValue[k])
  /\ ~Setting(k) /\ ~OfKey(dispatchStatusSyncQueue, k) => LastIs(mainLooper, k, mclValue[k])

\* The last update on the way to the modem side carries TelCore's value
DownCarries(k) == LastIs(mclLooper.lo, k, tcValue[k])

CopiesAgree(k) == ~GoingUp(k) /\ ~GoingDown(k) => tcValue[k] = mclValue[k]

KeyInv(k) == OneWay(k) /\ UpCarries(k) /\ DownCarries(k) /\ CopiesAgree(k)

(* Of a key nobody raced for, the last update under way carries the value its
   receiver will have to hold; when none is under way, the copies agree. *)
SyncInv == \A k \in Keys \ raced : KeyInv(k)

\* The last callback posted for a key will be given TelCore's value
CallbacksCarry ==
  /\ \A i \in DOMAIN asyncQueue : asyncQueue[i].key \in Watched
  /\ \A k \in Watched : /\ LastIs(asyncQueue, k, tcValue[k])
                        /\ ~OfKey(asyncQueue, k) => heard[k] = tcValue[k]

\* The updates in q behind the entry i
Behind(q, i) == {j \in DOMAIN q : j > i /\ q[j] \in Updates}

\* A request in q was sent after all of n updates but those behind it
CountsMatch(q, n) ==
  \A i \in DOMAIN q : q[i] \notin Updates => q[i].after + Cardinality(Behind(q, i)) = n

NoneOvertaken ==
  /\ \A i \in DOMAIN mclLooper.hi : mclLooper.hi[i] \in Updates \/ mclLooper.hi[i].req \in AtFront
  /\ CountsMatch(mclLooper.lo, down)
  /\ early \subseteq AtFront

IInv == TypeOK /\ PathsTyped /\ SyncInv /\ CallbacksCarry /\ NoneOvertaken
-----------------------------------------------------------------------------
(* Lists of updates *)

(* What append does to the updates of a key in a list, and to the last of them. *)
LEMMA AppendUpdate ==
  ASSUME NEW S, NEW q \in Seq(S), NEW m \in S, NEW k
  PROVE  /\ OfKey(Append(q, m), k) <=> OfKey(q, k) \/ OfKeyIs(m, k)
         /\ OfKeyIs(m, k) => LastIs(Append(q, m), k, m.value)
         /\ \A v : ~OfKeyIs(m, k) /\ LastIs(q, k, v) => LastIs(Append(q, m), k, v)
<1> DEFINE a == Append(q, m)
<1>1. /\ DOMAIN a = 1 .. Len(q) + 1 /\ DOMAIN q = 1 .. Len(q) /\ Len(q) \in Nat
      /\ \A i \in 1 .. Len(q) : a[i] = q[i]
      /\ a[Len(q) + 1] = m
  OBVIOUS
<1> HIDE DEF a
<1>2. /\ \A i \in DOMAIN q : i \in DOMAIN a /\ a[i] = q[i] /\ Len(q) + 1 > i
      /\ Len(q) + 1 \in DOMAIN a
      /\ \A i \in DOMAIN a : i \in DOMAIN q \/ i = Len(q) + 1
  BY <1>1
<1>3. OfKey(a, k) <=> OfKey(q, k) \/ OfKeyIs(m, k)
  BY <1>1, <1>2 DEF OfKey, OfKeyIs
<1>4. OfKeyIs(m, k) => LastIs(a, k, m.value)
  BY <1>1, <1>2 DEF LastIs
<1>5. ASSUME NEW v, ~OfKeyIs(m, k), LastIs(q, k, v) PROVE LastIs(a, k, v)
  BY <1>1, <1>2, <1>5 DEF LastIs
<1> QED
  BY <1>3, <1>4, <1>5 DEF a

(* What pop_front does: the head was the last of its key if none is left. *)
LEMMA TailUpdate ==
  ASSUME NEW S, NEW q \in Seq(S), q # << >>, NEW k
  PROVE  /\ Head(q) \in S /\ Tail(q) \in Seq(S)
         /\ OfKey(q, k) <=> OfKeyIs(Head(q), k) \/ OfKey(Tail(q), k)
         /\ \A v : LastIs(q, k, v) =>
              /\ LastIs(Tail(q), k, v)
              /\ OfKeyIs(Head(q), k) /\ ~OfKey(Tail(q), k) => Head(q).value = v
<1> DEFINE t == Tail(q)
<1>1. /\ DOMAIN q = 1 .. Len(q) /\ Len(q) \in Nat \ {0} /\ Head(q) = q[1] /\ t \in Seq(S)
      /\ DOMAIN t = 1 .. Len(q) - 1 /\ \A i \in 1 .. Len(q) - 1 : t[i] = q[i + 1]
      /\ Head(q) \in S
  OBVIOUS
<1> HIDE DEF t
<1>2. /\ 1 \in DOMAIN q
      /\ \A i \in DOMAIN t : i + 1 \in DOMAIN q /\ q[i + 1] = t[i]
      /\ \A i \in DOMAIN q : i = 1 \/ (i - 1 \in DOMAIN t /\ t[i - 1] = q[i])
      /\ \A i \in DOMAIN t, j \in DOMAIN q : j > i + 1 => j - 1 \in DOMAIN t /\ j - 1 > i
                                                          /\ t[j - 1] = q[j]
  <2>1. \A i \in DOMAIN q : i = 1 \/ (i - 1 \in 1 .. Len(q) - 1 /\ (i - 1) + 1 = i)
    BY <1>1
  <2>2. \A i \in DOMAIN t, j \in DOMAIN q :
          j > i + 1 => j - 1 \in 1 .. Len(q) - 1 /\ j - 1 > i /\ (j - 1) + 1 = j
    BY <1>1
  <2> QED
    BY <1>1, <2>1, <2>2
<1>3. OfKey(q, k) <=> OfKeyIs(Head(q), k) \/ OfKey(t, k)
  <2>1. OfKey(q, k) => OfKeyIs(Head(q), k) \/ OfKey(t, k)
    BY <1>1, <1>2 DEF OfKey, OfKeyIs
  <2>2. OfKeyIs(Head(q), k) => OfKey(q, k)
    BY <1>1, <1>2 DEF OfKey, OfKeyIs
  <2>3. OfKey(t, k) => OfKey(q, k)
    BY <1>2 DEF OfKey
  <2> QED
    BY <2>1, <2>2, <2>3
<1>4. ASSUME NEW v, LastIs(q, k, v) PROVE LastIs(t, k, v)
  <2> SUFFICES ASSUME NEW i \in DOMAIN t, OfKeyIs(t[i], k),
                      \A j \in DOMAIN t : j > i => ~OfKeyIs(t[j], k)
               PROVE  t[i].value = v
    BY DEF LastIs
  <2>1. i + 1 \in DOMAIN q /\ q[i + 1] = t[i]
    BY <1>2
  <2>2. \A j \in DOMAIN q : j > i + 1 => ~OfKeyIs(q[j], k)
    BY <1>2
  <2> QED
    BY <1>4, <2>1, <2>2 DEF LastIs
<1>5. ASSUME NEW v, LastIs(q, k, v), OfKeyIs(Head(q), k), ~OfKey(t, k)
      PROVE  Head(q).value = v
  <2>1. \A j \in DOMAIN q : j > 1 => ~OfKeyIs(q[j], k)
    <3> SUFFICES ASSUME NEW j \in DOMAIN q, j > 1, OfKeyIs(q[j], k) PROVE FALSE
      OBVIOUS
    <3>1. j - 1 \in DOMAIN t /\ t[j - 1] = q[j]
      BY <1>2
    <3> QED
      BY <1>5, <3>1 DEF OfKey, OfKeyIs
  <2> QED
    BY <1>1, <1>2, <1>5, <2>1 DEF LastIs
<1> QED
  BY <1>1, <1>3, <1>4, <1>5 DEF t

(* A list without updates of a key has no last one to speak of. *)
LEMMA NoneIsLast == ASSUME NEW q, NEW k, NEW v, ~OfKey(q, k) PROVE LastIs(q, k, v)
BY DEF LastIs, OfKey, OfKeyIs

(* A request on the way to the modem side is no update, and no thread sets "none". *)
LEMMA NotUpdates ==
  /\ \A r \in Requests, n \in Nat : [req |-> r, after |-> n] \notin Updates
  /\ SentRequests \cap Updates = {}
  /\ Idle \notin Updates
  /\ \A u \in Updates : u.key \in Keys /\ u.value \in Values
BY DEF SentRequests, Updates, Idle

(* What it means for a key that an update of it is on its way to TelCore. *)
LEMMA Directions ==
  ASSUME NEW k
  PROVE  /\ TypeOK =>
              (GoingUp(k) <=> Setting(k) \/ OfKey(dispatchStatusSyncQueue, k) \/ OfKey(mainLooper, k))
         /\ TypeOK' =>
              (GoingUp(k)' <=> \/ Setting(k)'
                               \/ OfKey(dispatchStatusSyncQueue', k) \/ OfKey(mainLooper', k))
BY NotUpdates DEF TypeOK, GoingUp, Setting, OfKeyIs
-----------------------------------------------------------------------------
(* Types *)

(* Storing a value and posting it to the callbacks keeps the types. *)
LEMMA SetTelCoreType ==
  ASSUME TypeOK, NEW u \in Updates, SetTelCore(u)
  PROVE  tcValue' \in [Keys -> Values] /\ asyncQueue' \in Seq(Updates)
<1>1. u.key \in Keys /\ u.value \in Values
  BY NotUpdates
<1>2. tcValue' \in [Keys -> Values]
  BY <1>1 DEF SetTelCore, TypeOK
<1>3. asyncQueue' = Append(asyncQueue, u) \/ asyncQueue' = asyncQueue
  BY DEF SetTelCore
<1>4. asyncQueue \in Seq(Updates)
  BY DEF TypeOK
<1>5. asyncQueue' \in Seq(Updates)
  BY <1>3, <1>4
<1> QED
  BY <1>2, <1>5

(* Sending on the Mcl looper keeps it typed, its front free of updates. *)
LEMMA SendTyped ==
  ASSUME TypeOK, PathsTyped, NEW m \in Updates \cup SentRequests,
         \/ mclLooper' = SendMessage(mclLooper, m)
         \/ m \in SentRequests /\ mclLooper' = SendMessageFront(mclLooper, m)
  PROVE  PathsTyped'
<1>1. /\ mclLooper.hi \in Seq(Updates \cup SentRequests)
      /\ mclLooper.lo \in Seq(Updates \cup SentRequests)
      /\ \A k \in Keys : ~OfKey(mclLooper.hi, k)
  BY DEF PathsTyped, LooperOf
<1>2. CASE mclLooper' = SendMessage(mclLooper, m)
  <2>1. Append(mclLooper.lo, m) \in Seq(Updates \cup SentRequests)
    BY <1>1
  <2> QED
    BY <1>1, <1>2, <2>1 DEF PathsTyped, LooperOf, SendMessage
<1>3. CASE m \in SentRequests /\ mclLooper' = SendMessageFront(mclLooper, m)
  <2>1. Append(mclLooper.hi, m) \in Seq(Updates \cup SentRequests)
    BY <1>1
  <2>2. \A k \in Keys : ~OfKeyIs(m, k)
    BY <1>3, NotUpdates DEF OfKeyIs
  <2>3. \A k \in Keys : ~OfKey(Append(mclLooper.hi, m), k)
    BY <1>1, <2>2, AppendUpdate
  <2> QED
    BY <1>1, <1>3, <2>1, <2>3 DEF PathsTyped, LooperOf, SendMessageFront
<1> QED
  BY <1>2, <1>3

(* The Mcl dispatcher takes the head of either list. *)
LEMMA TakeTyped ==
  ASSUME PathsTyped, LooperBusy(mclLooper), mclLooper' = LooperTail(mclLooper)
  PROVE  /\ PathsTyped' /\ LooperHead(mclLooper) \in Updates \cup SentRequests
         /\ \/ /\ mclLooper'.lo = mclLooper.lo
               /\ \A k \in Keys : ~OfKeyIs(LooperHead(mclLooper), k)
            \/ /\ mclLooper.lo # << >> /\ mclLooper'.lo = Tail(mclLooper.lo)
               /\ LooperHead(mclLooper) = Head(mclLooper.lo)
<1> DEFINE S == Updates \cup SentRequests
<1>1. /\ mclLooper.hi \in Seq(S) /\ mclLooper.lo \in Seq(S)
      /\ \A k \in Keys : ~OfKey(mclLooper.hi, k)
  BY DEF PathsTyped, LooperOf
<1> HIDE DEF S
<1>2. CASE mclLooper.hi # << >>
  <2>1. mclLooper' = [hi |-> Tail(mclLooper.hi), lo |-> mclLooper.lo]
        /\ LooperHead(mclLooper) = Head(mclLooper.hi)
    BY <1>2 DEF LooperTail, LooperHead
  <2>2. /\ Head(mclLooper.hi) \in S /\ Tail(mclLooper.hi) \in Seq(S)
        /\ \A k \in Keys : ~OfKeyIs(Head(mclLooper.hi), k) /\ ~OfKey(Tail(mclLooper.hi), k)
    BY <1>1, <1>2, TailUpdate
  <2> QED
    BY <1>1, <2>1, <2>2 DEF PathsTyped, LooperOf, S
<1>3. CASE mclLooper.hi = << >>
  <2>1. /\ mclLooper' = [hi |-> mclLooper.hi, lo |-> Tail(mclLooper.lo)]
        /\ LooperHead(mclLooper) = Head(mclLooper.lo) /\ mclLooper.lo # << >>
    BY <1>3 DEF LooperTail, LooperHead, LooperBusy
  <2>2. Head(mclLooper.lo) \in S /\ Tail(mclLooper.lo) \in Seq(S)
    BY <1>1, <2>1, TailUpdate
  <2> QED
    BY <1>1, <2>1, <2>2 DEF PathsTyped, LooperOf, S
<1> QED
  BY <1>2, <1>3

(* Every step keeps the types. *)
LEMMA TypeStep == TypeOK /\ PathsTyped /\ [Next]_vars => TypeOK' /\ PathsTyped'
<1> SUFFICES ASSUME TypeOK, PathsTyped, [Next]_vars PROVE TypeOK' /\ PathsTyped'
  OBVIOUS
<1> USE DEF tcVars, upVars
<1>1. ASSUME NEW u \in Updates, TelCoreSetValue(u) PROVE TypeOK' /\ PathsTyped'
  <2>1. tcValue' \in [Keys -> Values] /\ asyncQueue' \in Seq(Updates)
    BY <1>1, SetTelCoreType DEF TelCoreSetValue
  <2>2. PathsTyped'
    BY <1>1, SendTyped DEF TelCoreSetValue
  <2>3. u.key \in Keys
    BY NotUpdates
  <2> QED
    BY <1>1, <2>1, <2>2, <2>3 DEF TelCoreSetValue, TypeOK
<1>2. ASSUME NEW u \in Updates, NEW t \in Threads, MclSetValue(t, u) PROVE TypeOK' /\ PathsTyped'
  <2>1. u.key \in Keys /\ u.value \in Values
    BY NotUpdates
  <2>2. mclValue' \in [Keys -> Values] /\ raced' \subseteq Keys
    BY <1>2, <2>1 DEF MclSetValue, TypeOK
  <2>3. setting' \in [Threads -> Updates \cup {Idle}]
    BY <1>2 DEF MclSetValue, TypeOK
  <2>4. PathsTyped'
    BY <1>2 DEF MclSetValue, PathsTyped
  <2> QED
    BY <1>2, <2>2, <2>3, <2>4 DEF MclSetValue, TypeOK
<1>3. ASSUME NEW r \in Requests, ForwardRequest(r) PROVE TypeOK' /\ PathsTyped'
  <2>1. Sent(r) \in SentRequests
    BY DEF Sent, SentRequests, TypeOK
  <2>2. PathsTyped'
    BY <1>3, <2>1, SendTyped DEF ForwardRequest
  <2> QED
    BY <1>3, <2>2 DEF ForwardRequest, TypeOK
<1>4. ASSUME ApplySync PROVE TypeOK' /\ PathsTyped'
  <2>1. Head(mainLooper) \in Updates /\ Tail(mainLooper) \in Seq(Updates)
    BY <1>4, TailUpdate DEF ApplySync, TypeOK
  <2>2. tcValue' \in [Keys -> Values] /\ asyncQueue' \in Seq(Updates)
    BY <1>4, <2>1, SetTelCoreType DEF ApplySync
  <2> QED
    BY <1>4, <2>1, <2>2 DEF ApplySync, TypeOK, PathsTyped
<1>5. ASSUME ProcessEmit PROVE TypeOK' /\ PathsTyped'
  <2>1. Head(asyncQueue) \in Updates /\ Tail(asyncQueue) \in Seq(Updates)
    BY <1>5, TailUpdate DEF ProcessEmit, TypeOK
  <2>2. Head(asyncQueue).value \in Values
    BY <2>1, NotUpdates
  <2>3. heard' \in [Watched -> Values]
    BY <1>5, <2>2 DEF ProcessEmit, TypeOK
  <2> QED
    BY <1>5, <2>1, <2>3 DEF ProcessEmit, TypeOK, PathsTyped
<1>6. ASSUME NEW t \in Threads, UpdateValueToTelCore(t) PROVE TypeOK' /\ PathsTyped'
  <2>1. setting[t] \in Updates
    BY <1>6 DEF UpdateValueToTelCore, TypeOK
  <2>2. dispatchStatusSyncQueue' \in Seq(Updates)
    BY <1>6, <2>1 DEF UpdateValueToTelCore, TypeOK
  <2>3. setting' \in [Threads -> Updates \cup {Idle}]
    BY <1>6 DEF UpdateValueToTelCore, TypeOK
  <2> QED
    BY <1>6, <2>2, <2>3 DEF UpdateValueToTelCore, TypeOK, PathsTyped
<1>7. ASSUME ProcessStatusSyncQueue PROVE TypeOK' /\ PathsTyped'
  <2>1. /\ Head(dispatchStatusSyncQueue) \in Updates
        /\ Tail(dispatchStatusSyncQueue) \in Seq(Updates)
    BY <1>7, TailUpdate DEF ProcessStatusSyncQueue, TypeOK
  <2>2. mainLooper' \in Seq(Updates)
    BY <1>7, <2>1 DEF ProcessStatusSyncQueue, TypeOK
  <2> QED
    BY <1>7, <2>1, <2>2 DEF ProcessStatusSyncQueue, TypeOK, PathsTyped
<1>8. ASSUME MclDispatch PROVE TypeOK' /\ PathsTyped'
  <2> DEFINE m == LooperHead(mclLooper)
  <2>1. PathsTyped' /\ m \in Updates \cup SentRequests
    BY <1>8, TakeTyped DEF MclDispatch
  <2>2. m \in Updates => m.key \in Keys /\ m.value \in Values
    BY NotUpdates
  <2>3. m \notin Updates => m.req \in Requests
    BY <2>1 DEF SentRequests
  <2> HIDE DEF m
  <2>4. mclValue' \in [Keys -> Values] /\ early' \subseteq Requests
    BY <1>8, <2>2, <2>3 DEF MclDispatch, TypeOK, m
  <2> QED
    BY <1>8, <2>1, <2>4 DEF MclDispatch, TypeOK
<1>9. ASSUME UNCHANGED vars PROVE TypeOK' /\ PathsTyped'
  BY <1>9 DEF vars, TypeOK, PathsTyped
<1> QED
  BY <1>1, <1>2, <1>3, <1>4, <1>5, <1>6, <1>7, <1>8, <1>9 DEF Next
-----------------------------------------------------------------------------
(* The copies *)

(* A step that concerns another key. *)
LEMMA KeyKept ==
  ASSUME TypeOK, TypeOK', NEW k, KeyInv(k),
         \A t \in Threads : /\ OfKeyIs(setting'[t], k) <=> OfKeyIs(setting[t], k)
                            /\ OfKeyIs(setting[t], k) => setting'[t] = setting[t],
         tcValue'[k] = tcValue[k], mclValue'[k] = mclValue[k],
         OfKey(dispatchStatusSyncQueue', k) <=> OfKey(dispatchStatusSyncQueue, k),
         OfKey(mainLooper', k) <=> OfKey(mainLooper, k),
         OfKey(mclLooper'.lo, k) <=> OfKey(mclLooper.lo, k),
         \A v : /\ LastIs(dispatchStatusSyncQueue, k, v) => LastIs(dispatchStatusSyncQueue', k, v)
                /\ LastIs(mainLooper, k, v) => LastIs(mainLooper', k, v)
                /\ LastIs(mclLooper.lo, k, v) => LastIs(mclLooper'.lo, k, v)
  PROVE  KeyInv(k)'
<1>1. OneWay(k) /\ UpCarries(k) /\ DownCarries(k) /\ CopiesAgree(k)
  BY DEF KeyInv
<1>2. (Setting(k)' <=> Setting(k)) /\ (GoingDown(k)' <=> GoingDown(k))
  BY DEF Setting, GoingDown
<1>3. GoingUp(k)' <=> GoingUp(k)
  BY <1>2, Directions
<1>4. OneWay(k)'
  BY <1>1, <1>2, <1>3 DEF OneWay
<1>5. UpCarries(k)'
  BY <1>1, <1>2 DEF UpCarries
<1>6. DownCarries(k)' /\ CopiesAgree(k)'
  BY <1>1, <1>2, <1>3 DEF DownCarries, CopiesAgree
<1> QED
  BY <1>4, <1>5, <1>6 DEF KeyInv

(* A controller sets a key no update of which is on its way up. *)
LEMMA KeyTelCoreSetValue ==
  ASSUME TypeOK, TypeOK', PathsTyped, NEW u \in Updates, TelCoreSetValue(u),
         NEW k \in Keys, k \notin raced', KeyInv(k)
  PROVE  KeyInv(k)'
<1>1. /\ mclLooper' = SendMessage(mclLooper, u)
      /\ UNCHANGED << mclValue, setting, dispatchStatusSyncQueue, mainLooper >>
      /\ u.key = k => ~GoingUp(k)
      /\ tcValue' = [tcValue EXCEPT ![u.key] = u.value]
  BY DEF TelCoreSetValue, SetTelCore, upVars
<1>2. /\ mclLooper'.lo = Append(mclLooper.lo, u)
      /\ mclLooper.lo \in Seq(Updates \cup SentRequests)
  BY <1>1 DEF SendMessage, PathsTyped, LooperOf
<1>3. tcValue'[k] = IF u.key = k THEN u.value ELSE tcValue[k]
  BY <1>1 DEF TypeOK
<1>4. CASE u.key = k
  <2>1. OfKey(mclLooper'.lo, k) /\ LastIs(mclLooper'.lo, k, u.value)
    BY <1>2, <1>4, AppendUpdate DEF OfKeyIs
  <2>2. ~GoingUp(k)'
    BY <1>1, <1>4, Directions DEF Setting
  <2>3. OneWay(k)' /\ UpCarries(k)'
    BY <1>1, <2>2 DEF KeyInv, OneWay, UpCarries, Setting
  <2>4. DownCarries(k)' /\ CopiesAgree(k)'
    BY <1>3, <1>4, <2>1 DEF DownCarries, CopiesAgree, GoingDown
  <2> QED
    BY <2>3, <2>4 DEF KeyInv
<1>5. CASE u.key # k
  <2>1. ~OfKeyIs(u, k)
    BY <1>5 DEF OfKeyIs
  <2>2. /\ OfKey(mclLooper'.lo, k) <=> OfKey(mclLooper.lo, k)
        /\ \A v : LastIs(mclLooper.lo, k, v) => LastIs(mclLooper'.lo, k, v)
    BY <1>2, <2>1, AppendUpdate
  <2> QED
    BY <1>1, <1>3, <1>5, <2>2, KeyKept
<1> QED
  BY <1>4, <1>5

(* TelCore stores an update from the modem side.  If it was the last one on its
   way, it carried the value of the other copy. *)
LEMMA KeyApplySync ==
  ASSUME TypeOK, TypeOK', ApplySync, NEW k \in Keys, KeyInv(k)
  PROVE  KeyInv(k)'
<1> DEFINE u == Head(mainLooper)
<1>1. /\ mainLooper # << >> /\ mainLooper' = Tail(mainLooper)
      /\ UNCHANGED << mclValue, setting, dispatchStatusSyncQueue, mclLooper >>
      /\ tcValue' = [tcValue EXCEPT ![u.key] = u.value]
  BY DEF ApplySync, SetTelCore
<1>2. /\ u \in Updates
      /\ OfKey(mainLooper, k) <=> OfKeyIs(u, k) \/ OfKey(mainLooper', k)
      /\ \A v : LastIs(mainLooper, k, v) =>
           /\ LastIs(mainLooper', k, v)
           /\ OfKeyIs(u, k) /\ ~OfKey(mainLooper', k) => u.value = v
  BY <1>1, TailUpdate DEF TypeOK
<1> HIDE DEF u
<1>3. tcValue'[k] = IF u.key = k THEN u.value ELSE tcValue[k]
  BY <1>1 DEF TypeOK
<1>4. (OfKeyIs(u, k) <=> u.key = k) /\ (Setting(k)' <=> Setting(k))
  BY <1>1, <1>2 DEF OfKeyIs, Setting
<1>5. CASE u.key = k
  <2>1. ~GoingDown(k) /\ ~GoingDown(k)'
    BY <1>1, <1>2, <1>4, <1>5, Directions DEF KeyInv, OneWay, GoingDown
  <2>2. OneWay(k)'
    BY <1>1, <2>1 DEF KeyInv, OneWay
  <2>3. UpCarries(k)'
    BY <1>1, <1>2, <1>4 DEF KeyInv, UpCarries
  <2>4. DownCarries(k)'
    BY <2>1, NoneIsLast DEF DownCarries, GoingDown
  <2>5. ~GoingUp(k)' => u.value = mclValue[k]
    BY <1>1, <1>2, <1>4, <1>5, Directions DEF KeyInv, UpCarries
  <2>6. CopiesAgree(k)'
    BY <1>1, <1>3, <1>5, <2>5 DEF CopiesAgree
  <2> QED
    BY <2>2, <2>3, <2>4, <2>6 DEF KeyInv
<1>6. CASE u.key # k
  BY <1>1, <1>2, <1>3, <1>4, <1>6, KeyKept
<1> QED
  BY <1>5, <1>6

(* A modem-side thread sets a key no update of which is on its way down, and no
   other thread is about to send. *)
LEMMA KeyMclSetValue ==
  ASSUME TypeOK, TypeOK', NEW u \in Updates, NEW t \in Threads, MclSetValue(t, u),
         NEW k \in Keys, k \notin raced', KeyInv(k)
  PROVE  KeyInv(k)'
<1>1. /\ mclValue' = [mclValue EXCEPT ![u.key] = u.value]
      /\ setting[t] = Idle /\ setting' = [setting EXCEPT ![t] = u]
      /\ UNCHANGED << tcValue, dispatchStatusSyncQueue, mainLooper, mclLooper >>
  BY DEF MclSetValue, tcVars, upVars
<1>2. mclValue'[k] = IF u.key = k THEN u.value ELSE mclValue[k]
  BY <1>1 DEF TypeOK
<1>3. \A s \in Threads : setting'[s] = IF s = t THEN u ELSE setting[s]
  BY <1>1 DEF TypeOK
<1>4. OfKeyIs(u, k) <=> u.key = k
  BY DEF OfKeyIs
<1>5. ~OfKeyIs(setting[t], k)
  BY <1>1, NotUpdates DEF OfKeyIs
<1>6. CASE u.key = k
  <2>1. ~GoingDown(k) /\ \A s \in Threads : setting[s] # Idle => setting[s].key # k
    BY <1>6 DEF MclSetValue
  <2>2. \A s \in Threads : ~OfKeyIs(setting[s], k)
    BY <2>1, NotUpdates DEF OfKeyIs
  <2>3. Setting(k)' /\ GoingUp(k)' /\ ~GoingDown(k)'
    BY <1>1, <1>3, <1>4, <1>6, <2>1, Directions DEF Setting, GoingDown
  <2>4. OneWay(k)'
    BY <1>3, <2>2, <2>3 DEF OneWay
  <2>5. UpCarries(k)'
    BY <1>2, <1>3, <1>6, <2>2, <2>3 DEF UpCarries
  <2>6. DownCarries(k)' /\ CopiesAgree(k)'
    BY <2>3, NoneIsLast DEF DownCarries, CopiesAgree, GoingDown
  <2> QED
    BY <2>4, <2>5, <2>6 DEF KeyInv
<1>7. CASE u.key # k
  BY <1>1, <1>2, <1>3, <1>4, <1>5, <1>7, KeyKept
<1> QED
  BY <1>6, <1>7

(* The thread that stored a value sends it. *)
LEMMA KeyUpdateValueToTelCore ==
  ASSUME TypeOK, TypeOK', NEW t \in Threads, UpdateValueToTelCore(t),
         NEW k \in Keys, KeyInv(k)
  PROVE  KeyInv(k)'
<1> DEFINE u == setting[t]
<1>1. /\ u \in Updates /\ dispatchStatusSyncQueue' = Append(dispatchStatusSyncQueue, u)
      /\ setting' = [setting EXCEPT ![t] = Idle]
      /\ UNCHANGED << tcValue, mclValue, mainLooper, mclLooper >>
  BY DEF UpdateValueToTelCore, tcVars, TypeOK
<1>2. \A s \in Threads : setting'[s] = IF s = t THEN Idle ELSE setting[s]
  BY <1>1 DEF TypeOK
<1>3. ~OfKeyIs(Idle, k) /\ (OfKeyIs(u, k) <=> u.key = k)
  BY <1>1, NotUpdates DEF OfKeyIs
<1>4. /\ OfKey(dispatchStatusSyncQueue', k) <=> OfKey(dispatchStatusSyncQueue, k) \/ OfKeyIs(u, k)
      /\ OfKeyIs(u, k) => LastIs(dispatchStatusSyncQueue', k, u.value)
      /\ \A v : ~OfKeyIs(u, k) /\ LastIs(dispatchStatusSyncQueue, k, v)
                => LastIs(dispatchStatusSyncQueue', k, v)
  BY <1>1, AppendUpdate DEF TypeOK
<1>5. CASE u.key = k
  <2>1. Setting(k) /\ GoingUp(k) /\ u.value = mclValue[k]
    BY <1>1, <1>3, <1>5, Directions DEF Setting, KeyInv, UpCarries
  <2>2. \A s \in Threads : OfKeyIs(setting[s], k) => s = t
    BY <1>3, <1>5 DEF KeyInv, OneWay
  <2>3. ~Setting(k)' /\ \A s \in Threads : ~OfKeyIs(setting'[s], k)
    BY <1>2, <1>3, <2>2 DEF Setting
  <2>4. GoingUp(k)' /\ ~GoingDown(k)'
    BY <1>1, <1>3, <1>4, <1>5, <2>1, Directions DEF KeyInv, OneWay, GoingDown
  <2>5. OneWay(k)' /\ CopiesAgree(k)'
    BY <2>3, <2>4 DEF OneWay, CopiesAgree
  <2>6. UpCarries(k)'
    BY <1>1, <1>3, <1>4, <1>5, <2>1, <2>3 DEF UpCarries
  <2>7. DownCarries(k)'
    BY <1>1 DEF KeyInv, DownCarries
  <2> QED
    BY <2>5, <2>6, <2>7 DEF KeyInv
<1>6. CASE u.key # k
  <2> HIDE DEF u
  <2>1. \A s \in Threads : /\ OfKeyIs(setting'[s], k) <=> OfKeyIs(setting[s], k)
                           /\ OfKeyIs(setting[s], k) => setting'[s] = setting[s]
    BY <1>2, <1>3, <1>6 DEF u
  <2> QED
    BY <1>1, <1>3, <1>4, <1>6, <2>1, KeyKept
<1> QED
  BY <1>5, <1>6

(* A drainer hands an update to the main looper. *)
LEMMA KeyProcessStatusSyncQueue ==
  ASSUME TypeOK, TypeOK', ProcessStatusSyncQueue, NEW k \in Keys, KeyInv(k)
  PROVE  KeyInv(k)'
<1> DEFINE u == Head(dispatchStatusSyncQueue)
<1>1. /\ dispatchStatusSyncQueue # << >> /\ dispatchStatusSyncQueue' = Tail(dispatchStatusSyncQueue)
      /\ mainLooper' = Append(mainLooper, u)
      /\ UNCHANGED << tcValue, mclValue, setting, mclLooper >>
  BY DEF ProcessStatusSyncQueue, tcVars
<1>2. /\ u \in Updates
      /\ OfKey(dispatchStatusSyncQueue, k) <=> OfKeyIs(u, k) \/ OfKey(dispatchStatusSyncQueue', k)
      /\ \A v : LastIs(dispatchStatusSyncQueue, k, v) =>
           /\ LastIs(dispatchStatusSyncQueue', k, v)
           /\ OfKeyIs(u, k) /\ ~OfKey(dispatchStatusSyncQueue', k) => u.value = v
  BY <1>1, TailUpdate DEF TypeOK
<1> HIDE DEF u
<1>3. /\ OfKey(mainLooper', k) <=> OfKey(mainLooper, k) \/ OfKeyIs(u, k)
      /\ OfKeyIs(u, k) => LastIs(mainLooper', k, u.value)
      /\ \A v : ~OfKeyIs(u, k) /\ LastIs(mainLooper, k, v) => LastIs(mainLooper', k, v)
  BY <1>1, <1>2, AppendUpdate DEF TypeOK
<1>4. CASE OfKeyIs(u, k)
  <2>1. /\ Setting(k)' <=> Setting(k)
        /\ GoingUp(k)' /\ GoingUp(k) /\ (GoingDown(k)' <=> GoingDown(k))
    BY <1>1, <1>2, <1>3, <1>4, Directions DEF Setting, GoingDown
  <2>2. OneWay(k)' /\ DownCarries(k)' /\ CopiesAgree(k)'
    BY <1>1, <2>1 DEF KeyInv, OneWay, DownCarries, CopiesAgree
  <2>3. UpCarries(k)'
    BY <1>1, <1>2, <1>3, <1>4, <2>1 DEF KeyInv, UpCarries
  <2> QED
    BY <2>2, <2>3 DEF KeyInv
<1>5. CASE ~OfKeyIs(u, k)
  BY <1>1, <1>2, <1>3, <1>5, KeyKept
<1> QED
  BY <1>4, <1>5

(* The modem side stores an update from TelCore, or passes a request on. *)
LEMMA KeyMclDispatch ==
  ASSUME TypeOK, TypeOK', PathsTyped, MclDispatch, NEW k \in Keys, KeyInv(k)
  PROVE  KeyInv(k)'
<1> DEFINE m == LooperHead(mclLooper)
<1>1. /\ UNCHANGED << tcValue, setting, dispatchStatusSyncQueue, mainLooper >>
      /\ mclValue' = IF m \in Updates THEN [mclValue EXCEPT ![m.key] = m.value] ELSE mclValue
  BY DEF MclDispatch, tcVars, upVars
<1>2. /\ m \in Updates \cup SentRequests
      /\ \/ mclLooper'.lo = mclLooper.lo /\ ~OfKeyIs(m, k)
         \/ /\ mclLooper.lo # << >> /\ mclLooper'.lo = Tail(mclLooper.lo)
            /\ m = Head(mclLooper.lo)
  BY TakeTyped DEF MclDispatch
<1> HIDE DEF m
<1>3. mclValue'[k] = IF OfKeyIs(m, k) THEN m.value ELSE mclValue[k]
  BY <1>1 DEF TypeOK, OfKeyIs
<1>4. /\ OfKey(mclLooper.lo, k) <=> OfKeyIs(m, k) \/ OfKey(mclLooper'.lo, k)
      /\ \A v : LastIs(mclLooper.lo, k, v) =>
           /\ LastIs(mclLooper'.lo, k, v)
           /\ OfKeyIs(m, k) /\ ~OfKey(mclLooper'.lo, k) => m.value = v
  <2>1. mclLooper.lo \in Seq(Updates \cup SentRequests)
    BY DEF PathsTyped, LooperOf
  <2>2. CASE mclLooper.lo # << >> /\ mclLooper'.lo = Tail(mclLooper.lo) /\ m = Head(mclLooper.lo)
    BY <2>1, <2>2, TailUpdate
  <2> QED
    BY <1>2, <2>2
<1>5. CASE OfKeyIs(m, k)
  <2>1. GoingDown(k) /\ ~GoingUp(k)
    BY <1>4, <1>5 DEF GoingDown, KeyInv, OneWay
  <2>2. ~GoingUp(k)' /\ ~Setting(k) /\ ~Setting(k)'
        /\ ~OfKey(dispatchStatusSyncQueue, k) /\ ~OfKey(mainLooper, k)
    BY <1>1, <2>1, Directions DEF Setting
  <2>3. OneWay(k)'
    BY <1>1, <2>2 DEF KeyInv, OneWay
  <2>4. UpCarries(k)'
    BY <1>1, <2>2, NoneIsLast DEF UpCarries, Setting
  <2>5. DownCarries(k)'
    BY <1>1, <1>4 DEF KeyInv, DownCarries
  <2>6. CopiesAgree(k)'
    BY <1>1, <1>3, <1>4, <1>5 DEF KeyInv, DownCarries, CopiesAgree, GoingDown
  <2> QED
    BY <2>3, <2>4, <2>5, <2>6 DEF KeyInv
<1>6. CASE ~OfKeyIs(m, k)
  BY <1>1, <1>3, <1>4, <1>6, KeyKept
<1> QED
  BY <1>5, <1>6

(* A request on the Mcl looper and a callback concern no copy. *)
LEMMA KeyOther ==
  ASSUME TypeOK, TypeOK', PathsTyped, NEW k \in Keys, KeyInv(k),
         (\E r \in Requests : ForwardRequest(r)) \/ ProcessEmit \/ UNCHANGED vars
  PROVE  KeyInv(k)'
<1>1. UNCHANGED << tcValue, mclValue, setting, dispatchStatusSyncQueue, mainLooper >>
  BY DEF ForwardRequest, ProcessEmit, vars, tcVars, upVars
<1>2. /\ OfKey(mclLooper'.lo, k) <=> OfKey(mclLooper.lo, k)
      /\ \A v : LastIs(mclLooper.lo, k, v) => LastIs(mclLooper'.lo, k, v)
  <2>1. CASE mclLooper'.lo = mclLooper.lo
    BY <2>1
  <2>2. ASSUME NEW r \in Requests, mclLooper'.lo = Append(mclLooper.lo, Sent(r))
        PROVE  /\ OfKey(mclLooper'.lo, k) <=> OfKey(mclLooper.lo, k)
               /\ \A v : LastIs(mclLooper.lo, k, v) => LastIs(mclLooper'.lo, k, v)
    <3>1. mclLooper.lo \in Seq(Updates \cup SentRequests)
      BY DEF PathsTyped, LooperOf
    <3>2. Sent(r) \in SentRequests /\ ~OfKeyIs(Sent(r), k)
      BY NotUpdates DEF Sent, SentRequests, TypeOK, OfKeyIs
    <3> QED
      BY <2>2, <3>1, <3>2, AppendUpdate
  <2> QED
    BY <2>1, <2>2 DEF ForwardRequest, ProcessEmit, vars, SendMessage, SendMessageFront
<1> QED
  BY <1>1, <1>2, KeyKept

(* Every step keeps what the paths carry. *)
LEMMA SyncStep == TypeOK /\ TypeOK' /\ PathsTyped /\ SyncInv /\ [Next]_vars => SyncInv'
<1> SUFFICES ASSUME TypeOK, TypeOK', PathsTyped, SyncInv, [Next]_vars,
                    NEW k \in Keys, k \notin raced'
             PROVE  KeyInv(k)'
  BY DEF SyncInv
<1>1. k \notin raced
  BY DEF Next, TelCoreSetValue, MclSetValue, ForwardRequest, ApplySync, ProcessEmit,
         UpdateValueToTelCore, ProcessStatusSyncQueue, MclDispatch, vars
<1>2. KeyInv(k)
  BY <1>1 DEF SyncInv
<1> QED
  BY <1>2, KeyTelCoreSetValue, KeyMclSetValue, KeyApplySync, KeyUpdateValueToTelCore,
     KeyProcessStatusSyncQueue, KeyMclDispatch, KeyOther
     DEF Next
-----------------------------------------------------------------------------
(* The callbacks *)

(* A value is stored and posted, unless it is the current one already. *)
LEMMA CallbacksPosted ==
  ASSUME TypeOK, CallbacksCarry, NEW u \in Updates, SetTelCore(u), UNCHANGED heard
  PROVE  CallbacksCarry'
<1>1. /\ u.key \in Keys
      /\ \A k \in Keys : tcValue'[k] = IF u.key = k THEN u.value ELSE tcValue[k]
  BY NotUpdates DEF SetTelCore, TypeOK
<1>2. Watched \subseteq Keys /\ asyncQueue \in Seq(Updates)
  BY StatusAssumption DEF TypeOK
<1>3. CASE asyncQueue' = Append(asyncQueue, u) /\ u.key \in Watched
  <2>1. \A i \in DOMAIN asyncQueue' : asyncQueue'[i].key \in Watched
    <3>1. /\ DOMAIN asyncQueue' = 1 .. Len(asyncQueue) + 1
          /\ DOMAIN asyncQueue = 1 .. Len(asyncQueue) /\ Len(asyncQueue) \in Nat
          /\ \A i \in 1 .. Len(asyncQueue) : asyncQueue'[i] = asyncQueue[i]
          /\ asyncQueue'[Len(asyncQueue) + 1] = u
      BY <1>2, <1>3
    <3>2. \A i \in DOMAIN asyncQueue' :
            (i \in DOMAIN asyncQueue /\ asyncQueue'[i] = asyncQueue[i]) \/ asyncQueue'[i] = u
      BY <3>1
    <3> QED
      BY <1>3, <3>2 DEF CallbacksCarry
  <2>2. ASSUME NEW k \in Watched
        PROVE  /\ LastIs(asyncQueue', k, tcValue'[k])
               /\ ~OfKey(asyncQueue', k) => heard'[k] = tcValue'[k]
    <3>1. OfKeyIs(u, k) <=> u.key = k
      BY DEF OfKeyIs
    <3>2. /\ OfKey(asyncQueue', k) <=> OfKey(asyncQueue, k) \/ OfKeyIs(u, k)
          /\ OfKeyIs(u, k) => LastIs(asyncQueue', k, u.value)
          /\ \A v : ~OfKeyIs(u, k) /\ LastIs(asyncQueue, k, v) => LastIs(asyncQueue', k, v)
      BY <1>2, <1>3, AppendUpdate
    <3> QED
      BY <1>1, <1>2, <2>2, <3>1, <3>2 DEF CallbacksCarry
  <2> QED
    BY <2>1, <2>2 DEF CallbacksCarry
<1>4. CASE asyncQueue' = asyncQueue /\ (u.key \notin Watched \/ tcValue[u.key] = u.value)
  <2>1. \A k \in Watched : tcValue'[k] = tcValue[k]
    BY <1>1, <1>2, <1>4
  <2> QED
    BY <1>4, <2>1 DEF CallbacksCarry
<1> QED
  BY <1>3, <1>4 DEF SetTelCore

(* Every step keeps what the posted callbacks carry. *)
LEMMA CallbacksStep == TypeOK /\ CallbacksCarry /\ [Next]_vars => CallbacksCarry'
<1> SUFFICES ASSUME TypeOK, CallbacksCarry, [Next]_vars PROVE CallbacksCarry'
  OBVIOUS
<1>1. ASSUME NEW u \in Updates, TelCoreSetValue(u) PROVE CallbacksCarry'
  BY <1>1, CallbacksPosted DEF TelCoreSetValue
<1>2. ASSUME ApplySync PROVE CallbacksCarry'
  <2>1. Head(mainLooper) \in Updates
    BY <1>2, TailUpdate DEF ApplySync, TypeOK
  <2> QED
    BY <1>2, <2>1, CallbacksPosted DEF ApplySync
<1>3. ASSUME ProcessEmit PROVE CallbacksCarry'
  <2> DEFINE u == Head(asyncQueue)
  <2>1. /\ asyncQueue # << >> /\ asyncQueue' = Tail(asyncQueue) /\ asyncQueue \in Seq(Updates)
        /\ heard' = [heard EXCEPT ![u.key] = u.value] /\ UNCHANGED tcValue
    BY <1>3 DEF ProcessEmit, TypeOK
  <2>2. u \in Updates
    BY <2>1, TailUpdate
  <2>3. \A i \in DOMAIN asyncQueue' : i + 1 \in DOMAIN asyncQueue /\ asyncQueue'[i] = asyncQueue[i + 1]
    BY <2>1
  <2> HIDE DEF u
  <2>4. \A k \in Watched : heard'[k] = IF u.key = k THEN u.value ELSE heard[k]
    BY <2>1 DEF TypeOK
  <2>5. ASSUME NEW k \in Watched
        PROVE  /\ LastIs(asyncQueue', k, tcValue'[k])
               /\ ~OfKey(asyncQueue', k) => heard'[k] = tcValue'[k]
    <3>1. /\ OfKey(asyncQueue, k) <=> OfKeyIs(u, k) \/ OfKey(asyncQueue', k)
          /\ \A v : LastIs(asyncQueue, k, v) =>
               /\ LastIs(asyncQueue', k, v)
               /\ OfKeyIs(u, k) /\ ~OfKey(asyncQueue', k) => u.value = v
      BY <2>1, TailUpdate DEF u
    <3>2. OfKeyIs(u, k) <=> u.key = k
      BY <2>2 DEF OfKeyIs
    <3> QED
      BY <2>1, <2>4, <3>1, <3>2 DEF CallbacksCarry
  <2>6. \A i \in DOMAIN asyncQueue' : asyncQueue'[i].key \in Watched
    BY <2>3 DEF CallbacksCarry
  <2> QED
    BY <2>5, <2>6 DEF CallbacksCarry
<1>4. ASSUME UNCHANGED << tcValue, asyncQueue, heard >> PROVE CallbacksCarry'
  BY <1>4 DEF CallbacksCarry
<1> QED
  BY <1>1, <1>2, <1>3, <1>4
     DEF Next, MclSetValue, ForwardRequest, UpdateValueToTelCore, ProcessStatusSyncQueue,
         MclDispatch, vars, tcVars
-----------------------------------------------------------------------------
(* The requests between the updates *)

(* The updates behind an entry are finitely many, and all of them if it is a
   request at the head. *)
LEMMA BehindFinite ==
  ASSUME NEW S, NEW q \in Seq(S), NEW i \in Nat
  PROVE  /\ IsFiniteSet(Behind(q, i)) /\ Cardinality(Behind(q, i)) \in Nat
         /\ Behind(q, i) \subseteq 1 .. Len(q)
<1>1. Behind(q, i) \subseteq 1 .. Len(q) /\ Len(q) \in Nat
  BY DEF Behind
<1>2. IsFiniteSet(1 .. Len(q))
  BY <1>1, FS_Interval
<1> QED
  BY <1>1, <1>2, FS_Subset, FS_CardinalityType

(* An update sent behind the requests of a list is one more behind each; a
   request that is sent has all updates sent so far before it. *)
LEMMA CountsAppend ==
  ASSUME NEW q \in Seq(Updates \cup SentRequests), NEW n \in Nat, CountsMatch(q, n)
  PROVE  /\ \A m \in Updates : CountsMatch(Append(q, m), n + 1)
         /\ \A m \in SentRequests : m.after = n => CountsMatch(Append(q, m), n)
<1>1. Len(q) \in Nat /\ DOMAIN q = 1 .. Len(q)
  OBVIOUS
<1>2. ASSUME NEW m \in Updates \cup SentRequests
      PROVE  /\ DOMAIN Append(q, m) = 1 .. Len(q) + 1
             /\ \A i \in 1 .. Len(q) : Append(q, m)[i] = q[i]
             /\ Append(q, m)[Len(q) + 1] = m
  BY <1>1
<1>3. ASSUME NEW m \in Updates
      PROVE  CountsMatch(Append(q, m), n + 1)
  <2> DEFINE a == Append(q, m)
  <2>1. /\ DOMAIN a = 1 .. Len(q) + 1 /\ \A i \in 1 .. Len(q) : a[i] = q[i]
        /\ a[Len(q) + 1] = m
    BY <1>2
  <2> HIDE DEF a
  <2>2. SUFFICES ASSUME NEW i \in DOMAIN a, a[i] \notin Updates
                 PROVE  a[i].after + Cardinality(Behind(a, i)) = n + 1
    BY DEF a, CountsMatch
  <2>3. i \in 1 .. Len(q) /\ a[i] = q[i]
    BY <1>1, <2>1, <2>2
  <2>4. Behind(a, i) = Behind(q, i) \cup {Len(q) + 1}
    BY <1>1, <2>1, <2>3 DEF Behind
  <2>5. IsFiniteSet(Behind(q, i)) /\ Cardinality(Behind(q, i)) \in Nat /\ Len(q) + 1 \notin Behind(q, i)
    BY <1>1, <2>3, BehindFinite
  <2>6. Cardinality(Behind(a, i)) = Cardinality(Behind(q, i)) + 1
    BY <2>4, <2>5, FS_AddElement
  <2>7. q[i] \in SentRequests /\ q[i].after \in Nat
    BY <2>2, <2>3, ElementOfSeq DEF SentRequests
  <2>8. q[i].after + Cardinality(Behind(q, i)) = n
    BY <1>1, <2>2, <2>3 DEF CountsMatch
  <2>9. \A x, y \in Nat : x + y = n => x + (y + 1) = n + 1
    OBVIOUS
  <2> QED
    BY <2>3, <2>5, <2>6, <2>7, <2>8, <2>9
<1>4. ASSUME NEW m \in SentRequests, m.after = n
      PROVE  CountsMatch(Append(q, m), n)
  <2> DEFINE a == Append(q, m)
  <2>1. /\ DOMAIN a = 1 .. Len(q) + 1 /\ \A i \in 1 .. Len(q) : a[i] = q[i]
        /\ a[Len(q) + 1] = m
    BY <1>2
  <2> HIDE DEF a
  <2>2. SUFFICES ASSUME NEW i \in DOMAIN a, a[i] \notin Updates
                 PROVE  a[i].after + Cardinality(Behind(a, i)) = n
    BY DEF a, CountsMatch
  <2>3. CASE i \in 1 .. Len(q)
    <3>1. m \notin Updates
      BY NotUpdates
    <3>2. Behind(a, i) = Behind(q, i)
      BY <1>1, <2>1, <2>3, <3>1 DEF Behind
    <3> QED
      BY <1>1, <2>1, <2>2, <2>3, <3>2 DEF CountsMatch
  <2>4. CASE i = Len(q) + 1
    <3>1. Behind(a, i) = {}
      BY <1>1, <2>1, <2>4 DEF Behind
    <3>2. Cardinality(Behind(a, i)) = 0
      BY <3>1, FS_EmptySet
    <3>3. a[i].after = n
      BY <1>4, <2>1, <2>4
    <3> QED
      BY <3>2, <3>3
  <2> QED
    BY <1>1, <2>1, <2>3, <2>4
<1> QED
  BY <1>3, <1>4

(* Taking the head moves the updates behind an entry with it. *)
LEMMA CountsTail ==
  ASSUME NEW q \in Seq(Updates \cup SentRequests), q # << >>, NEW n \in Nat, CountsMatch(q, n)
  PROVE  CountsMatch(Tail(q), n)
<1> DEFINE t == Tail(q)
<1>1. /\ DOMAIN q = 1 .. Len(q) /\ Len(q) \in Nat \ {0} /\ t \in Seq(Updates \cup SentRequests)
      /\ DOMAIN t = 1 .. Len(q) - 1 /\ \A i \in 1 .. Len(q) - 1 : t[i] = q[i + 1]
  OBVIOUS
<1> HIDE DEF t
<1>2. SUFFICES ASSUME NEW i \in DOMAIN t, t[i] \notin Updates
               PROVE  t[i].after + Cardinality(Behind(t, i)) = n
  BY DEF t, CountsMatch
<1>3. i \in Nat /\ i + 1 \in DOMAIN q /\ q[i + 1] = t[i]
  BY <1>1
<1>4. Cardinality(Behind(q, i + 1)) = Cardinality(Behind(t, i))
  <2> DEFINE f == [j \in Behind(t, i) |-> j + 1]
  <2>1. \A j \in Behind(t, i) : j \in Nat /\ f[j] = j + 1 /\ j + 1 \in Behind(q, i + 1)
    BY <1>1, <1>3 DEF Behind
  <2>2. \A k \in Behind(q, i + 1) : k - 1 \in Behind(t, i) /\ (k - 1) + 1 = k
    <3>1. SUFFICES ASSUME NEW k \in Behind(q, i + 1)
                   PROVE  k - 1 \in Behind(t, i) /\ (k - 1) + 1 = k
      OBVIOUS
    <3>2. k \in 1 .. Len(q) /\ k > i + 1 /\ q[k] \in Updates
      BY <1>1 DEF Behind
    <3>3. k - 1 \in 1 .. Len(q) - 1 /\ k - 1 > i /\ (k - 1) + 1 = k
      BY <1>1, <1>3, <3>2
    <3>4. t[k - 1] = q[k]
      BY <1>1, <3>3
    <3> QED
      BY <1>1, <3>2, <3>3, <3>4 DEF Behind
  <2>3. f \in [Behind(t, i) -> Behind(q, i + 1)]
    BY <2>1
  <2>4. \A a, b \in Behind(t, i) : f[a] = f[b] => a = b
    BY <2>1
  <2>5. \A k \in Behind(q, i + 1) : \E j \in Behind(t, i) : f[j] = k
    BY <2>1, <2>2
  <2>6. f \in Bijection(Behind(t, i), Behind(q, i + 1))
    BY <2>3, <2>4, <2>5 DEF Bijection, Injection, Surjection, IsInjective
  <2>7. ExistsBijection(Behind(t, i), Behind(q, i + 1))
    BY <2>6 DEF ExistsBijection
  <2>8. IsFiniteSet(Behind(t, i))
    BY <1>1, <1>3, BehindFinite
  <2> QED
    BY <2>7, <2>8, FS_Bijection
<1> QED
  BY <1>2, <1>3, <1>4 DEF CountsMatch

(* No step takes a request of the normal part of the looper before an update
   that was sent ahead of it. *)
LEMMA OvertakenStep == TypeOK /\ PathsTyped /\ NoneOvertaken /\ [Next]_vars => NoneOvertaken'
<1> SUFFICES ASSUME TypeOK, PathsTyped, NoneOvertaken, [Next]_vars PROVE NoneOvertaken'
  OBVIOUS
<1>0. /\ mclLooper.hi \in Seq(Updates \cup SentRequests) /\ mclLooper.lo \in Seq(Updates \cup SentRequests)
      /\ down \in Nat
  BY DEF PathsTyped, LooperOf, TypeOK
<1>1. ASSUME NEW u \in Updates, TelCoreSetValue(u) PROVE NoneOvertaken'
  <2>1. /\ mclLooper' = SendMessage(mclLooper, u) /\ down' = down + 1 /\ early' = early
    BY <1>1 DEF TelCoreSetValue
  <2>2. CountsMatch(Append(mclLooper.lo, u), down + 1)
    BY <1>0, CountsAppend DEF NoneOvertaken
  <2> QED
    BY <2>1, <2>2 DEF NoneOvertaken, SendMessage
<1>2. ASSUME NEW r \in Requests, ForwardRequest(r) PROVE NoneOvertaken'
  <2>1. Sent(r) \in SentRequests /\ Sent(r).after = down /\ Sent(r).req = r
    BY <1>0 DEF Sent, SentRequests
  <2>2. down' = down /\ early' = early
    BY <1>2 DEF ForwardRequest
  <2>3. CASE r \in AtFront
    <3>1. mclLooper'.hi = Append(mclLooper.hi, Sent(r)) /\ mclLooper'.lo = mclLooper.lo
      BY <1>2, <2>3 DEF ForwardRequest, SendMessageFront
    <3>2. \A i \in DOMAIN mclLooper'.hi :
            mclLooper'.hi[i] = Sent(r) \/ (i \in DOMAIN mclLooper.hi /\ mclLooper'.hi[i] = mclLooper.hi[i])
      <4>1. /\ DOMAIN Append(mclLooper.hi, Sent(r)) = 1 .. Len(mclLooper.hi) + 1
            /\ DOMAIN mclLooper.hi = 1 .. Len(mclLooper.hi) /\ Len(mclLooper.hi) \in Nat
            /\ \A i \in 1 .. Len(mclLooper.hi) : Append(mclLooper.hi, Sent(r))[i] = mclLooper.hi[i]
            /\ Append(mclLooper.hi, Sent(r))[Len(mclLooper.hi) + 1] = Sent(r)
        BY <1>0
      <4> QED
        BY <3>1, <4>1
    <3> QED
      BY <2>1, <2>2, <2>3, <3>1, <3>2 DEF NoneOvertaken
  <2>4. CASE r \notin AtFront
    <3>1. mclLooper'.hi = mclLooper.hi /\ mclLooper'.lo = Append(mclLooper.lo, Sent(r))
      BY <1>2, <2>4 DEF ForwardRequest, SendMessage
    <3>2. CountsMatch(Append(mclLooper.lo, Sent(r)), down)
      BY <1>0, <2>1, CountsAppend DEF NoneOvertaken
    <3> QED
      BY <2>2, <3>1, <3>2 DEF NoneOvertaken
  <2> QED
    BY <2>3, <2>4
<1>3. ASSUME MclDispatch PROVE NoneOvertaken'
  <2> DEFINE m == LooperHead(mclLooper)
  <2>1. /\ LooperBusy(mclLooper) /\ mclLooper' = LooperTail(mclLooper) /\ down' = down
        /\ \/ m \in Updates /\ early' = early
           \/ /\ m \notin Updates
              /\ early' = IF m.after + Cardinality(UpdatesIn(mclLooper.lo)) > down
                          THEN early \cup {m.req} ELSE early
    BY <1>3 DEF MclDispatch
  <2>2. CASE mclLooper.hi # << >>
    <3>1. mclLooper'.hi = Tail(mclLooper.hi) /\ mclLooper'.lo = mclLooper.lo /\ m = mclLooper.hi[1]
          /\ 1 \in DOMAIN mclLooper.hi
      BY <1>0, <2>1, <2>2 DEF LooperHead, LooperTail
    <3>2. \A i \in DOMAIN mclLooper'.hi : i + 1 \in DOMAIN mclLooper.hi /\ mclLooper'.hi[i] = mclLooper.hi[i + 1]
      BY <1>0, <2>2, <3>1
    <3>3. m \in Updates \/ m.req \in AtFront
      BY <3>1 DEF NoneOvertaken
    <3> HIDE DEF m
    <3>4. early' \subseteq AtFront
      BY <2>1, <3>3 DEF NoneOvertaken
    <3> QED
      BY <2>1, <3>1, <3>2, <3>4 DEF NoneOvertaken
  <2>3. CASE mclLooper.hi = << >>
    <3>1. /\ mclLooper'.hi = mclLooper.hi /\ mclLooper'.lo = Tail(mclLooper.lo) /\ mclLooper.lo # << >>
          /\ m = Head(mclLooper.lo)
      BY <2>1, <2>3 DEF LooperHead, LooperTail, LooperBusy
    <3>2. m = mclLooper.lo[1] /\ 1 \in DOMAIN mclLooper.lo
      BY <1>0, <3>1
    <3>3. CountsMatch(Tail(mclLooper.lo), down)
      BY <1>0, <3>1, CountsTail DEF NoneOvertaken
    <3>4. ASSUME m \notin Updates PROVE m.after + Cardinality(UpdatesIn(mclLooper.lo)) = down
      <4>1. UpdatesIn(mclLooper.lo) = Behind(mclLooper.lo, 1)
        <5>1. \A j \in DOMAIN mclLooper.lo : j = 1 \/ j > 1
          BY <1>0
        <5> QED
          BY <3>2, <3>4, <5>1 DEF UpdatesIn, Behind
      <4> QED
        BY <3>2, <3>4, <4>1 DEF NoneOvertaken, CountsMatch
    <3> HIDE DEF m
    <3>5. early' = early
      BY <1>0, <2>1, <3>4
    <3> QED
      BY <2>1, <3>1, <3>3, <3>5 DEF NoneOvertaken
  <2> QED
    BY <2>2, <2>3
<1>4. ASSUME UNCHANGED << mclLooper, down, early >> PROVE NoneOvertaken'
  BY <1>4 DEF NoneOvertaken
<1> QED
  BY <1>1, <1>2, <1>3, <1>4
     DEF Next, MclSetValue, ApplySync, ProcessEmit, UpdateValueToTelCore, ProcessStatusSyncQueue, vars
-----------------------------------------------------------------------------
(* The theorems *)

(* The copies of a key, the updates on either path and the posted callbacks:
   types, one direction at a time, and the value the last update carries. *)
THEOREM StatusInvariant == Spec => []IInv
<1>1. Init => IInv
  <2> SUFFICES ASSUME Init PROVE IInv
    OBVIOUS
  <2>1. \A k : ~OfKey(<< >>, k) /\ \A v : LastIs(<< >>, k, v)
    BY DEF OfKey, LastIs
  <2>2. TypeOK
    BY StatusAssumption DEF Init, TypeOK, LooperOf, EmptyLooper
  <2>3. PathsTyped
    BY <2>1 DEF Init, PathsTyped, LooperOf, EmptyLooper
  <2>4. \A k \in Keys : ~GoingUp(k) /\ ~GoingDown(k) /\ \A t \in Threads : ~OfKeyIs(setting[t], k)
    BY <2>1, NotUpdates DEF Init, GoingUp, GoingDown, EmptyLooper, OfKeyIs
  <2>5. SyncInv
    BY <2>1, <2>4 DEF Init, SyncInv, KeyInv, OneWay, UpCarries, DownCarries, CopiesAgree, EmptyLooper
  <2>6. CallbacksCarry
    <3>1. asyncQueue = << >> /\ DOMAIN asyncQueue = {}
      BY DEF Init
    <3>2. \A k \in Watched : heard[k] = tcValue[k]
      BY StatusAssumption DEF Init
    <3> QED
      BY <2>1, <3>1, <3>2 DEF CallbacksCarry
  <2>7. NoneOvertaken
    <3>1. mclLooper.hi = << >> /\ mclLooper.lo = << >> /\ early = {}
      BY DEF Init, EmptyLooper
    <3> QED
      BY <3>1 DEF NoneOvertaken, CountsMatch
  <2> QED
    BY <2>2, <2>3, <2>5, <2>6, <2>7 DEF IInv
<1>2. IInv /\ [Next]_vars => IInv'
  BY TypeStep, SyncStep, CallbacksStep, OvertakenStep DEF IInv
<1> QED
  BY <1>1, <1>2, PTL DEF Spec

(* The two copies of a key nobody raced for agree as soon as no update of it is
   under way, and a callback that has nothing left to run was last given the
   current value. *)
THEOREM ReplicasAgreeCorrect == Spec => []ReplicasAgree
<1>1. IInv => ReplicasAgree
  BY DEF IInv, SyncInv, KeyInv, CopiesAgree, CallbacksCarry, ReplicasAgree, OfKey
<1> QED
  BY <1>1, StatusInvariant, PTL

(* A request that was not added at the front is dispatched after every update
   sent ahead of it. *)
THEOREM RequestFindsStatusCorrect == Spec => []RequestFindsStatus
<1>1. IInv => RequestFindsStatus
  BY DEF IInv, NoneOvertaken, RequestFindsStatus
<1> QED
  BY <1>1, StatusInvariant, PTL
=============================================================================
