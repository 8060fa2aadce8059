--------------------------- MODULE DataAllowProofs ---------------------------
(***************************************************************************)
(* Proofs about DataAllow, for any number of slots and every bound: the    *)
(* counter of disallowed peers is the number of requests under way to      *)
(* them, one request at a time is under way otherwise, and the requests of *)
(* the framework are answered in their order, each once.                   *)
(* The second half is about the slot that is allowed in the end: the       *)
(* property is what the modem allows once all messages are done, and what  *)
(* the on-demand queue, the preferred SIM or the framework wants.          *)
(***************************************************************************)
EXTENDS DataAllow, FiniteSetTheorems, SequenceTheorems, WellFoundedInduction, TLAPS

RequestSet == [type : {"request"}, slot : Slots, allow : BOOLEAN, id : Nat]

\* The ids of the framework's requests in a list of messages, and those of the answers
WaitingIn(q)  == {q[i].id : i \in {j \in DOMAIN q : q[j].type = "request"}} \ {0}
AnswersIn(q)  == {q[i].id : i \in ResponsesIn(q)} \ {0}
AtModemIn(queues) == {queues[p[1]][p[2]].id : p \in AtModem(queues)} \ {0}

\* The framework's requests of a list are in the order of their ids.
InOrder(q) ==
  \A i, j \in DOMAIN q : i < j /\ q[i].type = "request" /\ q[j].type = "request"
                               /\ q[i].id # 0 /\ q[j].id # 0 => q[i].id < q[j].id

Below(A, B) == \A a \in A, b \in B : a < b

\* A conflict is only reported of a slot that has peers.
PeersThere(q) ==
  \A i \in DOMAIN q : q[i].type = "response" /\ q[i].error = "multi_allow" => Peers(q[i].slot) # {}

\* The id of the request whose conflict is resolved, or that may still run into one
LastId == IF mDoingDataAllow /\ (mReqDataAllow \/ mDisallowingPeer > 0)
          THEN {mLastAllowTrueRequest.id} \ {0} ELSE {}

\* The suspended messages come first again when one ends.
Pending == suspended \o mainLooper

\* The framework's requests that were taken up and not answered, that wait, that are answered
Current  == AtModemIn(mcl) \cup AnswersIn(mainLooper) \cup LastId
Waiting  == WaitingIn(Pending)
Answered == Range(answered)
-----------------------------------------------------------------------------
(* The inductive invariant, in named parts *)

\* The messages, the slots and the counters have their types.
AllowTypes ==
  /\ inst \in Instances
  /\ mDoingDataAllow \in BOOLEAN /\ mReqDataAllow \in BOOLEAN /\ mDisallowingPeer \in Nat
  /\ mLastAllowTrueRequest \in RequestSet \cup {<< >>}
  /\ allow_data_slot \in Slots \cup {NoSlot}
  /\ mainLooper \in Seq(MessageSet) /\ suspended \in Seq(RequestSet)
  /\ mcl \in [Slots -> Seq(RequestSet)]
  /\ mdAllowed \subseteq Slots /\ requests \in Nat /\ answered \in Seq(Nat)

\* The flags of preprocessRequest and handleMultiAllowError: what is sent again after
\* the peers is there, and a conflict is resolved for a slot that has peers.
FlagsAgree ==
  /\ mReqDataAllow \/ mDisallowingPeer > 0 => mLastAllowTrueRequest \in RequestSet
  /\ mDisallowingPeer > 0 => mDoingDataAllow /\ ~mReqDataAllow
  /\ PeersThere(mainLooper)
  /\ ~mDoingDataAllow => suspended = << >>

\* What is under way is what the flag and the counter say.
CountAgrees ==
  UnderWay = IF mDisallowingPeer > 0 THEN mDisallowingPeer ELSE IF mDoingDataAllow THEN 1 ELSE 0

\* Answered before taken up before waiting, all in the order they were sent
IdsInOrder ==
  /\ \A i, j \in DOMAIN answered : i < j => answered[i] < answered[j]
  /\ InOrder(Pending)
  /\ Below(Current, Waiting)
  /\ Below(Answered, Current \cup Waiting)
  /\ Current \cup Waiting \cup Answered \subseteq 1 .. requests

\* The inductive invariant
AllowInv == AllowTypes /\ FlagsAgree /\ CountAgrees /\ IdsInOrder
-----------------------------------------------------------------------------
(* Lists of messages *)

(* A list of two parts has the responses of both, as many as they have together,
   waits for the requests of both and answers those of both. *)
LEMMA Joined ==
  ASSUME NEW p \in Seq(MessageSet), NEW q \in Seq(MessageSet)
  PROVE  /\ p \o q \in Seq(MessageSet)
         /\ WaitingIn(p \o q) = WaitingIn(p) \cup WaitingIn(q)
         /\ AnswersIn(p \o q) = AnswersIn(p) \cup AnswersIn(q)
         /\ InOrder(p) /\ InOrder(q) /\ Below(WaitingIn(p), WaitingIn(q)) => InOrder(p \o q)
         /\ InOrder(p \o q) => InOrder(p) /\ InOrder(q) /\ Below(WaitingIn(p), WaitingIn(q))
         /\ PeersThere(p \o q) <=> PeersThere(p) /\ PeersThere(q)
         /\ Cardinality(ResponsesIn(p \o q)) = Cardinality(ResponsesIn(p)) + Cardinality(ResponsesIn(q))
         /\ Cardinality(ResponsesIn(p)) \in Nat /\ Cardinality(ResponsesIn(q)) \in Nat
<1> DEFINE n == Len(p)
           k == Len(q)
<1>1. /\ p \o q \in Seq(MessageSet) /\ n \in Nat /\ k \in Nat
      /\ DOMAIN p = 1 .. n /\ DOMAIN q = 1 .. k /\ Len(p \o q) = n + k
      /\ \A i \in 1 .. n + k : (p \o q)[i] = IF i <= n THEN p[i] ELSE q[i - n]
  BY ConcatProperties, LenProperties
<1>2. DOMAIN (p \o q) = 1 .. n + k
  BY <1>1, LenProperties
<1> HIDE DEF n, k
<1>3. \A i \in DOMAIN (p \o q) : \/ i \in DOMAIN p /\ (p \o q)[i] = p[i]
                                 \/ i - n \in DOMAIN q /\ (p \o q)[i] = q[i - n]
  BY <1>1, <1>2
<1>4. \A i \in DOMAIN p : i \in DOMAIN (p \o q) /\ (p \o q)[i] = p[i]
  BY <1>1, <1>2
<1>5. \A i \in DOMAIN q : i + n \in DOMAIN (p \o q) /\ (p \o q)[i + n] = q[i]
  <2>1. \A i \in 1 .. k : /\ i + n \in 1 .. n + k /\ ~(i + n <= n) /\ (i + n) - n = i
    BY <1>1
  <2> QED
    BY <1>1, <1>2, <2>1
<1>6. WaitingIn(p \o q) = WaitingIn(p) \cup WaitingIn(q)
  <2>1. WaitingIn(p \o q) \subseteq WaitingIn(p) \cup WaitingIn(q)
    BY <1>3 DEF WaitingIn
  <2>2. WaitingIn(p) \subseteq WaitingIn(p \o q)
    BY <1>4 DEF WaitingIn
  <2>3. WaitingIn(q) \subseteq WaitingIn(p \o q)
    BY <1>5 DEF WaitingIn
  <2> QED
    BY <2>1, <2>2, <2>3
<1>7. AnswersIn(p \o q) = AnswersIn(p) \cup AnswersIn(q)
  <2>1. AnswersIn(p \o q) \subseteq AnswersIn(p) \cup AnswersIn(q)
    BY <1>3 DEF AnswersIn, ResponsesIn
  <2>2. AnswersIn(p) \subseteq AnswersIn(p \o q)
    BY <1>4 DEF AnswersIn, ResponsesIn
  <2>3. AnswersIn(q) \subseteq AnswersIn(p \o q)
    BY <1>5 DEF AnswersIn, ResponsesIn
  <2> QED
    BY <2>1, <2>2, <2>3
<1>8. ASSUME InOrder(p), InOrder(q), Below(WaitingIn(p), WaitingIn(q))
      PROVE  InOrder(p \o q)
  <2> SUFFICES ASSUME NEW i \in 1 .. n + k, NEW j \in 1 .. n + k, i < j,
                      (p \o q)[i].type = "request", (p \o q)[j].type = "request",
                      (p \o q)[i].id # 0, (p \o q)[j].id # 0
               PROVE  (p \o q)[i].id < (p \o q)[j].id
    BY <1>2 DEF InOrder
  <2>1. CASE j <= n
    <3>1. i \in DOMAIN p /\ j \in DOMAIN p /\ (p \o q)[i] = p[i] /\ (p \o q)[j] = p[j]
      BY <2>1, <1>1
    <3> QED
      BY <3>1, <1>8 DEF InOrder
  <2>2. CASE i > n
    <3>1. /\ i - n \in DOMAIN q /\ j - n \in DOMAIN q /\ i - n < j - n
          /\ (p \o q)[i] = q[i - n] /\ (p \o q)[j] = q[j - n]
      BY <2>2, <1>1
    <3> QED
      BY <3>1, <1>8 DEF InOrder
  <2>3. CASE i <= n /\ j > n
    <3>1. i \in DOMAIN p /\ (p \o q)[i] = p[i] /\ j - n \in DOMAIN q /\ (p \o q)[j] = q[j - n]
      BY <2>3, <1>1
    <3>2. (p \o q)[i].id \in WaitingIn(p) /\ (p \o q)[j].id \in WaitingIn(q)
      BY <3>1 DEF WaitingIn
    <3> QED
      BY <3>2, <1>8 DEF Below
  <2> QED
    BY <2>1, <2>2, <2>3, <1>1
<1>9. ASSUME InOrder(p \o q)
      PROVE  InOrder(p) /\ InOrder(q) /\ Below(WaitingIn(p), WaitingIn(q))
  <2>0. InOrder(p)
    BY <1>4, <1>9 DEF InOrder
  <2>1. InOrder(q)
    <3> SUFFICES ASSUME NEW i \in DOMAIN q, NEW j \in DOMAIN q, i < j,
                        q[i].type = "request", q[j].type = "request", q[i].id # 0, q[j].id # 0
                 PROVE  q[i].id < q[j].id
      BY DEF InOrder
    <3>1. i + n < j + n
      BY <1>1
    <3> QED
      BY <3>1, <1>5, <1>9 DEF InOrder
  <2>2. ASSUME NEW a \in WaitingIn(p), NEW b \in WaitingIn(q) PROVE a < b
    <3>1. PICK i \in DOMAIN p : p[i].type = "request" /\ a = p[i].id /\ a # 0
      BY DEF WaitingIn
    <3>2. PICK j \in DOMAIN q : q[j].type = "request" /\ b = q[j].id /\ b # 0
      BY DEF WaitingIn
    <3>3. i < j + n
      BY <1>1
    <3> QED
      BY <3>1, <3>2, <3>3, <1>4, <1>5, <1>9 DEF InOrder
  <2> QED
    BY <2>0, <2>1, <2>2 DEF Below
<1>10. PeersThere(p \o q) <=> PeersThere(p) /\ PeersThere(q)
  <2>1. PeersThere(p) /\ PeersThere(q) => PeersThere(p \o q)
    BY <1>3 DEF PeersThere
  <2>2. PeersThere(p \o q) => PeersThere(p)
    BY <1>4 DEF PeersThere
  <2>3. PeersThere(p \o q) => PeersThere(q)
    BY <1>5 DEF PeersThere
  <2> QED
    BY <2>1, <2>2, <2>3
<1>11. /\ Cardinality(ResponsesIn(p \o q)) = Cardinality(ResponsesIn(p)) + Cardinality(ResponsesIn(q))
       /\ Cardinality(ResponsesIn(p)) \in Nat /\ Cardinality(ResponsesIn(q)) \in Nat
  <2> DEFINE R == ResponsesIn(p)
             T == ResponsesIn(q)
             U == {i + n : i \in T}
             f == [i \in T |-> i + n]
  <2>1. R \subseteq 1 .. n /\ T \subseteq 1 .. k
    BY <1>1 DEF ResponsesIn
  <2>2. /\ IsFiniteSet(R) /\ IsFiniteSet(T)
        /\ Cardinality(R) \in Nat /\ Cardinality(T) \in Nat
    <3>1. IsFiniteSet(1 .. n) /\ IsFiniteSet(1 .. k)
      BY <1>1, FS_Interval
    <3> QED
      BY <2>1, <3>1, FS_Subset, FS_CardinalityType
  <2>3. f \in Bijection(T, U)
    <3>1. f \in [T -> U]
      OBVIOUS
    <3>2. \A i, j \in T : f[i] = f[j] => i = j
      BY <2>1, <1>1
    <3>3. \A u \in U : \E i \in T : f[i] = u
      OBVIOUS
    <3> QED
      BY <3>1, <3>2, <3>3 DEF Bijection, Injection, Surjection, IsInjective
  <2>4. IsFiniteSet(U) /\ Cardinality(U) = Cardinality(T)
    <3>1. ExistsBijection(T, U)
      BY <2>3 DEF ExistsBijection
    <3> HIDE DEF U, f, T
    <3> QED
      BY <3>1, <2>2, FS_Bijection
  <2>5. R \cap U = {}
    BY <2>1, <1>1
  <2>6. ResponsesIn(p \o q) = R \cup U
    <3>1. ResponsesIn(p \o q) \subseteq R \cup U
      <4> SUFFICES ASSUME NEW i \in 1 .. n + k, (p \o q)[i].type = "response"
                   PROVE  i \in R \cup U
        BY <1>2 DEF ResponsesIn
      <4>1. CASE i <= n
        BY <4>1, <1>1 DEF ResponsesIn
      <4>2. CASE i > n
        <5>1. i - n \in DOMAIN q /\ (p \o q)[i] = q[i - n] /\ i = (i - n) + n
          BY <4>2, <1>1
        <5>2. i - n \in T
          BY <5>1 DEF ResponsesIn
        <5> QED
          BY <5>1, <5>2
      <4> QED
        BY <4>1, <4>2, <1>1
    <3>2. R \subseteq ResponsesIn(p \o q)
      BY <1>4 DEF ResponsesIn
    <3>3. U \subseteq ResponsesIn(p \o q)
      BY <1>5 DEF ResponsesIn
    <3> QED
      BY <3>1, <3>2, <3>3
  <2> HIDE DEF R, T, U, f
  <2>7. Cardinality(R \cup U) = Cardinality(R) + Cardinality(U) - Cardinality(R \cap U)
    BY <2>2, <2>4, FS_Union
  <2>8. Cardinality(R \cap U) = 0
    BY <2>5, FS_EmptySet
  <2>9. Cardinality(R \cup U) = Cardinality(R) + Cardinality(T)
    BY <2>7, <2>8, <2>4, <2>2
  <2> QED
    BY <2>9, <2>6, <2>2 DEF R, T
<1> QED
  BY <1>1, <1>6, <1>7, <1>8, <1>9, <1>10, <1>11

(* One message alone *)
LEMMA Single ==
  ASSUME NEW m \in MessageSet
  PROVE  /\ << m >> \in Seq(MessageSet) /\ DOMAIN << m >> = {1} /\ << m >>[1] = m
         /\ WaitingIn(<< m >>) = IF m.type = "request" THEN {m.id} \ {0} ELSE {}
         /\ AnswersIn(<< m >>) = IF m.type = "response" THEN {m.id} \ {0} ELSE {}
         /\ InOrder(<< m >>)
         /\ PeersThere(<< m >>) <=> (m.type = "response" /\ m.error = "multi_allow" => Peers(m.slot) # {})
         /\ Cardinality(ResponsesIn(<< m >>)) = IF m.type = "response" THEN 1 ELSE 0
<1>1. << m >> \in Seq(MessageSet) /\ DOMAIN << m >> = {1} /\ << m >>[1] = m
  OBVIOUS
<1> DEFINE q == << m >>
<1>2. q[1] = m /\ DOMAIN q = {1}
  BY <1>1
<1> HIDE DEF q
<1>3. WaitingIn(q) = IF m.type = "request" THEN {m.id} \ {0} ELSE {}
  <2>1. CASE m.type = "request"
    <3>1. {j \in DOMAIN q : q[j].type = "request"} = {1}
      BY <1>2, <2>1
    <3>2. {q[i].id : i \in {1}} = {m.id}
      BY <1>2
    <3> QED
      BY <2>1, <3>1, <3>2 DEF WaitingIn
  <2>2. CASE m.type # "request"
    <3>1. {j \in DOMAIN q : q[j].type = "request"} = {}
      BY <1>2, <2>2
    <3> QED
      BY <2>2, <3>1 DEF WaitingIn
  <2> QED
    BY <2>1, <2>2
<1>4. ResponsesIn(q) = IF m.type = "response" THEN {1} ELSE {}
  BY <1>2 DEF ResponsesIn
<1>5. AnswersIn(q) = IF m.type = "response" THEN {m.id} \ {0} ELSE {}
  <2>1. {q[i].id : i \in {1}} = {m.id}
    BY <1>2
  <2> QED
    BY <1>4, <2>1 DEF AnswersIn
<1>6. /\ InOrder(q)
      /\ PeersThere(q) <=> (m.type = "response" /\ m.error = "multi_allow" => Peers(m.slot) # {})
  BY <1>2 DEF InOrder, PeersThere
<1>7. Cardinality(ResponsesIn(q)) = IF m.type = "response" THEN 1 ELSE 0
  BY <1>4, FS_EmptySet, FS_Singleton
<1> QED
  BY <1>1, <1>3, <1>5, <1>6, <1>7 DEF q

(* No message at all *)
LEMMA Nothing ==
  /\ << >> \in Seq(MessageSet) /\ WaitingIn(<< >>) = {} /\ AnswersIn(<< >>) = {} /\ InOrder(<< >>)
  /\ Cardinality(ResponsesIn(<< >>)) = 0 /\ DOMAIN << >> = {} /\ PeersThere(<< >>)
<1> DEFINE q == << >>
<1>1. q \in Seq(MessageSet) /\ DOMAIN q = {}
  BY EmptySeq, LenProperties
<1> HIDE DEF q
<1>2. WaitingIn(q) = {} /\ ResponsesIn(q) = {} /\ AnswersIn(q) = {} /\ InOrder(q) /\ PeersThere(q)
  BY <1>1 DEF WaitingIn, ResponsesIn, AnswersIn, InOrder, PeersThere
<1>3. Cardinality(ResponsesIn(q)) = 0
  BY <1>2, FS_EmptySet
<1> QED
  BY <1>1, <1>2, <1>3 DEF q

(* The looper takes its first message and keeps the rest. *)
LEMMA First ==
  ASSUME NEW q \in Seq(MessageSet), q # << >>
  PROVE  /\ Head(q) \in MessageSet /\ Tail(q) \in Seq(MessageSet)
         /\ q = << Head(q) >> \o Tail(q)
         /\ 1 \in DOMAIN q /\ Head(q) = q[1]
         /\ \A i \in DOMAIN Tail(q) : i + 1 \in DOMAIN q /\ Tail(q)[i] = q[i + 1]
<1>1. /\ Head(q) \in MessageSet /\ Tail(q) \in Seq(MessageSet) /\ Len(Tail(q)) = Len(q) - 1
      /\ \A i \in 1 .. Len(Tail(q)) : Tail(q)[i] = q[i + 1]
  BY HeadTailProperties
<1>2. Len(q) \in Nat \ {0} /\ DOMAIN q = 1 .. Len(q) /\ DOMAIN Tail(q) = 1 .. Len(q) - 1
  BY <1>1, EmptySeq, LenProperties
<1>3. Head(q) = q[1]
  BY <1>2
<1>4. << Head(q) >> \in Seq(MessageSet) /\ Len(<< Head(q) >>) = 1 /\ << Head(q) >>[1] = Head(q)
  BY <1>1
<1>5. /\ << Head(q) >> \o Tail(q) \in Seq(MessageSet)
      /\ Len(<< Head(q) >> \o Tail(q)) = Len(q)
      /\ \A i \in 1 .. Len(q) : (<< Head(q) >> \o Tail(q))[i] = q[i]
  <2>1. /\ << Head(q) >> \o Tail(q) \in Seq(MessageSet)
        /\ Len(<< Head(q) >> \o Tail(q)) = 1 + Len(Tail(q))
        /\ \A i \in 1 .. 1 + Len(Tail(q)) :
             (<< Head(q) >> \o Tail(q))[i] = IF i <= 1 THEN << Head(q) >>[i] ELSE Tail(q)[i - 1]
    BY <1>1, <1>4, ConcatProperties
  <2>2. ASSUME NEW i \in 1 .. Len(q) PROVE (<< Head(q) >> \o Tail(q))[i] = q[i]
    <3>1. CASE i = 1
      BY <3>1, <2>1, <1>1, <1>2, <1>3, <1>4
    <3>2. CASE i # 1
      <4>1. i - 1 \in 1 .. Len(Tail(q)) /\ (i - 1) + 1 = i /\ ~(i <= 1) /\ i \in 1 .. 1 + Len(Tail(q))
        BY <3>2, <1>1, <1>2
      <4> QED
        BY <4>1, <2>1, <1>1
    <3> QED
      BY <3>1, <3>2
  <2> QED
    BY <2>1, <2>2, <1>1, <1>2
<1>6. q = << Head(q) >> \o Tail(q)
  BY <1>5, SeqEqual
<1> QED
  BY <1>1, <1>2, <1>3, <1>6
-----------------------------------------------------------------------------
(* The requests at the modem side *)

(* There are some slots, finitely many. *)
LEMMA SlotsFinite ==
  ASSUME inst \in Instances
  PROVE  IsFiniteSet(Slots) /\ Slots \subseteq Nat /\ NoSlot \notin Slots /\ Slots # {}
<1>1. SimCount \in Nat \ {0}
  BY DataAllowAssumption DEF SimCount
<1>2. IsFiniteSet(0 .. SimCount - 1)
  <2>1. 0 \in Int /\ SimCount - 1 \in Int
    BY <1>1
  <2> QED
    BY <2>1, FS_Interval
<1>3. 0 \in 0 .. SimCount - 1 /\ 0 .. SimCount - 1 \subseteq Nat /\ -1 \notin 0 .. SimCount - 1
  BY <1>1
<1> QED
  BY <1>2, <1>3 DEF Slots, NoSlot

(* What is at the modem side is there at a slot's place. *)
LEMMA AtModemPlaces ==
  ASSUME inst \in Instances, NEW m \in [Slots -> Seq(RequestSet)]
  PROVE  /\ AtModem(m) \subseteq Slots \X Nat
         /\ \A s \in Slots : \A i : << s, i >> \in AtModem(m) <=> i \in 1 .. Len(m[s])
         /\ \A s \in Slots : Len(m[s]) \in Nat
         /\ IsFiniteSet(AtModem(m)) /\ Cardinality(AtModem(m)) \in Nat
<1>1. \A s \in Slots : Len(m[s]) \in Nat /\ DOMAIN m[s] = 1 .. Len(m[s])
  BY LenProperties
<1>2. AtModem(m) \subseteq Slots \X Nat
  <2> SUFFICES ASSUME NEW p \in AtModem(m) PROVE p \in Slots \X Nat
    OBVIOUS
  <2>1. PICK s \in Slots : p \in {<< s, i >> : i \in DOMAIN m[s]}
    BY DEF AtModem
  <2>2. PICK i \in DOMAIN m[s] : p = << s, i >>
    BY <2>1
  <2>3. i \in Nat
    BY <1>1, <2>2
  <2> QED
    BY <2>2, <2>3
<1>3. ASSUME NEW s \in Slots, NEW i, << s, i >> \in AtModem(m) PROVE i \in 1 .. Len(m[s])
  <2>1. PICK t \in Slots : << s, i >> \in {<< t, j >> : j \in DOMAIN m[t]}
    BY <1>3 DEF AtModem
  <2>2. PICK j \in DOMAIN m[t] : << s, i >> = << t, j >>
    BY <2>1
  <2>3. s = t /\ i = j
    BY <2>2
  <2> QED
    BY <2>2, <2>3, <1>1
<1>4. ASSUME NEW s \in Slots, NEW i \in 1 .. Len(m[s]) PROVE << s, i >> \in AtModem(m)
  <2>1. i \in DOMAIN m[s]
    BY <1>1
  <2>2. << s, i >> \in {<< s, j >> : j \in DOMAIN m[s]}
    BY <2>1
  <2> QED
    BY <2>2 DEF AtModem
<1>5. IsFiniteSet(AtModem(m))
  <2> DEFINE Q(s) == {<< s, i >> : i \in DOMAIN m[s]}
             A == {Q(s) : s \in Slots}
             g == [s \in Slots |-> Q(s)]
  <2> HIDE DEF Q
  <2>1. g \in Surjection(Slots, A)
    <3>1. g \in [Slots -> A]
      OBVIOUS
    <3>2. \A u \in A : \E s \in Slots : g[s] = u
      OBVIOUS
    <3> QED
      BY <3>1, <3>2 DEF Surjection
  <2>2. IsFiniteSet(A)
    <3>1. IsFiniteSet(Slots)
      BY SlotsFinite
    <3> HIDE DEF g, A
    <3> QED
      BY <2>1, <3>1, FS_Surjection
  <2>3. ASSUME NEW s \in Slots PROVE IsFiniteSet(Q(s))
    <3> DEFINE D == DOMAIN m[s]
               B == {<< s, i >> : i \in D}
               h == [i \in D |-> << s, i >>]
    <3>1. h \in Surjection(D, B)
      BY DEF Surjection
    <3>2. IsFiniteSet(D)
      <4>1. 1 \in Int /\ Len(m[s]) \in Int
        BY <1>1
      <4> QED
        BY <1>1, <4>1, FS_Interval
    <3>3. IsFiniteSet(B)
      <4> HIDE DEF h, B, D
      <4> QED
        BY <3>1, <3>2, FS_Surjection
    <3> QED
      BY <3>3 DEF Q
  <2>4. \A T \in A : IsFiniteSet(T)
    BY <2>3
  <2>5. AtModem(m) = UNION A
    BY DEF AtModem, Q
  <2> HIDE DEF A
  <2> QED
    BY <2>2, <2>4, <2>5, FS_UNION
<1>6. Cardinality(AtModem(m)) \in Nat
  BY <1>5, FS_CardinalityType
<1> QED
  BY <1>1, <1>2, <1>3, <1>4, <1>5, <1>6

(* One more request on each of some slots is as many more at the modem side. *)
LEMMA OneMoreEach ==
  ASSUME inst \in Instances,
         NEW m \in [Slots -> Seq(RequestSet)], NEW m2 \in [Slots -> Seq(RequestSet)],
         NEW P \in SUBSET Slots,
         \A s \in Slots : Len(m2[s]) = IF s \in P THEN Len(m[s]) + 1 ELSE Len(m[s])
  PROVE  /\ Cardinality(AtModem(m2)) = Cardinality(AtModem(m)) + Cardinality(P)
         /\ Cardinality(AtModem(m)) \in Nat /\ Cardinality(P) \in Nat
<1> DEFINE N == {<< s, Len(m[s]) + 1 >> : s \in P}
           f == [s \in P |-> << s, Len(m[s]) + 1 >>]
<1>1. /\ AtModem(m) \subseteq Slots \X Nat /\ AtModem(m2) \subseteq Slots \X Nat
      /\ \A s \in Slots : \A i : << s, i >> \in AtModem(m) <=> i \in 1 .. Len(m[s])
      /\ \A s \in Slots : \A i : << s, i >> \in AtModem(m2) <=> i \in 1 .. Len(m2[s])
      /\ \A s \in Slots : Len(m[s]) \in Nat
      /\ IsFiniteSet(AtModem(m)) /\ Cardinality(AtModem(m)) \in Nat
  BY AtModemPlaces
<1>2. IsFiniteSet(P) /\ Cardinality(P) \in Nat
  BY SlotsFinite, FS_Subset, FS_CardinalityType
<1>3. f \in Bijection(P, N)
  <2>1. f \in [P -> N]
    OBVIOUS
  <2>2. \A s, t \in P : f[s] = f[t] => s = t
    OBVIOUS
  <2>3. \A u \in N : \E s \in P : f[s] = u
    OBVIOUS
  <2> QED
    BY <2>1, <2>2, <2>3 DEF Bijection, Injection, Surjection, IsInjective
<1>4. IsFiniteSet(N) /\ Cardinality(N) = Cardinality(P)
  <2>1. ExistsBijection(P, N)
    BY <1>3 DEF ExistsBijection
  <2> HIDE DEF N, f
  <2> QED
    BY <2>1, <1>2, FS_Bijection
<1>5. AtModem(m) \cap N = {}
  <2> SUFFICES ASSUME NEW s \in P, << s, Len(m[s]) + 1 >> \in AtModem(m) PROVE FALSE
    OBVIOUS
  <2>1. Len(m[s]) + 1 \in 1 .. Len(m[s])
    BY <1>1
  <2> QED
    BY <2>1, <1>1
<1>6. AtModem(m2) = AtModem(m) \cup N
  <2>1. ASSUME NEW s \in Slots, NEW i \in Nat
        PROVE  << s, i >> \in AtModem(m2) <=> << s, i >> \in AtModem(m) \/ << s, i >> \in N
    <3>1. << s, i >> \in N <=> s \in P /\ i = Len(m[s]) + 1
      OBVIOUS
    <3>2. \A k, l \in Nat : /\ k = l + 1 => (i \in 1 .. k <=> i \in 1 .. l \/ i = l + 1)
                            /\ k = l => (i \in 1 .. k <=> i \in 1 .. l)
      OBVIOUS
    <3>3. Len(m2[s]) \in Nat
      BY <1>1
    <3>4. CASE s \in P
      <4>1. i \in 1 .. Len(m2[s]) <=> i \in 1 .. Len(m[s]) \/ i = Len(m[s]) + 1
        BY <3>2, <3>3, <3>4, <1>1
      <4> QED
        BY <4>1, <3>1, <3>4, <1>1
    <3>5. CASE s \notin P
      <4>1. i \in 1 .. Len(m2[s]) <=> i \in 1 .. Len(m[s])
        BY <3>5
      <4> QED
        BY <4>1, <3>1, <3>5, <1>1
    <3> QED
      BY <3>4, <3>5
  <2>2. N \subseteq Slots \X Nat
    BY <1>1
  <2> HIDE DEF N
  <2>3. \A p \in Slots \X Nat : p \in AtModem(m2) <=> p \in AtModem(m) \cup N
    BY <2>1
  <2> QED
    BY <2>2, <2>3, <1>1
<1> HIDE DEF N, f
<1>7. Cardinality(AtModem(m) \cup N)
        = Cardinality(AtModem(m)) + Cardinality(N) - Cardinality(AtModem(m) \cap N)
  BY <1>1, <1>4, FS_Union
<1>8. Cardinality(AtModem(m) \cap N) = 0
  BY <1>5, FS_EmptySet
<1> QED
  BY <1>1, <1>2, <1>4, <1>6, <1>7, <1>8

(* The ids at the modem side are those that were there and those of the requests
   that came. *)
LEMMA IdsAtModem ==
  ASSUME inst \in Instances,
         NEW m \in [Slots -> Seq(RequestSet)], NEW m2 \in [Slots -> Seq(RequestSet)], NEW I,
         \A s \in Slots : \A i \in DOMAIN m2[s] :
           (\E j \in DOMAIN m[s] : m2[s][i] = m[s][j]) \/ m2[s][i].id \in I \cup {0}
  PROVE  AtModemIn(m2) \subseteq AtModemIn(m) \cup I
<1> SUFFICES ASSUME NEW x \in AtModemIn(m2) PROVE x \in AtModemIn(m) \cup I
  OBVIOUS
<1>1. PICK p \in AtModem(m2) : x = m2[p[1]][p[2]].id /\ x # 0
  BY DEF AtModemIn
<1>2. PICK s \in Slots, i \in Nat : p = << s, i >>
  BY <1>1, AtModemPlaces
<1>3. i \in DOMAIN m2[s] /\ x = m2[s][i].id
  <2>1. i \in 1 .. Len(m2[s])
    BY <1>1, <1>2, AtModemPlaces
  <2> QED
    BY <2>1, <1>1, <1>2, LenProperties
<1>4. CASE m2[s][i].id \in I \cup {0}
  BY <1>1, <1>3, <1>4
<1>5. ASSUME NEW j \in DOMAIN m[s], m2[s][i] = m[s][j] PROVE x \in AtModemIn(m)
  <2>1. j \in 1 .. Len(m[s])
    BY LenProperties
  <2>2. << s, j >> \in AtModem(m)
    BY <2>1, AtModemPlaces
  <2>3. x = m[<< s, j >>[1]][<< s, j >>[2]].id
    BY <1>3, <1>5
  <2> QED
    BY <2>2, <2>3, <1>1 DEF AtModemIn
<1> QED
  BY <1>3, <1>4, <1>5

(* The id of a request at the modem side is among them. *)
LEMMA IdAtModem ==
  ASSUME inst \in Instances, NEW m \in [Slots -> Seq(RequestSet)], NEW s \in Slots,
         NEW i \in DOMAIN m[s]
  PROVE  {m[s][i].id} \ {0} \subseteq AtModemIn(m)
<1>1. i \in 1 .. Len(m[s])
  BY LenProperties
<1>2. << s, i >> \in AtModem(m)
  BY <1>1, AtModemPlaces
<1>3. m[s][i].id = m[<< s, i >>[1]][<< s, i >>[2]].id
  OBVIOUS
<1> QED
  BY <1>2, <1>3 DEF AtModemIn

(* Nothing at the modem side: no ids there. *)
LEMMA NoneAtModem ==
  ASSUME inst \in Instances, NEW m \in [Slots -> Seq(RequestSet)], Cardinality(AtModem(m)) = 0
  PROVE  AtModemIn(m) = {}
<1>1. IsFiniteSet(AtModem(m))
  BY AtModemPlaces
<1>2. AtModem(m) = {}
  BY <1>1, FS_EmptySet
<1> QED
  BY <1>2 DEF AtModemIn

(* No responses: no answers. *)
LEMMA NoAnswers ==
  ASSUME NEW q \in Seq(MessageSet), Cardinality(ResponsesIn(q)) = 0
  PROVE  AnswersIn(q) = {}
<1>1. ResponsesIn(q) \subseteq 1 .. Len(q) /\ 1 \in Int /\ Len(q) \in Int
  BY LenProperties DEF ResponsesIn
<1>2. IsFiniteSet(ResponsesIn(q))
  BY <1>1, FS_Interval, FS_Subset
<1>3. ResponsesIn(q) = {}
  BY <1>2, FS_EmptySet
<1> QED
  BY <1>3 DEF AnswersIn
-----------------------------------------------------------------------------
(* What the steps have in common *)

(* A list of requests has no responses, and is a list of messages. *)
LEMMA OnlyRequests ==
  ASSUME NEW q \in Seq(RequestSet)
  PROVE  /\ q \in Seq(MessageSet) /\ ResponsesIn(q) = {} /\ AnswersIn(q) = {} /\ PeersThere(q)
         /\ Cardinality(ResponsesIn(q)) = 0
<1>1. RequestSet \subseteq MessageSet
  BY DEF RequestSet, MessageSet
<1>2. q \in Seq(MessageSet)
  BY <1>1, SeqMonotonic
<1>3. \A i \in DOMAIN q : q[i].type = "request"
  <2>1. \A i \in DOMAIN q : q[i] \in RequestSet
    BY LenProperties, ElementOfSeq
  <2> QED
    BY <2>1 DEF RequestSet
<1>4. ResponsesIn(q) = {} /\ AnswersIn(q) = {} /\ PeersThere(q)
  BY <1>3 DEF ResponsesIn, AnswersIn, PeersThere
<1> QED
  BY <1>2, <1>4, FS_EmptySet

(* The instance stays, and with it slots and messages. *)
LEMMA SameInstance ==
  ASSUME UNCHANGED inst
  PROVE  /\ Slots' = Slots /\ MessageSet' = MessageSet /\ RequestSet' = RequestSet
         /\ AtModem(mcl)' = AtModem(mcl') /\ AtModemIn(mcl)' = AtModemIn(mcl')
         /\ PeersThere(mainLooper)' = PeersThere(mainLooper')
<1>1. Slots' = Slots
  BY DEF Slots, SimCount
<1>2. MessageSet' = MessageSet /\ RequestSet' = RequestSet
  BY <1>1 DEF MessageSet, RequestSet
<1>3. AtModem(mcl)' = AtModem(mcl')
  BY <1>1 DEF AtModem
<1>4. AtModemIn(mcl)' = AtModemIn(mcl')
  BY <1>3 DEF AtModemIn
<1>5. PeersThere(mainLooper)' = PeersThere(mainLooper')
  BY <1>1 DEF PeersThere, Peers
<1> QED
  BY <1>1, <1>2, <1>3, <1>4, <1>5

(* Three lists one after the other, however they are grouped *)
LEMMA Regrouped ==
  ASSUME NEW p \in Seq(MessageSet), NEW q \in Seq(MessageSet), NEW r \in Seq(MessageSet)
  PROVE  p \o (q \o r) = (p \o q) \o r
<1>1. /\ p \o q \in Seq(MessageSet) /\ q \o r \in Seq(MessageSet)
      /\ Len(p \o q) = Len(p) + Len(q) /\ Len(q \o r) = Len(q) + Len(r)
      /\ Len(p) \in Nat /\ Len(q) \in Nat /\ Len(r) \in Nat
      /\ \A i \in 1 .. Len(p) + Len(q) : (p \o q)[i] = IF i <= Len(p) THEN p[i] ELSE q[i - Len(p)]
      /\ \A i \in 1 .. Len(q) + Len(r) : (q \o r)[i] = IF i <= Len(q) THEN q[i] ELSE r[i - Len(q)]
  BY ConcatProperties, LenProperties
<1> DEFINE a == p \o q
           b == q \o r
<1> HIDE DEF a, b
<1>2. /\ p \o b \in Seq(MessageSet) /\ a \o r \in Seq(MessageSet)
      /\ Len(p \o b) = Len(p) + Len(b) /\ Len(a \o r) = Len(a) + Len(r)
      /\ \A i \in 1 .. Len(p) + Len(b) : (p \o b)[i] = IF i <= Len(p) THEN p[i] ELSE b[i - Len(p)]
      /\ \A i \in 1 .. Len(a) + Len(r) : (a \o r)[i] = IF i <= Len(a) THEN a[i] ELSE r[i - Len(a)]
  <2>1. a \in Seq(MessageSet) /\ b \in Seq(MessageSet)
    BY <1>1 DEF a, b
  <2> QED
    BY <2>1, ConcatProperties
<1>3. Len(a) = Len(p) + Len(q) /\ Len(b) = Len(q) + Len(r)
  BY <1>1 DEF a, b
<1>4. \A i \in 1 .. Len(p) + Len(q) + Len(r) : (p \o b)[i] = (a \o r)[i]
  <2> DEFINE f == p \o b
             g == a \o r
  <2>1. /\ \A i \in 1 .. Len(p) + Len(b) : f[i] = IF i <= Len(p) THEN p[i] ELSE b[i - Len(p)]
        /\ \A i \in 1 .. Len(a) + Len(r) : g[i] = IF i <= Len(a) THEN a[i] ELSE r[i - Len(a)]
        /\ \A i \in 1 .. Len(p) + Len(q) : a[i] = IF i <= Len(p) THEN p[i] ELSE q[i - Len(p)]
        /\ \A i \in 1 .. Len(q) + Len(r) : b[i] = IF i <= Len(q) THEN q[i] ELSE r[i - Len(q)]
    BY <1>1, <1>2 DEF a, b
  <2> HIDE DEF f, g
  <2> SUFFICES ASSUME NEW i \in 1 .. Len(p) + Len(q) + Len(r) PROVE f[i] = g[i]
    BY DEF f, g
  <2>2. i \in 1 .. Len(p) + Len(b) /\ i \in 1 .. Len(a) + Len(r)
    BY <1>1, <1>3
  <2>3. CASE i <= Len(p)
    <3>1. i \in 1 .. Len(p) + Len(q) /\ i <= Len(a)
      BY <2>3, <1>1, <1>3
    <3> QED
      BY <2>1, <2>2, <2>3, <3>1
  <2>4. CASE i > Len(p) /\ i <= Len(p) + Len(q)
    <3>1. /\ i - Len(p) \in 1 .. Len(q) + Len(r) /\ i - Len(p) <= Len(q) /\ i \in 1 .. Len(p) + Len(q)
          /\ ~(i <= Len(p)) /\ i <= Len(a)
      BY <2>4, <1>1, <1>3
    <3> QED
      BY <2>1, <2>2, <3>1
  <2>5. CASE i > Len(p) + Len(q)
    <3>1. /\ i - Len(p) \in 1 .. Len(q) + Len(r) /\ ~(i - Len(p) <= Len(q))
          /\ (i - Len(p)) - Len(q) = i - Len(a) /\ ~(i <= Len(p)) /\ ~(i <= Len(a))
      BY <2>5, <1>1, <1>3
    <3> QED
      BY <2>1, <2>2, <3>1
  <2> QED
    BY <2>3, <2>4, <2>5, <1>1
<1>5. Len(p \o b) = Len(a \o r) /\ Len(p \o b) = Len(p) + Len(q) + Len(r)
  BY <1>1, <1>2, <1>3
<1>6. p \o b = a \o r
  BY <1>2, <1>4, <1>5, SeqEqual
<1> QED
  BY <1>6 DEF a, b

(* Messages that come behind the others (m_pLooper->sendMessage) *)
LEMMA Sent ==
  ASSUME AllowTypes, UNCHANGED << inst, suspended >>, NEW q \in Seq(MessageSet),
         mainLooper' = mainLooper \o q
  PROVE  /\ mainLooper' \in Seq(MessageSet)
         /\ Waiting' = Waiting \cup WaitingIn(q)
         /\ InOrder(Pending) /\ InOrder(q) /\ Below(Waiting, WaitingIn(q)) => InOrder(Pending')
         /\ AnswersIn(mainLooper') = AnswersIn(mainLooper) \cup AnswersIn(q)
         /\ Cardinality(ResponsesIn(mainLooper'))
              = Cardinality(ResponsesIn(mainLooper)) + Cardinality(ResponsesIn(q))
         /\ Cardinality(ResponsesIn(mainLooper)) \in Nat /\ Cardinality(ResponsesIn(q)) \in Nat
         /\ PeersThere(mainLooper) /\ PeersThere(q) => PeersThere(mainLooper)'
<1>1. mainLooper \in Seq(MessageSet) /\ suspended \in Seq(MessageSet)
  BY OnlyRequests DEF AllowTypes
<1>2. Pending \in Seq(MessageSet) /\ Pending' = Pending \o q
  <2>1. Pending \in Seq(MessageSet)
    BY <1>1, ConcatProperties DEF Pending
  <2>2. suspended \o (mainLooper \o q) = (suspended \o mainLooper) \o q
    BY <1>1, Regrouped
  <2> QED
    BY <2>1, <2>2 DEF Pending
<1>3. Waiting' = Waiting \cup WaitingIn(q)
  <2>1. WaitingIn(Pending \o q) = WaitingIn(Pending) \cup WaitingIn(q)
    BY <1>2, Joined
  <2>2. Waiting' = WaitingIn(Pending')
    BY DEF Waiting, WaitingIn
  <2> QED
    BY <2>1, <2>2, <1>2 DEF Waiting
<1>4. InOrder(Pending) /\ InOrder(q) /\ Below(Waiting, WaitingIn(q)) => InOrder(Pending')
  <2>1. InOrder(Pending) /\ InOrder(q) /\ Below(WaitingIn(Pending), WaitingIn(q)) => InOrder(Pending \o q)
    BY <1>2, Joined
  <2> QED
    BY <2>1, <1>2 DEF Waiting
<1>5. PeersThere(mainLooper \o q) <=> PeersThere(mainLooper) /\ PeersThere(q)
  BY <1>1, Joined
<1>6. PeersThere(mainLooper) /\ PeersThere(q) => PeersThere(mainLooper)'
  BY <1>5, SameInstance
<1>7. /\ AnswersIn(mainLooper') = AnswersIn(mainLooper) \cup AnswersIn(q)
      /\ mainLooper' \in Seq(MessageSet)
      /\ Cardinality(ResponsesIn(mainLooper'))
           = Cardinality(ResponsesIn(mainLooper)) + Cardinality(ResponsesIn(q))
      /\ Cardinality(ResponsesIn(mainLooper)) \in Nat /\ Cardinality(ResponsesIn(q)) \in Nat
  BY <1>1, Joined
<1> QED
  BY <1>3, <1>4, <1>6, <1>7

(* The main thread has handled a message that is no request; the suspended ones may
   have returned to the front (processMessage). *)
LEMMA Handled ==
  ASSUME AllowTypes, UNCHANGED inst, mainLooper # << >>, Head(mainLooper).type # "request",
         NEW d \in BOOLEAN, Resumed(d, Tail(mainLooper))
  PROVE  /\ Head(mainLooper) \in MessageSet
         /\ mainLooper' \in Seq(MessageSet) /\ suspended' \in Seq(RequestSet)
         /\ ~d => suspended' = << >>
         /\ Waiting' = Waiting
         /\ InOrder(Pending) => InOrder(Pending')
         /\ AnswersIn(mainLooper') \subseteq AnswersIn(mainLooper)
         /\ Head(mainLooper).type = "response" =>
              /\ {Head(mainLooper).id} \ {0} \subseteq AnswersIn(mainLooper)
              /\ Cardinality(ResponsesIn(mainLooper)) = Cardinality(ResponsesIn(mainLooper')) + 1
         /\ Head(mainLooper).type # "response" =>
              Cardinality(ResponsesIn(mainLooper)) = Cardinality(ResponsesIn(mainLooper'))
         /\ Cardinality(ResponsesIn(mainLooper')) \in Nat
         /\ PeersThere(mainLooper) => PeersThere(mainLooper)'
<1> DEFINE h == Head(mainLooper)
           t == Tail(mainLooper)
<1>1. /\ mainLooper \in Seq(MessageSet) /\ suspended \in Seq(MessageSet) /\ suspended \in Seq(RequestSet)
      /\ AnswersIn(suspended) = {} /\ PeersThere(suspended) /\ Cardinality(ResponsesIn(suspended)) = 0
  BY OnlyRequests DEF AllowTypes
<1>2. h \in MessageSet /\ t \in Seq(MessageSet) /\ mainLooper = << h >> \o t
  BY <1>1, First
<1>3. /\ << h >> \in Seq(MessageSet) /\ WaitingIn(<< h >>) = {}
      /\ AnswersIn(<< h >>) = IF h.type = "response" THEN {h.id} \ {0} ELSE {}
      /\ Cardinality(ResponsesIn(<< h >>)) = IF h.type = "response" THEN 1 ELSE 0
  BY <1>2, Single
<1> HIDE DEF h, t
<1>4. /\ WaitingIn(mainLooper) = WaitingIn(t)
      /\ AnswersIn(mainLooper) = AnswersIn(<< h >>) \cup AnswersIn(t)
      /\ InOrder(mainLooper) => InOrder(t)
      /\ Cardinality(ResponsesIn(mainLooper)) = Cardinality(ResponsesIn(<< h >>)) + Cardinality(ResponsesIn(t))
      /\ Cardinality(ResponsesIn(t)) \in Nat
      /\ PeersThere(mainLooper) => PeersThere(t)
  <2>1. /\ WaitingIn(<< h >> \o t) = WaitingIn(<< h >>) \cup WaitingIn(t)
        /\ AnswersIn(<< h >> \o t) = AnswersIn(<< h >>) \cup AnswersIn(t)
        /\ InOrder(<< h >> \o t) => InOrder(t)
        /\ Cardinality(ResponsesIn(<< h >> \o t)) = Cardinality(ResponsesIn(<< h >>)) + Cardinality(ResponsesIn(t))
        /\ Cardinality(ResponsesIn(t)) \in Nat
        /\ PeersThere(<< h >> \o t) => PeersThere(t)
    BY <1>2, <1>3, Joined
  <2> QED
    BY <2>1, <1>2, <1>3
<1>5. /\ suspended \o t \in Seq(MessageSet)
      /\ WaitingIn(suspended \o t) = WaitingIn(Pending)
      /\ InOrder(Pending) => InOrder(suspended \o t)
      /\ AnswersIn(suspended \o t) = AnswersIn(t)
      /\ Cardinality(ResponsesIn(suspended \o t)) = Cardinality(ResponsesIn(t))
      /\ PeersThere(t) => PeersThere(suspended \o t)
  <2>1. /\ suspended \o t \in Seq(MessageSet)
        /\ WaitingIn(suspended \o t) = WaitingIn(suspended) \cup WaitingIn(t)
        /\ InOrder(suspended) /\ InOrder(t) /\ Below(WaitingIn(suspended), WaitingIn(t)) => InOrder(suspended \o t)
        /\ AnswersIn(suspended \o t) = AnswersIn(suspended) \cup AnswersIn(t)
        /\ Cardinality(ResponsesIn(suspended \o t)) = Cardinality(ResponsesIn(suspended)) + Cardinality(ResponsesIn(t))
        /\ PeersThere(suspended) /\ PeersThere(t) => PeersThere(suspended \o t)
    BY <1>1, <1>2, Joined
  <2>2. /\ WaitingIn(suspended \o mainLooper) = WaitingIn(suspended) \cup WaitingIn(mainLooper)
        /\ InOrder(suspended \o mainLooper)
             => InOrder(suspended) /\ InOrder(mainLooper) /\ Below(WaitingIn(suspended), WaitingIn(mainLooper))
    BY <1>1, Joined
  <2> QED
    BY <2>1, <2>2, <1>1, <1>4 DEF Pending
<1>6. /\ mainLooper' \in Seq(MessageSet) /\ suspended' \in Seq(RequestSet)
      /\ ~d => suspended' = << >>
      /\ Pending' = suspended \o t
      /\ AnswersIn(mainLooper') = AnswersIn(t)
      /\ Cardinality(ResponsesIn(mainLooper')) = Cardinality(ResponsesIn(t))
      /\ PeersThere(t) => PeersThere(mainLooper')
  <2>1. CASE d
    <3>1. mainLooper' = t /\ suspended' = suspended
      BY <2>1 DEF Resumed, t
    <3> QED
      BY <3>1, <2>1, <1>1, <1>2 DEF Pending
  <2>2. CASE ~d
    <3>1. mainLooper' = suspended \o t /\ suspended' = << >>
      BY <2>2 DEF Resumed, t
    <3>2. << >> \o (suspended \o t) = suspended \o t
      BY <1>5, ConcatEmptySeq
    <3>3. << >> \in Seq(RequestSet)
      BY EmptySeq
    <3>4. Pending' = suspended \o t
      BY <3>1, <3>2 DEF Pending
    <3> QED
      BY <3>1, <3>3, <3>4, <1>5
  <2> QED
    BY <2>1, <2>2
<1>7. Waiting' = Waiting /\ (InOrder(Pending) => InOrder(Pending'))
  <2>1. Waiting' = WaitingIn(Pending')
    BY DEF Waiting, WaitingIn
  <2> QED
    BY <2>1, <1>5, <1>6 DEF Waiting
<1>8. PeersThere(mainLooper) => PeersThere(mainLooper)'
  BY <1>4, <1>6, SameInstance
<1>9. h.type = "response" =>
         /\ {h.id} \ {0} \subseteq AnswersIn(mainLooper)
         /\ Cardinality(ResponsesIn(mainLooper)) = Cardinality(ResponsesIn(mainLooper')) + 1
  BY <1>3, <1>4, <1>6
<1>10. h.type # "response" => Cardinality(ResponsesIn(mainLooper)) = Cardinality(ResponsesIn(mainLooper'))
  BY <1>3, <1>4, <1>6
<1>11. AnswersIn(mainLooper') \subseteq AnswersIn(mainLooper) /\ Cardinality(ResponsesIn(mainLooper')) \in Nat
  BY <1>4, <1>6
<1> QED
  BY <1>2, <1>6, <1>7, <1>8, <1>9, <1>10, <1>11 DEF h

(* The order is kept by a step that answers nothing and lets ids come only from those
   that are under way or wait, or new ones. *)
LEMMA OrderStep ==
  ASSUME IdsInOrder, requests \in Nat, requests' \in Nat, requests <= requests', UNCHANGED answered,
         InOrder(Pending'), Below(Current', Waiting'),
         Current' \cup Waiting' \subseteq Current \cup Waiting \cup (requests + 1 .. requests')
  PROVE  IdsInOrder'
<1>1. /\ \A i, j \in DOMAIN answered : i < j => answered[i] < answered[j]
      /\ Below(Answered, Current \cup Waiting)
      /\ Current \cup Waiting \cup Answered \subseteq 1 .. requests
  BY DEF IdsInOrder
<1>2. Answered' = Answered
  BY DEF Answered
<1>3. Below(Answered, Current' \cup Waiting')
  <2> SUFFICES ASSUME NEW a \in Answered, NEW b \in Current' \cup Waiting' PROVE a < b
    BY DEF Below
  <2>1. CASE b \in Current \cup Waiting
    BY <2>1, <1>1 DEF Below
  <2>2. CASE b \in requests + 1 .. requests'
    <3>1. a \in 1 .. requests
      BY <1>1
    <3> QED
      BY <3>1, <2>2
  <2> QED
    BY <2>1, <2>2
<1>4. Current' \cup Waiting' \cup Answered \subseteq 1 .. requests'
  <2>1. 1 .. requests \subseteq 1 .. requests' /\ requests + 1 .. requests' \subseteq 1 .. requests'
    OBVIOUS
  <2> QED
    BY <2>1, <1>1
<1>5. InOrder(Pending)' /\ Below(Current, Waiting)' /\ Below(Answered, Current \cup Waiting)'
  BY <1>2, <1>3 DEF InOrder, Below
<1> QED
  BY <1>1, <1>2, <1>4, <1>5 DEF IdsInOrder
-----------------------------------------------------------------------------
(* Requests go to the modem side and come back *)

\* How the channels change: one request more, one less, one more on each of some slots
Channels == [Slots -> Seq(RequestSet)]

SentTo(m, m2, s, r) ==
  /\ m \in Channels /\ m2 \in Channels /\ s \in Slots /\ r \in RequestSet
  /\ \A t \in Slots : m2[t] = IF t = s THEN Append(m[t], r) ELSE m[t]
TakenFrom(m, m2, s) ==
  /\ m \in Channels /\ m2 \in Channels /\ s \in Slots /\ m[s] # << >>
  /\ \A t \in Slots : m2[t] = IF t = s THEN Tail(m[t]) ELSE m[t]
SentToEach(m, m2, P) ==
  /\ m \in Channels /\ m2 \in Channels /\ P \subseteq Slots
  /\ \A t \in Slots : m2[t] = IF t \in P THEN Append(m[t], Request(t, FALSE, 0)) ELSE m[t]

(* A request sent to a slot's channel is one more there, with its id. *)
LEMMA OneMore ==
  ASSUME inst \in Instances, NEW m, NEW m2, NEW s, NEW r, SentTo(m, m2, s, r)
  PROVE  /\ Cardinality(AtModem(m2)) = Cardinality(AtModem(m)) + 1
         /\ Cardinality(AtModem(m)) \in Nat
         /\ AtModemIn(m2) \subseteq AtModemIn(m) \cup ({r.id} \ {0})
<1>0. /\ m \in [Slots -> Seq(RequestSet)] /\ m2 \in [Slots -> Seq(RequestSet)] /\ s \in Slots /\ r \in RequestSet
      /\ \A t \in Slots : m2[t] = IF t = s THEN Append(m[t], r) ELSE m[t]
  BY DEF SentTo, Channels
<1>1. m[s] \in Seq(RequestSet)
  BY <1>0
<1>2. /\ Append(m[s], r) \in Seq(RequestSet) /\ Len(Append(m[s], r)) = Len(m[s]) + 1
      /\ \A i \in 1 .. Len(m[s]) : Append(m[s], r)[i] = m[s][i]
      /\ Append(m[s], r)[Len(m[s]) + 1] = r
  BY <1>0, <1>1, AppendProperties
<1>3. /\ m2 \in [Slots -> Seq(RequestSet)] /\ m2[s] = Append(m[s], r)
      /\ \A t \in Slots : t # s => m2[t] = m[t]
  BY <1>0
<1>4. \A t \in Slots : Len(m2[t]) = IF t \in {s} THEN Len(m[t]) + 1 ELSE Len(m[t])
  BY <1>0, <1>2, <1>3
<1>5. /\ Cardinality(AtModem(m2)) = Cardinality(AtModem(m)) + 1
      /\ Cardinality(AtModem(m)) \in Nat
  <2> DEFINE P == {s}
  <2>1. P \in SUBSET Slots /\ Cardinality(P) = 1
    BY <1>0, FS_Singleton
  <2>2. \A t \in Slots : Len(m2[t]) = IF t \in P THEN Len(m[t]) + 1 ELSE Len(m[t])
    BY <1>0, <1>4
  <2>3. m2 \in [Slots -> Seq(RequestSet)]
    BY <1>0, <1>3
  <2> HIDE DEF P
  <2>4. /\ Cardinality(AtModem(m2)) = Cardinality(AtModem(m)) + Cardinality(P)
        /\ Cardinality(AtModem(m)) \in Nat
    BY <1>0, <2>1, <2>2, <2>3, OneMoreEach
  <2> QED
    BY <1>0, <2>1, <2>4
<1>6. \A t \in Slots : \A i \in DOMAIN m2[t] :
        (\E j \in DOMAIN m[t] : m2[t][i] = m[t][j]) \/ m2[t][i].id \in ({r.id} \ {0}) \cup {0}
  <2> SUFFICES ASSUME NEW t \in Slots, NEW i \in DOMAIN m2[t]
               PROVE  (\E j \in DOMAIN m[t] : m2[t][i] = m[t][j]) \/ m2[t][i].id \in ({r.id} \ {0}) \cup {0}
    BY <1>0
  <2>1. CASE t # s
    BY <1>0, <2>1, <1>3
  <2>2. CASE t = s
    <3>1. /\ DOMAIN m[s] = 1 .. Len(m[s]) /\ Len(m[s]) \in Nat
          /\ i \in 1 .. Len(m[s]) + 1
      BY <1>0, <2>2, <1>1, <1>2, <1>3, LenProperties
    <3>2. CASE i = Len(m[s]) + 1
      BY <1>0, <3>2, <2>2, <1>2, <1>3
    <3>3. CASE i \in 1 .. Len(m[s])
      BY <1>0, <3>1, <3>3, <2>2, <1>2, <1>3
    <3> QED
      BY <1>0, <3>1, <3>2, <3>3
  <2> QED
    BY <1>0, <2>1, <2>2
<1>7. AtModemIn(m2) \subseteq AtModemIn(m) \cup ({r.id} \ {0})
  <2> DEFINE I == {r.id} \ {0}
  <2>1. \A t \in Slots : \A i \in DOMAIN m2[t] :
          (\E j \in DOMAIN m[t] : m2[t][i] = m[t][j]) \/ m2[t][i].id \in I \cup {0}
    BY <1>0, <1>6
  <2> HIDE DEF I
  <2>2. AtModemIn(m2) \subseteq AtModemIn(m) \cup I
    BY <1>0, <2>1, <1>3, IdsAtModem
  <2> QED
    BY <1>0, <2>2 DEF I
<1> QED
  BY <1>0, <1>3, <1>5, <1>7

(* The modem side takes the first request of a channel: one less, whose id was there. *)
LEMMA OneLess ==
  ASSUME inst \in Instances, NEW m, NEW m2, NEW s, TakenFrom(m, m2, s)
  PROVE  /\ Head(m[s]) \in RequestSet
         /\ Cardinality(AtModem(m)) = Cardinality(AtModem(m2)) + 1
         /\ Cardinality(AtModem(m2)) \in Nat
         /\ AtModemIn(m2) \subseteq AtModemIn(m)
         /\ {Head(m[s]).id} \ {0} \subseteq AtModemIn(m)
<1>0. /\ m \in [Slots -> Seq(RequestSet)] /\ m2 \in [Slots -> Seq(RequestSet)] /\ s \in Slots /\ m[s] # << >>
      /\ \A t \in Slots : m2[t] = IF t = s THEN Tail(m[t]) ELSE m[t]
  BY DEF TakenFrom, Channels
<1>1. m[s] \in Seq(RequestSet) /\ Len(m[s]) \in Nat \ {0}
  BY <1>0, EmptySeq
<1>2. /\ Tail(m[s]) \in Seq(RequestSet) /\ Len(Tail(m[s])) = Len(m[s]) - 1 /\ Head(m[s]) \in RequestSet
      /\ \A i \in 1 .. Len(Tail(m[s])) : Tail(m[s])[i] = m[s][i + 1]
  BY <1>0, <1>1, HeadTailProperties
<1>3. /\ m2 \in [Slots -> Seq(RequestSet)] /\ m2[s] = Tail(m[s])
      /\ \A t \in Slots : t # s => m2[t] = m[t]
  BY <1>0
<1>4. \A t \in Slots : Len(m[t]) = IF t \in {s} THEN Len(m2[t]) + 1 ELSE Len(m2[t])
  BY <1>0, <1>1, <1>2, <1>3
<1>5. /\ Cardinality(AtModem(m)) = Cardinality(AtModem(m2)) + 1
      /\ Cardinality(AtModem(m2)) \in Nat
  <2> DEFINE P == {s}
  <2>1. P \in SUBSET Slots /\ Cardinality(P) = 1
    BY <1>0, FS_Singleton
  <2>2. \A t \in Slots : Len(m[t]) = IF t \in P THEN Len(m2[t]) + 1 ELSE Len(m2[t])
    BY <1>0, <1>4
  <2>3. m2 \in [Slots -> Seq(RequestSet)]
    BY <1>0, <1>3
  <2> HIDE DEF P
  <2>4. /\ Cardinality(AtModem(m)) = Cardinality(AtModem(m2)) + Cardinality(P)
        /\ Cardinality(AtModem(m2)) \in Nat
    BY <1>0, <2>1, <2>2, <2>3, OneMoreEach
  <2> QED
    BY <1>0, <2>1, <2>4
<1>6. \A t \in Slots : \A i \in DOMAIN m2[t] : \E j \in DOMAIN m[t] : m2[t][i] = m[t][j]
  <2> SUFFICES ASSUME NEW t \in Slots, NEW i \in DOMAIN m2[t] PROVE \E j \in DOMAIN m[t] : m2[t][i] = m[t][j]
    BY <1>0
  <2>1. CASE t # s
    BY <1>0, <2>1, <1>3
  <2>2. CASE t = s
    <3>1. DOMAIN m[s] = 1 .. Len(m[s]) /\ i \in 1 .. Len(Tail(m[s]))
      BY <1>0, <2>2, <1>1, <1>2, <1>3, LenProperties
    <3>2. i + 1 \in 1 .. Len(m[s])
      BY <1>0, <3>1, <1>1, <1>2
    <3> QED
      BY <1>0, <3>1, <3>2, <2>2, <1>2, <1>3
  <2> QED
    BY <1>0, <2>1, <2>2
<1>7. AtModemIn(m2) \subseteq AtModemIn(m)
  <2> DEFINE I == {}
  <2>1. \A t \in Slots : \A i \in DOMAIN m2[t] :
          (\E j \in DOMAIN m[t] : m2[t][i] = m[t][j]) \/ m2[t][i].id \in I \cup {0}
    BY <1>0, <1>6
  <2> HIDE DEF I
  <2>2. AtModemIn(m2) \subseteq AtModemIn(m) \cup I
    BY <1>0, <2>1, <1>3, IdsAtModem
  <2> QED
    BY <1>0, <2>2 DEF I
<1>8. {Head(m[s]).id} \ {0} \subseteq AtModemIn(m)
  <2>1. 1 \in DOMAIN m[s] /\ Head(m[s]) = m[s][1]
    BY <1>0, <1>1, LenProperties
  <2>2. {m[s][1].id} \ {0} \subseteq AtModemIn(m)
    BY <1>0, <2>1, IdAtModem
  <2> QED
    BY <1>0, <2>1, <2>2
<1> QED
  BY <1>0, <1>2, <1>3, <1>5, <1>7, <1>8

(* One of the daemon's own requests to each of some slots: as many more, no new id. *)
LEMMA OneToEach ==
  ASSUME inst \in Instances, NEW m, NEW m2, NEW P, SentToEach(m, m2, P)
  PROVE  /\ Cardinality(AtModem(m2)) = Cardinality(AtModem(m)) + Cardinality(P)
         /\ Cardinality(AtModem(m)) \in Nat /\ Cardinality(P) \in Nat
         /\ AtModemIn(m2) \subseteq AtModemIn(m)
<1>0. /\ m \in [Slots -> Seq(RequestSet)] /\ m2 \in [Slots -> Seq(RequestSet)] /\ P \in SUBSET Slots
      /\ \A t \in Slots : m2[t] = IF t \in P THEN Append(m[t], Request(t, FALSE, 0)) ELSE m[t]
  BY DEF SentToEach, Channels
<1>1. \A t \in Slots : Request(t, FALSE, 0) \in RequestSet /\ Request(t, FALSE, 0).id = 0
  BY DEF Request, RequestSet
<1>2. ASSUME NEW t \in Slots
      PROVE  /\ Append(m[t], Request(t, FALSE, 0)) \in Seq(RequestSet)
             /\ Len(Append(m[t], Request(t, FALSE, 0))) = Len(m[t]) + 1
             /\ DOMAIN Append(m[t], Request(t, FALSE, 0)) = 1 .. Len(m[t]) + 1
             /\ \A i \in 1 .. Len(m[t]) : Append(m[t], Request(t, FALSE, 0))[i] = m[t][i]
             /\ Append(m[t], Request(t, FALSE, 0))[Len(m[t]) + 1].id = 0
             /\ Len(m[t]) \in Nat /\ DOMAIN m[t] = 1 .. Len(m[t])
  <2> DEFINE r == Request(t, FALSE, 0)
             q == m[t]
  <2>1. r \in RequestSet /\ r.id = 0 /\ q \in Seq(RequestSet)
    BY <1>0, <1>1
  <2> HIDE DEF r, q
  <2>2. /\ Append(q, r) \in Seq(RequestSet) /\ Len(Append(q, r)) = Len(q) + 1
        /\ \A i \in 1 .. Len(q) : Append(q, r)[i] = q[i]
        /\ Append(q, r)[Len(q) + 1] = r
    BY <1>0, <2>1, AppendProperties
  <2>3. DOMAIN Append(q, r) = 1 .. Len(q) + 1 /\ Len(q) \in Nat /\ DOMAIN q = 1 .. Len(q)
    BY <1>0, <2>1, <2>2, LenProperties
  <2> QED
    BY <1>0, <2>1, <2>2, <2>3 DEF r, q
<1>3. /\ m2 \in [Slots -> Seq(RequestSet)]
      /\ \A t \in P : m2[t] = Append(m[t], Request(t, FALSE, 0))
      /\ \A t \in Slots \ P : m2[t] = m[t]
  BY <1>0
<1>4. \A t \in Slots : Len(m2[t]) = IF t \in P THEN Len(m[t]) + 1 ELSE Len(m[t])
  BY <1>0, <1>2, <1>3
<1>5. /\ Cardinality(AtModem(m2)) = Cardinality(AtModem(m)) + Cardinality(P)
      /\ Cardinality(AtModem(m)) \in Nat /\ Cardinality(P) \in Nat
  BY <1>0, <1>3, <1>4, OneMoreEach
<1>6. \A t \in Slots : \A i \in DOMAIN m2[t] :
        (\E j \in DOMAIN m[t] : m2[t][i] = m[t][j]) \/ m2[t][i].id = 0
  <2> SUFFICES ASSUME NEW t \in Slots, NEW i \in DOMAIN m2[t]
               PROVE  (\E j \in DOMAIN m[t] : m2[t][i] = m[t][j]) \/ m2[t][i].id = 0
    BY <1>0
  <2>1. CASE t \notin P
    BY <1>0, <2>1, <1>3
  <2>2. CASE t \in P
    <3>1. i \in 1 .. Len(m[t]) + 1 /\ m2[t] = Append(m[t], Request(t, FALSE, 0))
      BY <1>0, <2>2, <1>2, <1>3
    <3>4. \A k \in Nat : \A j \in 1 .. k + 1 : j = k + 1 \/ j \in 1 .. k
      BY <1>0
    <3>5. Len(m[t]) \in Nat
      BY <1>0, <1>2
    <3>2. CASE i = Len(m[t]) + 1
      BY <1>0, <3>1, <3>2, <1>2
    <3>3. CASE i \in 1 .. Len(m[t])
      BY <1>0, <3>1, <3>3, <1>2
    <3>6. i = Len(m[t]) + 1 \/ i \in 1 .. Len(m[t])
      BY <1>0, <3>1, <3>4, <3>5
    <3> QED
      BY <1>0, <3>2, <3>3, <3>6
  <2> QED
    BY <1>0, <2>1, <2>2
<1>7. AtModemIn(m2) \subseteq AtModemIn(m)
  <2> DEFINE I == {}
  <2>1. \A t \in Slots : \A i \in DOMAIN m2[t] :
          (\E j \in DOMAIN m[t] : m2[t][i] = m[t][j]) \/ m2[t][i].id \in I \cup {0}
    BY <1>0, <1>6
  <2> HIDE DEF I
  <2>2. AtModemIn(m2) \subseteq AtModemIn(m) \cup I
    BY <1>0, <2>1, <1>3, IdsAtModem
  <2> QED
    BY <1>0, <2>2 DEF I
<1> QED
  BY <1>0, <1>3, <1>5, <1>7
-----------------------------------------------------------------------------
(* The framework asks *)

(* A list of the daemon's own requests waits for none of the framework's. *)
LEMMA OwnRequests ==
  ASSUME NEW q \in Seq(RequestSet), \A i \in DOMAIN q : q[i].id = 0
  PROVE  WaitingIn(q) = {} /\ InOrder(q)
BY DEF WaitingIn, InOrder

(* onSetDataAllow sends one request for every slot, the allowed one last, each of
   the daemon's own. *)
LEMMA SetAllowedRequests ==
  ASSUME inst \in Instances, NEW s \in Slots
  PROVE  SetAllowed(s) \in Seq(RequestSet) /\ WaitingIn(SetAllowed(s)) = {} /\ InOrder(SetAllowed(s))
<1> DEFINE p == [i \in 1 .. SimCount - 1 |-> Request(IF i <= s THEN i - 1 ELSE i, FALSE, 0)]
           q == << Request(s, TRUE, 0) >>
           R == {r \in RequestSet : r.id = 0}
<1>1. SimCount \in Nat \ {0} /\ s \in 0 .. SimCount - 1
  BY DataAllowAssumption DEF SimCount, Slots
<1>2. \A t \in Slots : \A b \in BOOLEAN : Request(t, b, 0) \in R
  BY DEF Request, RequestSet
<1>3. \A i \in 1 .. SimCount - 1 : Request(IF i <= s THEN i - 1 ELSE i, FALSE, 0) \in R
  <2> SUFFICES ASSUME NEW i \in 1 .. SimCount - 1
               PROVE  Request(IF i <= s THEN i - 1 ELSE i, FALSE, 0) \in R
    OBVIOUS
  <2>1. (IF i <= s THEN i - 1 ELSE i) \in Slots
    BY <1>1 DEF Slots
  <2> QED
    BY <2>1, <1>2
<1>4. p \in Seq(R) /\ q \in Seq(R)
  <2> HIDE DEF R
  <2>1. SimCount - 1 \in Nat
    BY <1>1
  <2>2. p \in [1 .. SimCount - 1 -> R]
    BY <1>3
  <2>3. p \in Seq(R)
    <3> DEFINE n == SimCount - 1
    <3>1. n \in Nat /\ p \in [1 .. n -> R]
      BY <2>1, <2>2
    <3> HIDE DEF n, p
    <3> QED
      BY <3>1, SeqDef
  <2>4. q \in Seq(R)
    <3> DEFINE r == Request(s, TRUE, 0)
    <3>1. r \in R
      BY <1>2
    <3> HIDE DEF r
    <3>2. << r >> \in Seq(R)
      BY <3>1
    <3> QED
      BY <3>2 DEF r
  <2> QED
    BY <2>3, <2>4
<1>5. SetAllowed(s) \in Seq(R)
  <2>1. SetAllowed(s) = p \o q
    BY DEF SetAllowed
  <2> HIDE DEF p, q, R
  <2> QED
    BY <2>1, <1>4, ConcatProperties
<1>6. SetAllowed(s) \in Seq(RequestSet) /\ \A i \in DOMAIN SetAllowed(s) : SetAllowed(s)[i].id = 0
  <2>1. R \subseteq RequestSet
    OBVIOUS
  <2>2. \A i \in DOMAIN SetAllowed(s) : SetAllowed(s)[i] \in R
    <3> HIDE DEF R
    <3> QED
      BY <1>5, LenProperties, ElementOfSeq
  <2>3. SetAllowed(s) \in Seq(RequestSet)
    <3> HIDE DEF R
    <3> QED
      BY <1>5, <2>1, SeqMonotonic
  <2> QED
    BY <2>2, <2>3
<1> QED
  BY <1>6, OwnRequests

(* What onSetDataAllow sends, and the property it writes *)
LEMMA OnSetDataAllowSends ==
  ASSUME AllowTypes, NEW s, NEW current \in Slots \cup {NoSlot}, OnSetDataAllow(s, current)
  PROVE  /\ \E q \in Seq(RequestSet) : mainLooper' = mainLooper \o q /\ WaitingIn(q) = {} /\ InOrder(q)
         /\ allow_data_slot' \in Slots \cup {NoSlot}
<1>1. CASE s \notin Slots \/ s = current
  <2>1. mainLooper' = mainLooper \o << >>
    <3>1. mainLooper' = mainLooper /\ mainLooper \in Seq(MessageSet)
      BY <1>1 DEF OnSetDataAllow, AllowTypes
    <3> QED
      BY <3>1, ConcatEmptySeq
  <2>2. << >> \in Seq(RequestSet) /\ WaitingIn(<< >>) = {} /\ InOrder(<< >>)
    BY Nothing, EmptySeq
  <2>3. allow_data_slot' = current
    BY <1>1 DEF OnSetDataAllow
  <2> QED
    BY <2>1, <2>2, <2>3
<1>2. CASE s \in Slots /\ s # current
  <2>1. mainLooper' = mainLooper \o SetAllowed(s) /\ allow_data_slot' = s
    BY <1>2 DEF OnSetDataAllow
  <2>2. SetAllowed(s) \in Seq(RequestSet) /\ WaitingIn(SetAllowed(s)) = {} /\ InOrder(SetAllowed(s))
    BY <1>2, SetAllowedRequests DEF AllowTypes
  <2> QED
    BY <1>2, <2>1, <2>2
<1> QED
  BY <1>1, <1>2

(* A step that only sends requests, which are not taken up yet, keeps the invariant. *)
LEMMA RequestsSent ==
  ASSUME AllowInv, UNCHANGED << inst, dacVars, suspended, mcl, mdAllowed, answered >>,
         NEW q \in Seq(RequestSet), mainLooper' = mainLooper \o q, InOrder(q),
         WaitingIn(q) \subseteq requests + 1 .. requests', requests' \in Nat, requests <= requests',
         allow_data_slot' \in Slots \cup {NoSlot}
  PROVE  AllowInv'
<1>1. AllowTypes /\ FlagsAgree /\ CountAgrees /\ IdsInOrder /\ requests \in Nat
  BY DEF AllowInv, AllowTypes
<1>2. /\ inst' = inst /\ suspended' = suspended /\ mcl' = mcl /\ mdAllowed' = mdAllowed
      /\ answered' = answered /\ mDoingDataAllow' = mDoingDataAllow /\ mReqDataAllow' = mReqDataAllow
      /\ mDisallowingPeer' = mDisallowingPeer /\ mLastAllowTrueRequest' = mLastAllowTrueRequest
  BY DEF dacVars
<1>3. /\ q \in Seq(MessageSet) /\ AnswersIn(q) = {} /\ PeersThere(q) /\ Cardinality(ResponsesIn(q)) = 0
  BY OnlyRequests
<1>4. /\ Slots' = Slots /\ MessageSet' = MessageSet /\ RequestSet' = RequestSet
      /\ AtModem(mcl)' = AtModem(mcl) /\ AtModemIn(mcl)' = AtModemIn(mcl)
  BY <1>2, SameInstance
<1>5. /\ mainLooper' \in Seq(MessageSet)
      /\ Waiting' = Waiting \cup WaitingIn(q)
      /\ InOrder(Pending) /\ InOrder(q) /\ Below(Waiting, WaitingIn(q)) => InOrder(Pending')
      /\ AnswersIn(mainLooper') = AnswersIn(mainLooper)
      /\ Cardinality(ResponsesIn(mainLooper')) = Cardinality(ResponsesIn(mainLooper))
      /\ PeersThere(mainLooper) => PeersThere(mainLooper)'
  <2>1. /\ mainLooper' \in Seq(MessageSet)
        /\ Waiting' = Waiting \cup WaitingIn(q)
        /\ InOrder(Pending) /\ InOrder(q) /\ Below(Waiting, WaitingIn(q)) => InOrder(Pending')
        /\ AnswersIn(mainLooper') = AnswersIn(mainLooper) \cup AnswersIn(q)
        /\ Cardinality(ResponsesIn(mainLooper'))
             = Cardinality(ResponsesIn(mainLooper)) + Cardinality(ResponsesIn(q))
        /\ Cardinality(ResponsesIn(mainLooper)) \in Nat
        /\ PeersThere(mainLooper) /\ PeersThere(q) => PeersThere(mainLooper)'
    BY <1>1, <1>2, <1>3, Sent
  <2> QED
    BY <2>1, <1>3
<1>6. AllowTypes'
  BY <1>1, <1>2, <1>4, <1>5 DEF AllowTypes, NoSlot
<1>7. FlagsAgree'
  BY <1>1, <1>2, <1>4, <1>5 DEF FlagsAgree
<1>8. CountAgrees'
  BY <1>1, <1>2, <1>4, <1>5 DEF CountAgrees, UnderWay, ResponsesIn
<1>9. IdsInOrder'
  <2>1. Current' = Current
    BY <1>2, <1>4, <1>5 DEF Current, LastId, AnswersIn, ResponsesIn
  <2>2. Below(Current, Waiting) /\ Current \cup Waiting \subseteq 1 .. requests /\ InOrder(Pending)
    BY <1>1 DEF IdsInOrder
  <2>3. \A a \in 1 .. requests : \A b \in requests + 1 .. requests' : a < b
    BY <1>1
  <2>4. Below(Waiting, WaitingIn(q)) /\ Below(Current', Waiting')
    BY <2>1, <2>2, <2>3, <1>5 DEF Below
  <2>5. InOrder(Pending')
    BY <2>2, <2>4, <1>5
  <2> QED
    BY <1>1, <1>2, <1>5, <2>1, <2>4, <2>5, OrderStep
<1> QED
  BY <1>6, <1>7, <1>8, <1>9 DEF AllowInv

(* What the framework and the SIM lock do keeps the invariant. *)
LEMMA FrameworkStep ==
  ASSUME AllowInv, Framework, UNCHANGED inst
  PROVE  AllowInv'
<1>1. AllowTypes /\ requests \in Nat /\ mainLooper \in Seq(MessageSet) /\ inst \in Instances
  BY DEF AllowInv, AllowTypes
<1>2. allow_data_slot \in Slots \cup {NoSlot} /\ NoSlot \in Slots \cup {NoSlot}
  BY <1>1 DEF AllowTypes
<1>3. ASSUME UNCHANGED << dacVars, suspended, mcl, mdAllowed, answered, requests >>,
             NEW s, NEW current \in Slots \cup {NoSlot}, OnSetDataAllow(s, current)
      PROVE  AllowInv'
  <2>1. /\ \E q \in Seq(RequestSet) : mainLooper' = mainLooper \o q /\ WaitingIn(q) = {} /\ InOrder(q)
        /\ allow_data_slot' \in Slots \cup {NoSlot}
    BY <1>1, <1>3, OnSetDataAllowSends
  <2>2. PICK q \in Seq(RequestSet) : mainLooper' = mainLooper \o q /\ WaitingIn(q) = {} /\ InOrder(q)
    BY <2>1
  <2>3. requests' \in Nat /\ requests <= requests' /\ WaitingIn(q) \subseteq requests + 1 .. requests'
    BY <1>1, <1>3, <2>2
  <2>4. UNCHANGED << inst, dacVars, suspended, mcl, mdAllowed, answered >>
    BY <1>3
  <2> QED
    BY <2>1, <2>2, <2>3, <2>4, RequestsSent
<1>4. ASSUME UNCHANGED << dacVars, suspended, mcl, mdAllowed, answered, requests, mainLooper >>,
             allow_data_slot' \in Slots \cup {NoSlot}
      PROVE  AllowInv'
  <2> DEFINE q == << >>
  <2>1. mainLooper' = mainLooper \o q
    BY <1>1, <1>4, ConcatEmptySeq
  <2>2. q \in Seq(RequestSet) /\ WaitingIn(q) = {} /\ InOrder(q)
    BY Nothing, EmptySeq
  <2> HIDE DEF q
  <2>3. requests' \in Nat /\ requests <= requests' /\ WaitingIn(q) \subseteq requests + 1 .. requests'
    BY <1>1, <1>4, <2>2
  <2>4. UNCHANGED << inst, dacVars, suspended, mcl, mdAllowed, answered >>
    BY <1>4
  <2> QED
    BY <1>4, <2>1, <2>2, <2>3, <2>4, RequestsSent
<1>5. ASSUME NEW s \in Slots, SetPreferredDataModem(s) PROVE AllowInv'
  <2>1. UNCHANGED << dacVars, suspended, mcl, mdAllowed, answered, requests >>
    BY <1>5 DEF SetPreferredDataModem
  <2>2. PICK current \in Slots \cup {NoSlot} :
          IF mOnDemandQueue = << >> THEN OnSetDataAllow(s, current)
          ELSE allow_data_slot' = current /\ UNCHANGED << mainLooper, cleared >>
    BY <1>5, <1>2 DEF SetPreferredDataModem
  <2>3. CASE mOnDemandQueue = << >>
    BY <2>1, <2>2, <2>3, <1>3
  <2>4. CASE mOnDemandQueue # << >>
    BY <2>1, <2>2, <2>4, <1>4
  <2> QED
    BY <2>3, <2>4
<1>6. ASSUME NEW s \in Slots, SimMeLockChanged(s) PROVE AllowInv'
  <2>1. /\ UNCHANGED << dacVars, suspended, mcl, mdAllowed, answered, requests >>
        /\ OnSetDataAllow(Wanted(mOnDemandQueue'), allow_data_slot)
    BY <1>6 DEF SimMeLockChanged
  <2> QED
    BY <2>1, <1>2, <1>3
<1>7. ASSUME NEW t \in Types, NEW s \in Slots, SetupDataCall(t, s) PROVE AllowInv'
  <2>1. UNCHANGED << dacVars, suspended, mcl, mdAllowed, answered, requests >>
    BY <1>7 DEF SetupDataCall
  <2>2. \/ OnSetDataAllow(s, allow_data_slot)
        \/ UNCHANGED << mainLooper, allow_data_slot >>
    BY <1>7 DEF SetupDataCall, EnqueueNetworkRequest
  <2>3. CASE OnSetDataAllow(s, allow_data_slot)
    BY <2>1, <2>3, <1>2, <1>3
  <2>4. CASE UNCHANGED << mainLooper, allow_data_slot >>
    BY <2>1, <2>4, <1>2, <1>4
  <2> QED
    BY <2>2, <2>3, <2>4
<1>8. ASSUME NEW t \in Types, NEW s \in Slots, DeactivateDataCall(t, s) PROVE AllowInv'
  <2>1. /\ UNCHANGED << dacVars, suspended, mcl, mdAllowed, answered, requests >>
        /\ OnSetDataAllow(Wanted(mOnDemandQueue'), allow_data_slot)
    BY <1>8 DEF DeactivateDataCall
  <2> QED
    BY <2>1, <1>2, <1>3
<1>9. ASSUME NEW s \in Slots, NEW allow \in BOOLEAN, AllowData(s, allow) PROVE AllowInv'
  <2> DEFINE r == Request(s, allow, requests')
             q == << r >>
  <2>1. /\ requests' = requests + 1 /\ mainLooper' = Append(mainLooper, r)
        /\ UNCHANGED << inst, dacVars, suspended, mcl, mdAllowed, answered, allow_data_slot >>
    BY <1>9 DEF AllowData, slotVars
  <2>2. /\ r \in RequestSet /\ r \in MessageSet /\ r.type = "request" /\ r.id = requests'
    BY <1>1, <2>1 DEF Request, RequestSet, MessageSet
  <2> HIDE DEF r
  <2>3. mainLooper' = mainLooper \o q
    BY <1>1, <2>1, <2>2, AppendIsConcat
  <2>4. q \in Seq(RequestSet) /\ InOrder(q) /\ WaitingIn(q) = {r.id} \ {0}
    <3>1. << r >> \in Seq(RequestSet)
      BY <2>2
    <3>2. InOrder(<< r >>) /\ WaitingIn(<< r >>) = IF r.type = "request" THEN {r.id} \ {0} ELSE {}
      BY <2>2, Single
    <3> QED
      BY <3>1, <3>2, <2>2
  <2> HIDE DEF q
  <2>5. WaitingIn(q) \subseteq requests + 1 .. requests' /\ requests' \in Nat /\ requests <= requests'
    BY <1>1, <2>1, <2>2, <2>4
  <2>6. allow_data_slot' \in Slots \cup {NoSlot}
    BY <2>1, <1>2
  <2>7. UNCHANGED << inst, dacVars, suspended, mcl, mdAllowed, answered >>
    BY <2>1
  <2> QED
    BY <2>3, <2>4, <2>5, <2>6, <2>7, RequestsSent
<1>10. ASSUME HidlStateChanged PROVE AllowInv'
  BY <1>10, <1>2, <1>4 DEF HidlStateChanged
<1>11. ASSUME SetLegacyMode PROVE AllowInv'
  BY <1>11, <1>2, <1>4 DEF SetLegacyMode
<1> QED
  BY <1>5, <1>6, <1>7, <1>8, <1>9, <1>10, <1>11 DEF Framework
-----------------------------------------------------------------------------
(* The modem side answers *)

(* A slot's channel gets a request. *)
LEMMA ChannelGets ==
  ASSUME inst \in Instances, mcl \in [Slots -> Seq(RequestSet)], NEW s \in Slots,
         NEW r \in RequestSet, mcl' = [mcl EXCEPT ![s] = Append(@, r)]
  PROVE  /\ mcl' \in [Slots -> Seq(RequestSet)]
         /\ Cardinality(AtModem(mcl')) = Cardinality(AtModem(mcl)) + 1
         /\ Cardinality(AtModem(mcl)) \in Nat
         /\ AtModemIn(mcl') \subseteq AtModemIn(mcl) \cup ({r.id} \ {0})
<1>1. Append(mcl[s], r) \in Seq(RequestSet)
  BY AppendProperties
<1>2. /\ mcl' \in [Slots -> Seq(RequestSet)]
      /\ \A t \in Slots : mcl'[t] = IF t = s THEN Append(mcl[t], r) ELSE mcl[t]
  BY <1>1
<1>3. SentTo(mcl, mcl', s, r)
  BY <1>2 DEF SentTo, Channels
<1>4. /\ Cardinality(AtModem(mcl')) = Cardinality(AtModem(mcl)) + 1
      /\ Cardinality(AtModem(mcl)) \in Nat
      /\ AtModemIn(mcl') \subseteq AtModemIn(mcl) \cup ({r.id} \ {0})
  <2>1. ASSUME NEW m, NEW m2, SentTo(m, m2, s, r)
        PROVE  /\ Cardinality(AtModem(m2)) = Cardinality(AtModem(m)) + 1
               /\ Cardinality(AtModem(m)) \in Nat
               /\ AtModemIn(m2) \subseteq AtModemIn(m) \cup ({r.id} \ {0})
    BY <2>1, OneMore, Zenon
  <2>2. PICK m, m2 : m = mcl /\ m2 = mcl'
    OBVIOUS
  <2>3. SentTo(m, m2, s, r)
    BY <1>3, <2>2, Zenon
  <2>4. /\ Cardinality(AtModem(m2)) = Cardinality(AtModem(m)) + 1
        /\ Cardinality(AtModem(m)) \in Nat
        /\ AtModemIn(m2) \subseteq AtModemIn(m) \cup ({r.id} \ {0})
    BY <2>1, <2>3
  <2> QED
    BY <2>2, <2>4, Zenon
<1> QED
  BY <1>2, <1>4

(* The channels of some slots get one of the daemon's own requests each. *)
LEMMA ChannelsGet ==
  ASSUME inst \in Instances, mcl \in [Slots -> Seq(RequestSet)], NEW P, P \subseteq Slots,
         mcl' = [t \in Slots |-> IF t \in P THEN Append(mcl[t], Request(t, FALSE, 0)) ELSE mcl[t]]
  PROVE  /\ mcl' \in [Slots -> Seq(RequestSet)]
         /\ Cardinality(AtModem(mcl')) = Cardinality(AtModem(mcl)) + Cardinality(P)
         /\ Cardinality(AtModem(mcl)) \in Nat /\ Cardinality(P) \in Nat
         /\ AtModemIn(mcl') \subseteq AtModemIn(mcl)
<1>1. \A t \in Slots : Append(mcl[t], Request(t, FALSE, 0)) \in Seq(RequestSet)
  <2> SUFFICES ASSUME NEW t \in Slots PROVE Append(mcl[t], Request(t, FALSE, 0)) \in Seq(RequestSet)
    OBVIOUS
  <2>1. Request(t, FALSE, 0) \in RequestSet
    BY DEF Request, RequestSet
  <2> QED
    BY <2>1, AppendProperties
<1>2. /\ mcl' \in [Slots -> Seq(RequestSet)]
      /\ \A t \in Slots : mcl'[t] = IF t \in P THEN Append(mcl[t], Request(t, FALSE, 0)) ELSE mcl[t]
  BY <1>1
<1>3. SentToEach(mcl, mcl', P)
  BY <1>2 DEF SentToEach, Channels
<1>4. ASSUME NEW m, NEW m2, SentToEach(m, m2, P)
      PROVE  /\ Cardinality(AtModem(m2)) = Cardinality(AtModem(m)) + Cardinality(P)
             /\ Cardinality(AtModem(m)) \in Nat /\ Cardinality(P) \in Nat
             /\ AtModemIn(m2) \subseteq AtModemIn(m)
  BY <1>4, OneToEach, Zenon
<1>5. PICK m, m2 : m = mcl /\ m2 = mcl'
  OBVIOUS
<1>6. SentToEach(m, m2, P)
  BY <1>3, <1>5, Zenon
<1>7. /\ Cardinality(AtModem(m2)) = Cardinality(AtModem(m)) + Cardinality(P)
      /\ Cardinality(AtModem(m)) \in Nat /\ Cardinality(P) \in Nat
      /\ AtModemIn(m2) \subseteq AtModemIn(m)
  BY <1>4, <1>6
<1>8. /\ Cardinality(AtModem(mcl')) = Cardinality(AtModem(mcl)) + Cardinality(P)
      /\ Cardinality(AtModem(mcl)) \in Nat /\ Cardinality(P) \in Nat
      /\ AtModemIn(mcl') \subseteq AtModemIn(mcl)
  BY <1>5, <1>7, Zenon
<1> QED
  BY <1>2, <1>8

(* The channel takes its first request. *)
LEMMA ChannelTakes ==
  ASSUME inst \in Instances, mcl \in [Slots -> Seq(RequestSet)], NEW s \in Slots,
         mcl[s] # << >>, mcl' = [mcl EXCEPT ![s] = Tail(@)]
  PROVE  /\ mcl' \in [Slots -> Seq(RequestSet)]
         /\ Cardinality(AtModem(mcl)) = Cardinality(AtModem(mcl')) + 1
         /\ Cardinality(AtModem(mcl')) \in Nat
         /\ AtModemIn(mcl') \subseteq AtModemIn(mcl)
         /\ {Head(mcl[s]).id} \ {0} \subseteq AtModemIn(mcl)
<1>1. Tail(mcl[s]) \in Seq(RequestSet)
  BY HeadTailProperties
<1>2. /\ mcl' \in [Slots -> Seq(RequestSet)]
      /\ \A t \in Slots : mcl'[t] = IF t = s THEN Tail(mcl[t]) ELSE mcl[t]
  BY <1>1
<1>3. TakenFrom(mcl, mcl', s)
  BY <1>2 DEF TakenFrom, Channels
<1> QED
  BY <1>2, <1>3, OneLess

(* A channel that takes its first request and sends back its response, behind any
   status, moves one request from the channel to the looper. *)
LEMMA ModemAnswers ==
  ASSUME AllowInv, UNCHANGED << inst, dacVars, allow_data_slot, suspended, requests, answered >>,
         NEW s \in Slots, mcl[s] # << >>, NEW q \in Seq(MessageSet), Take(s, q),
         WaitingIn(q) = {}, InOrder(q), AnswersIn(q) = {Head(mcl[s]).id} \ {0},
         Cardinality(ResponsesIn(q)) = 1, PeersThere(q), mdAllowed' \subseteq Slots
  PROVE  AllowInv'
<1>1. /\ AllowTypes /\ FlagsAgree /\ CountAgrees /\ IdsInOrder /\ requests \in Nat /\ inst \in Instances
      /\ mcl \in [Slots -> Seq(RequestSet)]
  BY DEF AllowInv, AllowTypes
<1>2. /\ inst' = inst /\ suspended' = suspended /\ allow_data_slot' = allow_data_slot
      /\ requests' = requests /\ answered' = answered /\ mDoingDataAllow' = mDoingDataAllow
      /\ mReqDataAllow' = mReqDataAllow /\ mDisallowingPeer' = mDisallowingPeer
      /\ mLastAllowTrueRequest' = mLastAllowTrueRequest
  BY DEF dacVars
<1>3. mcl' = [mcl EXCEPT ![s] = Tail(@)] /\ mainLooper' = mainLooper \o q
  BY DEF Take
<1>4. /\ Slots' = Slots /\ MessageSet' = MessageSet /\ RequestSet' = RequestSet
      /\ AtModem(mcl)' = AtModem(mcl') /\ AtModemIn(mcl)' = AtModemIn(mcl')
  BY <1>2, SameInstance
<1>5. /\ mainLooper' \in Seq(MessageSet)
      /\ Waiting' = Waiting
      /\ InOrder(Pending) => InOrder(Pending')
      /\ AnswersIn(mainLooper') = AnswersIn(mainLooper) \cup ({Head(mcl[s]).id} \ {0})
      /\ Cardinality(ResponsesIn(mainLooper')) = Cardinality(ResponsesIn(mainLooper)) + 1
      /\ Cardinality(ResponsesIn(mainLooper)) \in Nat
      /\ PeersThere(mainLooper) => PeersThere(mainLooper)'
  <2>1. /\ mainLooper' \in Seq(MessageSet)
        /\ Waiting' = Waiting \cup WaitingIn(q)
        /\ InOrder(Pending) /\ InOrder(q) /\ Below(Waiting, WaitingIn(q)) => InOrder(Pending')
        /\ AnswersIn(mainLooper') = AnswersIn(mainLooper) \cup AnswersIn(q)
        /\ Cardinality(ResponsesIn(mainLooper'))
             = Cardinality(ResponsesIn(mainLooper)) + Cardinality(ResponsesIn(q))
        /\ Cardinality(ResponsesIn(mainLooper)) \in Nat
        /\ PeersThere(mainLooper) /\ PeersThere(q) => PeersThere(mainLooper)'
    BY <1>1, <1>2, <1>3, Sent
  <2>2. Below(Waiting, WaitingIn(q))
    BY DEF Below
  <2> QED
    BY <2>1, <2>2
<1>6. /\ mcl' \in [Slots -> Seq(RequestSet)]
      /\ Cardinality(AtModem(mcl)) = Cardinality(AtModem(mcl')) + 1
      /\ Cardinality(AtModem(mcl')) \in Nat
      /\ AtModemIn(mcl') \subseteq AtModemIn(mcl)
      /\ {Head(mcl[s]).id} \ {0} \subseteq AtModemIn(mcl)
  BY <1>1, <1>3, ChannelTakes
<1>7. AllowTypes'
  BY <1>1, <1>2, <1>4, <1>5, <1>6 DEF AllowTypes, NoSlot
<1>8. FlagsAgree'
  BY <1>1, <1>2, <1>4, <1>5 DEF FlagsAgree
<1>9. CountAgrees'
  <2>1. UnderWay' = UnderWay
    BY <1>4, <1>5, <1>6 DEF UnderWay, ResponsesIn
  <2> QED
    BY <2>1, <1>1, <1>2 DEF CountAgrees
<1>10. IdsInOrder'
  <2>1. Current' \subseteq Current
    BY <1>2, <1>4, <1>5, <1>6 DEF Current, LastId, AnswersIn, ResponsesIn
  <2>2. Below(Current, Waiting) /\ InOrder(Pending)
    BY <1>1 DEF IdsInOrder
  <2>3. Below(Current', Waiting')
    BY <2>1, <2>2, <1>5 DEF Below
  <2> QED
    BY <1>1, <1>2, <1>5, <2>1, <2>2, <2>3, OrderStep
<1> QED
  BY <1>7, <1>8, <1>9, <1>10 DEF AllowInv

(* The response to a request, the only message of its list that is no status *)
LEMMA AnswerMessages ==
  ASSUME NEW m \in RequestSet, NEW error \in {"success", "multi_allow", "not_supported"},
         error = "multi_allow" => Peers(m.slot) # {},
         NEW q \in Seq(MessageSet), NEW n \in DOMAIN q, q[n] = Response(m, error),
         \A i \in DOMAIN q : i # n => q[i].type = "sync"
  PROVE  /\ WaitingIn(q) = {} /\ InOrder(q) /\ AnswersIn(q) = {m.id} \ {0}
         /\ Cardinality(ResponsesIn(q)) = 1 /\ PeersThere(q)
<1>1. /\ q[n].type = "response" /\ q[n].id = m.id /\ q[n].slot = m.slot /\ q[n].error = error
  BY DEF Response
<1>2. \A i \in DOMAIN q : q[i].type # "request" /\ (q[i].type = "response" <=> i = n)
  BY <1>1
<1>3. ResponsesIn(q) = {n} /\ WaitingIn(q) = {} /\ InOrder(q) /\ PeersThere(q)
  BY <1>1, <1>2 DEF ResponsesIn, WaitingIn, InOrder, PeersThere
<1>4. AnswersIn(q) = {m.id} \ {0}
  BY <1>1, <1>3 DEF AnswersIn
<1> QED
  BY <1>3, <1>4, FS_Singleton

(* What the modem side does keeps the invariant. *)
LEMMA ModemStep ==
  ASSUME AllowInv, NEW s \in Slots, ModemSide(s), UNCHANGED inst
  PROVE  AllowInv'
<1>1. /\ mcl \in [Slots -> Seq(RequestSet)] /\ mdAllowed \subseteq Slots
  BY DEF AllowInv, AllowTypes
<1>2. mcl[s] # << >>
  BY DEF ModemSide, NoHandler, SetDataAllowed, EdallowFails
<1>3. Head(mcl[s]) \in RequestSet
  BY <1>1, <1>2, HeadTailProperties
<1> DEFINE m == Head(mcl[s])
<1>4. m \in RequestSet /\ m.allow \in BOOLEAN
  BY <1>3 DEF RequestSet
<1>5. ASSUME UNCHANGED << dacVars, allow_data_slot, suspended, requests, answered >>,
             mdAllowed' \subseteq Slots, NEW error \in {"success", "multi_allow", "not_supported"},
             error = "multi_allow" => Peers(m.slot) # {},
             NEW q \in Seq(MessageSet), NEW n \in DOMAIN q, q[n] = Response(m, error),
             \A i \in DOMAIN q : i # n => q[i].type = "sync",
             Take(s, q)
      PROVE  AllowInv'
  <2>1. /\ WaitingIn(q) = {} /\ InOrder(q) /\ AnswersIn(q) = {m.id} \ {0}
        /\ Cardinality(ResponsesIn(q)) = 1 /\ PeersThere(q)
    <3> HIDE DEF m
    <3> QED
      BY <1>4, <1>5, AnswerMessages
  <2>2. UNCHANGED << inst, dacVars, allow_data_slot, suspended, requests, answered >>
    BY <1>5
  <2> QED
    BY <1>2, <1>5, <2>1, <2>2, ModemAnswers
<1> DEFINE pre  == Sync(s, IF m.allow THEN -2 ELSE -1)
           post == Sync(s, IF m.allow THEN 1 ELSE 0)
<1>6. pre \in MessageSet /\ pre.type = "sync" /\ post \in MessageSet /\ post.type = "sync"
  <2>1. (IF m.allow THEN -2 ELSE -1) \in -2 .. 1 /\ (IF m.allow THEN 1 ELSE 0) \in -2 .. 1
    OBVIOUS
  <2>2. \A v \in -2 .. 1 : Sync(s, v) \in MessageSet /\ Sync(s, v).type = "sync"
    BY DEF Sync, MessageSet
  <2> QED
    BY <2>1, <2>2
<1>7. \A error \in {"success", "multi_allow", "not_supported"} : Response(m, error) \in MessageSet
  <2> HIDE DEF m
  <2> QED
    BY <1>4 DEF Response, MessageSet, RequestSet
<1>8. CASE NoHandler(s)
  <2>1. /\ UNCHANGED << dacVars, allow_data_slot, suspended, requests, answered >>
        /\ mdAllowed' \subseteq Slots
    BY <1>1, <1>8 DEF NoHandler, slotVars
  <2> DEFINE r == Response(m, "not_supported")
             q == << r >>
  <2>2. Take(s, q) /\ r \in MessageSet
    BY <1>7, <1>8 DEF NoHandler
  <2> HIDE DEF m, r
  <2>3. q \in Seq(MessageSet) /\ 1 \in DOMAIN q /\ q[1] = r /\ \A i \in DOMAIN q : i # 1 => q[i].type = "sync"
    BY <2>2
  <2> HIDE DEF q
  <2> QED
    BY <2>1, <2>2, <2>3, <1>5 DEF r
<1>9. CASE SetDataAllowed(s)
  <2>1. UNCHANGED << dacVars, allow_data_slot, suspended, requests, answered >>
    BY <1>9 DEF SetDataAllowed, slotVars
  <2>2. CASE m.allow /\ mdAllowed \ {s} # {}
    <3> DEFINE r == Response(m, "multi_allow")
               q == << pre, r >>
    <3>1. Take(s, q) /\ mdAllowed' \subseteq Slots /\ r \in MessageSet
      BY <1>1, <1>7, <1>9, <2>2 DEF SetDataAllowed
    <3>2. Peers(m.slot) # {}
      BY <1>1, <2>2 DEF Peers
    <3> HIDE DEF m, pre, post, r
    <3>3. q \in Seq(MessageSet) /\ 2 \in DOMAIN q /\ q[2] = r /\ \A i \in DOMAIN q : i # 2 => q[i].type = "sync"
      BY <3>1, <1>6
    <3> HIDE DEF q
    <3> QED
      BY <2>1, <3>1, <3>2, <3>3, <1>5 DEF r
  <2>3. CASE ~(m.allow /\ mdAllowed \ {s} # {})
    <3> DEFINE r == Response(m, "success")
               q == << pre, post, r >>
    <3>1. Take(s, q) /\ mdAllowed' \subseteq Slots /\ r \in MessageSet
      BY <1>1, <1>7, <1>9, <2>3 DEF SetDataAllowed
    <3> HIDE DEF m, pre, post, r
    <3>2. q \in Seq(MessageSet) /\ 3 \in DOMAIN q /\ q[3] = r /\ \A i \in DOMAIN q : i # 3 => q[i].type = "sync"
      BY <3>1, <1>6
    <3> HIDE DEF q
    <3> QED
      BY <2>1, <3>1, <3>2, <1>5 DEF r
  <2> QED
    BY <2>2, <2>3
<1>10. CASE EdallowFails(s)
  <2>1. /\ UNCHANGED << dacVars, allow_data_slot, suspended, requests, answered >>
        /\ mdAllowed' \subseteq Slots
    BY <1>1, <1>10 DEF EdallowFails, slotVars
  <2> DEFINE r == Response(m, "success")
             q == << pre, r >>
  <2>2. Take(s, q) /\ r \in MessageSet
    BY <1>7, <1>10 DEF EdallowFails
  <2> HIDE DEF m, pre, post, r
  <2>3. q \in Seq(MessageSet) /\ 2 \in DOMAIN q /\ q[2] = r /\ \A i \in DOMAIN q : i # 2 => q[i].type = "sync"
    BY <2>2, <1>6
  <2> HIDE DEF q
  <2> QED
    BY <2>1, <2>2, <2>3, <1>5 DEF r
<1> QED
  BY <1>8, <1>9, <1>10 DEF ModemSide
-----------------------------------------------------------------------------
(* The main thread *)

(* The first message is a request: what is left when it is taken. *)
LEMMA RequestFirst ==
  ASSUME AllowTypes, Message("request")
  PROVE  /\ Head(mainLooper) \in RequestSet /\ Tail(mainLooper) \in Seq(MessageSet)
         /\ << Head(mainLooper) >> \in Seq(MessageSet)
         /\ mainLooper = << Head(mainLooper) >> \o Tail(mainLooper)
         /\ AnswersIn(Tail(mainLooper)) = AnswersIn(mainLooper)
         /\ Cardinality(ResponsesIn(Tail(mainLooper))) = Cardinality(ResponsesIn(mainLooper))
         /\ PeersThere(mainLooper) => PeersThere(Tail(mainLooper))
         /\ WaitingIn(mainLooper) = ({Head(mainLooper).id} \ {0}) \cup WaitingIn(Tail(mainLooper))
         /\ InOrder(mainLooper) => /\ InOrder(Tail(mainLooper))
                                   /\ Below({Head(mainLooper).id} \ {0}, WaitingIn(Tail(mainLooper)))
<1> DEFINE h == Head(mainLooper)
           t == Tail(mainLooper)
           z == << h >>
<1>1. mainLooper \in Seq(MessageSet) /\ mainLooper # << >> /\ h.type = "request"
  BY DEF AllowTypes, Message
<1>2. h \in MessageSet /\ t \in Seq(MessageSet) /\ mainLooper = z \o t
  BY <1>1, First
<1>3. h \in RequestSet
  BY <1>1, <1>2 DEF MessageSet, RequestSet
<1> HIDE DEF h, t
<1>4. /\ z \in Seq(MessageSet) /\ WaitingIn(z) = {h.id} \ {0} /\ AnswersIn(z) = {}
      /\ Cardinality(ResponsesIn(z)) = 0
  BY <1>1, <1>2, Single
<1> HIDE DEF z
<1>5. /\ WaitingIn(z \o t) = WaitingIn(z) \cup WaitingIn(t)
      /\ AnswersIn(z \o t) = AnswersIn(z) \cup AnswersIn(t)
      /\ InOrder(z \o t) => InOrder(t) /\ Below(WaitingIn(z), WaitingIn(t))
      /\ PeersThere(z \o t) <=> PeersThere(z) /\ PeersThere(t)
      /\ Cardinality(ResponsesIn(z \o t)) = Cardinality(ResponsesIn(z)) + Cardinality(ResponsesIn(t))
      /\ Cardinality(ResponsesIn(t)) \in Nat
  BY <1>2, <1>4, Joined
<1>6. /\ AnswersIn(t) = AnswersIn(mainLooper)
      /\ Cardinality(ResponsesIn(t)) = Cardinality(ResponsesIn(mainLooper))
      /\ PeersThere(mainLooper) => PeersThere(t)
      /\ WaitingIn(mainLooper) = ({h.id} \ {0}) \cup WaitingIn(t)
      /\ InOrder(mainLooper) => InOrder(t) /\ Below({h.id} \ {0}, WaitingIn(t))
  BY <1>2, <1>4, <1>5
<1> QED
  BY <1>2, <1>3, <1>4, <1>6 DEF h, t, z

(* Suspending a request only moves it to the end of the suspended ones. *)
LEMMA SuspendStep ==
  ASSUME AllowInv, SuspendRequest, UNCHANGED inst
  PROVE  AllowInv'
<1> DEFINE h == Head(mainLooper)
           t == Tail(mainLooper)
<1>1. /\ AllowTypes /\ FlagsAgree /\ CountAgrees /\ IdsInOrder /\ Message("request") /\ mDoingDataAllow
      /\ requests \in Nat /\ mainLooper \in Seq(MessageSet) /\ suspended \in Seq(RequestSet)
  BY DEF AllowInv, AllowTypes, SuspendRequest
<1>2. /\ mainLooper' = t /\ suspended' = Append(suspended, h)
      /\ inst' = inst /\ mcl' = mcl /\ mdAllowed' = mdAllowed /\ allow_data_slot' = allow_data_slot
      /\ requests' = requests /\ answered' = answered /\ mDoingDataAllow' = mDoingDataAllow
      /\ mReqDataAllow' = mReqDataAllow /\ mDisallowingPeer' = mDisallowingPeer
      /\ mLastAllowTrueRequest' = mLastAllowTrueRequest
  BY DEF SuspendRequest, dacVars, slotVars
<1>3. /\ h \in RequestSet /\ t \in Seq(MessageSet) /\ << h >> \in Seq(MessageSet)
      /\ mainLooper = << h >> \o t
      /\ AnswersIn(t) = AnswersIn(mainLooper)
      /\ Cardinality(ResponsesIn(t)) = Cardinality(ResponsesIn(mainLooper))
      /\ PeersThere(mainLooper) => PeersThere(t)
  BY <1>1, RequestFirst
<1>4. /\ Slots' = Slots /\ MessageSet' = MessageSet /\ RequestSet' = RequestSet
      /\ AtModem(mcl)' = AtModem(mcl) /\ AtModemIn(mcl)' = AtModemIn(mcl)
      /\ PeersThere(mainLooper)' = PeersThere(t)
  BY <1>2, SameInstance
<1> HIDE DEF h, t
<1>5. Pending' = Pending
  <2>1. suspended \in Seq(MessageSet)
    BY <1>1, OnlyRequests
  <2>2. Append(suspended, h) = suspended \o << h >>
    BY <1>1, <1>3, AppendIsConcat
  <2>3. suspended \o (<< h >> \o t) = (suspended \o << h >>) \o t
    BY <2>1, <1>3, Regrouped
  <2> QED
    BY <2>2, <2>3, <1>2, <1>3 DEF Pending
<1>6. AllowTypes'
  <2>1. Append(suspended, h) \in Seq(RequestSet)
    BY <1>1, <1>3
  <2> QED
    BY <1>1, <1>2, <1>3, <1>4, <2>1 DEF AllowTypes, NoSlot
<1>7. FlagsAgree'
  BY <1>1, <1>2, <1>3, <1>4 DEF FlagsAgree
<1>8. CountAgrees'
  BY <1>1, <1>2, <1>3, <1>4 DEF CountAgrees, UnderWay, ResponsesIn
<1>9. IdsInOrder'
  <2>1. Current' = Current
    BY <1>2, <1>3, <1>4 DEF Current, LastId, AnswersIn, ResponsesIn
  <2>2. Waiting' = Waiting
    BY <1>5 DEF Waiting, WaitingIn
  <2>3. Below(Current', Waiting') /\ InOrder(Pending')
    BY <2>1, <2>2, <1>1, <1>5 DEF IdsInOrder
  <2> QED
    BY <1>1, <1>2, <2>1, <2>2, <2>3, OrderStep
<1> QED
  BY <1>6, <1>7, <1>8, <1>9 DEF AllowInv

(* Taking up a request: nothing is under way, so it is the only one, and the first
   that waits is below the others. *)
LEMMA HandleStep ==
  ASSUME AllowInv, HandleRequest, UNCHANGED inst
  PROVE  AllowInv'
<1> DEFINE h == Head(mainLooper)
           t == Tail(mainLooper)
<1>1. /\ AllowTypes /\ FlagsAgree /\ CountAgrees /\ IdsInOrder /\ Message("request") /\ ~mDoingDataAllow
      /\ requests \in Nat /\ mainLooper \in Seq(MessageSet) /\ inst \in Instances
      /\ mcl \in [Slots -> Seq(RequestSet)] /\ mDisallowingPeer \in Nat
  BY DEF AllowInv, AllowTypes, HandleRequest
<1>2. suspended = << >> /\ mDisallowingPeer = 0
  BY <1>1 DEF FlagsAgree
<1>3. /\ mainLooper' = t /\ suspended' = suspended
      /\ inst' = inst /\ mdAllowed' = mdAllowed
      /\ allow_data_slot' \in {allow_data_slot, h.slot}
      /\ requests' = requests /\ answered' = answered /\ mDoingDataAllow' = TRUE
      /\ mReqDataAllow' = h.allow /\ mDisallowingPeer' = mDisallowingPeer
      /\ mLastAllowTrueRequest' = IF h.allow THEN h ELSE mLastAllowTrueRequest
      /\ mcl' = [mcl EXCEPT ![h.slot] = Append(@, h)]
  BY DEF HandleRequest, SetDataAllowRequest
<1>4. /\ h \in RequestSet /\ t \in Seq(MessageSet)
      /\ AnswersIn(t) = AnswersIn(mainLooper)
      /\ Cardinality(ResponsesIn(t)) = Cardinality(ResponsesIn(mainLooper))
      /\ PeersThere(mainLooper) => PeersThere(t)
      /\ WaitingIn(mainLooper) = ({h.id} \ {0}) \cup WaitingIn(t)
      /\ InOrder(mainLooper) => InOrder(t) /\ Below({h.id} \ {0}, WaitingIn(t))
  BY <1>1, RequestFirst
<1>5. /\ Slots' = Slots /\ MessageSet' = MessageSet /\ RequestSet' = RequestSet
      /\ AtModem(mcl)' = AtModem(mcl') /\ AtModemIn(mcl)' = AtModemIn(mcl')
      /\ PeersThere(mainLooper)' = PeersThere(t)
  BY <1>3, SameInstance
<1> HIDE DEF h, t
<1>6. h.slot \in Slots /\ h.allow \in BOOLEAN
  BY <1>4 DEF RequestSet
<1>7. /\ mcl' \in [Slots -> Seq(RequestSet)]
      /\ Cardinality(AtModem(mcl')) = Cardinality(AtModem(mcl)) + 1
      /\ Cardinality(AtModem(mcl)) \in Nat
      /\ AtModemIn(mcl') \subseteq AtModemIn(mcl) \cup ({h.id} \ {0})
  BY <1>1, <1>3, <1>4, <1>6, ChannelGets
<1>8. /\ Cardinality(AtModem(mcl)) = 0 /\ Cardinality(ResponsesIn(mainLooper)) = 0
      /\ AtModemIn(mcl) = {} /\ AnswersIn(mainLooper) = {}
  <2>1. Cardinality(ResponsesIn(mainLooper)) \in Nat
    BY <1>1, Joined
  <2>2. Cardinality(AtModem(mcl)) + Cardinality(ResponsesIn(mainLooper)) = 0
    BY <1>1, <1>2 DEF CountAgrees, UnderWay
  <2>3. Cardinality(AtModem(mcl)) = 0 /\ Cardinality(ResponsesIn(mainLooper)) = 0
    BY <2>1, <2>2, <1>7
  <2> QED
    BY <2>3, <1>1, NoneAtModem, NoAnswers
<1>9. AllowTypes'
  BY <1>1, <1>3, <1>4, <1>5, <1>6, <1>7 DEF AllowTypes, NoSlot
<1>10. FlagsAgree'
  BY <1>1, <1>2, <1>3, <1>4, <1>5 DEF FlagsAgree
<1>11. CountAgrees'
  <2>1. UnderWay' = 1
    <3>1. Cardinality(AtModem(mcl)') = 1
      BY <1>5, <1>7, <1>8
    <3>2. Cardinality(ResponsesIn(mainLooper)') = 0
      BY <1>3, <1>4, <1>8 DEF ResponsesIn
    <3> QED
      BY <3>1, <3>2 DEF UnderWay
  <2> QED
    BY <2>1, <1>2, <1>3 DEF CountAgrees
<1>12. IdsInOrder'
  <2>1. Current' \subseteq {h.id} \ {0}
    <3>1. LastId' \subseteq {h.id} \ {0}
      BY <1>2, <1>3 DEF LastId
    <3>2. AnswersIn(mainLooper)' = {}
      BY <1>3, <1>4, <1>8 DEF AnswersIn, ResponsesIn
    <3> QED
      BY <3>1, <3>2, <1>5, <1>7, <1>8 DEF Current
  <2>2. Pending = mainLooper /\ Pending' = t
    BY <1>1, <1>2, <1>3, <1>4, ConcatEmptySeq DEF Pending
  <2>3. Waiting = ({h.id} \ {0}) \cup WaitingIn(t) /\ Waiting' = WaitingIn(t)
    BY <2>2, <1>4 DEF Waiting, WaitingIn
  <2>4. InOrder(Pending') /\ Below({h.id} \ {0}, WaitingIn(t))
    BY <2>2, <1>1, <1>4 DEF IdsInOrder
  <2>5. Below(Current', Waiting')
    BY <2>1, <2>3, <2>4 DEF Below
  <2>6. Current' \cup Waiting' \subseteq Current \cup Waiting
    BY <2>1, <2>3
  <2> QED
    BY <1>1, <1>3, <2>4, <2>5, <2>6, OrderStep
<1> QED
  BY <1>9, <1>10, <1>11, <1>12 DEF AllowInv

(* A response is at hand: what is under way, and what is left of it when it is handled. *)
LEMMA ResponseFirst ==
  ASSUME AllowInv, UNCHANGED inst, Message("response"),
         NEW d \in BOOLEAN, Resumed(d, Tail(mainLooper))
  PROVE  /\ AllowTypes /\ FlagsAgree /\ CountAgrees /\ IdsInOrder
         /\ Head(mainLooper).slot \in Slots /\ Head(mainLooper).id \in Nat
         /\ Head(mainLooper).error = "multi_allow" => Peers(Head(mainLooper).slot) # {}
         /\ mDoingDataAllow
         /\ mainLooper' \in Seq(MessageSet) /\ suspended' \in Seq(RequestSet)
         /\ ~d => suspended' = << >>
         /\ Waiting' = Waiting
         /\ InOrder(Pending')
         /\ AnswersIn(mainLooper') \subseteq AnswersIn(mainLooper)
         /\ {Head(mainLooper).id} \ {0} \subseteq AnswersIn(mainLooper)
         /\ Cardinality(ResponsesIn(mainLooper)) = Cardinality(ResponsesIn(mainLooper')) + 1
         /\ Cardinality(ResponsesIn(mainLooper')) \in Nat
         /\ Cardinality(AtModem(mcl)) \in Nat
         /\ UnderWay = Cardinality(AtModem(mcl)) + Cardinality(ResponsesIn(mainLooper'))  + 1
         /\ PeersThere(mainLooper)'
<1>1. /\ AllowTypes /\ FlagsAgree /\ CountAgrees /\ IdsInOrder
      /\ mainLooper \in Seq(MessageSet) /\ mainLooper # << >> /\ Head(mainLooper).type = "response"
      /\ inst \in Instances /\ mcl \in [Slots -> Seq(RequestSet)] /\ mDisallowingPeer \in Nat
      /\ mDoingDataAllow \in BOOLEAN
  BY DEF AllowInv, AllowTypes, Message
<1>2. /\ Head(mainLooper) \in MessageSet
      /\ mainLooper' \in Seq(MessageSet) /\ suspended' \in Seq(RequestSet)
      /\ ~d => suspended' = << >>
      /\ Waiting' = Waiting
      /\ InOrder(Pending) => InOrder(Pending')
      /\ AnswersIn(mainLooper') \subseteq AnswersIn(mainLooper)
      /\ Head(mainLooper).type = "response" =>
           /\ {Head(mainLooper).id} \ {0} \subseteq AnswersIn(mainLooper)
           /\ Cardinality(ResponsesIn(mainLooper)) = Cardinality(ResponsesIn(mainLooper')) + 1
      /\ Cardinality(ResponsesIn(mainLooper')) \in Nat
      /\ PeersThere(mainLooper) => PeersThere(mainLooper)'
  <2>1. Head(mainLooper).type # "request"
    BY <1>1
  <2> QED
    BY <1>1, <2>1, Handled
<1>3. Head(mainLooper).slot \in Slots /\ Head(mainLooper).id \in Nat
  BY <1>1, <1>2 DEF MessageSet
<1>4. Cardinality(AtModem(mcl)) \in Nat
  BY <1>1, AtModemPlaces
<1>5. UnderWay = Cardinality(AtModem(mcl)) + Cardinality(ResponsesIn(mainLooper')) + 1
  BY <1>1, <1>2, <1>4 DEF UnderWay
<1>6. mDoingDataAllow
  <2>1. UnderWay # 0
    BY <1>2, <1>4, <1>5
  <2>2. mDisallowingPeer > 0 => mDoingDataAllow
    BY <1>1 DEF FlagsAgree
  <2> QED
    BY <1>1, <2>1, <2>2 DEF CountAgrees
<1>7. Head(mainLooper).error = "multi_allow" => Peers(Head(mainLooper).slot) # {}
  <2>1. 1 \in DOMAIN mainLooper /\ Head(mainLooper) = mainLooper[1]
    BY <1>1, First
  <2> QED
    BY <1>1, <2>1 DEF FlagsAgree, PeersThere
<1>8. InOrder(Pending) /\ PeersThere(mainLooper)
  BY <1>1 DEF IdsInOrder, FlagsAgree
<1> QED
  BY <1>1, <1>2, <1>3, <1>4, <1>5, <1>6, <1>7, <1>8

(* An unsupported request is sent again as one of the daemon's own. *)
LEMMA ResendStep ==
  ASSUME AllowInv, ResendRequest, UNCHANGED inst
  PROVE  AllowInv'
<1> DEFINE h == Head(mainLooper)
           r == Request(h.slot, mReqDataAllow, 0)
<1>1. /\ Message("response") /\ Resumed(TRUE, Tail(mainLooper))
      /\ inst' = inst /\ mdAllowed' = mdAllowed /\ allow_data_slot' = allow_data_slot
      /\ requests' = requests /\ answered' = answered /\ mDoingDataAllow' = mDoingDataAllow
      /\ mReqDataAllow' = mReqDataAllow /\ mDisallowingPeer' = mDisallowingPeer
      /\ mLastAllowTrueRequest' = mLastAllowTrueRequest
      /\ mcl' = [mcl EXCEPT ![h.slot] = Append(@, r)]
  BY DEF ResendRequest, dacVars, rspRest
<1>2. /\ AllowTypes /\ FlagsAgree /\ CountAgrees /\ IdsInOrder /\ h.slot \in Slots /\ mDoingDataAllow
      /\ mainLooper' \in Seq(MessageSet) /\ suspended' \in Seq(RequestSet)
      /\ Waiting' = Waiting /\ InOrder(Pending')
      /\ AnswersIn(mainLooper') \subseteq AnswersIn(mainLooper)
      /\ Cardinality(ResponsesIn(mainLooper')) \in Nat
      /\ UnderWay = Cardinality(AtModem(mcl)) + Cardinality(ResponsesIn(mainLooper')) + 1
      /\ PeersThere(mainLooper)'
  <2>1. TRUE \in BOOLEAN
    OBVIOUS
  <2> QED
    BY <1>1, <2>1, ResponseFirst
<1>3. /\ inst \in Instances /\ mcl \in [Slots -> Seq(RequestSet)] /\ mReqDataAllow \in BOOLEAN
      /\ requests \in Nat
  BY <1>2 DEF AllowTypes
<1>4. r \in RequestSet /\ r.id = 0
  BY <1>2, <1>3 DEF Request, RequestSet
<1>5. /\ Slots' = Slots /\ MessageSet' = MessageSet /\ RequestSet' = RequestSet
      /\ AtModem(mcl)' = AtModem(mcl') /\ AtModemIn(mcl)' = AtModemIn(mcl')
  BY <1>1, SameInstance
<1> HIDE DEF h, r
<1>6. /\ mcl' \in [Slots -> Seq(RequestSet)]
      /\ Cardinality(AtModem(mcl')) = Cardinality(AtModem(mcl)) + 1
      /\ Cardinality(AtModem(mcl)) \in Nat
      /\ AtModemIn(mcl') \subseteq AtModemIn(mcl)
  <2>1. /\ mcl' \in [Slots -> Seq(RequestSet)]
        /\ Cardinality(AtModem(mcl')) = Cardinality(AtModem(mcl)) + 1
        /\ Cardinality(AtModem(mcl)) \in Nat
        /\ AtModemIn(mcl') \subseteq AtModemIn(mcl) \cup ({r.id} \ {0})
    BY <1>1, <1>2, <1>3, <1>4, ChannelGets
  <2> QED
    BY <2>1, <1>4
<1>7. AllowTypes'
  BY <1>1, <1>2, <1>5, <1>6 DEF AllowTypes, NoSlot
<1>8. FlagsAgree'
  BY <1>1, <1>2, <1>5 DEF FlagsAgree
<1>9. CountAgrees'
  <2>1. UnderWay' = UnderWay
    BY <1>2, <1>5, <1>6 DEF UnderWay, ResponsesIn
  <2> QED
    BY <2>1, <1>1, <1>2 DEF CountAgrees
<1>10. IdsInOrder'
  <2>1. Current' \subseteq Current
    <3>1. LastId' = LastId
      BY <1>1 DEF LastId
    <3>2. AnswersIn(mainLooper)' \subseteq AnswersIn(mainLooper)
      BY <1>2 DEF AnswersIn, ResponsesIn
    <3> QED
      BY <3>1, <3>2, <1>5, <1>6 DEF Current
  <2>2. Below(Current', Waiting')
    BY <2>1, <1>2 DEF Below, IdsInOrder
  <2> QED
    BY <1>1, <1>2, <1>3, <2>1, <2>2, OrderStep
<1> QED
  BY <1>7, <1>8, <1>9, <1>10 DEF AllowInv

(* A conflict: the refused request was the only one under way, now it is those to the
   peers, as many as are counted. *)
LEMMA ConflictStep ==
  ASSUME AllowInv, HandleMultiAllowError, UNCHANGED inst
  PROVE  AllowInv'
<1> DEFINE h == Head(mainLooper)
           P == Peers(h.slot)
<1>1. /\ Message("response") /\ Resumed(TRUE, Tail(mainLooper)) /\ MultiAllow(h)
      /\ inst' = inst /\ mdAllowed' = mdAllowed /\ allow_data_slot' = allow_data_slot
      /\ requests' = requests /\ answered' = answered /\ mDoingDataAllow' = mDoingDataAllow
      /\ mReqDataAllow' = (IF P = {} THEN mReqDataAllow ELSE FALSE)
      /\ mDisallowingPeer' = mDisallowingPeer + Cardinality(P)
      /\ mLastAllowTrueRequest' = mLastAllowTrueRequest
      /\ mcl' = [s \in Slots |-> IF s \in P THEN Append(mcl[s], Request(s, FALSE, 0)) ELSE mcl[s]]
  BY DEF HandleMultiAllowError, rspRest
<1>2. /\ AllowTypes /\ FlagsAgree /\ CountAgrees /\ IdsInOrder /\ h.slot \in Slots /\ mDoingDataAllow
      /\ h.error = "multi_allow" => P # {}
      /\ mainLooper' \in Seq(MessageSet) /\ suspended' \in Seq(RequestSet)
      /\ Waiting' = Waiting /\ InOrder(Pending')
      /\ AnswersIn(mainLooper') \subseteq AnswersIn(mainLooper)
      /\ Cardinality(ResponsesIn(mainLooper')) \in Nat
      /\ UnderWay = Cardinality(AtModem(mcl)) + Cardinality(ResponsesIn(mainLooper')) + 1
      /\ PeersThere(mainLooper)'
  <2>1. TRUE \in BOOLEAN
    OBVIOUS
  <2> QED
    BY <1>1, <2>1, ResponseFirst
<1>3. /\ inst \in Instances /\ mcl \in [Slots -> Seq(RequestSet)] /\ mReqDataAllow \in BOOLEAN
      /\ requests \in Nat /\ mDisallowingPeer \in Nat
  BY <1>2 DEF AllowTypes
<1>4. mReqDataAllow /\ P # {} /\ P \subseteq Slots
  BY <1>1, <1>2 DEF MultiAllow, Peers
<1>5. mDisallowingPeer = 0 /\ mLastAllowTrueRequest \in RequestSet
  BY <1>2, <1>3, <1>4 DEF FlagsAgree
<1>6. /\ Slots' = Slots /\ MessageSet' = MessageSet /\ RequestSet' = RequestSet
      /\ AtModem(mcl)' = AtModem(mcl') /\ AtModemIn(mcl)' = AtModemIn(mcl')
  BY <1>1, SameInstance
<1> HIDE DEF h, P
<1>7. /\ mcl' \in [Slots -> Seq(RequestSet)]
      /\ Cardinality(AtModem(mcl')) = Cardinality(AtModem(mcl)) + Cardinality(P)
      /\ Cardinality(AtModem(mcl)) \in Nat /\ Cardinality(P) \in Nat
      /\ AtModemIn(mcl') \subseteq AtModemIn(mcl)
  BY <1>1, <1>3, <1>4, ChannelsGet
<1>8. Cardinality(P) # 0
  <2>1. IsFiniteSet(P)
    BY <1>3, <1>4, SlotsFinite, FS_Subset
  <2> QED
    BY <2>1, <1>4, FS_EmptySet
<1>9. mReqDataAllow' = FALSE /\ mDisallowingPeer' = Cardinality(P) /\ Cardinality(P) > 0
  BY <1>1, <1>4, <1>5, <1>7, <1>8
<1>10. AllowTypes'
  BY <1>1, <1>2, <1>6, <1>7, <1>9 DEF AllowTypes, NoSlot
<1>11. FlagsAgree'
  BY <1>1, <1>2, <1>5, <1>6, <1>9 DEF FlagsAgree
<1>12. CountAgrees'
  <2>1. UnderWay = 1
    BY <1>2, <1>5 DEF CountAgrees
  <2>2. Cardinality(AtModem(mcl)) = 0 /\ Cardinality(ResponsesIn(mainLooper')) = 0
    BY <2>1, <1>2, <1>7
  <2>3. Cardinality(AtModem(mcl)') = Cardinality(P) /\ Cardinality(ResponsesIn(mainLooper)') = 0
    BY <2>2, <1>6, <1>7 DEF ResponsesIn
  <2>4. UnderWay' = Cardinality(P)
    BY <2>3, <1>7 DEF UnderWay
  <2> QED
    BY <2>4, <1>9 DEF CountAgrees
<1>13. IdsInOrder'
  <2>1. LastId' = LastId
    BY <1>1, <1>2, <1>4, <1>9 DEF LastId
  <2>2. Current' \subseteq Current
    BY <2>1, <1>1, <1>2, <1>6, <1>7 DEF Current, AnswersIn, ResponsesIn
  <2>3. Below(Current', Waiting')
    BY <2>2, <1>2 DEF Below, IdsInOrder
  <2> QED
    BY <1>1, <1>2, <1>3, <2>2, <2>3, OrderStep
<1> QED
  BY <1>10, <1>11, <1>12, <1>13 DEF AllowInv

(* A peer is disallowed: one less is counted, and after the last the original request
   is the one under way again. *)
LEMMA PeerStep ==
  ASSUME AllowInv, PeerDisallowed, UNCHANGED inst
  PROVE  AllowInv'
<1> DEFINE m == mLastAllowTrueRequest
<1>1. /\ Message("response") /\ Resumed(TRUE, Tail(mainLooper)) /\ mDisallowingPeer > 0
      /\ inst' = inst /\ mdAllowed' = mdAllowed
      /\ requests' = requests /\ answered' = answered /\ mDoingDataAllow' = mDoingDataAllow
      /\ mDisallowingPeer' = mDisallowingPeer - 1
      /\ mLastAllowTrueRequest' = mLastAllowTrueRequest
      /\ IF mDisallowingPeer = 1 THEN SetDataAllowRequest(m)
         ELSE mReqDataAllow' = mReqDataAllow /\ allow_data_slot' = allow_data_slot /\ mcl' = mcl
  BY DEF PeerDisallowed, PeersDone, rspRest
<1>2. /\ AllowTypes /\ FlagsAgree /\ CountAgrees /\ IdsInOrder /\ mDoingDataAllow
      /\ mainLooper' \in Seq(MessageSet) /\ suspended' \in Seq(RequestSet)
      /\ Waiting' = Waiting /\ InOrder(Pending')
      /\ AnswersIn(mainLooper') \subseteq AnswersIn(mainLooper)
      /\ Cardinality(ResponsesIn(mainLooper')) \in Nat /\ Cardinality(AtModem(mcl)) \in Nat
      /\ UnderWay = Cardinality(AtModem(mcl)) + Cardinality(ResponsesIn(mainLooper')) + 1
      /\ PeersThere(mainLooper)'
  <2>1. TRUE \in BOOLEAN
    OBVIOUS
  <2> QED
    BY <1>1, <2>1, ResponseFirst
<1>3. /\ inst \in Instances /\ mcl \in [Slots -> Seq(RequestSet)] /\ mReqDataAllow \in BOOLEAN
      /\ requests \in Nat /\ mDisallowingPeer \in Nat
  BY <1>2 DEF AllowTypes
<1>4. m \in RequestSet /\ ~mReqDataAllow
  BY <1>1, <1>2 DEF FlagsAgree
<1>5. m.slot \in Slots /\ m.allow \in BOOLEAN
  BY <1>4 DEF RequestSet
<1>6. /\ Slots' = Slots /\ MessageSet' = MessageSet /\ RequestSet' = RequestSet
      /\ AtModem(mcl)' = AtModem(mcl') /\ AtModemIn(mcl)' = AtModemIn(mcl')
  BY <1>1, SameInstance
<1>7. UnderWay = mDisallowingPeer /\ LastId = {m.id} \ {0}
  BY <1>1, <1>2 DEF CountAgrees, LastId
<1>8. CASE mDisallowingPeer = 1
  <2>1. /\ mReqDataAllow' = m.allow /\ allow_data_slot' \in {allow_data_slot, m.slot}
        /\ mcl' = [mcl EXCEPT ![m.slot] = Append(@, m)]
    BY <1>1, <1>8 DEF SetDataAllowRequest
  <2>2. mDisallowingPeer' = 0
    BY <1>1, <1>8
  <2>3. /\ mcl' \in [Slots -> Seq(RequestSet)]
        /\ Cardinality(AtModem(mcl')) = Cardinality(AtModem(mcl)) + 1
        /\ AtModemIn(mcl') \subseteq AtModemIn(mcl) \cup LastId
    <3>1. /\ mcl' \in [Slots -> Seq(RequestSet)]
          /\ Cardinality(AtModem(mcl')) = Cardinality(AtModem(mcl)) + 1
          /\ Cardinality(AtModem(mcl)) \in Nat
          /\ AtModemIn(mcl') \subseteq AtModemIn(mcl) \cup ({m.id} \ {0})
      <4> HIDE DEF m
      <4> QED
        BY <2>1, <1>3, <1>4, <1>5, ChannelGets
    <3> QED
      BY <3>1, <1>7
  <2>4. AllowTypes'
    <3>1. allow_data_slot' \in Slots \cup {NoSlot}
      <4>1. allow_data_slot \in Slots \cup {NoSlot}
        BY <1>2 DEF AllowTypes
      <4> QED
        BY <4>1, <1>5, <2>1
    <3>2. mReqDataAllow' \in BOOLEAN /\ mDisallowingPeer' \in Nat
      BY <1>5, <2>1, <2>2
    <3> QED
      BY <1>1, <1>2, <1>4, <1>6, <2>3, <3>1, <3>2 DEF AllowTypes, NoSlot
  <2>5. FlagsAgree'
    BY <1>1, <1>2, <1>4, <1>6, <2>2 DEF FlagsAgree
  <2>6. CountAgrees'
    <3>1. Cardinality(AtModem(mcl)') = 1 /\ Cardinality(ResponsesIn(mainLooper)') = 0
      BY <1>2, <1>6, <1>7, <1>8, <2>3 DEF ResponsesIn
    <3>2. UnderWay' = 1
      BY <3>1 DEF UnderWay
    <3> QED
      BY <3>2, <2>2, <1>1, <1>2 DEF CountAgrees
  <2>7. IdsInOrder'
    <3>1. LastId' \subseteq LastId
      BY <1>1, <1>7 DEF LastId
    <3>2. Current' \subseteq Current
      BY <3>1, <1>2, <1>6, <2>3 DEF Current, AnswersIn, ResponsesIn
    <3>3. Below(Current', Waiting')
      BY <3>2, <1>2 DEF Below, IdsInOrder
    <3> QED
      BY <1>1, <1>2, <1>3, <3>2, <3>3, OrderStep
  <2> QED
    BY <2>4, <2>5, <2>6, <2>7 DEF AllowInv
<1>9. CASE mDisallowingPeer # 1
  <2>1. /\ mReqDataAllow' = mReqDataAllow /\ allow_data_slot' = allow_data_slot /\ mcl' = mcl
        /\ mDisallowingPeer' \in Nat /\ mDisallowingPeer' > 0 /\ mDisallowingPeer' = mDisallowingPeer - 1
    BY <1>1, <1>3, <1>9
  <2>2. AllowTypes'
    BY <1>1, <1>2, <1>6, <2>1 DEF AllowTypes, NoSlot
  <2>3. FlagsAgree'
    BY <1>1, <1>2, <1>4, <1>6, <2>1 DEF FlagsAgree
  <2>4. CountAgrees'
    <3>1. Cardinality(AtModem(mcl)') = Cardinality(AtModem(mcl))
      BY <1>6, <2>1
    <3>2. UnderWay' = Cardinality(AtModem(mcl)) + Cardinality(ResponsesIn(mainLooper'))
      BY <3>1 DEF UnderWay, ResponsesIn
    <3>3. UnderWay' = mDisallowingPeer'
      BY <3>2, <1>2, <1>3, <1>7, <2>1
    <3> QED
      BY <3>3, <2>1 DEF CountAgrees
  <2>5. IdsInOrder'
    <3>1. LastId' = LastId
      BY <1>1, <1>2, <2>1 DEF LastId
    <3>2. Current' \subseteq Current
      BY <3>1, <1>2, <1>6, <2>1 DEF Current, AnswersIn, ResponsesIn
    <3>3. Below(Current', Waiting')
      BY <3>2, <1>2 DEF Below, IdsInOrder
    <3> QED
      BY <1>1, <1>2, <1>3, <3>2, <3>3, OrderStep
  <2> QED
    BY <2>2, <2>3, <2>4, <2>5 DEF AllowInv
<1> QED
  BY <1>8, <1>9

(* The request is done: nothing is under way any more, and its id, if it has one, is
   above those answered before and below those that wait. *)
LEMMA DoneStep ==
  ASSUME AllowInv, AllowDone, UNCHANGED inst
  PROVE  AllowInv'
<1> DEFINE id == Head(mainLooper).id
<1>1. /\ Message("response") /\ Resumed(FALSE, Tail(mainLooper)) /\ mDisallowingPeer = 0
      /\ inst' = inst /\ mdAllowed' = mdAllowed /\ allow_data_slot' = allow_data_slot
      /\ requests' = requests /\ mDoingDataAllow' = FALSE
      /\ mReqDataAllow' = mReqDataAllow /\ mDisallowingPeer' = mDisallowingPeer
      /\ mLastAllowTrueRequest' = mLastAllowTrueRequest /\ mcl' = mcl
      /\ answered' = IF id = 0 THEN answered ELSE Append(answered, id)
  BY DEF AllowDone, DoneFlag, rspRest
<1>2. /\ AllowTypes /\ FlagsAgree /\ CountAgrees /\ IdsInOrder /\ mDoingDataAllow /\ id \in Nat
      /\ mainLooper' \in Seq(MessageSet) /\ suspended' \in Seq(RequestSet) /\ suspended' = << >>
      /\ Waiting' = Waiting /\ InOrder(Pending')
      /\ {id} \ {0} \subseteq AnswersIn(mainLooper)
      /\ Cardinality(ResponsesIn(mainLooper')) \in Nat /\ Cardinality(AtModem(mcl)) \in Nat
      /\ UnderWay = Cardinality(AtModem(mcl)) + Cardinality(ResponsesIn(mainLooper')) + 1
      /\ PeersThere(mainLooper)'
  <2>1. FALSE \in BOOLEAN
    OBVIOUS
  <2> QED
    BY <1>1, <2>1, ResponseFirst
<1> HIDE DEF id
<1>3. /\ inst \in Instances /\ mcl \in [Slots -> Seq(RequestSet)] /\ answered \in Seq(Nat)
      /\ requests \in Nat
  BY <1>2 DEF AllowTypes
<1>4. /\ Slots' = Slots /\ MessageSet' = MessageSet /\ RequestSet' = RequestSet
      /\ AtModem(mcl)' = AtModem(mcl) /\ AtModemIn(mcl)' = AtModemIn(mcl)
  BY <1>1, SameInstance
<1>5. Cardinality(AtModem(mcl)) = 0 /\ Cardinality(ResponsesIn(mainLooper')) = 0
  <2>1. UnderWay = 1
    BY <1>1, <1>2 DEF CountAgrees
  <2> QED
    BY <2>1, <1>2
<1>6. AtModemIn(mcl) = {} /\ AnswersIn(mainLooper') = {}
  BY <1>2, <1>3, <1>5, NoneAtModem, NoAnswers
<1>7. Current' = {}
  <2>1. LastId' = {}
    BY <1>1 DEF LastId
  <2>2. AnswersIn(mainLooper)' = {}
    BY <1>6 DEF AnswersIn, ResponsesIn
  <2> QED
    BY <2>1, <2>2, <1>4, <1>6 DEF Current
<1>8. /\ answered' \in Seq(Nat)
      /\ \A i, j \in DOMAIN answered' : i < j => answered'[i] < answered'[j]
      /\ Answered' = Answered \cup ({id} \ {0})
  <2>1. CASE id = 0
    <3>1. answered' = answered
      BY <1>1, <2>1
    <3> QED
      BY <3>1, <2>1, <1>2, <1>3 DEF IdsInOrder, Answered
  <2>2. CASE id # 0
    <3> DEFINE n == Len(answered)
    <3>1. answered' = Append(answered, id)
      BY <1>1, <2>2
    <3>2. /\ n \in Nat /\ DOMAIN answered = 1 .. n
          /\ answered' \in Seq(Nat) /\ Len(answered') = n + 1
          /\ \A i \in 1 .. n : answered'[i] = answered[i]
          /\ answered'[n + 1] = id
      BY <3>1, <1>2, <1>3, AppendProperties, LenProperties
    <3>3. DOMAIN answered' = 1 .. n + 1
      BY <3>2, LenProperties
    <3> HIDE DEF n
    <3>4. \A i \in 1 .. n : answered[i] < id
      <4>1. \A i \in 1 .. n : answered[i] \in Answered
        BY <3>2 DEF Answered, Range
      <4>2. id \in Current
        BY <2>2, <1>2 DEF Current
      <4>3. Below(Answered, Current \cup Waiting)
        BY <1>2 DEF IdsInOrder
      <4> QED
        BY <4>1, <4>2, <4>3 DEF Below
    <3>5. \A i, j \in DOMAIN answered' : i < j => answered'[i] < answered'[j]
      <4> SUFFICES ASSUME NEW i \in 1 .. n + 1, NEW j \in 1 .. n + 1, i < j
                   PROVE  answered'[i] < answered'[j]
        BY <3>3
      <4>1. i \in 1 .. n
        BY <3>2
      <4>2. CASE j = n + 1
        BY <4>1, <4>2, <3>2, <3>4
      <4>3. CASE j \in 1 .. n
        BY <4>1, <4>3, <3>2, <1>2 DEF IdsInOrder
      <4>4. j = n + 1 \/ j \in 1 .. n
        BY <3>2
      <4> QED
        BY <4>2, <4>3, <4>4
    <3>6. Answered' = Answered \cup {id}
      <4>1. Answered' = {answered'[i] : i \in 1 .. n + 1} /\ Answered = {answered[i] : i \in 1 .. n}
        BY <3>2, <3>3 DEF Answered, Range
      <4>2. \A i \in 1 .. n + 1 : i = n + 1 \/ i \in 1 .. n
        BY <3>2
      <4>3. n + 1 \in 1 .. n + 1 /\ 1 .. n \subseteq 1 .. n + 1
        BY <3>2
      <4>4. Answered' \subseteq Answered \cup {id}
        BY <4>1, <4>2, <3>2
      <4>5. Answered \subseteq Answered' /\ id \in Answered'
        BY <4>1, <4>3, <3>2
      <4> QED
        BY <4>4, <4>5
    <3> QED
      BY <2>2, <3>2, <3>5, <3>6
  <2> QED
    BY <2>1, <2>2
<1>9. AllowTypes'
  BY <1>1, <1>2, <1>4, <1>8 DEF AllowTypes, NoSlot
<1>10. FlagsAgree'
  BY <1>1, <1>2, <1>4 DEF FlagsAgree
<1>11. CountAgrees'
  <2>1. Cardinality(AtModem(mcl)') = 0 /\ Cardinality(ResponsesIn(mainLooper)') = 0
    BY <1>4, <1>5 DEF ResponsesIn
  <2>2. UnderWay' = 0
    BY <2>1 DEF UnderWay
  <2> QED
    BY <2>2, <1>1 DEF CountAgrees
<1>12. IdsInOrder'
  <2>1. {id} \ {0} \subseteq Current
    BY <1>2 DEF Current
  <2>2. /\ Below(Current, Waiting) /\ Below(Answered, Current \cup Waiting)
        /\ Current \cup Waiting \cup Answered \subseteq 1 .. requests
    BY <1>2 DEF IdsInOrder
  <2>3. Below(Current', Waiting')
    BY <1>7 DEF Below
  <2>4. Below(Answered', Current' \cup Waiting')
    BY <2>1, <2>2, <1>2, <1>7, <1>8 DEF Below
  <2>5. Current' \cup Waiting' \cup Answered' \subseteq 1 .. requests'
    BY <2>1, <2>2, <1>1, <1>2, <1>7, <1>8
  <2>6. InOrder(Pending)' /\ Below(Current, Waiting)' /\ Below(Answered, Current \cup Waiting)'
    BY <2>3, <2>4, <1>2 DEF InOrder, Below
  <2> QED
    BY <1>8, <2>5, <2>6 DEF IdsInOrder
<1> QED
  BY <1>9, <1>10, <1>11, <1>12 DEF AllowInv

(* A status changes nothing that is under way or waits. *)
LEMMA SyncStep ==
  ASSUME AllowInv, ApplyStatusSync, UNCHANGED inst
  PROVE  AllowInv'
<1>1. /\ mainLooper # << >> /\ Head(mainLooper).type = "sync" /\ Resumed(mDoingDataAllow, Tail(mainLooper))
      /\ inst' = inst /\ mdAllowed' = mdAllowed /\ allow_data_slot' = allow_data_slot
      /\ requests' = requests /\ answered' = answered /\ mDoingDataAllow' = mDoingDataAllow
      /\ mReqDataAllow' = mReqDataAllow /\ mDisallowingPeer' = mDisallowingPeer
      /\ mLastAllowTrueRequest' = mLastAllowTrueRequest /\ mcl' = mcl
  BY DEF ApplyStatusSync, Message, dacVars, slotVars
<1>2. /\ AllowTypes /\ FlagsAgree /\ CountAgrees /\ IdsInOrder /\ requests \in Nat
      /\ mDoingDataAllow \in BOOLEAN
  BY DEF AllowInv, AllowTypes
<1>3. /\ mainLooper' \in Seq(MessageSet) /\ suspended' \in Seq(RequestSet)
      /\ ~mDoingDataAllow => suspended' = << >>
      /\ Waiting' = Waiting
      /\ InOrder(Pending) => InOrder(Pending')
      /\ AnswersIn(mainLooper') \subseteq AnswersIn(mainLooper)
      /\ Cardinality(ResponsesIn(mainLooper)) = Cardinality(ResponsesIn(mainLooper'))
      /\ PeersThere(mainLooper) => PeersThere(mainLooper)'
  <2>1. Head(mainLooper).type # "request" /\ Head(mainLooper).type # "response"
    BY <1>1
  <2> QED
    BY <1>1, <1>2, <2>1, Handled
<1>4. /\ Slots' = Slots /\ MessageSet' = MessageSet /\ RequestSet' = RequestSet
      /\ AtModem(mcl)' = AtModem(mcl) /\ AtModemIn(mcl)' = AtModemIn(mcl)
  BY <1>1, SameInstance
<1>5. AllowTypes'
  BY <1>1, <1>2, <1>3, <1>4 DEF AllowTypes, NoSlot
<1>6. FlagsAgree'
  BY <1>1, <1>2, <1>3, <1>4 DEF FlagsAgree
<1>7. CountAgrees'
  <2>1. UnderWay' = UnderWay
    BY <1>3, <1>4 DEF UnderWay, ResponsesIn
  <2> QED
    BY <2>1, <1>1, <1>2 DEF CountAgrees
<1>8. IdsInOrder'
  <2>1. Current' \subseteq Current
    <3>1. LastId' = LastId
      BY <1>1 DEF LastId
    <3>2. AnswersIn(mainLooper)' \subseteq AnswersIn(mainLooper)
      BY <1>3 DEF AnswersIn, ResponsesIn
    <3> QED
      BY <3>1, <3>2, <1>4 DEF Current
  <2>2. Below(Current', Waiting') /\ InOrder(Pending')
    BY <2>1, <1>2, <1>3 DEF Below, IdsInOrder
  <2> QED
    BY <1>1, <1>2, <1>3, <2>1, <2>2, OrderStep
<1> QED
  BY <1>5, <1>6, <1>7, <1>8 DEF AllowInv

(* Channels without requests *)
LEMMA NoRequests ==
  /\ [s \in Slots |-> << >>] \in [Slots -> Seq(RequestSet)]
  /\ AtModem([s \in Slots |-> << >>]) = {}
<1>1. << >> \in Seq(RequestSet)
  BY EmptySeq
<1>2. DOMAIN << >> = {}
  BY Nothing
<1>3. ASSUME NEW m, m = [s \in Slots |-> << >>] PROVE AtModem(m) = {}
  <2>1. \A s \in Slots : DOMAIN m[s] = {}
    BY <1>2, <1>3
  <2> QED
    BY <2>1 DEF AtModem
<1> QED
  BY <1>1, <1>3

(* After a restart at most resendAllowData's own request waits. *)
LEMMA RestartStep ==
  ASSUME AllowInv, Restart, UNCHANGED inst
  PROVE  AllowInv'
<1> DEFINE q == IF allow_data_slot = NoSlot THEN << >> ELSE << Request(allow_data_slot, TRUE, 0) >>
           c == [s \in Slots |-> << >>]
<1>1. /\ inst' = inst /\ mDoingDataAllow' = FALSE /\ mReqDataAllow' = FALSE /\ mDisallowingPeer' = 0
      /\ mLastAllowTrueRequest' = << >> /\ mainLooper' = q /\ suspended' = << >> /\ mcl' = c
      /\ mdAllowed' = {} /\ allow_data_slot' = allow_data_slot /\ requests' = requests
      /\ answered' = answered
  BY DEF Restart
<1>2. /\ AllowTypes /\ IdsInOrder /\ requests \in Nat /\ inst \in Instances
      /\ allow_data_slot \in Slots \cup {NoSlot}
  BY DEF AllowInv, AllowTypes
<1>3. q \in Seq(RequestSet) /\ WaitingIn(q) = {} /\ InOrder(q)
  <2>1. CASE allow_data_slot = NoSlot
    <3>1. q = << >>
      BY <2>1
    <3> HIDE DEF q
    <3>2. << >> \in Seq(RequestSet) /\ WaitingIn(<< >>) = {} /\ InOrder(<< >>)
      BY Nothing, EmptySeq
    <3> QED
      BY <3>1, <3>2
  <2>2. CASE allow_data_slot # NoSlot
    <3> DEFINE r == Request(allow_data_slot, TRUE, 0)
    <3>1. r \in RequestSet /\ r \in MessageSet /\ r.type = "request" /\ r.id = 0
      BY <2>2, <1>2 DEF Request, RequestSet, MessageSet
    <3>2. q = << r >>
      BY <2>2
    <3> HIDE DEF q, r
    <3>3. << r >> \in Seq(RequestSet)
      BY <3>1
    <3>4. InOrder(<< r >>) /\ WaitingIn(<< r >>) = IF r.type = "request" THEN {r.id} \ {0} ELSE {}
      BY <3>1, Single
    <3> QED
      BY <3>1, <3>2, <3>3, <3>4
  <2> QED
    BY <2>1, <2>2
<1>4. /\ Slots' = Slots /\ MessageSet' = MessageSet /\ RequestSet' = RequestSet
      /\ AtModem(mcl)' = AtModem(c) /\ AtModemIn(mcl)' = AtModemIn(c)
      /\ PeersThere(mainLooper)' = PeersThere(q)
  <2>1. /\ Slots' = Slots /\ MessageSet' = MessageSet /\ RequestSet' = RequestSet
        /\ AtModem(mcl)' = AtModem(mcl') /\ AtModemIn(mcl)' = AtModemIn(mcl')
        /\ PeersThere(mainLooper)' = PeersThere(mainLooper')
    BY <1>1, SameInstance
  <2> HIDE DEF q, c
  <2> QED
    BY <2>1, <1>1
<1> HIDE DEF q
<1>5. /\ q \in Seq(MessageSet) /\ ResponsesIn(q) = {} /\ AnswersIn(q) = {} /\ PeersThere(q)
      /\ Cardinality(ResponsesIn(q)) = 0
  BY <1>3, OnlyRequests
<1>6. c \in [Slots -> Seq(RequestSet)] /\ AtModem(c) = {} /\ << >> \in Seq(RequestSet)
  BY NoRequests, EmptySeq
<1> HIDE DEF c
<1>7. AtModemIn(c) = {} /\ Cardinality(AtModem(c)) = 0
  BY <1>6, FS_EmptySet DEF AtModemIn
<1>8. AllowTypes'
  BY <1>1, <1>2, <1>4, <1>5, <1>6 DEF AllowTypes, NoSlot
<1>9. FlagsAgree'
  BY <1>1, <1>4, <1>5 DEF FlagsAgree
<1>10. CountAgrees'
  <2>1. Cardinality(AtModem(mcl)') = 0 /\ Cardinality(ResponsesIn(mainLooper)') = 0
    BY <1>1, <1>4, <1>5, <1>7 DEF ResponsesIn
  <2>2. UnderWay' = 0
    BY <2>1 DEF UnderWay
  <2> QED
    BY <2>2, <1>1 DEF CountAgrees
<1>11. IdsInOrder'
  <2>1. Current' = {}
    <3>1. LastId' = {}
      BY <1>1 DEF LastId
    <3>2. AnswersIn(mainLooper)' = {}
      BY <1>1, <1>5 DEF AnswersIn, ResponsesIn
    <3> QED
      BY <3>1, <3>2, <1>4, <1>7 DEF Current
  <2>2. Pending' = q
    <3>1. << >> \o q = q
      BY <1>5, ConcatEmptySeq
    <3> QED
      BY <3>1, <1>1 DEF Pending
  <2>3. Waiting' = {} /\ InOrder(Pending')
    BY <2>2, <1>3 DEF Waiting, WaitingIn
  <2>4. Below(Current', Waiting')
    BY <2>1 DEF Below
  <2> QED
    BY <1>1, <1>2, <2>1, <2>3, <2>4, OrderStep
<1> QED
  BY <1>8, <1>9, <1>10, <1>11 DEF AllowInv
-----------------------------------------------------------------------------
(* The theorems *)

(* At the start nothing is under way and nothing waits. *)
LEMMA AllowInitial == Init => AllowInv
<1> DEFINE c == [s \in Slots |-> << >>]
<1> SUFFICES ASSUME Init PROVE AllowInv
  OBVIOUS
<1>1. /\ inst \in Instances /\ mDoingDataAllow = FALSE /\ mReqDataAllow = FALSE /\ mDisallowingPeer = 0
      /\ mLastAllowTrueRequest = << >> /\ mainLooper = << >> /\ suspended = << >> /\ mcl = c
      /\ mdAllowed = {} /\ allow_data_slot = NoSlot /\ requests = 0 /\ answered = << >>
  BY DEF Init
<1>2. /\ << >> \in Seq(MessageSet) /\ << >> \in Seq(RequestSet) /\ << >> \in Seq(Nat) /\ 0 \in Nat
      /\ WaitingIn(<< >>) = {} /\ AnswersIn(<< >>) = {} /\ InOrder(<< >>)
      /\ Cardinality(ResponsesIn(<< >>)) = 0 /\ DOMAIN << >> = {} /\ PeersThere(<< >>)
  BY Nothing, EmptySeq
<1>3. c \in [Slots -> Seq(RequestSet)] /\ AtModem(c) = {}
  BY NoRequests
<1> HIDE DEF c
<1>4. AtModemIn(c) = {} /\ Cardinality(AtModem(c)) = 0
  BY <1>3, FS_EmptySet DEF AtModemIn
<1>5. AllowTypes
  BY <1>1, <1>2, <1>3 DEF AllowTypes
<1>6. FlagsAgree
  BY <1>1, <1>2 DEF FlagsAgree
<1>7. CountAgrees
  <2>1. UnderWay = 0
    BY <1>1, <1>2, <1>4 DEF UnderWay
  <2> QED
    BY <2>1, <1>1 DEF CountAgrees
<1>8. IdsInOrder
  <2>1. Current = {}
    BY <1>1, <1>2, <1>4 DEF Current, LastId
  <2>2. Pending = << >>
    BY <1>1, <1>2, ConcatEmptySeq DEF Pending
  <2>3. Waiting = {} /\ InOrder(Pending)
    BY <2>2, <1>2 DEF Waiting
  <2>4. Answered = {} /\ DOMAIN answered = {}
    BY <1>1, <1>2 DEF Answered, Range
  <2> QED
    BY <2>1, <2>3, <2>4 DEF IdsInOrder, Below
<1> QED
  BY <1>5, <1>6, <1>7, <1>8 DEF AllowInv

(* Every step keeps the invariant. *)
LEMMA AllowSteps == AllowInv /\ [Next]_vars => AllowInv'
<1> SUFFICES ASSUME AllowInv, [Next]_vars PROVE AllowInv'
  OBVIOUS
<1>1. CASE UNCHANGED vars
  <2>1. /\ inst' = inst /\ mainLooper' = mainLooper /\ suspended' = suspended /\ mcl' = mcl
        /\ mdAllowed' = mdAllowed /\ requests' = requests /\ answered' = answered
        /\ mDoingDataAllow' = mDoingDataAllow /\ mReqDataAllow' = mReqDataAllow
        /\ mDisallowingPeer' = mDisallowingPeer /\ mLastAllowTrueRequest' = mLastAllowTrueRequest
        /\ allow_data_slot' = allow_data_slot
    BY <1>1 DEF vars, dacVars, slotVars
  <2>2. AllowTypes /\ FlagsAgree /\ CountAgrees /\ IdsInOrder /\ requests \in Nat
    BY DEF AllowInv, AllowTypes
  <2>3. /\ Slots' = Slots /\ MessageSet' = MessageSet /\ RequestSet' = RequestSet
        /\ AtModem(mcl)' = AtModem(mcl) /\ AtModemIn(mcl)' = AtModemIn(mcl)
        /\ PeersThere(mainLooper)' = PeersThere(mainLooper)
    BY <2>1, SameInstance
  <2>4. AllowTypes'
    BY <2>1, <2>2, <2>3 DEF AllowTypes, NoSlot
  <2>5. FlagsAgree'
    BY <2>1, <2>2, <2>3 DEF FlagsAgree
  <2>6. CountAgrees'
    BY <2>1, <2>2, <2>3 DEF CountAgrees, UnderWay, ResponsesIn
  <2>7. IdsInOrder'
    <3>1. Current' = Current
      BY <2>1, <2>3 DEF Current, LastId, AnswersIn, ResponsesIn
    <3>2. Pending' = Pending
      BY <2>1 DEF Pending
    <3>3. Waiting' = Waiting
      BY <3>2 DEF Waiting, WaitingIn
    <3>4. Below(Current', Waiting') /\ InOrder(Pending')
      BY <3>1, <3>2, <3>3, <2>2 DEF IdsInOrder
    <3> QED
      BY <2>1, <2>2, <3>1, <3>3, <3>4, OrderStep
  <2> QED
    BY <2>4, <2>5, <2>6, <2>7 DEF AllowInv
<1>2. CASE Next
  <2>1. UNCHANGED inst /\ (Framework \/ MainThread \/ Restart \/ \E s \in Slots : ModemSide(s))
    BY <1>2 DEF Next, Steps
  <2>2. CASE Framework
    BY <2>1, <2>2, FrameworkStep
  <2>3. CASE MainThread
    BY <2>1, <2>3, SuspendStep, HandleStep, ResendStep, ConflictStep, PeerStep, DoneStep, SyncStep
       DEF MainThread
  <2>4. CASE Restart
    BY <2>1, <2>4, RestartStep
  <2>5. CASE \E s \in Slots : ModemSide(s)
    BY <2>1, <2>5, ModemStep
  <2> QED
    BY <2>1, <2>2, <2>3, <2>4, <2>5
<1> QED
  BY <1>1, <1>2

(* Types, flags, what is under way and the order of the ids hold in every reachable
   state of RtcDataAllowController. *)
THEOREM AllowInvariant == Spec => []AllowInv
BY AllowInitial, AllowSteps, PTL DEF Spec

(* handleMultiAllowError and checkDisallowingPeer: mDisallowingPeer is the number of
   requests to peers that are not answered, at most one request is under way
   otherwise, and the framework's requests are answered in order, each once. *)
THEOREM PeersCountedCorrect == Spec => []PeersCounted
<1>1. AllowInv => PeersCounted
  BY DEF AllowInv, CountAgrees, IdsInOrder, PeersCounted
<1> QED
  BY <1>1, AllowInvariant, PTL
-----------------------------------------------------------------------------
(* Which slot is allowed in the end: the requests that wait, and the one   *)
(* that was taken up last                                                  *)

\* The last request of a list allows the slot s; no request is in it; one that allows is.
EndsWith(q, s) ==
  \E i \in DOMAIN q : /\ q[i].type = "request" /\ q[i].allow = TRUE /\ q[i].slot = s
                      /\ \A j \in DOMAIN q : j > i => q[j].type # "request"
NoneIn(q)  == \A i \in DOMAIN q : q[i].type # "request"
AllowIn(q) == \E i \in DOMAIN q : q[i].type = "request" /\ q[i].allow = TRUE

\* The responses of a list
Answers(q) == {q[i] : i \in ResponsesIn(q)}

\* The last request that was taken up allows a slot (or its peers are disallowed for it).
Taken == mReqDataAllow \/ mDisallowingPeer > 0

\* What is under way is what mReqDataAllow says, for the slot of mLastAllowTrueRequest
\* when that is to allow it; and once such a request has succeeded, and until the next
\* one is taken up, that slot alone is allowed.
RequestsAgree ==
  /\ mLastAllowTrueRequest # << >> => mLastAllowTrueRequest.allow = TRUE
  /\ \A s \in Slots : \A i \in DOMAIN mcl[s] :
       /\ mcl[s][i].slot = s /\ mcl[s][i].allow = mReqDataAllow
       /\ mReqDataAllow => s = mLastAllowTrueRequest.slot
  /\ \A r \in Answers(mainLooper) :
       /\ r.error = "multi_allow" => mReqDataAllow
       /\ mReqDataAllow => r.slot = mLastAllowTrueRequest.slot
       /\ mReqDataAllow /\ r.error = "success" /\ ~allowLost => mdAllowed = {mLastAllowTrueRequest.slot}
  /\ mReqDataAllow /\ ~mDoingDataAllow /\ ~allowLost => mdAllowed = {mLastAllowTrueRequest.slot}

\* In preferred data mode the property is the slot of the last request, waiting or taken
\* up, and empty only as long as there was none.
PreferredAgrees ==
  PreferredMode =>
    /\ mIsPreferredDataMode = TRUE /\ legacy_allow_mode = NoSlot
    /\ \/ EndsWith(Pending, allow_data_slot)
       \/ NoneIn(Pending) /\ Taken /\ mLastAllowTrueRequest.slot = allow_data_slot
       \/ NoneIn(Pending) /\ ~Taken /\ allow_data_slot = NoSlot /\ mdAllowed = {}

\* Without it the property is the slot of the last request that allows and was taken up,
\* unless another one waits.
FrameworkAgrees ==
  mIsPreferredDataMode = FALSE =>
    \/ AllowIn(Pending)
    \/ Taken /\ mLastAllowTrueRequest.slot = allow_data_slot
    \/ ~Taken /\ (~allowLost => mdAllowed \subseteq {allow_data_slot})

\* The property is the slot that the queue or else the preferred SIM wants.
WantedAgrees ==
  /\ mIsPreferredDataMode \in BOOLEAN
  /\ mOnDemandQueue \in Seq(Types \X Slots) /\ preferredSim \in Slots \cup {NoSlot}
  /\ PreferredMode /\ ~cleared /\ Wanted(mOnDemandQueue) # NoSlot
       => allow_data_slot = Wanted(mOnDemandQueue)

\* The inductive invariant, with AllowInv
SlotInv == RequestsAgree /\ PreferredAgrees /\ FrameworkAgrees /\ WantedAgrees
-----------------------------------------------------------------------------
(* Lists of messages again *)

(* The last request of a list of two parts is the last of the second, or of the first
   if the second has none. *)
LEMMA JoinedLast ==
  ASSUME NEW p \in Seq(MessageSet), NEW q \in Seq(MessageSet)
  PROVE  /\ NoneIn(p \o q) <=> NoneIn(p) /\ NoneIn(q)
         /\ AllowIn(p \o q) <=> AllowIn(p) \/ AllowIn(q)
         /\ \A s : EndsWith(p \o q, s) <=> EndsWith(q, s) \/ (NoneIn(q) /\ EndsWith(p, s))
         /\ Answers(p \o q) = Answers(p) \cup Answers(q)
<1> DEFINE n == Len(p)
           k == Len(q)
           z == p \o q
<1>1. /\ n \in Nat /\ k \in Nat /\ DOMAIN p = 1 .. n /\ DOMAIN q = 1 .. k /\ DOMAIN z = 1 .. n + k
      /\ \A i \in 1 .. n + k : z[i] = IF i <= n THEN p[i] ELSE q[i - n]
  <2>1. z \in Seq(MessageSet) /\ Len(z) = n + k
    BY ConcatProperties
  <2>2. DOMAIN z = 1 .. n + k
    BY <2>1, LenProperties
  <2> QED
    BY <2>2, ConcatProperties, LenProperties
<1> HIDE DEF n, k, z
<1>2. \A i \in DOMAIN z : \/ i \in DOMAIN p /\ i <= n /\ z[i] = p[i]
                          \/ i - n \in DOMAIN q /\ i > n /\ z[i] = q[i - n]
  BY <1>1
<1>3. \A i \in DOMAIN p : i \in DOMAIN z /\ z[i] = p[i]
  BY <1>1
<1>4. \A i \in DOMAIN q : i + n \in DOMAIN z /\ z[i + n] = q[i]
  <2>1. \A i \in 1 .. k : i + n \in 1 .. n + k /\ ~(i + n <= n) /\ (i + n) - n = i
    BY <1>1
  <2> QED
    BY <1>1, <2>1
<1>5. NoneIn(z) <=> NoneIn(p) /\ NoneIn(q)
  <2>1. NoneIn(p) /\ NoneIn(q) => NoneIn(z)
    BY <1>2 DEF NoneIn
  <2>2. NoneIn(z) => NoneIn(p)
    BY <1>3 DEF NoneIn
  <2>3. NoneIn(z) => NoneIn(q)
    BY <1>4 DEF NoneIn
  <2> QED
    BY <2>1, <2>2, <2>3
<1>6. AllowIn(z) <=> AllowIn(p) \/ AllowIn(q)
  <2>1. AllowIn(z) => AllowIn(p) \/ AllowIn(q)
    BY <1>2 DEF AllowIn
  <2>2. AllowIn(p) => AllowIn(z)
    BY <1>3 DEF AllowIn
  <2>3. AllowIn(q) => AllowIn(z)
    BY <1>4 DEF AllowIn
  <2> QED
    BY <2>1, <2>2, <2>3
<1>7. ASSUME NEW s PROVE EndsWith(z, s) <=> EndsWith(q, s) \/ (NoneIn(q) /\ EndsWith(p, s))
  <2>1. ASSUME EndsWith(z, s) PROVE EndsWith(q, s) \/ (NoneIn(q) /\ EndsWith(p, s))
    <3>1. PICK i \in DOMAIN z : /\ z[i].type = "request" /\ z[i].allow = TRUE /\ z[i].slot = s
                                /\ \A j \in DOMAIN z : j > i => z[j].type # "request"
      BY <2>1 DEF EndsWith
    <3>2. CASE i <= n
      <4>1. i \in DOMAIN p /\ z[i] = p[i]
        BY <1>1, <3>2
      <4>2. \A j \in DOMAIN p : j > i => p[j].type # "request"
        BY <3>1, <1>3
      <4>3. \A j \in DOMAIN q : j + n > i
        BY <1>1, <3>2
      <4>4. NoneIn(q)
        BY <3>1, <1>4, <4>3 DEF NoneIn
      <4> QED
        BY <3>1, <4>1, <4>2, <4>4 DEF EndsWith
    <3>3. CASE i > n
      <4>1. i - n \in DOMAIN q /\ z[i] = q[i - n]
        BY <1>1, <3>3
      <4>2. \A j \in DOMAIN q : j > i - n => j + n > i
        BY <1>1
      <4>3. \A j \in DOMAIN q : j > i - n => q[j].type # "request"
        BY <3>1, <1>4, <4>2
      <4> QED
        BY <3>1, <4>1, <4>3 DEF EndsWith
    <3> QED
      BY <1>1, <3>2, <3>3
  <2>2. ASSUME EndsWith(q, s) PROVE EndsWith(z, s)
    <3>1. PICK i \in DOMAIN q : /\ q[i].type = "request" /\ q[i].allow = TRUE /\ q[i].slot = s
                                /\ \A j \in DOMAIN q : j > i => q[j].type # "request"
      BY <2>2 DEF EndsWith
    <3>2. i + n \in DOMAIN z /\ z[i + n] = q[i]
      BY <1>4
    <3>3. ASSUME NEW j \in DOMAIN z, j > i + n PROVE z[j].type # "request"
      <4>1. j - n \in DOMAIN q /\ j - n > i /\ z[j] = q[j - n]
        BY <1>1, <3>3
      <4> QED
        BY <4>1, <3>1
    <3> QED
      BY <3>1, <3>2, <3>3 DEF EndsWith
  <2>3. ASSUME NoneIn(q), EndsWith(p, s) PROVE EndsWith(z, s)
    <3>1. PICK i \in DOMAIN p : /\ p[i].type = "request" /\ p[i].allow = TRUE /\ p[i].slot = s
                                /\ \A j \in DOMAIN p : j > i => p[j].type # "request"
      BY <2>3 DEF EndsWith
    <3>2. i \in DOMAIN z /\ z[i] = p[i]
      BY <1>3
    <3>3. ASSUME NEW j \in DOMAIN z, j > i PROVE z[j].type # "request"
      BY <1>2, <2>3, <3>1, <3>3 DEF NoneIn
    <3> QED
      BY <3>1, <3>2, <3>3 DEF EndsWith
  <2> QED
    BY <2>1, <2>2, <2>3
<1>8. Answers(z) = Answers(p) \cup Answers(q)
  <2>1. Answers(z) \subseteq Answers(p) \cup Answers(q)
    BY <1>2 DEF Answers, ResponsesIn
  <2>2. Answers(p) \subseteq Answers(z)
    BY <1>3 DEF Answers, ResponsesIn
  <2>3. Answers(q) \subseteq Answers(z)
    BY <1>4 DEF Answers, ResponsesIn
  <2> QED
    BY <2>1, <2>2, <2>3
<1> QED
  BY <1>5, <1>6, <1>7, <1>8 DEF z

(* One message alone, and none *)
LEMMA SingleLast ==
  ASSUME NEW m \in MessageSet
  PROVE  /\ NoneIn(<< m >>) <=> m.type # "request"
         /\ AllowIn(<< m >>) <=> m.type = "request" /\ m.allow = TRUE
         /\ \A s : EndsWith(<< m >>, s) <=> m.type = "request" /\ m.allow = TRUE /\ m.slot = s
         /\ Answers(<< m >>) = IF m.type = "response" THEN {m} ELSE {}
<1> DEFINE q == << m >>
<1>1. q[1] = m /\ DOMAIN q = {1}
  BY Single
<1> HIDE DEF q
<1>2. /\ NoneIn(q) <=> m.type # "request"
      /\ AllowIn(q) <=> m.type = "request" /\ m.allow = TRUE
  BY <1>1 DEF NoneIn, AllowIn
<1>3. \A s : EndsWith(q, s) <=> m.type = "request" /\ m.allow = TRUE /\ m.slot = s
  BY <1>1 DEF EndsWith
<1>4. Answers(q) = IF m.type = "response" THEN {m} ELSE {}
  BY <1>1 DEF Answers, ResponsesIn
<1> QED
  BY <1>2, <1>3, <1>4 DEF q

(* No message *)
LEMMA NothingLast ==
  NoneIn(<< >>) /\ ~AllowIn(<< >>) /\ (\A s : ~EndsWith(<< >>, s)) /\ Answers(<< >>) = {}
<1> DEFINE q == << >>
<1>1. DOMAIN q = {}
  BY Nothing
<1> HIDE DEF q
<1>2. NoneIn(q) /\ ~AllowIn(q) /\ (\A s : ~EndsWith(q, s)) /\ Answers(q) = {}
  BY <1>1 DEF NoneIn, AllowIn, EndsWith, Answers, ResponsesIn
<1> QED
  BY <1>2 DEF q
-----------------------------------------------------------------------------
(* What is left when a message has been handled *)

(* Requests that come behind the others *)
LEMMA SentLast ==
  ASSUME AllowTypes, UNCHANGED suspended, NEW q \in Seq(RequestSet), mainLooper' = mainLooper \o q
  PROVE  /\ NoneIn(Pending') <=> NoneIn(Pending) /\ NoneIn(q)
         /\ AllowIn(Pending') <=> AllowIn(Pending) \/ AllowIn(q)
         /\ \A s : EndsWith(Pending', s) <=> EndsWith(q, s) \/ (NoneIn(q) /\ EndsWith(Pending, s))
         /\ Answers(mainLooper') = Answers(mainLooper)
<1>1. /\ mainLooper \in Seq(MessageSet) /\ suspended \in Seq(MessageSet) /\ q \in Seq(MessageSet)
      /\ ResponsesIn(q) = {}
  BY OnlyRequests DEF AllowTypes
<1>2. Pending \in Seq(MessageSet) /\ Pending' = Pending \o q
  <2>1. Pending \in Seq(MessageSet)
    BY <1>1, ConcatProperties DEF Pending
  <2>2. suspended \o (mainLooper \o q) = (suspended \o mainLooper) \o q
    BY <1>1, Regrouped
  <2> QED
    BY <2>1, <2>2 DEF Pending
<1>3. Answers(q) = {}
  BY <1>1 DEF Answers
<1>4. Answers(mainLooper \o q) = Answers(mainLooper) \cup Answers(q)
  BY <1>1, JoinedLast
<1>5. /\ NoneIn(Pending \o q) <=> NoneIn(Pending) /\ NoneIn(q)
      /\ AllowIn(Pending \o q) <=> AllowIn(Pending) \/ AllowIn(q)
      /\ \A s : EndsWith(Pending \o q, s) <=> EndsWith(q, s) \/ (NoneIn(q) /\ EndsWith(Pending, s))
  BY <1>1, <1>2, JoinedLast
<1> QED
  BY <1>2, <1>3, <1>4, <1>5

(* What comes behind from the modem side has no requests. *)
LEMMA AnsweredLast ==
  ASSUME AllowTypes, UNCHANGED suspended, NEW q \in Seq(MessageSet), mainLooper' = mainLooper \o q, NoneIn(q)
  PROVE  /\ NoneIn(Pending') <=> NoneIn(Pending)
         /\ AllowIn(Pending') <=> AllowIn(Pending)
         /\ \A s : EndsWith(Pending', s) <=> EndsWith(Pending, s)
         /\ Answers(mainLooper') = Answers(mainLooper) \cup Answers(q)
<1>1. mainLooper \in Seq(MessageSet) /\ suspended \in Seq(MessageSet)
  BY OnlyRequests DEF AllowTypes
<1>2. Pending \in Seq(MessageSet) /\ Pending' = Pending \o q
  <2>1. Pending \in Seq(MessageSet)
    BY <1>1, ConcatProperties DEF Pending
  <2>2. suspended \o (mainLooper \o q) = (suspended \o mainLooper) \o q
    BY <1>1, Regrouped
  <2> QED
    BY <2>1, <2>2 DEF Pending
<1>3. ~AllowIn(q) /\ \A s : ~EndsWith(q, s)
  BY DEF NoneIn, AllowIn, EndsWith
<1>4. Answers(mainLooper \o q) = Answers(mainLooper) \cup Answers(q)
  BY <1>1, JoinedLast
<1>5. /\ NoneIn(Pending \o q) <=> NoneIn(Pending) /\ NoneIn(q)
      /\ AllowIn(Pending \o q) <=> AllowIn(Pending) \/ AllowIn(q)
      /\ \A s : EndsWith(Pending \o q, s) <=> EndsWith(q, s) \/ (NoneIn(q) /\ EndsWith(Pending, s))
  BY <1>2, JoinedLast
<1> QED
  BY <1>2, <1>3, <1>4, <1>5

(* A message that is no request has been handled, and the suspended ones may be back. *)
LEMMA HandledLast ==
  ASSUME AllowTypes, mainLooper # << >>, Head(mainLooper).type # "request",
         NEW d \in BOOLEAN, Resumed(d, Tail(mainLooper))
  PROVE  /\ NoneIn(Pending') <=> NoneIn(Pending)
         /\ AllowIn(Pending') <=> AllowIn(Pending)
         /\ \A s : EndsWith(Pending', s) <=> EndsWith(Pending, s)
         /\ Answers(mainLooper') \subseteq Answers(mainLooper)
<1> DEFINE h == Head(mainLooper)
           t == Tail(mainLooper)
<1>1. /\ mainLooper \in Seq(MessageSet) /\ suspended \in Seq(MessageSet) /\ ResponsesIn(suspended) = {}
  BY OnlyRequests DEF AllowTypes
<1>2. h \in MessageSet /\ t \in Seq(MessageSet) /\ mainLooper = << h >> \o t
  BY <1>1, First
<1>3. /\ << h >> \in Seq(MessageSet) /\ NoneIn(<< h >>) /\ ~AllowIn(<< h >>)
      /\ \A s : ~EndsWith(<< h >>, s)
  BY <1>2, Single, SingleLast
<1>4. \/ mainLooper' = t /\ suspended' = suspended
      \/ mainLooper' = suspended \o t /\ suspended' = << >>
  BY DEF Resumed
<1> HIDE DEF h, t
<1>5. /\ NoneIn(mainLooper) <=> NoneIn(t)
      /\ AllowIn(mainLooper) <=> AllowIn(t)
      /\ \A s : EndsWith(mainLooper, s) <=> EndsWith(t, s)
      /\ Answers(t) \subseteq Answers(mainLooper)
  <2>1. /\ NoneIn(<< h >> \o t) <=> NoneIn(<< h >>) /\ NoneIn(t)
        /\ AllowIn(<< h >> \o t) <=> AllowIn(<< h >>) \/ AllowIn(t)
        /\ \A s : EndsWith(<< h >> \o t, s) <=> EndsWith(t, s) \/ (NoneIn(t) /\ EndsWith(<< h >>, s))
        /\ Answers(<< h >> \o t) = Answers(<< h >>) \cup Answers(t)
    BY <1>2, <1>3, JoinedLast
  <2> QED
    BY <2>1, <1>2, <1>3
<1>6. \A q \in Seq(MessageSet) :
        /\ NoneIn(suspended \o q) <=> NoneIn(suspended) /\ NoneIn(q)
        /\ AllowIn(suspended \o q) <=> AllowIn(suspended) \/ AllowIn(q)
        /\ \A s : EndsWith(suspended \o q, s) <=> EndsWith(q, s) \/ (NoneIn(q) /\ EndsWith(suspended, s))
        /\ Answers(suspended \o q) = Answers(suspended) \cup Answers(q)
  BY <1>1, JoinedLast
<1>7. suspended \o t \in Seq(MessageSet) /\ Answers(suspended) = {}
  BY <1>1, <1>2, ConcatProperties DEF Answers
<1>8. Pending' = suspended \o t
  <2>1. << >> \o (suspended \o t) = suspended \o t
    BY <1>7, ConcatEmptySeq
  <2> QED
    BY <1>4, <2>1 DEF Pending
<1>9. /\ NoneIn(suspended \o t) <=> NoneIn(suspended \o mainLooper)
      /\ AllowIn(suspended \o t) <=> AllowIn(suspended \o mainLooper)
      /\ \A s : EndsWith(suspended \o t, s) <=> EndsWith(suspended \o mainLooper, s)
  BY <1>1, <1>2, <1>5, <1>6
<1>10. Answers(mainLooper') \subseteq Answers(mainLooper)
  BY <1>2, <1>4, <1>5, <1>6, <1>7
<1> QED
  BY <1>8, <1>9, <1>10 DEF Pending

(* A list with no response answers nothing. *)
LEMMA NoneLeft ==
  ASSUME NEW q \in Seq(MessageSet), Cardinality(ResponsesIn(q)) = 0
  PROVE  Answers(q) = {}
<1>1. Len(q) \in Nat /\ DOMAIN q = 1 .. Len(q)
  BY LenProperties
<1>2. IsFiniteSet(1 .. Len(q)) /\ ResponsesIn(q) \subseteq 1 .. Len(q)
  BY <1>1, FS_Interval DEF ResponsesIn
<1>3. IsFiniteSet(ResponsesIn(q))
  BY <1>2, FS_Subset
<1>4. ResponsesIn(q) = {}
  BY <1>3, FS_EmptySet
<1> QED
  BY <1>4 DEF Answers

(* Without disallowed peers what is under way is one request at most, here or there. *)
LEMMA OneUnderWay ==
  ASSUME AllowInv, mDisallowingPeer = 0
  PROVE  /\ \A s \in Slots : mcl[s] # << >> => mDoingDataAllow /\ Answers(mainLooper) = {}
         /\ ~mDoingDataAllow => Answers(mainLooper) = {} /\ \A s \in Slots : DOMAIN mcl[s] = {}
<1>1. /\ AllowTypes /\ CountAgrees /\ inst \in Instances /\ mcl \in [Slots -> Seq(RequestSet)]
      /\ mainLooper \in Seq(MessageSet)
  BY DEF AllowInv, AllowTypes
<1> DEFINE a == Cardinality(AtModem(mcl))
           b == Cardinality(ResponsesIn(mainLooper))
<1>2. a \in Nat /\ b \in Nat /\ IsFiniteSet(AtModem(mcl))
  <2>1. a \in Nat /\ IsFiniteSet(AtModem(mcl))
    BY <1>1, AtModemPlaces
  <2>2. b \in Nat
    <3>1. \A q \in Seq(MessageSet) : Cardinality(ResponsesIn(q)) \in Nat
      BY Joined
    <3> QED
      BY <1>1, <3>1
  <2> QED
    BY <2>1, <2>2
<1>3. a + b = IF mDoingDataAllow THEN 1 ELSE 0
  BY <1>1 DEF CountAgrees, UnderWay
<1>4. ASSUME NEW s \in Slots, mcl[s] # << >> PROVE a # 0
  <2>1. mcl[s] \in Seq(RequestSet)
    BY <1>1
  <2>2. Len(mcl[s]) \in Nat /\ Len(mcl[s]) # 0
    BY <2>1, <1>4, EmptySeq, LenProperties
  <2>3. << s, 1 >> \in AtModem(mcl)
    <3>1. 1 \in 1 .. Len(mcl[s])
      BY <2>2
    <3> QED
      BY <3>1, <1>1, AtModemPlaces
  <2> QED
    BY <2>3, <1>2, FS_EmptySet
<1>5. ASSUME a = 0, NEW s \in Slots PROVE DOMAIN mcl[s] = {}
  <2>1. mcl[s] = << >>
    BY <1>4, <1>5
  <2> QED
    BY <2>1, Nothing
<1>6. b = 0 => Answers(mainLooper) = {}
  BY <1>1, NoneLeft
<1> HIDE DEF a, b
<1>7. (a # 0 => mDoingDataAllow /\ b = 0) /\ (~mDoingDataAllow => a = 0 /\ b = 0)
  BY <1>2, <1>3
<1> QED
  BY <1>4, <1>5, <1>6, <1>7

(* The response that is handled was the only one, with nothing at the modem side. *)
LEMMA LastAnswer ==
  ASSUME AllowInv, UNCHANGED inst, Message("response"), mDisallowingPeer \in {0, 1},
         NEW d \in BOOLEAN, Resumed(d, Tail(mainLooper))
  PROVE  Answers(mainLooper') = {} /\ \A s \in Slots : DOMAIN mcl[s] = {}
<1>1. /\ AllowTypes /\ CountAgrees /\ inst \in Instances /\ mcl \in [Slots -> Seq(RequestSet)]
  BY DEF AllowInv, AllowTypes
<1>2. /\ mainLooper' \in Seq(MessageSet)
      /\ Cardinality(ResponsesIn(mainLooper')) \in Nat /\ Cardinality(AtModem(mcl)) \in Nat
      /\ UnderWay = Cardinality(AtModem(mcl)) + Cardinality(ResponsesIn(mainLooper')) + 1
      /\ mDoingDataAllow
  BY ResponseFirst
<1>3. UnderWay = 1
  BY <1>1, <1>2 DEF CountAgrees
<1>4. Cardinality(ResponsesIn(mainLooper')) = 0 /\ Cardinality(AtModem(mcl)) = 0
  BY <1>2, <1>3
<1>5. AtModem(mcl) = {}
  BY <1>1, <1>4, AtModemPlaces, FS_EmptySet
<1>6. \A s \in Slots : DOMAIN mcl[s] = {}
  <2> SUFFICES ASSUME NEW s \in Slots, NEW i \in DOMAIN mcl[s] PROVE FALSE
    OBVIOUS
  <2>1. mcl[s] \in Seq(RequestSet)
    BY <1>1
  <2>2. i \in 1 .. Len(mcl[s])
    BY <2>1, LenProperties
  <2>3. << s, i >> \in AtModem(mcl)
    BY <2>2, <1>1, AtModemPlaces
  <2> QED
    BY <2>3, <1>5
<1>7. Answers(mainLooper') = {}
  <2>1. \A q \in Seq(MessageSet) : Cardinality(ResponsesIn(q)) = 0 => Answers(q) = {}
    BY NoneLeft
  <2> QED
    BY <2>1, <1>2, <1>4
<1> QED
  BY <1>6, <1>7
-----------------------------------------------------------------------------
(* The steps of the main thread *)

(* The parts of the invariant after a step, said of the new values *)
LEMMA Afterwards ==
  ASSUME UNCHANGED inst
  PROVE  /\ NoneIn(Pending)' <=> NoneIn(Pending')
         /\ AllowIn(Pending)' <=> AllowIn(Pending')
         /\ EndsWith(Pending, allow_data_slot)' <=> EndsWith(Pending', allow_data_slot')
         /\ PreferredMode' = PreferredMode /\ Slots' = Slots /\ Types' = Types
         /\ /\ mLastAllowTrueRequest' # << >> => mLastAllowTrueRequest'.allow = TRUE
            /\ \A s \in Slots : \A i \in DOMAIN mcl'[s] :
                 /\ mcl'[s][i].slot = s /\ mcl'[s][i].allow = mReqDataAllow'
                 /\ mReqDataAllow' => s = mLastAllowTrueRequest'.slot
            /\ \A r \in Answers(mainLooper') :
                 /\ r.error = "multi_allow" => mReqDataAllow'
                 /\ mReqDataAllow' => r.slot = mLastAllowTrueRequest'.slot
                 /\ mReqDataAllow' /\ r.error = "success" /\ ~allowLost'
                      => mdAllowed' = {mLastAllowTrueRequest'.slot}
            /\ mReqDataAllow' /\ ~mDoingDataAllow' /\ ~allowLost'
                 => mdAllowed' = {mLastAllowTrueRequest'.slot}
            => RequestsAgree'
<1>1. PreferredMode' = PreferredMode /\ Slots' = Slots /\ Types' = Types
  BY DEF PreferredMode, Slots, SimCount, Types
<1>2. NoneIn(Pending)' <=> NoneIn(Pending')
  BY DEF NoneIn
<1>3. AllowIn(Pending)' <=> AllowIn(Pending')
  BY DEF AllowIn
<1>4. EndsWith(Pending, allow_data_slot)' <=> EndsWith(Pending', allow_data_slot')
  BY DEF EndsWith
<1>5. Answers(mainLooper)' = Answers(mainLooper')
  BY DEF Answers, ResponsesIn
<1> QED
  BY <1>1, <1>2, <1>3, <1>4, <1>5 DEF RequestsAgree

\* The same requests wait, and what was taken up last is the same.
SameStream ==
  /\ NoneIn(Pending') <=> NoneIn(Pending)
  /\ AllowIn(Pending') <=> AllowIn(Pending)
  /\ \A s : EndsWith(Pending', s) <=> EndsWith(Pending, s)

(* The property stays the slot that is allowed in the end as long as the same requests
   wait and nothing new is taken up. *)
LEMMA StreamKept ==
  ASSUME SlotInv, SameStream,
         UNCHANGED << inst, mOnDemandQueue, mIsPreferredDataMode, legacy_allow_mode, preferredSim, cleared >>,
         UNCHANGED mLastAllowTrueRequest, Taken' <=> Taken,
         allow_data_slot' = allow_data_slot
           \/ (mIsPreferredDataMode = FALSE /\ Taken /\ allow_data_slot' = mLastAllowTrueRequest.slot),
         ~Taken => mdAllowed' \subseteq mdAllowed, allowLost => allowLost'
  PROVE  PreferredAgrees' /\ FrameworkAgrees' /\ WantedAgrees'
<1>1. PreferredAgrees /\ FrameworkAgrees /\ WantedAgrees
  BY DEF SlotInv
<1>2. /\ NoneIn(Pending)' <=> NoneIn(Pending)
      /\ AllowIn(Pending)' <=> AllowIn(Pending)
      /\ EndsWith(Pending, allow_data_slot)' <=> EndsWith(Pending, allow_data_slot')
      /\ PreferredMode' = PreferredMode /\ Slots' = Slots /\ Types' = Types
  <2>1. /\ NoneIn(Pending)' <=> NoneIn(Pending')
        /\ AllowIn(Pending)' <=> AllowIn(Pending')
        /\ EndsWith(Pending, allow_data_slot)' <=> EndsWith(Pending', allow_data_slot')
        /\ PreferredMode' = PreferredMode /\ Slots' = Slots /\ Types' = Types
    BY Afterwards
  <2> QED
    BY <2>1 DEF SameStream
<1>3. PreferredAgrees'
  <2> SUFFICES ASSUME PreferredMode
               PROVE  /\ mIsPreferredDataMode' = TRUE /\ legacy_allow_mode' = NoSlot'
                      /\ \/ EndsWith(Pending, allow_data_slot)'
                         \/ NoneIn(Pending)' /\ Taken' /\ mLastAllowTrueRequest'.slot = allow_data_slot'
                         \/ NoneIn(Pending)' /\ ~Taken' /\ allow_data_slot' = NoSlot' /\ mdAllowed' = {}
    BY <1>2 DEF PreferredAgrees
  <2>1. /\ mIsPreferredDataMode = TRUE /\ legacy_allow_mode = NoSlot
        /\ \/ EndsWith(Pending, allow_data_slot)
           \/ NoneIn(Pending) /\ Taken /\ mLastAllowTrueRequest.slot = allow_data_slot
           \/ NoneIn(Pending) /\ ~Taken /\ allow_data_slot = NoSlot /\ mdAllowed = {}
    BY <1>1 DEF PreferredAgrees
  <2>2. allow_data_slot' = allow_data_slot
    BY <2>1
  <2> QED
    BY <2>1, <2>2, <1>2 DEF NoSlot
<1>4. FrameworkAgrees'
  <2> SUFFICES ASSUME mIsPreferredDataMode = FALSE
               PROVE  \/ AllowIn(Pending)'
                      \/ Taken' /\ mLastAllowTrueRequest'.slot = allow_data_slot'
                      \/ ~Taken' /\ (~allowLost' => mdAllowed' \subseteq {allow_data_slot'})
    BY DEF FrameworkAgrees
  <2>1. \/ AllowIn(Pending)
        \/ Taken /\ mLastAllowTrueRequest.slot = allow_data_slot
        \/ ~Taken /\ (~allowLost => mdAllowed \subseteq {allow_data_slot})
    BY <1>1 DEF FrameworkAgrees
  <2> QED
    BY <2>1, <1>2
<1>5. WantedAgrees'
  <2>1. PreferredMode => allow_data_slot' = allow_data_slot
    BY <1>1 DEF PreferredAgrees
  <2>2. Wanted(mOnDemandQueue)' = Wanted(mOnDemandQueue)
    BY DEF Wanted
  <2> QED
    BY <1>1, <1>2, <2>1, <2>2 DEF WantedAgrees, NoSlot
<1> QED
  BY <1>3, <1>4, <1>5

(* A request is set aside: it waits as before. *)
LEMMA SuspendSlots ==
  ASSUME AllowInv, SlotInv, SuspendRequest, UNCHANGED inst
  PROVE  SlotInv'
<1> DEFINE h == Head(mainLooper)
           t == Tail(mainLooper)
<1>1. AllowTypes /\ RequestsAgree /\ Message("request") /\ mainLooper \in Seq(MessageSet)
      /\ suspended \in Seq(RequestSet)
  BY DEF AllowInv, AllowTypes, SlotInv, SuspendRequest
<1>2. /\ mainLooper' = t /\ suspended' = Append(suspended, h)
      /\ UNCHANGED << mcl, mdAllowed, allow_data_slot, allowLost, mDoingDataAllow, mReqDataAllow,
                      mDisallowingPeer, mLastAllowTrueRequest, mOnDemandQueue, mIsPreferredDataMode,
                      legacy_allow_mode, preferredSim, cleared >>
  BY DEF SuspendRequest, dacVars, slotVars
<1>3. h \in RequestSet /\ t \in Seq(MessageSet) /\ << h >> \in Seq(MessageSet) /\ mainLooper = << h >> \o t
  BY <1>1, RequestFirst
<1> HIDE DEF h, t
<1>4. Pending' = Pending
  <2>1. suspended \in Seq(MessageSet)
    BY <1>1, OnlyRequests
  <2>2. Append(suspended, h) = suspended \o << h >>
    BY <1>1, <1>3, AppendIsConcat
  <2>3. suspended \o (<< h >> \o t) = (suspended \o << h >>) \o t
    BY <2>1, <1>3, Regrouped
  <2> QED
    BY <2>2, <2>3, <1>2, <1>3 DEF Pending
<1>5. Answers(mainLooper') \subseteq Answers(mainLooper)
  <2>1. Answers(<< h >> \o t) = Answers(<< h >>) \cup Answers(t)
    BY <1>3, JoinedLast
  <2> QED
    BY <2>1, <1>2, <1>3
<1>6. RequestsAgree'
  BY <1>1, <1>2, <1>5, Afterwards DEF RequestsAgree
<1>7. PreferredAgrees' /\ FrameworkAgrees' /\ WantedAgrees'
  <2>1. SameStream
    BY <1>4 DEF SameStream
  <2>2. Taken' <=> Taken
    BY <1>2 DEF Taken
  <2> QED
    BY <1>2, <2>1, <2>2, StreamKept
<1> QED
  BY <1>6, <1>7 DEF SlotInv

(* A status is applied. *)
LEMMA SyncSlots ==
  ASSUME AllowInv, SlotInv, ApplyStatusSync, UNCHANGED inst
  PROVE  SlotInv'
<1>1. AllowTypes /\ RequestsAgree /\ mDoingDataAllow \in BOOLEAN
  BY DEF AllowInv, AllowTypes, SlotInv
<1>2. /\ mainLooper # << >> /\ Head(mainLooper).type = "sync" /\ Resumed(mDoingDataAllow, Tail(mainLooper))
      /\ UNCHANGED << mcl, mdAllowed, allow_data_slot, allowLost, mDoingDataAllow, mReqDataAllow,
                      mDisallowingPeer, mLastAllowTrueRequest, mOnDemandQueue, mIsPreferredDataMode,
                      legacy_allow_mode, preferredSim, cleared >>
  BY DEF ApplyStatusSync, Message, dacVars, slotVars
<1>3. SameStream /\ Answers(mainLooper') \subseteq Answers(mainLooper)
  <2>1. Head(mainLooper).type # "request"
    BY <1>2
  <2> QED
    BY <1>1, <1>2, <2>1, HandledLast DEF SameStream
<1>4. RequestsAgree'
  BY <1>1, <1>2, <1>3, Afterwards DEF RequestsAgree
<1>5. PreferredAgrees' /\ FrameworkAgrees' /\ WantedAgrees'
  <2>1. Taken' <=> Taken
    BY <1>2 DEF Taken
  <2> QED
    BY <1>2, <1>3, <2>1, StreamKept
<1> QED
  BY <1>4, <1>5 DEF SlotInv

(* What a response's handler finds: its response is one of the list, and the rest of it
   and the requests that wait stay. *)
LEMMA AnswerLast ==
  ASSUME AllowInv, Message("response"), NEW d \in BOOLEAN, Resumed(d, Tail(mainLooper))
  PROVE  /\ SameStream /\ Answers(mainLooper') \subseteq Answers(mainLooper)
         /\ Head(mainLooper) \in Answers(mainLooper)
         /\ Head(mainLooper).error \in {"success", "multi_allow", "not_supported"}
<1>1. AllowTypes /\ mainLooper \in Seq(MessageSet) /\ mainLooper # << >> /\ Head(mainLooper).type = "response"
  BY DEF AllowInv, AllowTypes, Message
<1>2. SameStream /\ Answers(mainLooper') \subseteq Answers(mainLooper)
  <2>1. Head(mainLooper).type # "request"
    BY <1>1
  <2> QED
    BY <1>1, <2>1, HandledLast DEF SameStream
<1>3. Head(mainLooper) \in MessageSet /\ 1 \in DOMAIN mainLooper /\ Head(mainLooper) = mainLooper[1]
  BY <1>1, First
<1>4. Head(mainLooper) \in Answers(mainLooper)
  BY <1>1, <1>3 DEF Answers, ResponsesIn
<1>5. Head(mainLooper).error \in {"success", "multi_allow", "not_supported"}
  BY <1>1, <1>3 DEF MessageSet
<1> QED
  BY <1>2, <1>4, <1>5

(* What is in a channel that gets a request *)
LEMMA Appended ==
  ASSUME NEW c \in Seq(RequestSet), NEW r \in RequestSet, NEW i \in DOMAIN Append(c, r)
  PROVE  (i \in DOMAIN c /\ Append(c, r)[i] = c[i]) \/ Append(c, r)[i] = r
<1> DEFINE d == Append(c, r)
<1>1. /\ Len(d) = Len(c) + 1 /\ d \in Seq(RequestSet)
      /\ \A j \in 1 .. Len(c) : d[j] = c[j]
      /\ d[Len(c) + 1] = r
  BY AppendProperties
<1> HIDE DEF d
<1>2. DOMAIN c = 1 .. Len(c) /\ DOMAIN d = 1 .. Len(d) /\ Len(c) \in Nat
  BY <1>1, LenProperties
<1>3. i \in 1 .. Len(c) \/ i = Len(c) + 1
  BY <1>1, <1>2 DEF d
<1>4. (i \in DOMAIN c /\ d[i] = c[i]) \/ d[i] = r
  BY <1>1, <1>2, <1>3
<1> QED
  BY <1>4 DEF d

(* An unsupported request goes back to its slot's channel. *)
LEMMA ResendSlots ==
  ASSUME AllowInv, SlotInv, ResendRequest, UNCHANGED inst
  PROVE  SlotInv'
<1> DEFINE h == Head(mainLooper)
           r == Request(h.slot, mReqDataAllow, 0)
<1>1. /\ AllowTypes /\ FlagsAgree /\ RequestsAgree /\ inst \in Instances
      /\ mcl \in [Slots -> Seq(RequestSet)] /\ mReqDataAllow \in BOOLEAN /\ mDisallowingPeer \in Nat
  BY DEF AllowInv, AllowTypes, SlotInv
<1>2. /\ Message("response") /\ h.error = "not_supported" /\ Resumed(TRUE, Tail(mainLooper))
      /\ mcl' = [mcl EXCEPT ![h.slot] = Append(@, r)]
      /\ UNCHANGED << mdAllowed, allow_data_slot, allowLost, mDoingDataAllow, mReqDataAllow,
                      mDisallowingPeer, mLastAllowTrueRequest, mOnDemandQueue, mIsPreferredDataMode,
                      legacy_allow_mode, preferredSim, cleared >>
  BY DEF ResendRequest, dacVars, rspRest, bounds
<1>3. /\ SameStream /\ Answers(mainLooper') \subseteq Answers(mainLooper) /\ h \in Answers(mainLooper)
      /\ h.slot \in Slots
  <2>1. TRUE \in BOOLEAN
    OBVIOUS
  <2> QED
    BY <1>2, <2>1, AnswerLast, ResponseFirst
<1>4. r \in RequestSet /\ r.slot = h.slot /\ r.allow = mReqDataAllow
  BY <1>1, <1>3 DEF Request, RequestSet
<1> HIDE DEF h, r
<1>5. mReqDataAllow => h.slot = mLastAllowTrueRequest.slot
  BY <1>1, <1>3 DEF RequestsAgree
<1>6. ASSUME NEW s \in Slots, NEW i \in DOMAIN mcl'[s]
      PROVE  /\ mcl'[s][i].slot = s /\ mcl'[s][i].allow = mReqDataAllow
             /\ mReqDataAllow => s = mLastAllowTrueRequest.slot
  <2>1. CASE s = h.slot
    <3>1. mcl'[s] = Append(mcl[s], r) /\ mcl[s] \in Seq(RequestSet)
      BY <1>1, <1>2, <2>1
    <3>2. \/ i \in DOMAIN mcl[s] /\ mcl'[s][i] = mcl[s][i]
          \/ mcl'[s][i] = r
      BY <3>1, <1>4, <1>6, Appended
    <3>3. CASE mcl'[s][i] = r
      BY <3>3, <2>1, <1>4, <1>5
    <3>4. CASE i \in DOMAIN mcl[s] /\ mcl'[s][i] = mcl[s][i]
      BY <3>4, <1>1 DEF RequestsAgree
    <3> QED
      BY <3>2, <3>3, <3>4
  <2>2. CASE s # h.slot
    <3>1. mcl'[s] = mcl[s]
      BY <1>1, <1>2, <2>2
    <3> QED
      BY <3>1, <1>1, <1>6 DEF RequestsAgree
  <2> QED
    BY <2>1, <2>2
<1>7. RequestsAgree'
  <2>1. /\ mLastAllowTrueRequest' # << >> => mLastAllowTrueRequest'.allow = TRUE
        /\ \A q \in Answers(mainLooper') :
             /\ q.error = "multi_allow" => mReqDataAllow'
             /\ mReqDataAllow' => q.slot = mLastAllowTrueRequest'.slot
             /\ mReqDataAllow' /\ q.error = "success" /\ ~allowLost'
                  => mdAllowed' = {mLastAllowTrueRequest'.slot}
        /\ mReqDataAllow' /\ ~mDoingDataAllow' /\ ~allowLost'
             => mdAllowed' = {mLastAllowTrueRequest'.slot}
    BY <1>1, <1>2, <1>3 DEF RequestsAgree
  <2> QED
    BY <2>1, <1>2, <1>6, Afterwards
<1>8. PreferredAgrees' /\ FrameworkAgrees' /\ WantedAgrees'
  <2>1. Taken' <=> Taken
    BY <1>2 DEF Taken
  <2> QED
    BY <1>2, <1>3, <2>1, StreamKept
<1> QED
  BY <1>7, <1>8 DEF SlotInv

(* handleMultiAllowError: each of the peers is asked to be disallowed. *)
LEMMA ConflictSlots ==
  ASSUME AllowInv, SlotInv, HandleMultiAllowError, UNCHANGED inst
  PROVE  SlotInv'
<1> DEFINE h == Head(mainLooper)
           P == Peers(h.slot)
<1>1. /\ AllowTypes /\ FlagsAgree /\ RequestsAgree /\ inst \in Instances
      /\ mcl \in [Slots -> Seq(RequestSet)] /\ mReqDataAllow \in BOOLEAN /\ mDisallowingPeer \in Nat
  BY DEF AllowInv, AllowTypes, SlotInv
<1>2. /\ Message("response") /\ mReqDataAllow /\ h.error = "multi_allow" /\ Resumed(TRUE, Tail(mainLooper))
      /\ mDisallowingPeer' = mDisallowingPeer + Cardinality(P)
      /\ mcl' = [s \in Slots |-> IF s \in P THEN Append(mcl[s], Request(s, FALSE, 0)) ELSE mcl[s]]
      /\ mReqDataAllow' = IF P = {} THEN mReqDataAllow ELSE FALSE
      /\ UNCHANGED << mdAllowed, allow_data_slot, allowLost, mDoingDataAllow,
                      mLastAllowTrueRequest, mOnDemandQueue, mIsPreferredDataMode,
                      legacy_allow_mode, preferredSim, cleared >>
  BY DEF HandleMultiAllowError, MultiAllow, rspRest, bounds
<1>3. mDisallowingPeer = 0
  BY <1>1, <1>2 DEF FlagsAgree
<1>4. /\ SameStream /\ Answers(mainLooper') = {} /\ P # {} /\ h.slot \in Slots
      /\ \A s \in Slots : DOMAIN mcl[s] = {}
  <2>1. TRUE \in BOOLEAN
    OBVIOUS
  <2>2. SameStream /\ P # {} /\ h.slot \in Slots
    BY <1>2, <2>1, AnswerLast, ResponseFirst
  <2>3. Answers(mainLooper') = {} /\ \A s \in Slots : DOMAIN mcl[s] = {}
    BY <1>2, <1>3, <2>1, LastAnswer
  <2> QED
    BY <2>2, <2>3
<1>5. P \subseteq Slots
  BY DEF Peers
<1>6. mDisallowingPeer' > 0 /\ mReqDataAllow' = FALSE
  <2>1. IsFiniteSet(P)
    BY <1>1, <1>5, SlotsFinite, FS_Subset
  <2>2. Cardinality(P) \in Nat /\ Cardinality(P) # 0
    BY <2>1, <1>4, FS_CardinalityType, FS_EmptySet
  <2> QED
    BY <2>2, <1>2, <1>3, <1>4
<1> HIDE DEF h, P
<1>7. ASSUME NEW s \in Slots, NEW i \in DOMAIN mcl'[s]
      PROVE  mcl'[s][i].slot = s /\ mcl'[s][i].allow = FALSE
  <2>2. CASE s \in P
    <3> DEFINE r == Request(s, FALSE, 0)
    <3>1. mcl'[s] = Append(mcl[s], r) /\ mcl[s] \in Seq(RequestSet)
      BY <1>1, <1>2, <2>2
    <3>2. r \in RequestSet /\ r.slot = s /\ r.allow = FALSE
      BY DEF Request, RequestSet
    <3> HIDE DEF r
    <3>3. mcl'[s][i] = r
      BY <3>1, <3>2, <1>4, <1>7, Appended
    <3> QED
      BY <3>2, <3>3
  <2>3. CASE s \notin P
    BY <1>2, <1>4, <1>7, <2>3
  <2> QED
    BY <2>2, <2>3
<1>8. RequestsAgree'
  <2>1. mLastAllowTrueRequest' # << >> => mLastAllowTrueRequest'.allow = TRUE
    BY <1>1, <1>2 DEF RequestsAgree
  <2> QED
    BY <2>1, <1>4, <1>6, <1>7, Afterwards
<1>9. PreferredAgrees' /\ FrameworkAgrees' /\ WantedAgrees'
  <2>1. Taken' /\ Taken
    BY <1>2, <1>6 DEF Taken
  <2> QED
    BY <1>2, <1>4, <2>1, StreamKept
<1> QED
  BY <1>8, <1>9 DEF SlotInv

(* A request is taken up, and nothing else is at the modem side or on its way back. *)
LEMMA TakenUp ==
  ASSUME AllowTypes, UNCHANGED inst, \A s \in Slots : DOMAIN mcl[s] = {}, Answers(mainLooper') = {},
         NEW m \in RequestSet, mcl' = [mcl EXCEPT ![m.slot] = Append(@, m)],
         mReqDataAllow' = m.allow, mDoingDataAllow',
         mLastAllowTrueRequest' # << >> => mLastAllowTrueRequest'.allow = TRUE,
         m.allow => mLastAllowTrueRequest' = m
  PROVE  RequestsAgree'
<1>1. /\ mcl \in [Slots -> Seq(RequestSet)] /\ m.slot \in Slots /\ m.allow \in BOOLEAN
  BY DEF AllowTypes, RequestSet
<1>2. ASSUME NEW s \in Slots, NEW i \in DOMAIN mcl'[s]
      PROVE  mcl'[s][i].slot = s /\ mcl'[s][i].allow = m.allow /\ m.slot = s
  <2>1. CASE s = m.slot
    <3>1. mcl'[s] = Append(mcl[s], m) /\ mcl[s] \in Seq(RequestSet)
      BY <1>1, <2>1
    <3>2. mcl'[s][i] = m
      BY <3>1, <1>2, Appended
    <3> QED
      BY <3>2, <2>1
  <2>2. CASE s # m.slot
    BY <1>1, <1>2, <2>2
  <2> QED
    BY <2>1, <2>2
<1> QED
  BY <1>2, Afterwards

(* A peer is disallowed; after the last one the original request is sent again. *)
LEMMA PeerSlots ==
  ASSUME AllowInv, SlotInv, PeerDisallowed, UNCHANGED inst
  PROVE  SlotInv'
<1>1. /\ AllowTypes /\ FlagsAgree /\ RequestsAgree /\ mDisallowingPeer \in Nat
  BY DEF AllowInv, AllowTypes, SlotInv
<1>2. /\ Message("response") /\ mDisallowingPeer > 0 /\ Resumed(TRUE, Tail(mainLooper))
      /\ mDisallowingPeer' = mDisallowingPeer - 1
      /\ IF mDisallowingPeer = 1 THEN SetDataAllowRequest(mLastAllowTrueRequest)
         ELSE UNCHANGED << mReqDataAllow, allow_data_slot, mcl >>
      /\ UNCHANGED << mdAllowed, allowLost, mDoingDataAllow,
                      mLastAllowTrueRequest, mOnDemandQueue, mIsPreferredDataMode,
                      legacy_allow_mode, preferredSim, cleared >>
  BY DEF PeerDisallowed, PeersDone, rspRest, bounds
<1>3. /\ mLastAllowTrueRequest \in RequestSet /\ mDoingDataAllow /\ ~mReqDataAllow
      /\ mLastAllowTrueRequest # << >> => mLastAllowTrueRequest.allow = TRUE
  BY <1>1, <1>2 DEF FlagsAgree, RequestsAgree
<1>4. mLastAllowTrueRequest.allow = TRUE
  <2>1. mLastAllowTrueRequest # << >>
    BY <1>3 DEF RequestSet
  <2> QED
    BY <2>1, <1>3
<1>5. SameStream /\ Answers(mainLooper') \subseteq Answers(mainLooper)
  <2>1. TRUE \in BOOLEAN
    OBVIOUS
  <2> QED
    BY <1>2, <2>1, AnswerLast
<1>6. CASE mDisallowingPeer = 1
  <2>1. /\ mReqDataAllow' = mLastAllowTrueRequest.allow
        /\ allow_data_slot' = IF ~mIsPreferredDataMode /\ mLastAllowTrueRequest.allow
                              THEN mLastAllowTrueRequest.slot ELSE allow_data_slot
        /\ mcl' = [mcl EXCEPT ![mLastAllowTrueRequest.slot] = Append(@, mLastAllowTrueRequest)]
    BY <1>2, <1>6 DEF SetDataAllowRequest
  <2>2. Answers(mainLooper') = {} /\ \A s \in Slots : DOMAIN mcl[s] = {}
    <3>1. TRUE \in BOOLEAN /\ mDisallowingPeer \in {0, 1}
      BY <1>6
    <3> QED
      BY <1>2, <3>1, LastAnswer
  <2>3. RequestsAgree'
    BY <1>1, <1>2, <1>3, <1>4, <2>1, <2>2, TakenUp
  <2>4. Taken' /\ Taken
    BY <1>2, <1>4, <2>1 DEF Taken
  <2>5. PreferredAgrees' /\ FrameworkAgrees' /\ WantedAgrees'
    <3>1. CASE mIsPreferredDataMode = FALSE
      BY <1>2, <1>4, <1>5, <2>1, <2>4, <3>1, StreamKept
    <3>2. CASE mIsPreferredDataMode # FALSE
      <4>1. allow_data_slot' = allow_data_slot
        BY <2>1, <3>2 DEF SlotInv, WantedAgrees
      <4> QED
        BY <1>2, <1>4, <1>5, <2>1, <2>4, <4>1, StreamKept
    <3> QED
      BY <3>1, <3>2
  <2> QED
    BY <2>3, <2>5 DEF SlotInv
<1>7. CASE mDisallowingPeer # 1
  <2>1. UNCHANGED << mReqDataAllow, allow_data_slot, mcl >> /\ mDisallowingPeer' > 0
    BY <1>1, <1>2, <1>7
  <2>2. RequestsAgree'
    BY <1>1, <1>2, <1>5, <2>1, Afterwards DEF RequestsAgree
  <2>3. Taken' /\ Taken
    BY <1>2, <2>1 DEF Taken
  <2>4. PreferredAgrees' /\ FrameworkAgrees' /\ WantedAgrees'
    BY <1>2, <1>5, <2>1, <2>3, StreamKept
  <2> QED
    BY <2>2, <2>4 DEF SlotInv
<1> QED
  BY <1>6, <1>7

(* A request has ended: when it was to allow a slot, that slot alone is allowed. *)
LEMMA DoneSlots ==
  ASSUME AllowInv, SlotInv, AllowDone, UNCHANGED inst
  PROVE  SlotInv'
<1> DEFINE h == Head(mainLooper)
<1>1. AllowTypes /\ RequestsAgree
  BY DEF AllowInv, SlotInv
<1>2. /\ Message("response") /\ h.error # "not_supported" /\ ~(mReqDataAllow /\ h.error = "multi_allow")
      /\ mDisallowingPeer = 0 /\ mDoingDataAllow' = FALSE /\ Resumed(FALSE, Tail(mainLooper))
      /\ UNCHANGED << mdAllowed, allowLost, mReqDataAllow, mDisallowingPeer, mcl, allow_data_slot,
                      mLastAllowTrueRequest, mOnDemandQueue, mIsPreferredDataMode,
                      legacy_allow_mode, preferredSim, cleared >>
  BY DEF AllowDone, DoneFlag, MultiAllow, Resumed, rspRest, bounds
<1>3. /\ SameStream /\ h \in Answers(mainLooper) /\ h.error \in {"success", "multi_allow", "not_supported"}
      /\ Answers(mainLooper') = {} /\ \A s \in Slots : DOMAIN mcl[s] = {}
  <2>1. FALSE \in BOOLEAN /\ mDisallowingPeer \in {0, 1}
    BY <1>2
  <2>2. SameStream /\ h \in Answers(mainLooper) /\ h.error \in {"success", "multi_allow", "not_supported"}
    BY <1>2, <2>1, AnswerLast
  <2>3. Answers(mainLooper') = {} /\ \A s \in Slots : DOMAIN mcl[s] = {}
    BY <1>2, <2>1, LastAnswer
  <2> QED
    BY <2>2, <2>3
<1> HIDE DEF h
<1>4. mReqDataAllow /\ ~allowLost => mdAllowed = {mLastAllowTrueRequest.slot}
  BY <1>1, <1>2, <1>3 DEF RequestsAgree
<1>5. RequestsAgree'
  <2>1. mLastAllowTrueRequest # << >> => mLastAllowTrueRequest.allow = TRUE
    BY <1>1 DEF RequestsAgree
  <2> QED
    BY <2>1, <1>2, <1>3, <1>4, Afterwards
<1>6. PreferredAgrees' /\ FrameworkAgrees' /\ WantedAgrees'
  <2>1. Taken' <=> Taken
    BY <1>2 DEF Taken
  <2> QED
    BY <1>2, <1>3, <2>1, StreamKept
<1> QED
  BY <1>5, <1>6 DEF SlotInv

(* preprocessRequest: the first request that waits is taken up, with nothing under way. *)
LEMMA HandleSlots ==
  ASSUME AllowInv, SlotInv, HandleRequest, UNCHANGED inst
  PROVE  SlotInv'
<1> DEFINE h == Head(mainLooper)
           t == Tail(mainLooper)
<1>1. /\ AllowTypes /\ FlagsAgree /\ Message("request") /\ ~mDoingDataAllow
      /\ RequestsAgree /\ PreferredAgrees /\ FrameworkAgrees /\ WantedAgrees
      /\ mainLooper \in Seq(MessageSet) /\ mDisallowingPeer \in Nat /\ mIsPreferredDataMode \in BOOLEAN
  BY DEF AllowInv, AllowTypes, SlotInv, WantedAgrees, HandleRequest
<1>2. suspended = << >> /\ mDisallowingPeer = 0
  BY <1>1 DEF FlagsAgree
<1>3. Answers(mainLooper) = {} /\ \A s \in Slots : DOMAIN mcl[s] = {}
  BY <1>1, <1>2, OneUnderWay
<1>4. /\ mainLooper' = t /\ suspended' = suspended /\ mDoingDataAllow' = TRUE
      /\ allow_data_slot' = IF ~mIsPreferredDataMode /\ h.allow THEN h.slot ELSE allow_data_slot
      /\ mReqDataAllow' = h.allow /\ mDisallowingPeer' = mDisallowingPeer
      /\ mLastAllowTrueRequest' = IF h.allow THEN h ELSE mLastAllowTrueRequest
      /\ mcl' = [mcl EXCEPT ![h.slot] = Append(@, h)]
      /\ UNCHANGED << mdAllowed, allowLost, mOnDemandQueue, mIsPreferredDataMode,
                      legacy_allow_mode, preferredSim, cleared >>
  BY DEF HandleRequest, SetDataAllowRequest
<1>5. /\ h \in RequestSet /\ h \in MessageSet /\ h.type = "request" /\ h.allow \in BOOLEAN
      /\ t \in Seq(MessageSet) /\ << h >> \in Seq(MessageSet) /\ mainLooper = << h >> \o t
  <2>1. h \in RequestSet /\ t \in Seq(MessageSet) /\ << h >> \in Seq(MessageSet) /\ mainLooper = << h >> \o t
    BY <1>1, RequestFirst
  <2> QED
    BY <2>1 DEF RequestSet, MessageSet
<1> HIDE DEF h, t
<1>6. Pending = << h >> \o t /\ Pending' = t
  <2>1. \A q \in Seq(MessageSet) : << >> \o q = q
    BY ConcatEmptySeq
  <2> QED
    BY <2>1, <1>1, <1>2, <1>4, <1>5 DEF Pending
<1>7. /\ ~NoneIn(Pending)
      /\ AllowIn(Pending) => h.allow \/ AllowIn(t)
      /\ \A s : EndsWith(Pending, s) => EndsWith(t, s) \/ (NoneIn(t) /\ h.allow /\ h.slot = s)
      /\ Answers(t) = {}
  <2>1. /\ NoneIn(<< h >> \o t) <=> NoneIn(<< h >>) /\ NoneIn(t)
        /\ AllowIn(<< h >> \o t) <=> AllowIn(<< h >>) \/ AllowIn(t)
        /\ \A s : EndsWith(<< h >> \o t, s) <=> EndsWith(t, s) \/ (NoneIn(t) /\ EndsWith(<< h >>, s))
        /\ Answers(<< h >> \o t) = Answers(<< h >>) \cup Answers(t)
    BY <1>5, JoinedLast
  <2>2. /\ ~NoneIn(<< h >>) /\ (AllowIn(<< h >>) <=> h.allow = TRUE)
        /\ \A s : EndsWith(<< h >>, s) <=> h.allow = TRUE /\ h.slot = s
    BY <1>5, SingleLast
  <2> QED
    BY <2>1, <2>2, <1>3, <1>5, <1>6
<1>8. /\ NoneIn(Pending)' <=> NoneIn(t)
      /\ AllowIn(Pending)' <=> AllowIn(t)
      /\ EndsWith(Pending, allow_data_slot)' <=> EndsWith(t, allow_data_slot')
      /\ PreferredMode' = PreferredMode /\ Slots' = Slots /\ Types' = Types
  BY <1>6, Afterwards
<1>9. RequestsAgree'
  <2>1. mLastAllowTrueRequest' # << >> => mLastAllowTrueRequest'.allow = TRUE
    BY <1>1, <1>4, <1>5 DEF RequestsAgree
  <2> QED
    BY <2>1, <1>1, <1>3, <1>4, <1>5, <1>7, TakenUp
<1>10. PreferredAgrees'
  <2> SUFFICES ASSUME PreferredMode
               PROVE  /\ mIsPreferredDataMode' = TRUE /\ legacy_allow_mode' = NoSlot'
                      /\ EndsWith(Pending, allow_data_slot)'
                           \/ (NoneIn(Pending)' /\ Taken' /\ mLastAllowTrueRequest'.slot = allow_data_slot')
    BY <1>8 DEF PreferredAgrees
  <2>1. mIsPreferredDataMode = TRUE /\ legacy_allow_mode = NoSlot /\ EndsWith(Pending, allow_data_slot)
    BY <1>1, <1>7 DEF PreferredAgrees
  <2>2. allow_data_slot' = allow_data_slot
    BY <1>4, <2>1
  <2>3. EndsWith(t, allow_data_slot) \/ (NoneIn(t) /\ h.allow /\ h.slot = allow_data_slot)
    BY <2>1, <1>7
  <2>4. h.allow => Taken' /\ mLastAllowTrueRequest' = h
    BY <1>4 DEF Taken
  <2> QED
    BY <1>4, <1>8, <2>1, <2>2, <2>3, <2>4 DEF NoSlot
<1>11. FrameworkAgrees'
  <2> SUFFICES ASSUME mIsPreferredDataMode = FALSE
               PROVE  \/ AllowIn(Pending)'
                      \/ Taken' /\ mLastAllowTrueRequest'.slot = allow_data_slot'
                      \/ ~Taken' /\ (~allowLost' => mdAllowed' \subseteq {allow_data_slot'})
    BY <1>4 DEF FrameworkAgrees
  <2>1. CASE h.allow
    BY <1>4, <2>1 DEF Taken
  <2>2. CASE ~h.allow
    <3>1. ~Taken' /\ allow_data_slot' = allow_data_slot
      BY <1>2, <1>4, <2>2 DEF Taken
    <3>2. CASE AllowIn(Pending)
      BY <3>2, <2>2, <1>7, <1>8
    <3>3. CASE Taken /\ mLastAllowTrueRequest.slot = allow_data_slot
      <4>1. mReqDataAllow
        BY <3>3, <1>2 DEF Taken
      <4>2. ~allowLost => mdAllowed = {mLastAllowTrueRequest.slot}
        BY <4>1, <1>1 DEF RequestsAgree
      <4> QED
        BY <4>2, <3>1, <3>3, <1>4
    <3>4. CASE ~allowLost => mdAllowed \subseteq {allow_data_slot}
      BY <3>1, <3>4, <1>4
    <3> QED
      BY <3>2, <3>3, <3>4, <1>1 DEF FrameworkAgrees
  <2> QED
    BY <2>1, <2>2
<1>12. WantedAgrees'
  <2>1. PreferredMode => allow_data_slot' = allow_data_slot
    BY <1>1, <1>4 DEF PreferredAgrees
  <2>2. Wanted(mOnDemandQueue)' = Wanted(mOnDemandQueue)
    BY <1>4 DEF Wanted
  <2> QED
    BY <1>1, <1>4, <1>8, <2>1, <2>2 DEF WantedAgrees, NoSlot
<1> QED
  BY <1>9, <1>10, <1>11, <1>12 DEF SlotInv
-----------------------------------------------------------------------------
(* The steps of the modem side *)

(* The channel takes its first request. *)
LEMMA Taking ==
  ASSUME NEW c \in Seq(RequestSet), c # << >>
  PROVE  /\ Head(c) \in RequestSet /\ 1 \in DOMAIN c /\ Head(c) = c[1]
         /\ \A i \in DOMAIN Tail(c) : i + 1 \in DOMAIN c /\ Tail(c)[i] = c[i + 1]
<1>1. c \in Seq(MessageSet)
  BY OnlyRequests
<1>2. /\ 1 \in DOMAIN c /\ Head(c) = c[1]
      /\ \A i \in DOMAIN Tail(c) : i + 1 \in DOMAIN c /\ Tail(c)[i] = c[i + 1]
  BY <1>1, First
<1>3. Head(c) \in RequestSet
  BY HeadTailProperties
<1> QED
  BY <1>2, <1>3

(* A response that tells the truth: a conflict only of a request to allow a slot, and a
   success only when the slot is allowed, unless the failure was lost. *)
LEMMA TrueAnswer ==
  ASSUME AllowInv, SlotInv, UNCHANGED << inst, dacVars, slotVars, suspended >>,
         NEW s \in Slots, mcl[s] # << >>, NEW error, NEW q \in Seq(MessageSet), NEW n \in DOMAIN q,
         q[n] = Response(Head(mcl[s]), error), \A i \in DOMAIN q : i # n => q[i].type = "sync",
         Take(s, q),
         error = "multi_allow" => Head(mcl[s]).allow, allowLost => allowLost',
         ~Head(mcl[s]).allow => mdAllowed' \subseteq mdAllowed,
         Head(mcl[s]).allow /\ error = "success" /\ ~allowLost' => mdAllowed' = {s}
  PROVE  SlotInv'
<1> DEFINE m == Head(mcl[s])
<1>1. /\ AllowTypes /\ FlagsAgree /\ RequestsAgree /\ mcl \in [Slots -> Seq(RequestSet)]
      /\ mDisallowingPeer \in Nat /\ mReqDataAllow \in BOOLEAN
  BY DEF AllowInv, AllowTypes, SlotInv
<1>2. /\ mcl' = [mcl EXCEPT ![s] = Tail(@)] /\ mainLooper' = mainLooper \o q
      /\ UNCHANGED << mReqDataAllow, mDoingDataAllow, mDisallowingPeer, mLastAllowTrueRequest,
                      allow_data_slot, mOnDemandQueue, mIsPreferredDataMode,
                      legacy_allow_mode, preferredSim, cleared >>
  BY DEF Take, dacVars, slotVars
<1>3. /\ m \in RequestSet /\ 1 \in DOMAIN mcl[s] /\ m = mcl[s][1]
      /\ \A i \in DOMAIN Tail(mcl[s]) : i + 1 \in DOMAIN mcl[s] /\ Tail(mcl[s])[i] = mcl[s][i + 1]
  BY <1>1, Taking
<1>4. m.slot = s /\ m.allow = mReqDataAllow /\ (mReqDataAllow => s = mLastAllowTrueRequest.slot)
  BY <1>1, <1>3 DEF RequestsAgree
<1> DEFINE r == Response(m, error)
<1>5. r.type = "response" /\ r.slot = m.slot /\ r.error = error /\ q[n] = r
  BY DEF Response
<1>6. error = "multi_allow" => m.allow
  OBVIOUS
<1>7. ~m.allow => mdAllowed' \subseteq mdAllowed
  OBVIOUS
<1>8. m.allow /\ error = "success" /\ ~allowLost' => mdAllowed' = {s}
  OBVIOUS
<1> HIDE DEF m, r
<1>9. NoneIn(q) /\ Answers(q) = {r}
  <2>1. \A i \in DOMAIN q : q[i].type = "response" <=> i = n
    BY <1>5
  <2>2. \A i \in DOMAIN q : q[i].type # "request"
    BY <1>5
  <2>3. ResponsesIn(q) = {n}
    BY <2>1 DEF ResponsesIn
  <2> QED
    BY <2>2, <2>3, <1>5 DEF NoneIn, Answers
<1>10. SameStream /\ Answers(mainLooper') = Answers(mainLooper) \cup {r}
  <2>1. suspended' = suspended
    OBVIOUS
  <2> QED
    BY <2>1, <1>1, <1>2, <1>9, AnsweredLast DEF SameStream
<1>11. mReqDataAllow => Answers(mainLooper) = {} /\ mDoingDataAllow
  <2>1. mReqDataAllow => mDisallowingPeer = 0
    BY <1>1 DEF FlagsAgree
  <2> QED
    BY <2>1, OneUnderWay
<1>12. ASSUME NEW t \in Slots, NEW i \in DOMAIN mcl'[t]
       PROVE  /\ mcl'[t][i].slot = t /\ mcl'[t][i].allow = mReqDataAllow
              /\ mReqDataAllow => t = mLastAllowTrueRequest.slot
  <2>1. CASE t = s
    <3>1. mcl'[t] = Tail(mcl[s])
      BY <1>1, <1>2, <2>1
    <3>2. i + 1 \in DOMAIN mcl[s] /\ mcl'[t][i] = mcl[s][i + 1]
      BY <3>1, <1>3, <1>12
    <3> QED
      BY <3>2, <2>1, <1>1 DEF RequestsAgree
  <2>2. CASE t # s
    <3>1. mcl'[t] = mcl[t]
      BY <1>1, <1>2, <2>2
    <3> QED
      BY <3>1, <1>1, <1>12 DEF RequestsAgree
  <2> QED
    BY <2>1, <2>2
<1>13. ASSUME NEW a \in Answers(mainLooper')
       PROVE  /\ a.error = "multi_allow" => mReqDataAllow
              /\ mReqDataAllow => a.slot = mLastAllowTrueRequest.slot
              /\ mReqDataAllow /\ a.error = "success" /\ ~allowLost'
                   => mdAllowed' = {mLastAllowTrueRequest.slot}
  <2>1. CASE a = r
    BY <2>1, <1>4, <1>5, <1>6, <1>8
  <2>2. CASE a \in Answers(mainLooper)
    BY <2>2, <1>1, <1>11 DEF RequestsAgree
  <2> QED
    BY <2>1, <2>2, <1>10, <1>13
<1>14. RequestsAgree'
  <2>1. /\ mLastAllowTrueRequest' # << >> => mLastAllowTrueRequest'.allow = TRUE
        /\ mReqDataAllow' => mDoingDataAllow'
    BY <1>1, <1>2, <1>11 DEF RequestsAgree
  <2> QED
    BY <2>1, <1>2, <1>12, <1>13, Afterwards
<1>15. PreferredAgrees' /\ FrameworkAgrees' /\ WantedAgrees'
  <2>1. (Taken' <=> Taken) /\ (~Taken => mdAllowed' \subseteq mdAllowed)
    BY <1>2, <1>4, <1>7 DEF Taken
  <2> QED
    BY <1>2, <1>10, <2>1, StreamKept
<1> QED
  BY <1>14, <1>15 DEF SlotInv

(* What the modem side does *)
LEMMA ModemSlots ==
  ASSUME AllowInv, SlotInv, NEW s \in Slots, ModemSide(s), UNCHANGED inst
  PROVE  SlotInv'
<1> DEFINE m == Head(mcl[s])
           pre  == Sync(s, IF m.allow THEN -2 ELSE -1)
           post == Sync(s, IF m.allow THEN 1 ELSE 0)
<1>1. mcl \in [Slots -> Seq(RequestSet)]
  BY DEF AllowInv, AllowTypes
<1>2. mcl[s] # << >>
  BY DEF ModemSide, NoHandler, SetDataAllowed, EdallowFails
<1>3. m \in RequestSet /\ m.allow \in BOOLEAN
  <2>1. Head(mcl[s]) \in RequestSet
    BY <1>1, <1>2, HeadTailProperties
  <2> QED
    BY <2>1 DEF RequestSet
<1>4. ASSUME UNCHANGED << dacVars, slotVars, suspended >>, NEW error, NEW q \in Seq(MessageSet),
             NEW n \in DOMAIN q, q[n] = Response(m, error), \A i \in DOMAIN q : i # n => q[i].type = "sync",
             Take(s, q), error = "multi_allow" => m.allow, allowLost => allowLost',
             ~m.allow => mdAllowed' \subseteq mdAllowed,
             m.allow /\ error = "success" /\ ~allowLost' => mdAllowed' = {s}
      PROVE  SlotInv'
  <2>1. UNCHANGED << inst, dacVars, slotVars, suspended >>
    BY <1>4
  <2> QED
    BY <1>2, <1>4, <2>1, TrueAnswer
<1>5. pre \in MessageSet /\ pre.type = "sync" /\ post \in MessageSet /\ post.type = "sync"
  <2>1. (IF m.allow THEN -2 ELSE -1) \in -2 .. 1 /\ (IF m.allow THEN 1 ELSE 0) \in -2 .. 1
    OBVIOUS
  <2>2. \A v \in -2 .. 1 : Sync(s, v) \in MessageSet /\ Sync(s, v).type = "sync"
    BY DEF Sync, MessageSet
  <2> QED
    BY <2>1, <2>2
<1>6. \A error \in {"success", "multi_allow", "not_supported"} : Response(m, error) \in MessageSet
  <2> HIDE DEF m
  <2> QED
    BY <1>3 DEF Response, MessageSet, RequestSet
<1>7. CASE NoHandler(s)
  <2> DEFINE r == Response(m, "not_supported")
             q == << r >>
  <2>1. /\ UNCHANGED << dacVars, slotVars, suspended >> /\ mdAllowed' = mdAllowed /\ allowLost' = allowLost
        /\ Take(s, q) /\ r \in MessageSet
    BY <1>6, <1>7 DEF NoHandler
  <2> HIDE DEF m, r
  <2>2. q \in Seq(MessageSet) /\ 1 \in DOMAIN q /\ q[1] = r /\ \A i \in DOMAIN q : i # 1 => q[i].type = "sync"
    BY <2>1
  <2> HIDE DEF q
  <2> QED
    BY <2>1, <2>2, <1>4 DEF r
<1>8. CASE SetDataAllowed(s)
  <2>1. UNCHANGED << dacVars, slotVars, suspended >> /\ allowLost' = allowLost
    BY <1>8 DEF SetDataAllowed
  <2>2. CASE m.allow /\ mdAllowed \ {s} # {}
    <3> DEFINE r == Response(m, "multi_allow")
               q == << pre, r >>
    <3>1. Take(s, q) /\ mdAllowed' = mdAllowed /\ r \in MessageSet
      BY <1>6, <1>8, <2>2 DEF SetDataAllowed
    <3> HIDE DEF m, pre, post, r
    <3>2. q \in Seq(MessageSet) /\ 2 \in DOMAIN q /\ q[2] = r /\ \A i \in DOMAIN q : i # 2 => q[i].type = "sync"
      BY <3>1, <1>5
    <3> HIDE DEF q
    <3> QED
      BY <2>1, <2>2, <3>1, <3>2, <1>4 DEF r
  <2>3. CASE ~(m.allow /\ mdAllowed \ {s} # {})
    <3> DEFINE r == Response(m, "success")
               q == << pre, post, r >>
    <3>1. /\ Take(s, q) /\ r \in MessageSet
          /\ mdAllowed' = IF m.allow THEN {s} ELSE mdAllowed \ {s}
      BY <1>6, <1>8, <2>3 DEF SetDataAllowed
    <3> HIDE DEF m, pre, post, r
    <3>2. q \in Seq(MessageSet) /\ 3 \in DOMAIN q /\ q[3] = r /\ \A i \in DOMAIN q : i # 3 => q[i].type = "sync"
      BY <3>1, <1>5
    <3>3. (~m.allow => mdAllowed' \subseteq mdAllowed) /\ (m.allow => mdAllowed' = {s})
      BY <3>1
    <3> HIDE DEF q
    <3> QED
      BY <2>1, <3>1, <3>2, <3>3, <1>4 DEF r
  <2> QED
    BY <2>2, <2>3
<1>9. CASE EdallowFails(s)
  <2> DEFINE r == Response(m, "success")
             q == << pre, r >>
  <2>1. /\ UNCHANGED << dacVars, slotVars, suspended >> /\ mdAllowed' = mdAllowed
        /\ allowLost' = (allowLost \/ m.allow) /\ Take(s, q) /\ r \in MessageSet
    BY <1>6, <1>9 DEF EdallowFails
  <2> HIDE DEF m, pre, post, r
  <2>2. q \in Seq(MessageSet) /\ 2 \in DOMAIN q /\ q[2] = r /\ \A i \in DOMAIN q : i # 2 => q[i].type = "sync"
    BY <2>1, <1>5
  <2> HIDE DEF q
  <2> QED
    BY <2>1, <2>2, <1>4 DEF r
<1> QED
  BY <1>7, <1>8, <1>9 DEF ModemSide
-----------------------------------------------------------------------------
(* The steps of the framework and of the SIM lock *)

(* A set of numbers that has 0 and the successor of each of its elements has them all. *)
LEMMA AllNumbers ==
  ASSUME NEW S \in SUBSET Nat, 0 \in S, \A n \in S : n + 1 \in S
  PROVE  S = Nat
<1> SUFFICES ASSUME Nat \ S # {} PROVE FALSE
  OBVIOUS
<1>1. PICK x \in Nat \ S : \A y \in Nat \ S : << y, x >> \notin OpToRel(<, Nat)
  BY NatLessThanWellFounded, WFMin
<1>2. \A y \in Nat \ S : ~(y < x)
  BY <1>1 DEF OpToRel
<1>3. x \in Nat /\ x # 0
  BY <1>1
<1>4. x - 1 \in Nat /\ x - 1 < x /\ (x - 1) + 1 = x
  BY <1>3
<1>5. x - 1 \in S
  BY <1>2, <1>4
<1> QED
  BY <1>1, <1>4, <1>5

(* std::remove_if leaves a queue of networks: the steps of its loop exist for every
   length, and each of them leaves a queue. *)
LEMMA WithoutTyped ==
  ASSUME NEW T, NEW queue \in Seq(T), NEW gone
  PROVE  Without(queue, gone) \in Seq(T)
<1> DEFINE n == Len(queue)
           One(c, i) == IF queue[i] \in gone THEN c ELSE Append(c, queue[i])
           Kept(f, k) == f = [i \in 0 .. k |-> IF i = 0 THEN << >> ELSE One(f[i - 1], i)]
<1>1. n \in Nat /\ \A i \in 1 .. n : queue[i] \in T
  BY LenProperties, ElementOfSeq
<1>2. Without(queue, gone) = (CHOOSE f : Kept(f, n))[n]
  BY DEF Without
<1>3. ASSUME NEW c \in Seq(T), NEW i \in 1 .. n PROVE One(c, i) \in Seq(T)
  BY <1>1, AppendProperties
<1> HIDE DEF One, n
<1>4. \E f : Kept(f, n)
  <2> DEFINE S == {k \in Nat : \E f : Kept(f, k)}
  <2>1. 0 \in S
    <3>1. Kept([i \in 0 .. 0 |-> << >>], 0)
      OBVIOUS
    <3> QED
      BY <3>1
  <2>2. ASSUME NEW k \in S PROVE k + 1 \in S
    <3>1. PICK f : Kept(f, k)
      OBVIOUS
    <3> DEFINE g == [i \in 0 .. k + 1 |-> IF i <= k THEN f[i] ELSE One(f[k], i)]
    <3>2. \A i \in 0 .. k : f[i] = IF i = 0 THEN << >> ELSE One(f[i - 1], i)
      BY <3>1
    <3>3. ASSUME NEW i \in 0 .. k + 1 PROVE g[i] = IF i = 0 THEN << >> ELSE One(g[i - 1], i)
      <4>1. k \in Nat
        OBVIOUS
      <4>2. CASE i = 0
        BY <3>2, <4>1, <4>2
      <4>3. CASE i # 0
        <5>1. i - 1 \in 0 .. k /\ i - 1 \in 0 .. k + 1 /\ i - 1 <= k /\ (i <= k \/ i = k + 1)
          BY <4>1, <4>3
        <5>2. g[i - 1] = f[i - 1]
          BY <5>1
        <5>3. CASE i <= k
          BY <3>2, <4>1, <4>3, <5>2, <5>3
        <5>4. CASE i = k + 1
          <6>1. g[i] = One(f[k], i) /\ i - 1 = k
            BY <4>1, <5>4
          <6> QED
            BY <4>3, <5>2, <6>1
        <5> QED
          BY <5>1, <5>3, <5>4
      <4> QED
        BY <4>2, <4>3
    <3>4. Kept(g, k + 1)
      <4>1. g = [i \in 0 .. k + 1 |-> g[i]]
        OBVIOUS
      <4> HIDE DEF g
      <4>2. [i \in 0 .. k + 1 |-> g[i]] = [i \in 0 .. k + 1 |-> IF i = 0 THEN << >> ELSE One(g[i - 1], i)]
        BY <3>3
      <4> QED
        BY <4>1, <4>2
    <3> HIDE DEF g, Kept
    <3> QED
      BY <3>4
  <2>3. S = Nat
    <3>1. S \in SUBSET Nat
      OBVIOUS
    <3> HIDE DEF S
    <3> QED
      BY <2>1, <2>2, <3>1, AllNumbers
  <2> QED
    BY <2>3, <1>1
<1>5. PICK f : Kept(f, n) /\ Without(queue, gone) = f[n]
  <2> HIDE DEF Kept
  <2> QED
    BY <1>2, <1>4
<1>6. \A i \in 0 .. n : f[i] = IF i = 0 THEN << >> ELSE One(f[i - 1], i)
  BY <1>5
<1> HIDE DEF Kept
<1>7. n \in {k \in Nat : k <= n => f[k] \in Seq(T)}
  <2> DEFINE S == {k \in Nat : k <= n => f[k] \in Seq(T)}
  <2>1. 0 \in S
    <3>1. 0 \in 0 .. n
      BY <1>1
    <3>2. f[0] = << >> /\ << >> \in Seq(T)
      BY <3>1, <1>6, EmptySeq
    <3> QED
      BY <3>2
  <2>2. ASSUME NEW k \in S PROVE k + 1 \in S
    <3>1. CASE k + 1 <= n
      <4>1. /\ k \in Nat /\ k <= n /\ k + 1 \in 0 .. n /\ k + 1 \in 1 .. n /\ (k + 1) - 1 = k /\ k + 1 # 0
        BY <1>1, <3>1
      <4>2. f[k] \in Seq(T) /\ f[k + 1] = One(f[k], k + 1)
        BY <4>1, <1>6
      <4> QED
        BY <4>1, <4>2, <1>3
    <3>2. CASE ~(k + 1 <= n)
      BY <3>2
    <3> QED
      BY <3>1, <3>2
  <2>3. S = Nat
    <3>1. S \in SUBSET Nat
      OBVIOUS
    <3> HIDE DEF S
    <3> QED
      BY <2>1, <2>2, <3>1, AllNumbers
  <2> QED
    BY <2>3, <1>1
<1> QED
  BY <1>1, <1>5, <1>7

(* onSetDataAllow: the last request that it sends allows the slot that it writes. *)
LEMMA SetAllowedLast ==
  ASSUME inst \in Instances, NEW s \in Slots
  PROVE  EndsWith(SetAllowed(s), s) /\ AllowIn(SetAllowed(s))
<1> DEFINE p == [i \in 1 .. SimCount - 1 |-> Request(IF i <= s THEN i - 1 ELSE i, FALSE, 0)]
           r == Request(s, TRUE, 0)
<1>1. SimCount \in Nat \ {0} /\ s \in 0 .. SimCount - 1
  BY DataAllowAssumption DEF SimCount, Slots
<1>2. \A i \in 1 .. SimCount - 1 : Request(IF i <= s THEN i - 1 ELSE i, FALSE, 0) \in MessageSet
  <2> SUFFICES ASSUME NEW i \in 1 .. SimCount - 1
               PROVE  Request(IF i <= s THEN i - 1 ELSE i, FALSE, 0) \in MessageSet
    OBVIOUS
  <2>1. (IF i <= s THEN i - 1 ELSE i) \in Slots
    BY <1>1 DEF Slots
  <2> QED
    BY <2>1 DEF Request, MessageSet
<1>3. p \in Seq(MessageSet)
  <2>1. SimCount - 1 \in Nat /\ p \in [1 .. SimCount - 1 -> MessageSet]
    <3>1. SimCount - 1 \in Nat
      BY <1>1
    <3>2. p \in [1 .. SimCount - 1 -> MessageSet]
      BY <1>2
    <3> QED
      BY <3>1, <3>2
  <2> DEFINE n == SimCount - 1
  <2>2. n \in Nat /\ p \in [1 .. n -> MessageSet]
    BY <2>1
  <2> HIDE DEF n, p
  <2> QED
    BY <2>2, SeqDef
<1>4. r \in MessageSet /\ r.type = "request" /\ r.allow = TRUE /\ r.slot = s
  BY DEF Request, MessageSet
<1>5. SetAllowed(s) = p \o << r >>
  BY DEF SetAllowed
<1> HIDE DEF p, r
<1>6. /\ << r >> \in Seq(MessageSet) /\ EndsWith(<< r >>, s) /\ AllowIn(<< r >>)
  BY <1>4, Single, SingleLast
<1>7. EndsWith(p \o << r >>, s) /\ AllowIn(p \o << r >>)
  BY <1>3, <1>6, JoinedLast
<1> QED
  BY <1>5, <1>7

(* onSetDataAllow sends nothing, or requests of which the last allows the slot it writes. *)
LEMMA OnSetDataAllowLast ==
  ASSUME AllowTypes, NEW s, NEW current, OnSetDataAllow(s, current)
  PROVE  /\ \E q \in Seq(RequestSet) :
              /\ mainLooper' = mainLooper \o q
              /\ \/ q = << >> /\ allow_data_slot' = current
                 \/ EndsWith(q, allow_data_slot') /\ AllowIn(q)
         /\ s \in Slots => allow_data_slot' = s
<1>1. mainLooper \in Seq(MessageSet) /\ inst \in Instances
  BY DEF AllowTypes
<1>2. CASE s \notin Slots \/ s = current
  <2>1. mainLooper' = mainLooper /\ allow_data_slot' = current
    BY <1>2 DEF OnSetDataAllow
  <2>2. mainLooper' = mainLooper \o << >> /\ << >> \in Seq(RequestSet)
    BY <1>1, <2>1, ConcatEmptySeq, EmptySeq
  <2> QED
    BY <1>2, <2>1, <2>2
<1>3. CASE s \in Slots /\ s # current
  <2>1. mainLooper' = mainLooper \o SetAllowed(s) /\ allow_data_slot' = s
    BY <1>3 DEF OnSetDataAllow
  <2>2. /\ SetAllowed(s) \in Seq(RequestSet) /\ EndsWith(SetAllowed(s), s) /\ AllowIn(SetAllowed(s))
    BY <1>1, <1>3, SetAllowedRequests, SetAllowedLast
  <2> QED
    BY <1>3, <2>1, <2>2
<1> QED
  BY <1>2, <1>3

(* Requests that are only sent: the last of them tells the property, if it changes. *)
LEMMA RequestsSentLast ==
  ASSUME AllowInv, SlotInv, UNCHANGED << inst, dacVars, suspended, mcl, mdAllowed, allowLost >>,
         NEW q \in Seq(RequestSet), mainLooper' = mainLooper \o q,
         mIsPreferredDataMode' = FALSE =>
           mIsPreferredDataMode = FALSE /\ (allow_data_slot' = allow_data_slot \/ AllowIn(q)),
         PreferredMode =>
           /\ mIsPreferredDataMode' = TRUE /\ legacy_allow_mode' = NoSlot
           /\ (q = << >> /\ allow_data_slot' = allow_data_slot) \/ EndsWith(q, allow_data_slot')
  PROVE  RequestsAgree' /\ PreferredAgrees' /\ FrameworkAgrees'
<1>1. AllowTypes /\ RequestsAgree /\ PreferredAgrees /\ FrameworkAgrees
  BY DEF AllowInv, SlotInv
<1>2. UNCHANGED << mDoingDataAllow, mReqDataAllow, mDisallowingPeer, mLastAllowTrueRequest >>
  BY DEF dacVars
<1>3. /\ NoneIn(Pending') <=> NoneIn(Pending) /\ NoneIn(q)
      /\ AllowIn(Pending') <=> AllowIn(Pending) \/ AllowIn(q)
      /\ \A s : EndsWith(Pending', s) <=> EndsWith(q, s) \/ (NoneIn(q) /\ EndsWith(Pending, s))
      /\ Answers(mainLooper') = Answers(mainLooper)
  BY <1>1, SentLast
<1>4. /\ NoneIn(Pending)' <=> NoneIn(Pending')
      /\ AllowIn(Pending)' <=> AllowIn(Pending')
      /\ EndsWith(Pending, allow_data_slot)' <=> EndsWith(Pending', allow_data_slot')
      /\ PreferredMode' = PreferredMode
  BY Afterwards
<1>5. Taken' <=> Taken
  BY <1>2 DEF Taken
<1>6. RequestsAgree'
  BY <1>1, <1>2, <1>3, Afterwards DEF RequestsAgree
<1>7. PreferredAgrees'
  <2> SUFFICES ASSUME PreferredMode
               PROVE  \/ EndsWith(Pending, allow_data_slot)'
                      \/ NoneIn(Pending)' /\ Taken' /\ mLastAllowTrueRequest'.slot = allow_data_slot'
                      \/ NoneIn(Pending)' /\ ~Taken' /\ allow_data_slot' = NoSlot' /\ mdAllowed' = {}
    BY <1>4 DEF PreferredAgrees, NoSlot
  <2>1. CASE EndsWith(q, allow_data_slot')
    BY <2>1, <1>3, <1>4
  <2>2. CASE q = << >> /\ allow_data_slot' = allow_data_slot
    <3>1. NoneIn(q)
      BY <2>2, NothingLast
    <3>2. \/ EndsWith(Pending, allow_data_slot)
          \/ NoneIn(Pending) /\ Taken /\ mLastAllowTrueRequest.slot = allow_data_slot
          \/ NoneIn(Pending) /\ ~Taken /\ allow_data_slot = NoSlot /\ mdAllowed = {}
      BY <1>1 DEF PreferredAgrees
    <3> QED
      BY <3>1, <3>2, <2>2, <1>2, <1>3, <1>4, <1>5 DEF NoSlot
  <2> QED
    BY <2>1, <2>2
<1>8. FrameworkAgrees'
  <2> SUFFICES ASSUME mIsPreferredDataMode' = FALSE
               PROVE  \/ AllowIn(Pending)'
                      \/ Taken' /\ mLastAllowTrueRequest'.slot = allow_data_slot'
                      \/ ~Taken' /\ (~allowLost' => mdAllowed' \subseteq {allow_data_slot'})
    BY DEF FrameworkAgrees
  <2>1. CASE AllowIn(q)
    BY <2>1, <1>3, <1>4
  <2>2. CASE ~AllowIn(q)
    <3>1. mIsPreferredDataMode = FALSE /\ allow_data_slot' = allow_data_slot
      BY <2>2
    <3>2. \/ AllowIn(Pending)
          \/ Taken /\ mLastAllowTrueRequest.slot = allow_data_slot
          \/ ~Taken /\ (~allowLost => mdAllowed \subseteq {allow_data_slot})
      BY <3>1, <1>1 DEF FrameworkAgrees
    <3>3. mdAllowed' = mdAllowed /\ allowLost' = allowLost
      OBVIOUS
    <3> QED
      BY <3>1, <3>2, <3>3, <1>2, <1>3, <1>4, <1>5
  <2> QED
    BY <2>1, <2>2
<1> QED
  BY <1>6, <1>7, <1>8

(* onSetDataAllow that is called when the property says current, which may be empty only
   when preferred data mode begins *)
LEMMA OnSetSlots ==
  ASSUME AllowInv, SlotInv, UNCHANGED << inst, dacVars, suspended, mcl, mdAllowed, allowLost >>,
         NEW s, NEW current, OnSetDataAllow(s, current),
         mIsPreferredDataMode' = FALSE => mIsPreferredDataMode = FALSE /\ current = allow_data_slot,
         PreferredMode =>
           mIsPreferredDataMode' = TRUE /\ legacy_allow_mode' = NoSlot /\ current = allow_data_slot
  PROVE  /\ RequestsAgree' /\ PreferredAgrees' /\ FrameworkAgrees'
         /\ s \in Slots => allow_data_slot' = s
<1>1. AllowTypes
  BY DEF AllowInv
<1>2. PICK q \in Seq(RequestSet) : /\ mainLooper' = mainLooper \o q
                                   /\ \/ q = << >> /\ allow_data_slot' = current
                                      \/ EndsWith(q, allow_data_slot') /\ AllowIn(q)
  BY <1>1, OnSetDataAllowLast
<1>3. s \in Slots => allow_data_slot' = s
  BY <1>1, OnSetDataAllowLast
<1>4. RequestsAgree' /\ PreferredAgrees' /\ FrameworkAgrees'
  BY <1>2, RequestsSentLast
<1> QED
  BY <1>3, <1>4

(* Nothing is sent, and the property stays unless preferred data mode begins. *)
LEMMA NothingSent ==
  ASSUME AllowInv, SlotInv, UNCHANGED << inst, dacVars, suspended, mcl, mdAllowed, allowLost, mainLooper >>,
         mIsPreferredDataMode' = FALSE => mIsPreferredDataMode = FALSE /\ allow_data_slot' = allow_data_slot,
         PreferredMode =>
           mIsPreferredDataMode' = TRUE /\ legacy_allow_mode' = NoSlot /\ allow_data_slot' = allow_data_slot
  PROVE  RequestsAgree' /\ PreferredAgrees' /\ FrameworkAgrees'
<1>1. mainLooper \in Seq(MessageSet)
  BY DEF AllowInv, AllowTypes
<1>2. PICK q : q = << >>
  OBVIOUS
<1>3. q \in Seq(RequestSet) /\ mainLooper' = mainLooper \o q
  BY <1>1, <1>2, ConcatEmptySeq, EmptySeq
<1> QED
  BY <1>2, <1>3, RequestsSentLast

(* The slot that is wanted: of the first network of the queue, or the preferred one *)
LEMMA WantedSlots ==
  ASSUME NEW queue \in Seq(Types \X Slots)
  PROVE  /\ queue # << >> => Wanted(queue) \in Slots /\ Wanted(queue) = Head(queue)[2]
         /\ queue = << >> => Wanted(queue) = preferredSim
<1>1. CASE queue # << >>
  <2>1. Head(queue) \in Types \X Slots
    BY <1>1, HeadTailProperties
  <2> QED
    BY <1>1, <2>1 DEF Wanted
<1> QED
  BY <1>1 DEF Wanted

(* The property stays the slot that is wanted. *)
LEMMA WantedAfter ==
  ASSUME UNCHANGED inst, mIsPreferredDataMode' \in BOOLEAN, mOnDemandQueue' \in Seq(Types \X Slots),
         preferredSim' \in Slots \cup {NoSlot}, NEW w,
         w = (IF mOnDemandQueue' = << >> THEN preferredSim' ELSE Head(mOnDemandQueue')[2]),
         PreferredMode /\ ~cleared' /\ w # NoSlot => allow_data_slot' = w
  PROVE  WantedAgrees'
<1>1. Slots' = Slots /\ Types' = Types /\ PreferredMode' = PreferredMode
  BY Afterwards
<1>2. Wanted(mOnDemandQueue)' = w
  BY DEF Wanted
<1> QED
  BY <1>1, <1>2 DEF WantedAgrees, NoSlot

(* handleSetPreferredDataModem: the preferred SIM, unless networks are in the queue *)
LEMMA PreferredSlots ==
  ASSUME AllowInv, SlotInv, NEW s \in Slots, SetPreferredDataModem(s), UNCHANGED inst
  PROVE  SlotInv'
<1> DEFINE current == IF legacy_allow_mode = 1 THEN NoSlot ELSE allow_data_slot
<1>1. /\ UNCHANGED << inst, dacVars, suspended, mcl, mdAllowed, allowLost, mOnDemandQueue >>
      /\ preferredSim' = s
      /\ IF legacy_allow_mode = 1 THEN mIsPreferredDataMode' = TRUE
         ELSE UNCHANGED << legacy_allow_mode, mIsPreferredDataMode >>
      /\ IF mOnDemandQueue = << >> THEN OnSetDataAllow(s, current)
         ELSE allow_data_slot' = current /\ UNCHANGED << mainLooper, cleared >>
  BY DEF SetPreferredDataModem
<1>2. PreferredAgrees /\ WantedAgrees
  BY DEF SlotInv
<1>3. PreferredMode => mIsPreferredDataMode' = TRUE /\ legacy_allow_mode' = NoSlot /\ current = allow_data_slot
  BY <1>1, <1>2 DEF PreferredAgrees, NoSlot
<1>4. mIsPreferredDataMode' = FALSE => mIsPreferredDataMode = FALSE /\ current = allow_data_slot
  BY <1>1
<1>5. mIsPreferredDataMode' \in BOOLEAN /\ mOnDemandQueue \in Seq(Types \X Slots)
  BY <1>1, <1>2 DEF WantedAgrees
<1> HIDE DEF current
<1>6. CASE mOnDemandQueue = << >>
  <2>1. OnSetDataAllow(s, current)
    BY <1>1, <1>6
  <2>2. RequestsAgree' /\ PreferredAgrees' /\ FrameworkAgrees' /\ allow_data_slot' = s
    BY <1>1, <1>3, <1>4, <2>1, OnSetSlots
  <2>3. WantedAgrees'
    BY <1>1, <1>5, <1>6, <2>2, WantedAfter
  <2> QED
    BY <2>2, <2>3 DEF SlotInv
<1>7. CASE mOnDemandQueue # << >>
  <2>1. allow_data_slot' = current /\ UNCHANGED << mainLooper, cleared >>
    BY <1>1, <1>7
  <2>2. RequestsAgree' /\ PreferredAgrees' /\ FrameworkAgrees'
    BY <1>1, <1>3, <1>4, <2>1, NothingSent
  <2>3. WantedAgrees'
    <3>1. PreferredMode /\ ~cleared' => allow_data_slot' = Head(mOnDemandQueue)[2]
      <4>1. Wanted(mOnDemandQueue) \in Slots /\ Wanted(mOnDemandQueue) = Head(mOnDemandQueue)[2]
        BY <1>5, <1>7, WantedSlots
      <4>2. NoSlot \notin Slots
        BY SlotsFinite DEF AllowInv, AllowTypes
      <4>3. PreferredMode /\ ~cleared => allow_data_slot = Wanted(mOnDemandQueue)
        BY <4>1, <4>2, <1>2 DEF WantedAgrees
      <4> QED
        BY <4>1, <4>3, <1>3, <2>1
    <3> QED
      BY <3>1, <1>1, <1>5, <1>7, WantedAfter
  <2> QED
    BY <2>2, <2>3 DEF SlotInv
<1> QED
  BY <1>6, <1>7

(* A network leaves the queue, or those of a slot: the next one is wanted. *)
LEMMA LeavesQueue ==
  ASSUME AllowInv, SlotInv, NEW gone, mOnDemandQueue' = Without(mOnDemandQueue, gone),
         OnSetDataAllow(Wanted(mOnDemandQueue'), allow_data_slot),
         UNCHANGED << inst, dacVars, suspended, mcl, mdAllowed, allowLost, mIsPreferredDataMode,
                      legacy_allow_mode, preferredSim >>
  PROVE  SlotInv'
<1>1. PreferredAgrees /\ WantedAgrees
  BY DEF SlotInv
<1>2. /\ mOnDemandQueue' \in Seq(Types \X Slots) /\ mIsPreferredDataMode' \in BOOLEAN
      /\ preferredSim' \in Slots \cup {NoSlot}
  BY <1>1, WithoutTyped DEF WantedAgrees
<1>3. PICK w : w = Wanted(mOnDemandQueue')
  OBVIOUS
<1>4. w = (IF mOnDemandQueue' = << >> THEN preferredSim' ELSE Head(mOnDemandQueue')[2])
  BY <1>3 DEF Wanted
<1>5. w \in Slots \cup {NoSlot}
  BY <1>2, <1>3, WantedSlots
<1>6. PreferredMode => mIsPreferredDataMode' = TRUE /\ legacy_allow_mode' = NoSlot
  BY <1>1 DEF PreferredAgrees
<1>7. RequestsAgree' /\ PreferredAgrees' /\ FrameworkAgrees' /\ (w \in Slots => allow_data_slot' = w)
  <2>1. OnSetDataAllow(w, allow_data_slot)
    BY <1>3
  <2> QED
    BY <2>1, <1>6, OnSetSlots
<1>8. WantedAgrees'
  BY <1>2, <1>4, <1>5, <1>7, WantedAfter
<1> QED
  BY <1>7, <1>8 DEF SlotInv

(* handleSetupDataRequest: the first network of the queue moves the allowed slot. *)
LEMMA SetupSlots ==
  ASSUME AllowInv, SlotInv, NEW t \in Types, NEW s \in Slots, SetupDataCall(t, s), UNCHANGED inst
  PROVE  SlotInv'
<1>1. UNCHANGED << inst, dacVars, suspended, mcl, mdAllowed, allowLost, mIsPreferredDataMode,
                   legacy_allow_mode, preferredSim >>
  BY DEF SetupDataCall
<1>2. PreferredAgrees /\ WantedAgrees /\ NoSlot \notin Slots
  BY SlotsFinite DEF SlotInv, AllowInv, AllowTypes
<1>3. PreferredMode => mIsPreferredDataMode' = TRUE /\ legacy_allow_mode' = NoSlot
  BY <1>1, <1>2 DEF PreferredAgrees
<1>4. /\ mIsPreferredDataMode' \in BOOLEAN /\ preferredSim' \in Slots \cup {NoSlot}
      /\ mOnDemandQueue \in Seq(Types \X Slots)
  BY <1>1, <1>2 DEF WantedAgrees
<1>5. \/ UNCHANGED << mOnDemandQueue, mainLooper, allow_data_slot, cleared >>
      \/ /\ mOnDemandQueue' = Append(mOnDemandQueue, << t, s >>)
         /\ IF mOnDemandQueue = << >> THEN OnSetDataAllow(s, allow_data_slot)
            ELSE UNCHANGED << mainLooper, allow_data_slot, cleared >>
  BY DEF SetupDataCall, EnqueueNetworkRequest
<1>6. CASE UNCHANGED << mOnDemandQueue, mainLooper, allow_data_slot, cleared >>
  <2>1. RequestsAgree' /\ PreferredAgrees' /\ FrameworkAgrees'
    BY <1>1, <1>3, <1>6, NothingSent
  <2>2. WantedAgrees'
    <3>1. PICK w : w = Wanted(mOnDemandQueue)
      OBVIOUS
    <3>2. w = (IF mOnDemandQueue' = << >> THEN preferredSim' ELSE Head(mOnDemandQueue')[2])
      BY <3>1, <1>1, <1>6 DEF Wanted
    <3>3. PreferredMode /\ ~cleared' /\ w # NoSlot => allow_data_slot' = w
      BY <3>1, <1>2, <1>6 DEF WantedAgrees
    <3> QED
      BY <3>2, <3>3, <1>4, <1>6, WantedAfter
  <2> QED
    BY <2>1, <2>2 DEF SlotInv
<1>7. ASSUME mOnDemandQueue' = Append(mOnDemandQueue, << t, s >>)
      PROVE  /\ mOnDemandQueue' \in Seq(Types \X Slots) /\ mOnDemandQueue' # << >>
             /\ Head(mOnDemandQueue') = IF mOnDemandQueue = << >> THEN << t, s >> ELSE Head(mOnDemandQueue)
  <2>1. PICK e \in Types \X Slots : e = << t, s >>
    OBVIOUS
  <2>2. PICK q \in Seq(Types \X Slots) : q = mOnDemandQueue
    BY <1>4
  <2>3. /\ Append(q, e) \in Seq(Types \X Slots) /\ Append(q, e) # << >> /\ Len(Append(q, e)) = Len(q) + 1
        /\ \A i \in 1 .. Len(q) : Append(q, e)[i] = q[i]
        /\ Append(q, e)[Len(q) + 1] = e
    BY AppendProperties
  <2>4. Head(Append(q, e)) = Append(q, e)[1]
    BY <2>3
  <2>5. q = << >> => Len(q) = 0
    OBVIOUS
  <2>6. q # << >> => 1 \in 1 .. Len(q) /\ Head(q) = q[1]
    BY EmptySeq, LenProperties
  <2>7. Head(Append(q, e)) = IF q = << >> THEN e ELSE Head(q)
    BY <2>3, <2>4, <2>5, <2>6
  <2> QED
    BY <2>1, <2>2, <2>3, <2>7, <1>7
<1>8. CASE mOnDemandQueue' = Append(mOnDemandQueue, << t, s >>) /\ mOnDemandQueue = << >>
  <2>1. OnSetDataAllow(s, allow_data_slot) \/ UNCHANGED << mOnDemandQueue, mainLooper, allow_data_slot, cleared >>
    BY <1>5, <1>8
  <2>2. CASE OnSetDataAllow(s, allow_data_slot)
    <3>1. RequestsAgree' /\ PreferredAgrees' /\ FrameworkAgrees' /\ allow_data_slot' = s
      BY <1>1, <1>3, <2>2, OnSetSlots
    <3>2. Head(mOnDemandQueue')[2] = s
      BY <1>7, <1>8
    <3>3. WantedAgrees'
      BY <3>1, <3>2, <1>4, <1>7, <1>8, WantedAfter
    <3> QED
      BY <3>1, <3>3 DEF SlotInv
  <2> QED
    BY <2>1, <2>2, <1>6
<1>9. CASE mOnDemandQueue' = Append(mOnDemandQueue, << t, s >>) /\ mOnDemandQueue # << >>
  <2>1. UNCHANGED << mainLooper, allow_data_slot, cleared >>
    BY <1>5, <1>9
  <2>2. RequestsAgree' /\ PreferredAgrees' /\ FrameworkAgrees'
    BY <1>1, <1>3, <2>1, NothingSent
  <2>3. WantedAgrees'
    <3>1. Wanted(mOnDemandQueue) \in Slots /\ Wanted(mOnDemandQueue) = Head(mOnDemandQueue)[2]
      BY <1>4, <1>9, WantedSlots
    <3>2. PreferredMode /\ ~cleared' => allow_data_slot' = Head(mOnDemandQueue')[2]
      BY <3>1, <1>2, <1>7, <1>9, <2>1 DEF WantedAgrees
    <3> QED
      BY <3>2, <1>4, <1>7, <1>9, WantedAfter
  <2> QED
    BY <2>2, <2>3 DEF SlotInv
<1> QED
  BY <1>5, <1>6, <1>8, <1>9

(* onHidlStateChanged and the vendor's framework's own mode change no slot; without
   preferred data mode the framework's request is the last one that waits. *)
LEMMA OwnModeSlots ==
  ASSUME AllowInv, SlotInv, UNCHANGED inst,
         HidlStateChanged \/ SetLegacyMode \/ \E s \in Slots, allow \in BOOLEAN : AllowData(s, allow)
  PROVE  SlotInv'
<1>1. AllowTypes /\ PreferredAgrees /\ WantedAgrees
  BY DEF AllowInv, SlotInv
<1>2. /\ mIsPreferredDataMode \in BOOLEAN /\ preferredSim \in Slots \cup {NoSlot}
      /\ mOnDemandQueue \in Seq(Types \X Slots)
  BY <1>1 DEF WantedAgrees
<1>3. PICK w : w = Wanted(mOnDemandQueue)
  OBVIOUS
<1>4. PreferredMode /\ ~cleared /\ w # NoSlot => allow_data_slot = w
  BY <1>1, <1>3 DEF WantedAgrees
<1>5. PreferredMode => mIsPreferredDataMode = TRUE /\ legacy_allow_mode = NoSlot
  BY <1>1 DEF PreferredAgrees
<1>6. CASE HidlStateChanged
  <2>1. /\ UNCHANGED << inst, dacVars, suspended, mcl, mdAllowed, allowLost, mainLooper >>
        /\ UNCHANGED << mIsPreferredDataMode, legacy_allow_mode, allow_data_slot, preferredSim >>
        /\ mOnDemandQueue' = << >> /\ cleared' = (cleared \/ mOnDemandQueue # << >>)
    BY <1>6 DEF HidlStateChanged
  <2>2. RequestsAgree' /\ PreferredAgrees' /\ FrameworkAgrees'
    BY <1>5, <2>1, NothingSent
  <2>3. WantedAgrees'
    <3>1. mOnDemandQueue' \in Seq(Types \X Slots)
      BY <2>1, EmptySeq
    <3>2. ~cleared' => w = preferredSim
      BY <1>2, <1>3, <2>1, WantedSlots
    <3>3. PICK v : v = preferredSim
      OBVIOUS
    <3>4. /\ v = (IF mOnDemandQueue' = << >> THEN preferredSim' ELSE Head(mOnDemandQueue')[2])
          /\ PreferredMode /\ ~cleared' /\ v # NoSlot => allow_data_slot' = v
      BY <1>4, <2>1, <3>2, <3>3
    <3> QED
      BY <1>2, <2>1, <3>1, <3>4, WantedAfter
  <2> QED
    BY <2>2, <2>3 DEF SlotInv
<1>7. CASE SetLegacyMode
  <2>1. /\ UNCHANGED << inst, dacVars, suspended, mcl, mdAllowed, allowLost, mainLooper >>
        /\ UNCHANGED << mIsPreferredDataMode, allow_data_slot, preferredSim, mOnDemandQueue, cleared >>
        /\ ~mIsPreferredDataMode
    BY <1>7 DEF SetLegacyMode
  <2>2. RequestsAgree' /\ PreferredAgrees' /\ FrameworkAgrees'
    BY <1>5, <2>1, NothingSent
  <2>3. w = (IF mOnDemandQueue' = << >> THEN preferredSim' ELSE Head(mOnDemandQueue')[2])
    BY <1>3, <2>1 DEF Wanted
  <2>4. WantedAgrees'
    BY <1>2, <1>4, <2>1, <2>3, WantedAfter
  <2> QED
    BY <2>2, <2>4 DEF SlotInv
<1>8. ASSUME NEW s \in Slots, NEW allow \in BOOLEAN, AllowData(s, allow) PROVE SlotInv'
  <2>1. /\ UNCHANGED << inst, dacVars, suspended, mcl, mdAllowed, allowLost, slotVars >>
        /\ ~mIsPreferredDataMode /\ requests' = requests + 1
        /\ mainLooper' = Append(mainLooper, Request(s, allow, requests'))
    BY <1>8 DEF AllowData, bounds
  <2>2. UNCHANGED << mIsPreferredDataMode, legacy_allow_mode, allow_data_slot, preferredSim,
                     mOnDemandQueue, cleared >>
    BY <2>1 DEF slotVars
  <2>3. PICK r \in RequestSet : r = Request(s, allow, requests')
    <3>1. requests + 1 \in Nat
      BY <1>1 DEF AllowTypes
    <3> QED
      BY <2>1, <3>1 DEF Request, RequestSet
  <2>4. << r >> \in Seq(RequestSet) /\ mainLooper' = mainLooper \o << r >>
    <3>1. mainLooper \in Seq(MessageSet) /\ r \in MessageSet
      BY <1>1 DEF AllowTypes, RequestSet, MessageSet
    <3>2. mainLooper' = Append(mainLooper, r)
      BY <2>1, <2>3
    <3> QED
      BY <3>1, <3>2, AppendIsConcat
  <2>5. RequestsAgree' /\ PreferredAgrees' /\ FrameworkAgrees'
    <3>1. PICK q \in Seq(RequestSet) : q = << r >>
      BY <2>4
    <3>2. mainLooper' = mainLooper \o q /\ ~PreferredMode
      BY <1>5, <2>1, <2>4, <3>1
    <3> QED
      BY <2>1, <2>2, <3>2, RequestsSentLast
  <2>6. w = (IF mOnDemandQueue' = << >> THEN preferredSim' ELSE Head(mOnDemandQueue')[2])
    BY <1>3, <2>2 DEF Wanted
  <2>7. WantedAgrees'
    BY <1>2, <1>4, <2>1, <2>2, <2>6, WantedAfter
  <2> QED
    BY <2>5, <2>7 DEF SlotInv
<1> QED
  BY <1>6, <1>7, <1>8

(* What the framework and the SIM lock do *)
LEMMA FrameworkSlots ==
  ASSUME AllowInv, SlotInv, Framework, UNCHANGED inst
  PROVE  SlotInv'
<1>1. ASSUME NEW s \in Slots, SimMeLockChanged(s) PROVE SlotInv'
  <2>1. /\ mOnDemandQueue' = Without(mOnDemandQueue, Types \X {s})
        /\ OnSetDataAllow(Wanted(mOnDemandQueue'), allow_data_slot)
        /\ UNCHANGED << inst, dacVars, suspended, mcl, mdAllowed, allowLost, mIsPreferredDataMode,
                        legacy_allow_mode, preferredSim >>
    BY <1>1 DEF SimMeLockChanged
  <2> QED
    BY <2>1, LeavesQueue
<1>2. ASSUME NEW t \in Types, NEW s \in Slots, DeactivateDataCall(t, s) PROVE SlotInv'
  <2>1. /\ mOnDemandQueue' = Without(mOnDemandQueue, {<< t, s >>})
        /\ OnSetDataAllow(Wanted(mOnDemandQueue'), allow_data_slot)
        /\ UNCHANGED << inst, dacVars, suspended, mcl, mdAllowed, allowLost, mIsPreferredDataMode,
                        legacy_allow_mode, preferredSim >>
    BY <1>2 DEF DeactivateDataCall
  <2> QED
    BY <2>1, LeavesQueue
<1> QED
  BY <1>1, <1>2, PreferredSlots, SetupSlots, OwnModeSlots DEF Framework

(* A restart forgets everything but the property, and asks for its slot. *)
LEMMA RestartSlots ==
  ASSUME AllowInv, SlotInv, Restart, UNCHANGED inst
  PROVE  SlotInv'
<1>1. /\ mDoingDataAllow' = FALSE /\ mReqDataAllow' = FALSE /\ mDisallowingPeer' = 0
      /\ mLastAllowTrueRequest' = << >> /\ mOnDemandQueue' = << >>
      /\ mIsPreferredDataMode' = PreferredMode /\ legacy_allow_mode' = NoSlot /\ preferredSim' = NoSlot
      /\ mainLooper' = IF allow_data_slot = NoSlot THEN << >>
                       ELSE << Request(allow_data_slot, TRUE, 0) >>
      /\ suspended' = << >> /\ mcl' = [s \in Slots |-> << >>] /\ mdAllowed' = {}
      /\ allow_data_slot' = allow_data_slot
  BY DEF Restart
<1>2. inst \in Instances /\ allow_data_slot \in Slots \cup {NoSlot} /\ PreferredMode \in BOOLEAN
  <2>1. inst \in Instances /\ allow_data_slot \in Slots \cup {NoSlot}
    BY DEF AllowInv, AllowTypes
  <2> QED
    BY <2>1, DataAllowAssumption DEF PreferredMode
<1>3. Slots' = Slots /\ Types' = Types /\ PreferredMode' = PreferredMode
  BY Afterwards
<1>4. Pending' = mainLooper' /\ Answers(mainLooper') = {}
      /\ (allow_data_slot = NoSlot => NoneIn(mainLooper'))
      /\ (allow_data_slot # NoSlot => EndsWith(mainLooper', allow_data_slot) /\ AllowIn(mainLooper'))
  <2>1. CASE allow_data_slot = NoSlot
    <3>1. mainLooper' = << >>
      BY <1>1, <2>1
    <3>2. Pending' = << >>
      <4>1. << >> \o << >> = << >>
        BY EmptySeq, ConcatEmptySeq
      <4> QED
        BY <1>1, <3>1, <4>1 DEF Pending
    <3> QED
      BY <2>1, <3>1, <3>2, NothingLast
  <2>2. CASE allow_data_slot # NoSlot
    <3>1. PICK r \in MessageSet : r = Request(allow_data_slot, TRUE, 0)
      BY <1>2, <2>2 DEF Request, MessageSet
    <3>2. mainLooper' = << r >> /\ << r >> \in Seq(MessageSet)
      <4>1. mainLooper' = << Request(allow_data_slot, TRUE, 0) >>
        BY <1>1, <2>2
      <4>2. << r >> \in Seq(MessageSet)
        BY <3>1, Single
      <4> QED
        BY <3>1, <4>1, <4>2
    <3>3. r.type = "request" /\ r.allow = TRUE /\ r.slot = allow_data_slot
      BY <3>1 DEF Request
    <3>4. Pending' = << r >>
      <4>1. << >> \o << r >> = << r >>
        BY <3>2, ConcatEmptySeq
      <4> QED
        BY <1>1, <3>2, <4>1 DEF Pending
    <3>5. EndsWith(<< r >>, allow_data_slot) /\ AllowIn(<< r >>) /\ Answers(<< r >>) = {}
      BY <3>3, SingleLast
    <3> QED
      BY <2>2, <3>2, <3>4, <3>5
  <2> QED
    BY <2>1, <2>2
<1>5. ~Taken'
  BY <1>1 DEF Taken
<1>6. RequestsAgree'
  <2>1. \A s \in Slots : DOMAIN mcl'[s] = {}
    <3>1. DOMAIN << >> = {}
      BY Nothing
    <3> QED
      BY <1>1, <3>1
  <2> QED
    BY <1>1, <1>4, <2>1, Afterwards
<1>7. PreferredAgrees'
  <2>1. /\ NoneIn(Pending)' <=> NoneIn(Pending')
        /\ EndsWith(Pending, allow_data_slot)' <=> EndsWith(Pending', allow_data_slot')
    BY Afterwards
  <2> QED
    BY <1>1, <1>3, <1>4, <1>5, <2>1 DEF PreferredAgrees, NoSlot
<1>8. FrameworkAgrees'
  <2>1. AllowIn(Pending)' <=> AllowIn(Pending')
    BY Afterwards
  <2> QED
    BY <1>1, <1>4, <1>5, <2>1 DEF FrameworkAgrees
<1>9. WantedAgrees'
  <2>1. mOnDemandQueue' \in Seq(Types \X Slots)
    BY <1>1, EmptySeq
  <2>2. PICK w : w = NoSlot
    OBVIOUS
  <2> QED
    BY <1>1, <1>2, <2>1, <2>2, WantedAfter
<1> QED
  BY <1>6, <1>7, <1>8, <1>9 DEF SlotInv

(* At the start nothing is asked for and nothing is allowed. *)
LEMMA SlotInitial == Init => SlotInv
<1> SUFFICES ASSUME Init PROVE SlotInv
  OBVIOUS
<1>1. /\ inst \in Instances /\ mDoingDataAllow = FALSE /\ mReqDataAllow = FALSE /\ mDisallowingPeer = 0
      /\ mLastAllowTrueRequest = << >> /\ mOnDemandQueue = << >>
      /\ mIsPreferredDataMode = PreferredMode /\ legacy_allow_mode = NoSlot /\ preferredSim = NoSlot
      /\ mainLooper = << >> /\ suspended = << >> /\ mcl = [s \in Slots |-> << >>]
      /\ mdAllowed = {} /\ allow_data_slot = NoSlot
  BY DEF Init
<1>2. PreferredMode \in BOOLEAN
  BY <1>1, DataAllowAssumption DEF PreferredMode
<1>3. Pending = << >> /\ ~Taken
  <2>1. << >> \o << >> = << >>
    BY EmptySeq, ConcatEmptySeq
  <2> QED
    BY <1>1, <2>1 DEF Pending, Taken
<1>4. \A s \in Slots : DOMAIN mcl[s] = {}
  <2>1. DOMAIN << >> = {}
    BY Nothing
  <2> QED
    BY <1>1, <2>1
<1>5. RequestsAgree
  BY <1>1, <1>4, NothingLast DEF RequestsAgree
<1>6. PreferredAgrees /\ FrameworkAgrees
  BY <1>1, <1>3, NothingLast DEF PreferredAgrees, FrameworkAgrees
<1>7. WantedAgrees
  <2>1. Wanted(mOnDemandQueue) = NoSlot /\ mOnDemandQueue \in Seq(Types \X Slots)
    BY <1>1, EmptySeq DEF Wanted
  <2> QED
    BY <1>1, <1>2, <2>1 DEF WantedAgrees
<1> QED
  BY <1>5, <1>6, <1>7 DEF SlotInv

(* Every step keeps the requests and the property in agreement. *)
LEMMA SlotSteps == AllowInv /\ SlotInv /\ [Next]_vars => SlotInv'
<1> SUFFICES ASSUME AllowInv, SlotInv, [Next]_vars PROVE SlotInv'
  OBVIOUS
<1>1. CASE UNCHANGED vars
  <2>1. UNCHANGED << inst, mainLooper, suspended, mcl, mdAllowed, allowLost, mDoingDataAllow,
                     mReqDataAllow, mDisallowingPeer, mLastAllowTrueRequest, allow_data_slot,
                     mOnDemandQueue, mIsPreferredDataMode, legacy_allow_mode, preferredSim, cleared >>
    BY <1>1 DEF vars, dacVars, slotVars
  <2>2. Pending' = Pending /\ Taken' = Taken
    BY <2>1 DEF Pending, Taken
  <2>3. SameStream
    BY <2>2 DEF SameStream
  <2>4. PreferredAgrees' /\ FrameworkAgrees' /\ WantedAgrees'
    BY <2>1, <2>2, <2>3, StreamKept
  <2>5. RequestsAgree'
    <3>1. RequestsAgree
      BY DEF SlotInv
    <3> QED
      BY <2>1, <3>1, Afterwards DEF RequestsAgree
  <2> QED
    BY <2>4, <2>5 DEF SlotInv
<1>2. CASE Next
  <2>1. UNCHANGED inst /\ (Framework \/ MainThread \/ Restart \/ \E s \in Slots : ModemSide(s))
    BY <1>2 DEF Next, Steps
  <2>2. CASE MainThread
    BY <2>1, <2>2, SuspendSlots, HandleSlots, ResendSlots, ConflictSlots, PeerSlots, DoneSlots, SyncSlots
       DEF MainThread
  <2> QED
    BY <2>1, <2>2, FrameworkSlots, RestartSlots, ModemSlots
<1> QED
  BY <1>1, <1>2
-----------------------------------------------------------------------------
(* The theorems about the allowed slot *)

(* The requests that wait, the one taken up last, the property and the queue agree in
   every reachable state of RtcDataAllowController. *)
THEOREM SlotInvariant == Spec => [](AllowInv /\ SlotInv)
<1>1. Init => AllowInv /\ SlotInv
  BY AllowInitial, SlotInitial
<1>2. AllowInv /\ SlotInv /\ [Next]_vars => (AllowInv /\ SlotInv)'
  BY AllowSteps, SlotSteps
<1> QED
  BY <1>1, <1>2, PTL DEF Spec

(* When nothing waits and nothing is under way, the modem allows what was taken up last. *)
LEMMA AtRest ==
  ASSUME AllowInv, SlotInv, Quiet
  PROVE  /\ NoneIn(Pending) /\ ~AllowIn(Pending) /\ \A s : ~EndsWith(Pending, s)
         /\ Taken => /\ mLastAllowTrueRequest.slot \in Slots
                     /\ ~allowLost => mdAllowed = {mLastAllowTrueRequest.slot}
<1>1. Pending = << >>
  <2>1. << >> \o << >> = << >>
    BY EmptySeq, ConcatEmptySeq
  <2> QED
    BY <2>1 DEF Quiet, Pending
<1>2. mDisallowingPeer = 0 /\ mDoingDataAllow = FALSE
  BY DEF Quiet, AllowInv, AllowTypes, CountAgrees
<1>3. Taken => mReqDataAllow
  BY <1>2 DEF Taken
<1>4. mReqDataAllow => mLastAllowTrueRequest.slot \in Slots
  BY DEF AllowInv, FlagsAgree, RequestSet
<1>5. mReqDataAllow /\ ~allowLost => mdAllowed = {mLastAllowTrueRequest.slot}
  BY <1>2 DEF SlotInv, RequestsAgree
<1> QED
  BY <1>1, <1>3, <1>4, <1>5, NothingLast

(* onSetDataAllow may believe the property: in preferred data mode it is the slot that
   the modem allows once all messages are done, unless an EDALLOW=1 was lost. *)
THEOREM PropertyIsModemCorrect == Spec => []PropertyIsModem
<1>1. AllowInv /\ SlotInv => PropertyIsModem
  <2> SUFFICES ASSUME AllowInv, SlotInv, Quiet, PreferredMode, ~allowLost
               PROVE  mdAllowed = IF allow_data_slot = NoSlot THEN {} ELSE {allow_data_slot}
    BY DEF PropertyIsModem
  <2>1. NoSlot \notin Slots
    BY SlotsFinite DEF AllowInv, AllowTypes
  <2>2. PreferredAgrees
    BY DEF SlotInv
  <2> QED
    BY <2>1, <2>2, AtRest DEF PreferredAgrees
<1> QED
  BY <1>1, SlotInvariant, PTL

(* The allowed slot is the one that the queue of on-demand networks or else the
   framework wants, as far as the property says; without preferred data mode it is the
   one that the framework asked for last. *)
THEOREM WantedIsAllowedCorrect == Spec => []WantedIsAllowed
<1>1. AllowInv /\ SlotInv => WantedIsAllowed
  <2> SUFFICES ASSUME AllowInv, SlotInv PROVE WantedIsAllowed
    OBVIOUS
  <2>1. PreferredAgrees /\ FrameworkAgrees /\ WantedAgrees /\ NoSlot \notin Slots
    BY SlotsFinite DEF SlotInv, AllowInv, AllowTypes
  <2>2. ASSUME Quiet, PreferredMode, ~allowLost, ~cleared, Wanted(mOnDemandQueue) # NoSlot
        PROVE  mdAllowed = {Wanted(mOnDemandQueue)}
    <3>1. allow_data_slot = Wanted(mOnDemandQueue) /\ allow_data_slot # NoSlot
      BY <2>1, <2>2 DEF WantedAgrees
    <3>2. mdAllowed = {allow_data_slot}
      BY <2>1, <2>2, <3>1, AtRest DEF PreferredAgrees
    <3> QED
      BY <3>1, <3>2
  <2>3. ASSUME Quiet, ~mIsPreferredDataMode, ~allowLost PROVE mdAllowed \subseteq {allow_data_slot}
    <3>1. mIsPreferredDataMode = FALSE
      BY <2>1, <2>3 DEF WantedAgrees
    <3> QED
      BY <2>1, <2>3, <3>1, AtRest DEF FrameworkAgrees
  <2> QED
    BY <2>2, <2>3 DEF WantedIsAllowed
<1> QED
  BY <1>1, SlotInvariant, PTL
=============================================================================
