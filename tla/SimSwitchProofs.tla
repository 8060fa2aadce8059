-------------------------- MODULE SimSwitchProofs --------------------------
(***************************************************************************)
(* Proofs about SimSwitch, for any number of slots, every set of channel   *)
(* classes and every bound: a reader keeps its channel while it holds a    *)
(* reader mutex, an answer is processed where it is awaited, and between   *)
(* switches the channels are mapped as the modem maps its stacks.          *)
(***************************************************************************)
EXTENDS SimSwitch, FiniteSetTheorems, SequenceTheorems, WellFoundedInduction, TLAPS

Kinds == {"ok", "error", "map", "urc"}
Answers == {"ok", "error"}

\* The lines of some kinds that descriptor f has not handed to its context
Unread(f, kinds)  == {i \in DOMAIN lines[f] : lines[f][i][1] \in kinds}
InHand(f, kinds)  == place[f] \in {"have", "taken"} /\ line[f][1] \in kinds
OnWay(f, kinds)   == Unread(f, kinds) # {} \/ InHand(f, kinds)
AtMostOne(f, kinds) ==
  /\ \A i, j \in Unread(f, kinds) : i = j
  /\ InHand(f, kinds) => Unread(f, kinds) = {}
-----------------------------------------------------------------------------
(* The inductive invariant, in named parts *)

\* Variables and instance have their types.
Types ==
  /\ inst \in Instances /\ TypeOK
  /\ uk \in 1 .. SimCount + 1 /\ todo \subseteq Affected /\ DOMAIN lines = Channels
  /\ {switches, commands, unsolicited, errors, timeouts} \subseteq Nat

\* The descriptor of a channel is read by the reader with its context; both are of its class.
Paired ==
  \A c \in Channels : /\ ctxOf[fd[c]] = c /\ fd[ctxOf[c]] = c
                      /\ fd[c][1] = c[1] /\ ctxOf[c][1] = c[1]

UrcChannels == {"urc"} \X Slots

\* The switch has locked channel c, and may have one of its mutexes
Taking  == sw \in {"need", "restart", "reader"}
Holding == sw \in {"map", "mapWait", "waitUrc", "gaveUp"}
SwitchLocked(c)  == IF Taking THEN c \in Affected \ todo
                    ELSE IF Holding THEN c \in Affected ELSE c \in todo
SwitchTouched(c) == IF Taking \/ Holding THEN c \in Affected ELSE c \in todo

\* The same for the URC handler: channels of class "vsim", and the reader mutex of a URC channel
Locking == urcAt \in {"need", "restart", "reader"}
VsimLocked(c)  == c[1] = "vsim" /\ \/ Locking /\ c[2] + 1 < uk
                                   \/ urcAt = "unlockVsim" /\ c[2] + 1 >= uk
VsimTouched(c) == c[1] = "vsim" /\ (Locking \/ (urcAt = "unlockVsim" /\ c[2] + 1 >= uk))
UrcLocked(c)   == c[1] = "urc" /\ \/ urcAt = "lockReaders" /\ c[2] + 1 < uk
                                  \/ Locking \/ urcAt = "unlockVsim"
                                  \/ urcAt = "unlockReaders" /\ c[2] + 1 >= uk

\* The next channel the switch locks, and the next the URC handler does
FirstToLock(c) == c \in todo /\ \A d \in todo \ {c} : LockedBefore(c, d)
NextVsim(c)    == c[1] = "vsim" /\ c[2] + 1 = uk

\* Both mutexes of a channel belong to who locked it, and a channel of which somebody has
\* a mutex is being locked or unlocked.  A reader of the switch's own class may have given
\* up the reader mutex of another channel.
Held(c) ==
  /\ SwitchLocked(c) \/ VsimLocked(c) => restartMutex[c] = "switch"
  /\ sw = "reader" /\ FirstToLock(c) => restartMutex[c] = "switch"
  /\ urcAt = "reader" /\ NextVsim(c) => restartMutex[c] = "switch"
  /\ (SwitchLocked(c) \/ VsimLocked(c) \/ UrcLocked(c)) /\ c[1] # "own"
       => readerMutex[c] = "switch"
  /\ restartMutex[c] = "switch" \/ needWait[c] => SwitchTouched(c) \/ VsimTouched(c)
  /\ readerMutex[c] = "switch" => SwitchTouched(c) \/ VsimTouched(c) \/ UrcLocked(c)

\* A sender in its handler has the restart mutex; one on its condition has been asked to wait.
SenderWaits(c) ==
  /\ sender[c] = "condition" => needWait[c]
  /\ sender[c] # "idle" => c[1] = "cmd"
  /\ sender[c] = "handling" => restartMutex[c] = "sender"

MutexesHeld ==
  /\ \A c \in Channels : Held(c) /\ SenderWaits(c)
  /\ urcAt # "idle" \/ urcFlag => NoReset
  /\ Locking \/ urcAt = "unlockVsim" => "vsim" \in Classes
  /\ ~Taking /\ sw # "unlock" => todo = {}

\* A reader that processes a line has the mutex of its context.
ReadersHold ==
  /\ \A r \in Channels :
       r[1] # "own" /\ place[r] \in {"taken", "processed"} => readerMutex[ctxOf[r]] = "reader"
  /\ ReaderExcluded

\* Who awaits an answer, and where an ordinary command is worked on
Awaited ==
  /\ \A c \in Channels : waiting[c] # "none" =>
       \/ c[1] = "cmd" /\ sender[c] = "handling"
       \/ c = own /\ sw = "mapWait"
  /\ \A f \in Channels : owed[f] = "plain" => f[1] = "cmd"

\* A command is owed or answered on one descriptor, that of the channel that awaits it.
AnswersAwaited ==
  /\ ~misrouted
  /\ \A f \in Channels :
       /\ AtMostOne(f, Answers)
       /\ owed[f] # "none" => ~OnWay(f, Answers)
       /\ owed[f] # "none" \/ OnWay(f, Answers) => waiting[ctxOf[f]] # "none"

\* The major slot by which the channels of a class are arranged
UrcMajor == IF sw \in {"map", "mapWait", "waitUrc"} /\ ~urcFlag THEN target ELSE majorSlot
MajorOf(class) ==
  IF class = "urc" THEN UrcMajor
  ELSE IF class = "vsim" /\ NoReset
       THEN IF urcAt \in {"lockReaders", "need", "restart", "reader"} THEN urcOld ELSE UrcMajor
       ELSE majorSlot

\* The protocol stack of a slot, in closed form
Stack(major, s) == IF s = major THEN 0 ELSE IF s < major THEN s + 1 ELSE s

Arranged ==
  \A c \in Channels : sw # "gaveUp" => fd[c] = << c[1], Stack(MajorOf(c[1]), c[2]) >>

\* The descriptors with an indication of the new mapping
Announcing == {f \in UrcChannels : OnWay(f, {"map"})}

NoneAnnounced == Announcing = {} /\ mapUrcs = << >> /\ s_urc_count = 0

\* The indications on their way from descriptor f carry this slot
Tells(f, slot) ==
  /\ \A i \in Unread(f, {"map"}) : lines[f][i][2] = slot
  /\ InHand(f, {"map"}) => line[f][2] = slot

\* The indications carry the new slot, one on each URC channel, and all of them are counted.
Announced ==
  /\ \A f \in Channels : /\ f[1] # "urc" => ~OnWay(f, {"map"})
                         /\ AtMostOne(f, {"map"}) /\ Tells(f, target)
  /\ \A i \in DOMAIN mapUrcs : mapUrcs[i] = target
  /\ ~urcFlag => NoneAnnounced /\ urcAt # "lockReaders"

\* The switch that raised the flag has not been obeyed, or has been announced
NotObeyed == NoneAnnounced /\ urcAt # "lockReaders" /\ mdMajor = majorSlot
Obeyed ==
  /\ mdMajor = target /\ sw # "map"
  /\ \A f \in Channels : owed[f] # "map"
  /\ IF urcAt = "lockReaders" THEN NoneAnnounced
     ELSE Cardinality(Announcing) + Len(mapUrcs) + s_urc_count = SimCount

\* The places of an error that was not processed
ErrorFree == \A f \in Channels : ~OnWay(f, {"error"})

\* Without a modem reset: how flag, indications and the modem's major slot go together
FlagFollows ==
  NoReset =>
    /\ sw = "map" => urcFlag
    /\ urcFlag => sw \in {"map", "mapWait", "waitUrc"} /\ (NotObeyed \/ Obeyed)
    /\ ~urcFlag => mdMajor = UrcMajor
    /\ urcAt = "lockReaders" => urcFlag /\ Obeyed /\ urcOld = majorSlot /\ urcNew = target
    /\ Locking => urcNew = UrcMajor
    /\ \A f \in Channels : owed[f] = "map" =>
         f = fd[own] /\ sw # "map" /\ urcFlag /\ NotObeyed /\ ErrorFree /\ result[own] # "error"
    /\ result[own] = "error" => /\ waiting[own] = "none" /\ sw \in {"map", "mapWait"}
                                /\ urcFlag /\ NotObeyed /\ ErrorFree
    /\ \A f \in Channels : OnWay(f, {"error"}) =>
         /\ urcFlag /\ sw # "map" /\ NotObeyed /\ AtMostOne(f, {"error"})
         /\ \A g \in Channels : OnWay(g, {"error"}) => g = f

\* With a modem reset and no time-out: the response is that of the modem
ResponseTells ==
  /\ \A f \in Channels : owed[f] = "map" => f = fd[own] /\ sw = "mapWait" /\ mdMajor = majorSlot
  /\ sw \in {"idle", "need", "restart", "reader", "map", "unlock"} => mdMajor = majorSlot
  /\ sw = "waitUrc" => mdMajor = target
  /\ sw = "mapWait" =>
       /\ waiting[own] = "none" => \/ result[own] = "ok" /\ mdMajor = target
                                   \/ result[own] = "error" /\ mdMajor = majorSlot
       /\ OnWay(fd[own], {"ok"}) => mdMajor = target
       /\ OnWay(fd[own], {"error"}) => mdMajor = majorSlot

\* The inductive invariant
SwitchInv ==
  /\ Types /\ Paired /\ MutexesHeld /\ ReadersHold /\ Awaited
  /\ timeouts = 0 => AnswersAwaited
  /\ Arranged /\ Announced /\ FlagFollows
  /\ timeouts = 0 /\ ~NoReset => ResponseTells
-----------------------------------------------------------------------------
\* switchChannel as one rotation: the slots between the old and the new one move up
Rotation(old, new) ==
  [s \in Slots |-> IF s = new THEN old
                   ELSE IF old <= s /\ s < new THEN s + 1
                   ELSE IF new < s /\ s <= old THEN s - 1 ELSE s]
-----------------------------------------------------------------------------
(* Facts about the instance, the numbers and the rotation of the slots      *)

(* What an instance is. *)
LEMMA Instance ==
  ASSUME inst \in Instances
  PROVE  /\ SimCount \in Nat /\ SimCount > 1 /\ NoReset \in BOOLEAN /\ OwnSlot \in Slots
         /\ Slots = 0 .. SimCount - 1
         /\ Classes \subseteq {"urc", "cmd", "sms", "own", "vsim"} /\ "urc" \in Classes
         /\ own \in Channels /\ "own" \in Classes
         /\ DOMAIN ClassOrder \subseteq Nat
<1>1. /\ inst.simCount \in Nat \ {0, 1} /\ inst.noReset \in BOOLEAN
      /\ inst.ownSlot \in 0 .. inst.simCount - 1
      /\ inst.classes \in Seq({"urc", "cmd", "sms", "own", "vsim"})
      /\ {"urc", "own"} \subseteq Range(inst.classes)
  BY SimSwitchAssumption
<1>2. /\ DOMAIN inst.classes = 1 .. Len(inst.classes) /\ Len(inst.classes) \in Nat
      /\ \A i \in DOMAIN inst.classes : inst.classes[i] \in {"urc", "cmd", "sms", "own", "vsim"}
  BY <1>1
<1>3. Range(inst.classes) \subseteq {"urc", "cmd", "sms", "own", "vsim"}
  BY <1>2 DEF Range
<1>4. SimCount > 1
  BY <1>1 DEF SimCount
<1>5. OwnSlot \in Slots /\ Slots = 0 .. SimCount - 1
  BY <1>1 DEF OwnSlot, Slots, SimCount
<1>6. Classes \subseteq {"urc", "cmd", "sms", "own", "vsim"} /\ "urc" \in Classes /\ "own" \in Classes
  BY <1>1, <1>3 DEF Classes, ClassOrder
<1>7. own \in Channels
  BY <1>5, <1>6 DEF own, Channels
<1>8. DOMAIN ClassOrder \subseteq Nat
  BY <1>2 DEF ClassOrder
<1> QED
  BY <1>1, <1>4, <1>5, <1>6, <1>7, <1>8 DEF SimCount, NoReset

(* A set of numbers that has 0 and the successor of each of its elements has them all. *)
LEMMA AllNumbers ==
  ASSUME NEW S \in SUBSET Nat, 0 \in S, \A n \in S : n + 1 \in S
  PROVE  S = Nat
<1> SUFFICES ASSUME Nat \ S # {} PROVE FALSE
  OBVIOUS
<1>1. PICK x \in Nat \ S : \A y \in Nat \ S : <<y, x>> \notin OpToRel(<, Nat)
  BY NatLessThanWellFounded, WFMin
<1>2. \A y \in Nat \ S : ~(y < x)
  BY <1>1 DEF OpToRel
<1>3. x \in Nat /\ x # 0
  BY <1>1
<1>5. x - 1 \in Nat /\ x - 1 < x /\ (x - 1) + 1 = x
  BY <1>3
<1>4. x - 1 \in S
  BY <1>2, <1>5
<1> QED
  BY <1>1, <1>4, <1>5

(* switchChannelByRealId exchanges the values of two slots. *)
LEMMA Swapped ==
  ASSUME NEW p \in [Slots -> Slots], NEW a \in Slots, NEW b \in Slots
  PROVE  Swap(p, a, b) = [s \in Slots |-> IF s = b THEN p[a] ELSE IF s = a THEN p[b] ELSE p[s]]
BY DEF Swap

(* One more exchange of neighbours takes a rotation one slot further, up or down. *)
LEMMA RotationGrows ==
  ASSUME inst \in Instances, NEW old \in Slots, NEW i \in Slots
  PROVE  /\ Rotation(old, i) \in [Slots -> Slots]
         /\ Rotation(old, old) = [s \in Slots |-> s]
         /\ i > old => i - 1 \in Slots /\ Rotation(old, i) = Swap(Rotation(old, i - 1), i - 1, i)
         /\ i < old => i + 1 \in Slots /\ Rotation(old, i) = Swap(Rotation(old, i + 1), i + 1, i)
<1>0. SimCount \in Nat /\ Slots = 0 .. SimCount - 1
  BY Instance
<1>1. \A j \in Slots : Rotation(old, j) \in [Slots -> Slots]
  <2>1. ASSUME NEW j \in Slots, NEW s \in Slots
        PROVE  (IF s = j THEN old ELSE IF old <= s /\ s < j THEN s + 1
                ELSE IF j < s /\ s <= old THEN s - 1 ELSE s) \in Slots
    BY <1>0, <2>1
  <2> QED
    BY <2>1 DEF Rotation
<1>2. Rotation(old, old) = [s \in Slots |-> s]
  <2>1. ASSUME NEW s \in Slots
        PROVE  (IF s = old THEN old ELSE IF old <= s /\ s < old THEN s + 1
                ELSE IF old < s /\ s <= old THEN s - 1 ELSE s) = s
    BY <1>0, <2>1
  <2> QED
    BY <2>1 DEF Rotation
<1>3. ASSUME i > old PROVE i - 1 \in Slots /\ Rotation(old, i) = Swap(Rotation(old, i - 1), i - 1, i)
  <2>1. i - 1 \in Slots
    BY <1>0, <1>3
  <2> DEFINE p == Rotation(old, i - 1)
  <2>2. p \in [Slots -> Slots] /\ Rotation(old, i) \in [Slots -> Slots]
    BY <1>1, <2>1
  <2>3. \A s \in Slots : p[s] = IF s = i - 1 THEN old ELSE IF old <= s /\ s < i - 1 THEN s + 1
                                ELSE IF i - 1 < s /\ s <= old THEN s - 1 ELSE s
    BY DEF Rotation
  <2>4. \A s \in Slots : Rotation(old, i)[s] = IF s = i THEN old ELSE IF old <= s /\ s < i THEN s + 1
                                ELSE IF i < s /\ s <= old THEN s - 1 ELSE s
    BY DEF Rotation
  <2> HIDE DEF p
  <2>5. \A s \in Slots : Rotation(old, i)[s] =
                           IF s = i THEN p[i - 1] ELSE IF s = i - 1 THEN p[i] ELSE p[s]
    BY <1>0, <1>3, <2>1, <2>3, <2>4
  <2>6. Swap(p, i - 1, i) =
          [s \in Slots |-> IF s = i THEN p[i - 1] ELSE IF s = i - 1 THEN p[i] ELSE p[s]]
    <3> DEFINE j == i - 1
    <3>1. j \in Slots
      BY <2>1
    <3> HIDE DEF j
    <3>2. Swap(p, j, i) = [s \in Slots |-> IF s = i THEN p[j] ELSE IF s = j THEN p[i] ELSE p[s]]
      BY <2>2, <3>1, Swapped
    <3> QED
      BY <3>2 DEF j
  <2>7. Rotation(old, i) = Swap(p, i - 1, i)
    BY <2>2, <2>5, <2>6
  <2> QED
    BY <2>1, <2>7 DEF p
<1>4. ASSUME i < old PROVE i + 1 \in Slots /\ Rotation(old, i) = Swap(Rotation(old, i + 1), i + 1, i)
  <2>1. i + 1 \in Slots
    BY <1>0, <1>4
  <2> DEFINE p == Rotation(old, i + 1)
  <2>2. p \in [Slots -> Slots] /\ Rotation(old, i) \in [Slots -> Slots]
    BY <1>1, <2>1
  <2>3. \A s \in Slots : p[s] = IF s = i + 1 THEN old ELSE IF old <= s /\ s < i + 1 THEN s + 1
                                ELSE IF i + 1 < s /\ s <= old THEN s - 1 ELSE s
    BY DEF Rotation
  <2>4. \A s \in Slots : Rotation(old, i)[s] = IF s = i THEN old ELSE IF old <= s /\ s < i THEN s + 1
                                ELSE IF i < s /\ s <= old THEN s - 1 ELSE s
    BY DEF Rotation
  <2> HIDE DEF p
  <2>5. \A s \in Slots : Rotation(old, i)[s] =
                           IF s = i THEN p[i + 1] ELSE IF s = i + 1 THEN p[i] ELSE p[s]
    BY <1>0, <1>4, <2>1, <2>3, <2>4
  <2>6. Swap(p, i + 1, i) =
          [s \in Slots |-> IF s = i THEN p[i + 1] ELSE IF s = i + 1 THEN p[i] ELSE p[s]]
    <3> DEFINE j == i + 1
    <3>1. j \in Slots
      BY <2>1
    <3> HIDE DEF j
    <3>2. Swap(p, j, i) = [s \in Slots |-> IF s = i THEN p[j] ELSE IF s = j THEN p[i] ELSE p[s]]
      BY <2>2, <3>1, Swapped
    <3> QED
      BY <3>2 DEF j
  <2>7. Rotation(old, i) = Swap(p, i + 1, i)
    BY <2>2, <2>5, <2>6
  <2> QED
    BY <2>1, <2>7 DEF p
<1> QED
  BY <1>1, <1>2, <1>3, <1>4

(* switchChannel exchanges neighbours, or through slot 0: both rotate the slots between. *)
LEMMA PermutationRotates ==
  ASSUME inst \in Instances, NEW old \in Slots, NEW new \in Slots
  PROVE  Permutation(old, new) = Rotation(old, new)
<1> DEFINE id == [s \in Slots |-> s]
<1>0. /\ SimCount \in Nat /\ SimCount > 1 /\ Slots = 0 .. SimCount - 1
      /\ old \in Nat /\ new \in Nat /\ old < SimCount /\ new < SimCount
  BY Instance
<1>1. Rotation(old, old) = id
  BY RotationGrows
<1>2. CASE old = new
  <2>1. Permutation(old, new) = id
    BY <1>2 DEF Permutation
  <2> QED
    BY <1>1, <1>2, <2>1
<1>3. CASE old # new /\ SimCount < 3
  <2>1. Permutation(old, new) = Swap(Swap(id, 0, old), 0, new)
    BY <1>3 DEF Permutation
  <2>2. SimCount = 2 /\ 0 \in Slots /\ 1 \in Slots /\ id \in [Slots -> Slots] /\ id[0] = 0 /\ id[1] = 1
    BY <1>0, <1>3
  <2> HIDE DEF id
  <2>3. ASSUME NEW a \in Slots, NEW b \in Slots
        PROVE  /\ Swap(id, a, b) \in [Slots -> Slots]
               /\ \A s \in Slots : Swap(id, a, b)[s] =
                    IF s = b THEN id[a] ELSE IF s = a THEN id[b] ELSE id[s]
    <3>1. Swap(id, a, b) = [s \in Slots |-> IF s = b THEN id[a] ELSE IF s = a THEN id[b] ELSE id[s]]
      BY <2>2, Swapped
    <3> QED
      BY <2>2, <3>1
  <2> DEFINE q == Swap(id, 0, old)
  <2>4. q \in [Slots -> Slots] /\ q[old] = 0 /\ q[0] = id[old]
    BY <2>2, <2>3 DEF id
  <2> HIDE DEF q
  <2>5. Permutation(old, new) =
          [s \in Slots |-> IF s = new THEN q[0] ELSE IF s = 0 THEN q[new] ELSE q[s]]
    BY <2>1, <2>2, <2>4, Swapped DEF q
  <2>6. ASSUME NEW s \in Slots
        PROVE  (IF s = new THEN q[0] ELSE IF s = 0 THEN q[new] ELSE q[s]) =
               (IF s = new THEN old ELSE IF old <= s /\ s < new THEN s + 1
                ELSE IF new < s /\ s <= old THEN s - 1 ELSE s)
    BY <1>0, <1>3, <2>2, <2>3, <2>4, <2>6 DEF id, q
  <2> QED
    BY <2>5, <2>6 DEF Rotation
<1>4. CASE old < new /\ ~(SimCount < 3)
  <2> DEFINE Up(f) == f = [i \in Slots |-> IF i <= old THEN id ELSE Swap(f[i - 1], i - 1, i)]
             g == [i \in Slots |-> IF i <= old THEN id ELSE Rotation(old, i)]
  <2>1. Permutation(old, new) = (CHOOSE f : Up(f))[new]
    BY <1>0, <1>4 DEF Permutation
  <2>2. ASSUME NEW i \in Slots, ~(i <= old) PROVE g[i] = Swap(g[i - 1], i - 1, i)
    <3>1. i > old /\ (i - 1 > old \/ i - 1 = old)
      BY <1>0, <2>2
    <3>2. i - 1 \in Slots /\ g[i] = Swap(Rotation(old, i - 1), i - 1, i)
      BY <2>2, <3>1, RotationGrows
    <3>3. g[i - 1] = Rotation(old, i - 1)
      BY <1>0, <1>1, <3>1, <3>2
    <3> QED
      BY <3>2, <3>3
  <2>3. Up(g)
    <3> HIDE DEF g, id
    <3>1. \A i \in Slots : (i <= old => g[i] = id) /\ (~(i <= old) => g[i] = Swap(g[i - 1], i - 1, i))
      BY <2>2 DEF g
    <3>2. g = [i \in Slots |-> g[i]]
      BY DEF g
    <3>3. [i \in Slots |-> g[i]] = [i \in Slots |-> IF i <= old THEN id ELSE Swap(g[i - 1], i - 1, i)]
      BY <3>1
    <3> QED
      BY <3>2, <3>3
  <2>4. PICK f : Up(f) /\ Permutation(old, new) = f[new]
    BY <2>1, <2>3
  <2> DEFINE S == {i \in Nat : i \in Slots => f[i] = g[i]}
  <2>5. \A i \in Slots : i <= old => f[i] = g[i]
    BY <2>4
  <2>6. 0 \in S
    BY <1>0, <2>5
  <2>7. ASSUME NEW i \in Nat, i \in S, i + 1 \in Slots, ~(i + 1 <= old) PROVE f[i + 1] = g[i + 1]
    <3>1. i \in Slots /\ (i + 1) - 1 = i
      BY <1>0, <2>7
    <3>2. f[i] = g[i]
      BY <2>7, <3>1
    <3>3. f[i + 1] = Swap(f[i], i, i + 1)
      BY <2>4, <2>7, <3>1
    <3>4. g[i + 1] = Swap(g[i], i, i + 1)
      BY <2>2, <2>7, <3>1
    <3> QED
      BY <3>2, <3>3, <3>4
  <2>8. \A i \in S : i + 1 \in S
    BY <2>5, <2>7
  <2>9. S = Nat
    <3>1. S \in SUBSET Nat
      OBVIOUS
    <3> HIDE DEF S
    <3> QED
      BY <2>6, <2>8, <3>1, AllNumbers
  <2>10. g[new] = Rotation(old, new)
    BY <1>0, <1>4
  <2>11. new \in S
    BY <1>0, <2>9
  <2>12. f[new] = g[new]
    BY <2>11
  <2> QED
    BY <2>4, <2>10, <2>12
<1>5. CASE new < old /\ ~(SimCount < 3)
  <2> DEFINE Down(f) == f = [i \in Slots |-> IF i >= old THEN id ELSE Swap(f[i + 1], i + 1, i)]
             g == [i \in Slots |-> IF i >= old THEN id ELSE Rotation(old, i)]
  <2>1. Permutation(old, new) = (CHOOSE f : Down(f))[new]
    BY <1>0, <1>5 DEF Permutation
  <2>2. ASSUME NEW i \in Slots, ~(i >= old) PROVE g[i] = Swap(g[i + 1], i + 1, i)
    <3>1. i < old /\ (i + 1 < old \/ i + 1 = old)
      BY <1>0, <2>2
    <3>2. i + 1 \in Slots /\ g[i] = Swap(Rotation(old, i + 1), i + 1, i)
      BY <2>2, <3>1, RotationGrows
    <3>3. g[i + 1] = Rotation(old, i + 1)
      BY <1>0, <1>1, <3>1, <3>2
    <3> QED
      BY <3>2, <3>3
  <2>3. Down(g)
    <3> HIDE DEF g, id
    <3>1. \A i \in Slots : (i >= old => g[i] = id) /\ (~(i >= old) => g[i] = Swap(g[i + 1], i + 1, i))
      BY <2>2 DEF g
    <3>2. g = [i \in Slots |-> g[i]]
      BY DEF g
    <3>3. [i \in Slots |-> g[i]] = [i \in Slots |-> IF i >= old THEN id ELSE Swap(g[i + 1], i + 1, i)]
      BY <3>1
    <3> QED
      BY <3>2, <3>3
  <2>4. PICK f : Down(f) /\ Permutation(old, new) = f[new]
    BY <2>1, <2>3
  <2> DEFINE S == {k \in Nat : old - k \in Slots => f[old - k] = g[old - k]}
  <2>5. 0 \in S
    BY <1>0, <2>4
  <2>6. ASSUME NEW k \in Nat, k \in S, old - (k + 1) \in Slots
        PROVE  f[old - (k + 1)] = g[old - (k + 1)]
    <3> DEFINE i == old - (k + 1)
    <3>1. i \in Slots /\ i + 1 = old - k /\ ~(i >= old) /\ i + 1 \in Slots
      BY <1>0, <2>6
    <3>2. f[i + 1] = g[i + 1]
      BY <2>6, <3>1
    <3> HIDE DEF i
    <3>3. f[i] = Swap(f[i + 1], i + 1, i)
      BY <2>4, <3>1
    <3>4. g[i] = Swap(g[i + 1], i + 1, i)
      BY <2>2, <3>1
    <3>5. f[i] = g[i]
      BY <3>2, <3>3, <3>4
    <3> QED
      BY <3>5 DEF i
  <2>7. \A k \in S : k + 1 \in S
    BY <2>6
  <2>8. S = Nat
    <3>1. S \in SUBSET Nat
      OBVIOUS
    <3> HIDE DEF S
    <3> QED
      BY <2>5, <2>7, <3>1, AllNumbers
  <2>9. old - new \in Nat /\ old - (old - new) = new
    BY <1>0, <1>5
  <2>10. g[new] = Rotation(old, new)
    BY <1>0, <1>5
  <2>11. old - new \in S
    <3> HIDE DEF S
    <3> QED
      BY <2>8, <2>9
  <2>12. f[new] = g[new]
    BY <2>9, <2>11
  <2> QED
    BY <2>4, <2>10, <2>12
<1> QED
  BY <1>0, <1>2, <1>3, <1>4, <1>5

(* What depends on the instance alone stays as it is. *)
LEMMA Same ==
  ASSUME UNCHANGED inst
  PROVE  /\ SimCount' = SimCount /\ NoReset' = NoReset /\ OwnSlot' = OwnSlot /\ Slots' = Slots
         /\ Classes' = Classes /\ Channels' = Channels /\ own' = own /\ ClassOrder' = ClassOrder
         /\ Affected' = Affected /\ UrcChannels' = UrcChannels
BY DEF SimCount, NoReset, OwnSlot, ClassOrder, Slots, Classes, Channels, own, Exchanged, Affected,
       UrcChannels

(* A channel is a class and a slot. *)
LEMMA ChannelIs ==
  ASSUME inst \in Instances, NEW c \in Channels
  PROVE  /\ c = << c[1], c[2] >> /\ c[1] \in Classes /\ c[2] \in Slots
         /\ c[2] \in Nat /\ c[2] < SimCount
         /\ \A s \in Slots : << c[1], s >> \in Channels
<1>1. c[1] \in Classes /\ c[2] \in Slots /\ c = << c[1], c[2] >>
  BY DEF Channels
<1>2. c[2] \in Nat /\ c[2] < SimCount
  BY <1>1, Instance
<1>3. \A s \in Slots : << c[1], s >> \in Channels
  BY <1>1 DEF Channels
<1> QED
  BY <1>1, <1>2, <1>3

(* The channels the switch locks: not its own, and with NoReset not those of the URC handler. *)
LEMMA AffectedIs ==
  ASSUME inst \in Instances
  PROVE  /\ Affected \subseteq Channels
         /\ \A c \in Channels :
              c \in Affected <=> c # own /\ (NoReset => c[1] \notin {"urc", "vsim"})
<1>1. "urc" \in Classes /\ own[1] = "own" /\ NoReset \in BOOLEAN
  BY Instance DEF own
<1>2. ASSUME NEW c \in Channels
      PROVE  c \in Affected <=> c # own /\ (NoReset => c[1] \notin {"urc", "vsim"})
  <2>1. c = << c[1], c[2] >> /\ c[1] \in Classes /\ c[2] \in Slots
    BY DEF Channels
  <2>2. c \in Exchanged \X Slots <=> c[1] \in Exchanged
    BY <2>1
  <2>3. c \in {"urc"} \X Slots <=> c[1] = "urc"
    BY <2>1
  <2>4. c[1] \in Exchanged <=> c[1] # "urc" /\ (NoReset => c[1] # "vsim")
    BY <2>1 DEF Exchanged
  <2> QED
    BY <1>1, <2>2, <2>3, <2>4 DEF Affected
<1>3. Affected \subseteq Channels
  BY <1>1 DEF Affected, Exchanged, Channels
<1> QED
  BY <1>2, <1>3

(* At most one channel comes before all the others that are still to lock. *)
LEMMA FirstIsUnique ==
  ASSUME inst \in Instances, todo \subseteq Channels, NEW c, NEW d, FirstToLock(c), FirstToLock(d)
  PROVE  c = d
<1> SUFFICES ASSUME c # d PROVE FALSE
  OBVIOUS
<1>1. LockedBefore(c, d) /\ LockedBefore(d, c) /\ c \in Channels /\ d \in Channels
  BY DEF FirstToLock
<1>2. \A class \in Classes : Number(class) \in Nat
  <2> SUFFICES ASSUME NEW class \in Classes PROVE Number(class) \in Nat
    OBVIOUS
  <2>1. \E i \in DOMAIN ClassOrder : ClassOrder[i] = class
    BY DEF Classes, Range
  <2>2. Number(class) \in DOMAIN ClassOrder
    BY <2>1 DEF Number
  <2> QED
    BY <2>2, Instance
<1>3. c[2] \in Nat /\ d[2] \in Nat /\ Number(c[1]) \in Nat /\ Number(d[1]) \in Nat
  BY <1>1, <1>2, ChannelIs
<1>4. ~(Before(c, d) /\ Before(d, c))
  BY <1>3 DEF Before
<1>5. LockRound(c) \in Nat /\ LockRound(d) \in Nat
  BY DEF LockRound
<1>6. ~(LockRound(c) < LockRound(d)) \/ ~(LockRound(d) < LockRound(c))
  BY <1>5
<1>7. ~(LockRound(c) < LockRound(d) /\ LockRound(d) = LockRound(c))
  BY <1>5
<1>8. ~(LockRound(d) < LockRound(c) /\ LockRound(d) = LockRound(c))
  BY <1>5
<1> QED
  BY <1>1, <1>4, <1>6, <1>7, <1>8 DEF LockedBefore

(* The slots below a slot, without the major one, are as many as the closed form says. *)
LEMMA ProtocolIsStack ==
  ASSUME inst \in Instances, NEW m \in Slots, NEW s \in Slots
  PROVE  Protocol(m, s) = Stack(m, s)
<1> DEFINE T == {t \in Slots \ {m} : t < s}
<1>0. m \in Nat /\ s \in Nat /\ s < SimCount /\ SimCount \in Nat /\ Slots = 0 .. SimCount - 1
  BY Instance
<1>1. CASE s = m
  BY <1>1 DEF Protocol, Stack
<1>2. CASE s < m
  <2>1. T = 0 .. s - 1
    BY <1>0, <1>2
  <2>2. Cardinality(0 .. s - 1) = s
    BY <1>0, FS_Interval
  <2> QED
    BY <1>0, <1>2, <2>1, <2>2 DEF Protocol, Stack
<1>3. CASE s > m
  <2>1. T = (0 .. s - 1) \ {m} /\ m \in 0 .. s - 1
    BY <1>0, <1>3
  <2>2. Cardinality(0 .. s - 1) = s /\ IsFiniteSet(0 .. s - 1)
    BY <1>0, FS_Interval
  <2>3. Cardinality(T) = s - 1
    BY <2>1, <2>2, FS_RemoveElement
  <2> QED
    BY <1>0, <1>3, <2>3 DEF Protocol, Stack
<1> QED
  BY <1>0, <1>1, <1>2, <1>3

(* The rotation is a bijection of the slots, and takes the stacks to where the new major slot *)
(* wants them.                                                                               *)
LEMMA RotationTurns ==
  ASSUME inst \in Instances, NEW old \in Slots, NEW new \in Slots, NEW s \in Slots
  PROVE  /\ Rotation(old, new)[s] \in Slots
         /\ Rotation(new, old)[Rotation(old, new)[s]] = s
         /\ Stack(old, Rotation(old, new)[s]) = Stack(new, s)
<1>0. old \in Nat /\ new \in Nat /\ s \in Nat /\ old < SimCount /\ new < SimCount /\ s < SimCount
      /\ SimCount \in Nat /\ Slots = 0 .. SimCount - 1
  BY Instance
<1> DEFINE r == IF s = new THEN old ELSE IF old <= s /\ s < new THEN s + 1
                ELSE IF new < s /\ s <= old THEN s - 1 ELSE s
<1>1. Rotation(old, new)[s] = r
  BY DEF Rotation
<1>2. r \in Slots
  BY <1>0
<1>3. Rotation(new, old)[r] = IF r = old THEN new ELSE IF new <= r /\ r < old THEN r + 1
                              ELSE IF old < r /\ r <= new THEN r - 1 ELSE r
  BY <1>2 DEF Rotation
<1>4. Rotation(new, old)[r] = s
  BY <1>0, <1>3
<1>5. Stack(old, r) = Stack(new, s)
  BY <1>0 DEF Stack
<1> QED
  BY <1>1, <1>2, <1>4, <1>5

\* Channels, readers and caught ones after the exchange
Turned(classes, old, new) ==
  /\ fd' \in [Channels -> Channels] /\ ctxOf' \in [Channels -> Channels] /\ Paired'
  /\ \A c \in Channels : c[1] \notin classes => fd'[c] = fd[c] /\ ctxOf'[c] = ctxOf[c]
  /\ \A c \in Channels : c[1] \in classes =>
       /\ << c[1], Rotation(old, new)[c[2]] >> \in Channels
       /\ fd'[c] = fd[<< c[1], Rotation(old, new)[c[2]] >>]
  /\ caught' = caught \cup {r \in Channels : /\ place[r] \in {"taken", "processed"}
                                            /\ ctxOf'[r] # ctxOf[r]}

(* switchChannel: the channels of the classes get the descriptors and readers of the slots the *)
(* rotation names, the pairing of descriptors and contexts stays, and only readers of the      *)
(* classes can be caught with a mutex.                                                         *)
LEMMA Exchange ==
  ASSUME inst \in Instances, Paired, fd \in [Channels -> Channels], ctxOf \in [Channels -> Channels],
         NEW classes, NEW old \in Slots, NEW new \in Slots,
         SwitchChannels(classes, old, new), UNCHANGED inst
  PROVE  Turned(classes, old, new)
<1> DEFINE p == Rotation(old, new)
           q == Rotation(new, old)
           from(c) == IF c[1] \in classes THEN << c[1], p[c[2]] >> ELSE c
           to(c)   == IF c[1] \in classes THEN << c[1], q[c[2]] >> ELSE c
<1>1. /\ fd' = [c \in Channels |-> fd[from(c)]]
      /\ ctxOf' = [r \in Channels |-> CHOOSE c \in Channels : from(c) = ctxOf[r]]
      /\ caught' = caught \cup {r \in Channels : /\ place[r] \in {"taken", "processed"}
                                                /\ ctxOf'[r] # ctxOf[r]}
  BY PermutationRotates DEF SwitchChannels
<1>2. \A s \in Slots : p[s] \in Slots /\ q[s] \in Slots /\ q[p[s]] = s /\ p[q[s]] = s
  BY RotationTurns
<1> HIDE DEF p, q
<1>3. ASSUME NEW c \in Channels
      PROVE  /\ from(c) \in Channels /\ from(c)[1] = c[1] /\ to(c) \in Channels /\ to(c)[1] = c[1]
             /\ to(from(c)) = c /\ from(to(c)) = c
  <2>1. c = << c[1], c[2] >> /\ c[1] \in Classes /\ c[2] \in Slots
    BY DEF Channels
  <2>2. CASE c[1] \in classes
    <3>1. from(c) = << c[1], p[c[2]] >> /\ to(c) = << c[1], q[c[2]] >>
      BY <2>2
    <3>2. from(c) \in Channels /\ to(c) \in Channels
      BY <1>2, <2>1, <3>1 DEF Channels
    <3>3. from(c)[1] = c[1] /\ from(c)[2] = p[c[2]] /\ to(c)[1] = c[1] /\ to(c)[2] = q[c[2]]
      BY <3>1
    <3>4. to(from(c)) = << c[1], q[p[c[2]]] >> /\ from(to(c)) = << c[1], p[q[c[2]]] >>
      BY <2>2, <3>3
    <3> QED
      BY <1>2, <2>1, <3>2, <3>3, <3>4
  <2>3. CASE c[1] \notin classes
    BY <2>3
  <2> QED
    BY <2>2, <2>3
<1>4. \A c \in Channels : c[1] \notin classes => from(c) = c
  OBVIOUS
<1>5. \A c \in Channels : c[1] \in classes => from(c) = << c[1], p[c[2]] >>
  OBVIOUS
<1> HIDE DEF from, to
<1>6. ASSUME NEW r \in Channels PROVE ctxOf'[r] = to(ctxOf[r])
  <2>1. ctxOf[r] \in Channels
    OBVIOUS
  <2>2. to(ctxOf[r]) \in Channels /\ from(to(ctxOf[r])) = ctxOf[r]
    BY <1>3, <2>1
  <2>3. \A c \in Channels : from(c) = ctxOf[r] => c = to(ctxOf[r])
    BY <1>3
  <2> QED
    BY <1>1, <2>2, <2>3
<1>7. fd' \in [Channels -> Channels]
  BY <1>1, <1>3
<1>8. ctxOf' \in [Channels -> Channels]
  <2>1. \A r \in Channels : to(ctxOf[r]) \in Channels
    BY <1>3
  <2>2. ctxOf' = [r \in Channels |-> to(ctxOf[r])]
    BY <1>1, <1>6
  <2> QED
    BY <2>1, <2>2
<1>9. Channels' = Channels
  BY Same
<1>10. ASSUME NEW c \in Channels
       PROVE  /\ ctxOf'[fd'[c]] = c /\ fd'[ctxOf'[c]] = c
              /\ fd'[c][1] = c[1] /\ ctxOf'[c][1] = c[1]
  <2>1. from(c) \in Channels /\ from(c)[1] = c[1] /\ to(from(c)) = c
    BY <1>3
  <2>2. fd'[c] = fd[from(c)] /\ fd[from(c)] \in Channels /\ ctxOf[fd[from(c)]] = from(c)
        /\ fd[from(c)][1] = from(c)[1]
    BY <1>1, <2>1 DEF Paired
  <2>3. ctxOf'[fd'[c]] = c
    BY <1>6, <2>1, <2>2
  <2>4. ctxOf'[c] = to(ctxOf[c]) /\ ctxOf[c] \in Channels /\ fd[ctxOf[c]] = c /\ ctxOf[c][1] = c[1]
    BY <1>6 DEF Paired
  <2>5. to(ctxOf[c]) \in Channels /\ to(ctxOf[c])[1] = c[1] /\ from(to(ctxOf[c])) = ctxOf[c]
    BY <1>3, <2>4
  <2>6. fd'[ctxOf'[c]] = c
    BY <1>1, <2>4, <2>5
  <2> QED
    BY <2>1, <2>2, <2>3, <2>4, <2>5, <2>6
<1>11. Paired'
  BY <1>9, <1>10 DEF Paired
<1>12. ASSUME NEW c \in Channels, c[1] \notin classes PROVE fd'[c] = fd[c] /\ ctxOf'[c] = ctxOf[c]
  <2>1. from(c) = c /\ ctxOf[c] \in Channels /\ ctxOf[c][1] = c[1]
    BY <1>4, <1>12 DEF Paired
  <2>2. to(ctxOf[c]) = ctxOf[c]
    BY <1>12, <2>1 DEF to
  <2> QED
    BY <1>1, <1>6, <2>1, <2>2
<1>13. ASSUME NEW c \in Channels, c[1] \in classes
       PROVE  << c[1], p[c[2]] >> \in Channels /\ fd'[c] = fd[<< c[1], p[c[2]] >>]
  BY <1>1, <1>3, <1>5, <1>13
<1> QED
  BY <1>1, <1>7, <1>8, <1>11, <1>12, <1>13 DEF p, Turned

(* After the exchange the channels of the classes are arranged by the new major slot. *)
LEMMA Rearranged ==
  ASSUME inst \in Instances, Paired, fd \in [Channels -> Channels], ctxOf \in [Channels -> Channels],
         NEW classes, NEW old \in Slots, NEW new \in Slots,
         SwitchChannels(classes, old, new), UNCHANGED inst,
         NEW c \in Channels, c[1] \in classes,
         \A d \in Channels : d[1] = c[1] => fd[d] = << d[1], Stack(old, d[2]) >>
  PROVE  fd'[c] = << c[1], Stack(new, c[2]) >>
<1>1. c[2] \in Slots
  BY ChannelIs
<1> DEFINE r == Rotation(old, new)[c[2]]
<1>2. << c[1], r >> \in Channels /\ fd'[c] = fd[<< c[1], r >>]
  <2>1. Turned(classes, old, new)
    BY Exchange
  <2> QED
    BY <2>1 DEF Turned
<1>3. Stack(old, r) = Stack(new, c[2])
  BY <1>1, RotationTurns
<1> HIDE DEF r
<1>4. fd[<< c[1], r >>] = << c[1], Stack(old, r) >>
  BY <1>2
<1> QED
  BY <1>2, <1>3, <1>4
-----------------------------------------------------------------------------
(* Types                                                                   *)

(* Types under the steps of a reader. *)
LEMMA ReaderTypes ==
  ASSUME Types, UNCHANGED inst, NEW r \in Channels, Reader(r)
  PROVE  Types'
<1> USE Same DEF Types, TypeOK, readers, mutexes, modem, urcVars, counters
<1>1. CASE ReadLine(r)
  BY <1>1 DEF ReadLine
<1>2. CASE TakeReaderMutex(r)
  BY <1>2 DEF TakeReaderMutex
<1>3. CASE ProcessLine(r)
  <2>1. line[r][2] \in Slots /\ line[r][1] \in {"none", "ok", "error", "map", "urc"}
    OBVIOUS
  <2>2. mapUrcs' \in Seq(Slots)
    BY <1>3, <2>1 DEF ProcessLine
  <2>3. ctxOf[r] \in Channels
    OBVIOUS
  <2> HIDE DEF Types, TypeOK
  <2>4. /\ waiting' = waiting \/ waiting' = [waiting EXCEPT ![ctxOf[r]] = "none"]
        /\ \/ result' = result
           \/ /\ line[r][1] \in {"ok", "error"}
              /\ result' = [result EXCEPT ![ctxOf[r]] = IF waiting[ctxOf[r]] = "none" THEN @ ELSE line[r][1]]
        /\ misrouted' = misrouted \/ misrouted' = (misrouted \/ waiting[ctxOf[r]] = "none")
    BY <1>3 DEF ProcessLine
  <2>7. UNCHANGED << fd, ctxOf, mutexes, line, modem, sender, sw, todo, urcVars, majorSlot, target,
                     urcFlag, counters, caught >>
    BY <1>3 DEF ProcessLine
  <2> USE DEF Types, TypeOK
  <2>5. waiting' \in [Channels -> {"none", "plain", "map"}]
    BY <2>3, <2>4
  <2>8. misrouted' \in BOOLEAN
    BY <2>4
  <2>9. result' \in [Channels -> {"none", "ok", "error"}]
    <3>1. result[ctxOf[r]] \in {"none", "ok", "error"}
      BY <2>3
    <3> HIDE DEF Types, TypeOK
    <3>2. \/ result' = result
          \/ \E v \in {"none", "ok", "error"} : result' = [result EXCEPT ![ctxOf[r]] = v]
      BY <2>4, <3>1
    <3> USE DEF Types, TypeOK
    <3> QED
      BY <3>2
  <2>6. place' \in [Channels -> {"idle", "have", "taken", "processed", "waitFlag"}]
    BY <1>3 DEF ProcessLine
  <2> QED
    BY <2>2, <2>5, <2>6, <2>7, <2>8, <2>9
<1>4. CASE ReleaseReaderMutex(r)
  BY <1>4 DEF ReleaseReaderMutex
<1>5. CASE WaitFlag(r)
  BY <1>5 DEF WaitFlag
<1> QED
  BY <1>1, <1>2, <1>3, <1>4, <1>5 DEF Reader

(* Types under the steps of the modem. *)
LEMMA ModemTypes ==
  ASSUME Types, UNCHANGED inst, NEW f \in Channels, ModemAnswers(f) \/ Unsolicited(f)
  PROVE  Types'
<1> USE Same DEF Types, TypeOK, readers, mutexes, modem, urcVars, counters
<1> DEFINE Lines == Seq({"ok", "error", "map", "urc"} \X Slots)
<1>1. CASE ModemAnswers(f)
  <2>1. PICK answer \in {"ok", "error"} :
          /\ errors' = IF answer = "error" THEN errors + 1 ELSE errors
          /\ mdMajor' = IF owed[f] = "map" /\ answer = "ok" THEN target ELSE mdMajor
          /\ lines' = [g \in Channels |->
               IF g = f THEN Append(lines[g], << answer, 0 >>)
               ELSE IF g[1] = "urc" /\ NoReset /\ owed[f] = "map" /\ answer = "ok"
                    THEN Append(lines[g], << "map", target >>) ELSE lines[g]]
    BY <1>1 DEF ModemAnswers
  <2>2. 0 \in Slots /\ target \in Slots
    BY Instance
  <2>3. << answer, 0 >> \in {"ok", "error", "map", "urc"} \X Slots
        /\ << "map", target >> \in {"ok", "error", "map", "urc"} \X Slots
    BY <2>2
  <2>4. \A g \in Channels : lines[g] \in Lines
    OBVIOUS
  <2>5. \A g \in Channels : Append(lines[g], << answer, 0 >>) \in Lines
                            /\ Append(lines[g], << "map", target >>) \in Lines
    BY <2>3, <2>4
  <2> HIDE DEF Lines
  <2>6. DOMAIN lines' = Channels /\ \A g \in Channels : lines'[g] \in Lines
    BY <2>1, <2>4, <2>5
  <2>7. errors' \in Nat /\ mdMajor' \in Slots
    BY <2>1
  <2>8. owed' \in [Channels -> {"none", "plain", "map"}]
    BY <1>1 DEF ModemAnswers
  <2>9. UNCHANGED << fd, ctxOf, mutexes, readers, waiting, result, sender, sw, todo, urcVars, majorSlot,
                     target, urcFlag, mapUrcs, switches, commands, unsolicited, timeouts, caught,
                     misrouted >>
    BY <1>1 DEF ModemAnswers
  <2> QED
    BY <2>6, <2>7, <2>8, <2>9 DEF Lines
<1>2. CASE Unsolicited(f)
  <2>1. << "urc", 0 >> \in {"ok", "error", "map", "urc"} \X Slots
    <3>1. 0 \in Slots
      BY Instance
    <3> QED
      BY <3>1
  <2>2. Append(lines[f], << "urc", 0 >>) \in Lines
    BY <2>1
  <2>3. lines' = [lines EXCEPT ![f] = Append(@, << "urc", 0 >>)]
    BY <1>2 DEF Unsolicited
  <2>4. DOMAIN lines' = Channels /\ \A g \in Channels : lines'[g] \in Lines
    BY <2>2, <2>3
  <2>5. /\ unsolicited' = unsolicited + 1
        /\ UNCHANGED << fd, ctxOf, mutexes, readers, owed, mdMajor, waiting, result, sender, sw, todo,
                        urcVars, majorSlot, target, urcFlag, mapUrcs, switches, commands, errors,
                        timeouts, caught, misrouted >>
    BY <1>2 DEF Unsolicited
  <2>6. unsolicited' \in Nat
    BY <2>5
  <2> QED
    BY <2>4, <2>5, <2>6 DEF Lines
<1> QED
  BY <1>1, <1>2

(* Types under the steps of an ordinary sender. *)
LEMMA SenderTypes ==
  ASSUME Types, UNCHANGED inst, NEW c \in Channels, StartHandler(c) \/ EndHandler(c) \/ Resume(c)
  PROVE  Types'
<1> USE Same DEF Types, TypeOK, readers, mutexes, modem, urcVars, counters
<1>1. CASE StartHandler(c)
  <2>1. fd[c] \in Channels
    OBVIOUS
  <2> QED
    BY <1>1, <2>1 DEF StartHandler, Send
<1>2. CASE EndHandler(c)
  BY <1>2 DEF EndHandler
<1>3. CASE Resume(c)
  BY <1>3 DEF Resume
<1> QED
  BY <1>1, <1>2, <1>3

(* An exchange of channels keeps the types. *)
LEMMA TurnedTypes ==
  ASSUME Types, UNCHANGED inst, NEW classes, NEW old, NEW new, Turned(classes, old, new)
  PROVE  /\ IsInjective(fd') /\ fd' \in [Channels -> Channels]
         /\ IsInjective(ctxOf') /\ ctxOf' \in [Channels -> Channels]
         /\ caught' \subseteq Channels
<1>1. fd' \in [Channels -> Channels] /\ ctxOf' \in [Channels -> Channels] /\ Paired'
      /\ caught' \subseteq Channels
  BY DEF Turned, Types, TypeOK
<1>2. \A c \in Channels : ctxOf'[fd'[c]] = c /\ fd'[ctxOf'[c]] = c
  BY <1>1, Same DEF Paired
<1>3. IsInjective(fd') /\ IsInjective(ctxOf')
  BY <1>1, <1>2 DEF IsInjective
<1> QED
  BY <1>1, <1>3

(* Types under the steps of the switch. *)
LEMMA SwitchTypes ==
  ASSUME Types, Paired, UNCHANGED inst,
         \/ \E new \in Slots : StartSwitch(new)
         \/ Switching \/ MapTimesOut \/ SimInitFails
  PROVE  Types'
<1> USE Same DEF Types, TypeOK, readers, mutexes, modem, urcVars, counters, swRest
<1>0. inst \in Instances /\ own \in Channels /\ majorSlot \in Slots /\ target \in Slots
      /\ fd \in [Channels -> Channels] /\ ctxOf \in [Channels -> Channels]
      /\ Affected \subseteq Channels
  BY Instance, AffectedIs
<1>1. ASSUME NEW new \in Slots, StartSwitch(new) PROVE Types'
  BY <1>0, <1>1 DEF StartSwitch
<1>2. CASE LockChannels
  <2> HIDE DEF Types, TypeOK
  <2>1. PICK c \in todo :
          \/ NeedWait(c) /\ sw' = "restart" /\ UNCHANGED todo
          \/ LockRestart(c) /\ sw' = "reader" /\ UNCHANGED todo
          \/ LockReader(c) /\ sw' = "need" /\ todo' = todo \ {c}
    BY <1>2 DEF LockChannels
  <2>2. UNCHANGED << fd, ctxOf, swRest, sender, urcFlag, counters, caught, misrouted >>
    BY <1>2 DEF LockChannels
  <2> USE DEF Types, TypeOK
  <2>3. c \in Channels
    BY <1>0
  <2>4. CASE NeedWait(c) /\ sw' = "restart" /\ UNCHANGED todo
    BY <2>2, <2>3, <2>4 DEF NeedWait
  <2>5. CASE LockRestart(c) /\ sw' = "reader" /\ UNCHANGED todo
    BY <2>2, <2>3, <2>5 DEF LockRestart
  <2>6. CASE LockReader(c) /\ sw' = "need" /\ todo' = todo \ {c}
    BY <2>2, <2>3, <2>6 DEF LockReader
  <2> QED
    BY <2>1, <2>4, <2>5, <2>6
<1>3. CASE Locked
  <2>1. CASE NoReset
    BY <1>3, <2>1 DEF Locked
  <2>2. CASE ~NoReset
    <3>1. Turned({"urc"}, majorSlot, target)
      BY <1>0, <1>3, <2>2, Exchange DEF Locked
    <3> QED
      BY <1>3, <2>2, <3>1, TurnedTypes DEF Locked
  <2> QED
    BY <2>1, <2>2
<1>4. CASE SendMap
  <2>1. fd[own] \in Channels
    BY <1>0
  <2> QED
    BY <1>0, <1>4, <2>1 DEF SendMap, Send
<1>5. CASE MapAnswered
  BY <1>5 DEF MapAnswered
<1>6. CASE MapTimesOut
  <2> HIDE DEF Types, TypeOK
  <2>1. /\ timeouts' = timeouts + 1 /\ sw' = "waitUrc"
        /\ waiting' = [waiting EXCEPT ![own] = "none"]
        /\ UNCHANGED << fd, ctxOf, mutexes, readers, modem, result, urcVars, majorSlot, target, mapUrcs,
                        sender, todo, urcFlag, switches, commands, unsolicited, errors, caught,
                        misrouted >>
    BY <1>6 DEF MapTimesOut
  <2> USE DEF Types, TypeOK
  <2>2. timeouts' \in Nat
    BY <2>1
  <2>3. waiting' \in [Channels -> {"none", "plain", "map"}]
    BY <2>1
  <2> QED
    BY <2>1, <2>2, <2>3
<1>7. CASE SwitchAll
  <2>1. Turned(Exchanged, majorSlot, target)
    BY <1>0, <1>7, Exchange DEF SwitchAll
  <2> QED
    BY <1>0, <1>7, <2>1, TurnedTypes DEF SwitchAll
<1>8. CASE SimInitFails
  <2>1. restartMutex' \in [Channels -> {"free", "sender", "switch"}]
    BY <1>8 DEF SimInitFails
  <2>2. majorSlot' = target /\ sw' = "gaveUp"
        /\ UNCHANGED << fd, ctxOf, needWait, readerMutex, readers, modem, waiting, result, urcVars,
                        target, mapUrcs, sender, todo, urcFlag, counters, caught, misrouted >>
    BY <1>8 DEF SimInitFails
  <2> QED
    BY <2>1, <2>2
<1>9. CASE UnlockChannels
  BY <1>0, <1>9 DEF UnlockChannels, Unlock
<1>10. CASE EndSwitch
  BY <1>10 DEF EndSwitch
<1> QED
  BY <1>1, <1>2, <1>3, <1>4, <1>5, <1>6, <1>7, <1>8, <1>9, <1>10 DEF Switching

(* The channels of a class in the order of their slots. *)
LEMMA Ordered ==
  ASSUME inst \in Instances, NEW class \in Classes, NEW i \in 1 .. SimCount
  PROVE  OfClass(class)[i] = << class, i - 1 >> /\ << class, i - 1 >> \in Channels
<1>1. i - 1 \in Slots
  BY Instance
<1> QED
  BY <1>1 DEF OfClass, Channels

(* Types under the steps of the URC handler. *)
LEMMA UrcTypes ==
  ASSUME Types, Paired, MutexesHeld, UNCHANGED inst, SimSwitchUrc
  PROVE  Types'
<1> USE Same DEF Types, TypeOK, readers, mutexes, modem, urcVars, counters, urcRest, urcSlots
<1>0. inst \in Instances /\ urcOld \in Slots /\ urcNew \in Slots /\ "urc" \in Classes
      /\ fd \in [Channels -> Channels] /\ ctxOf \in [Channels -> Channels]
      /\ SimCount \in Nat /\ SimCount > 1
  BY Instance
<1>00. uk \in 1 .. SimCount + 1 /\ (uk <= SimCount => uk \in 1 .. SimCount /\ uk + 1 \in 1 .. SimCount + 1)
       /\ 1 \in 1 .. SimCount + 1
  BY <1>0
<1>1. CASE CheckIfSwitch
  <2>1. Head(mapUrcs) \in Slots /\ Tail(mapUrcs) \in Seq(Slots)
    BY <1>1 DEF CheckIfSwitch
  <2>2. s_urc_count' \in 0 .. SimCount - 1
    BY <1>0, <1>1 DEF CheckIfSwitch
  <2>3. urcAt' \in {urcAt, "lockReaders"}
    BY <1>1 DEF CheckIfSwitch
  <2> QED
    BY <1>0, <1>00, <1>1, <2>1, <2>2, <2>3 DEF CheckIfSwitch
<1>2. CASE LockReaders
  <2>1. OfClass("urc")[uk] \in Channels
    BY <1>0, <1>00, <1>2, Ordered DEF LockReaders
  <2> QED
    BY <1>00, <1>2, <2>1 DEF LockReaders, LockReader
<1>3. CASE SwitchUrc
  <2>1. Turned({"urc"}, urcOld, urcNew)
    BY <1>0, <1>3, Exchange DEF SwitchUrc
  <2> QED
    BY <1>00, <1>3, <2>1, TurnedTypes DEF SwitchUrc
<1>4. CASE LockVsim
  <2>1. "vsim" \in Classes
    BY <1>4 DEF LockVsim, MutexesHeld, Locking
  <2>2. OfClass("vsim")[uk] \in Channels
    BY <1>0, <1>00, <1>4, <2>1, Ordered DEF LockVsim
  <2> DEFINE c == OfClass("vsim")[uk]
  <2> HIDE DEF Types, TypeOK
  <2>3. /\ uk <= SimCount
        /\ \/ NeedWait(c) /\ urcAt' = "restart" /\ uk' = uk
           \/ LockRestart(c) /\ urcAt' = "reader" /\ uk' = uk
           \/ LockReader(c) /\ urcAt' = "need" /\ uk' = uk + 1
    BY <1>4 DEF LockVsim
  <2>4. UNCHANGED << fd, ctxOf, urcRest, urcSlots, sender, s_urc_count, urcFlag, mapUrcs, caught >>
    BY <1>4 DEF LockVsim
  <2>5. c \in Channels
    BY <2>2
  <2> HIDE DEF c
  <2> USE DEF Types, TypeOK
  <2>6. CASE NeedWait(c) /\ urcAt' = "restart" /\ uk' = uk
    BY <2>4, <2>5, <2>6 DEF NeedWait
  <2>7. CASE LockRestart(c) /\ urcAt' = "reader" /\ uk' = uk
    BY <2>4, <2>5, <2>7 DEF LockRestart
  <2>8. CASE LockReader(c) /\ urcAt' = "need" /\ uk' = uk + 1
    BY <1>00, <2>3, <2>4, <2>5, <2>8 DEF LockReader
  <2> QED
    BY <2>3, <2>6, <2>7, <2>8
<1>5. CASE SwitchVsim
  <2>1. Turned({"vsim"}, urcOld, urcNew)
    BY <1>0, <1>5, Exchange DEF SwitchVsim
  <2> QED
    BY <1>00, <1>5, <2>1, TurnedTypes DEF SwitchVsim
<1>6. CASE UnlockVsim
  <2>1. "vsim" \in Classes
    BY <1>6 DEF UnlockVsim, MutexesHeld
  <2>2. uk <= SimCount => OfClass("vsim")[uk] \in Channels
    BY <1>0, <1>00, <2>1, Ordered
  <2>3. CASE uk <= SimCount
    <3> DEFINE c == OfClass("vsim")[uk]
    <3>1. c \in Channels
      BY <2>2, <2>3
    <3> HIDE DEF Types, TypeOK
    <3>2. Unlock(c) /\ uk' = uk + 1 /\ UNCHANGED urcAt
      BY <1>6, <2>3 DEF UnlockVsim
    <3>3. UNCHANGED << fd, ctxOf, urcRest, urcSlots, s_urc_count, urcFlag, mapUrcs, caught >>
      BY <1>6 DEF UnlockVsim
    <3> HIDE DEF c
    <3> USE DEF Types, TypeOK
    <3>4. sender' \in [Channels -> {"idle", "handling", "condition", "signalled"}]
      BY <3>2 DEF Unlock
    <3> QED
      BY <1>00, <2>3, <3>1, <3>2, <3>3, <3>4 DEF Unlock
  <2>4. CASE ~(uk <= SimCount)
    BY <1>00, <1>6, <2>4 DEF UnlockVsim
  <2> QED
    BY <2>3, <2>4
<1>7. CASE UnlockReaders
  <2>1. uk <= SimCount => OfClass("urc")[uk] \in Channels
    BY <1>0, <1>00, Ordered
  <2>2. CASE uk <= SimCount
    <3> HIDE DEF Types, TypeOK
    <3>1. /\ readerMutex' = [readerMutex EXCEPT ![OfClass("urc")[uk]] = "free"]
          /\ uk' = uk + 1 /\ UNCHANGED urcAt
          /\ UNCHANGED << fd, ctxOf, needWait, restartMutex, urcRest, urcSlots, sender, s_urc_count,
                          urcFlag, mapUrcs, caught >>
      BY <1>7, <2>2 DEF UnlockReaders
    <3> USE DEF Types, TypeOK
    <3>2. readerMutex' \in [Channels -> {"free", "reader", "switch"}]
      BY <2>1, <2>2, <3>1
    <3> QED
      <4>1. uk' \in 1 .. SimCount + 1
        BY <1>00, <2>2, <3>1
      <4> QED
        BY SMTT(30), <3>1, <3>2, <4>1
  <2>3. CASE ~(uk <= SimCount)
    BY <1>00, <1>7, <2>3 DEF UnlockReaders
  <2> QED
    BY <2>2, <2>3
<1> QED
  BY <1>1, <1>2, <1>3, <1>4, <1>5, <1>6, <1>7 DEF SimSwitchUrc
-----------------------------------------------------------------------------
(* Who holds the mutexes                                                   *)

(* The places of the switch decide which channels it has, those of the URC handler which it has. *)
LEMMA SwitchPlace ==
  ASSUME UNCHANGED << inst, sw, todo >>, NEW c
  PROVE  /\ SwitchLocked(c)' <=> SwitchLocked(c)
         /\ SwitchTouched(c)' <=> SwitchTouched(c)
         /\ FirstToLock(c)' <=> FirstToLock(c)
<1>1. Affected' = Affected /\ \A d : LockedBefore(c, d)' <=> LockedBefore(c, d)
  BY Same DEF LockedBefore, LockRound, Before, Number
<1>2. FirstToLock(c)' <=> FirstToLock(c)
  BY <1>1 DEF FirstToLock
<1> QED
  BY <1>1, <1>2 DEF SwitchLocked, SwitchTouched, Taking, Holding

(* And those of the URC handler which channels it has. *)
LEMMA UrcPlace ==
  ASSUME UNCHANGED << urcAt, uk >>, NEW c
  PROVE  /\ VsimLocked(c)' <=> VsimLocked(c)
         /\ VsimTouched(c)' <=> VsimTouched(c)
         /\ UrcLocked(c)' <=> UrcLocked(c)
         /\ NextVsim(c)' <=> NextVsim(c)
BY DEF VsimLocked, VsimTouched, UrcLocked, NextVsim, Locking

(* A channel whose mutexes and flag stay keeps its part of the invariant. *)
LEMMA HeldKept ==
  ASSUME UNCHANGED << inst, sw, todo, urcAt, uk >>, NEW c, Held(c),
         restartMutex'[c] = restartMutex[c], readerMutex'[c] = readerMutex[c],
         needWait'[c] = needWait[c]
  PROVE  Held(c)'
BY SwitchPlace, UrcPlace DEF Held

(* So does a sender whose channel stays. *)
LEMMA SenderKept ==
  ASSUME NEW c, SenderWaits(c), restartMutex'[c] = restartMutex[c],
         needWait'[c] = needWait[c], sender'[c] = sender[c]
  PROVE  SenderWaits(c)'
BY DEF SenderWaits

(* Steps that touch neither mutexes nor places keep all of it. *)
LEMMA MutexesKept ==
  ASSUME MutexesHeld, UNCHANGED << inst, mutexes, sender, sw, todo, urcAt, uk, urcFlag >>
  PROVE  MutexesHeld'
<1>1. UNCHANGED << needWait, restartMutex, readerMutex >>
  BY DEF mutexes
<1>2. \A c \in Channels : Held(c)' /\ SenderWaits(c)'
  BY <1>1, HeldKept, SenderKept DEF MutexesHeld
<1> QED
  BY <1>2, Same DEF MutexesHeld, Taking, Locking

(* The mutexes under the steps of a reader. *)
LEMMA ReaderMutexes ==
  ASSUME Types, Paired, MutexesHeld, ReadersHold, UNCHANGED inst, NEW r \in Channels, Reader(r)
  PROVE  MutexesHeld'
<1> DEFINE c0 == ctxOf[r]
<1>0. c0 \in Channels /\ c0[1] = r[1] /\ readerMutex \in [Channels -> {"free", "reader", "switch"}]
  BY DEF Types, TypeOK, Paired
<1>1. CASE ReadLine(r) \/ ProcessLine(r) \/ WaitFlag(r)
  BY <1>1, MutexesKept DEF ReadLine, ProcessLine, WaitFlag, urcVars
<1>2. ASSUME TakeReaderMutex(r) \/ ReleaseReaderMutex(r)
      PROVE  MutexesHeld'
  <2>0. UNCHANGED << needWait, restartMutex, sender, sw, todo, urcAt, uk, urcFlag >>
    BY <1>2 DEF TakeReaderMutex, ReleaseReaderMutex, urcVars
  <2>1. \A c \in Channels : c # c0 => readerMutex'[c] = readerMutex[c]
    BY <1>0, <1>2 DEF TakeReaderMutex, ReleaseReaderMutex
  <2>2. readerMutex'[c0] # "switch"
    BY <1>0, <1>2 DEF TakeReaderMutex, ReleaseReaderMutex
  <2>3. c0[1] # "own" => readerMutex[c0] # "switch"
    BY <1>0, <1>2 DEF TakeReaderMutex, ReleaseReaderMutex, ReadersHold
  <2> HIDE DEF c0
  <2>4. ASSUME NEW c \in Channels PROVE Held(c)' /\ SenderWaits(c)'
    <3>0. Held(c) /\ SenderWaits(c)
      BY DEF MutexesHeld
    <3>1. SenderWaits(c)'
      BY <2>0, <3>0, SenderKept
    <3>2. CASE c # c0
      BY <2>0, <2>1, <3>0, <3>1, <3>2, HeldKept
    <3>3. CASE c = c0
      BY <2>0, <2>2, <2>3, <3>0, <3>1, <3>3, SwitchPlace, UrcPlace DEF Held
    <3> QED
      BY <3>2, <3>3
  <2> QED
    BY <2>0, <2>4, Same DEF MutexesHeld, Taking, Locking
<1> QED
  BY <1>1, <1>2 DEF Reader

(* The mutexes under the steps of an ordinary sender. *)
LEMMA SenderMutexes ==
  ASSUME Types, MutexesHeld, UNCHANGED inst, NEW d \in Channels,
         StartHandler(d) \/ EndHandler(d) \/ Resume(d)
  PROVE  MutexesHeld'
<1>0. UNCHANGED << needWait, readerMutex, sw, todo, urcAt, uk, urcFlag >>
  BY DEF StartHandler, EndHandler, Resume, urcVars, mutexes
<1>1. restartMutex \in [Channels -> {"free", "sender", "switch"}]
      /\ sender \in [Channels -> {"idle", "handling", "condition", "signalled"}]
  BY DEF Types, TypeOK
<1>2. \A c \in Channels : c # d => restartMutex'[c] = restartMutex[c] /\ sender'[c] = sender[c]
  BY <1>1 DEF StartHandler, EndHandler, Resume, mutexes
<1>3. Held(d) /\ SenderWaits(d)
  BY DEF MutexesHeld
<1>4. restartMutex[d] # "switch" /\ restartMutex'[d] # "switch"
  BY <1>1, <1>3 DEF StartHandler, EndHandler, Resume, mutexes, SenderWaits
<1>5. SenderWaits(d)'
  BY <1>0, <1>1, <1>3 DEF StartHandler, EndHandler, Resume, mutexes, SenderWaits
<1>6. Held(d)'
  BY <1>0, <1>3, <1>4, SwitchPlace, UrcPlace DEF Held
<1>7. ASSUME NEW c \in Channels, c # d PROVE Held(c)' /\ SenderWaits(c)'
  <2>1. Held(c) /\ SenderWaits(c) /\ restartMutex'[c] = restartMutex[c] /\ sender'[c] = sender[c]
    BY <1>2, <1>7 DEF MutexesHeld
  <2> QED
    BY <1>0, <2>1, HeldKept, SenderKept
<1> QED
  BY <1>0, <1>5, <1>6, <1>7, Same DEF MutexesHeld, Taking, Locking

(* The URC handler has no channel the switch locks. *)
LEMMA Apart ==
  ASSUME Types, MutexesHeld, NEW c \in Affected
  PROVE  /\ c \in Channels /\ c # own
         /\ ~VsimLocked(c) /\ ~VsimTouched(c) /\ ~UrcLocked(c) /\ ~(urcAt = "reader" /\ NextVsim(c))
<1>1. c \in Channels /\ c # own /\ (NoReset => c[1] \notin {"urc", "vsim"})
  BY AffectedIs DEF Types
<1>2. urcAt # "idle" => NoReset
  BY DEF MutexesHeld
<1> QED
  BY <1>1, <1>2 DEF VsimLocked, VsimTouched, UrcLocked, NextVsim, Locking

(* The mutexes when the switch starts. *)
LEMMA StartMutexes ==
  ASSUME Types, MutexesHeld, UNCHANGED inst, NEW new \in Slots, StartSwitch(new)
  PROVE  MutexesHeld'
<1>0. /\ UNCHANGED << needWait, readerMutex, sender, urcAt, uk, urcFlag >>
      /\ sw = "idle" /\ todo = {} /\ sw' = "need" /\ todo' = Affected /\ Affected' = Affected
      /\ restartMutex[own] = "free" /\ restartMutex' = [restartMutex EXCEPT ![own] = "sender"]
  BY Same DEF StartSwitch, urcVars, MutexesHeld, Taking
<1>1. restartMutex \in [Channels -> {"free", "sender", "switch"}] /\ own \in Channels
      /\ own[1] = "own" /\ own \notin Affected
  BY Instance, AffectedIs DEF Types, TypeOK, own
<1>2. ASSUME NEW c \in Channels PROVE Held(c)' /\ SenderWaits(c)'
  <2>1. Held(c) /\ SenderWaits(c)
    BY DEF MutexesHeld
  <2>2. ~SwitchLocked(c)' /\ (SwitchTouched(c)' <=> c \in Affected) /\ ~SwitchTouched(c) /\ ~SwitchLocked(c)
    BY <1>0 DEF SwitchLocked, SwitchTouched, Taking, Holding
  <2>3. CASE c = own
    <3>1. restartMutex'[c] = "sender" /\ restartMutex[c] = "free"
      BY <1>0, <1>1, <2>3
    <3>2. Held(c)'
      BY <1>0, <2>1, <2>2, <3>1, UrcPlace DEF Held
    <3> QED
      BY <1>0, <2>1, <3>1, <3>2 DEF SenderWaits
  <2>4. CASE c # own
    <3>1. restartMutex'[c] = restartMutex[c]
      BY <1>0, <1>1, <2>4
    <3>2. Held(c)'
      BY <1>0, <2>1, <2>2, <3>1, UrcPlace DEF Held
    <3> QED
      BY <1>0, <2>1, <3>1, <3>2, SenderKept
  <2> QED
    BY <2>3, <2>4
<1> QED
  BY <1>0, <1>2, Same DEF MutexesHeld, Taking, Locking

(* The mutexes when the switch locks a channel. *)
LEMMA LockMutexes ==
  ASSUME Types, MutexesHeld, UNCHANGED inst, LockChannels
  PROVE  MutexesHeld'
<1>0. UNCHANGED << sender, urcAt, uk, urcFlag >> /\ Taking /\ Affected' = Affected
  BY Same DEF LockChannels, swRest, urcVars, Taking
<1>1. PICK d \in todo :
        /\ FirstToLock(d)
        /\ \/ sw = "need" /\ NeedWait(d) /\ sw' = "restart" /\ UNCHANGED todo
           \/ sw = "restart" /\ LockRestart(d) /\ sw' = "reader" /\ UNCHANGED todo
           \/ sw = "reader" /\ LockReader(d) /\ sw' = "need" /\ todo' = todo \ {d}
  BY DEF LockChannels, FirstToLock
<1>2. todo \subseteq Affected /\ d \in Affected /\ d \in Channels /\ todo \subseteq Channels
      /\ inst \in Instances
  BY AffectedIs DEF Types
<1>3. /\ restartMutex \in [Channels -> {"free", "sender", "switch"}]
      /\ readerMutex \in [Channels -> {"free", "reader", "switch"}]
      /\ needWait \in [Channels -> BOOLEAN]
  BY DEF Types, TypeOK
<1>4. \A c \in Channels : Held(c) /\ SenderWaits(c)
  BY DEF MutexesHeld
<1>5. ~VsimLocked(d) /\ ~VsimTouched(d) /\ ~UrcLocked(d) /\ ~(urcAt = "reader" /\ NextVsim(d))
  BY <1>2, Apart
<1>6. Taking'
  BY <1>1 DEF Taking
<1>7. todo' \subseteq todo
  BY <1>1
<1>8. \A c : SwitchTouched(c) <=> c \in Affected
  BY <1>0 DEF SwitchTouched
<1>9. \A c : SwitchTouched(c)' <=> c \in Affected
  BY <1>0, <1>6 DEF SwitchTouched
<1>10. \A c : SwitchLocked(c) <=> c \in Affected \ todo
  BY <1>0 DEF SwitchLocked
<1>11. \A c : SwitchLocked(c)' <=> c \in Affected \ todo'
  BY <1>0, <1>6 DEF SwitchLocked
<1>12. CASE sw = "need" /\ NeedWait(d) /\ sw' = "restart" /\ UNCHANGED todo
  <2>1. UNCHANGED << restartMutex, readerMutex >>
    BY <1>12 DEF NeedWait
  <2>2. \A c \in Channels : c # d => needWait'[c] = needWait[c]
    BY <1>3, <1>12 DEF NeedWait
  <2>3. needWait'[d] = TRUE
    BY <1>2, <1>3, <1>12 DEF NeedWait
  <2>4. ASSUME NEW c \in Channels PROVE Held(c)' /\ SenderWaits(c)'
    <3>1. Held(c)'
      <4>1. c = d \/ needWait'[c] = needWait[c]
        BY <2>2
      <4> QED
        BY <1>0, <1>2, <1>4, <1>8, <1>9, <1>10, <1>11, <1>12, <2>1, <4>1, UrcPlace DEF Held
    <3>2. SenderWaits(c)'
      BY <1>0, <1>4, <2>1, <2>2, <2>3 DEF SenderWaits
    <3> QED
      BY <3>1, <3>2
  <2> QED
    BY <1>0, <1>6, <2>4, Same DEF MutexesHeld, Locking
<1>13. CASE sw = "restart" /\ LockRestart(d) /\ sw' = "reader" /\ UNCHANGED todo
  <2>1. UNCHANGED << needWait, readerMutex >> /\ restartMutex[d] = "free"
    BY <1>13 DEF LockRestart
  <2>2. \A c \in Channels : c # d => restartMutex'[c] = restartMutex[c]
    BY <1>3, <1>13 DEF LockRestart
  <2>3. restartMutex'[d] = "switch"
    BY <1>2, <1>3, <1>13 DEF LockRestart
  <2>4. \A c : FirstToLock(c)' => c = d
    <3>1. \A c : FirstToLock(c) => c = d
      BY <1>1, <1>2, FirstIsUnique
    <3>2. \A c : FirstToLock(c)' <=> FirstToLock(c)
      <4>1. \A c, e : LockedBefore(c, e)' <=> LockedBefore(c, e)
        BY Same DEF LockedBefore, LockRound, Before, Number
      <4> QED
        BY <1>13, <4>1 DEF FirstToLock
    <3> QED
      BY <3>1, <3>2
  <2>5. ASSUME NEW c \in Channels PROVE Held(c)' /\ SenderWaits(c)'
    <3>1. Held(c)'
      <4>1. CASE c = d
        BY <1>0, <1>2, <1>4, <1>8, <1>9, <1>10, <1>11, <1>13, <2>1, <2>3, <4>1, UrcPlace DEF Held
      <4>2. CASE c # d
        <5>1. restartMutex'[c] = restartMutex[c] /\ ~FirstToLock(c)'
          BY <2>2, <2>4, <4>2
        <5> QED
          BY <1>0, <1>4, <1>8, <1>9, <1>10, <1>11, <1>13, <2>1, <5>1, UrcPlace DEF Held
      <4> QED
        BY <4>1, <4>2
    <3>2. SenderWaits(c)'
      BY <1>0, <1>4, <2>1, <2>2, <2>3 DEF SenderWaits
    <3> QED
      BY <3>1, <3>2
  <2> QED
    BY <1>0, <1>6, <2>5, Same DEF MutexesHeld, Locking
<1>14. CASE sw = "reader" /\ LockReader(d) /\ sw' = "need" /\ todo' = todo \ {d}
  <2>1. UNCHANGED << needWait, restartMutex >> /\ restartMutex[d] = "switch"
    BY <1>1, <1>2, <1>4, <1>14 DEF LockReader, Held
  <2>2. \A c \in Channels : c # d => readerMutex'[c] = readerMutex[c]
    BY <1>3, <1>14 DEF LockReader
  <2>3. readerMutex'[d] = "switch"
    BY <1>2, <1>3, <1>14 DEF LockReader
  <2>4. ASSUME NEW c \in Channels PROVE Held(c)' /\ SenderWaits(c)'
    <3>1. Held(c)'
      <4>1. CASE c = d
        BY <1>0, <1>2, <1>4, <1>8, <1>9, <1>10, <1>11, <1>14, <2>1, <2>3, <4>1, UrcPlace DEF Held
      <4>2. CASE c # d
        <5>1. readerMutex'[c] = readerMutex[c] /\ (c \in todo' <=> c \in todo)
          BY <1>14, <2>2, <4>2
        <5> QED
          BY <1>0, <1>4, <1>8, <1>9, <1>10, <1>11, <1>14, <2>1, <5>1, UrcPlace DEF Held
      <4> QED
        BY <4>1, <4>2
    <3>2. SenderWaits(c)'
      BY <1>0, <1>4, <2>1, SenderKept
    <3> QED
      BY <3>1, <3>2
  <2> QED
    BY <1>0, <1>6, <2>4, Same DEF MutexesHeld, Locking
<1> QED
  BY <1>1, <1>12, <1>13, <1>14

(* The mutexes while the channels are exchanged and the modem is asked. *)
LEMMA HoldMutexes ==
  ASSUME Types, MutexesHeld, UNCHANGED inst,
         Locked \/ SendMap \/ MapAnswered \/ MapTimesOut \/ SwitchAll
  PROVE  MutexesHeld'
<1>1. UNCHANGED << mutexes, sender, urcAt, uk >> /\ Affected' = Affected /\ todo \subseteq Affected
  BY Same DEF Locked, SendMap, MapAnswered, MapTimesOut, SwitchAll, swRest, urcVars, Types
<1>2. UNCHANGED << needWait, restartMutex, readerMutex >>
  BY <1>1 DEF mutexes
<1>3. urcFlag' => NoReset
  BY DEF MutexesHeld, Locked, SendMap, MapAnswered, MapTimesOut, SwitchAll
<1>4. sw # "reader" /\ sw' # "reader"
  BY DEF Locked, SendMap, MapAnswered, MapTimesOut, SwitchAll
<1>5. /\ ~Taking /\ sw # "unlock" => todo = {}
      /\ sw = "need" => todo = {}
  BY DEF MutexesHeld, Locked, SendMap, MapAnswered, MapTimesOut, SwitchAll
<1>6. /\ (sw = "need" /\ todo = {}) \/ Holding
      /\ (Holding' /\ todo' = {}) \/ (sw' = "unlock" /\ todo' = Affected)
  BY <1>5 DEF Locked, SendMap, MapAnswered, MapTimesOut, SwitchAll, Holding, Taking
<1>7. \A c : (SwitchLocked(c) <=> c \in Affected) /\ (SwitchTouched(c) <=> c \in Affected)
  BY <1>6 DEF SwitchLocked, SwitchTouched, Taking, Holding
<1>8. \A c : (SwitchLocked(c)' <=> c \in Affected) /\ (SwitchTouched(c)' <=> c \in Affected)
  BY <1>1, <1>6 DEF SwitchLocked, SwitchTouched, Taking, Holding
<1>9. ASSUME NEW c \in Channels PROVE Held(c)' /\ SenderWaits(c)'
  <2>1. Held(c) /\ SenderWaits(c)
    BY DEF MutexesHeld
  <2>2. Held(c)'
    BY <1>1, <1>2, <1>4, <1>7, <1>8, <2>1, UrcPlace DEF Held
  <2> QED
    BY <1>1, <1>2, <2>1, <2>2, SenderKept
<1>10. ~Taking' /\ sw' # "unlock" => todo' = {}
  BY <1>6 DEF Holding, Taking
<1> QED
  BY <1>1, <1>3, <1>9, <1>10, Same DEF MutexesHeld, Locking

(* The mutexes when the switch gives up or ends: the one of its own handler is free. *)
LEMMA EndMutexes ==
  ASSUME Types, MutexesHeld, UNCHANGED inst, SimInitFails \/ EndSwitch
  PROVE  MutexesHeld'
<1>0. /\ UNCHANGED << needWait, readerMutex, sender, todo, urcAt, uk, urcFlag >>
      /\ todo = {} /\ Affected' = Affected
      /\ restartMutex' = [restartMutex EXCEPT ![own] = "free"]
      /\ (sw = "waitUrc" /\ sw' = "gaveUp") \/ (sw = "unlock" /\ sw' = "idle")
  BY Same DEF SimInitFails, EndSwitch, urcVars, swRest, MutexesHeld, Taking
<1>1. restartMutex \in [Channels -> {"free", "sender", "switch"}] /\ own \in Channels
      /\ own[1] = "own" /\ own \notin Affected
  BY Instance, AffectedIs DEF Types, TypeOK, own
<1>2. \A c : SwitchLocked(c) <=> SwitchTouched(c)
  BY <1>0 DEF SwitchLocked, SwitchTouched, Taking, Holding
<1>3. \A c : (SwitchLocked(c)' <=> SwitchTouched(c)) /\ (SwitchTouched(c)' <=> SwitchTouched(c))
  BY <1>0 DEF SwitchLocked, SwitchTouched, Taking, Holding
<1>4. ~SwitchTouched(own)
  BY <1>0, <1>1 DEF SwitchTouched, Taking, Holding
<1>5. ~VsimLocked(own) /\ ~VsimTouched(own) /\ ~UrcLocked(own) /\ ~NextVsim(own)
  BY <1>1 DEF VsimLocked, VsimTouched, UrcLocked, NextVsim
<1>6. ASSUME NEW c \in Channels PROVE Held(c)' /\ SenderWaits(c)'
  <2>1. Held(c) /\ SenderWaits(c)
    BY DEF MutexesHeld
  <2>2. CASE c = own
    <3>1. restartMutex'[c] = "free"
      BY <1>0, <1>1, <2>2
    <3>2. Held(c)'
      BY <1>0, <1>2, <1>3, <1>4, <1>5, <2>1, <2>2, <3>1, UrcPlace DEF Held
    <3>3. sender[c] = "idle"
      BY <1>1, <2>1, <2>2 DEF SenderWaits
    <3> QED
      BY <1>0, <3>2, <3>3 DEF SenderWaits
  <2>3. CASE c # own
    <3>1. restartMutex'[c] = restartMutex[c]
      BY <1>0, <1>1, <2>3
    <3>2. Held(c)'
      BY <1>0, <1>2, <1>3, <2>1, <3>1, UrcPlace DEF Held
    <3> QED
      BY <1>0, <2>1, <3>1, <3>2, SenderKept
  <2> QED
    BY <2>2, <2>3
<1> QED
  BY <1>0, <1>6, Same DEF MutexesHeld, Taking, Locking

(* What Unlock does to the channel and to the others. *)
LEMMA Unlocked ==
  ASSUME Types, NEW d \in Channels, Unlock(d)
  PROVE  /\ ~needWait'[d] /\ restartMutex'[d] = "free" /\ readerMutex'[d] = "free"
         /\ sender'[d] = IF sender[d] = "condition" THEN "signalled" ELSE sender[d]
         /\ \A c \in Channels : c # d => /\ needWait'[c] = needWait[c] /\ restartMutex'[c] = restartMutex[c]
                                         /\ readerMutex'[c] = readerMutex[c] /\ sender'[c] = sender[c]
BY DEF Types, TypeOK, Unlock

(* The mutexes when the switch unlocks a channel. *)
LEMMA UnlockMutexes ==
  ASSUME Types, MutexesHeld, UNCHANGED inst, UnlockChannels
  PROVE  MutexesHeld'
<1>0. UNCHANGED << urcAt, uk, urcFlag >> /\ sw = "unlock" /\ sw' = "unlock" /\ Affected' = Affected
  BY Same DEF UnlockChannels, swRest, urcVars
<1>1. PICK d \in todo : Unlock(d) /\ todo' = todo \ {d}
  BY DEF UnlockChannels
<1>2. d \in Affected /\ d \in Channels
  BY AffectedIs DEF Types
<1>3. ~VsimLocked(d) /\ ~VsimTouched(d) /\ ~UrcLocked(d) /\ ~(urcAt = "reader" /\ NextVsim(d))
  BY <1>2, Apart
<1>4. \A c : (SwitchLocked(c) <=> c \in todo) /\ (SwitchTouched(c) <=> c \in todo)
  BY <1>0 DEF SwitchLocked, SwitchTouched, Taking, Holding
<1>5. \A c : (SwitchLocked(c)' <=> c \in todo') /\ (SwitchTouched(c)' <=> c \in todo')
  BY <1>0 DEF SwitchLocked, SwitchTouched, Taking, Holding
<1>6. /\ ~needWait'[d] /\ restartMutex'[d] = "free" /\ readerMutex'[d] = "free"
      /\ sender'[d] = IF sender[d] = "condition" THEN "signalled" ELSE sender[d]
      /\ \A c \in Channels : c # d => /\ needWait'[c] = needWait[c] /\ restartMutex'[c] = restartMutex[c]
                                      /\ readerMutex'[c] = readerMutex[c] /\ sender'[c] = sender[c]
  BY <1>1, <1>2, Unlocked
<1>7. ASSUME NEW c \in Channels PROVE Held(c)' /\ SenderWaits(c)'
  <2>1. Held(c) /\ SenderWaits(c)
    BY DEF MutexesHeld
  <2>2. CASE c = d
    <3>1. Held(c)'
      BY <1>0, <1>1, <1>3, <1>5, <1>6, <2>1, <2>2, UrcPlace DEF Held
    <3>2. restartMutex[c] = "switch"
      BY <1>1, <1>4, <2>1, <2>2 DEF Held
    <3>3. SenderWaits(c)'
      BY <1>6, <2>1, <2>2, <3>2 DEF SenderWaits
    <3> QED
      BY <3>1, <3>3
  <2>3. CASE c # d
    <3>1. Held(c)'
      BY <1>0, <1>1, <1>4, <1>5, <1>6, <2>1, <2>3, UrcPlace DEF Held
    <3> QED
      BY <1>6, <2>1, <2>3, <3>1, SenderKept
  <2> QED
    BY <2>2, <2>3
<1> QED
  BY <1>0, <1>7, Same DEF MutexesHeld, Taking, Locking

(* The channel of a class at which the URC handler is. *)
LEMMA AtSlot ==
  ASSUME Types, NEW class \in Classes, uk <= SimCount
  PROVE  /\ OfClass(class)[uk] \in Channels /\ OfClass(class)[uk][1] = class
         /\ \A c \in Channels : c[1] = class => (c[2] + 1 = uk <=> c = OfClass(class)[uk])
<1>1. inst \in Instances /\ uk \in 1 .. SimCount /\ SimCount \in Nat
  BY Instance DEF Types
<1>2. OfClass(class)[uk] = << class, uk - 1 >> /\ << class, uk - 1 >> \in Channels
  BY <1>1, Ordered
<1>3. ASSUME NEW c \in Channels, c[1] = class
      PROVE  c[2] + 1 = uk <=> c = << class, uk - 1 >>
  <2>1. c = << c[1], c[2] >> /\ c[2] \in Nat
    BY <1>1, ChannelIs
  <2>2. c[2] + 1 = uk <=> c[2] = uk - 1
    BY <1>1, <2>1
  <2>3. ASSUME c = << class, uk - 1 >> PROVE c[2] = uk - 1
    BY <2>3
  <2>4. ASSUME c[2] = uk - 1 PROVE c = << class, uk - 1 >>
    BY <1>3, <2>1, <2>4
  <2> QED
    BY <2>2, <2>3, <2>4
<1> QED
  BY <1>2, <1>3

(* The mutexes when the URC handler takes an indication, exchanges channels, or goes from *)
(* one class to the next.                                                                 *)
LEMMA UrcTurnMutexes ==
  ASSUME Types, MutexesHeld, UNCHANGED inst,
         \/ CheckIfSwitch \/ SwitchUrc \/ SwitchVsim
         \/ (UnlockVsim /\ uk > SimCount) \/ (UnlockReaders /\ uk > SimCount)
  PROVE  MutexesHeld'
<1>0. inst \in Instances /\ SimCount \in Nat /\ uk \in 1 .. SimCount + 1
  BY Instance DEF Types
<1>1. UNCHANGED << needWait, restartMutex, readerMutex, sender, sw, todo >> /\ uk' = 1
  BY <1>0 DEF CheckIfSwitch, SwitchUrc, SwitchVsim, UnlockVsim, UnlockReaders, urcRest, mutexes
<1>2. \/ urcAt = "idle" /\ urcAt' \in {"idle", "lockReaders"} /\ (urcAt' # "idle" => urcFlag)
         /\ urcFlag' = urcFlag
      \/ urcAt = "lockReaders" /\ urcAt' \in {"need", "unlockReaders"} /\ uk > SimCount
         /\ (urcAt' = "need" => "vsim" \in Classes) /\ urcFlag' = FALSE
      \/ urcAt = "need" /\ urcAt' = "unlockVsim" /\ uk > SimCount /\ urcFlag' = urcFlag
      \/ urcAt = "unlockVsim" /\ urcAt' = "unlockReaders" /\ uk > SimCount /\ urcFlag' = urcFlag
      \/ urcAt = "unlockReaders" /\ urcAt' = "idle" /\ uk > SimCount /\ urcFlag' = urcFlag
  BY <1>0 DEF CheckIfSwitch, SwitchUrc, SwitchVsim, UnlockVsim, UnlockReaders
<1>3. ASSUME NEW c \in Channels PROVE Held(c)' /\ SenderWaits(c)'
  <2>1. Held(c) /\ SenderWaits(c)
    BY DEF MutexesHeld
  <2>2. c[2] + 1 >= 1 /\ ~(c[2] + 1 < 1) /\ c[2] + 1 <= SimCount /\ c[2] \in Nat
    BY <1>0, ChannelIs
  <2>3. uk > SimCount => c[2] + 1 < uk /\ ~(c[2] + 1 >= uk)
    BY <1>0, <2>2
  <2>4. VsimLocked(c)' => VsimLocked(c)
    BY <1>1, <1>2, <2>2, <2>3 DEF VsimLocked, Locking
  <2>5. VsimTouched(c) => VsimTouched(c)'
    BY <1>1, <1>2, <2>2, <2>3 DEF VsimTouched, Locking
  <2>6. UrcLocked(c)' <=> UrcLocked(c)
    BY <1>1, <1>2, <2>2, <2>3 DEF UrcLocked, Locking
  <2>7. urcAt' # "reader"
    BY <1>2
  <2>8. Held(c)'
    BY <1>1, <2>1, <2>4, <2>5, <2>6, <2>7, SwitchPlace DEF Held
  <2> QED
    BY <1>1, <2>1, <2>8, SenderKept
<1>4. (urcAt' # "idle" \/ urcFlag' => NoReset) /\ (Locking' \/ urcAt' = "unlockVsim" => "vsim" \in Classes)
  BY <1>2 DEF MutexesHeld, Locking
<1> QED
  BY <1>1, <1>3, <1>4, Same DEF MutexesHeld, Taking

(* The mutexes when the URC handler locks the reader of a URC channel. *)
LEMMA LockReadersMutexes ==
  ASSUME Types, MutexesHeld, UNCHANGED inst, LockReaders
  PROVE  MutexesHeld'
<1> DEFINE d == OfClass("urc")[uk]
<1>0. /\ UNCHANGED << needWait, restartMutex, sender, sw, todo, urcAt, urcFlag >>
      /\ urcAt = "lockReaders" /\ uk' = uk + 1 /\ uk \in Nat /\ uk <= SimCount
      /\ readerMutex' = [readerMutex EXCEPT ![d] = "switch"]
  BY Instance DEF LockReaders, LockReader, urcRest, Types
<1>1. d \in Channels /\ d[1] = "urc" /\ readerMutex \in [Channels -> {"free", "reader", "switch"}]
      /\ \A c \in Channels : c[1] = "urc" => (c[2] + 1 = uk <=> c = d)
  BY <1>0, AtSlot, Instance DEF Types, TypeOK
<1> HIDE DEF d
<1>2. ASSUME NEW c \in Channels PROVE Held(c)' /\ SenderWaits(c)'
  <2>1. Held(c) /\ SenderWaits(c) /\ c[2] \in Nat
    BY ChannelIs DEF MutexesHeld, Types
  <2>2. UrcLocked(c)' <=> UrcLocked(c) \/ c = d
    <3>1. c[2] + 1 < uk + 1 <=> c[2] + 1 < uk \/ c[2] + 1 = uk
      BY <1>0, <2>1
    <3> QED
      BY <1>0, <1>1, <3>1 DEF UrcLocked, Locking
  <2>3. ~VsimLocked(c)' /\ ~VsimTouched(c)' /\ ~VsimLocked(c) /\ ~VsimTouched(c)
    BY <1>0 DEF VsimLocked, VsimTouched, Locking
  <2>4. readerMutex'[c] = IF c = d THEN "switch" ELSE readerMutex[c]
    BY <1>0, <1>1
  <2>5. Held(c)'
    BY <1>0, <1>1, <2>1, <2>2, <2>3, <2>4, SwitchPlace DEF Held
  <2> QED
    BY <1>0, <2>1, <2>5, SenderKept
<1> QED
  BY <1>0, <1>2, Same DEF MutexesHeld, Taking, Locking

(* The mutexes when it unlocks the reader. *)
LEMMA UnlockReadersMutexes ==
  ASSUME Types, MutexesHeld, UNCHANGED inst, UnlockReaders, uk <= SimCount
  PROVE  MutexesHeld'
<1> DEFINE d == OfClass("urc")[uk]
<1>0. /\ UNCHANGED << needWait, restartMutex, sender, sw, todo, urcAt, urcFlag >>
      /\ urcAt = "unlockReaders" /\ uk' = uk + 1 /\ uk \in Nat /\ NoReset
      /\ readerMutex' = [readerMutex EXCEPT ![d] = "free"]
  BY Instance DEF UnlockReaders, urcRest, Types, MutexesHeld
<1>1. d \in Channels /\ d[1] = "urc" /\ readerMutex \in [Channels -> {"free", "reader", "switch"}]
      /\ \A c \in Channels : c[1] = "urc" => (c[2] + 1 = uk <=> c = d)
  BY <1>0, AtSlot, Instance DEF Types, TypeOK
<1> HIDE DEF d
<1>2. d \notin Affected /\ todo \subseteq Affected
  BY <1>0, <1>1, AffectedIs DEF Types
<1>3. ASSUME NEW c \in Channels PROVE Held(c)' /\ SenderWaits(c)'
  <2>1. Held(c) /\ SenderWaits(c) /\ c[2] \in Nat
    BY ChannelIs DEF MutexesHeld, Types
  <2>2. UrcLocked(c)' <=> UrcLocked(c) /\ c # d
    <3>1. c[2] + 1 >= uk + 1 <=> c[2] + 1 >= uk /\ c[2] + 1 # uk
      BY <1>0, <2>1
    <3> QED
      BY <1>0, <1>1, <3>1 DEF UrcLocked, Locking
  <2>3. ~VsimLocked(c)' /\ ~VsimTouched(c)' /\ ~VsimLocked(c) /\ ~VsimTouched(c)
    BY <1>0 DEF VsimLocked, VsimTouched, Locking
  <2>4. readerMutex'[c] = IF c = d THEN "free" ELSE readerMutex[c]
    BY <1>0, <1>1
  <2>5. c = d => ~SwitchLocked(c)
    BY <1>2 DEF SwitchLocked
  <2>6. Held(c)'
    BY <1>0, <1>1, <2>1, <2>2, <2>3, <2>4, <2>5, SwitchPlace DEF Held
  <2> QED
    BY <1>0, <2>1, <2>6, SenderKept
<1> QED
  BY <1>0, <1>3, Same DEF MutexesHeld, Taking, Locking

(* The mutexes when it locks a channel of class "vsim". *)
LEMMA LockVsimMutexes ==
  ASSUME Types, MutexesHeld, UNCHANGED inst, LockVsim
  PROVE  MutexesHeld'
<1>10. PICK d : d = OfClass("vsim")[uk]
  OBVIOUS
<1>0. /\ UNCHANGED << sender, sw, todo, urcFlag >>
      /\ Locking /\ uk \in Nat /\ uk <= SimCount /\ NoReset /\ "vsim" \in Classes
      /\ \/ urcAt = "need" /\ NeedWait(d) /\ urcAt' = "restart" /\ uk' = uk
         \/ urcAt = "restart" /\ LockRestart(d) /\ urcAt' = "reader" /\ uk' = uk
         \/ urcAt = "reader" /\ LockReader(d) /\ urcAt' = "need" /\ uk' = uk + 1
  BY <1>10, Instance DEF LockVsim, urcRest, Types, MutexesHeld, Locking
<1>1. d \in Channels /\ d[1] = "vsim"
      /\ \A c \in Channels : c[1] = "vsim" => (c[2] + 1 = uk <=> c = d)
  BY <1>0, <1>10, AtSlot
<1>2. /\ restartMutex \in [Channels -> {"free", "sender", "switch"}]
      /\ readerMutex \in [Channels -> {"free", "reader", "switch"}]
      /\ needWait \in [Channels -> BOOLEAN]
  BY DEF Types, TypeOK
<1>3. Held(d) /\ SenderWaits(d) /\ (urcAt = "reader" => restartMutex[d] = "switch")
  BY <1>1 DEF MutexesHeld, Held, NextVsim
<1>4. \A c \in Channels : c # d => /\ needWait'[c] = needWait[c] /\ restartMutex'[c] = restartMutex[c]
                                   /\ readerMutex'[c] = readerMutex[c]
  BY <1>0, <1>2 DEF NeedWait, LockRestart, LockReader
<1>5. Locking'
  BY <1>0 DEF Locking
<1>7. SenderWaits(d)'
  <2>1. sender[d] = "idle"
    BY <1>1, <1>3 DEF SenderWaits
  <2> QED
    BY <1>0, <2>1 DEF SenderWaits
<1>8. ASSUME NEW c \in Channels, c # d PROVE Held(c)' /\ SenderWaits(c)'
  <2>1. Held(c) /\ SenderWaits(c) /\ c[2] \in Nat
    BY ChannelIs DEF MutexesHeld, Types
  <2>2. (UrcLocked(c)' <=> UrcLocked(c)) /\ (VsimTouched(c)' <=> VsimTouched(c))
    BY <1>0, <1>5 DEF UrcLocked, VsimTouched, Locking
  <2>3. VsimLocked(c)' <=> VsimLocked(c)
    <3>1. c[1] = "vsim" => (c[2] + 1 < uk + 1 <=> c[2] + 1 < uk)
      BY <1>0, <1>1, <1>8, <2>1
    <3> QED
      BY <1>0, <1>5, <3>1 DEF VsimLocked, Locking
  <2>4. ~(urcAt' = "reader" /\ NextVsim(c)')
    BY <1>0, <1>1, <1>8 DEF NextVsim
  <2>5. Held(c)'
    BY <1>0, <1>4, <1>8, <2>1, <2>2, <2>3, <2>4, SwitchPlace DEF Held
  <2> QED
    BY <1>0, <1>4, <1>8, <2>1, <2>5, SenderKept
<1>9. Held(d)'
  <2>1. VsimTouched(d)' /\ ~UrcLocked(d)' /\ ~UrcLocked(d)
    BY <1>1, <1>5 DEF VsimTouched, UrcLocked
  <2>2. CASE urcAt = "need" /\ NeedWait(d) /\ urcAt' = "restart" /\ uk' = uk
    <3>1. UNCHANGED << restartMutex, readerMutex >>
      BY <2>2 DEF NeedWait
    <3>2. VsimLocked(d)' <=> VsimLocked(d)
      BY <2>2 DEF VsimLocked, Locking
    <3> QED
      BY <1>0, <1>3, <2>1, <2>2, <3>1, <3>2, SwitchPlace DEF Held
  <2>3. CASE urcAt = "restart" /\ LockRestart(d) /\ urcAt' = "reader" /\ uk' = uk
    <3>1. UNCHANGED readerMutex /\ restartMutex'[d] = "switch"
      BY <1>1, <1>2, <2>3 DEF LockRestart
    <3>2. VsimLocked(d)' <=> VsimLocked(d)
      BY <2>3 DEF VsimLocked, Locking
    <3> QED
      BY <1>0, <1>3, <2>1, <2>3, <3>1, <3>2, SwitchPlace DEF Held
  <2>4. CASE urcAt = "reader" /\ LockReader(d) /\ urcAt' = "need" /\ uk' = uk + 1
    <3>1. UNCHANGED restartMutex /\ readerMutex'[d] = "switch" /\ restartMutex[d] = "switch"
      BY <1>1, <1>2, <1>3, <2>4 DEF LockReader
    <3> QED
      BY <1>0, <1>3, <2>1, <2>4, <3>1, SwitchPlace DEF Held
  <2> QED
    BY <1>0, <2>2, <2>3, <2>4
<1> QED
  BY <1>0, <1>5, <1>7, <1>8, <1>9, Same DEF MutexesHeld, Taking

(* The mutexes when it unlocks one. *)
LEMMA UnlockVsimMutexes ==
  ASSUME Types, MutexesHeld, UNCHANGED inst, UnlockVsim, uk <= SimCount
  PROVE  MutexesHeld'
<1> DEFINE d == OfClass("vsim")[uk]
<1>0. /\ UNCHANGED << sw, todo, urcAt, urcFlag >> /\ urcAt = "unlockVsim"
      /\ uk \in Nat /\ uk' = uk + 1 /\ NoReset /\ "vsim" \in Classes /\ Unlock(d)
  BY Instance DEF UnlockVsim, urcRest, Types, MutexesHeld
<1>1. d \in Channels /\ d[1] = "vsim"
      /\ \A c \in Channels : c[1] = "vsim" => (c[2] + 1 = uk <=> c = d)
  BY <1>0, AtSlot
<1> HIDE DEF d
<1>2. d \notin Affected /\ todo \subseteq Affected
  BY <1>0, <1>1, AffectedIs DEF Types
<1>3. /\ ~needWait'[d] /\ restartMutex'[d] = "free" /\ readerMutex'[d] = "free"
      /\ sender'[d] = IF sender[d] = "condition" THEN "signalled" ELSE sender[d]
      /\ \A c \in Channels : c # d => /\ needWait'[c] = needWait[c] /\ restartMutex'[c] = restartMutex[c]
                                      /\ readerMutex'[c] = readerMutex[c] /\ sender'[c] = sender[c]
  BY <1>0, <1>1, Unlocked
<1>4. ASSUME NEW c \in Channels PROVE Held(c)' /\ SenderWaits(c)'
  <2>1. Held(c) /\ SenderWaits(c) /\ c[2] \in Nat
    BY ChannelIs DEF MutexesHeld, Types
  <2>2. UrcLocked(c)' <=> UrcLocked(c)
    BY <1>0 DEF UrcLocked, Locking
  <2>3. (VsimLocked(c)' <=> VsimLocked(c) /\ c # d) /\ (VsimTouched(c)' <=> VsimTouched(c) /\ c # d)
    <3>1. c[2] + 1 >= uk + 1 <=> c[2] + 1 >= uk /\ c[2] + 1 # uk
      BY <1>0, <2>1
    <3> QED
      BY <1>0, <1>1, <3>1 DEF VsimLocked, VsimTouched, Locking
  <2>4. c = d => ~SwitchLocked(c) /\ ~SwitchTouched(c) /\ ~UrcLocked(c) /\ ~FirstToLock(c)
    BY <1>1, <1>2 DEF SwitchLocked, SwitchTouched, UrcLocked, FirstToLock
  <2>5. Held(c)'
    <3>1. CASE c = d
      BY <1>0, <1>3, <2>1, <2>2, <2>3, <2>4, <3>1, SwitchPlace DEF Held
    <3>2. CASE c # d
      BY <1>0, <1>3, <2>1, <2>2, <2>3, <3>2, SwitchPlace DEF Held
    <3> QED
      BY <3>1, <3>2
  <2>6. SenderWaits(c)'
    <3>1. CASE c = d
      BY <1>1, <1>3, <2>1, <3>1 DEF SenderWaits
    <3>2. CASE c # d
      BY <1>3, <2>1, <3>2, SenderKept
    <3> QED
      BY <3>1, <3>2
  <2> QED
    BY <2>5, <2>6
<1> QED
  BY <1>0, <1>4, Same DEF MutexesHeld, Taking, Locking
-----------------------------------------------------------------------------
(* Lines on their way                                                      *)

\* A step leaves the lines of these kinds where they are, or only reads them.
LinesKept(f, kinds) ==
  /\ OnWay(f, kinds)' <=> OnWay(f, kinds)
  /\ AtMostOne(f, kinds) => AtMostOne(f, kinds)'
TellingKept(f) == \A slot : Tells(f, slot) => Tells(f, slot)'

(* Where the lines of a descriptor and its reader stay, so do the lines on the way. *)
LEMMA LinesStay ==
  ASSUME NEW f, lines'[f] = lines[f], line'[f] = line[f],
         place'[f] \in {"have", "taken"} <=> place[f] \in {"have", "taken"}
  PROVE  (\A kinds : LinesKept(f, kinds)) /\ TellingKept(f)
<1>1. \A kinds : Unread(f, kinds)' = Unread(f, kinds) /\ (InHand(f, kinds)' <=> InHand(f, kinds))
  BY DEF Unread, InHand
<1> QED
  BY <1>1 DEF LinesKept, TellingKept, Tells, OnWay, AtMostOne

(* The line that is read comes into the hand. *)
LEMMA LineRead ==
  ASSUME Types, UNCHANGED inst, NEW r \in Channels, ReadLine(r)
  PROVE  (\A kinds : LinesKept(r, kinds)) /\ TellingKept(r)
<1>0. /\ place[r] = "idle" /\ place'[r] = "have" /\ lines[r] # << >>
      /\ line'[r] = Head(lines[r]) /\ lines'[r] = Tail(lines[r])
  BY DEF ReadLine, Types, TypeOK
<1>1. PICK n \in Nat \ {0} : DOMAIN lines[r] = 1 .. n /\ DOMAIN lines'[r] = 1 .. n - 1
                             /\ \A i \in 1 .. n - 1 : lines'[r][i] = lines[r][i + 1]
  <2>1. lines[r] \in Seq({"ok", "error", "map", "urc"} \X Slots)
    BY DEF Types, TypeOK
  <2>2. Len(lines[r]) \in Nat \ {0} /\ DOMAIN lines[r] = 1 .. Len(lines[r])
    BY <1>0, <2>1
  <2>3. Len(Tail(lines[r])) = Len(lines[r]) - 1
        /\ \A i \in 1 .. Len(lines[r]) - 1 : Tail(lines[r])[i] = lines[r][i + 1]
    BY <1>0, <2>1
  <2>4. Tail(lines[r]) \in Seq({"ok", "error", "map", "urc"} \X Slots)
    BY <1>0, <2>1
  <2>5. DOMAIN Tail(lines[r]) = 1 .. Len(lines[r]) - 1
    BY <2>3, <2>4
  <2> QED
    BY <1>0, <2>2, <2>3, <2>5
<1>2. Head(lines[r]) = lines[r][1]
  OBVIOUS
<1>3. ASSUME NEW kinds
      PROVE  /\ \A i \in 1 .. n - 1 : i \in Unread(r, kinds)' <=> i + 1 \in Unread(r, kinds)
             /\ Unread(r, kinds)' \subseteq 1 .. n - 1 /\ Unread(r, kinds) \subseteq 1 .. n
             /\ InHand(r, kinds)' <=> 1 \in Unread(r, kinds)
             /\ ~InHand(r, kinds)
  BY <1>0, <1>1, <1>2 DEF Unread, InHand
<1>4. ASSUME NEW kinds PROVE LinesKept(r, kinds)
  <2> DEFINE U == Unread(r, kinds)
             V == Unread(r, kinds)'
  <2>1. /\ \A i \in 1 .. n - 1 : i \in V <=> i + 1 \in U
        /\ V \subseteq 1 .. n - 1 /\ U \subseteq 1 .. n
        /\ InHand(r, kinds)' <=> 1 \in U
        /\ ~InHand(r, kinds)
    BY <1>3
  <2>2. (OnWay(r, kinds) <=> U # {}) /\ (OnWay(r, kinds)' <=> V # {} \/ InHand(r, kinds)')
    BY <2>1 DEF OnWay
  <2>3. (AtMostOne(r, kinds) <=> \A i, j \in U : i = j)
        /\ (AtMostOne(r, kinds)' <=> (\A i, j \in V : i = j) /\ (InHand(r, kinds)' => V = {}))
    BY <2>1 DEF AtMostOne
  <2> HIDE DEF U, V
  <2>4. \A i \in U : i = 1 \/ (i - 1 \in 1 .. n - 1 /\ i - 1 \in V)
    <3> SUFFICES ASSUME NEW i \in U, i # 1 PROVE i - 1 \in 1 .. n - 1 /\ i - 1 \in V
      OBVIOUS
    <3>1. i \in 1 .. n
      BY <2>1
    <3>2. i - 1 \in 1 .. n - 1 /\ (i - 1) + 1 = i
      BY <3>1
    <3> QED
      BY <2>1, <3>2
  <2>5. \A i \in V : i + 1 \in U /\ i \in Nat /\ i + 1 # 1
    BY <2>1
  <2>6. OnWay(r, kinds)' <=> OnWay(r, kinds)
    BY <2>1, <2>2, <2>4, <2>5
  <2>7. ASSUME \A i, j \in U : i = j PROVE (\A i, j \in V : i = j) /\ (1 \in U => V = {})
    <3>1. \A i, j \in V : i + 1 = j + 1
      BY <2>5, <2>7
    <3>2. \A i, j \in V : i = j
      BY <2>5, <3>1
    <3>3. 1 \in U => V = {}
      BY <2>5, <2>7
    <3> QED
      BY <3>2, <3>3
  <2> QED
    BY <2>1, <2>3, <2>6, <2>7 DEF LinesKept
<1>5. ASSUME NEW slot, Tells(r, slot) PROVE Tells(r, slot)'
  <2>1. \A i \in Unread(r, {"map"}) : lines[r][i][2] = slot
    BY <1>5 DEF Tells
  <2>2. \A i \in Unread(r, {"map"})' : lines'[r][i][2] = slot
    <3> SUFFICES ASSUME NEW i \in Unread(r, {"map"})' PROVE lines'[r][i][2] = slot
      OBVIOUS
    <3>1. i \in 1 .. n - 1 /\ i + 1 \in Unread(r, {"map"})
      BY <1>3
    <3> QED
      BY <1>1, <2>1, <3>1
  <2>3. InHand(r, {"map"})' => line'[r][2] = slot
    BY <1>0, <1>2, <1>3, <2>1
  <2> QED
    BY <2>2, <2>3 DEF Tells
<1> QED
  BY <1>4, <1>5 DEF TellingKept

(* All the steps of a reader but processLine move lines at most into the hand. *)
LEMMA ReaderLines ==
  ASSUME Types, UNCHANGED inst, NEW r \in Channels,
         ReadLine(r) \/ TakeReaderMutex(r) \/ ReleaseReaderMutex(r) \/ WaitFlag(r),
         NEW f \in Channels
  PROVE  (\A kinds : LinesKept(f, kinds)) /\ TellingKept(f)
<1>0. place \in [Channels -> {"idle", "have", "taken", "processed", "waitFlag"}]
      /\ DOMAIN line = Channels /\ DOMAIN lines = Channels
  BY DEF Types, TypeOK
<1>1. CASE ReadLine(r) /\ f = r
  BY <1>1, LineRead
<1>2. CASE ReadLine(r) /\ f # r
  BY <1>0, <1>2, LinesStay DEF ReadLine
<1>3. CASE TakeReaderMutex(r)
  BY <1>0, <1>3, LinesStay DEF TakeReaderMutex, modem
<1>4. CASE ReleaseReaderMutex(r)
  BY <1>0, <1>4, LinesStay DEF ReleaseReaderMutex, modem
<1>5. CASE WaitFlag(r)
  BY <1>0, <1>5, LinesStay DEF WaitFlag, modem
<1> QED
  BY <1>1, <1>2, <1>3, <1>4, <1>5

(* processLine takes the line in hand, and no other. *)
LEMMA LineProcessed ==
  ASSUME Types, UNCHANGED inst, NEW r \in Channels, ProcessLine(r)
  PROVE  /\ \A f \in Channels : f # r => (\A kinds : LinesKept(f, kinds)) /\ TellingKept(f)
         /\ \A kinds : line[r][1] \notin kinds => LinesKept(r, kinds)
         /\ \A kinds : line[r][1] \in kinds /\ AtMostOne(r, kinds)
              => OnWay(r, kinds) /\ ~OnWay(r, kinds)' /\ AtMostOne(r, kinds)'
         /\ TellingKept(r)
<1>0. place \in [Channels -> {"idle", "have", "taken", "processed", "waitFlag"}]
      /\ UNCHANGED << line, lines >> /\ place[r] = "taken"
      /\ place' = [place EXCEPT ![r] = "processed"]
  BY DEF Types, TypeOK, ProcessLine, modem
<1>1. \A f \in Channels : f # r => (\A kinds : LinesKept(f, kinds)) /\ TellingKept(f)
  BY <1>0, LinesStay
<1>2. \A kinds : /\ Unread(r, kinds)' = Unread(r, kinds) /\ ~InHand(r, kinds)'
                 /\ InHand(r, kinds) <=> line[r][1] \in kinds
  BY <1>0 DEF Unread, InHand
<1>3. \A kinds : line[r][1] \notin kinds => LinesKept(r, kinds)
  BY <1>2 DEF LinesKept, OnWay, AtMostOne
<1>4. \A kinds : line[r][1] \in kinds /\ AtMostOne(r, kinds)
              => OnWay(r, kinds) /\ ~OnWay(r, kinds)' /\ AtMostOne(r, kinds)'
  BY <1>2 DEF OnWay, AtMostOne
<1>5. TellingKept(r)
  BY <1>0, <1>2 DEF TellingKept, Tells
<1> QED
  BY <1>1, <1>3, <1>4, <1>5

(* A line is appended. *)
LEMMA LineAppended ==
  ASSUME Types, NEW f \in Channels, NEW kind \in Kinds, NEW slot,
         lines'[f] = Append(lines[f], << kind, slot >>), UNCHANGED readers
  PROVE  /\ \A kinds : kind \notin kinds => LinesKept(f, kinds)
         /\ \A kinds : kind \in kinds => OnWay(f, kinds)'
         /\ \A kinds : kind \in kinds /\ ~OnWay(f, kinds) => AtMostOne(f, kinds)'
         /\ kind # "map" => TellingKept(f)
         /\ kind = "map" /\ ~OnWay(f, {"map"}) => Tells(f, slot)'
<1>0. UNCHANGED << place, line >>
  BY DEF readers
<1>1. PICK n \in Nat : DOMAIN lines[f] = 1 .. n /\ DOMAIN lines'[f] = 1 .. n + 1
                       /\ (\A i \in 1 .. n : lines'[f][i] = lines[f][i])
                       /\ lines'[f][n + 1] = << kind, slot >>
  <2>1. lines[f] \in Seq({"ok", "error", "map", "urc"} \X Slots)
    BY DEF Types, TypeOK
  <2>2. Len(lines[f]) \in Nat /\ DOMAIN lines[f] = 1 .. Len(lines[f])
    BY <2>1
  <2>3. DOMAIN Append(lines[f], << kind, slot >>) = 1 .. Len(lines[f]) + 1
        /\ (\A i \in 1 .. Len(lines[f]) : Append(lines[f], << kind, slot >>)[i] = lines[f][i])
        /\ Append(lines[f], << kind, slot >>)[Len(lines[f]) + 1] = << kind, slot >>
    BY <2>1, <2>2
  <2> QED
    BY <2>2, <2>3
<1>2. ASSUME NEW kinds
      PROVE  /\ kind \in kinds => Unread(f, kinds)' = Unread(f, kinds) \cup {n + 1}
             /\ kind \notin kinds => Unread(f, kinds)' = Unread(f, kinds)
             /\ InHand(f, kinds)' <=> InHand(f, kinds)
  <2>1. lines'[f][n + 1][1] = kind
    BY <1>1
  <2>2. \A i \in 1 .. n + 1 : i \in 1 .. n \/ i = n + 1
    OBVIOUS
  <2>3. n + 1 \in 1 .. n + 1 /\ n + 1 \notin 1 .. n
    OBVIOUS
  <2>4. \A i : i \in Unread(f, kinds)' <=> i \in Unread(f, kinds) \/ (kind \in kinds /\ i = n + 1)
    BY <1>1, <2>1, <2>2, <2>3 DEF Unread
  <2>5. InHand(f, kinds)' <=> InHand(f, kinds)
    BY <1>0 DEF InHand
  <2>6. kind \in kinds => Unread(f, kinds)' = Unread(f, kinds) \cup {n + 1}
    BY <2>4
  <2>7. kind \notin kinds => Unread(f, kinds)' = Unread(f, kinds)
    BY <2>4
  <2> QED
    BY <2>5, <2>6, <2>7
<1>3. \A kinds : kind \notin kinds => LinesKept(f, kinds)
  BY <1>2 DEF LinesKept, OnWay, AtMostOne
<1>4. \A kinds : kind \in kinds => OnWay(f, kinds)'
  BY <1>2 DEF OnWay
<1>5. \A kinds : kind \in kinds /\ ~OnWay(f, kinds) => AtMostOne(f, kinds)'
  BY <1>2 DEF OnWay, AtMostOne
<1>6. ASSUME kind # "map" PROVE TellingKept(f)
  <2>1. Unread(f, {"map"})' = Unread(f, {"map"}) /\ (InHand(f, {"map"})' <=> InHand(f, {"map"}))
    <3>1. \A kinds : kind \notin kinds =>
            Unread(f, kinds)' = Unread(f, kinds) /\ (InHand(f, kinds)' <=> InHand(f, kinds))
      BY <1>2
    <3>2. kind \notin {"map"}
      BY <1>6
    <3> QED
      BY <3>1, <3>2
  <2>2. Unread(f, {"map"}) \subseteq 1 .. n
    BY <1>1 DEF Unread
  <2> QED
    BY <1>0, <1>1, <2>1, <2>2 DEF TellingKept, Tells
<1>7. ASSUME kind = "map", ~OnWay(f, {"map"}) PROVE Tells(f, slot)'
  <2>1. Unread(f, {"map"})' = {n + 1} /\ ~InHand(f, {"map"})'
    BY <1>2, <1>7 DEF OnWay
  <2>2. lines'[f][n + 1][2] = slot
    BY <1>1
  <2> QED
    BY <2>1, <2>2 DEF Tells
<1> QED
  BY <1>3, <1>4, <1>5, <1>6, <1>7
-----------------------------------------------------------------------------
(* Exchanges, and who awaits an answer                                     *)

(* Steps that exchange no channels keep the pairing. *)
LEMMA PairedKept ==
  ASSUME Paired, UNCHANGED << inst, fd, ctxOf >>
  PROVE  Paired'
BY Same DEF Paired

\* No command awaits an answer on the channels of these classes, and their readers stand still.
Quiet(classes) ==
  \A c \in Channels : c[1] \in classes =>
    waiting[c] = "none" /\ (c[1] # "own" => readerMutex[c] = "switch")

Exchanging == (Locked /\ ~NoReset) \/ SwitchAll \/ SwitchUrc \/ SwitchVsim

(* An exchange finds the channels it turns locked and quiet. *)
LEMMA ExchangeIsQuiet ==
  ASSUME Types, Paired, MutexesHeld, Awaited, UNCHANGED inst
  PROVE  /\ Locked /\ ~NoReset => Turned({"urc"}, majorSlot, target) /\ Quiet({"urc"})
         /\ SwitchAll => Turned(Exchanged, majorSlot, target) /\ Quiet(Exchanged)
         /\ SwitchUrc => Turned({"urc"}, urcOld, urcNew) /\ Quiet({"urc"})
         /\ SwitchVsim => Turned({"vsim"}, urcOld, urcNew) /\ Quiet({"vsim"})
<1>0. /\ inst \in Instances /\ majorSlot \in Slots /\ target \in Slots /\ urcOld \in Slots
      /\ urcNew \in Slots /\ fd \in [Channels -> Channels] /\ ctxOf \in [Channels -> Channels]
      /\ waiting \in [Channels -> {"none", "plain", "map"}]
      /\ SimCount \in Nat /\ own[1] = "own" /\ NoReset \in BOOLEAN
  BY Instance DEF Types, TypeOK, own
<1>1. ASSUME NEW c \in Channels, waiting[c] # "none"
      PROVE  (c[1] = "cmd" /\ restartMutex[c] = "sender") \/ (c = own /\ sw = "mapWait")
  BY <1>1 DEF Awaited, MutexesHeld, SenderWaits
<1>2. ASSUME NEW c \in Channels, c[1] \in {"urc", "vsim"} PROVE waiting[c] = "none"
  BY <1>0, <1>1, <1>2
<1>3. ASSUME NEW c \in Channels, Holding \/ (sw = "need" /\ todo = {}), c \in Affected
      PROVE  restartMutex[c] = "switch" /\ (c[1] # "own" => readerMutex[c] = "switch")
  <2>1. SwitchLocked(c)
    BY <1>3 DEF SwitchLocked, Taking, Holding
  <2> QED
    BY <2>1 DEF MutexesHeld, Held
<1>4. ASSUME Locked, ~NoReset PROVE Turned({"urc"}, majorSlot, target) /\ Quiet({"urc"})
  <2>1. Turned({"urc"}, majorSlot, target)
    BY <1>0, <1>4, Exchange DEF Locked
  <2>2. ASSUME NEW c \in Channels, c[1] \in {"urc"} PROVE readerMutex[c] = "switch"
    BY <1>0, <1>3, <1>4, <2>2, AffectedIs DEF Locked
  <2> QED
    BY <1>2, <2>1, <2>2 DEF Quiet
<1>5. ASSUME SwitchAll PROVE Turned(Exchanged, majorSlot, target) /\ Quiet(Exchanged)
  <2>1. Turned(Exchanged, majorSlot, target)
    BY <1>0, <1>5, Exchange DEF SwitchAll
  <2>2. sw = "waitUrc" /\ Holding
    BY <1>5 DEF SwitchAll, Holding
  <2>3. ASSUME NEW c \in Channels, c[1] \in Exchanged
        PROVE  waiting[c] = "none" /\ (c[1] # "own" => readerMutex[c] = "switch")
    <3>1. CASE c = own
      BY <1>0, <1>1, <2>2, <3>1
    <3>2. CASE c # own
      <4>1. NoReset => c[1] \notin {"urc", "vsim"}
        BY <2>3 DEF Exchanged
      <4>2. c \in Affected
        BY <1>0, <3>2, <4>1, AffectedIs
      <4>3. restartMutex[c] = "switch" /\ (c[1] # "own" => readerMutex[c] = "switch")
        BY <1>3, <2>2, <4>2
      <4> QED
        BY <1>1, <2>2, <4>3
    <3> QED
      BY <3>1, <3>2
  <2> QED
    BY <2>1, <2>3 DEF Quiet
<1>6. ASSUME SwitchUrc PROVE Turned({"urc"}, urcOld, urcNew) /\ Quiet({"urc"})
  <2>1. Turned({"urc"}, urcOld, urcNew)
    BY <1>0, <1>6, Exchange DEF SwitchUrc
  <2>2. ASSUME NEW c \in Channels, c[1] \in {"urc"} PROVE readerMutex[c] = "switch"
    <3>1. c[2] \in Nat /\ c[2] < SimCount /\ urcAt = "lockReaders" /\ uk = SimCount + 1
      BY <1>0, <1>6, ChannelIs DEF SwitchUrc
    <3>2. UrcLocked(c)
      BY <1>0, <2>2, <3>1 DEF UrcLocked
    <3> QED
      BY <2>2, <3>2 DEF MutexesHeld, Held
  <2> QED
    BY <1>2, <2>1, <2>2 DEF Quiet
<1>7. ASSUME SwitchVsim PROVE Turned({"vsim"}, urcOld, urcNew) /\ Quiet({"vsim"})
  <2>1. Turned({"vsim"}, urcOld, urcNew)
    BY <1>0, <1>7, Exchange DEF SwitchVsim
  <2>2. ASSUME NEW c \in Channels, c[1] \in {"vsim"} PROVE readerMutex[c] = "switch"
    <3>1. c[2] \in Nat /\ c[2] < SimCount /\ urcAt = "need" /\ uk = SimCount + 1
      BY <1>0, <1>7, ChannelIs DEF SwitchVsim
    <3>2. VsimLocked(c)
      BY <1>0, <2>2, <3>1 DEF VsimLocked, Locking
    <3> QED
      BY <2>2, <3>2 DEF MutexesHeld, Held
  <2> QED
    BY <1>2, <2>1, <2>2 DEF Quiet
<1> QED
  BY <1>4, <1>5, <1>6, <1>7

(* What an exchange of quiet channels does to who awaits an answer and who holds a mutex. *)
LEMMA TurnedReaders ==
  ASSUME Types, Paired, ReadersHold, UNCHANGED << inst, place, readerMutex >>,
         NEW classes, NEW old, NEW new, Turned(classes, old, new), Quiet(classes)
  PROVE  ReadersHold'
<1>0. /\ ctxOf \in [Channels -> Channels] /\ Channels' = Channels
      /\ \A r \in Channels : ctxOf[r][1] = r[1]
      /\ readerMutex \in [Channels -> {"free", "reader", "switch"}]
  BY Same DEF Types, TypeOK, Paired
<1>1. ASSUME NEW r \in Channels, r[1] # "own", place[r] \in {"taken", "processed"}
      PROVE  ctxOf'[r] = ctxOf[r] /\ readerMutex[ctxOf[r]] = "reader"
  <2>1. readerMutex[ctxOf[r]] = "reader" /\ ctxOf[r] \in Channels /\ ctxOf[r][1] = r[1]
    BY <1>0, <1>1 DEF ReadersHold
  <2>2. r[1] \notin classes
    BY <1>1, <2>1 DEF Quiet
  <2> QED
    BY <2>1, <2>2 DEF Turned
<1>2. \A r \in caught' : r[1] = "own"
  <2>1. \A r \in caught : r[1] = "own"
    BY DEF ReadersHold, ReaderExcluded
  <2>2. caught' = caught \cup {r \in Channels : /\ place[r] \in {"taken", "processed"}
                                               /\ ctxOf'[r] # ctxOf[r]}
    BY DEF Turned
  <2> QED
    BY <1>1, <2>1, <2>2
<1> QED
  BY <1>0, <1>1, <1>2 DEF ReadersHold, ReaderExcluded

(* Nor does an exchange of quiet channels carry an answer to a channel that awaits none. *)
LEMMA TurnedAnswers ==
  ASSUME Types, Paired, AnswersAwaited, UNCHANGED << inst, readers, lines, owed, waiting, misrouted >>,
         NEW classes, NEW old, NEW new, Turned(classes, old, new), Quiet(classes)
  PROVE  AnswersAwaited'
<1>0. /\ ctxOf \in [Channels -> Channels] /\ Channels' = Channels
      /\ \A r \in Channels : ctxOf[r][1] = r[1]
      /\ UNCHANGED << place, line >>
  BY Same DEF Types, TypeOK, Paired, readers
<1>1. ASSUME NEW f \in Channels PROVE LinesKept(f, Answers)
  BY <1>0, LinesStay
<1>2. ASSUME NEW f \in Channels
      PROVE  /\ AtMostOne(f, Answers)'
             /\ owed'[f] # "none" => ~OnWay(f, Answers)'
             /\ owed'[f] # "none" \/ OnWay(f, Answers)' => waiting'[ctxOf'[f]] # "none"
  <2>1. /\ AtMostOne(f, Answers) /\ (owed[f] # "none" => ~OnWay(f, Answers))
        /\ owed[f] # "none" \/ OnWay(f, Answers) => waiting[ctxOf[f]] # "none"
    BY DEF AnswersAwaited
  <2>2. f[1] \in classes => waiting[ctxOf[f]] = "none"
    BY <1>0 DEF Quiet
  <2>3. f[1] \notin classes => ctxOf'[f] = ctxOf[f]
    BY DEF Turned
  <2> QED
    BY <1>1, <2>1, <2>2, <2>3 DEF LinesKept
<1>3. ~misrouted'
  BY DEF AnswersAwaited
<1> QED
  BY <1>0, <1>2, <1>3 DEF AnswersAwaited

(* Who awaits an answer goes on awaiting it. *)
LEMMA AwaitedKept ==
  ASSUME Awaited, UNCHANGED inst,
         \A c \in Channels : waiting'[c] # "none" =>
           /\ waiting[c] # "none"
           /\ c[1] = "cmd" /\ sender[c] = "handling" => sender'[c] = "handling"
           /\ c = own /\ sw = "mapWait" => sw' = "mapWait",
         \A f \in Channels : owed'[f] = "plain" => owed[f] = "plain"
  PROVE  Awaited'
BY Same DEF Awaited

(* A command sent where none is awaited. *)
LEMMA SentAnswers ==
  ASSUME Types, Paired, UNCHANGED << inst, ctxOf, readers, lines, misrouted >>, AnswersAwaited,
         NEW c \in Channels, NEW command \in {"plain", "map"}, Send(c, command), waiting[c] = "none"
  PROVE  AnswersAwaited'
<1>0. /\ ctxOf \in [Channels -> Channels] /\ fd \in [Channels -> Channels] /\ Channels' = Channels
      /\ \A d \in Channels : ctxOf[fd[d]] = d /\ fd[ctxOf[d]] = d
      /\ owed \in [Channels -> {"none", "plain", "map"}]
      /\ waiting \in [Channels -> {"none", "plain", "map"}]
      /\ UNCHANGED << place, line >>
      /\ waiting' = [waiting EXCEPT ![c] = command] /\ owed' = [owed EXCEPT ![fd[c]] = command]
  BY Same DEF Types, TypeOK, Paired, readers, Send
<1>1. \A f \in Channels : LinesKept(f, Answers)
  BY <1>0, LinesStay
<1>2. ASSUME NEW f \in Channels
      PROVE  /\ AtMostOne(f, Answers)'
             /\ owed'[f] # "none" => ~OnWay(f, Answers)'
             /\ owed'[f] # "none" \/ OnWay(f, Answers)' => waiting'[ctxOf'[f]] # "none"
  <2>1. /\ AtMostOne(f, Answers) /\ (owed[f] # "none" => ~OnWay(f, Answers))
        /\ owed[f] # "none" \/ OnWay(f, Answers) => waiting[ctxOf[f]] # "none"
    BY DEF AnswersAwaited
  <2>2. LinesKept(f, Answers)
    BY <1>1
  <2>3. CASE f = fd[c]
    <3>1. ctxOf[f] = c /\ waiting'[c] = command /\ ~OnWay(f, Answers)
      BY <1>0, <2>1, <2>3
    <3> QED
      BY <2>1, <2>2, <3>1 DEF LinesKept
  <2>4. CASE f # fd[c]
    <3>1. ctxOf[f] # c /\ ctxOf[f] \in Channels
      BY <1>0, <2>4
    <3>2. waiting'[ctxOf[f]] = waiting[ctxOf[f]] /\ owed'[f] = owed[f]
      BY <1>0, <2>4, <3>1
    <3> QED
      BY <2>1, <2>2, <3>2 DEF LinesKept
  <2> QED
    BY <2>3, <2>4
<1>3. ~misrouted'
  BY DEF AnswersAwaited
<1> QED
  BY <1>0, <1>2, <1>3 DEF AnswersAwaited

(* Steps that read and send nothing keep every answer where it is awaited. *)
LEMMA AnswersKept ==
  ASSUME AnswersAwaited, UNCHANGED << inst, ctxOf, owed, waiting, misrouted >>,
         \A f \in Channels : LinesKept(f, Answers)
  PROVE  AnswersAwaited'
BY Same DEF AnswersAwaited, LinesKept

(* An answer is processed where it is awaited. *)
LEMMA ProcessedAnswers ==
  ASSUME Types, Paired, UNCHANGED inst, AnswersAwaited, NEW r \in Channels, ProcessLine(r)
  PROVE  AnswersAwaited'
<1> DEFINE c == ctxOf[r]
<1>0. /\ ctxOf \in [Channels -> Channels] /\ Channels' = Channels
      /\ \A d \in Channels : fd[ctxOf[d]] = d
      /\ waiting \in [Channels -> {"none", "plain", "map"}]
      /\ UNCHANGED << ctxOf, owed >> /\ place[r] = "taken"
  BY Same DEF Types, TypeOK, Paired, ProcessLine, modem
<1>1. \A f \in Channels :
        /\ AtMostOne(f, Answers) /\ (owed[f] # "none" => ~OnWay(f, Answers))
        /\ owed[f] # "none" \/ OnWay(f, Answers) => waiting[ctxOf[f]] # "none"
  BY DEF AnswersAwaited
<1>2. ~misrouted
  BY DEF AnswersAwaited
<1>3. \A f \in Channels : f # r => LinesKept(f, Answers)
  BY LineProcessed
<1>4. CASE line[r][1] \in Answers
  <2>1. waiting' = [waiting EXCEPT ![c] = "none"] /\ misrouted' = (misrouted \/ waiting[c] = "none")
    BY <1>4 DEF ProcessLine, Answers
  <2>2. OnWay(r, Answers) /\ ~OnWay(r, Answers)' /\ AtMostOne(r, Answers)'
    BY <1>1, <1>4, LineProcessed
  <2>3. ~misrouted' /\ owed[r] = "none"
    BY <1>1, <1>2, <2>1, <2>2
  <2>4. ASSUME NEW f \in Channels, f # r
        PROVE  waiting'[ctxOf[f]] = waiting[ctxOf[f]]
    <3>1. ctxOf[f] # c /\ ctxOf[f] \in Channels
      BY <1>0, <2>4
    <3> QED
      BY <1>0, <2>1, <3>1
  <2>5. ASSUME NEW f \in Channels
        PROVE  /\ AtMostOne(f, Answers)'
               /\ owed'[f] # "none" => ~OnWay(f, Answers)'
               /\ owed'[f] # "none" \/ OnWay(f, Answers)' => waiting'[ctxOf'[f]] # "none"
    <3>1. CASE f = r
      BY <1>0, <2>2, <2>3, <3>1
    <3>2. CASE f # r
      <4>1. LinesKept(f, Answers) /\ waiting'[ctxOf[f]] = waiting[ctxOf[f]]
        BY <1>3, <2>4, <3>2
      <4> QED
        BY <1>0, <1>1, <4>1 DEF LinesKept
    <3> QED
      BY <3>1, <3>2
  <2> QED
    BY <1>0, <2>3, <2>5 DEF AnswersAwaited
<1>5. CASE line[r][1] \notin Answers
  <2>1. UNCHANGED << waiting, misrouted >>
    BY <1>5 DEF ProcessLine, Answers
  <2>2. \A f \in Channels : LinesKept(f, Answers)
    BY <1>3, <1>5, LineProcessed
  <2> QED
    BY <1>0, <2>1, <2>2, AnswersKept
<1> QED
  BY <1>4, <1>5
-----------------------------------------------------------------------------
(* Flag, indications and the major slot of the modem, with NoReset         *)

(* Where no line moves, all lines stay. *)
LEMMA AllLinesStay ==
  ASSUME UNCHANGED << lines, readers >>, NEW f
  PROVE  (\A kinds : LinesKept(f, kinds)) /\ TellingKept(f)
BY LinesStay DEF readers

(* The lines after an answer of the modem. *)
LEMMA ModemLines ==
  ASSUME Types, UNCHANGED inst, NEW f \in Channels, ModemAnswers(f)
  PROVE  \E answer \in Answers :
           /\ answer = "error" => owed[f] = "map"
           /\ mdMajor' = IF owed[f] = "map" /\ answer = "ok" THEN target ELSE mdMajor
           /\ LET tells == NoReset /\ owed[f] = "map" /\ answer = "ok" IN
              /\ \A kinds : answer \notin kinds => LinesKept(f, kinds)
              /\ \A kinds : answer \in kinds /\ ~OnWay(f, kinds) => AtMostOne(f, kinds)'
              /\ \A kinds : answer \in kinds => OnWay(f, kinds)'
              /\ TellingKept(f)
              /\ \A g \in Channels : g # f =>
                   /\ \A kinds : "map" \notin kinds => LinesKept(g, kinds)
                   /\ ~(tells /\ g[1] = "urc") => (\A kinds : LinesKept(g, kinds)) /\ TellingKept(g)
                   /\ tells /\ g[1] = "urc" =>
                        /\ OnWay(g, {"map"})'
                        /\ ~OnWay(g, {"map"}) => AtMostOne(g, {"map"})' /\ Tells(g, target)'
<1>1. PICK answer \in Answers :
        /\ answer = "error" => owed[f] = "map"
        /\ mdMajor' = IF owed[f] = "map" /\ answer = "ok" THEN target ELSE mdMajor
        /\ lines' = [g \in Channels |->
             IF g = f THEN Append(lines[g], << answer, 0 >>)
             ELSE IF g[1] = "urc" /\ NoReset /\ owed[f] = "map" /\ answer = "ok"
                  THEN Append(lines[g], << "map", target >>) ELSE lines[g]]
  BY DEF ModemAnswers, Answers
<1> DEFINE tells == NoReset /\ owed[f] = "map" /\ answer = "ok"
<1>2. answer \in Kinds /\ answer # "map" /\ "map" \in Kinds
  BY DEF Kinds, Answers
<1>3. UNCHANGED readers /\ UNCHANGED << place, line >>
  BY DEF ModemAnswers, readers
<1>4. /\ \A kinds : answer \notin kinds => LinesKept(f, kinds)
      /\ \A kinds : answer \in kinds /\ ~OnWay(f, kinds) => AtMostOne(f, kinds)'
      /\ \A kinds : answer \in kinds => OnWay(f, kinds)'
      /\ TellingKept(f)
  <2>1. lines'[f] = Append(lines[f], << answer, 0 >>)
    BY <1>1
  <2> QED
    BY <1>2, <1>3, <2>1, LineAppended
<1>5. ASSUME NEW g \in Channels, g # f, ~(tells /\ g[1] = "urc")
      PROVE  (\A kinds : LinesKept(g, kinds)) /\ TellingKept(g)
  <2>1. lines'[g] = lines[g]
    BY <1>1, <1>5
  <2> QED
    BY <1>3, <2>1, LinesStay
<1>6. ASSUME NEW g \in Channels, g # f, tells, g[1] = "urc"
      PROVE  /\ \A kinds : "map" \notin kinds => LinesKept(g, kinds)
             /\ OnWay(g, {"map"})'
             /\ ~OnWay(g, {"map"}) => AtMostOne(g, {"map"})' /\ Tells(g, target)'
  <2>1. lines'[g] = Append(lines[g], << "map", target >>)
    BY <1>1, <1>6
  <2>2. PICK t : t = target
    OBVIOUS
  <2>3. lines'[g] = Append(lines[g], << "map", t >>) /\ UNCHANGED target
    BY <2>1, <2>2 DEF ModemAnswers
  <2>4. /\ \A kinds : "map" \notin kinds => LinesKept(g, kinds)
        /\ \A kinds : "map" \in kinds => OnWay(g, kinds)'
        /\ \A kinds : "map" \in kinds /\ ~OnWay(g, kinds) => AtMostOne(g, kinds)'
        /\ ~OnWay(g, {"map"}) => Tells(g, t)'
    BY <1>2, <1>3, <2>3, LineAppended
  <2>5. Tells(g, t)' => Tells(g, target)'
    BY <2>2, <2>3 DEF Tells
  <2> QED
    BY <2>4, <2>5
<1>7. ASSUME NEW g \in Channels, g # f, NEW kinds, "map" \notin kinds PROVE LinesKept(g, kinds)
  BY <1>5, <1>6, <1>7
<1> QED
  BY <1>1, <1>4, <1>5, <1>6, <1>7

(* An unsolicited line is of no kind that counts. *)
LEMMA UnsolicitedLines ==
  ASSUME Types, UNCHANGED inst, NEW f \in Channels, Unsolicited(f), NEW g \in Channels
  PROVE  (\A kinds : "urc" \notin kinds => LinesKept(g, kinds)) /\ TellingKept(g)
<1>0. UNCHANGED << place, line >> /\ UNCHANGED readers /\ "urc" \in Kinds /\ "urc" # "map"
      /\ DOMAIN lines = Channels /\ lines' = [lines EXCEPT ![f] = Append(@, << "urc", 0 >>)]
  BY DEF Unsolicited, readers, Kinds, Types
<1>1. CASE g = f
  <2>1. lines'[g] = Append(lines[g], << "urc", 0 >>)
    BY <1>0, <1>1
  <2> QED
    BY <1>0, <2>1, LineAppended
<1>2. CASE g # f
  <2>1. lines'[g] = lines[g]
    BY <1>0, <1>2
  <2> QED
    BY <1>0, <2>1, LinesStay
<1> QED
  BY <1>1, <1>2

(* An answer of the modem comes where it is awaited. *)
LEMMA ModemAwaited ==
  ASSUME Types, UNCHANGED inst, AnswersAwaited, NEW f \in Channels, ModemAnswers(f)
  PROVE  AnswersAwaited'
<1>0. /\ UNCHANGED << ctxOf, waiting, misrouted >> /\ owed[f] # "none"
      /\ owed \in [Channels -> {"none", "plain", "map"}] /\ owed' = [owed EXCEPT ![f] = "none"]
  BY DEF ModemAnswers, Types, TypeOK
<1>1. /\ AtMostOne(f, Answers)' /\ OnWay(f, Answers)'
      /\ \A g \in Channels : g # f => LinesKept(g, Answers)
  <2>1. ~OnWay(f, Answers) /\ "map" \notin Answers
    BY <1>0 DEF AnswersAwaited, Answers
  <2> QED
    BY <2>1, ModemLines
<1>2. ASSUME NEW g \in Channels
      PROVE  /\ AtMostOne(g, Answers)'
             /\ owed'[g] # "none" => ~OnWay(g, Answers)'
             /\ owed'[g] # "none" \/ OnWay(g, Answers)' => waiting'[ctxOf'[g]] # "none"
  <2>1. CASE g = f
    BY <1>0, <1>1, <2>1 DEF AnswersAwaited
  <2>2. CASE g # f
    BY <1>0, <1>1, <2>2 DEF AnswersAwaited, LinesKept
  <2> QED
    BY <2>1, <2>2
<1> QED
  BY <1>0, <1>2, Same DEF AnswersAwaited

(* Where the indications stay, none comes and none is lost. *)
LEMMA AnnouncingKept ==
  ASSUME UNCHANGED inst, \A f \in Channels : LinesKept(f, {"map"}), inst \in Instances
  PROVE  Announcing' = Announcing /\ UrcChannels \subseteq Channels
<1>1. UrcChannels \subseteq Channels
  BY Instance DEF UrcChannels, Channels
<1>2. \A f \in UrcChannels : OnWay(f, {"map"})' <=> OnWay(f, {"map"})
  BY <1>1 DEF LinesKept
<1> QED
  BY <1>1, <1>2, Same DEF Announcing

(* Steps that leave the indications and the new slot alone keep what the indications say. *)
LEMMA AnnouncedKept ==
  ASSUME Types, Announced,
         UNCHANGED << inst, mapUrcs, s_urc_count, target >>,
         \A f \in Channels : LinesKept(f, {"map"}) /\ TellingKept(f),
         ~urcFlag' => ~urcFlag /\ urcAt' # "lockReaders"
  PROVE  Announced'
<1>1. Channels' = Channels /\ (NoneAnnounced => NoneAnnounced')
  BY AnnouncingKept, Same DEF NoneAnnounced, Types
<1>2. ASSUME NEW f \in Channels
      PROVE  /\ f[1] # "urc" => ~OnWay(f, {"map"})'
             /\ AtMostOne(f, {"map"})' /\ Tells(f, target)'
  <2>1. /\ f[1] # "urc" => ~OnWay(f, {"map"})
        /\ AtMostOne(f, {"map"}) /\ Tells(f, target)
    BY DEF Announced
  <2>2. PICK t : t = target
    OBVIOUS
  <2>3. Tells(f, t)
    BY <2>1, <2>2
  <2>4. Tells(f, t)'
    BY <2>3 DEF TellingKept
  <2>5. Tells(f, target)'
    BY <2>2, <2>4 DEF Tells
  <2> QED
    BY <2>1, <2>5 DEF LinesKept
<1> QED
  BY <1>1, <1>2 DEF Announced

Mapping == {"map", "mapWait", "waitUrc"}

(* What the conditions on the flag are made of, where the lines, the indications and the modem's *)
(* major slot stay.                                                                            *)
LEMMA ObeyingKept ==
  ASSUME Types, UNCHANGED << inst, mapUrcs, s_urc_count, mdMajor, majorSlot >>,
         urcAt' = "lockReaders" <=> urcAt = "lockReaders",
         \A f \in Channels : LinesKept(f, {"map"}) /\ LinesKept(f, {"error"})
  PROVE  /\ NotObeyed' <=> NotObeyed
         /\ ErrorFree' <=> ErrorFree
         /\ Obeyed /\ sw' # "map" /\ target' = target
              /\ (\A f \in Channels : owed'[f] = "map" => owed[f] = "map") => Obeyed'
         /\ \A f \in Channels : /\ OnWay(f, {"error"})' <=> OnWay(f, {"error"})
                                /\ AtMostOne(f, {"error"}) => AtMostOne(f, {"error"})'
<1>1. Announcing' = Announcing /\ Channels' = Channels /\ SimCount' = SimCount
  BY AnnouncingKept, Same DEF Types
<1>2. NoneAnnounced' <=> NoneAnnounced
  BY <1>1 DEF NoneAnnounced
<1>3. \A f \in Channels : /\ OnWay(f, {"error"})' <=> OnWay(f, {"error"})
                          /\ AtMostOne(f, {"error"}) => AtMostOne(f, {"error"})'
  BY DEF LinesKept
<1>4. ErrorFree' <=> ErrorFree
  BY <1>1, <1>3 DEF ErrorFree
<1>5. NotObeyed' <=> NotObeyed
  BY <1>2 DEF NotObeyed
<1>6. Obeyed /\ sw' # "map" /\ target' = target
              /\ (\A f \in Channels : owed'[f] = "map" => owed[f] = "map") => Obeyed'
  BY <1>1, <1>2 DEF Obeyed
<1> QED
  BY <1>3, <1>4, <1>5, <1>6

(* Steps that neither raise nor lower the flag, nor touch the modem or its answers. *)
LEMMA FollowsKept ==
  ASSUME Types, FlagFollows,
         UNCHANGED << inst, mapUrcs, s_urc_count, urcFlag, mdMajor, majorSlot, urcOld, urcNew >>,
         UNCHANGED << sw, target >> \/ (sw \notin Mapping /\ sw' \notin Mapping),
         urcAt' = "lockReaders" <=> urcAt = "lockReaders", Locking' => Locking,
         \A f \in Channels : LinesKept(f, {"map"}) /\ LinesKept(f, {"error"}),
         \A f \in Channels : owed'[f] = "map" => owed[f] = "map",
         fd'[own] = fd[own],
         result'[own] = "error" => result[own] = "error",
         waiting[own] = "none" => waiting'[own] = "none"
  PROVE  FlagFollows'
<1> SUFFICES ASSUME NoReset' PROVE FlagFollows'
  BY DEF FlagFollows
<1>0. NoReset /\ own' = own /\ Channels' = Channels
  BY Same
<1> DEFINE map == \A f \in Channels : owed[f] = "map" =>
                    f = fd[own] /\ sw # "map" /\ urcFlag /\ NotObeyed /\ ErrorFree /\ result[own] # "error"
           bad == \A f \in Channels : OnWay(f, {"error"}) =>
                    /\ urcFlag /\ sw # "map" /\ NotObeyed /\ AtMostOne(f, {"error"})
                    /\ \A g \in Channels : OnWay(g, {"error"}) => g = f
<1>1. /\ sw = "map" => urcFlag
      /\ urcFlag => sw \in Mapping /\ (NotObeyed \/ Obeyed)
      /\ ~urcFlag => mdMajor = UrcMajor
      /\ urcAt = "lockReaders" => urcFlag /\ Obeyed /\ urcOld = majorSlot /\ urcNew = target
      /\ Locking => urcNew = UrcMajor
      /\ result[own] = "error" => /\ waiting[own] = "none" /\ sw \in {"map", "mapWait"}
                                  /\ urcFlag /\ NotObeyed /\ ErrorFree
      /\ map /\ bad
  BY <1>0 DEF FlagFollows, Mapping
<1>2. /\ NotObeyed' <=> NotObeyed
      /\ ErrorFree' <=> ErrorFree
      /\ Obeyed /\ UNCHANGED << sw, target >> => Obeyed'
      /\ \A f \in Channels : /\ OnWay(f, {"error"})' <=> OnWay(f, {"error"})
                             /\ AtMostOne(f, {"error"}) => AtMostOne(f, {"error"})'
  <2>1. Obeyed => sw # "map"
    BY DEF Obeyed
  <2> QED
    BY <2>1, ObeyingKept
<1>3. UrcMajor' = UrcMajor
  BY <1>1 DEF UrcMajor, Mapping
<1>4. urcFlag => UNCHANGED << sw, target >>
  BY <1>1
<1>5. map'
  BY <1>0, <1>1, <1>2, <1>4
<1>6. bad'
  BY <1>0, <1>1, <1>2, <1>4
<1> HIDE DEF map, bad
<1>7. /\ sw' = "map" => urcFlag'
      /\ urcFlag' => sw' \in Mapping /\ (NotObeyed' \/ Obeyed')
      /\ ~urcFlag' => mdMajor' = UrcMajor'
      /\ urcAt' = "lockReaders" => urcFlag' /\ Obeyed' /\ urcOld' = majorSlot' /\ urcNew' = target'
      /\ Locking' => urcNew' = UrcMajor'
      /\ result'[own] = "error" => /\ waiting'[own] = "none" /\ sw' \in {"map", "mapWait"}
                                   /\ urcFlag' /\ NotObeyed' /\ ErrorFree'
  <2>1. sw' = "map" => urcFlag'
    BY <1>1 DEF Mapping
  <2>2. urcFlag' => sw' \in Mapping /\ (NotObeyed' \/ Obeyed')
    BY <1>1, <1>2, <1>4
  <2>3. /\ ~urcFlag' => mdMajor' = UrcMajor'
        /\ Locking' => urcNew' = UrcMajor'
    BY <1>1, <1>3
  <2>4. urcAt' = "lockReaders" => urcFlag' /\ Obeyed' /\ urcOld' = majorSlot' /\ urcNew' = target'
    BY <1>1, <1>2, <1>4
  <2>5. result'[own] = "error" => /\ waiting'[own] = "none" /\ sw' \in {"map", "mapWait"}
                                  /\ urcFlag' /\ NotObeyed' /\ ErrorFree'
    BY <1>1, <1>2, <1>4
  <2> QED
    BY <2>1, <2>2, <2>3, <2>4, <2>5
<1> QED
  BY <1>0, <1>5, <1>6, <1>7 DEF FlagFollows, Mapping, map, bad

(* Neither the readers' other steps nor those of ordinary senders. *)
LEMMA ReaderFlags ==
  ASSUME Types, Announced, FlagFollows, UNCHANGED inst, NEW r \in Channels,
         ReadLine(r) \/ TakeReaderMutex(r) \/ ReleaseReaderMutex(r) \/ WaitFlag(r)
  PROVE  Announced' /\ FlagFollows'
<1>1. UNCHANGED << fd, urcAt, urcOld, urcNew, s_urc_count, mapUrcs, urcFlag, target, mdMajor, majorSlot,
                   sw, owed, result, waiting >>
  BY DEF ReadLine, TakeReaderMutex, ReleaseReaderMutex, WaitFlag, modem, urcVars
<1>2. \A f \in Channels : LinesKept(f, {"map"}) /\ LinesKept(f, {"error"}) /\ TellingKept(f)
  BY ReaderLines
<1>3. ~urcFlag' => ~urcFlag /\ urcAt' # "lockReaders"
  BY <1>1 DEF Announced
<1>4. Announced'
  BY <1>1, <1>2, <1>3, AnnouncedKept
<1>5. FlagFollows'
  BY <1>1, <1>2, FollowsKept DEF Locking
<1> QED
  BY <1>4, <1>5

(* An unsolicited line is neither an indication nor an answer. *)
LEMMA UnsolicitedFlags ==
  ASSUME Types, Announced, FlagFollows, UNCHANGED inst, NEW f \in Channels, Unsolicited(f)
  PROVE  Announced' /\ FlagFollows'
<1>1. UNCHANGED << fd, urcAt, urcOld, urcNew, s_urc_count, mapUrcs, urcFlag, target, mdMajor, majorSlot,
                   sw, owed, result, waiting >>
  BY DEF Unsolicited, urcVars
<1>2. \A g \in Channels : LinesKept(g, {"map"}) /\ LinesKept(g, {"error"}) /\ TellingKept(g)
  BY UnsolicitedLines
<1>3. ~urcFlag' => ~urcFlag /\ urcAt' # "lockReaders"
  BY <1>1 DEF Announced
<1>4. Announced'
  BY <1>1, <1>2, <1>3, AnnouncedKept
<1>5. FlagFollows'
  BY <1>1, <1>2, FollowsKept DEF Locking
<1> QED
  BY <1>4, <1>5

(* Nor do ordinary senders touch the flag, the indications or the answer to the mapping. *)
LEMMA SenderFlags ==
  ASSUME Types, Paired, Announced, FlagFollows, UNCHANGED inst, NEW c \in Channels,
         StartHandler(c) \/ EndHandler(c) \/ Resume(c)
  PROVE  Announced' /\ FlagFollows'
<1>1. UNCHANGED << fd, urcAt, urcOld, urcNew, s_urc_count, mapUrcs, urcFlag, target, mdMajor, majorSlot,
                   sw, lines, readers >>
  BY DEF StartHandler, EndHandler, Resume, urcVars, modem
<1>2. \A f \in Channels : LinesKept(f, {"map"}) /\ LinesKept(f, {"error"}) /\ TellingKept(f)
  BY <1>1, AllLinesStay
<1>3. ~urcFlag' => ~urcFlag /\ urcAt' # "lockReaders"
  BY <1>1 DEF Announced
<1>4. own \in Channels /\ own[1] = "own" /\ fd[c] \in Channels
      /\ owed \in [Channels -> {"none", "plain", "map"}]
      /\ waiting \in [Channels -> {"none", "plain", "map"}]
      /\ result \in [Channels -> {"none", "ok", "error"}]
  BY Instance DEF Types, TypeOK, own
<1>5. /\ \A f \in Channels : owed'[f] = "map" => owed[f] = "map"
      /\ result'[own] = result[own] /\ waiting'[own] = waiting[own]
  <2>1. CASE StartHandler(c)
    <3>1. c # own /\ owed' = [owed EXCEPT ![fd[c]] = "plain"]
          /\ result' = [result EXCEPT ![c] = "none"] /\ waiting' = [waiting EXCEPT ![c] = "plain"]
      BY <1>4, <2>1 DEF StartHandler, Send
    <3> QED
      BY <1>4, <3>1
  <2>2. CASE EndHandler(c) \/ Resume(c)
    BY <2>2 DEF EndHandler, Resume, modem
  <2> QED
    BY <2>1, <2>2
<1>6. Announced'
  BY <1>1, <1>2, <1>3, AnnouncedKept
<1>7. FlagFollows'
  BY <1>1, <1>2, <1>5, FollowsKept DEF Locking
<1> QED
  BY <1>6, <1>7

(* An indication is processed: it waits for the URC handler. *)
LEMMA MapProcessed ==
  ASSUME Types, Announced, FlagFollows, MutexesHeld, UNCHANGED inst, NEW r \in Channels, ProcessLine(r),
         line[r][1] = "map"
  PROVE  Announced' /\ FlagFollows'
<1>0. /\ UNCHANGED << fd, urcAt, urcOld, urcNew, s_urc_count, urcFlag, target, mdMajor, majorSlot,
                      sw, owed, result, waiting >>
      /\ mapUrcs' = Append(mapUrcs, line[r][2]) /\ place[r] = "taken"
  BY DEF ProcessLine, modem, urcVars
<1>1. /\ AtMostOne(r, {"map"}) /\ Tells(r, target) /\ (r[1] # "urc" => ~OnWay(r, {"map"}))
      /\ \A f \in Channels : AtMostOne(f, {"map"}) /\ Tells(f, target) /\ (f[1] # "urc" => ~OnWay(f, {"map"}))
      /\ \A i \in DOMAIN mapUrcs : mapUrcs[i] = target
  BY DEF Announced
<1>2. InHand(r, {"map"}) /\ OnWay(r, {"map"}) /\ line[r][2] = target
  BY <1>0, <1>1 DEF InHand, OnWay, Tells
<1>3. /\ ~OnWay(r, {"map"})' /\ AtMostOne(r, {"map"})' /\ TellingKept(r) /\ LinesKept(r, {"error"})
      /\ \A f \in Channels : f # r => LinesKept(f, {"map"}) /\ LinesKept(f, {"error"}) /\ TellingKept(f)
  BY <1>1, LineProcessed
<1>4. /\ inst \in Instances /\ r \in UrcChannels /\ r \in Announcing /\ Channels' = Channels
      /\ UrcChannels' = UrcChannels /\ UrcChannels \subseteq Channels /\ SimCount' = SimCount /\ own' = own
  <2>1. inst \in Instances /\ r = << r[1], r[2] >> /\ r[2] \in Slots
    BY ChannelIs DEF Types
  <2>2. r \in UrcChannels
    BY <1>1, <1>2, <2>1 DEF UrcChannels
  <2>3. UrcChannels \subseteq Channels
    BY <2>1, Instance DEF UrcChannels, Channels
  <2> QED
    BY <1>2, <2>1, <2>2, <2>3, Same DEF Announcing
<1>5. ~NoneAnnounced /\ urcFlag /\ NoReset
  BY <1>4 DEF NoneAnnounced, Announced, MutexesHeld
<1>6. Obeyed /\ urcAt # "lockReaders" /\ ~NotObeyed
  BY <1>5 DEF FlagFollows, NotObeyed, Obeyed
<1>7. Announcing' = Announcing \ {r}
  <2>1. \A f \in UrcChannels : OnWay(f, {"map"})' <=> OnWay(f, {"map"}) /\ f # r
    BY <1>3, <1>4 DEF LinesKept
  <2> QED
    BY <1>4, <2>1 DEF Announcing
<1>8. IsFiniteSet(Announcing) /\ Cardinality(Announcing) \in Nat
      /\ Cardinality(Announcing') = Cardinality(Announcing) - 1
  <2>1. IsFiniteSet(Slots)
    <3>1. 0 \in Int /\ SimCount - 1 \in Int /\ Slots = 0 .. SimCount - 1
      BY <1>4, Instance
    <3> QED
      BY <3>1, FS_Interval
  <2>2. IsFiniteSet({"urc"})
    BY FS_Singleton
  <2>3. IsFiniteSet(UrcChannels)
    BY <2>1, <2>2, FS_Product DEF UrcChannels
  <2>4. IsFiniteSet(Announcing)
    BY <2>3, FS_Subset DEF Announcing
  <2> QED
    BY <1>4, <1>7, <2>4, FS_RemoveElement, FS_CardinalityType
<1>9. mapUrcs \in Seq(Slots) /\ target \in Slots /\ s_urc_count \in Nat
  BY Instance DEF Types, TypeOK
<1>10. /\ Len(mapUrcs') = Len(mapUrcs) + 1 /\ Len(mapUrcs) \in Nat
       /\ \A i \in DOMAIN mapUrcs' : mapUrcs'[i] = target
  <2>1. mapUrcs' = Append(mapUrcs, target)
    BY <1>0, <1>2
  <2>2. Len(mapUrcs') = Len(mapUrcs) + 1 /\ Len(mapUrcs) \in Nat
        /\ DOMAIN mapUrcs' = 1 .. Len(mapUrcs) + 1 /\ DOMAIN mapUrcs = 1 .. Len(mapUrcs)
    BY <1>9, <2>1
  <2>3. \A i \in 1 .. Len(mapUrcs) + 1 : mapUrcs'[i] = IF i = Len(mapUrcs) + 1 THEN target ELSE mapUrcs[i]
    BY <1>9, <2>1
  <2>4. \A i \in 1 .. Len(mapUrcs) + 1 : i # Len(mapUrcs) + 1 => i \in 1 .. Len(mapUrcs)
    BY <2>2
  <2> QED
    BY <1>1, <2>2, <2>3, <2>4
<1>11. Obeyed'
  <2>1. Cardinality(Announcing) + Len(mapUrcs) + s_urc_count = SimCount
    BY <1>6 DEF Obeyed
  <2>2. Cardinality(Announcing') + Len(mapUrcs') + s_urc_count' = SimCount
    BY <1>0, <1>8, <1>9, <1>10, <2>1
  <2> QED
    BY <1>0, <1>4, <1>6, <2>2 DEF Obeyed
<1>12. ASSUME NEW f \in Channels
       PROVE  /\ f[1] # "urc" => ~OnWay(f, {"map"})'
              /\ AtMostOne(f, {"map"})' /\ Tells(f, target)'
  <2>1. PICK t : t = target
    OBVIOUS
  <2>2. Tells(f, t)'
    BY <1>1, <1>3, <2>1 DEF TellingKept
  <2>3. Tells(f, target)'
    BY <1>0, <2>1, <2>2 DEF Tells
  <2> QED
    BY <1>1, <1>3, <2>3 DEF LinesKept
<1>13. Announced'
  BY <1>0, <1>4, <1>5, <1>10, <1>12 DEF Announced
<1>14. FlagFollows'
  <2>1. \A f \in Channels : OnWay(f, {"error"})' <=> OnWay(f, {"error"})
    BY <1>3 DEF LinesKept
  <2>2. /\ sw = "map" => urcFlag
        /\ urcFlag => sw \in {"map", "mapWait", "waitUrc"}
        /\ ~urcFlag => mdMajor = UrcMajor
        /\ Locking => urcNew = UrcMajor
        /\ result[own] # "error"
        /\ \A f \in Channels : owed[f] # "map" /\ ~OnWay(f, {"error"})
    BY <1>5, <1>6 DEF FlagFollows
  <2>3. UrcMajor' = UrcMajor /\ (Locking' <=> Locking)
    BY <1>0 DEF UrcMajor, Locking
  <2> QED
    BY <1>0, <1>4, <1>5, <1>6, <1>11, <2>1, <2>2, <2>3 DEF FlagFollows
<1> QED
  BY <1>13, <1>14

(* Another line is processed. *)
LEMMA OtherProcessed ==
  ASSUME Types, Paired, Awaited, Announced, FlagFollows, UNCHANGED inst, NEW r \in Channels,
         ProcessLine(r), line[r][1] # "map"
  PROVE  Announced' /\ FlagFollows'
<1> DEFINE c == ctxOf[r]
<1>0. /\ UNCHANGED << fd, urcAt, urcOld, urcNew, s_urc_count, urcFlag, target, mdMajor, majorSlot,
                      sw, owed, mapUrcs >>
      /\ place[r] = "taken" /\ own' = own /\ Channels' = Channels
  BY Same DEF ProcessLine, modem, urcVars
<1>1. /\ LinesKept(r, {"map"}) /\ TellingKept(r)
      /\ \A f \in Channels : f # r => LinesKept(f, {"map"}) /\ LinesKept(f, {"error"}) /\ TellingKept(f)
  BY LineProcessed
<1>2. Announced'
  <2>1. ~urcFlag' => ~urcFlag /\ urcAt' # "lockReaders"
    BY <1>0 DEF Announced
  <2> QED
    BY <1>0, <1>1, <2>1, AnnouncedKept
<1>3. /\ c \in Channels /\ own \in Channels
      /\ waiting \in [Channels -> {"none", "plain", "map"}]
      /\ result \in [Channels -> {"none", "ok", "error"}]
      /\ own[1] = "own"
  BY Instance DEF Types, TypeOK, own
<1>4. /\ waiting[own] = "none" => waiting'[own] = "none"
      /\ waiting[own] = "none" => result'[own] = result[own]
      /\ result'[own] = "error" => result[own] = "error"
           \/ (line[r][1] = "error" /\ waiting[own] # "none" /\ waiting'[own] = "none")
  BY <1>3 DEF ProcessLine
<1>5. CASE line[r][1] # "error"
  <2>1. \A f \in Channels : LinesKept(f, {"error"}) /\ LinesKept(f, {"map"})
    BY <1>1, <1>5, LineProcessed
  <2>2. result'[own] = "error" => result[own] = "error"
    BY <1>4, <1>5
  <2>3. FlagFollows'
    BY <1>0, <1>4, <2>1, <2>2, FollowsKept DEF Locking
  <2> QED
    BY <1>2, <2>3
<1>6. CASE line[r][1] = "error"
  <2> SUFFICES ASSUME NoReset' PROVE FlagFollows'
    BY <1>2 DEF FlagFollows
  <2>0. NoReset
    BY Same
  <2>1. OnWay(r, {"error"})
    BY <1>0, <1>6 DEF OnWay, InHand
  <2>2. /\ urcFlag /\ sw # "map" /\ NotObeyed /\ AtMostOne(r, {"error"})
        /\ \A g \in Channels : OnWay(g, {"error"}) => g = r
        /\ sw \in {"mapWait", "waitUrc"} /\ ~ErrorFree
        /\ Locking => urcNew = UrcMajor
        /\ urcAt # "lockReaders"
    BY <2>0, <2>1 DEF FlagFollows, ErrorFree, NotObeyed
  <2>3. result[own] # "error" /\ \A f \in Channels : owed[f] # "map"
    BY <2>0, <2>2 DEF FlagFollows
  <2>4. ~OnWay(r, {"error"})'
    BY <1>6, <2>2, LineProcessed
  <2>5. ErrorFree'
    <3>1. \A g \in Channels : ~OnWay(g, {"error"})'
      BY <1>1, <2>2, <2>4 DEF LinesKept
    <3> QED
      BY <1>0, <3>1 DEF ErrorFree
  <2>6. NotObeyed'
    <3>1. Announcing' = Announcing
      BY <1>1, AnnouncingKept DEF Types
    <3> QED
      BY <1>0, <2>2, <3>1 DEF NotObeyed, NoneAnnounced
  <2>7. result'[own] = "error" => waiting'[own] = "none" /\ sw' \in {"map", "mapWait"}
    <3>1. waiting[own] # "none" => sw = "mapWait"
      BY <1>3 DEF Awaited
    <3> QED
      BY <1>0, <1>4, <2>3, <3>1
  <2>8. UrcMajor' = UrcMajor /\ (Locking' <=> Locking)
    BY <1>0 DEF UrcMajor, Locking
  <2>9. \A f \in Channels : ~OnWay(f, {"error"})'
    BY <1>0, <2>5 DEF ErrorFree
  <2> QED
    BY <1>0, <2>2, <2>3, <2>5, <2>6, <2>7, <2>8, <2>9 DEF FlagFollows
<1> QED
  BY <1>5, <1>6

(* There is one URC channel for every slot. *)
LEMMA UrcChannelCount ==
  ASSUME inst \in Instances
  PROVE  IsFiniteSet(UrcChannels) /\ Cardinality(UrcChannels) = SimCount
<1>1. IsFiniteSet(Slots) /\ Cardinality(Slots) = SimCount /\ SimCount \in Nat
  <2>1. 0 \in Int /\ SimCount - 1 \in Int /\ Slots = 0 .. SimCount - 1 /\ SimCount > 1 /\ SimCount \in Nat
    BY Instance
  <2>2. Cardinality(0 .. SimCount - 1) = (SimCount - 1) - 0 + 1
    BY <2>1, FS_Interval
  <2> QED
    BY <2>1, <2>2, FS_Interval
<1>2. IsFiniteSet({"urc"}) /\ Cardinality({"urc"}) = 1
  BY FS_Singleton
<1>3. IsFiniteSet(UrcChannels) /\ Cardinality(UrcChannels) = 1 * SimCount
  BY <1>1, <1>2, FS_Product DEF UrcChannels
<1> QED
  BY <1>1, <1>3

(* The modem has mapped its stacks: every URC channel gets an indication. *)
LEMMA ModemAnnounces ==
  ASSUME Types, Paired, Announced, FlagFollows, UNCHANGED inst, NEW f \in Channels, ModemAnswers(f),
         NoReset, owed[f] = "map", mdMajor' = target, f[1] # "urc",
         TellingKept(f), \A kinds : "ok" \notin kinds => LinesKept(f, kinds),
         \A g \in Channels : g # f =>
           /\ \A kinds : "map" \notin kinds => LinesKept(g, kinds)
           /\ g[1] # "urc" => (\A kinds : LinesKept(g, kinds)) /\ TellingKept(g)
           /\ g[1] = "urc" => /\ OnWay(g, {"map"})'
                              /\ ~OnWay(g, {"map"}) => AtMostOne(g, {"map"})' /\ Tells(g, target)'
  PROVE  Announced' /\ FlagFollows'
<1>0. /\ UNCHANGED << fd, urcAt, urcOld, urcNew, s_urc_count, mapUrcs, urcFlag, target, majorSlot, sw,
                      result, waiting >>
      /\ owed \in [Channels -> {"none", "plain", "map"}] /\ owed' = [owed EXCEPT ![f] = "none"]
      /\ own' = own /\ Channels' = Channels /\ UrcChannels' = UrcChannels /\ SimCount' = SimCount
      /\ inst \in Instances
  BY Same DEF ModemAnswers, urcVars, Types, TypeOK
<1>1. /\ f = fd[own] /\ sw # "map" /\ urcFlag /\ NotObeyed /\ ErrorFree /\ result[own] # "error"
      /\ sw \in Mapping /\ (Locking => urcNew = UrcMajor) /\ urcAt # "lockReaders"
      /\ \A g \in Channels : owed[g] = "map" => g = fd[own]
  BY DEF FlagFollows, NotObeyed, Mapping
<1>2. NoneAnnounced /\ Announcing = {} /\ mapUrcs = << >> /\ s_urc_count = 0
  BY <1>1 DEF NotObeyed, NoneAnnounced
<1>3. UrcChannels \subseteq Channels /\ \A g \in UrcChannels : g[1] = "urc" /\ g # f
  BY <1>0, Instance DEF UrcChannels, Channels
<1>4. \A g \in Channels : g[1] = "urc" => g \in UrcChannels
  BY <1>0, ChannelIs DEF UrcChannels
<1>5. \A g \in UrcChannels : ~OnWay(g, {"map"})
  BY <1>2 DEF Announcing
<1>6. Announcing' = UrcChannels
  <2>1. \A g \in UrcChannels : OnWay(g, {"map"})'
    BY <1>3
  <2> QED
    BY <1>0, <2>1 DEF Announcing
<1>7. ASSUME NEW g \in Channels
      PROVE  /\ g[1] # "urc" => ~OnWay(g, {"map"})'
             /\ AtMostOne(g, {"map"})' /\ Tells(g, target)'
  <2>1. CASE g[1] = "urc"
    BY <1>4, <1>5, <2>1
  <2>2. CASE g[1] # "urc"
    <3>1. LinesKept(g, {"map"}) /\ TellingKept(g)
      BY <2>2
    <3>2. ~OnWay(g, {"map"}) /\ AtMostOne(g, {"map"}) /\ Tells(g, target)
      BY <2>2 DEF Announced
    <3>3. PICK t : t = target
      OBVIOUS
    <3>4. Tells(g, t)'
      BY <3>1, <3>2, <3>3 DEF TellingKept
    <3>5. Tells(g, target)'
      BY <1>0, <3>3, <3>4 DEF Tells
    <3> QED
      BY <2>2, <3>1, <3>2, <3>5 DEF LinesKept
  <2> QED
    BY <2>1, <2>2
<1>8. Announced'
  BY <1>0, <1>1, <1>2, <1>7 DEF Announced
<1>9. \A g \in Channels : owed'[g] # "map"
  BY <1>0, <1>1
<1>10. Obeyed'
  <2>1. Cardinality(Announcing') = SimCount /\ SimCount \in Nat
    BY <1>0, <1>6, UrcChannelCount, Instance
  <2>2. Len(mapUrcs') = 0 /\ s_urc_count' = 0
    BY <1>0, <1>2
  <2>3. Cardinality(Announcing') + Len(mapUrcs') + s_urc_count' = SimCount'
    BY <1>0, <2>1, <2>2
  <2> QED
    BY <1>0, <1>1, <1>9, <2>3 DEF Obeyed
<1>11. \A g \in Channels : ~OnWay(g, {"error"})'
  <2>1. \A g \in Channels : LinesKept(g, {"error"})
    OBVIOUS
  <2> QED
    BY <1>1, <2>1 DEF LinesKept, ErrorFree
<1>12. UrcMajor' = UrcMajor /\ (Locking' <=> Locking)
  BY <1>0 DEF UrcMajor, Locking
<1>13. FlagFollows'
  BY <1>0, <1>1, <1>9, <1>10, <1>11, <1>12 DEF FlagFollows, Mapping
<1> QED
  BY <1>8, <1>13

(* The modem fails to map its stacks, or answers an ordinary command. *)
LEMMA ModemFlags ==
  ASSUME Types, Paired, Announced, FlagFollows, UNCHANGED inst, NEW f \in Channels, ModemAnswers(f)
  PROVE  Announced' /\ FlagFollows'
<1>0. /\ UNCHANGED << fd, urcAt, urcOld, urcNew, s_urc_count, mapUrcs, urcFlag, target, majorSlot, sw,
                      result, waiting >>
      /\ owed \in [Channels -> {"none", "plain", "map"}] /\ owed' = [owed EXCEPT ![f] = "none"]
      /\ own' = own /\ Channels' = Channels /\ inst \in Instances /\ own \in Channels /\ own[1] = "own"
  BY Same, Instance DEF ModemAnswers, urcVars, Types, TypeOK, own
<1>1. PICK answer \in Answers :
           /\ answer = "error" => owed[f] = "map"
           /\ mdMajor' = IF owed[f] = "map" /\ answer = "ok" THEN target ELSE mdMajor
           /\ LET tells == NoReset /\ owed[f] = "map" /\ answer = "ok" IN
              /\ \A kinds : answer \notin kinds => LinesKept(f, kinds)
              /\ \A kinds : answer \in kinds /\ ~OnWay(f, kinds) => AtMostOne(f, kinds)'
              /\ \A kinds : answer \in kinds => OnWay(f, kinds)'
              /\ TellingKept(f)
              /\ \A g \in Channels : g # f =>
                   /\ \A kinds : "map" \notin kinds => LinesKept(g, kinds)
                   /\ ~(tells /\ g[1] = "urc") => (\A kinds : LinesKept(g, kinds)) /\ TellingKept(g)
                   /\ tells /\ g[1] = "urc" =>
                        /\ OnWay(g, {"map"})'
                        /\ ~OnWay(g, {"map"}) => AtMostOne(g, {"map"})' /\ Tells(g, target)'
  BY ModemLines
<1>2. ~urcFlag' => ~urcFlag /\ urcAt' # "lockReaders"
  BY <1>0 DEF Announced
<1>3. \A g \in Channels : owed'[g] = "map" => owed[g] = "map"
  BY <1>0
<1>4. answer # "map" /\ answer \in {"ok", "error"}
  BY <1>1 DEF Answers
<1>5. CASE NoReset /\ owed[f] = "map" /\ answer = "ok"
  <2>1. f[1] # "urc"
    <3>1. f = fd[own]
      BY <1>5 DEF FlagFollows
    <3> QED
      BY <1>0, <3>1 DEF Paired
  <2>2. mdMajor' = target /\ TellingKept(f) /\ \A kinds : "ok" \notin kinds => LinesKept(f, kinds)
    BY <1>1, <1>5
  <2>3. \A g \in Channels : g # f =>
           /\ \A kinds : "map" \notin kinds => LinesKept(g, kinds)
           /\ g[1] # "urc" => (\A kinds : LinesKept(g, kinds)) /\ TellingKept(g)
           /\ g[1] = "urc" => /\ OnWay(g, {"map"})'
                              /\ ~OnWay(g, {"map"}) => AtMostOne(g, {"map"})' /\ Tells(g, target)'
    BY <1>1, <1>5
  <2> QED
    BY <1>5, <2>1, <2>2, <2>3, ModemAnnounces
<1>6. CASE ~(NoReset /\ owed[f] = "map" /\ answer = "ok")
  <2>1. \A g \in Channels : LinesKept(g, {"map"}) /\ TellingKept(g)
    BY <1>1, <1>4, <1>6
  <2>2. Announced'
    BY <1>0, <1>2, <2>1, AnnouncedKept
  <2>3. ASSUME NoReset PROVE FlagFollows'
    <3>0. mdMajor' = mdMajor
      BY <1>1, <1>6, <2>3
    <3>1. CASE answer = "ok"
      <4>1. \A g \in Channels : LinesKept(g, {"error"})
        BY <1>1, <3>1
      <4> QED
        BY <1>0, <1>3, <2>1, <3>0, <4>1, FollowsKept DEF Locking
    <3>2. CASE answer = "error"
      <4>1. owed[f] = "map"
        BY <1>1, <3>2
      <4>2. /\ f = fd[own] /\ sw # "map" /\ urcFlag /\ NotObeyed /\ ErrorFree /\ result[own] # "error"
            /\ sw \in Mapping /\ (Locking => urcNew = UrcMajor) /\ urcAt # "lockReaders"
            /\ \A g \in Channels : owed[g] = "map" => g = fd[own]
        BY <2>3, <4>1 DEF FlagFollows, NotObeyed, Mapping
      <4>3. \A g \in Channels : ~OnWay(g, {"error"})
        BY <4>2 DEF ErrorFree
      <4>4. AtMostOne(f, {"error"})' /\ \A g \in Channels : g # f => ~OnWay(g, {"error"})'
        BY <1>1, <3>2, <4>3 DEF LinesKept
      <4>5. \A g \in Channels : owed'[g] # "map"
        BY <1>0, <4>2
      <4>6. NotObeyed'
        <5>1. Announcing' = Announcing
          BY <1>0, <2>1, AnnouncingKept
        <5> QED
          BY <1>0, <3>0, <4>2, <5>1 DEF NotObeyed, NoneAnnounced
      <4>7. UrcMajor' = UrcMajor /\ (Locking' <=> Locking)
        BY <1>0 DEF UrcMajor, Locking
      <4>8. \A g \in Channels : OnWay(g, {"error"})' => g = f
        BY <4>4
      <4> QED
        BY <1>0, <4>2, <4>4, <4>5, <4>6, <4>7, <4>8 DEF FlagFollows, Mapping
    <3> QED
      BY <1>4, <3>1, <3>2
  <2>4. ASSUME ~NoReset PROVE FlagFollows'
    BY <2>4, Same DEF FlagFollows
  <2> QED
    BY <2>2, <2>3, <2>4
<1> QED
  BY <1>5, <1>6

(* The switch up to the mapping and after it touches neither flag nor modem. *)
LEMMA LockFlags ==
  ASSUME Types, MutexesHeld, Announced, FlagFollows, UNCHANGED inst,
         (\E new \in Slots : StartSwitch(new)) \/ LockChannels \/ UnlockChannels \/ EndSwitch
  PROVE  Announced' /\ FlagFollows'
<1>1. /\ UNCHANGED << fd, urcAt, urcOld, urcNew, s_urc_count, mapUrcs, urcFlag, mdMajor, majorSlot,
                      owed, result, waiting, lines, readers >>
      /\ sw \notin Mapping /\ sw' \notin Mapping /\ (sw # "idle" => UNCHANGED target)
  <2>1. CASE \E new \in Slots : StartSwitch(new)
    BY <2>1 DEF StartSwitch, urcVars, modem, Mapping
  <2>2. CASE LockChannels
    BY <2>2 DEF LockChannels, urcVars, modem, Mapping, swRest
  <2>3. CASE UnlockChannels \/ EndSwitch
    BY <2>3 DEF UnlockChannels, EndSwitch, urcVars, modem, Mapping, swRest
  <2> QED
    BY <2>1, <2>2, <2>3
<1>2. \A f \in Channels : LinesKept(f, {"map"}) /\ LinesKept(f, {"error"}) /\ TellingKept(f)
  BY <1>1, AllLinesStay
<1>3. ~urcFlag
  BY <1>1 DEF MutexesHeld, FlagFollows, Mapping
<1>4. NoneAnnounced /\ urcAt # "lockReaders"
  BY <1>3 DEF Announced
<1>5. inst \in Instances /\ Channels' = Channels
  BY Same DEF Types
<1>6. NoneAnnounced'
  BY <1>1, <1>2, <1>4, <1>5, AnnouncingKept DEF NoneAnnounced
<1>7. ASSUME NEW f \in Channels PROVE ~OnWay(f, {"map"})'
  <2>1. f[1] = "urc" => f \in UrcChannels
    BY <1>5, ChannelIs DEF UrcChannels
  <2>2. ~OnWay(f, {"map"})
    BY <1>4, <2>1 DEF Announced, NoneAnnounced, Announcing
  <2> QED
    BY <1>2, <2>2 DEF LinesKept
<1>8. Announced'
  <2>1. ASSUME NEW f \in Channels
        PROVE  AtMostOne(f, {"map"})' /\ Tells(f, target)'
    BY <1>7 DEF AtMostOne, Tells, OnWay
  <2>2. DOMAIN mapUrcs' = {}
    BY <1>6 DEF NoneAnnounced
  <2> QED
    BY <1>1, <1>3, <1>4, <1>5, <1>6, <1>7, <2>1, <2>2 DEF Announced
<1>9. FlagFollows'
  BY <1>1, <1>2, FollowsKept, Same DEF Locking
<1> QED
  BY <1>8, <1>9

(* The flag is raised before the mapping is asked for. *)
LEMMA LockedFlags ==
  ASSUME Types, Paired, Announced, FlagFollows, UNCHANGED inst, Locked
  PROVE  Announced' /\ FlagFollows'
<1>1. /\ UNCHANGED << urcAt, urcOld, urcNew, s_urc_count, mapUrcs, mdMajor, majorSlot,
                      owed, result, waiting, lines, readers, target >>
      /\ sw = "need" /\ sw' = "map"
      /\ IF NoReset THEN urcFlag' /\ UNCHANGED fd ELSE UNCHANGED urcFlag
  BY DEF Locked, swRest, urcVars, modem
<1>2. \A f \in Channels : LinesKept(f, {"map"}) /\ LinesKept(f, {"error"}) /\ TellingKept(f)
  BY <1>1, AllLinesStay
<1>3. Announced'
  <2>1. ~urcFlag' => ~urcFlag /\ urcAt' # "lockReaders"
    BY <1>1 DEF Announced
  <2> QED
    BY <1>1, <1>2, <2>1, AnnouncedKept
<1>4. ASSUME NoReset PROVE FlagFollows'
  <2>1. /\ ~urcFlag /\ mdMajor = UrcMajor /\ UrcMajor = majorSlot
        /\ result[own] # "error"
        /\ \A f \in Channels : owed[f] # "map" /\ ~OnWay(f, {"error"})
        /\ Locking => urcNew = UrcMajor
    BY <1>1, <1>4 DEF FlagFollows, UrcMajor
  <2>2. NoneAnnounced /\ urcAt # "lockReaders"
    BY <2>1 DEF Announced
  <2>3. NotObeyed'
    <3>1. Announcing' = Announcing
      BY <1>2, AnnouncingKept DEF Types
    <3> QED
      BY <1>1, <2>1, <2>2, <3>1 DEF NotObeyed, NoneAnnounced
  <2>4. UrcMajor' = majorSlot /\ (Locking' <=> Locking) /\ Channels' = Channels /\ own' = own
    BY <1>1, <1>4, Same DEF UrcMajor, Locking
  <2>5. \A f \in Channels : ~OnWay(f, {"error"})'
    BY <1>2, <2>1 DEF LinesKept
  <2> QED
    BY <1>1, <1>4, <2>1, <2>2, <2>3, <2>4, <2>5 DEF FlagFollows
<1>5. ASSUME ~NoReset PROVE FlagFollows'
  BY <1>5, Same DEF FlagFollows
<1> QED
  BY <1>3, <1>4, <1>5

(* The mapping is asked for; an error was the answer to an earlier time. *)
LEMMA SendFlags ==
  ASSUME Types, Paired, Announced, FlagFollows, UNCHANGED inst, SendMap
  PROVE  Announced' /\ FlagFollows'
<1>1. /\ UNCHANGED << fd, urcAt, urcOld, urcNew, s_urc_count, mapUrcs, mdMajor, majorSlot, urcFlag,
                      lines, readers, target >>
      /\ sw = "map" /\ sw' = "mapWait"
      /\ result' = [result EXCEPT ![own] = "none"] /\ owed' = [owed EXCEPT ![fd[own]] = "map"]
  BY DEF SendMap, urcVars, modem, Send
<1>2. \A f \in Channels : LinesKept(f, {"map"}) /\ LinesKept(f, {"error"}) /\ TellingKept(f)
  BY <1>1, AllLinesStay
<1>3. Announced'
  <2>1. ~urcFlag' => ~urcFlag /\ urcAt' # "lockReaders"
    BY <1>1 DEF Announced
  <2> QED
    BY <1>1, <1>2, <2>1, AnnouncedKept
<1>4. ASSUME NoReset PROVE FlagFollows'
  <2>1. /\ urcFlag /\ NotObeyed
        /\ \A f \in Channels : owed[f] # "map" /\ ~OnWay(f, {"error"})
        /\ Locking => urcNew = UrcMajor
        /\ urcAt # "lockReaders"
    BY <1>1, <1>4 DEF FlagFollows, Obeyed, NotObeyed
  <2>2. /\ own \in Channels /\ result \in [Channels -> {"none", "ok", "error"}]
        /\ owed \in [Channels -> {"none", "plain", "map"}]
    BY Instance DEF Types, TypeOK
  <2>3. NotObeyed'
    BY <1>1, <1>2, <2>1, ObeyingKept
  <2>4. UrcMajor' = UrcMajor /\ (Locking' <=> Locking) /\ Channels' = Channels /\ own' = own
    BY <1>1, Same DEF UrcMajor, Locking
  <2>5. \A f \in Channels : ~OnWay(f, {"error"})'
    BY <1>2, <2>1 DEF LinesKept
  <2>6. result'[own] # "error" /\ \A f \in Channels : owed'[f] = "map" => f = fd[own]
    BY <1>1, <2>1, <2>2
  <2>7. ErrorFree'
    BY <2>4, <2>5 DEF ErrorFree
  <2> QED
    BY <1>1, <1>4, <2>1, <2>3, <2>4, <2>5, <2>6, <2>7 DEF FlagFollows
<1>5. ASSUME ~NoReset PROVE FlagFollows'
  BY <1>5, Same DEF FlagFollows
<1> QED
  BY <1>3, <1>4, <1>5

(* The answer to the mapping is there, or taken for there. *)
LEMMA AnswerFlags ==
  ASSUME Types, Paired, Announced, FlagFollows, UNCHANGED inst, MapAnswered \/ MapTimesOut
  PROVE  Announced' /\ FlagFollows'
<1>1. /\ UNCHANGED << fd, urcAt, urcOld, urcNew, s_urc_count, mapUrcs, mdMajor, majorSlot, urcFlag,
                      lines, readers, target, result, owed >>
      /\ sw = "mapWait"
      /\ \/ waiting[own] = "none" /\ UNCHANGED waiting
            /\ sw' = (IF result[own] = "error" THEN "map" ELSE "waitUrc")
         \/ waiting[own] # "none" /\ waiting' = [waiting EXCEPT ![own] = "none"] /\ sw' = "waitUrc"
  BY DEF MapAnswered, MapTimesOut, swRest, urcVars, modem
<1>2. \A f \in Channels : LinesKept(f, {"map"}) /\ LinesKept(f, {"error"}) /\ TellingKept(f)
  BY <1>1, AllLinesStay
<1>3. Announced'
  <2>1. ~urcFlag' => ~urcFlag /\ urcAt' # "lockReaders"
    BY <1>1 DEF Announced
  <2> QED
    BY <1>1, <1>2, <2>1, AnnouncedKept
<1>4. ASSUME NoReset PROVE FlagFollows'
  <2>1. /\ NotObeyed' <=> NotObeyed
        /\ ErrorFree' <=> ErrorFree
        /\ Obeyed /\ sw' # "map" => Obeyed'
        /\ \A f \in Channels : /\ OnWay(f, {"error"})' <=> OnWay(f, {"error"})
                               /\ AtMostOne(f, {"error"}) => AtMostOne(f, {"error"})'
    BY <1>1, <1>2, ObeyingKept
  <2>2. UrcMajor' = UrcMajor /\ (Locking' <=> Locking) /\ Channels' = Channels /\ own' = own
    BY <1>1, Same DEF UrcMajor, Locking
  <2>3. /\ own \in Channels /\ waiting \in [Channels -> {"none", "plain", "map"}]
    BY Instance DEF Types, TypeOK
  <2>4. CASE result[own] = "error"
    <3>1. sw' = "map" /\ waiting'[own] = "none" /\ urcFlag /\ NotObeyed /\ ErrorFree
          /\ (\A f \in Channels : owed[f] # "map") /\ (Locking => urcNew = UrcMajor)
          /\ urcAt # "lockReaders"
      BY <1>1, <1>4, <2>4 DEF FlagFollows, NotObeyed
    <3>2. \A f \in Channels : ~OnWay(f, {"error"})'
      BY <2>1, <3>1 DEF ErrorFree
    <3> QED
      BY <1>1, <1>4, <2>1, <2>2, <3>1, <3>2 DEF FlagFollows
  <2>5. CASE result[own] # "error"
    <3>1. sw' = "waitUrc"
      BY <1>1, <2>5
    <3>2. /\ urcFlag => NotObeyed \/ Obeyed
          /\ ~urcFlag => mdMajor = UrcMajor
          /\ urcAt = "lockReaders" => urcFlag /\ Obeyed /\ urcOld = majorSlot /\ urcNew = target
          /\ Locking => urcNew = UrcMajor
          /\ \A f \in Channels : owed[f] = "map" => f = fd[own] /\ urcFlag /\ NotObeyed /\ ErrorFree
          /\ \A f \in Channels : OnWay(f, {"error"}) =>
               /\ urcFlag /\ NotObeyed /\ AtMostOne(f, {"error"})
               /\ \A g \in Channels : OnWay(g, {"error"}) => g = f
      BY <1>4 DEF FlagFollows
    <3>3. \A f \in Channels : OnWay(f, {"error"})' =>
               /\ urcFlag /\ NotObeyed' /\ AtMostOne(f, {"error"})'
               /\ \A g \in Channels : OnWay(g, {"error"})' => g = f
      BY <2>1, <3>2
    <3>4. \A f \in Channels : owed'[f] = "map" => f = fd[own] /\ urcFlag /\ NotObeyed' /\ ErrorFree'
      BY <1>1, <2>1, <3>2
    <3> QED
      BY <1>1, <1>4, <2>1, <2>2, <2>5, <3>1, <3>2, <3>3, <3>4 DEF FlagFollows
  <2> QED
    BY <2>4, <2>5
<1>5. ASSUME ~NoReset PROVE FlagFollows'
  BY <1>5, Same DEF FlagFollows
<1> QED
  BY <1>3, <1>4, <1>5

(* The other channels follow once the flag has fallen: then the modem has its new major slot. *)
LEMMA MajorFlags ==
  ASSUME Types, Paired, Announced, FlagFollows, UNCHANGED inst, SwitchAll \/ SimInitFails
  PROVE  Announced' /\ FlagFollows'
<1>1. /\ UNCHANGED << urcAt, urcOld, urcNew, s_urc_count, mapUrcs, mdMajor, urcFlag,
                      lines, readers, target, result, owed, waiting >>
      /\ sw = "waitUrc" /\ sw' \notin Mapping /\ ~urcFlag /\ majorSlot' = target
  BY DEF SwitchAll, SimInitFails, Mapping, urcVars, modem
<1>2. \A f \in Channels : LinesKept(f, {"map"}) /\ LinesKept(f, {"error"}) /\ TellingKept(f)
  BY <1>1, AllLinesStay
<1>3. Announced'
  <2>1. ~urcFlag' => ~urcFlag /\ urcAt' # "lockReaders"
    BY <1>1 DEF Announced
  <2> QED
    BY <1>1, <1>2, <2>1, AnnouncedKept
<1>4. ASSUME NoReset PROVE FlagFollows'
  <2>1. /\ mdMajor = UrcMajor /\ UrcMajor = target
        /\ result[own] # "error"
        /\ \A f \in Channels : owed[f] # "map" /\ ~OnWay(f, {"error"})
        /\ Locking => urcNew = UrcMajor
        /\ urcAt # "lockReaders"
    BY <1>1, <1>4 DEF FlagFollows, UrcMajor
  <2>2. UrcMajor' = target /\ (Locking' <=> Locking) /\ Channels' = Channels /\ own' = own
    BY <1>1, Same DEF UrcMajor, Locking, Mapping
  <2>3. \A f \in Channels : ~OnWay(f, {"error"})'
    BY <1>2, <2>1 DEF LinesKept
  <2>4. sw' # "map"
    BY <1>1 DEF Mapping
  <2> QED
    BY <1>1, <2>1, <2>2, <2>3, <2>4 DEF FlagFollows
<1>5. ASSUME ~NoReset PROVE FlagFollows'
  BY <1>5, Same DEF FlagFollows
<1> QED
  BY <1>3, <1>4, <1>5

(* The indications are counted, the last one starts the exchange of the URC channels. *)
LEMMA CheckFlags ==
  ASSUME Types, Paired, MutexesHeld, Announced, FlagFollows, UNCHANGED inst, CheckIfSwitch
  PROVE  Announced' /\ FlagFollows'
<1>1. /\ UNCHANGED << fd, mdMajor, urcFlag, lines, readers, target, result, owed, waiting, sw, majorSlot >>
      /\ urcAt = "idle" /\ mapUrcs # << >> /\ mapUrcs' = Tail(mapUrcs)
      /\ urcOld' = majorSlot /\ urcNew' = Head(mapUrcs)
      /\ IF urcFlag /\ s_urc_count + 1 = SimCount
         THEN s_urc_count' = 0 /\ urcAt' = "lockReaders"
         ELSE s_urc_count' = (IF urcFlag THEN s_urc_count + 1 ELSE s_urc_count) /\ UNCHANGED urcAt
  BY DEF CheckIfSwitch, urcRest, modem
<1>2. \A f \in Channels : LinesKept(f, {"map"}) /\ LinesKept(f, {"error"}) /\ TellingKept(f)
  BY <1>1, AllLinesStay
<1>3. urcFlag /\ NoReset
  BY <1>1 DEF Announced, NoneAnnounced, MutexesHeld
<1>4. Obeyed /\ ~NotObeyed /\ sw \in Mapping
  BY <1>1, <1>3 DEF FlagFollows, NotObeyed, NoneAnnounced, Mapping
<1>5. inst \in Instances /\ Announcing' = Announcing /\ Channels' = Channels /\ own' = own
      /\ SimCount' = SimCount /\ UrcChannels' = UrcChannels
  BY <1>2, AnnouncingKept, Same DEF Types
<1>6. /\ s_urc_count \in Nat /\ SimCount \in Nat /\ mapUrcs \in Seq(Slots)
  BY <1>5, Instance DEF Types, TypeOK
<1>7. /\ Len(mapUrcs) \in Nat \ {0} /\ Len(mapUrcs') = Len(mapUrcs) - 1 /\ mapUrcs' \in Seq(Slots)
      /\ Head(mapUrcs) = target
      /\ \A i \in DOMAIN mapUrcs' : mapUrcs'[i] = target
  <2>1. Len(mapUrcs) \in Nat \ {0} /\ DOMAIN mapUrcs = 1 .. Len(mapUrcs)
    BY <1>1, <1>6
  <2>2. /\ Tail(mapUrcs) \in Seq(Slots) /\ Len(Tail(mapUrcs)) = Len(mapUrcs) - 1
        /\ \A i \in 1 .. Len(mapUrcs) - 1 : Tail(mapUrcs)[i] = mapUrcs[i + 1]
    BY <1>1, <1>6
  <2>3. \A i \in 1 .. Len(mapUrcs) : mapUrcs[i] = target
    BY <2>1 DEF Announced
  <2>4. DOMAIN Tail(mapUrcs) = 1 .. Len(mapUrcs) - 1
    BY <2>2
  <2>5. Head(mapUrcs) = mapUrcs[1] /\ 1 \in 1 .. Len(mapUrcs)
    BY <2>1
  <2>6. \A i \in 1 .. Len(mapUrcs) - 1 : i + 1 \in 1 .. Len(mapUrcs)
    BY <2>1
  <2> QED
    BY <1>1, <2>1, <2>2, <2>3, <2>4, <2>5, <2>6
<1>8. IsFiniteSet(Announcing) /\ Cardinality(Announcing) \in Nat
      /\ (Cardinality(Announcing) = 0 => Announcing = {})
  <2>1. IsFiniteSet(Announcing)
    BY <1>5, UrcChannelCount, FS_Subset DEF Announcing
  <2> QED
    BY <2>1, FS_CardinalityType, FS_EmptySet
<1>9. Cardinality(Announcing) + Len(mapUrcs) + s_urc_count = SimCount
  BY <1>1, <1>4 DEF Obeyed
<1>10. urcAt' = "lockReaders" => NoneAnnounced'
  <2> SUFFICES ASSUME urcAt' = "lockReaders" PROVE NoneAnnounced'
    OBVIOUS
  <2>1. s_urc_count + 1 = SimCount /\ s_urc_count' = 0
    BY <1>1
  <2>2. Cardinality(Announcing) = 0 /\ Len(mapUrcs') = 0
    BY <1>6, <1>7, <1>8, <1>9, <2>1
  <2>3. mapUrcs' = << >>
    BY <1>7, <2>2
  <2> QED
    BY <1>5, <1>8, <2>1, <2>2, <2>3 DEF NoneAnnounced
<1>11. urcAt' # "lockReaders"
         => urcAt' = "idle" /\ Cardinality(Announcing') + Len(mapUrcs') + s_urc_count' = SimCount'
  <2> SUFFICES ASSUME urcAt' # "lockReaders"
               PROVE  urcAt' = "idle" /\ Cardinality(Announcing') + Len(mapUrcs') + s_urc_count' = SimCount'
    OBVIOUS
  <2>1. s_urc_count' = s_urc_count + 1 /\ urcAt' = "idle"
    BY <1>1, <1>3
  <2> QED
    BY <1>5, <1>6, <1>7, <1>8, <1>9, <2>1
<1>12. Obeyed'
  BY <1>1, <1>4, <1>5, <1>10, <1>11 DEF Obeyed
<1>13. Announced'
  <2>1. ASSUME NEW f \in Channels
        PROVE  /\ f[1] # "urc" => ~OnWay(f, {"map"})'
               /\ AtMostOne(f, {"map"})' /\ Tells(f, target)'
    <3>1. /\ f[1] # "urc" => ~OnWay(f, {"map"})
          /\ AtMostOne(f, {"map"}) /\ Tells(f, target)
      BY DEF Announced
    <3>2. PICK t : t = target
      OBVIOUS
    <3>3. Tells(f, t)'
      BY <1>2, <3>1, <3>2 DEF TellingKept
    <3>4. Tells(f, target)'
      BY <1>1, <3>2, <3>3 DEF Tells
    <3> QED
      BY <1>2, <3>1, <3>4 DEF LinesKept
  <2> QED
    BY <1>1, <1>3, <1>5, <1>7, <2>1 DEF Announced
<1>14. FlagFollows'
  <2>1. /\ result[own] # "error"
        /\ \A f \in Channels : owed[f] # "map" /\ ~OnWay(f, {"error"})
    BY <1>3, <1>4 DEF FlagFollows
  <2>2. \A f \in Channels : ~OnWay(f, {"error"})'
    BY <1>2, <2>1 DEF LinesKept
  <2>3. urcAt' \in {"idle", "lockReaders"} /\ ~Locking'
    BY <1>1 DEF Locking
  <2>4. sw # "map"
    BY <1>4 DEF Obeyed
  <2> QED
    BY <1>1, <1>3, <1>4, <1>5, <1>7, <1>12, <2>1, <2>2, <2>3, <2>4 DEF FlagFollows, Mapping
<1> QED
  BY <1>13, <1>14

(* The exchange of the URC channels lowers the flag: the indications have all come. *)
LEMMA ObeyFlags ==
  ASSUME Types, Paired, MutexesHeld, Announced, FlagFollows, UNCHANGED inst, SwitchUrc
  PROVE  Announced' /\ FlagFollows'
<1>1. /\ UNCHANGED << mdMajor, lines, readers, target, result, owed, waiting, sw, majorSlot,
                      mapUrcs, s_urc_count, urcOld, urcNew >>
      /\ urcAt = "lockReaders" /\ ~urcFlag' /\ urcAt' \in {"need", "unlockReaders"}
  BY DEF SwitchUrc, urcRest, modem, urcSlots
<1>2. \A f \in Channels : LinesKept(f, {"map"}) /\ LinesKept(f, {"error"}) /\ TellingKept(f)
  BY <1>1, AllLinesStay
<1>3. NoReset
  BY <1>1 DEF MutexesHeld
<1>4. Obeyed /\ urcFlag /\ sw \in Mapping /\ urcNew = target
  BY <1>1, <1>3 DEF FlagFollows, Mapping
<1>5. inst \in Instances /\ Announcing' = Announcing /\ Channels' = Channels /\ own' = own
  BY <1>2, AnnouncingKept, Same DEF Types
<1>6. NoneAnnounced /\ NoneAnnounced'
  <2>1. NoneAnnounced
    BY <1>1, <1>4 DEF Obeyed
  <2> QED
    BY <1>1, <1>5, <2>1 DEF NoneAnnounced
<1>7. Announced'
  <2>1. ASSUME NEW f \in Channels
        PROVE  /\ f[1] # "urc" => ~OnWay(f, {"map"})'
               /\ AtMostOne(f, {"map"})' /\ Tells(f, target)'
    <3>1. /\ f[1] # "urc" => ~OnWay(f, {"map"})
          /\ AtMostOne(f, {"map"}) /\ Tells(f, target)
      BY DEF Announced
    <3>2. PICK t : t = target
      OBVIOUS
    <3>3. Tells(f, t)'
      BY <1>2, <3>1, <3>2 DEF TellingKept
    <3>4. Tells(f, target)'
      BY <1>1, <3>2, <3>3 DEF Tells
    <3> QED
      BY <1>2, <3>1, <3>4 DEF LinesKept
  <2>2. mapUrcs' = << >>
    BY <1>6 DEF NoneAnnounced
  <2> QED
    BY <1>1, <1>5, <1>6, <2>1, <2>2 DEF Announced
<1>8. FlagFollows'
  <2>1. /\ result[own] # "error"
        /\ \A f \in Channels : owed[f] # "map" /\ ~OnWay(f, {"error"})
    BY <1>1, <1>3 DEF FlagFollows, NotObeyed
  <2>2. \A f \in Channels : ~OnWay(f, {"error"})'
    BY <1>2, <2>1 DEF LinesKept
  <2>3. sw # "map" /\ mdMajor = target
    BY <1>4 DEF Obeyed
  <2>4. UrcMajor' = target
    BY <1>1, <1>4 DEF UrcMajor, Mapping
  <2> QED
    BY <1>1, <1>4, <1>5, <2>1, <2>2, <2>3, <2>4 DEF FlagFollows
<1> QED
  BY <1>7, <1>8

(* The other steps of the URC handler only lock, exchange and unlock. *)
LEMMA UrcFlags ==
  ASSUME Types, Paired, Announced, FlagFollows, UNCHANGED inst,
         LockReaders \/ LockVsim \/ (SwitchVsim /\ Turned({"vsim"}, urcOld, urcNew))
           \/ UnlockVsim \/ UnlockReaders
  PROVE  Announced' /\ FlagFollows'
<1>1. /\ UNCHANGED << mdMajor, urcFlag, lines, readers, target, result, owed, waiting, sw, majorSlot,
                      mapUrcs, s_urc_count, urcOld, urcNew >>
      /\ urcAt' = "lockReaders" <=> urcAt = "lockReaders"
      /\ Locking' => Locking
  <2>1. CASE LockReaders
    BY <2>1 DEF LockReaders, urcRest, modem, urcSlots, Locking
  <2>2. CASE LockVsim
    BY <2>2 DEF LockVsim, urcRest, modem, urcSlots, Locking
  <2>3. CASE SwitchVsim
    BY <2>3 DEF SwitchVsim, urcRest, modem, urcSlots, Locking
  <2>4. CASE UnlockVsim
    BY <2>4 DEF UnlockVsim, urcRest, modem, urcSlots, Locking
  <2>5. CASE UnlockReaders
    BY <2>5 DEF UnlockReaders, urcRest, modem, urcSlots, Locking
  <2> QED
    BY <2>1, <2>2, <2>3, <2>4, <2>5
<1>2. fd'[own] = fd[own]
  <2>1. CASE SwitchVsim /\ Turned({"vsim"}, urcOld, urcNew)
    <3>1. own \in Channels /\ own[1] \notin {"vsim"}
      BY Instance DEF Types, own
    <3> QED
      BY <2>1, <3>1 DEF Turned
  <2>2. CASE LockReaders \/ LockVsim \/ UnlockVsim \/ UnlockReaders
    BY <2>2 DEF LockReaders, LockVsim, UnlockVsim, UnlockReaders
  <2> QED
    BY <2>1, <2>2
<1>3. \A f \in Channels : LinesKept(f, {"map"}) /\ LinesKept(f, {"error"}) /\ TellingKept(f)
  BY <1>1, AllLinesStay
<1>4. Announced'
  <2>1. ~urcFlag' => ~urcFlag /\ urcAt' # "lockReaders"
    BY <1>1 DEF Announced
  <2> QED
    BY <1>1, <1>3, <2>1, AnnouncedKept
<1>5. FlagFollows'
  BY <1>1, <1>2, <1>3, FollowsKept
<1> QED
  BY <1>4, <1>5
-----------------------------------------------------------------------------
(* The response to the mapping command, without NoReset                    *)

(* An answer is "ok" or "error". *)
LEMMA AnswerIs ==
  ASSUME NEW f
  PROVE  /\ OnWay(f, {"ok"}) => OnWay(f, Answers)
         /\ OnWay(f, {"error"}) => OnWay(f, Answers)
         /\ OnWay(f, {"ok"})' => OnWay(f, Answers)'
         /\ OnWay(f, {"error"})' => OnWay(f, Answers)'
<1>1. /\ OnWay(f, {"ok"}) => OnWay(f, Answers)
      /\ OnWay(f, {"error"}) => OnWay(f, Answers)
  BY DEF OnWay, Unread, InHand, Answers
<1>2. /\ OnWay(f, {"ok"})' => OnWay(f, Answers)'
      /\ OnWay(f, {"error"})' => OnWay(f, Answers)'
  BY DEF OnWay, Unread, InHand, Answers
<1> QED
  BY <1>1, <1>2

\* The places of a switch that has not asked for the mapping, or is done with it
Unasked == {"idle", "need", "restart", "reader", "map", "unlock"}

(* Steps that do not move the switch past the mapping, nor answers to it. *)
LEMMA ResponseKept ==
  ASSUME ResponseTells, UNCHANGED << inst, mdMajor, majorSlot >>, fd'[own] = fd[own],
         UNCHANGED << sw, target >> \/ (sw \in Unasked /\ sw' \in Unasked),
         \A f \in Channels : owed'[f] = "map" => owed[f] = "map",
         LinesKept(fd[own], {"ok"}), LinesKept(fd[own], {"error"}),
         waiting'[own] = waiting[own], result'[own] = result[own]
  PROVE  ResponseTells'
<1>0. own' = own /\ Channels' = Channels
  BY Same
<1>1. PICK f0 : f0 = fd[own]
  OBVIOUS
<1>2. /\ OnWay(f0, {"ok"})' <=> OnWay(f0, {"ok"})
      /\ OnWay(f0, {"error"})' <=> OnWay(f0, {"error"})
      /\ fd'[own'] = f0
  BY <1>0, <1>1 DEF LinesKept
<1>3. /\ OnWay(fd[own], {"ok"})' <=> OnWay(fd[own], {"ok"})
      /\ OnWay(fd[own], {"error"})' <=> OnWay(fd[own], {"error"})
  <2>1. /\ OnWay(fd[own], {"ok"})' <=> OnWay(f0, {"ok"})'
        /\ OnWay(fd[own], {"error"})' <=> OnWay(f0, {"error"})'
    BY <1>2 DEF OnWay, Unread, InHand
  <2> QED
    BY <1>1, <1>2, <2>1
<1>4. CASE UNCHANGED << sw, target >>
  BY <1>0, <1>3, <1>4 DEF ResponseTells
<1>5. CASE sw \in Unasked /\ sw' \in Unasked
  BY <1>0, <1>5 DEF ResponseTells, Unasked
<1> QED
  BY <1>4, <1>5

(* Without an instance of the first kind nothing waits for the URC handler. *)
LEMMA UrcNeedsNoReset ==
  ASSUME MutexesHeld, Announced, SimSwitchUrc
  PROVE  NoReset
<1>1. CASE CheckIfSwitch
  BY <1>1 DEF CheckIfSwitch, Announced, NoneAnnounced, MutexesHeld
<1>2. CASE LockReaders \/ SwitchUrc \/ LockVsim \/ SwitchVsim \/ UnlockVsim \/ UnlockReaders
  <2>1. urcAt # "idle"
    BY <1>2 DEF LockReaders, SwitchUrc, LockVsim, SwitchVsim, UnlockVsim, UnlockReaders
  <2> QED
    BY <2>1 DEF MutexesHeld
<1> QED
  BY <1>1, <1>2 DEF SimSwitchUrc

(* The modem answers: the major slot moves with "ok" alone. *)
LEMMA ModemResponse ==
  ASSUME Types, Paired, Awaited, AnswersAwaited, ResponseTells, UNCHANGED inst,
         NEW f \in Channels, ModemAnswers(f)
  PROVE  ResponseTells'
<1>0. /\ UNCHANGED << fd, waiting, result, sw, majorSlot, target >>
      /\ owed \in [Channels -> {"none", "plain", "map"}] /\ owed[f] # "none"
      /\ owed' = [owed EXCEPT ![f] = "none"]
      /\ own' = own /\ Channels' = Channels /\ own \in Channels /\ own[1] = "own"
      /\ fd[own] \in Channels /\ fd[own][1] = "own" /\ ctxOf[fd[own]] = own
  <2>1. /\ UNCHANGED << fd, waiting, result, sw, majorSlot, target >>
        /\ owed[f] # "none" /\ owed' = [owed EXCEPT ![f] = "none"]
    BY DEF ModemAnswers
  <2>2. owed \in [Channels -> {"none", "plain", "map"}] /\ fd \in [Channels -> Channels]
    BY DEF Types, TypeOK
  <2>3. own \in Channels /\ own[1] = "own"
    BY Instance DEF Types, own
  <2>4. fd[own] \in Channels /\ fd[own][1] = "own" /\ ctxOf[fd[own]] = own
    BY <2>2, <2>3 DEF Paired
  <2> QED
    BY <2>1, <2>2, <2>3, <2>4, Same
<1>1. PICK answer \in Answers :
           /\ answer = "error" => owed[f] = "map"
           /\ mdMajor' = IF owed[f] = "map" /\ answer = "ok" THEN target ELSE mdMajor
           /\ \A kinds : answer \notin kinds => LinesKept(f, kinds)
           /\ \A kinds : answer \in kinds => OnWay(f, kinds)'
           /\ \A g \in Channels : g # f => \A kinds : "map" \notin kinds => LinesKept(g, kinds)
  BY ModemLines
<1>2. answer \in {"ok", "error"}
  BY <1>1 DEF Answers
<1>3. PICK f0 : f0 = fd[own]
  OBVIOUS
<1>4. CASE owed[f] = "plain"
  <2>1. f[1] = "cmd" /\ f # fd[own] /\ mdMajor' = mdMajor
    BY <1>0, <1>1, <1>4 DEF Awaited
  <2>2. LinesKept(fd[own], {"ok"}) /\ LinesKept(fd[own], {"error"})
    BY <1>0, <1>1, <2>1
  <2>3. \A g \in Channels : owed'[g] = "map" => owed[g] = "map"
    BY <1>0
  <2> QED
    BY <1>0, <2>1, <2>2, <2>3, ResponseKept
<1>5. CASE owed[f] = "map"
  <2>1. f = fd[own] /\ sw = "mapWait" /\ mdMajor = majorSlot
        /\ \A g \in Channels : owed[g] = "map" => g = fd[own]
    BY <1>5 DEF ResponseTells
  <2>2. ~OnWay(f, Answers) /\ waiting[own] # "none"
    BY <1>0, <2>1 DEF AnswersAwaited
  <2>3. \A g \in Channels : owed'[g] # "map"
    BY <1>0, <2>1
  <2>4. /\ OnWay(f, {"ok"})' => mdMajor' = target
        /\ OnWay(f, {"error"})' => mdMajor' = majorSlot
    <3>1. ~OnWay(f, {"ok"}) /\ ~OnWay(f, {"error"})
      BY <2>2, AnswerIs
    <3>2. CASE answer = "ok"
      <4>1. mdMajor' = target /\ LinesKept(f, {"error"})
        BY <1>1, <1>5, <3>2
      <4> QED
        BY <3>1, <4>1 DEF LinesKept
    <3>3. CASE answer = "error"
      <4>1. mdMajor' = mdMajor /\ LinesKept(f, {"ok"})
        BY <1>1, <3>3
      <4> QED
        BY <2>1, <3>1, <4>1 DEF LinesKept
    <3> QED
      BY <1>2, <3>2, <3>3
  <2>5. /\ OnWay(fd[own], {"ok"})' => mdMajor' = target
        /\ OnWay(fd[own], {"error"})' => mdMajor' = majorSlot
    BY <1>0, <2>1, <2>4 DEF OnWay, Unread, InHand
  <2> QED
    BY <1>0, <2>1, <2>2, <2>3, <2>5 DEF ResponseTells
<1> QED
  BY <1>0, <1>4, <1>5

(* The answer to the mapping is processed. *)
LEMMA ProcessedResponse ==
  ASSUME Types, Paired, AnswersAwaited, ResponseTells, UNCHANGED inst,
         NEW r \in Channels, ProcessLine(r)
  PROVE  ResponseTells'
<1>0. /\ UNCHANGED << fd, owed, sw, majorSlot, target, mdMajor >> /\ place[r] = "taken"
      /\ own' = own /\ Channels' = Channels /\ own \in Channels
      /\ fd[own] \in Channels /\ ctxOf[fd[own]] = own /\ fd[ctxOf[r]] = r /\ ctxOf[r] \in Channels
      /\ waiting \in [Channels -> {"none", "plain", "map"}]
      /\ result \in [Channels -> {"none", "ok", "error"}]
  <2>1. UNCHANGED << fd, owed, sw, majorSlot, target, mdMajor >> /\ place[r] = "taken"
    BY DEF ProcessLine, modem
  <2>2. /\ waiting \in [Channels -> {"none", "plain", "map"}]
        /\ result \in [Channels -> {"none", "ok", "error"}]
        /\ fd \in [Channels -> Channels] /\ ctxOf \in [Channels -> Channels]
    BY DEF Types, TypeOK
  <2>3. own \in Channels
    BY Instance DEF Types
  <2>4. fd[own] \in Channels /\ ctxOf[fd[own]] = own /\ fd[ctxOf[r]] = r /\ ctxOf[r] \in Channels
    BY <2>2, <2>3 DEF Paired
  <2> QED
    BY <2>1, <2>2, <2>3, <2>4, Same
<1>1. CASE r # fd[own]
  <2>1. ctxOf[r] # own
    BY <1>0, <1>1
  <2>2. waiting'[own] = waiting[own] /\ result'[own] = result[own]
    BY <1>0, <2>1 DEF ProcessLine
  <2>3. LinesKept(fd[own], {"ok"}) /\ LinesKept(fd[own], {"error"})
    BY <1>0, <1>1, LineProcessed
  <2> QED
    BY <1>0, <2>2, <2>3, ResponseKept
<1>2. CASE r = fd[own] /\ line[r][1] \notin Answers
  <2>1. waiting' = waiting /\ result' = result
    BY <1>2 DEF ProcessLine, Answers
  <2>2. LinesKept(fd[own], {"ok"}) /\ LinesKept(fd[own], {"error"})
    <3>1. line[r][1] \notin {"ok"} /\ line[r][1] \notin {"error"}
      BY <1>2 DEF Answers
    <3> QED
      BY <1>2, <3>1, LineProcessed
  <2> QED
    BY <1>0, <2>1, <2>2, ResponseKept
<1>3. CASE r = fd[own] /\ line[r][1] \in Answers
  <2>1. OnWay(r, Answers) /\ OnWay(r, {line[r][1]})
    BY <1>0, <1>3 DEF OnWay, InHand
  <2>2. waiting[own] # "none" /\ AtMostOne(r, Answers)
        /\ \A f \in Channels : owed[f] = "map" => f # r
    BY <1>0, <1>3, <2>1 DEF AnswersAwaited
  <2>3. waiting'[own] = "none" /\ result'[own] = line[r][1]
    BY <1>0, <1>3, <2>2 DEF ProcessLine, Answers
  <2>4. ~OnWay(r, Answers)'
    BY <1>3, <2>2, LineProcessed
  <2>5. ~OnWay(r, {"ok"})' /\ ~OnWay(r, {"error"})'
    BY <2>4, AnswerIs
  <2>6. ~OnWay(fd[own], {"ok"})' /\ ~OnWay(fd[own], {"error"})'
    BY <1>0, <1>3, <2>5 DEF OnWay, Unread, InHand
  <2>7. \A f \in Channels : owed[f] # "map"
    BY <1>3, <2>2 DEF ResponseTells
  <2>8. sw = "mapWait" => \/ line[r][1] = "ok" /\ mdMajor = target
                          \/ line[r][1] = "error" /\ mdMajor = majorSlot
    BY <1>3, <2>1 DEF ResponseTells, Answers
  <2> QED
    BY <1>0, <2>3, <2>6, <2>7, <2>8 DEF ResponseTells
<1> QED
  BY <1>1, <1>2, <1>3

(* The switch asks for the mapping, and goes by the answer. *)
LEMMA SwitchResponse ==
  ASSUME Types, Paired, Awaited, AnswersAwaited, ResponseTells, UNCHANGED inst,
         SendMap \/ MapAnswered \/ SwitchAll
  PROVE  ResponseTells'
<1>0. /\ own' = own /\ Channels' = Channels /\ own \in Channels /\ own[1] = "own"
      /\ fd[own] \in Channels /\ ctxOf[fd[own]] = own
      /\ owed \in [Channels -> {"none", "plain", "map"}]
      /\ waiting \in [Channels -> {"none", "plain", "map"}]
      /\ result \in [Channels -> {"none", "ok", "error"}]
  BY Same, Instance DEF Types, TypeOK, Paired, own
<1>1. CASE SendMap
  <2>1. /\ UNCHANGED << fd, readers, lines, mdMajor, majorSlot, target >>
        /\ sw = "map" /\ sw' = "mapWait"
        /\ owed' = [owed EXCEPT ![fd[own]] = "map"] /\ waiting' = [waiting EXCEPT ![own] = "map"]
    BY <1>1 DEF SendMap, Send
  <2>2. mdMajor = majorSlot /\ \A f \in Channels : owed[f] # "map"
    BY <2>1 DEF ResponseTells
  <2>3. ~OnWay(fd[own], Answers)
    <3>1. waiting[own] = "none"
      BY <1>0, <2>1 DEF Awaited
    <3> QED
      BY <1>0, <3>1 DEF AnswersAwaited
  <2>4. ~OnWay(fd[own], {"ok"}) /\ ~OnWay(fd[own], {"error"})
    BY <2>3, AnswerIs
  <2>5. ~OnWay(fd[own], {"ok"})' /\ ~OnWay(fd[own], {"error"})'
    BY <1>0, <2>1, <2>4 DEF OnWay, Unread, InHand, readers
  <2>6. waiting'[own] # "none"
    BY <1>0, <2>1
  <2>7. \A f \in Channels : owed'[f] = "map" => f = fd[own]
    BY <1>0, <2>1, <2>2
  <2> QED
    BY <1>0, <2>1, <2>2, <2>5, <2>6, <2>7 DEF ResponseTells
<1>2. CASE MapAnswered
  <2>1. /\ UNCHANGED << fd, owed, mdMajor, majorSlot, target >>
        /\ sw = "mapWait" /\ waiting[own] = "none"
        /\ sw' = IF result[own] = "error" THEN "map" ELSE "waitUrc"
    BY <1>2 DEF MapAnswered, swRest, modem
  <2>2. \A f \in Channels : owed[f] # "map"
    <3>1. owed[fd[own]] = "none"
      BY <1>0, <2>1 DEF AnswersAwaited
    <3> QED
      BY <3>1 DEF ResponseTells
  <2>3. \/ result[own] = "ok" /\ mdMajor = target
        \/ result[own] = "error" /\ mdMajor = majorSlot
    BY <2>1 DEF ResponseTells
  <2> QED
    BY <1>0, <2>1, <2>2, <2>3 DEF ResponseTells
<1>3. CASE SwitchAll
  <2>1. /\ UNCHANGED << owed, mdMajor >> /\ sw = "waitUrc" /\ sw' = "unlock" /\ majorSlot' = target
    BY <1>3 DEF SwitchAll, modem
  <2> QED
    BY <1>0, <2>1 DEF ResponseTells
<1> QED
  BY <1>1, <1>2, <1>3

(* All other steps leave the response and the modem's major slot. *)
LEMMA OtherResponse ==
  ASSUME Types, Paired, ResponseTells, ~NoReset, UNCHANGED inst,
         \/ \E r \in Channels : \/ ReadLine(r) \/ TakeReaderMutex(r) \/ ReleaseReaderMutex(r) \/ WaitFlag(r)
                                \/ Unsolicited(r)
                                \/ StartHandler(r) \/ EndHandler(r) \/ Resume(r)
         \/ \E new \in Slots : StartSwitch(new)
         \/ LockChannels \/ (Locked /\ Turned({"urc"}, majorSlot, target)) \/ UnlockChannels \/ EndSwitch
  PROVE  ResponseTells'
<1>0. /\ own \in Channels /\ own[1] = "own" /\ fd[own] \in Channels
      /\ fd \in [Channels -> Channels]
      /\ owed \in [Channels -> {"none", "plain", "map"}]
      /\ waiting \in [Channels -> {"none", "plain", "map"}]
      /\ result \in [Channels -> {"none", "ok", "error"}]
  BY Same, Instance DEF Types, TypeOK, own
<1>1. CASE \E r \in Channels : ReadLine(r) \/ TakeReaderMutex(r) \/ ReleaseReaderMutex(r) \/ WaitFlag(r)
  <2>1. UNCHANGED << fd, sw, target, mdMajor, majorSlot, owed, waiting, result >>
    BY <1>1 DEF ReadLine, TakeReaderMutex, ReleaseReaderMutex, WaitFlag, modem
  <2>2. LinesKept(fd[own], {"ok"}) /\ LinesKept(fd[own], {"error"})
    BY <1>0, <1>1, ReaderLines
  <2> QED
    BY <2>1, <2>2, ResponseKept
<1>2. CASE \E f \in Channels : Unsolicited(f)
  <2>1. UNCHANGED << fd, sw, target, mdMajor, majorSlot, owed, waiting, result >>
    BY <1>2 DEF Unsolicited
  <2>2. LinesKept(fd[own], {"ok"}) /\ LinesKept(fd[own], {"error"})
    BY <1>0, <1>2, UnsolicitedLines
  <2> QED
    BY <2>1, <2>2, ResponseKept
<1>3. CASE \E c \in Channels : StartHandler(c) \/ EndHandler(c) \/ Resume(c)
  <2>1. /\ UNCHANGED << fd, sw, target, mdMajor, majorSlot, lines, readers >>
        /\ waiting'[own] = waiting[own] /\ result'[own] = result[own]
        /\ \A f \in Channels : owed'[f] = "map" => owed[f] = "map"
    <3>1. PICK c \in Channels : StartHandler(c) \/ EndHandler(c) \/ Resume(c)
      BY <1>3
    <3>2. CASE StartHandler(c)
      <4>1. /\ UNCHANGED << fd, sw, target, mdMajor, majorSlot, lines, readers >> /\ c # own
            /\ waiting' = [waiting EXCEPT ![c] = "plain"] /\ result' = [result EXCEPT ![c] = "none"]
            /\ owed' = [owed EXCEPT ![fd[c]] = "plain"]
        BY <1>0, <3>2 DEF StartHandler, Send
      <4> QED
        BY <1>0, <4>1
    <3>3. CASE EndHandler(c) \/ Resume(c)
      BY <3>3 DEF EndHandler, Resume, modem
    <3> QED
      BY <3>1, <3>2, <3>3
  <2>2. LinesKept(fd[own], {"ok"}) /\ LinesKept(fd[own], {"error"})
    BY <2>1, AllLinesStay
  <2> QED
    BY <2>1, <2>2, ResponseKept
<1>4. CASE (\E new \in Slots : StartSwitch(new)) \/ LockChannels \/ UnlockChannels \/ EndSwitch
  <2>1. /\ UNCHANGED << fd, mdMajor, majorSlot, lines, readers, owed, waiting, result >>
        /\ sw \in Unasked /\ sw' \in Unasked
    <3>1. CASE \E new \in Slots : StartSwitch(new)
      BY <3>1 DEF StartSwitch, modem, Unasked
    <3>2. CASE LockChannels
      BY <3>2 DEF LockChannels, modem, Unasked, swRest
    <3>3. CASE UnlockChannels \/ EndSwitch
      BY <3>3 DEF UnlockChannels, EndSwitch, modem, Unasked, swRest
    <3> QED
      BY <1>4, <3>1, <3>2, <3>3
  <2>2. LinesKept(fd[own], {"ok"}) /\ LinesKept(fd[own], {"error"})
    BY <2>1, AllLinesStay
  <2> QED
    BY <2>1, <2>2, ResponseKept
<1>5. CASE Locked /\ Turned({"urc"}, majorSlot, target)
  <2>1. /\ UNCHANGED << mdMajor, majorSlot, lines, readers, owed, waiting, result >>
        /\ sw \in Unasked /\ sw' \in Unasked
    BY <1>5 DEF Locked, swRest, modem, Unasked
  <2>2. fd'[own] = fd[own]
    BY <1>0, <1>5 DEF Turned
  <2>3. LinesKept(fd[own], {"ok"}) /\ LinesKept(fd[own], {"error"})
    BY <2>1, AllLinesStay
  <2> QED
    BY <2>1, <2>2, <2>3, ResponseKept
<1> QED
  BY <1>1, <1>2, <1>3, <1>4, <1>5
-----------------------------------------------------------------------------
(* The arrangement of the channels                                         *)

(* Where neither descriptors nor the slots they are arranged by change, the channels stay arranged. *)
LEMMA ArrangedKept ==
  ASSUME Arranged, UNCHANGED << inst, fd >>, sw = "gaveUp" => sw' = "gaveUp",
         sw' # "gaveUp" => \A c \in Channels : MajorOf(c[1])' = MajorOf(c[1])
  PROVE  Arranged'
<1> SUFFICES ASSUME sw' # "gaveUp", NEW c \in Channels
             PROVE  fd'[c] = << c[1], Stack(MajorOf(c[1])', c[2]) >>
  BY Same DEF Arranged, Stack
<1> QED
  BY DEF Arranged

(* An exchange arranges the channels of its classes by the new slot. *)
LEMMA ArrangedTurned ==
  ASSUME Types, Paired, Arranged, UNCHANGED inst, sw # "gaveUp",
         NEW classes, NEW old \in Slots, NEW new \in Slots, SwitchChannels(classes, old, new),
         \A c \in Channels : IF c[1] \in classes THEN MajorOf(c[1]) = old /\ MajorOf(c[1])' = new
                             ELSE MajorOf(c[1])' = MajorOf(c[1])
  PROVE  Arranged'
<1>0. inst \in Instances /\ fd \in [Channels -> Channels] /\ ctxOf \in [Channels -> Channels]
  BY DEF Types, TypeOK
<1> SUFFICES ASSUME NEW c \in Channels
             PROVE  fd'[c] = << c[1], Stack(MajorOf(c[1])', c[2]) >>
  BY Same DEF Arranged, Stack
<1>1. CASE c[1] \in classes
  <2>1. \A d \in Channels : d[1] = c[1] => fd[d] = << d[1], Stack(old, d[2]) >>
    BY <1>1 DEF Arranged
  <2>2. fd'[c] = << c[1], Stack(new, c[2]) >>
    BY <1>0, <1>1, <2>1, Rearranged, ZenonT(60)
  <2> QED
    BY <1>1, <2>2
<1>2. CASE c[1] \notin classes
  <2>1. fd'[c] = fd[c]
    BY <1>0, <1>2, Exchange DEF Turned
  <2> QED
    BY <1>2, <2>1 DEF Arranged
<1> QED
  BY <1>1, <1>2

(* The switch keeps the channels arranged. *)
LEMMA SwitchArranged ==
  ASSUME Types, Paired, MutexesHeld, Arranged, UNCHANGED inst,
         (\E new \in Slots : StartSwitch(new)) \/ Switching \/ MapTimesOut \/ SimInitFails
  PROVE  Arranged'
<1>0. majorSlot \in Slots /\ target \in Slots /\ NoReset' = NoReset /\ (urcFlag => NoReset)
  BY Same DEF Types, TypeOK, MutexesHeld
<1>1. CASE (\E new \in Slots : StartSwitch(new)) \/ LockChannels \/ UnlockChannels \/ EndSwitch
  <2>1. /\ UNCHANGED << fd, majorSlot, urcFlag, urcAt, urcOld >>
        /\ sw \notin Mapping \cup {"gaveUp"} /\ sw' \notin Mapping \cup {"gaveUp"}
    <3>1. CASE \E new \in Slots : StartSwitch(new)
      BY <3>1 DEF StartSwitch, urcVars, Mapping
    <3>2. CASE LockChannels
      BY <3>2 DEF LockChannels, urcVars, Mapping, swRest
    <3>3. CASE UnlockChannels \/ EndSwitch
      BY <3>3 DEF UnlockChannels, EndSwitch, urcVars, Mapping, swRest
    <3> QED
      BY <1>1, <3>1, <3>2, <3>3
  <2>2. \A class : MajorOf(class)' = MajorOf(class)
    BY <1>0, <2>1 DEF MajorOf, UrcMajor, Mapping
  <2> QED
    BY <2>1, <2>2, ArrangedKept
<1>2. CASE Locked
  <2>1. /\ UNCHANGED << majorSlot, target, urcAt, urcOld >> /\ sw = "need" /\ sw' = "map"
        /\ IF NoReset THEN urcFlag' = TRUE /\ UNCHANGED fd
           ELSE SwitchChannels({"urc"}, majorSlot, target) /\ UNCHANGED urcFlag
    BY <1>2 DEF Locked, swRest, urcVars
  <2>2. CASE NoReset
    <3>1. \A class : MajorOf(class)' = MajorOf(class)
      BY <1>0, <2>1, <2>2 DEF MajorOf, UrcMajor
    <3> QED
      BY <2>1, <2>2, <3>1, ArrangedKept
  <2>3. CASE ~NoReset
    <3>1. ~urcFlag /\ ~urcFlag'
      BY <1>0, <2>1, <2>3
    <3>2. \A c \in Channels :
            IF c[1] \in {"urc"} THEN MajorOf(c[1]) = majorSlot /\ MajorOf(c[1])' = target
            ELSE MajorOf(c[1])' = MajorOf(c[1])
      BY <1>0, <2>1, <2>3, <3>1 DEF MajorOf, UrcMajor
    <3> QED
      BY <1>0, <2>1, <2>3, <3>2, ArrangedTurned
  <2> QED
    BY <2>2, <2>3
<1>3. CASE SendMap \/ MapAnswered \/ MapTimesOut
  <2>1. /\ UNCHANGED << fd, majorSlot, target, urcFlag, urcAt, urcOld >>
        /\ sw \in Mapping /\ sw' \in Mapping
    BY <1>3 DEF SendMap, MapAnswered, MapTimesOut, urcVars, swRest, Mapping
  <2>2. \A class : MajorOf(class)' = MajorOf(class)
    BY <1>0, <2>1 DEF MajorOf, UrcMajor, Mapping
  <2> QED
    BY <2>1, <2>2, ArrangedKept DEF Mapping
<1>4. CASE SwitchAll
  <2>1. /\ UNCHANGED << target, urcFlag, urcAt, urcOld >> /\ sw = "waitUrc" /\ ~urcFlag
        /\ sw' = "unlock" /\ majorSlot' = target /\ SwitchChannels(Exchanged, majorSlot, target)
    BY <1>4 DEF SwitchAll, urcVars
  <2>2. \A c \in Channels : c[1] \in Classes
    BY DEF Channels
  <2>3. \A c \in Channels :
          IF c[1] \in Exchanged THEN MajorOf(c[1]) = majorSlot /\ MajorOf(c[1])' = target
          ELSE MajorOf(c[1])' = MajorOf(c[1])
    BY <1>0, <2>1, <2>2 DEF MajorOf, UrcMajor, Exchanged
  <2> QED
    BY <1>0, <2>1, <2>3, ArrangedTurned
<1>5. CASE SimInitFails
  BY <1>5, Same DEF SimInitFails, Arranged
<1> QED
  BY <1>1, <1>2, <1>3, <1>4, <1>5 DEF Switching

(* So does the URC handler. *)
LEMMA UrcArranged ==
  ASSUME Types, Paired, MutexesHeld, Announced, FlagFollows, Arranged, UNCHANGED inst, SimSwitchUrc
  PROVE  Arranged'
<1>0. /\ urcOld \in Slots /\ urcNew \in Slots /\ NoReset' = NoReset /\ Classes' = Classes
      /\ UNCHANGED << sw, majorSlot, target >> /\ NoReset
  BY Same, UrcNeedsNoReset DEF Types, TypeOK, SimSwitchUrc, CheckIfSwitch, LockReaders, SwitchUrc,
     LockVsim, SwitchVsim, UnlockVsim, UnlockReaders, urcRest
<1>1. CASE CheckIfSwitch
  <2>1. /\ UNCHANGED << fd, urcFlag >> /\ urcAt = "idle" /\ urcOld' = majorSlot
        /\ (urcAt' = "lockReaders" /\ urcFlag) \/ urcAt' = "idle"
    BY <1>1 DEF CheckIfSwitch
  <2>2. \A class : MajorOf(class)' = MajorOf(class)
    BY <1>0, <2>1 DEF MajorOf, UrcMajor
  <2> QED
    BY <1>0, <2>1, <2>2, ArrangedKept
<1>2. CASE LockReaders \/ LockVsim \/ UnlockVsim \/ UnlockReaders
  <2>1. /\ UNCHANGED << fd, urcFlag, urcOld >>
        /\ urcAt' \in {"lockReaders", "need", "restart", "reader"}
             <=> urcAt \in {"lockReaders", "need", "restart", "reader"}
    BY <1>2 DEF LockReaders, LockVsim, UnlockVsim, UnlockReaders, urcSlots
  <2>2. \A class : MajorOf(class)' = MajorOf(class)
    BY <1>0, <2>1 DEF MajorOf, UrcMajor
  <2> QED
    BY <1>0, <2>1, <2>2, ArrangedKept
<1>3. CASE SwitchUrc
  <2>1. /\ urcAt = "lockReaders" /\ ~urcFlag' /\ UNCHANGED << urcOld, urcNew >>
        /\ SwitchChannels({"urc"}, urcOld, urcNew)
        /\ urcAt' = IF "vsim" \in Classes THEN "need" ELSE "unlockReaders"
    BY <1>3 DEF SwitchUrc, urcSlots
  <2>2. urcFlag /\ urcOld = majorSlot /\ urcNew = target /\ sw \in Mapping
    BY <1>0, <2>1 DEF FlagFollows, Mapping
  <2>3. \A c \in Channels : c[1] \in Classes
    BY DEF Channels
  <2>4. \A c \in Channels :
          IF c[1] \in {"urc"} THEN MajorOf(c[1]) = urcOld /\ MajorOf(c[1])' = urcNew
          ELSE MajorOf(c[1])' = MajorOf(c[1])
    BY <1>0, <2>1, <2>2, <2>3 DEF MajorOf, UrcMajor, Mapping
  <2>5. sw # "gaveUp"
    BY <2>2 DEF Mapping
  <2> QED
    BY <1>0, <2>1, <2>4, <2>5, ArrangedTurned
<1>4. CASE SwitchVsim
  <2>1. /\ urcAt = "need" /\ UNCHANGED << urcFlag, urcOld, urcNew >> /\ urcAt' = "unlockVsim"
        /\ SwitchChannels({"vsim"}, urcOld, urcNew)
    BY <1>4 DEF SwitchVsim, urcSlots
  <2>2. urcNew = UrcMajor
    BY <1>0, <2>1 DEF FlagFollows, Locking
  <2>3. \A c \in Channels :
          IF c[1] \in {"vsim"} THEN MajorOf(c[1]) = urcOld /\ MajorOf(c[1])' = urcNew
          ELSE MajorOf(c[1])' = MajorOf(c[1])
    BY <1>0, <2>1, <2>2 DEF MajorOf, UrcMajor
  <2>4. CASE sw # "gaveUp"
    BY <1>0, <2>1, <2>3, <2>4, ArrangedTurned
  <2>5. CASE sw = "gaveUp"
    BY <1>0, <2>5 DEF Arranged
  <2> QED
    BY <2>4, <2>5
<1> QED
  BY <1>1, <1>2, <1>3, <1>4 DEF SimSwitchUrc

(* No step of readers, modem and senders touches what the channels are arranged by. *)
LEMMA OtherArranged ==
  ASSUME Arranged, UNCHANGED inst, NEW c \in Channels,
         Reader(c) \/ ModemAnswers(c) \/ Unsolicited(c) \/ StartHandler(c) \/ EndHandler(c) \/ Resume(c)
  PROVE  Arranged'
<1>1. UNCHANGED << fd, majorSlot, target, urcFlag, urcAt, urcOld, sw >>
  <2>1. CASE Reader(c)
    BY <2>1 DEF Reader, ReadLine, TakeReaderMutex, ProcessLine, ReleaseReaderMutex, WaitFlag, urcVars
  <2>2. CASE ModemAnswers(c) \/ Unsolicited(c)
    BY <2>2 DEF ModemAnswers, Unsolicited, urcVars
  <2>3. CASE StartHandler(c) \/ EndHandler(c) \/ Resume(c)
    BY <2>3 DEF StartHandler, EndHandler, Resume, urcVars
  <2> QED
    BY <2>1, <2>2, <2>3
<1>2. \A class : MajorOf(class)' = MajorOf(class)
  BY <1>1, Same DEF MajorOf, UrcMajor
<1> QED
  BY <1>1, <1>2, ArrangedKept
-----------------------------------------------------------------------------
(* Readers and their mutexes                                               *)

(* A reader keeps the mutex it has where nobody but readers gives one back. *)
LEMMA ReadersKept ==
  ASSUME Types, Paired, ReadersHold, UNCHANGED << inst, ctxOf, place, caught >>,
         \A c \in Channels : c[1] # "own" /\ readerMutex[c] = "reader" => readerMutex'[c] = "reader"
  PROVE  ReadersHold'
<1>1. ctxOf \in [Channels -> Channels] /\ \A r \in Channels : ctxOf[r][1] = r[1]
  BY DEF Types, TypeOK, Paired
<1> QED
  BY <1>1, Same DEF ReadersHold, ReaderExcluded

(* A reader takes and releases the mutex of its own context. *)
LEMMA ReaderHolds ==
  ASSUME Types, Paired, ReadersHold, UNCHANGED inst, NEW r \in Channels, Reader(r)
  PROVE  ReadersHold'
<1>0. /\ UNCHANGED << ctxOf, caught >> /\ Channels' = Channels
      /\ ctxOf \in [Channels -> Channels]
      /\ place \in [Channels -> {"idle", "have", "taken", "processed", "waitFlag"}]
      /\ readerMutex \in [Channels -> {"free", "reader", "switch"}]
      /\ \A q \in Channels : fd[ctxOf[q]] = q
  BY Same DEF Types, TypeOK, Paired, Reader, ReadLine, TakeReaderMutex, ProcessLine,
     ReleaseReaderMutex, WaitFlag
<1>1. \A q \in Channels : q[1] # "own" /\ place[q] \in {"taken", "processed"}
                            => readerMutex[ctxOf[q]] = "reader"
  BY DEF ReadersHold
<1>2. \A q \in Channels : q[1] # "own" /\ place'[q] \in {"taken", "processed"}
                            => readerMutex'[ctxOf[q]] = "reader"
  <2>1. CASE ReadLine(r) \/ WaitFlag(r)
    <3>1. UNCHANGED readerMutex /\ \A q \in Channels : place'[q] \in {"taken", "processed"}
                                                         => place'[q] = place[q]
      BY <1>0, <2>1 DEF ReadLine, WaitFlag, mutexes
    <3> QED
      BY <1>1, <3>1
  <2>2. CASE TakeReaderMutex(r)
    BY <1>0, <1>1, <2>2 DEF TakeReaderMutex
  <2>3. CASE ProcessLine(r)
    BY <1>0, <1>1, <2>3 DEF ProcessLine, mutexes
  <2>4. CASE ReleaseReaderMutex(r)
    <3>1. /\ readerMutex' = [readerMutex EXCEPT ![ctxOf[r]] = "free"]
          /\ place'[r] \notin {"taken", "processed"}
          /\ \A q \in Channels : q # r => place'[q] = place[q]
      BY <1>0, <2>4 DEF ReleaseReaderMutex
    <3>2. \A q \in Channels : q # r => ctxOf[q] # ctxOf[r]
      BY <1>0
    <3> QED
      BY <1>0, <1>1, <3>1, <3>2
  <2> QED
    BY <2>1, <2>2, <2>3, <2>4 DEF Reader
<1> QED
  BY <1>0, <1>2, Same DEF ReadersHold, ReaderExcluded

(* Modem and senders leave the reader mutexes. *)
LEMMA OthersHold ==
  ASSUME Types, Paired, ReadersHold, UNCHANGED inst, NEW c \in Channels,
         ModemAnswers(c) \/ Unsolicited(c) \/ StartHandler(c) \/ EndHandler(c) \/ Resume(c)
  PROVE  ReadersHold'
<1>1. UNCHANGED << ctxOf, place, caught, readerMutex >>
  <2>1. CASE ModemAnswers(c) \/ Unsolicited(c)
    BY <2>1 DEF ModemAnswers, Unsolicited, mutexes, readers
  <2>2. CASE StartHandler(c) \/ EndHandler(c) \/ Resume(c)
    BY <2>2 DEF StartHandler, EndHandler, Resume, mutexes, readers
  <2> QED
    BY <2>1, <2>2
<1> QED
  BY <1>1, ReadersKept

(* The switch takes reader mutexes that are free, and gives back those it has. *)
LEMMA SwitchHolds ==
  ASSUME Types, Paired, MutexesHeld, Awaited, ReadersHold, UNCHANGED inst,
         (\E new \in Slots : StartSwitch(new)) \/ Switching \/ MapTimesOut \/ SimInitFails
  PROVE  ReadersHold'
<1>0. readerMutex \in [Channels -> {"free", "reader", "switch"}] /\ todo \subseteq Channels
      /\ \A c \in Channels : Held(c)
  BY AffectedIs DEF Types, TypeOK, MutexesHeld
<1>1. CASE (\E new \in Slots : StartSwitch(new)) \/ (Locked /\ NoReset) \/ SendMap \/ MapAnswered
             \/ EndSwitch \/ MapTimesOut \/ SimInitFails
  <2>1. UNCHANGED << ctxOf, place, caught, readerMutex >>
    <3>1. CASE \E new \in Slots : StartSwitch(new)
      BY <3>1 DEF StartSwitch, readers
    <3>2. CASE (Locked /\ NoReset) \/ SendMap
      BY <3>2 DEF Locked, SendMap, mutexes, readers, swRest
    <3>3. CASE MapAnswered \/ EndSwitch
      BY <3>3 DEF MapAnswered, EndSwitch, mutexes, readers, swRest
    <3>4. CASE MapTimesOut \/ SimInitFails
      BY <3>4 DEF MapTimesOut, SimInitFails, mutexes, readers
    <3> QED
      BY <1>1, <3>1, <3>2, <3>3, <3>4
  <2> QED
    BY <2>1, ReadersKept
<1>2. CASE LockChannels
  <2>1. UNCHANGED << ctxOf, place, caught >>
    BY <1>2 DEF LockChannels, swRest, readers
  <2>2. PICK c \in todo : NeedWait(c) \/ LockRestart(c) \/ LockReader(c)
    BY <1>2 DEF LockChannels
  <2>3. \A d \in Channels : readerMutex[d] = "reader" => readerMutex'[d] = "reader"
    BY <1>0, <2>2 DEF NeedWait, LockRestart, LockReader
  <2> QED
    BY <2>1, <2>3, ReadersKept
<1>3. CASE UnlockChannels
  <2>1. UNCHANGED << ctxOf, place, caught >> /\ sw = "unlock"
    BY <1>3 DEF UnlockChannels, swRest, readers
  <2>2. PICK c \in todo : Unlock(c)
    BY <1>3 DEF UnlockChannels
  <2>3. c[1] # "own" => readerMutex[c] = "switch"
    <3>1. SwitchLocked(c)
      BY <2>1, <2>2 DEF SwitchLocked, Taking, Holding
    <3> QED
      BY <1>0, <2>2, <3>1 DEF Held
  <2>4. readerMutex' = [readerMutex EXCEPT ![c] = "free"]
    BY <2>2 DEF Unlock
  <2>5. \A d \in Channels : d[1] # "own" /\ readerMutex[d] = "reader" => readerMutex'[d] = "reader"
    BY <1>0, <2>2, <2>3, <2>4
  <2> QED
    BY <2>1, <2>5, ReadersKept
<1>4. CASE Locked /\ ~NoReset
  <2>1. UNCHANGED << place, readerMutex >>
    BY <1>4 DEF Locked, swRest, readers, mutexes
  <2>2. Turned({"urc"}, majorSlot, target) /\ Quiet({"urc"})
    BY <1>4, ExchangeIsQuiet
  <2> QED
    BY <2>1, <2>2, TurnedReaders
<1>5. CASE SwitchAll
  <2>1. UNCHANGED << place, readerMutex >>
    BY <1>5 DEF SwitchAll, readers, mutexes
  <2>2. Turned(Exchanged, majorSlot, target) /\ Quiet(Exchanged)
    BY <1>5, ExchangeIsQuiet
  <2> QED
    BY <2>1, <2>2, TurnedReaders
<1> QED
  BY <1>1, <1>2, <1>3, <1>4, <1>5 DEF Switching

(* So does the URC handler. *)
LEMMA UrcHolds ==
  ASSUME Types, Paired, MutexesHeld, Awaited, ReadersHold, UNCHANGED inst, SimSwitchUrc
  PROVE  ReadersHold'
<1>0. /\ readerMutex \in [Channels -> {"free", "reader", "switch"}] /\ inst \in Instances
      /\ (\A c \in Channels : Held(c)) /\ (Locking \/ urcAt = "unlockVsim" => "vsim" \in Classes)
      /\ UNCHANGED place /\ uk \in 1 .. SimCount + 1 /\ SimCount \in Nat
  BY Instance DEF Types, TypeOK, MutexesHeld, SimSwitchUrc, CheckIfSwitch, LockReaders, SwitchUrc,
     LockVsim, SwitchVsim, UnlockVsim, UnlockReaders, urcRest, readers
<1>1. CASE CheckIfSwitch
  <2>1. UNCHANGED << ctxOf, caught, readerMutex >>
    BY <1>1 DEF CheckIfSwitch, mutexes
  <2> QED
    BY <1>0, <2>1, ReadersKept
<1>2. CASE LockReaders \/ LockVsim
  <2>1. UNCHANGED << ctxOf, caught >>
    BY <1>2 DEF LockReaders, LockVsim
  <2>2. \E c : NeedWait(c) \/ LockRestart(c) \/ LockReader(c)
    BY <1>2 DEF LockReaders, LockVsim
  <2>3. \A d \in Channels : readerMutex[d] = "reader" => readerMutex'[d] = "reader"
    BY <1>0, <2>2 DEF NeedWait, LockRestart, LockReader
  <2> QED
    BY <1>0, <2>1, <2>3, ReadersKept
<1>3. CASE UnlockVsim
  <2>1. UNCHANGED << ctxOf, caught >> /\ urcAt = "unlockVsim"
    BY <1>3 DEF UnlockVsim
  <2>2. CASE uk <= SimCount
    <3>1. PICK c : c = OfClass("vsim")[uk]
      OBVIOUS
    <3>2. c \in Channels /\ c[1] = "vsim" /\ c[2] + 1 = uk
      BY <1>0, <2>1, <2>2, <3>1, AtSlot
    <3>3. readerMutex[c] = "switch"
      <4>1. VsimLocked(c)
        BY <1>0, <2>1, <3>2 DEF VsimLocked
      <4> QED
        BY <1>0, <3>2, <4>1 DEF Held
    <3>4. readerMutex' = [readerMutex EXCEPT ![c] = "free"]
      BY <1>3, <2>2, <3>1 DEF UnlockVsim, Unlock
    <3>5. \A d \in Channels : readerMutex[d] = "reader" => readerMutex'[d] = "reader"
      BY <1>0, <3>2, <3>3, <3>4
    <3> QED
      BY <1>0, <2>1, <3>5, ReadersKept
  <2>3. CASE ~(uk <= SimCount)
    <3>1. UNCHANGED readerMutex
      BY <1>3, <2>3 DEF UnlockVsim, mutexes
    <3> QED
      BY <1>0, <2>1, <3>1, ReadersKept
  <2> QED
    BY <2>2, <2>3
<1>4. CASE UnlockReaders
  <2>1. UNCHANGED << ctxOf, caught >> /\ urcAt = "unlockReaders"
    BY <1>4 DEF UnlockReaders
  <2>2. CASE uk <= SimCount
    <3>1. PICK c : c = OfClass("urc")[uk]
      OBVIOUS
    <3>2. c \in Channels /\ c[1] = "urc" /\ c[2] + 1 = uk
      BY <1>0, <2>1, <2>2, <3>1, AtSlot, Instance
    <3>3. readerMutex[c] = "switch"
      <4>1. UrcLocked(c)
        BY <1>0, <2>1, <3>2 DEF UrcLocked
      <4> QED
        BY <1>0, <3>2, <4>1 DEF Held
    <3>4. readerMutex' = [readerMutex EXCEPT ![c] = "free"]
      BY <1>4, <2>2, <3>1 DEF UnlockReaders
    <3>5. \A d \in Channels : readerMutex[d] = "reader" => readerMutex'[d] = "reader"
      BY <1>0, <3>2, <3>3, <3>4
    <3> QED
      BY <1>0, <2>1, <3>5, ReadersKept
  <2>3. CASE ~(uk <= SimCount)
    <3>1. UNCHANGED readerMutex
      BY <1>4, <2>3 DEF UnlockReaders
    <3> QED
      BY <1>0, <2>1, <3>1, ReadersKept
  <2> QED
    BY <2>2, <2>3
<1>5. CASE SwitchUrc
  <2>1. UNCHANGED readerMutex
    BY <1>5 DEF SwitchUrc, mutexes
  <2>2. Turned({"urc"}, urcOld, urcNew) /\ Quiet({"urc"})
    BY <1>5, ExchangeIsQuiet
  <2> QED
    BY <1>0, <2>1, <2>2, TurnedReaders
<1>6. CASE SwitchVsim
  <2>1. UNCHANGED readerMutex
    BY <1>6 DEF SwitchVsim, mutexes
  <2>2. Turned({"vsim"}, urcOld, urcNew) /\ Quiet({"vsim"})
    BY <1>6, ExchangeIsQuiet
  <2> QED
    BY <1>0, <2>1, <2>2, TurnedReaders
<1> QED
  BY <1>1, <1>2, <1>3, <1>4, <1>5, <1>6 DEF SimSwitchUrc
-----------------------------------------------------------------------------
(* Awaited answers                                                         *)

(* Readers and the modem only end the wait for an answer. *)
LEMMA ReaderAwaited ==
  ASSUME Types, Awaited, UNCHANGED inst, NEW r \in Channels,
         Reader(r) \/ ModemAnswers(r) \/ Unsolicited(r)
  PROVE  Awaited'
<1>0. /\ waiting \in [Channels -> {"none", "plain", "map"}]
      /\ owed \in [Channels -> {"none", "plain", "map"}]
  BY DEF Types, TypeOK
<1>1. /\ UNCHANGED << sender, sw >>
      /\ \A c \in Channels : waiting'[c] # "none" => waiting[c] # "none"
      /\ \A f \in Channels : owed'[f] = "plain" => owed[f] = "plain"
  <2>1. CASE ReadLine(r) \/ TakeReaderMutex(r) \/ ReleaseReaderMutex(r) \/ WaitFlag(r) \/ Unsolicited(r)
    BY <2>1 DEF ReadLine, TakeReaderMutex, ReleaseReaderMutex, WaitFlag, Unsolicited, modem
  <2>2. CASE ProcessLine(r)
    <3>1. UNCHANGED << sender, sw, owed >>
          /\ (UNCHANGED waiting \/ waiting' = [waiting EXCEPT ![ctxOf[r]] = "none"])
      BY <2>2 DEF ProcessLine, modem
    <3> QED
      BY <1>0, <3>1
  <2>3. CASE ModemAnswers(r)
    <3>1. UNCHANGED << sender, sw, waiting >> /\ owed' = [owed EXCEPT ![r] = "none"]
      BY <2>3 DEF ModemAnswers
    <3> QED
      BY <1>0, <3>1
  <2> QED
    BY <2>1, <2>2, <2>3 DEF Reader
<1> QED
  BY <1>1, AwaitedKept

(* A sender awaits the answer in its handler. *)
LEMMA SenderAwaited ==
  ASSUME Types, Paired, Awaited, UNCHANGED inst, NEW d \in Channels,
         StartHandler(d) \/ EndHandler(d) \/ Resume(d)
  PROVE  Awaited'
<1>0. /\ waiting \in [Channels -> {"none", "plain", "map"}]
      /\ owed \in [Channels -> {"none", "plain", "map"}]
      /\ sender \in [Channels -> {"idle", "handling", "condition", "signalled"}]
      /\ fd[d] \in Channels /\ fd[d][1] = d[1] /\ Channels' = Channels /\ own' = own /\ UNCHANGED sw
  BY Same DEF Types, TypeOK, Paired, StartHandler, EndHandler, Resume
<1>1. CASE StartHandler(d)
  <2>1. /\ d[1] = "cmd" /\ waiting' = [waiting EXCEPT ![d] = "plain"]
        /\ owed' = [owed EXCEPT ![fd[d]] = "plain"] /\ sender' = [sender EXCEPT ![d] = "handling"]
    BY <1>1 DEF StartHandler, Send
  <2> QED
    BY <1>0, <2>1 DEF Awaited
<1>2. CASE EndHandler(d)
  <2>1. /\ waiting[d] = "none" /\ UNCHANGED << waiting, owed >>
        /\ \A c \in Channels : c # d => sender'[c] = sender[c]
    BY <1>0, <1>2 DEF EndHandler, modem
  <2> QED
    BY <1>0, <2>1, AwaitedKept
<1>3. CASE Resume(d)
  <2>1. /\ sender[d] # "handling" /\ UNCHANGED << waiting, owed >>
        /\ \A c \in Channels : c # d => sender'[c] = sender[c]
    BY <1>0, <1>3 DEF Resume, modem
  <2> QED
    BY <1>0, <2>1, AwaitedKept
<1> QED
  BY <1>1, <1>2, <1>3

(* An unlocked sender goes on handling. *)
LEMMA UnlockedSenders ==
  ASSUME Types, NEW d, Unlock(d), NEW c \in Channels, sender[c] = "handling"
  PROVE  sender'[c] = "handling"
<1>1. sender \in [Channels -> {"idle", "handling", "condition", "signalled"}]
  BY DEF Types, TypeOK
<1>2. sender' = [sender EXCEPT ![d] = IF @ = "condition" THEN "signalled" ELSE @]
  BY DEF Unlock
<1> QED
  BY <1>1, <1>2

(* The switch awaits the answer to the mapping where it says so. *)
LEMMA SwitchAwaited ==
  ASSUME Types, Paired, Awaited, UNCHANGED inst,
         (\E new \in Slots : StartSwitch(new)) \/ Switching \/ MapTimesOut \/ SimInitFails
  PROVE  Awaited'
<1>0. /\ waiting \in [Channels -> {"none", "plain", "map"}]
      /\ owed \in [Channels -> {"none", "plain", "map"}]
      /\ own \in Channels /\ own[1] = "own" /\ Channels' = Channels /\ own' = own
  BY Same, Instance DEF Types, TypeOK, own
<1>1. CASE (\E new \in Slots : StartSwitch(new)) \/ LockChannels \/ Locked \/ MapAnswered \/ SwitchAll
             \/ EndSwitch \/ SimInitFails
  <2>1. /\ UNCHANGED << waiting, owed, sender >>
        /\ sw # "mapWait" \/ waiting[own] = "none"
    <3>1. CASE \E new \in Slots : StartSwitch(new)
      BY <3>1 DEF StartSwitch, modem
    <3>2. CASE LockChannels \/ Locked
      BY <3>2 DEF LockChannels, Locked, swRest, modem
    <3>3. CASE MapAnswered \/ EndSwitch
      BY <3>3 DEF MapAnswered, EndSwitch, swRest, modem
    <3>4. CASE SwitchAll \/ SimInitFails
      BY <3>4 DEF SwitchAll, SimInitFails, modem
    <3> QED
      BY <1>1, <3>1, <3>2, <3>3, <3>4
  <2> QED
    BY <2>1, AwaitedKept
<1>2. CASE SendMap
  <2>1. /\ UNCHANGED sender /\ sw' = "mapWait" /\ waiting' = [waiting EXCEPT ![own] = "map"]
        /\ owed' = [owed EXCEPT ![fd[own]] = "map"] /\ sw = "map"
    BY <1>2 DEF SendMap, Send
  <2> QED
    BY <1>0, <2>1 DEF Awaited
<1>3. CASE MapTimesOut
  <2>1. /\ UNCHANGED << sender, owed >> /\ waiting' = [waiting EXCEPT ![own] = "none"]
    BY <1>3 DEF MapTimesOut, modem
  <2>2. \A c \in Channels : waiting'[c] # "none" => waiting[c] # "none" /\ c # own
    BY <1>0, <2>1
  <2> QED
    BY <2>1, <2>2, AwaitedKept
<1>4. CASE UnlockChannels
  <2>1. UNCHANGED << waiting, owed, sw >>
    BY <1>4 DEF UnlockChannels, swRest, modem
  <2>2. \E d : Unlock(d)
    BY <1>4 DEF UnlockChannels
  <2>3. \A c \in Channels : sender[c] = "handling" => sender'[c] = "handling"
    BY <2>2, UnlockedSenders
  <2> QED
    BY <2>1, <2>3, AwaitedKept
<1> QED
  BY <1>1, <1>2, <1>3, <1>4 DEF Switching

(* The URC handler awaits nothing. *)
LEMMA UrcAwaited ==
  ASSUME Types, Awaited, UNCHANGED inst, SimSwitchUrc
  PROVE  Awaited'
<1>1. UNCHANGED << waiting, owed, sw >>
  BY DEF SimSwitchUrc, CheckIfSwitch, LockReaders, SwitchUrc, LockVsim, SwitchVsim, UnlockVsim,
     UnlockReaders, urcRest, modem
<1>2. UNCHANGED sender \/ \E d : Unlock(d)
  BY DEF SimSwitchUrc, CheckIfSwitch, LockReaders, SwitchUrc, LockVsim, SwitchVsim, UnlockVsim,
     UnlockReaders
<1>3. \A c \in Channels : sender[c] = "handling" => sender'[c] = "handling"
  BY <1>2, UnlockedSenders
<1> QED
  BY <1>1, <1>3, AwaitedKept

(* Answers come where they are awaited, whatever readers, modem and senders do. *)
LEMMA ReaderAnswers ==
  ASSUME Types, Paired, Awaited, AnswersAwaited, UNCHANGED inst, NEW c \in Channels,
         Reader(c) \/ ModemAnswers(c) \/ Unsolicited(c) \/ StartHandler(c) \/ EndHandler(c) \/ Resume(c)
  PROVE  AnswersAwaited'
<1>1. CASE ReadLine(c) \/ TakeReaderMutex(c) \/ ReleaseReaderMutex(c) \/ WaitFlag(c)
  <2>1. UNCHANGED << ctxOf, owed, waiting, misrouted >>
    BY <1>1 DEF ReadLine, TakeReaderMutex, ReleaseReaderMutex, WaitFlag, modem
  <2>2. \A f \in Channels : LinesKept(f, Answers)
    BY <1>1, ReaderLines
  <2> QED
    BY <2>1, <2>2, AnswersKept
<1>2. CASE ProcessLine(c)
  BY <1>2, ProcessedAnswers
<1>3. CASE ModemAnswers(c)
  BY <1>3, ModemAwaited
<1>4. CASE Unsolicited(c)
  <2>1. UNCHANGED << ctxOf, owed, waiting, misrouted >> /\ "urc" \notin Answers
    BY <1>4 DEF Unsolicited, Answers
  <2>2. \A f \in Channels : LinesKept(f, Answers)
    BY <1>4, <2>1, UnsolicitedLines
  <2> QED
    BY <2>1, <2>2, AnswersKept
<1>5. CASE StartHandler(c)
  <2>1. UNCHANGED << ctxOf, readers, lines, misrouted >> /\ Send(c, "plain")
        /\ c[1] = "cmd" /\ sender[c] = "idle"
    BY <1>5 DEF StartHandler
  <2>2. waiting[c] = "none"
    BY <2>1 DEF Awaited, own
  <2> QED
    BY <2>1, <2>2, SentAnswers
<1>6. CASE EndHandler(c) \/ Resume(c)
  <2>1. UNCHANGED << ctxOf, owed, waiting, misrouted, lines, readers >>
    BY <1>6 DEF EndHandler, Resume, modem
  <2>2. \A f \in Channels : LinesKept(f, Answers)
    BY <2>1, AllLinesStay
  <2> QED
    BY <2>1, <2>2, AnswersKept
<1> QED
  BY <1>1, <1>2, <1>3, <1>4, <1>5, <1>6 DEF Reader

(* So they do when the channels are exchanged: none awaits one then. *)
LEMMA SwitchAnswers ==
  ASSUME Types, Paired, MutexesHeld, Awaited, AnswersAwaited, UNCHANGED inst,
         (\E new \in Slots : StartSwitch(new)) \/ Switching \/ SimInitFails \/ SimSwitchUrc
  PROVE  AnswersAwaited'
<1>1. CASE SendMap
  <2>1. UNCHANGED << ctxOf, readers, lines, misrouted >> /\ Send(own, "map") /\ sw = "map"
    BY <1>1 DEF SendMap
  <2>2. own \in Channels /\ waiting[own] = "none"
    <3>1. own \in Channels /\ own[1] = "own"
      BY Instance DEF Types, own
    <3> QED
      BY <2>1, <3>1 DEF Awaited
  <2> QED
    BY <2>1, <2>2, SentAnswers
<1>2. CASE (Locked /\ ~NoReset) \/ SwitchAll \/ SwitchUrc \/ SwitchVsim
  <2>1. UNCHANGED << readers, lines, owed, waiting, misrouted >>
    <3>1. CASE (Locked /\ ~NoReset) \/ SwitchAll
      BY <3>1 DEF Locked, SwitchAll, swRest, modem
    <3>2. CASE SwitchUrc \/ SwitchVsim
      BY <3>2 DEF SwitchUrc, SwitchVsim, urcRest, modem
    <3> QED
      BY <1>2, <3>1, <3>2
  <2>2. \/ Turned({"urc"}, majorSlot, target) /\ Quiet({"urc"})
        \/ Turned(Exchanged, majorSlot, target) /\ Quiet(Exchanged)
        \/ Turned({"urc"}, urcOld, urcNew) /\ Quiet({"urc"})
        \/ Turned({"vsim"}, urcOld, urcNew) /\ Quiet({"vsim"})
    BY <1>2, ExchangeIsQuiet
  <2> QED
    BY <2>1, <2>2, TurnedAnswers
<1>3. CASE \/ \E new \in Slots : StartSwitch(new)
           \/ LockChannels \/ (Locked /\ NoReset) \/ MapAnswered \/ UnlockChannels \/ EndSwitch
           \/ SimInitFails
           \/ CheckIfSwitch \/ LockReaders \/ LockVsim \/ UnlockVsim \/ UnlockReaders
  <2>1. UNCHANGED << ctxOf, owed, waiting, misrouted, lines, readers >>
    <3>1. CASE (\E new \in Slots : StartSwitch(new)) \/ SimInitFails
      BY <3>1 DEF StartSwitch, SimInitFails, modem
    <3>2. CASE LockChannels \/ (Locked /\ NoReset)
      BY <3>2 DEF LockChannels, Locked, swRest, modem
    <3>3. CASE MapAnswered \/ UnlockChannels \/ EndSwitch
      BY <3>3 DEF MapAnswered, UnlockChannels, EndSwitch, swRest, modem
    <3>4. CASE CheckIfSwitch \/ LockReaders \/ LockVsim
      BY <3>4 DEF CheckIfSwitch, LockReaders, LockVsim, urcRest, modem
    <3>5. CASE UnlockVsim \/ UnlockReaders
      BY <3>5 DEF UnlockVsim, UnlockReaders, urcRest, modem
    <3> QED
      BY <1>3, <3>1, <3>2, <3>3, <3>4, <3>5
  <2>2. \A f \in Channels : LinesKept(f, Answers)
    BY <2>1, AllLinesStay
  <2> QED
    BY <2>1, <2>2, AnswersKept
<1> QED
  BY <1>1, <1>2, <1>3 DEF Switching, SimSwitchUrc
-----------------------------------------------------------------------------
(* The inductive invariant, and the theorems                               *)

(* The invariant holds initially: every channel has its own reader and nothing is under way. *)
LEMMA InitInv == Init => SwitchInv
<1> SUFFICES ASSUME Init PROVE SwitchInv
  OBVIOUS
<1>0. /\ inst \in Instances /\ SimCount \in Nat /\ SimCount > 1 /\ 0 \in Slots /\ own \in Channels
      /\ Slots = 0 .. SimCount - 1
  BY Instance DEF Init
<1>1. Types
  <2>1. /\ fd \in [Channels -> Channels] /\ \A c, d \in Channels : fd[c] = fd[d] => c = d
        /\ ctxOf \in [Channels -> Channels] /\ \A c, d \in Channels : ctxOf[c] = ctxOf[d] => c = d
    BY DEF Init
  <2>2. IsInjective(fd) /\ IsInjective(ctxOf)
    BY <2>1 DEF IsInjective
  <2>3. /\ needWait \in [Channels -> BOOLEAN]
        /\ restartMutex \in [Channels -> {"free", "sender", "switch"}]
        /\ readerMutex \in [Channels -> {"free", "reader", "switch"}]
        /\ place \in [Channels -> {"idle", "have", "taken", "processed", "waitFlag"}]
        /\ owed \in [Channels -> {"none", "plain", "map"}]
        /\ waiting \in [Channels -> {"none", "plain", "map"}]
        /\ result \in [Channels -> {"none", "ok", "error"}]
        /\ sender \in [Channels -> {"idle", "handling", "condition", "signalled"}]
    BY DEF Init
  <2>4. line \in [Channels -> {"none", "ok", "error", "map", "urc"} \X Slots]
    BY <1>0 DEF Init
  <2>5. /\ DOMAIN lines = Channels
        /\ \A f \in Channels : lines[f] \in Seq({"ok", "error", "map", "urc"} \X Slots)
        /\ mapUrcs \in Seq(Slots)
    BY DEF Init
  <2>6. /\ uk \in 1 .. SimCount + 1 /\ s_urc_count \in 0 .. SimCount - 1
        /\ {majorSlot, target, mdMajor, urcOld, urcNew} \subseteq Slots
    BY <1>0 DEF Init
  <2>7. /\ sw = "idle" /\ urcAt = "idle" /\ urcFlag \in BOOLEAN /\ misrouted \in BOOLEAN
        /\ caught = {} /\ todo = {}
        /\ switches = 0 /\ commands = 0 /\ unsolicited = 0 /\ errors = 0 /\ timeouts = 0
    BY DEF Init
  <2>8. TypeOK
    BY <2>1, <2>2, <2>3, <2>4, <2>5, <2>6, <2>7 DEF TypeOK
  <2> QED
    BY <1>0, <2>5, <2>6, <2>7, <2>8 DEF Types
<1>2. Paired
  BY DEF Paired, Init
<1>3. MutexesHeld
  <2>1. ASSUME NEW c \in Channels PROVE Held(c) /\ SenderWaits(c)
    BY <2>1 DEF Held, SenderWaits, SwitchLocked, SwitchTouched, VsimLocked, VsimTouched, UrcLocked,
       Taking, Holding, Locking, Init
  <2> QED
    BY <2>1 DEF MutexesHeld, Init, Locking, Taking
<1>4. ReadersHold /\ Awaited
  BY DEF ReadersHold, ReaderExcluded, Awaited, Init
<1>5. \A f \in Channels : \A kinds : ~OnWay(f, kinds) /\ Unread(f, kinds) = {} /\ ~InHand(f, kinds)
  <2>1. \A f \in Channels : lines[f] = << >> /\ place[f] = "idle"
    BY DEF Init
  <2>2. DOMAIN << >> = {}
    OBVIOUS
  <2> QED
    BY <2>1, <2>2 DEF OnWay, Unread, InHand
<1>6. AnswersAwaited
  BY <1>5 DEF AnswersAwaited, AtMostOne, Init
<1>7. Arranged
  <2>1. \A class : MajorOf(class) = 0
    BY DEF MajorOf, UrcMajor, Init
  <2>2. ASSUME NEW c \in Channels PROVE fd[c] = << c[1], Stack(0, c[2]) >>
    <3>1. c = << c[1], c[2] >> /\ c[2] \in Nat /\ fd[c] = c
      BY <1>0, ChannelIs DEF Init
    <3>2. Stack(0, c[2]) = c[2]
      BY <3>1 DEF Stack
    <3> QED
      BY <3>1, <3>2
  <2> QED
    BY <2>1, <2>2 DEF Arranged
<1>8. Announced
  <2>1. UrcChannels \subseteq Channels
    BY <1>0, Instance DEF UrcChannels, Channels
  <2>2. NoneAnnounced
    BY <1>5, <2>1 DEF NoneAnnounced, Announcing, Init
  <2>3. DOMAIN mapUrcs = {}
    BY DEF Init
  <2> QED
    BY <1>5, <2>2, <2>3 DEF Announced, AtMostOne, Tells, Init
<1>9. FlagFollows /\ ResponseTells
  BY <1>0, <1>5 DEF FlagFollows, ResponseTells, Locking, UrcMajor, Init
<1> QED
  BY <1>1, <1>2, <1>3, <1>4, <1>6, <1>7, <1>8, <1>9 DEF SwitchInv

(* The readers keep the invariant. *)
LEMMA ReaderInv ==
  ASSUME SwitchInv, UNCHANGED inst, NEW r \in Channels, Reader(r)
  PROVE  SwitchInv'
<1>0. /\ Types /\ Paired /\ MutexesHeld /\ ReadersHold /\ Awaited /\ Arranged /\ Announced /\ FlagFollows
      /\ timeouts = 0 => AnswersAwaited
      /\ timeouts = 0 /\ ~NoReset => ResponseTells
  BY DEF SwitchInv
<1>1. UNCHANGED << fd, ctxOf, timeouts >> /\ NoReset' = NoReset
  BY Same DEF Reader, ReadLine, TakeReaderMutex, ProcessLine, ReleaseReaderMutex, WaitFlag, counters
<1>2. Types' /\ Paired' /\ MutexesHeld' /\ ReadersHold' /\ Awaited' /\ Arranged'
  BY <1>0, <1>1, ReaderTypes, PairedKept, ReaderMutexes, ReaderHolds, ReaderAwaited, OtherArranged
<1>3. Announced' /\ FlagFollows'
  BY <1>0, ReaderFlags, MapProcessed, OtherProcessed DEF Reader
<1>4. timeouts' = 0 => AnswersAwaited'
  BY <1>0, <1>1, ReaderAnswers
<1>5. timeouts' = 0 /\ ~NoReset' => ResponseTells'
  <2>1. CASE ProcessLine(r)
    BY <1>0, <1>1, <2>1, ProcessedResponse
  <2>2. CASE ReadLine(r) \/ TakeReaderMutex(r) \/ ReleaseReaderMutex(r) \/ WaitFlag(r)
    BY <1>0, <1>1, <2>2, OtherResponse
  <2> QED
    BY <2>1, <2>2 DEF Reader
<1> QED
  BY <1>2, <1>3, <1>4, <1>5 DEF SwitchInv

(* So does the modem. *)
LEMMA ModemInv ==
  ASSUME SwitchInv, UNCHANGED inst, NEW f \in Channels, ModemAnswers(f) \/ Unsolicited(f)
  PROVE  SwitchInv'
<1>0. /\ Types /\ Paired /\ MutexesHeld /\ ReadersHold /\ Awaited /\ Arranged /\ Announced /\ FlagFollows
      /\ timeouts = 0 => AnswersAwaited
      /\ timeouts = 0 /\ ~NoReset => ResponseTells
  BY DEF SwitchInv
<1>1. UNCHANGED << fd, ctxOf, timeouts, mutexes, sender, sw, todo, urcAt, uk, urcFlag >> /\ NoReset' = NoReset
  BY Same DEF ModemAnswers, Unsolicited, counters, urcVars
<1>2. Types' /\ Paired' /\ MutexesHeld' /\ ReadersHold' /\ Awaited' /\ Arranged'
  BY <1>0, <1>1, ModemTypes, PairedKept, MutexesKept, OthersHold, ReaderAwaited, OtherArranged
<1>3. Announced' /\ FlagFollows'
  BY <1>0, ModemFlags, UnsolicitedFlags
<1>4. timeouts' = 0 => AnswersAwaited'
  BY <1>0, <1>1, ReaderAnswers
<1>5. timeouts' = 0 /\ ~NoReset' => ResponseTells'
  BY <1>0, <1>1, ModemResponse, OtherResponse
<1> QED
  BY <1>2, <1>3, <1>4, <1>5 DEF SwitchInv

(* So do the senders. *)
LEMMA SenderInv ==
  ASSUME SwitchInv, UNCHANGED inst, NEW c \in Channels, StartHandler(c) \/ EndHandler(c) \/ Resume(c)
  PROVE  SwitchInv'
<1>0. /\ Types /\ Paired /\ MutexesHeld /\ ReadersHold /\ Awaited /\ Arranged /\ Announced /\ FlagFollows
      /\ timeouts = 0 => AnswersAwaited
      /\ timeouts = 0 /\ ~NoReset => ResponseTells
  BY DEF SwitchInv
<1>1. UNCHANGED << fd, ctxOf, timeouts >> /\ NoReset' = NoReset
  BY Same DEF StartHandler, EndHandler, Resume, counters
<1>2. Types' /\ Paired' /\ MutexesHeld' /\ ReadersHold' /\ Awaited' /\ Arranged'
  BY <1>0, <1>1, SenderTypes, PairedKept, SenderMutexes, OthersHold, SenderAwaited, OtherArranged
<1>3. Announced' /\ FlagFollows'
  BY <1>0, SenderFlags
<1>4. timeouts' = 0 => AnswersAwaited'
  BY <1>0, <1>1, ReaderAnswers
<1>5. timeouts' = 0 /\ ~NoReset' => ResponseTells'
  BY <1>0, <1>1, OtherResponse
<1> QED
  BY <1>2, <1>3, <1>4, <1>5 DEF SwitchInv

(* So does the switch. *)
LEMMA SwitchingInv ==
  ASSUME SwitchInv, UNCHANGED inst,
         (\E new \in Slots : StartSwitch(new)) \/ Switching \/ MapTimesOut \/ SimInitFails
  PROVE  SwitchInv'
<1>0. /\ Types /\ Paired /\ MutexesHeld /\ ReadersHold /\ Awaited /\ Arranged /\ Announced /\ FlagFollows
      /\ timeouts = 0 => AnswersAwaited
      /\ timeouts = 0 /\ ~NoReset => ResponseTells
      /\ timeouts \in Nat
  BY DEF SwitchInv, Types
<1>1. /\ timeouts' = 0 => timeouts = 0 /\ ~MapTimesOut
      /\ NoReset' = NoReset
  <2>1. CASE MapTimesOut
    BY <1>0, <2>1, Same DEF MapTimesOut
  <2>2. CASE ~MapTimesOut
    <3>1. UNCHANGED timeouts
      BY <2>2 DEF StartSwitch, Switching, LockChannels, Locked, SendMap, MapAnswered, SwitchAll,
         UnlockChannels, EndSwitch, SimInitFails, counters
    <3> QED
      BY <2>2, <3>1, Same
  <2> QED
    BY <2>1, <2>2
<1>2. Types' /\ ReadersHold' /\ Awaited' /\ Arranged'
  BY <1>0, SwitchTypes, SwitchHolds, SwitchAwaited, SwitchArranged
<1>3. Paired'
  <2>1. CASE (Locked /\ ~NoReset) \/ SwitchAll
    BY <1>0, <2>1, ExchangeIsQuiet DEF Turned
  <2>2. CASE \/ \E new \in Slots : StartSwitch(new)
             \/ LockChannels \/ (Locked /\ NoReset) \/ SendMap \/ MapAnswered
             \/ UnlockChannels \/ EndSwitch \/ MapTimesOut \/ SimInitFails
    <3>1. UNCHANGED << fd, ctxOf >>
      BY <2>2 DEF StartSwitch, LockChannels, Locked, SendMap, MapAnswered, UnlockChannels, EndSwitch,
         MapTimesOut, SimInitFails
    <3> QED
      BY <1>0, <3>1, PairedKept
  <2> QED
    BY <2>1, <2>2 DEF Switching
<1>4. MutexesHeld'
  BY <1>0, StartMutexes, LockMutexes, HoldMutexes, EndMutexes, UnlockMutexes DEF Switching
<1>5. Announced' /\ FlagFollows'
  BY <1>0, LockFlags, LockedFlags, SendFlags, AnswerFlags, MajorFlags DEF Switching
<1>6. timeouts' = 0 => AnswersAwaited'
  BY <1>0, <1>1, SwitchAnswers
<1>7. timeouts' = 0 /\ ~NoReset' => ResponseTells'
  <2> SUFFICES ASSUME timeouts' = 0, ~NoReset PROVE ResponseTells'
    BY <1>1
  <2>1. CASE SendMap \/ MapAnswered \/ SwitchAll
    BY <1>0, <1>1, <2>1, SwitchResponse
  <2>2. CASE (\E new \in Slots : StartSwitch(new)) \/ LockChannels \/ UnlockChannels \/ EndSwitch
    BY <1>0, <1>1, <2>2, OtherResponse
  <2>3. CASE Locked
    <3>1. Turned({"urc"}, majorSlot, target)
      BY <1>0, <2>3, ExchangeIsQuiet
    <3> QED
      BY <1>0, <1>1, <2>3, <3>1, OtherResponse
  <2>4. CASE MapTimesOut
    BY <1>1, <2>4
  <2>5. CASE SimInitFails
    BY <2>5 DEF SimInitFails
  <2> QED
    BY <2>1, <2>2, <2>3, <2>4, <2>5 DEF Switching
<1> QED
  BY <1>2, <1>3, <1>4, <1>5, <1>6, <1>7 DEF SwitchInv

(* So does the URC handler. *)
LEMMA UrcInv ==
  ASSUME SwitchInv, UNCHANGED inst, SimSwitchUrc
  PROVE  SwitchInv'
<1>0. /\ Types /\ Paired /\ MutexesHeld /\ ReadersHold /\ Awaited /\ Arranged /\ Announced /\ FlagFollows
      /\ timeouts = 0 => AnswersAwaited
  BY DEF SwitchInv
<1>1. UNCHANGED timeouts /\ NoReset' = NoReset /\ NoReset
  BY <1>0, Same, UrcNeedsNoReset DEF SimSwitchUrc, CheckIfSwitch, LockReaders, SwitchUrc, LockVsim,
     SwitchVsim, UnlockVsim, UnlockReaders, urcRest, counters
<1>2. Types' /\ ReadersHold' /\ Awaited' /\ Arranged'
  BY <1>0, UrcTypes, UrcHolds, UrcAwaited, UrcArranged
<1>3. Paired'
  <2>1. CASE SwitchUrc \/ SwitchVsim
    BY <1>0, <2>1, ExchangeIsQuiet DEF Turned
  <2>2. CASE CheckIfSwitch \/ LockReaders \/ LockVsim \/ UnlockVsim \/ UnlockReaders
    <3>1. UNCHANGED << fd, ctxOf >>
      BY <2>2 DEF CheckIfSwitch, LockReaders, LockVsim, UnlockVsim, UnlockReaders
    <3> QED
      BY <1>0, <3>1, PairedKept
  <2> QED
    BY <2>1, <2>2 DEF SimSwitchUrc
<1>4. MutexesHeld'
  <2>1. CASE LockReaders \/ LockVsim \/ CheckIfSwitch \/ SwitchUrc \/ SwitchVsim
    BY <1>0, <2>1, UrcTurnMutexes, LockReadersMutexes, LockVsimMutexes
  <2>2. CASE UnlockVsim \/ UnlockReaders
    <3>1. uk \in Nat /\ SimCount \in Nat
      BY <1>0, Instance DEF Types
    <3>2. uk <= SimCount \/ uk > SimCount
      BY <3>1
    <3> QED
      BY <1>0, <2>2, <3>2, UrcTurnMutexes, UnlockReadersMutexes, UnlockVsimMutexes
  <2> QED
    BY <2>1, <2>2 DEF SimSwitchUrc
<1>5. Announced' /\ FlagFollows'
  <2>1. SwitchVsim => Turned({"vsim"}, urcOld, urcNew)
    BY <1>0, ExchangeIsQuiet
  <2> QED
    BY <1>0, <2>1, CheckFlags, ObeyFlags, UrcFlags DEF SimSwitchUrc
<1>6. timeouts' = 0 => AnswersAwaited'
  BY <1>0, <1>1, SwitchAnswers
<1> QED
  BY <1>1, <1>2, <1>3, <1>4, <1>5, <1>6 DEF SwitchInv

(* A step that changes nothing keeps it. *)
LEMMA StutterInv ==
  ASSUME SwitchInv, UNCHANGED vars
  PROVE  SwitchInv'
<1>0. UNCHANGED << inst, fd, ctxOf, needWait, restartMutex, readerMutex, place, line, lines, owed, waiting,
                   result, sender, sw, todo, urcAt, uk, urcOld, urcNew, majorSlot, target, mdMajor, urcFlag,
                   s_urc_count, mapUrcs, switches, commands, unsolicited, errors, timeouts, caught, misrouted >>
  BY DEF vars, mutexes, readers, modem, urcVars, counters
<1>1. Types'
  BY <1>0, Same DEF SwitchInv, Types, TypeOK
<1>2. Paired' /\ ReadersHold' /\ Awaited'
  <2>1. Paired'
    BY <1>0, PairedKept DEF SwitchInv
  <2>2. ReadersHold'
    BY <1>0, ReadersKept DEF SwitchInv
  <2>3. Awaited'
    BY <1>0, AwaitedKept DEF SwitchInv
  <2> QED
    BY <2>1, <2>2, <2>3
<1>3. MutexesHeld'
  BY <1>0, MutexesKept DEF SwitchInv, mutexes
<1>4. \A f \in Channels : (\A kinds : LinesKept(f, kinds)) /\ TellingKept(f)
  BY <1>0, AllLinesStay DEF readers
<1>5. timeouts' = 0 => AnswersAwaited'
  BY <1>0, <1>4, AnswersKept DEF SwitchInv
<1>6. Arranged'
  <2>1. \A class : MajorOf(class)' = MajorOf(class)
    BY <1>0, Same DEF MajorOf, UrcMajor
  <2> QED
    BY <1>0, <2>1, ArrangedKept DEF SwitchInv
<1>7. Announced' /\ FlagFollows'
  <2>1. ~urcFlag' => ~urcFlag /\ urcAt' # "lockReaders"
    BY <1>0 DEF SwitchInv, Announced
  <2>2. Announced'
    BY <1>0, <1>4, <2>1, AnnouncedKept DEF SwitchInv
  <2>3. FlagFollows'
    BY <1>0, <1>4, FollowsKept DEF SwitchInv, Locking
  <2> QED
    BY <2>2, <2>3
<1>8. timeouts' = 0 /\ ~NoReset' => ResponseTells'
  <2> SUFFICES ASSUME timeouts' = 0, ~NoReset' PROVE ResponseTells'
    OBVIOUS
  <2>1. ResponseTells /\ own \in Channels /\ fd[own] \in Channels
    BY <1>0, Instance, Same DEF SwitchInv, Types, TypeOK
  <2> QED
    BY <1>0, <1>4, <2>1, ResponseKept
<1> QED
  BY <1>1, <1>2, <1>3, <1>5, <1>6, <1>7, <1>8 DEF SwitchInv

(* Every step keeps the invariant. *)
LEMMA NextInv == SwitchInv /\ [Next]_vars => SwitchInv'
<1> SUFFICES ASSUME SwitchInv, [Next]_vars PROVE SwitchInv'
  OBVIOUS
<1>1. CASE Next
  BY <1>1, ReaderInv, ModemInv, SenderInv, SwitchingInv, UrcInv DEF Next, Steps
<1>2. CASE UNCHANGED vars
  BY <1>2, StutterInv
<1> QED
  BY <1>1, <1>2

(* In every reachable state the channels are arranged and locked, and answers and indications *)
(* on their way, as the places of the switch and of the URC handler say.                      *)
THEOREM SwitchInvariant == Spec => []SwitchInv
BY InitInv, NextInv, PTL DEF Spec

(* Every variable of the switch has its type; the exchanges keep fd and ctxOf injective. *)
THEOREM TypesCorrect == Spec => []TypeOK
<1>1. SwitchInv => TypeOK
  BY DEF SwitchInv, Types
<1> QED
  BY <1>1, SwitchInvariant, PTL

(* requestSetRadioCapability and handleSimSwitchUrc exchange no channel while its reader is *)
(* between lock and unlock of the reader mutex, the class of the switch's own channel apart. *)
THEOREM ReaderExcludedCorrect == Spec => []ReaderExcluded
<1>1. SwitchInv => ReaderExcluded
  BY DEF SwitchInv, ReadersHold
<1> QED
  BY <1>1, SwitchInvariant, PTL

(* Without a time-out of the mapping command, whatever the exchanges, a response is processed *)
(* in the context whose sender awaits it.                                                     *)
THEOREM AnswersRoutedCorrect == Spec => []AnswersRouted
<1>1. SwitchInv => AnswersRouted
  BY DEF SwitchInv, Types, AnswersAwaited, AnswersRouted
<1> QED
  BY <1>1, SwitchInvariant, PTL

(* Between switches switchChannel has given every channel of every slot the descriptor and the *)
(* reader of the protocol stack the modem maps to that slot, and no mutex stays locked.        *)
THEOREM MappingAgreesCorrect == Spec => []MappingAgrees
<1>1. SwitchInv => MappingAgrees
  <2> SUFFICES ASSUME SwitchInv, sw = "idle", urcAt = "idle"
               PROVE  /\ timeouts = 0 \/ NoReset
                           => /\ majorSlot = mdMajor
                              /\ \A c \in Channels : /\ fd[c] = << c[1], Protocol(mdMajor, c[2]) >>
                                                     /\ ctxOf[fd[c]] = c
                      /\ \A c \in Channels : /\ ~needWait[c] /\ restartMutex[c] # "switch"
                                             /\ readerMutex[c] # "switch" /\ sender[c] # "condition"
    BY DEF MappingAgrees
  <2>0. inst \in Instances /\ majorSlot \in Slots /\ Paired /\ Arranged /\ MutexesHeld
    BY DEF SwitchInv, Types, TypeOK
  <2>1. timeouts = 0 \/ NoReset => majorSlot = mdMajor
    <3>1. CASE NoReset
      BY <3>1 DEF SwitchInv, FlagFollows, UrcMajor
    <3>2. CASE ~NoReset
      BY <3>2 DEF SwitchInv, ResponseTells
    <3> QED
      BY <3>1, <3>2
  <2>2. ASSUME NEW c \in Channels
        PROVE  fd[c] = << c[1], Protocol(majorSlot, c[2]) >> /\ ctxOf[fd[c]] = c
    <3>1. MajorOf(c[1]) = majorSlot
      BY DEF MajorOf, UrcMajor
    <3>2. Protocol(majorSlot, c[2]) = Stack(majorSlot, c[2])
      BY <2>0, ChannelIs, ProtocolIsStack
    <3> QED
      BY <2>0, <3>1, <3>2 DEF Arranged, Paired
  <2>3. ASSUME NEW c \in Channels
        PROVE  /\ ~needWait[c] /\ restartMutex[c] # "switch"
               /\ readerMutex[c] # "switch" /\ sender[c] # "condition"
    <3>1. Held(c) /\ SenderWaits(c) /\ todo = {}
      BY <2>0 DEF MutexesHeld, Taking
    <3>2. ~SwitchTouched(c) /\ ~VsimTouched(c) /\ ~UrcLocked(c)
      BY <3>1 DEF SwitchTouched, VsimTouched, UrcLocked, Taking, Holding, Locking
    <3>3. needWait[c] \in BOOLEAN
      BY DEF SwitchInv, Types, TypeOK
    <3> QED
      BY <3>1, <3>2, <3>3 DEF Held, SenderWaits
  <2> QED
    BY <2>1, <2>2, <2>3
<1> QED
  BY <1>1, SwitchInvariant, PTL
=============================================================================
