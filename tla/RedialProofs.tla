---------------------------- MODULE RedialProofs ----------------------------
(***************************************************************************)
(* Proofs about RatSwitch under Redial, for every set of instances: one    *)
(* RAT is switched at a time in the daemon; what a slot runs is what the   *)
(* daemon takes it to run; and, without an emergency call and a scan, the  *)
(* switch of a slot that is the last to run is to the type that the        *)
(* framework and the mode controller asked for last.  Then, of Redial: the *)
(* emergency sessions are counted, and the emergency mode is left after    *)
(* the last of them.                                                       *)
(***************************************************************************)
EXTENDS MCRedial, SequenceTheorems, FiniteSetTheorems, WellFoundedInduction, TLAPS

-----------------------------------------------------------------------------
(* The inductive invariant, in named parts *)

AnyType == NwTypes \cup {NoType}
Ops     == {"switch", "process", "act", "signal", "finish", "callEnded", "restrictedMode",
            "ratMode", "emergencyOff", "forceRelease", "noCall", "countZero"}
Errors  == {"none", "success", "error", "not_allowed"}
Frame   == [op : Ops, slot : Slots, caller : Callers, type : AnyType, act : Acts,
            msg : 0 .. MaxSet, ok : BOOLEAN, err : Errors]
Setting == [type : AnyType, caller : Callers, act : Acts, msg : 0 .. MaxSet, def : AnyType]
Request == [op : {"gmss", "set", "abort"}, slot : Slots, type : AnyType]

\* The variables of RatSwitch have their types.
RatTypes ==
  /\ inst \in Instances
  /\ inSwitching \in BOOLEAN
  /\ cur \in [Slots -> AnyType] /\ def \in [Slots -> AnyType] /\ modemType \in [Slots -> AnyType]
  /\ settings \in [Slots -> Setting]
  /\ pend \in [Slots -> [Callers -> Record]]
  /\ restrictedMode \in [Slots -> BOOLEAN] /\ restrictedCount \in [Slots -> Int]
  /\ stack \in Seq(Frame)
  /\ riljType \in [Slots -> AnyType] /\ cSlot \in Slots
  /\ calls \subseteq Slots /\ scanning \subseteq Slots /\ failed \subseteq Slots
  /\ mcl \in Seq(Request)
  /\ sets \in 0 .. MaxSet /\ scans \in Nat /\ dials \in Nat /\ eccModes \in Nat

\* A slot is being switched
Running(s) == \E i \in Switching : mcl[i].slot = s

\* sIsInSwitching is set as long as the one request is out, which is for what
\* mRatSettings says; and the daemon is right about what a slot runs.
OneSwitch ==
  /\ \A i, j \in Switching : i = j
  /\ inSwitching <=> Switching # {}
  /\ \A i \in Switching : mcl[i].type = settings[mcl[i].slot].type
  /\ modemType = cur

\* No emergency call is made and no network scan, and there are no more than two slots
Plain == inst.dial = 0 /\ inst.scan = 0 /\ Slots \subseteq {0, 1}

PlainFrame(f) ==
  /\ f.op \in {"switch", "process", "signal", "finish", "callEnded", "restrictedMode"}
  /\ f.act = "none"
  /\ f.op = "switch" => f.caller # "restrict" /\ f.type # NoType
  /\ f.op = "restrictedMode" => f.slot = 0

PlainStack ==
  \A i \in DOMAIN stack : /\ PlainFrame(stack[i])
                          /\ stack[i].op \in {"switch", "restrictedMode"} => i = 1

\* Then the redial controller does nothing but SET_ECC_MODE; ...
NoEmergency ==
  /\ dial = "none" /\ mdCall = "none" /\ ~mdDue /\ ~mdEcbm /\ ~resumed /\ mo = "none" /\ dials = 0
  /\ scanning = {} /\ scans = 0 /\ \A i \in DOMAIN mcl : mcl[i].op # "abort"
  /\ PlainStack
  /\ \A s \in Slots :
       /\ settings[s].act = "none" /\ settings[s].caller # "restrict"
       /\ pend[s]["restrict"].type = NoType /\ \A c \in Callers : pend[s][c].act = "none"
       /\ ~restrictedMode[s]

\* ... which restricts slot 0, if it is the only one, from the callback of the status
\* on to that of the end.
Restricting(on) == stack # << >> /\ Top.op = "restrictedMode" /\ Top.ok = on
EccRestricts ==
  /\ \A s \in Slots : restrictedCount[s] \in {0, 1} /\ (restrictedCount[s] = 1 => Slots = {0})
  /\ inst.eccMode = 0 => ~eccAsked /\ eccModes = 0 /\ ~Restricting(TRUE) /\ ~Restricting(FALSE)
  /\ restrictedCount[0] = IF EcbmRestricts /\ (IF inEmergency THEN ~Restricting(TRUE)
                                               ELSE Restricting(FALSE)) THEN 1 ELSE 0
  /\ Restricting(TRUE) => inEmergency /\ EcbmRestricts
  /\ Restricting(FALSE) => ~inEmergency /\ EcbmRestricts

\* A switch would have to wait, or be refused
Blocked == inSwitching \/ InCall \/ \E s \in Slots : restrictedCount[s] > 0

\* What waits is taken up as soon as it may run: the stack holds a call that comes to it.
Woken ==
  ~Blocked => \A s \in Slots : HasPending(s) =>
    \E i \in DOMAIN stack : \/ stack[i].op \in {"switch", "process"}
                            \/ stack[i].op = "callEnded" /\ stack[i].slot = s

Switches(s, c) == stack # << >> /\ Top.op = "switch" /\ Top.slot = s /\ Top.caller = c

\* A switch that may run passes none of its slot that waits.
NotPassed ==
  ~Blocked => \A s \in Slots :
    /\ Switches(s, "init") \/ Switches(s, "normal") => pend[s]["init"].type = NoType
    /\ Switches(s, "normal") => pend[s]["normal"].type = NoType

\* The type of the mode controller's last switch, of the framework's last type
LastInit(s) == InitTarget(s, settings[s].def)

\* Of all switches of a slot -- the one that is asked for, those that wait and the one
\* that runs -- the one that will be the last to run is to the right type.
LastIsRight(s) ==
  /\ Switches(s, "normal") => Top.type = riljType[s]
  /\ ~Switches(s, "normal") =>
       /\ pend[s]["normal"].type \in {NoType, riljType[s]}
       /\ pend[s]["normal"].type = NoType =>
            /\ Switches(s, "init") => Top.type = LastInit(s)
            /\ ~Switches(s, "init") =>
                 /\ pend[s]["init"].type \in {NoType, LastInit(s)}
                 /\ pend[s]["init"].type = NoType =>
                      /\ Running(s) /\ settings[s].caller = "init" => settings[s].type = LastInit(s)
                      /\ Running(s) /\ settings[s].caller = "normal" /\ def[s] # NoType
                           => settings[s].type = InitTarget(s, def[s])
                      /\ ~Running(s) /\ def[s] # NoType => cur[s] = InitTarget(s, def[s])

LastSwitch ==
  /\ NoEmergency /\ EccRestricts /\ Woken /\ NotPassed
  /\ \A s \in Slots \ failed : LastIsRight(s)

IInv == RatTypes /\ OneSwitch /\ (Plain => LastSwitch)
-----------------------------------------------------------------------------
(* Slots, calls and lists *)

(* RFX_SLOT_COUNT slots, numbered from 0. *)
LEMMA SlotFacts ==
  ASSUME inst \in Instances
  PROVE  /\ 0 \in Slots /\ Slots \subseteq Nat /\ Cardinality(Slots) \in Nat
         /\ Slots = 0 .. Cardinality(Slots) - 1
         /\ AskedTypes \subseteq NwTypes /\ {MaxSet, MaxInit, MaxFail, MaxScan, MaxCall} \subseteq Nat
<1>1. /\ IsFiniteSet(Slots) /\ 0 \in Slots /\ Slots = 0 .. Cardinality(Slots) - 1
  BY RatAssumption DEF Slots
<1>3. AskedTypes \subseteq NwTypes
  <2>1. inst.types \subseteq (SUBSET {"gsm", "cdma"}) \ {{}}
    BY RatAssumption
  <2> QED
    BY <2>1 DEF AskedTypes, NwTypes, Rats
<1>4. {MaxSet, MaxInit, MaxFail, MaxScan, MaxCall} \subseteq Nat
  BY RatAssumption DEF MaxSet, MaxInit, MaxFail, MaxScan, MaxCall
<1>2. Cardinality(Slots) \in Nat
  BY <1>1, FS_CardinalityType
<1>5. Slots \subseteq Nat
  BY <1>1, <1>2
<1> QED
  BY <1>1, <1>2, <1>3, <1>4, <1>5

(* The instance of a run does not change, nor what is made of it. *)
LEMMA SameInstance ==
  ASSUME inst' = inst
  PROVE  /\ Slots' = Slots /\ Frame' = Frame /\ Setting' = Setting /\ Request' = Request
         /\ Record' = Record /\ MaxSet' = MaxSet
BY DEF Slots, Frame, Setting, Request, Record, MaxSet

(* The calls the functions leave on the stack. *)
LEMMA FrameFields ==
  /\ \A op, s : Call(op, s).op = op /\ Call(op, s).slot = s /\ Call(op, s).act = "none"
  /\ \A s, t, c, a, m :
       /\ SwitchNwRat(s, t, c, a, m).op = "switch" /\ SwitchNwRat(s, t, c, a, m).slot = s
       /\ SwitchNwRat(s, t, c, a, m).caller = c /\ SwitchNwRat(s, t, c, a, m).type = t
       /\ SwitchNwRat(s, t, c, a, m).act = a /\ SwitchNwRat(s, t, c, a, m).msg = m
  /\ \A s, e : Signal(s, e).op = "signal" /\ Signal(s, e).act = "none"
  /\ \A s : /\ Process(s).op = "process" /\ Process(s).slot = s /\ Process(s).act = "none"
            /\ Finish(s).op = "finish" /\ Finish(s).slot = s /\ Finish(s).act = "none"
<1>1. \A op, s : Call(op, s).op = op /\ Call(op, s).slot = s /\ Call(op, s).act = "none"
  BY DEF Call
<1>2. \A s, t, c, a, m :
        /\ SwitchNwRat(s, t, c, a, m).op = "switch" /\ SwitchNwRat(s, t, c, a, m).slot = s
        /\ SwitchNwRat(s, t, c, a, m).caller = c /\ SwitchNwRat(s, t, c, a, m).type = t
        /\ SwitchNwRat(s, t, c, a, m).act = a /\ SwitchNwRat(s, t, c, a, m).msg = m
  <2> SUFFICES ASSUME NEW s, NEW t, NEW c, NEW a, NEW m, NEW f, f = SwitchNwRat(s, t, c, a, m)
               PROVE  /\ f.op = "switch" /\ f.slot = s /\ f.caller = c /\ f.type = t
                      /\ f.act = a /\ f.msg = m
    OBVIOUS
  <2> QED
    BY DEF SwitchNwRat, Call
<1>3. \A s, e : Signal(s, e).op = "signal" /\ Signal(s, e).act = "none"
  BY DEF Signal, Call
<1>4. \A s : /\ Process(s).op = "process" /\ Process(s).slot = s /\ Process(s).act = "none"
             /\ Finish(s).op = "finish" /\ Finish(s).slot = s /\ Finish(s).act = "none"
  BY DEF Process, Finish, Call
<1> QED
  BY <1>1, <1>2, <1>3, <1>4

(* Each of them is a call. *)
LEMMA FrameTypes ==
  ASSUME inst \in Instances
  PROVE  /\ \A op \in Ops, s \in Slots : Call(op, s) \in Frame
         /\ \A s \in Slots, t \in AnyType, c \in Callers, a \in Acts, m \in 0 .. MaxSet :
              SwitchNwRat(s, t, c, a, m) \in Frame
         /\ \A s \in Slots, a \in Acts : Act(s, a) \in Frame /\ Acted(s, a) \in Seq(Frame)
         /\ \A s \in Slots, e \in Errors : Signal(s, e) \in Frame /\ SignalIfInit(s, e) \in Seq(Frame)
         /\ \A s \in Slots : Process(s) \in Frame /\ Finish(s) \in Frame
         /\ \A a \in Acts : SetRatMode(a) \in Frame
         /\ \A b \in BOOLEAN : RestrictedMode(b) \in Seq(Frame)
         /\ CallEnded \in Seq(Frame)
<1>1. /\ "normal" \in Callers /\ NoType \in AnyType /\ "none" \in Acts /\ NoMsg \in 0 .. MaxSet
      /\ "none" \in Errors /\ 0 \in Slots /\ TRUE \in BOOLEAN
      /\ {"switch", "act", "signal", "ratMode", "restrictedMode", "callEnded", "process",
          "finish"} \subseteq Ops
  BY SlotFacts DEF Callers, AnyType, Acts, Errors, Ops, NoMsg
<1>2. \A op \in Ops, s \in Slots : Call(op, s) \in Frame
  BY <1>1 DEF Call, Frame
<1>3. \A s \in Slots, t \in AnyType, c \in Callers, a \in Acts, m \in 0 .. MaxSet :
        SwitchNwRat(s, t, c, a, m) \in Frame
  <2> TAKE s \in Slots, t \in AnyType, c \in Callers, a \in Acts, m \in 0 .. MaxSet
  <2> QED
    BY <1>1 DEF SwitchNwRat, Call, Frame
<1>4. \A s \in Slots, a \in Acts : Act(s, a) \in Frame /\ Acted(s, a) \in Seq(Frame)
  <2> TAKE s \in Slots, a \in Acts
  <2>1. Act(s, a) \in Frame
    BY <1>1 DEF Act, Call, Frame
  <2> QED
    BY <2>1 DEF Acted
<1>5. \A s \in Slots, e \in Errors : Signal(s, e) \in Frame /\ SignalIfInit(s, e) \in Seq(Frame)
  <2> TAKE s \in Slots, e \in Errors
  <2>1. Signal(s, e) \in Frame
    BY <1>1 DEF Signal, Call, Frame
  <2> QED
    BY <2>1 DEF SignalIfInit
<1>6. \A a \in Acts : SetRatMode(a) \in Frame
  BY <1>1 DEF SetRatMode, Fun, Call, Frame
<1>7. \A b \in BOOLEAN : RestrictedMode(b) \in Seq(Frame)
  <2> TAKE b \in BOOLEAN
  <2>1. [Fun("restrictedMode") EXCEPT !.ok = b] \in Frame
    BY <1>1 DEF Fun, Call, Frame
  <2> QED
    BY <2>1 DEF RestrictedMode
<1>8. CallEnded \in Seq(Frame)
  <2>1. \A i \in 1 .. Cardinality(Slots) : i - 1 \in Slots
    BY SlotFacts
  <2>2. \A i \in 1 .. Cardinality(Slots) : Call("callEnded", i - 1) \in Frame
    BY <2>1, <1>1, <1>2
  <2> QED
    BY <2>2, SlotFacts, IsASeq DEF CallEnded
<1>9. \A s \in Slots : Process(s) \in Frame /\ Finish(s) \in Frame
  BY <1>1, <1>2 DEF Process, Finish
<1> QED
  BY <1>2, <1>3, <1>4, <1>5, <1>6, <1>7, <1>8, <1>9

(* A scan that runs is one of the first slot with one. *)
LEMMA ScanSlotType ==
  ASSUME inst \in Instances, scanning \subseteq Slots, scanning # {}
  PROVE  ScanSlot \in Slots
<1>1. PICK x \in scanning : \A y \in scanning : ~(<< y, x >> \in OpToRel(<, Nat))
  <2>1. scanning \subseteq Nat
    BY SlotFacts
  <2> QED
    BY <2>1, NatLessThanWellFounded, WFMin
<1>2. \A y \in scanning : x <= y
  <2>1. \A y \in scanning : y \in Nat /\ x \in Nat
    BY SlotFacts
  <2>2. \A y \in scanning : ~(y < x)
    BY <1>1, <2>1 DEF OpToRel
  <2> QED
    BY <2>1, <2>2
<1> QED
  BY <1>1, <1>2 DEF ScanSlot

(* When a call begins, the scans are stopped. *)
LEMMA AbortScansType ==
  ASSUME inst \in Instances, scanning \subseteq Slots, mcl \in Seq(Request)
  PROVE  AbortScans \in Seq(Request)
<1> DEFINE aborts == [i \in 1 .. Cardinality(Slots) |->
                        [op |-> "abort", slot |-> ScanSlot, type |-> NoType]]
<1>1. CASE scanning = {}
  BY <1>1 DEF AbortScans
<1>2. CASE scanning # {}
  <2>1. [op |-> "abort", slot |-> ScanSlot, type |-> NoType] \in Request
    BY <1>2, ScanSlotType DEF Request, AnyType
  <2>2. aborts \in Seq(Request)
    BY <2>1, SlotFacts, IsASeq
  <2>3. AbortScans = mcl \o aborts
    BY <1>2 DEF AbortScans
  <2> QED
    BY <2>2, <2>3
<1> QED
  BY <1>1, <1>2

(* Taking one request out of those below the main thread leaves the others. *)
LEMMA RemoveAtFacts ==
  ASSUME NEW S, NEW s \in Seq(S), NEW i \in 1 .. Len(s)
  PROVE  /\ RemoveAt(s, i) \in Seq(S)
         /\ Len(RemoveAt(s, i)) = Len(s) - 1
         /\ \A j \in 1 .. Len(s) - 1 : RemoveAt(s, i)[j] = IF j < i THEN s[j] ELSE s[j + 1]
<1> DEFINE a == SubSeq(s, 1, i - 1)
           b == SubSeq(s, i + 1, Len(s))
<1>1. a \in Seq(S) /\ b \in Seq(S) /\ Len(a) = i - 1 /\ Len(b) = Len(s) - i
  OBVIOUS
<1>2. \A j \in 1 .. i - 1 : a[j] = s[j]
  OBVIOUS
<1>3. \A j \in 1 .. Len(s) - i : b[j] = s[i + j]
  OBVIOUS
<1>4. RemoveAt(s, i) = a \o b
  BY DEF RemoveAt
<1> HIDE DEF a, b
<1>5. a \o b \in Seq(S) /\ Len(a \o b) = Len(s) - 1
  BY <1>1
<1>6. ASSUME NEW j \in 1 .. Len(s) - 1 PROVE (a \o b)[j] = IF j < i THEN s[j] ELSE s[j + 1]
  <2>1. j \in 1 .. Len(a) + Len(b) /\ (j <= Len(a) <=> j < i)
    BY <1>1
  <2>2. (a \o b)[j] = IF j <= Len(a) THEN a[j] ELSE b[j - Len(a)]
    BY <1>1, <2>1, ConcatProperties
  <2>3. CASE j < i
    BY <1>2, <2>1, <2>2, <2>3
  <2>4. CASE ~(j < i)
    <3>1. j - Len(a) \in 1 .. Len(s) - i /\ i + (j - Len(a)) = j + 1
      BY <1>1, <2>4
    <3> QED
      BY <1>3, <2>1, <2>2, <2>4, <3>1
  <2> QED
    BY <2>3, <2>4
<1> QED
  BY <1>4, <1>5, <1>6
-----------------------------------------------------------------------------
(* Types *)

(* What is typed over the same slots and bounds is typed after the step. *)
LEMMA TypesPrimed ==
  ASSUME inst \in Instances, inst' = inst, inSwitching' \in BOOLEAN,
         cur' \in [Slots -> AnyType], def' \in [Slots -> AnyType], modemType' \in [Slots -> AnyType],
         settings' \in [Slots -> Setting], pend' \in [Slots -> [Callers -> Record]],
         restrictedMode' \in [Slots -> BOOLEAN], restrictedCount' \in [Slots -> Int],
         stack' \in Seq(Frame), riljType' \in [Slots -> AnyType], cSlot' \in Slots,
         calls' \subseteq Slots, scanning' \subseteq Slots, failed' \subseteq Slots,
         mcl' \in Seq(Request), sets' \in 0 .. MaxSet, scans' \in Nat, dials' \in Nat,
         eccModes' \in Nat
  PROVE  RatTypes'
BY SameInstance DEF RatTypes

(* The types of the network: the framework's, those a slot can do, and a new target. *)
LEMMA TargetTypes ==
  ASSUME RatTypes
  PROVE  /\ AnyType = SUBSET Rats
         /\ \A s \in Slots, t \in AnyType : Filter(s, t) \in AnyType
         /\ \A s \in Slots, d \in AnyType : InitTarget(s, d) \in AnyType
         /\ \A s \in Slots, d \in NwTypes : InitTarget(s, d) \in NwTypes
         /\ \A f \in Frame : Target(f) \in AnyType
<1>1. AnyType = SUBSET Rats
  BY DEF AnyType, NwTypes, NoType
<1>2. \A s \in Slots : def[s] \in SUBSET Rats /\ riljType[s] \in SUBSET Rats
  BY <1>1 DEF RatTypes
<1>3. \A s \in Slots, t \in AnyType : Filter(s, t) \in AnyType
  BY <1>1, <1>2 DEF Filter
<1>4. \A s \in Slots, d \in AnyType : InitTarget(s, d) \in AnyType
  BY <1>1, <1>2 DEF InitTarget
<1>5. \A s \in Slots, d \in NwTypes : InitTarget(s, d) \in NwTypes
  BY <1>1, <1>2 DEF InitTarget, NwTypes, NoType
<1>6. \A f \in Frame : Target(f) \in AnyType
  BY <1>3 DEF Target, Frame
<1> QED
  BY <1>1, <1>3, <1>4, <1>5, <1>6

(* The call the main thread makes, and the ones it has still to make. *)
LEMMA TopTypes ==
  ASSUME RatTypes, stack # << >>
  PROVE  /\ Top \in Frame /\ Rest \in Seq(Frame)
         /\ Top.slot \in Slots /\ Top.caller \in Callers /\ Top.type \in AnyType
         /\ Top.act \in Acts /\ Top.msg \in 0 .. MaxSet
<1>1. Top \in Frame /\ Rest \in Seq(Frame)
  BY DEF RatTypes, Top, Rest
<1> QED
  BY <1>1 DEF Frame

(* Records are put into the pending ones, and taken out. *)
LEMMA PendTypes ==
  ASSUME NEW p \in [Slots -> [Callers -> Record]], NEW s \in Slots, NEW c \in Callers
  PROVE  /\ \A r \in Record : /\ [p EXCEPT ![s][c] = r] \in [Slots -> [Callers -> Record]]
                              /\ [p EXCEPT ![s][c] = r, ![s]["restrict"].type = NoType]
                                   \in [Slots -> [Callers -> Record]]
         /\ [p EXCEPT ![s][c].type = NoType] \in [Slots -> [Callers -> Record]]
         /\ p[s][c].type \in AnyType /\ p[s][c].act \in Acts /\ p[s][c].msg \in 0 .. MaxSet
<1>1. NoType \in NwTypes \cup {NoType} /\ "restrict" \in Callers
  BY DEF Callers
<1>2. \A q \in [Slots -> [Callers -> Record]], d \in Callers, r \in Record :
        [q EXCEPT ![s][d] = r] \in [Slots -> [Callers -> Record]]
  OBVIOUS
<1>3. \A q \in [Slots -> [Callers -> Record]], d \in Callers :
        [q EXCEPT ![s][d].type = NoType] \in [Slots -> [Callers -> Record]]
  <2> TAKE q \in [Slots -> [Callers -> Record]], d \in Callers
  <2>1. [q[s][d] EXCEPT !.type = NoType] \in Record
    <3>1. q[s][d] \in Record
      OBVIOUS
    <3> QED
      BY <3>1, <1>1 DEF Record
  <2>2. [q EXCEPT ![s][d].type = NoType] = [q EXCEPT ![s][d] = [q[s][d] EXCEPT !.type = NoType]]
    OBVIOUS
  <2> QED
    BY <2>1, <2>2, <1>2
<1>4. \A r \in Record : [p EXCEPT ![s][c] = r, ![s]["restrict"].type = NoType]
                           \in [Slots -> [Callers -> Record]]
  <2> TAKE r \in Record
  <2>1. [p EXCEPT ![s][c] = r, ![s]["restrict"].type = NoType]
          = [[p EXCEPT ![s][c] = r] EXCEPT ![s]["restrict"].type = NoType]
    OBVIOUS
  <2> QED
    BY <2>1, <1>1, <1>2, <1>3
<1>5. p[s][c].type \in AnyType /\ p[s][c].act \in Acts /\ p[s][c].msg \in 0 .. MaxSet
  <2>1. p[s][c] \in Record
    OBVIOUS
  <2> QED
    BY <2>1 DEF Record, AnyType
<1> QED
  BY <1>2, <1>3, <1>4, <1>5

(* A record that has been reset, with a type. *)
LEMMA RecordTypes ==
  ASSUME inst \in Instances
  PROVE  /\ NoRecord \in Record
         /\ \A t \in AnyType : [NoRecord EXCEPT !.type = t] \in Record
         /\ \A t \in AnyType, a \in Acts, m \in 0 .. MaxSet :
              [type |-> t, act |-> a, msg |-> m] \in Record
<1>1. "none" \in Acts /\ NoMsg \in 0 .. MaxSet
  BY SlotFacts DEF Acts, NoMsg
<1> QED
  BY <1>1 DEF NoRecord, Record, AnyType

(* The requests of the framework and of the mode controller. *)
LEMMA RequestTypes ==
  ASSUME RatTypes, inst' = inst, UNCHANGED << dials, eccModes >>, NEW s \in Slots,
         NEW t \in AskedTypes,
         SetPreferredNetworkType(s, t) \/ \E b \in BOOLEAN : ModeSwitch(s, t, b)
  PROVE  RatTypes'
<1>1. inst \in Instances /\ t \in NwTypes /\ t \in AnyType /\ {"normal", "init"} \subseteq Callers
      /\ "none" \in Acts /\ NoMsg \in 0 .. MaxSet /\ << >> \in Seq(Frame) /\ "success" \in Errors
  BY SlotFacts DEF RatTypes, AnyType, Callers, Acts, NoMsg, Errors
<1>2. CASE SetPreferredNetworkType(s, t)
  <2>1. sets' \in 0 .. MaxSet /\ sets + 1 \in 0 .. MaxSet
    <3>1. MaxSet \in Nat
      BY <1>1, SlotFacts
    <3>2. sets \in 0 .. MaxSet /\ sets < MaxSet /\ sets' = sets + 1
      BY <1>2 DEF SetPreferredNetworkType, RatTypes
    <3> QED
      BY <3>1, <3>2
  <2>2. stack' \in Seq(Frame)
    BY <1>1, <1>2, <2>1, FrameTypes DEF SetPreferredNetworkType
  <2>3. riljType' \in [Slots -> AnyType] /\ restrictedMode' \in [Slots -> BOOLEAN]
    BY <1>1, <1>2 DEF SetPreferredNetworkType, RatTypes
  <2> QED
    BY <1>1, <1>2, <2>1, <2>2, <2>3, TypesPrimed DEF SetPreferredNetworkType, RatTypes
<1>3. ASSUME NEW b \in BOOLEAN, ModeSwitch(s, t, b) PROVE RatTypes'
  <2>1. stack' \in Seq(Frame)
    <3>1. InitTarget(s, t) \in AnyType
      BY <1>1, TargetTypes
    <3>2. SwitchNwRat(s, InitTarget(s, t), "init", "none", NoMsg) \in Frame
          /\ Signal(s, "success") \in Frame
      BY <1>1, <3>1, FrameTypes
    <3> QED
      BY <1>1, <1>3, <3>2 DEF ModeSwitch, SwitchInit
  <2>2. restrictedMode' \in [Slots -> BOOLEAN] /\ settings' \in [Slots -> Setting]
    <3>1. settings[s] \in Setting
      BY DEF RatTypes
    <3>2. [settings[s] EXCEPT !.def = t] \in Setting
      BY <3>1, <1>1 DEF Setting
    <3> QED
      BY <1>1, <1>3, <3>2 DEF ModeSwitch, SwitchInit, RatTypes
  <2> QED
    BY <1>1, <1>3, <2>1, <2>2, TypesPrimed DEF ModeSwitch, RatTypes, modemVars
<1> QED
  BY <1>2, <1>3

(* switchNwRat and processPendingRatSwitchRecord, and what else the main thread calls. *)
LEMMA CallTypes ==
  ASSUME RatTypes, inst' = inst, UNCHANGED << dials, eccModes >>, RatCalls
  PROVE  RatTypes'
<1> DEFINE f == Top
<1>1. inst \in Instances /\ {"normal", "init", "restrict"} = Callers
      /\ "none" \in Acts /\ NoMsg \in 0 .. MaxSet /\ << >> \in Seq(Frame)
      /\ {"success", "not_allowed"} \subseteq Errors /\ NoType \in AnyType
  BY SlotFacts DEF RatTypes, AnyType, Callers, Acts, NoMsg, Errors
<1>2. stack # << >>
  BY DEF RatCalls, SwitchWaits, SwitchRestricted, SwitchInCall, SwitchDone, SwitchAbortsScan,
         SwitchStarts, ProcessPending, FinishResponse, OnCallEnded, OnRestrictedModeChanged, Calls
<1>3. /\ f \in Frame /\ Rest \in Seq(Frame)
      /\ f.slot \in Slots /\ f.caller \in Callers /\ f.type \in AnyType
      /\ f.act \in Acts /\ f.msg \in 0 .. MaxSet /\ Target(f) \in AnyType
  BY <1>2, TopTypes, TargetTypes
<1>4. pend \in [Slots -> [Callers -> Record]] /\ mcl \in Seq(Request)
  BY DEF RatTypes
<1>5. QueueRecord(f.slot, f.caller, f.type, f.act, f.msg) => pend' \in [Slots -> [Callers -> Record]]
  <2>1. [type |-> f.type, act |-> f.act, msg |-> f.msg] \in Record
    BY <1>1, <1>3, RecordTypes
  <2>2. \A c \in Callers :
          /\ [pend EXCEPT ![f.slot][c] = [type |-> f.type, act |-> f.act, msg |-> f.msg]]
               \in [Slots -> [Callers -> Record]]
          /\ [pend EXCEPT ![f.slot][c] = [type |-> f.type, act |-> f.act, msg |-> f.msg],
                           ![f.slot]["restrict"].type = NoType] \in [Slots -> [Callers -> Record]]
    BY <1>3, <1>4, <2>1, PendTypes
  <2>3. ASSUME QueueRecord(f.slot, f.caller, f.type, f.act, f.msg)
        PROVE  \E c \in Callers :
          \/ pend' = [pend EXCEPT ![f.slot][c] = [type |-> f.type, act |-> f.act, msg |-> f.msg]]
          \/ pend' = [pend EXCEPT ![f.slot][c] = [type |-> f.type, act |-> f.act, msg |-> f.msg],
                                  ![f.slot]["restrict"].type = NoType]
    <3> HIDE DEF f
    <3>1. CASE f.caller = "restrict"
      <4>1. pend' = [pend EXCEPT ![f.slot]["restrict"]
                                   = [type |-> f.type, act |-> f.act, msg |-> f.msg]]
        BY <2>3, <3>1 DEF QueueRecord
      <4> QED
        BY <4>1, <1>1
    <3>2. CASE f.caller # "restrict"
      <4>1. pend' = [pend EXCEPT ![f.slot][f.caller] = [type |-> f.type, act |-> f.act, msg |-> f.msg],
                                 ![f.slot]["restrict"].type = NoType]
        BY <2>3, <3>2 DEF QueueRecord
      <4> QED
        BY <4>1, <1>3
    <3> QED
      BY <3>1, <3>2
  <2> QED
    BY <2>2, <2>3
<1>6. /\ Acted(f.slot, f.act) \o Rest \in Seq(Frame)
      /\ Acted(f.slot, f.act) \o << Process(f.slot) >> \o Rest \in Seq(Frame)
      /\ << Process(f.slot) >> \o Rest \in Seq(Frame)
      /\ << Signal(f.slot, "not_allowed") >> \o Rest \in Seq(Frame)
  BY <1>1, <1>3, FrameTypes
<1>7. CASE SwitchWaits
  BY <1>1, <1>3, <1>5, <1>7, TypesPrimed DEF SwitchWaits, RatTypes, keptVars, modemVars, boundVars
<1>8. CASE SwitchRestricted
  <2>1. [NoRecord EXCEPT !.type = f.type] \in Record
    BY <1>1, <1>3, RecordTypes
  <2>4. \A c \in Callers :
          [pend EXCEPT ![f.slot][c] = [NoRecord EXCEPT !.type = f.type],
                       ![f.slot]["restrict"].type = NoType] \in [Slots -> [Callers -> Record]]
    BY <1>3, <1>4, <2>1, PendTypes
  <2>2. pend' \in [Slots -> [Callers -> Record]]
    BY <1>1, <1>3, <1>4, <1>8, <2>4 DEF SwitchRestricted
  <2> QED
    BY <1>1, <1>6, <1>8, <2>2, TypesPrimed DEF SwitchRestricted, RatTypes, keptVars, modemVars, boundVars
<1>9. CASE SwitchInCall
  <2>1. [NoRecord EXCEPT !.type = f.type] \in Record
    BY <1>1, <1>3, RecordTypes
  <2>4. \A c \in Callers :
          [pend EXCEPT ![f.slot][c] = [NoRecord EXCEPT !.type = f.type],
                       ![f.slot]["restrict"].type = NoType] \in [Slots -> [Callers -> Record]]
    BY <1>3, <1>4, <2>1, PendTypes
  <2>2. pend' \in [Slots -> [Callers -> Record]]
    BY <1>1, <1>3, <1>4, <1>9, <2>4 DEF SwitchInCall
  <2>3. stack' \in Seq(Frame) /\ failed' \subseteq Slots
    BY <1>3, <1>6, <1>9 DEF SwitchInCall, RatTypes
  <2> QED
    BY <1>1, <1>9, <2>2, <2>3, TypesPrimed DEF SwitchInCall, RatTypes, keptVars, modemVars, boundVars
<1>10. CASE SwitchDone
  <2>1. stack' \in Seq(Frame) /\ failed' \subseteq Slots
    BY <1>3, <1>6, <1>10 DEF SwitchDone, RatTypes
  <2> QED
    BY <1>1, <1>10, <2>1, TypesPrimed DEF SwitchDone, RatTypes, keptVars, modemVars, boundVars
<1>11. CASE SwitchAbortsScan
  <2>1. ScanSlot \in Slots
    BY <1>1, <1>11, ScanSlotType DEF SwitchAbortsScan, RatTypes
  <2>2. [op |-> "abort", slot |-> ScanSlot, type |-> NoType] \in Request
    BY <1>1, <2>1 DEF Request
  <2>3. mcl' \in Seq(Request)
    BY <1>4, <1>11, <2>2 DEF SwitchAbortsScan
  <2> QED
    BY <1>1, <1>3, <1>5, <1>11, <2>3, TypesPrimed DEF SwitchAbortsScan, RatTypes, keptVars, boundVars
<1>12. CASE SwitchStarts
  <2>1. [op |-> IF AsksGmss(f) THEN "gmss" ELSE "set", slot |-> f.slot, type |-> Target(f)] \in Request
    BY <1>3 DEF Request
  <2>2. mcl' \in Seq(Request)
    BY <1>4, <1>12, <2>1 DEF SwitchStarts
  <2>3. settings' \in [Slots -> Setting]
    <3>1. settings[f.slot] \in Setting
      BY <1>3 DEF RatTypes
    <3>2. [settings[f.slot] EXCEPT !.type = Target(f), !.caller = f.caller, !.act = f.act,
                                   !.msg = f.msg] \in Setting
      BY <1>3, <3>1 DEF Setting
    <3> QED
      BY <1>12, <3>2 DEF SwitchStarts, RatTypes
  <2> QED
    BY <1>1, <1>3, <1>12, <2>2, <2>3, TypesPrimed DEF SwitchStarts, RatTypes, boundVars
<1>13. CASE ProcessPending
  <2> DEFINE c == NextRecord(f.slot)
  <2>1. CASE c \in Callers /\ stack' = << SwitchNwRat(f.slot, pend[f.slot][c].type, c,
                                        pend[f.slot][c].act, pend[f.slot][c].msg) >> \o Rest
                           /\ pend' = [pend EXCEPT ![f.slot][c].type = NoType]
    <3> HIDE DEF c
    <3>1. /\ pend[f.slot][c].type \in AnyType /\ pend[f.slot][c].act \in Acts
          /\ pend[f.slot][c].msg \in 0 .. MaxSet /\ pend' \in [Slots -> [Callers -> Record]]
      BY <1>3, <1>4, <2>1, PendTypes
    <3>2. stack' \in Seq(Frame)
      BY <1>1, <1>3, <2>1, <3>1, FrameTypes
    <3> QED
      BY <1>1, <1>13, <3>1, <3>2, TypesPrimed DEF ProcessPending, RatTypes, keptVars, modemVars, boundVars
  <2>2. CASE c = "another" /\ stack' = << Process(Another(f.slot)) >> \o Rest /\ UNCHANGED pend
    <3>1. Another(f.slot) \in Slots
      BY <2>2 DEF NextRecord
    <3>2. stack' \in Seq(Frame)
      BY <1>1, <1>3, <2>2, <3>1, FrameTypes
    <3> QED
      BY <1>1, <1>13, <2>2, <3>2, TypesPrimed DEF ProcessPending, RatTypes, keptVars, modemVars, boundVars
  <2>3. CASE stack' = Rest /\ UNCHANGED pend
    BY <1>1, <1>3, <1>13, <2>3, TypesPrimed DEF ProcessPending, RatTypes, keptVars, modemVars, boundVars
  <2> QED
    BY <1>13, <2>1, <2>2, <2>3 DEF ProcessPending
<1>14. CASE FinishResponse
  <2>1. settings[f.slot].act \in Acts
    BY <1>3 DEF RatTypes, Setting
  <2>2. stack' \in Seq(Frame)
    BY <1>1, <1>3, <1>14, <2>1, FrameTypes DEF FinishResponse
  <2> QED
    BY <1>1, <1>14, <2>2, TypesPrimed DEF FinishResponse, RatTypes, keptVars, modemVars, boundVars
<1>15. CASE OnCallEnded
  <2>1. stack' \in Seq(Frame)
    BY <1>1, <1>3, <1>15, FrameTypes DEF OnCallEnded
  <2> QED
    BY <1>1, <1>15, <2>1, TypesPrimed DEF OnCallEnded, RatTypes, keptVars, modemVars, boundVars
<1>16. CASE OnRestrictedModeChanged
  <2>1. stack' \in Seq(Frame)
    BY <1>1, <1>3, <1>16, FrameTypes DEF OnRestrictedModeChanged
  <2>2. restrictedCount' \in [Slots -> Int]
    BY <1>3, <1>16 DEF OnRestrictedModeChanged, RatTypes
  <2> QED
    BY <1>1, <1>16, <2>1, <2>2, TypesPrimed DEF OnRestrictedModeChanged, RatTypes, modemVars, boundVars
<1> QED
  BY <1>7, <1>8, <1>9, <1>10, <1>11, <1>12, <1>13, <1>14, <1>15, <1>16 DEF RatCalls

(* The answers of the modem, and scans and calls that begin and end. *)
LEMMA AnswerTypes ==
  ASSUME RatTypes, inst' = inst, UNCHANGED << dials, eccModes >>,
         \/ RatResponses \/ RatFails
         \/ \E s \in Slots : ScanStarts(s) \/ ScanEnds(s) \/ CallStarts(s) \/ CallEnds(s)
  PROVE  RatTypes'
<1>1. inst \in Instances /\ "normal" \in Callers /\ NoMsg \in 0 .. MaxSet /\ << >> \in Seq(Frame)
      /\ {"success", "not_allowed", "error"} \subseteq Errors /\ NoType \in AnyType
      /\ mcl \in Seq(Request) /\ DOMAIN mcl = 1 .. Len(mcl)
      /\ pend \in [Slots -> [Callers -> Record]]
  BY SlotFacts DEF RatTypes, AnyType, Callers, NoMsg, Errors
<1>2. \A i \in DOMAIN mcl : /\ mcl[i] \in Request /\ mcl[i].slot \in Slots /\ mcl[i].type \in AnyType
                            /\ RemoveAt(mcl, i) \in Seq(Request)
                            /\ settings[mcl[i].slot] \in Setting
                            /\ settings[mcl[i].slot].type \in AnyType
                            /\ settings[mcl[i].slot].def \in AnyType
  <2> TAKE i \in DOMAIN mcl
  <2>1. mcl[i] \in Request /\ RemoveAt(mcl, i) \in Seq(Request)
    BY <1>1, RemoveAtFacts
  <2>2. settings[mcl[i].slot] \in Setting
    BY <2>1 DEF Request, RatTypes
  <2> QED
    BY <2>1, <2>2 DEF Request, Setting
<1>3. \A s \in Slots, e \in {"success", "not_allowed", "error"} :
        SignalIfInit(s, e) \o << Finish(s), Process(s) >> \in Seq(Frame)
  BY <1>1, FrameTypes
<1>4. ASSUME NEW i \in DOMAIN mcl, ResponseGmss(i) PROVE RatTypes'
  <2>1. [mcl[i] EXCEPT !.op = "set"] \in Request
    BY <1>2 DEF Request
  <2>2. mcl' \in Seq(Request)
    BY <1>1, <1>4, <2>1 DEF ResponseGmss
  <2> QED
    BY <1>1, <1>4, <2>2, TypesPrimed DEF ResponseGmss, RatTypes, keptVars, boundVars
<1>5. ASSUME NEW i \in DOMAIN mcl, ResponseSet(i) PROVE RatTypes'
  <2>1. modemType' \in [Slots -> AnyType] /\ inSwitching' \in BOOLEAN
        /\ cur' \in [Slots -> AnyType] /\ def' \in [Slots -> AnyType]
    BY <1>2, <1>5 DEF ResponseSet, UpdateState, RatTypes
  <2>2. stack' \in Seq(Frame) /\ mcl' \in Seq(Request)
    BY <1>1, <1>2, <1>3, <1>5 DEF ResponseSet
  <2> QED
    BY <1>1, <1>5, <2>1, <2>2, TypesPrimed DEF ResponseSet, RatTypes, boundVars
<1>6. ASSUME NEW i \in DOMAIN mcl, ResponseAbort(i) PROVE RatTypes'
  <2>1. stack' \in Seq(Frame)
    BY <1>1, <1>2, <1>6, FrameTypes DEF ResponseAbort
  <2>2. mcl' \in Seq(Request) /\ scanning' \subseteq Slots
    BY <1>2, <1>6 DEF ResponseAbort, RatTypes
  <2> QED
    BY <1>1, <1>6, <2>1, <2>2, TypesPrimed DEF ResponseAbort, RatTypes, keptVars, boundVars
<1>7. ASSUME NEW i \in DOMAIN mcl, NEW b \in BOOLEAN, ResponseSetFails(i, b) PROVE RatTypes'
  <2> DEFINE s == mcl[i].slot
  <2>1. s \in Slots /\ settings[s] \in Setting /\ settings[s].type \in AnyType
    BY <1>2
  <2>2. /\ inSwitching' \in BOOLEAN /\ UNCHANGED << cur, def >> /\ failed' \subseteq Slots
        /\ mcl' = RemoveAt(mcl, i)
        /\ stack' = SignalIfInit(s, IF b THEN "not_allowed" ELSE "error") \o << Finish(s), Process(s) >>
    BY <1>7, <2>1 DEF ResponseSetFails, UpdateState, RatTypes
  <2>3. \/ UNCHANGED << pend, settings >>
        \/ /\ pend' = [pend EXCEPT ![s]["normal"] = [NoRecord EXCEPT !.type = settings[s].type],
                                   ![s]["restrict"].type = NoType]
           /\ settings' = [settings EXCEPT ![s].msg = NoMsg]
    BY <1>7 DEF ResponseSetFails
  <2>4. pend' \in [Slots -> [Callers -> Record]]
    <3>1. [NoRecord EXCEPT !.type = settings[s].type] \in Record
      BY <1>1, <2>1, RecordTypes
    <3>2. [pend EXCEPT ![s]["normal"] = [NoRecord EXCEPT !.type = settings[s].type],
                       ![s]["restrict"].type = NoType] \in [Slots -> [Callers -> Record]]
      BY <1>1, <2>1, <3>1, PendTypes
    <3> QED
      BY <1>1, <2>3, <3>2
  <2>5. settings' \in [Slots -> Setting]
    <3>1. [settings[s] EXCEPT !.msg = NoMsg] \in Setting
      BY <1>1, <2>1 DEF Setting
    <3> QED
      BY <2>1, <2>3, <3>1 DEF RatTypes
  <2>6. stack' \in Seq(Frame) /\ mcl' \in Seq(Request)
    BY <1>2, <1>3, <2>1, <2>2
  <2> QED
    BY <1>1, <1>7, <2>2, <2>4, <2>5, <2>6, TypesPrimed DEF ResponseSetFails, RatTypes
<1>8. ASSUME NEW s \in Slots, ScanStarts(s) \/ ScanEnds(s) PROVE RatTypes'
  <2>1. scanning' \subseteq Slots /\ scans' \in Nat
    BY <1>8 DEF ScanStarts, ScanEnds, RatTypes, boundVars
  <2> QED
    BY <1>1, <1>8, <2>1, TypesPrimed DEF ScanStarts, ScanEnds, RatTypes, keptVars, boundVars
<1>9. ASSUME NEW s \in Slots, CallStarts(s) PROVE RatTypes'
  <2>1. AbortScans \in Seq(Request)
    BY <1>1, AbortScansType DEF RatTypes
  <2> QED
    BY <1>1, <1>9, <2>1, TypesPrimed DEF CallStarts, RatTypes, keptVars
<1>10. ASSUME NEW s \in Slots, CallEnds(s) PROVE RatTypes'
  <2>1. stack' \in Seq(Frame) /\ calls' \subseteq Slots
    BY <1>1, <1>10, FrameTypes DEF CallEnds, CallEndsThen, RatTypes
  <2> QED
    BY <1>1, <1>10, <2>1, TypesPrimed DEF CallEnds, CallEndsThen, RatTypes, keptVars, boundVars
<1> QED
  BY <1>4, <1>5, <1>6, <1>7, <1>8, <1>9, <1>10 DEF RatResponses, RatFails

(* The redial controller changes of RatSwitch the calls to be made, and the pending
   records, the restricted mode, calls and scans in a few places. *)
LEMMA RedialCallTypes ==
  ASSUME RatTypes, inst' = inst, RedialCalls \/ OnRatSwitchDone
  PROVE  RatTypes'
<1>1. inst \in Instances /\ {"normal", "init", "restrict"} = Callers
      /\ {"none", "global", "resume"} = Acts /\ NoMsg \in 0 .. MaxSet
      /\ << >> \in Seq(Frame) /\ 0 \in Slots /\ TRUE \in BOOLEAN /\ FALSE \in BOOLEAN
      /\ NoType \in AnyType /\ Global \in AnyType /\ {"emergencyOff", "countZero"} \subseteq Ops
      /\ pend \in [Slots -> [Callers -> Record]]
  <2>1. inst \in Instances /\ pend \in [Slots -> [Callers -> Record]] /\ << >> \in Seq(Frame)
    BY DEF RatTypes
  <2>2. NoMsg \in 0 .. MaxSet /\ 0 \in Slots
    BY <2>1, SlotFacts DEF NoMsg
  <2>3. NoType \in AnyType /\ Global \in AnyType
    BY DEF AnyType, Global, NwTypes, Rats
  <2> QED
    BY <2>1, <2>2, <2>3 DEF Callers, Acts, Ops
<1>2. stack # << >>
  BY DEF RedialCalls, OnRatSwitchDone, RatModeUnchanged, RatModePending, RatModeGlobal, RatModeResume,
         RatIsGlobal, RatIsResumed, EmergencyOff, ForceReleaseEmergency, NoCall, OnCallCountChanged, Calls
<1>3. Rest \in Seq(Frame)
  BY <1>2, TopTypes
<1>4. /\ \A a \in Acts : SetRatMode(a) \in Frame /\ Act(0, a) \in Frame
      /\ SetEmergency \in Frame /\ Fun("countZero") \in Frame /\ Process(0) \in Frame
      /\ CallEnded \in Seq(Frame) /\ \A b \in BOOLEAN : RestrictedMode(b) \in Seq(Frame)
  BY <1>1, FrameTypes DEF SetEmergency, Fun
<1>16. /\ \A a \in Acts : /\ << SetRatMode(a) >> \o Rest \in Seq(Frame)
                         /\ << Act(0, a) >> \o Rest \in Seq(Frame)
                         /\ << Act(0, a), Process(0) >> \o Rest \in Seq(Frame)
       /\ << SetEmergency >> \o Rest \in Seq(Frame) /\ Rest \o RestrictedMode(FALSE) \in Seq(Frame)
       /\ << SetRatMode("resume") >> \o Rest \o RestrictedMode(FALSE) \in Seq(Frame)
       /\ << >> \o Rest \o RestrictedMode(FALSE) \in Seq(Frame) /\ << >> \o Rest \in Seq(Frame)
       /\ Rest \o (IF voice > 0 /\ waitsForCount THEN << Fun("countZero") >> ELSE << >>)
               \o (IF 0 \in calls THEN CallEnded ELSE << >>) \in Seq(Frame)
  <2>1. \A q, r \in Seq(Frame) : q \o r \in Seq(Frame)
    OBVIOUS
  <2>2. \A g, h \in Frame : << g >> \in Seq(Frame) /\ << g, h >> \in Seq(Frame)
    OBVIOUS
  <2>3. RestrictedMode(FALSE) \in Seq(Frame) /\ << SetRatMode("resume") >> \in Seq(Frame)
    BY <1>1, <1>4, <2>2
  <2>4. (IF voice > 0 /\ waitsForCount THEN << Fun("countZero") >> ELSE << >>) \in Seq(Frame)
        /\ (IF 0 \in calls THEN CallEnded ELSE << >>) \in Seq(Frame)
    BY <1>1, <1>4, <2>2
  <2>5. \A a \in Acts : /\ << SetRatMode(a) >> \o Rest \in Seq(Frame)
                         /\ << Act(0, a) >> \o Rest \in Seq(Frame)
                         /\ << Act(0, a), Process(0) >> \o Rest \in Seq(Frame)
    BY <1>3, <1>4, <2>1, <2>2
  <2>6. << SetEmergency >> \o Rest \in Seq(Frame) /\ Rest \o RestrictedMode(FALSE) \in Seq(Frame)
    BY <1>3, <1>4, <2>1, <2>2, <2>3
  <2>7. /\ << SetRatMode("resume") >> \o Rest \o RestrictedMode(FALSE) \in Seq(Frame)
        /\ << >> \o Rest \o RestrictedMode(FALSE) \in Seq(Frame) /\ << >> \o Rest \in Seq(Frame)
    BY <1>1, <1>3, <2>1, <2>3
  <2>8. Rest \o (IF voice > 0 /\ waitsForCount THEN << Fun("countZero") >> ELSE << >>)
            \o (IF 0 \in calls THEN CallEnded ELSE << >>) \in Seq(Frame)
    BY <1>3, <2>1, <2>4
  <2> QED
    BY <2>5, <2>6, <2>7, <2>8
<1>5. ASSUME stack' \in Seq(Frame), UNCHANGED << ratKept, dials, eccModes >> PROVE RatTypes'
  BY <1>1, <1>5, TypesPrimed DEF RatTypes, ratKept, keptVars, modemVars, boundVars
<1>6. CASE OnRatSwitchDone
  BY <1>3, <1>5, <1>6 DEF OnRatSwitchDone, redialVars, rdKept
<1>7. CASE RatModeUnchanged \/ RatModePending
  BY <1>3, <1>5, <1>7 DEF RatModeUnchanged, RatModePending, redialVars, rdKept
<1>8. CASE RatModeGlobal
  <2>1. CASE cur[0] = Global
    <3>1. stack' \in Seq(Frame)
      BY <1>1, <1>3, <1>4, <1>16, <1>8, <2>1 DEF RatModeGlobal
    <3> QED
      BY <1>5, <1>8, <2>1, <3>1 DEF RatModeGlobal, ratKept, rdKept
  <2>2. CASE cur[0] # Global
    <3>1. EnterRestricted(0, Global, Rest)
      BY <1>8, <2>2 DEF RatModeGlobal
    <3>2. stack' \in Seq(Frame)
      <4>1. SwitchNwRat(0, Global, "restrict", "global", NoMsg) \in Frame
        BY <1>1, FrameTypes
      <4> QED
        BY <1>3, <3>1, <4>1 DEF EnterRestricted
    <3>3. pend' \in [Slots -> [Callers -> Record]]
      <4>1. [NoRecord EXCEPT !.type = cur[0]] \in Record
        BY <1>1, RecordTypes DEF RatTypes
      <4>2. [pend EXCEPT ![0]["restrict"] = [NoRecord EXCEPT !.type = cur[0]]]
              \in [Slots -> [Callers -> Record]]
        BY <1>1, <4>1, PendTypes
      <4> QED
        BY <1>1, <3>1, <4>2 DEF EnterRestricted
    <3>4. restrictedMode' \in [Slots -> BOOLEAN]
      BY <3>1 DEF EnterRestricted, RatTypes
    <3> QED
      BY <1>1, <1>8, <2>2, <3>2, <3>3, <3>4, TypesPrimed
         DEF RatModeGlobal, RatTypes, modemVars, boundVars, rdKept
  <2> QED
    BY <2>1, <2>2
<1>9. CASE RatModeResume
  <2>1. CASE ~ratState
    <3>1. stack' \in Seq(Frame)
      BY <1>1, <1>3, <1>4, <1>16, <1>9, <2>1 DEF RatModeResume
    <3> QED
      BY <1>5, <1>9, <2>1, <3>1 DEF RatModeResume, ratKept, rdKept
  <2>2. CASE ratState
    <3>1. LeaveRestricted(0, Rest)
      BY <1>9, <2>2 DEF RatModeResume
    <3>2. \A c \in Callers : /\ pend[0][c].type \in AnyType /\ pend[0][c].msg \in 0 .. MaxSet
                             /\ Filter(0, pend[0][c].type) \in AnyType
      BY <1>1, PendTypes, TargetTypes
    <3>3. stack' \in Seq(Frame)
      <4>1. SwitchNwRat(0, pend[0]["init"].type, "init", "resume", NoMsg) \in Frame
        BY <1>1, <3>2, FrameTypes
      <4>2. SwitchNwRat(0, Filter(0, pend[0]["normal"].type), "normal", "resume",
                        pend[0]["normal"].msg) \in Frame
        BY <1>1, <3>2, FrameTypes
      <4> QED
        <5>1. \A g \in Frame : << g >> \o Rest \in Seq(Frame)
          BY <1>3
        <5> QED
          BY <1>1, <1>16, <3>1, <4>1, <4>2, <5>1 DEF LeaveRestricted
    <3>4. pend' \in [Slots -> [Callers -> Record]]
      <4>1. [pend EXCEPT ![0]["restrict"].type = NoType] \in [Slots -> [Callers -> Record]]
        BY <1>1, PendTypes
      <4> QED
        BY <1>1, <3>1, <4>1 DEF LeaveRestricted
    <3>5. restrictedMode' \in [Slots -> BOOLEAN]
      BY <3>1 DEF LeaveRestricted, RatTypes
    <3> QED
      BY <1>1, <1>9, <2>2, <3>3, <3>4, <3>5, TypesPrimed
         DEF RatModeResume, RatTypes, modemVars, boundVars, rdKept
  <2> QED
    BY <2>1, <2>2
<1>10. CASE RatIsGlobal
  <2>1. stack' \in Seq(Frame)
    BY <1>1, <1>3, <1>4, <1>16, <1>10 DEF RatIsGlobal
  <2> QED
    BY <1>5, <1>10, <2>1 DEF RatIsGlobal, rdKept
<1>11. CASE RatIsResumed
  <2>1. stack' \in Seq(Frame)
    BY <1>1, <1>3, <1>4, <1>16, <1>11 DEF RatIsResumed
  <2> QED
    BY <1>5, <1>11, <2>1 DEF RatIsResumed, rdKept
<1>12. CASE EmergencyOff
  <2>1. stack' \in Seq(Frame)
    BY <1>1, <1>3, <1>4, <1>16, <1>12 DEF EmergencyOff
  <2> QED
    BY <1>5, <1>12, <2>1 DEF EmergencyOff, rdKept
<1>13. CASE ForceReleaseEmergency
  <2>1. stack' \in Seq(Frame)
    BY <1>1, <1>3, <1>4, <1>16, <1>13 DEF ForceReleaseEmergency
  <2> QED
    BY <1>5, <1>13, <2>1 DEF ForceReleaseEmergency, rdKept
<1>14. CASE NoCall
  <2>1. stack' \in Seq(Frame)
    BY <1>1, <1>3, <1>4, <1>16, <1>14 DEF NoCall
  <2>2. calls' \subseteq Slots
    BY <1>14 DEF NoCall, RatTypes
  <2> QED
    BY <1>1, <1>14, <2>1, <2>2, TypesPrimed DEF NoCall, RatTypes, keptVars, boundVars, rdKept
<1>15. CASE OnCallCountChanged
  <2>1. stack' \in Seq(Frame)
    BY <1>1, <1>3, <1>4, <1>16, <1>15 DEF OnCallCountChanged
  <2> QED
    BY <1>5, <1>15, <2>1 DEF OnCallCountChanged, rdKept
<1> QED
  BY <1>6, <1>7, <1>8, <1>9, <1>10, <1>11, <1>12, <1>13, <1>14, <1>15 DEF RedialCalls

(* The requests of emergency calls, and what the modem says of them. *)
LEMMA RedialEventTypes ==
  ASSUME RatTypes, inst' = inst, RedialModem \/ RedialInput
  PROVE  RatTypes'
<1>1. inst \in Instances /\ 0 \in Slots /\ TRUE \in BOOLEAN /\ FALSE \in BOOLEAN
      /\ {"global", "resume"} \subseteq Acts /\ {"forceRelease", "noCall", "countZero"} \subseteq Ops
      /\ << >> \in Seq(Frame) /\ stack \in Seq(Frame) /\ dials \in Nat /\ eccModes \in Nat
  BY SlotFacts DEF RatTypes, Acts, Ops
<1>2. /\ \A a \in Acts : SetRatMode(a) \in Frame
      /\ ForceRelease \in Frame /\ UpdateCallCount \in Frame /\ Fun("countZero") \in Frame
      /\ \A b \in BOOLEAN : RestrictedMode(b) \in Seq(Frame)
  BY <1>1, FrameTypes DEF ForceRelease, UpdateCallCount, Fun
<1>3. ASSUME stack' \in Seq(Frame), dials' \in Nat, eccModes' \in Nat, UNCHANGED ratKept PROVE RatTypes'
  BY <1>1, <1>3, TypesPrimed DEF RatTypes, ratKept, keptVars, modemVars, boundVars
<1>4. CASE DialAccepted \/ Hangup
  BY <1>1, <1>3, <1>4 DEF DialAccepted, Hangup, ratVars, ratKept, rdKept
<1>5. CASE EmergencyDial
  <2>1. stack' \in Seq(Frame)
    BY <1>1, <1>2, <1>5 DEF EmergencyDial, HandleEmergencyDial
  <2> QED
    BY <1>1, <1>3, <1>5, <2>1 DEF EmergencyDial
<1>6. ASSUME NEW on \in BOOLEAN, SetEccMode(on) PROVE RatTypes'
  <2>1. stack' \in Seq(Frame)
    BY <1>1, <1>2, <1>6 DEF SetEccMode
  <2>2. dials' = dials /\ (eccModes' = eccModes + 1 \/ eccModes' = eccModes)
    BY <1>6, Zenon DEF SetEccMode
  <2> QED
    BY <1>1, <1>3, <1>6, <2>1, <2>2 DEF SetEccMode
<1>7. CASE DialFails
  <2>1. stack' \in Seq(Frame)
    BY <1>2, <1>7 DEF DialFails
  <2> QED
    BY <1>1, <1>7, <2>1, TypesPrimed DEF DialFails, RatTypes, keptVars, modemVars, rdKept
<1>8. CASE CallIdAssigned
  <2>1. AbortScans \in Seq(Request)
    BY <1>1, AbortScansType DEF RatTypes
  <2>2. mcl' \in Seq(Request) /\ calls' \subseteq Slots
    BY <1>1, <1>8, <2>1 DEF CallIdAssigned, RatTypes
  <2> QED
    BY <1>1, <1>8, <2>2, TypesPrimed DEF CallIdAssigned, RatTypes, keptVars, boundVars, rdKept
<1>9. \A cause : Disconnected(cause) => stack' \in Seq(Frame)
  <2>1. \A g \in Frame : << g >> \in Seq(Frame)
    OBVIOUS
  <2>2. /\ << ForceRelease, UpdateCallCount >> \in Seq(Frame) /\ << UpdateCallCount >> \in Seq(Frame)
        /\ << SetRatMode("global") >> \in Seq(Frame)
    BY <1>1, <1>2
  <2>3. (IF voice = 1 /\ waitsForCount THEN << Fun("countZero") >> ELSE << >>) \in Seq(Frame)
    BY <1>1, <1>2, <2>1
  <2>4. << SetRatMode("global") >>
          \o (IF voice = 1 /\ waitsForCount THEN << Fun("countZero") >> ELSE << >>) \in Seq(Frame)
    BY <2>2, <2>3
  <2> QED
    BY <2>2, <2>4 DEF Disconnected
<1>10. ASSUME NEW cause \in {"normal", "global"}, CallDisconnected(cause) PROVE RatTypes'
  BY <1>1, <1>3, <1>9, <1>10 DEF CallDisconnected
<1>11. CASE Resumed
  BY <1>1, <1>3, <1>9, <1>11 DEF Resumed, rdKept
<1>12. EcbmExit => stack' \in Seq(Frame)
  <2>1. SetRatMode("resume") \in Frame
    BY <1>1, <1>2
  <2>2. (IF emcs <= 1 THEN << SetRatMode("resume") >> ELSE << >>) \in Seq(Frame)
    BY <1>1, <2>1
  <2>3. (IF ecbm THEN RestrictedMode(FALSE) ELSE << >>) \in Seq(Frame)
    BY <1>1, <1>2
  <2>4. (IF emcs <= 1 THEN << SetRatMode("resume") >> ELSE << >>)
          \o (IF ecbm THEN RestrictedMode(FALSE) ELSE << >>) \in Seq(Frame)
    <3>1. \A q, r \in Seq(Frame) : q \o r \in Seq(Frame)
      OBVIOUS
    <3> QED
      BY <2>2, <2>3, <3>1, Zenon
  <2> QED
    BY <2>4 DEF EcbmExit
<1>13. ASSUME NEW enter \in BOOLEAN, SessionEnds(enter) PROVE RatTypes'
  <2>1. stack' \in Seq(Frame)
    BY <1>1, <1>2, <1>12, <1>13 DEF SessionEnds
  <2> QED
    BY <1>1, <1>3, <1>13, <2>1 DEF SessionEnds
<1>14. CASE EcbmEnds
  BY <1>1, <1>3, <1>12, <1>14 DEF EcbmEnds
<1> QED
  BY <1>4, <1>5, <1>6, <1>7, <1>8, <1>10, <1>11, <1>13, <1>14 DEF RedialModem, RedialInput

(* A step of the whole, by the part that takes it. *)
LEMMA StepTypes == RatTypes /\ [Next]_allVars => RatTypes'
<1> SUFFICES ASSUME RatTypes, [Next]_allVars PROVE RatTypes'
  OBVIOUS
<1>1. CASE UNCHANGED allVars
  BY <1>1, SameInstance
     DEF RatTypes, allVars, vars, ratVars, keptVars, modemVars, boundVars, redialVars, rdKept
<1>2. CASE Next
  <2>1. inst' = inst /\ Steps
    BY <1>2 DEF Next
  <2>2. UNCHANGED redialVars => UNCHANGED << dials, eccModes >>
    BY DEF redialVars, rdKept
  <2> QED
    BY <2>1, <2>2, RequestTypes, CallTypes, AnswerTypes, RedialCallTypes, RedialEventTypes DEF Steps
<1> QED
  BY <1>1, <1>2
-----------------------------------------------------------------------------
(* One switch at a time *)

\* Nothing of a switch changes but, maybe, the place of its request in the list
SwitchKept ==
  /\ UNCHANGED << inst, inSwitching, cur, modemType >>
  /\ \A s \in Slots : settings'[s].type = settings[s].type

(* The requests below the main thread are requests. *)
LEMMA MclFacts ==
  ASSUME RatTypes
  PROVE  /\ DOMAIN mcl = 1 .. Len(mcl) /\ Len(mcl) \in Nat
         /\ \A i \in DOMAIN mcl : mcl[i] \in Request /\ mcl[i].slot \in Slots /\ mcl[i].type \in AnyType
<1>1. mcl \in Seq(Request)
  BY DEF RatTypes
<1>2. DOMAIN mcl = 1 .. Len(mcl) /\ Len(mcl) \in Nat /\ \A i \in DOMAIN mcl : mcl[i] \in Request
  BY <1>1
<1> QED
  BY <1>2 DEF Request

(* The list stays as it is. *)
LEMMA ListKept ==
  ASSUME RatTypes, OneSwitch, SwitchKept, UNCHANGED mcl
  PROVE  OneSwitch' /\ \A s \in Slots : Running(s)' <=> Running(s)
<1>1. Switching' = Switching /\ Slots' = Slots
  BY DEF Switching, SwitchKept, Slots
<1> QED
  BY <1>1, MclFacts DEF OneSwitch, SwitchKept, Running, Switching

(* Requests that stop a scan are added. *)
LEMMA AbortsAdded ==
  ASSUME RatTypes, OneSwitch, SwitchKept, NEW q \in Seq(Request),
         \A i \in DOMAIN q : q[i].op = "abort", mcl' = mcl \o q
  PROVE  OneSwitch' /\ \A s \in Slots : Running(s)' <=> Running(s)
<1>1. /\ DOMAIN mcl' = 1 .. Len(mcl) + Len(q) /\ Len(q) \in Nat /\ DOMAIN q = 1 .. Len(q)
      /\ \A i \in 1 .. Len(mcl) : mcl'[i] = mcl[i]
      /\ \A i \in Len(mcl) + 1 .. Len(mcl) + Len(q) : mcl'[i] = q[i - Len(mcl)]
  BY MclFacts, ConcatProperties DEF RatTypes
<1>2. Switching' = Switching
  <2>1. \A i \in Len(mcl) + 1 .. Len(mcl) + Len(q) : mcl'[i].op = "abort"
    <3> TAKE i \in Len(mcl) + 1 .. Len(mcl) + Len(q)
    <3>1. i - Len(mcl) \in 1 .. Len(q)
      BY <1>1, MclFacts
    <3> QED
      BY <3>1, <1>1
  <2> QED
    BY <1>1, <2>1, MclFacts DEF Switching
<1>3. \A i \in Switching : mcl'[i] = mcl[i]
  BY <1>1, MclFacts DEF Switching
<1> QED
  BY <1>2, <1>3, MclFacts DEF OneSwitch, SwitchKept, Running, Switching

(* One of them is answered. *)
LEMMA AbortTaken ==
  ASSUME RatTypes, OneSwitch, SwitchKept, NEW i \in DOMAIN mcl, mcl[i].op = "abort",
         mcl' = RemoveAt(mcl, i)
  PROVE  OneSwitch' /\ \A s \in Slots : Running(s)' <=> Running(s)
<1>1. /\ DOMAIN mcl' = 1 .. Len(mcl) - 1 /\ i \in 1 .. Len(mcl) /\ Len(mcl) \in Nat
      /\ \A j \in 1 .. Len(mcl) - 1 : mcl'[j] = IF j < i THEN mcl[j] ELSE mcl[j + 1]
  BY MclFacts, RemoveAtFacts DEF RatTypes
<1> DEFINE old(j) == IF j < i THEN j ELSE j + 1
<1>2. \A j \in Switching' : old(j) \in Switching /\ mcl'[j] = mcl[old(j)]
  <2> TAKE j \in Switching'
  <2>1. j \in 1 .. Len(mcl) - 1 /\ mcl'[j].op # "abort"
    BY <1>1 DEF Switching
  <2>2. old(j) \in 1 .. Len(mcl) /\ mcl'[j] = mcl[old(j)]
    BY <2>1, <1>1
  <2> QED
    BY <2>1, <2>2, MclFacts DEF Switching
<1>3. \A k \in Switching : \E j \in Switching' : old(j) = k
  <2> TAKE k \in Switching
  <2>1. k \in 1 .. Len(mcl) /\ k # i /\ mcl[k].op # "abort"
    BY MclFacts DEF Switching
  <2> DEFINE j == IF k < i THEN k ELSE k - 1
  <2>2. j \in 1 .. Len(mcl) - 1 /\ old(j) = k
    BY <1>1, <2>1
  <2>3. mcl'[j] = mcl[k]
    BY <1>1, <2>2
  <2>4. j \in Switching'
    BY <1>1, <2>1, <2>2, <2>3 DEF Switching
  <2> QED
    BY <2>2, <2>4
<1>4. \A j, k \in Switching' : old(j) = old(k) => j = k
  BY <1>1 DEF Switching
<1> HIDE DEF old
<1>5. \A j, k \in Switching' : j = k
  BY <1>2, <1>4 DEF OneSwitch
<1>6. Switching' # {} <=> Switching # {}
  BY <1>2, <1>3
<1>7. \A j \in Switching' : mcl'[j].type = settings'[mcl'[j].slot].type
  <2> TAKE j \in Switching'
  <2>1. mcl[old(j)].slot \in Slots /\ mcl[old(j)].type = settings[mcl[old(j)].slot].type
    BY <1>2, MclFacts DEF OneSwitch, Switching
  <2> QED
    BY <1>2, <2>1 DEF SwitchKept
<1>8. \A s \in Slots : Running(s)' <=> Running(s)
  BY <1>2, <1>3 DEF Running
<1> QED
  BY <1>5, <1>6, <1>7, <1>8 DEF OneSwitch, SwitchKept

(* The modem says which mode a switch may use. *)
LEMMA GmssAnswered ==
  ASSUME RatTypes, OneSwitch, SwitchKept, NEW i \in DOMAIN mcl, mcl[i].op = "gmss",
         mcl' = [mcl EXCEPT ![i].op = "set"]
  PROVE  OneSwitch' /\ \A s \in Slots : Running(s)' <=> Running(s)
<1>1. DOMAIN mcl' = DOMAIN mcl
  OBVIOUS
<1>2. \A j \in DOMAIN mcl : /\ mcl'[j].slot = mcl[j].slot /\ mcl'[j].type = mcl[j].type
                            /\ mcl'[j].op # "abort" <=> mcl[j].op # "abort"
  <2> TAKE j \in DOMAIN mcl
  <2>1. mcl[j] \in Request
    BY MclFacts
  <2>2. mcl'[j] = IF j = i THEN [mcl[i] EXCEPT !.op = "set"] ELSE mcl[j]
    OBVIOUS
  <2> QED
    BY <2>1, <2>2 DEF Request
<1>3. Switching' = Switching
  BY <1>1, <1>2 DEF Switching
<1>4. \A j \in Switching : j \in DOMAIN mcl /\ mcl[j].slot \in Slots
  BY MclFacts DEF Switching
<1> QED
  BY <1>2, <1>3, <1>4 DEF OneSwitch, SwitchKept, Running

(* A switch is asked of the modem: there was none. *)
LEMMA SwitchAdded ==
  ASSUME RatTypes, OneSwitch, SwitchStarts, inst' = inst
  PROVE  OneSwitch' /\ \A s \in Slots : Running(s)' <=> s = Top.slot
<1> DEFINE r == [op |-> IF AsksGmss(Top) THEN "gmss" ELSE "set", slot |-> Top.slot,
                 type |-> Target(Top)]
<1>1. /\ mcl' = Append(mcl, r) /\ inSwitching' = TRUE /\ ~inSwitching /\ Top.slot \in Slots
      /\ modemType' = modemType /\ cur' = cur
      /\ settings'[Top.slot].type = Target(Top)
  <2>1. stack # << >>
    BY DEF SwitchStarts, Calls
  <2>2. Top.slot \in Slots /\ settings[Top.slot] \in Setting
    BY <2>1, TopTypes DEF RatTypes
  <2>3. settings'[Top.slot].type = Target(Top)
    BY <2>2 DEF SwitchStarts, RatTypes, Setting
  <2> QED
    BY <2>2, <2>3 DEF SwitchStarts, MayStart, MayRun, MustWait
<1>2. r.op # "abort" /\ r.slot = Top.slot /\ r.type = Target(Top)
  OBVIOUS
<1> HIDE DEF r
<1>3. /\ DOMAIN mcl' = 1 .. Len(mcl) + 1 /\ mcl'[Len(mcl) + 1] = r
      /\ \A i \in 1 .. Len(mcl) : mcl'[i] = mcl[i]
  BY <1>1 DEF RatTypes
<1>4. Switching = {}
  BY <1>1 DEF OneSwitch
<1>5. Switching' = {Len(mcl) + 1}
  BY <1>2, <1>3, <1>4, MclFacts DEF Switching
<1> QED
  BY <1>1, <1>2, <1>3, <1>5 DEF OneSwitch, Running

(* It is answered: none is left. *)
LEMMA SwitchAnswered ==
  ASSUME RatTypes, OneSwitch, inst' = inst, NEW i \in DOMAIN mcl,
         ResponseSet(i) \/ \E b \in BOOLEAN : ResponseSetFails(i, b)
  PROVE  OneSwitch' /\ i \in Switching /\ Switching' = {} /\ \A s \in Slots : ~Running(s)'
<1>1. /\ mcl[i].op = "set" /\ mcl' = RemoveAt(mcl, i) /\ inSwitching' = FALSE
  BY DEF ResponseSet, ResponseSetFails, Answered, UpdateState
<1>2. i \in Switching
  BY <1>1 DEF Switching
<1>3. /\ DOMAIN mcl' = 1 .. Len(mcl) - 1 /\ i \in 1 .. Len(mcl) /\ Len(mcl) \in Nat
      /\ \A j \in 1 .. Len(mcl) - 1 : mcl'[j] = IF j < i THEN mcl[j] ELSE mcl[j + 1]
  BY <1>1, MclFacts, RemoveAtFacts DEF RatTypes
<1>4. Switching' = {}
  <2> SUFFICES ASSUME NEW j \in Switching' PROVE FALSE
    OBVIOUS
  <2> DEFINE k == IF j < i THEN j ELSE j + 1
  <2>1. j \in 1 .. Len(mcl) - 1 /\ mcl'[j].op # "abort"
    BY <1>3 DEF Switching
  <2>2. k \in 1 .. Len(mcl) /\ k # i /\ mcl'[j] = mcl[k]
    BY <1>3, <2>1
  <2>3. k \in Switching
    BY <2>1, <2>2, MclFacts DEF Switching
  <2> QED
    BY <1>2, <2>2, <2>3 DEF OneSwitch
<1>5. modemType' = cur'
  <2>1. CASE ResponseSet(i)
    <3>1. mcl[i].type = settings[mcl[i].slot].type
      BY <1>2 DEF OneSwitch
    <3> QED
      BY <2>1, <3>1 DEF ResponseSet, UpdateState, OneSwitch
  <2>2. CASE \E b \in BOOLEAN : ResponseSetFails(i, b)
    BY <2>2 DEF ResponseSetFails, UpdateState, OneSwitch
  <2> QED
    BY <2>1, <2>2
<1> QED
  BY <1>1, <1>2, <1>4, <1>5 DEF OneSwitch, Running

(* When a call begins, what is added are requests that stop a scan. *)
LEMMA CallBegins ==
  ASSUME RatTypes, OneSwitch, SwitchKept, mcl' = AbortScans
  PROVE  OneSwitch' /\ \A s \in Slots : Running(s)' <=> Running(s)
<1>1. inst \in Instances
  BY DEF RatTypes
<1>2. CASE scanning = {}
  BY <1>2, ListKept DEF AbortScans
<1>3. CASE scanning # {}
  <2> DEFINE q == [i \in 1 .. Cardinality(Slots) |->
                     [op |-> "abort", slot |-> ScanSlot, type |-> NoType]]
  <2>1. [op |-> "abort", slot |-> ScanSlot, type |-> NoType] \in Request
    BY <1>1, <1>3, ScanSlotType DEF Request, AnyType, RatTypes
  <2>2. q \in Seq(Request) /\ \A i \in DOMAIN q : q[i].op = "abort"
    BY <1>1, <2>1, SlotFacts, IsASeq
  <2>3. mcl' = mcl \o q
    BY <1>3 DEF AbortScans
  <2> HIDE DEF q
  <2> QED
    BY <2>2, <2>3, AbortsAdded
<1> QED
  BY <1>2, <1>3

\* The modem answers a switch
SwitchEnds == \E i \in DOMAIN mcl : ResponseSet(i) \/ \E b \in BOOLEAN : ResponseSetFails(i, b)

(* Only those two change what is being switched. *)
LEMMA SwitchesStay ==
  ASSUME RatTypes, OneSwitch, Next, ~SwitchStarts, ~SwitchEnds
  PROVE  SwitchKept /\ OneSwitch' /\ \A s \in Slots : Running(s)' <=> Running(s)
<1>1. inst' = inst /\ Steps
  BY DEF Next
<1>2. UNCHANGED << mcl, modemType, keptVars >> => SwitchKept /\ UNCHANGED mcl
  BY <1>1 DEF SwitchKept, keptVars
<1>3. UNCHANGED << mcl, modemType, inSwitching, cur, settings >> => SwitchKept /\ UNCHANGED mcl
  BY <1>1 DEF SwitchKept
<1>4. SwitchKept /\ UNCHANGED mcl =>
        SwitchKept /\ OneSwitch' /\ \A s \in Slots : Running(s)' <=> Running(s)
  BY ListKept
<1>5. CASE RedialCalls \/ OnRatSwitchDone
  <2>1. UNCHANGED << mcl, modemType, inSwitching, cur, settings >>
    BY <1>5 DEF RedialCalls, OnRatSwitchDone, RatModeUnchanged, RatModePending, RatModeGlobal,
                RatModeResume, RatIsGlobal, RatIsResumed, EmergencyOff, ForceReleaseEmergency,
                NoCall, OnCallCountChanged, ratKept, keptVars, modemVars
  <2> QED
    BY <2>1, <1>3, <1>4
<1>6. CASE CallIdAssigned
  <2>1. SwitchKept /\ (mcl' = AbortScans \/ mcl' = mcl)
    BY <1>1, <1>6 DEF CallIdAssigned, keptVars, SwitchKept
  <2> QED
    BY <2>1, <1>4, CallBegins
<1>7. CASE (RedialModem \/ RedialInput) /\ ~CallIdAssigned
  <2>1. UNCHANGED << mcl, modemType, inSwitching, cur, settings >>
    BY <1>7 DEF RedialModem, RedialInput, DialAccepted, Resumed, EcbmEnds, CallDisconnected, SessionEnds,
                EmergencyDial, Hangup, DialFails, SetEccMode, ratKept, ratVars, keptVars, modemVars
  <2> QED
    BY <2>1, <1>3, <1>4
<1>8. CASE RatCalls
  <2>1. CASE SwitchAbortsScan
    <3> DEFINE r == [op |-> "abort", slot |-> ScanSlot, type |-> NoType]
    <3>1. SwitchKept /\ mcl' = Append(mcl, r)
      BY <1>1, <2>1 DEF SwitchAbortsScan, keptVars, SwitchKept
    <3>2. r \in Request /\ r.op = "abort"
      BY <2>1, ScanSlotType DEF Request, AnyType, RatTypes, SwitchAbortsScan
    <3> HIDE DEF r
    <3>3. << r >> \in Seq(Request) /\ \A i \in DOMAIN << r >> : << r >>[i].op = "abort"
      BY <3>2
    <3>4. mcl' = mcl \o << r >>
      BY <3>1, <3>2 DEF RatTypes
    <3> QED
      BY <3>1, <3>3, <3>4, AbortsAdded
  <2>2. CASE ~SwitchAbortsScan
    <3>1. UNCHANGED << mcl, modemType, inSwitching, cur, settings >>
      BY <1>8, <2>2 DEF RatCalls, SwitchWaits, SwitchRestricted, SwitchInCall, SwitchDone,
                        ProcessPending, FinishResponse, OnCallEnded, OnRestrictedModeChanged,
                        keptVars, modemVars
    <3> QED
      BY <3>1, <1>3, <1>4
  <2> QED
    BY <2>1, <2>2
<1>9. ASSUME NEW i \in DOMAIN mcl, ResponseGmss(i) PROVE SwitchKept /\ OneSwitch' /\ \A s \in Slots : Running(s)' <=> Running(s)
  <2>1. SwitchKept /\ mcl[i].op = "gmss" /\ mcl' = [mcl EXCEPT ![i].op = "set"]
    BY <1>1, <1>9 DEF ResponseGmss, Answered, keptVars, SwitchKept
  <2> QED
    BY <2>1, GmssAnswered
<1>10. ASSUME NEW i \in DOMAIN mcl, ResponseAbort(i) PROVE SwitchKept /\ OneSwitch' /\ \A s \in Slots : Running(s)' <=> Running(s)
  <2>1. SwitchKept /\ mcl[i].op = "abort" /\ mcl' = RemoveAt(mcl, i)
    BY <1>1, <1>10 DEF ResponseAbort, Answered, keptVars, SwitchKept
  <2> QED
    BY <2>1, AbortTaken
<1>11. ASSUME NEW s \in Slots, ScanStarts(s) \/ ScanEnds(s) \/ CallEnds(s)
       PROVE SwitchKept /\ UNCHANGED mcl
  BY <1>2, <1>11 DEF ScanStarts, ScanEnds, CallEnds, CallEndsThen
<1>12. ASSUME NEW s \in Slots, CallStarts(s)
       PROVE SwitchKept /\ OneSwitch' /\ \A z \in Slots : Running(z)' <=> Running(z)
  <2>1. SwitchKept /\ mcl' = AbortScans
    BY <1>1, <1>12 DEF CallStarts, keptVars, SwitchKept
  <2> QED
    BY <2>1, CallBegins
<1>13. ASSUME NEW s \in Slots, NEW t \in AskedTypes, SetPreferredNetworkType(s, t)
       PROVE SwitchKept /\ UNCHANGED mcl
  BY <1>3, <1>13 DEF SetPreferredNetworkType
<1>14. ASSUME NEW s \in Slots, NEW t \in AskedTypes, NEW b \in BOOLEAN, ModeSwitch(s, t, b)
       PROVE SwitchKept /\ UNCHANGED mcl
  <2>1. UNCHANGED << mcl, modemType, inSwitching, cur >>
    BY <1>14 DEF ModeSwitch, modemVars
  <2>2. settings' = settings \/ settings' = [settings EXCEPT ![s].def = t]
    BY <1>14 DEF ModeSwitch, SwitchInit
  <2>3. \A z \in Slots : settings'[z].type = settings[z].type
    <3> TAKE z \in Slots
    <3>1. settings[z] \in Setting /\ settings \in [Slots -> Setting]
      BY DEF RatTypes
    <3> QED
      BY <2>2, <3>1 DEF Setting
  <2> QED
    BY <1>1, <2>1, <2>3 DEF SwitchKept
<1> QED
  BY <1>1, <1>4, <1>5, <1>6, <1>7, <1>8, <1>9, <1>10, <1>11, <1>12, <1>13, <1>14
     DEF Steps, RatResponses, RatFails, SwitchEnds

(* One switch at a time is kept by every step. *)
LEMMA OneSwitchStep == RatTypes /\ OneSwitch /\ [Next]_allVars => OneSwitch'
<1> SUFFICES ASSUME RatTypes, OneSwitch, [Next]_allVars PROVE OneSwitch'
  OBVIOUS
<1>1. CASE UNCHANGED allVars
  <2>1. SwitchKept /\ UNCHANGED mcl
    BY <1>1 DEF allVars, vars, ratVars, keptVars, modemVars, SwitchKept
  <2> QED
    BY <2>1, ListKept
<1>2. CASE Next
  <2>1. inst' = inst
    BY <1>2 DEF Next
  <2> QED
    BY <1>2, <2>1, SwitchesStay, SwitchAdded, SwitchAnswered DEF SwitchEnds
<1> QED
  BY <1>1, <1>2
-----------------------------------------------------------------------------
(* Without an emergency call: the stack and the pending records *)

(* The first call has been made. *)
LEMMA Popped ==
  ASSUME RatTypes, PlainStack, stack # << >>, stack' = Rest
  PROVE  /\ PlainStack' /\ \A s, c : ~Switches(s, c)'
         /\ ~Restricting(TRUE)' /\ ~Restricting(FALSE)'
         /\ \A i \in DOMAIN stack : i # 1 => \E j \in DOMAIN stack' : stack'[j] = stack[i]
<1>1. /\ DOMAIN stack = 1 .. Len(stack) /\ Len(stack) \in Nat
      /\ DOMAIN stack' = 1 .. Len(stack) - 1
      /\ \A i \in 1 .. Len(stack) - 1 : stack'[i] = stack[i + 1]
  BY DEF RatTypes, Rest
<1>2. \A i \in DOMAIN stack' : /\ PlainFrame(stack'[i])
                               /\ stack'[i].op \notin {"switch", "restrictedMode"}
  BY <1>1 DEF PlainStack
<1>3. \A i \in DOMAIN stack : i # 1 => \E j \in DOMAIN stack' : stack'[j] = stack[i]
  <2> TAKE i \in DOMAIN stack
  <2> HAVE i # 1
  <2>1. i - 1 \in DOMAIN stack' /\ stack'[i - 1] = stack[i]
    BY <1>1
  <2> QED
    BY <2>1
<1>4. stack' # << >> => Top'.op \notin {"switch", "restrictedMode"}
  <2> SUFFICES ASSUME stack' # << >> PROVE Top'.op \notin {"switch", "restrictedMode"}
    OBVIOUS
  <2>1. stack' \in Seq(Frame)
    BY TopTypes
  <2>2. 1 \in DOMAIN stack' /\ Top' = stack'[1]
    BY <2>1 DEF Top
  <2> QED
    BY <1>2, <2>2
<1>5. PlainStack'
  BY <1>2 DEF PlainStack, PlainFrame
<1> QED
  BY <1>3, <1>4, <1>5 DEF Switches, Restricting

(* The call that has been made leaves another one. *)
LEMMA Pushed ==
  ASSUME RatTypes, PlainStack, stack # << >>, NEW f \in Frame, PlainFrame(f),
         stack' = << f >> \o Rest
  PROVE  /\ PlainStack' /\ stack' # << >> /\ Top' = f
         /\ \A s, c : Switches(s, c)' <=> f.op = "switch" /\ f.slot = s /\ f.caller = c
         /\ \A b : Restricting(b)' <=> f.op = "restrictedMode" /\ f.ok = b
         /\ 1 \in DOMAIN stack' /\ stack'[1] = f
         /\ \A i \in DOMAIN stack : i # 1 => \E j \in DOMAIN stack' : stack'[j] = stack[i]
<1>1. /\ Rest \in Seq(Frame) /\ DOMAIN Rest = 1 .. Len(stack) - 1 /\ Len(Rest) = Len(stack) - 1
      /\ DOMAIN stack = 1 .. Len(stack) /\ Len(stack) \in Nat
      /\ \A i \in 1 .. Len(stack) - 1 : Rest[i] = stack[i + 1]
  BY DEF RatTypes, Rest
<1>2. /\ DOMAIN stack' = 1 .. Len(stack) /\ stack' \in Seq(Frame)
      /\ stack'[1] = f /\ \A i \in 2 .. Len(stack) : stack'[i] = Rest[i - 1]
  <2>1. << f >> \in Seq(Frame) /\ Len(<< f >>) = 1 /\ << f >>[1] = f
    OBVIOUS
  <2>2. /\ Len(<< f >> \o Rest) = 1 + Len(Rest) /\ << f >> \o Rest \in Seq(Frame)
        /\ \A i \in 1 .. 1 + Len(Rest) :
             (<< f >> \o Rest)[i] = IF i <= 1 THEN << f >>[i] ELSE Rest[i - 1]
    BY <1>1, <2>1, ConcatProperties
  <2>3. Len(stack) >= 1
    BY DEF RatTypes
  <2> QED
    BY <1>1, <2>1, <2>2, <2>3
<1>3. \A i \in 2 .. Len(stack) : stack'[i] = stack[i]
  BY <1>1, <1>2
<1>4. stack' # << >> /\ Top' = f /\ 1 \in DOMAIN stack'
  <2>1. Len(stack) >= 1
    BY DEF RatTypes
  <2> QED
    BY <1>1, <1>2, <2>1 DEF Top
<1>5. PlainStack'
  BY <1>1, <1>2, <1>3 DEF PlainStack, PlainFrame
<1>6. \A i \in DOMAIN stack : i # 1 => \E j \in DOMAIN stack' : stack'[j] = stack[i]
  BY <1>1, <1>2, <1>3
<1> QED
  BY <1>2, <1>4, <1>5, <1>6 DEF Switches, Restricting

\* The records with one put into its place, and with one taken out
Put(s, c, r)  == [pend EXCEPT ![s][c] = r, ![s]["restrict"].type = NoType]
Taken(s, c)   == [pend EXCEPT ![s][c].type = NoType]

(* A record is put into its place. *)
LEMMA RecordPut ==
  ASSUME RatTypes, NoEmergency, NEW s \in Slots, NEW c \in {"normal", "init"}, NEW r \in Record,
         r.act = "none", pend' = Put(s, c, r)
  PROVE  /\ \A z \in Slots, d \in {"normal", "init"} :
              pend'[z][d].type = IF z = s /\ d = c THEN r.type ELSE pend[z][d].type
         /\ \A z \in Slots : /\ pend'[z]["restrict"].type = NoType
                             /\ \A d \in Callers : pend'[z][d].act = "none"
<1>1. pend \in [Slots -> [Callers -> Record]] /\ {"normal", "init", "restrict"} = Callers
  BY DEF RatTypes, Callers
<1>2. pend[s] \in [Callers -> Record] /\ pend[s]["restrict"] \in Record
  BY <1>1
<1>3. /\ pend'[s][c] = r
      /\ \A z \in Slots, d \in Callers : (z # s \/ d \notin {c, "restrict"}) => pend'[z][d] = pend[z][d]
      /\ pend'[s]["restrict"] = [pend[s]["restrict"] EXCEPT !.type = NoType]
  BY <1>1, <1>2 DEF Put
<1>4. pend'[s]["restrict"].type = NoType /\ pend'[s]["restrict"].act = pend[s]["restrict"].act
  BY <1>2, <1>3 DEF Record
<1>5. \A z \in Slots : pend[z]["restrict"].type = NoType /\ \A d \in Callers : pend[z][d].act = "none"
  BY DEF NoEmergency
<1>6. ASSUME NEW z \in Slots, NEW d \in {"normal", "init"}
      PROVE  pend'[z][d].type = IF z = s /\ d = c THEN r.type ELSE pend[z][d].type
  BY <1>1, <1>3, <1>4, <1>6
<1>7. ASSUME NEW z \in Slots PROVE pend'[z]["restrict"].type = NoType
  BY <1>1, <1>3, <1>4, <1>5
<1>8. ASSUME NEW z \in Slots, NEW d \in Callers PROVE pend'[z][d].act = "none"
  <2>1. CASE z # s \/ d \notin {c, "restrict"}
    BY <1>3, <1>5, <2>1
  <2>2. CASE z = s /\ d = c
    BY <1>3, <2>2
  <2>3. CASE z = s /\ d = "restrict"
    BY <1>4, <1>5, <2>3
  <2> QED
    BY <2>1, <2>2, <2>3
<1> QED
  BY <1>6, <1>7, <1>8

(* A record is taken out. *)
LEMMA RecordTaken ==
  ASSUME RatTypes, NoEmergency, NEW s \in Slots, NEW c \in {"normal", "init"},
         pend' = Taken(s, c)
  PROVE  /\ \A z \in Slots, d \in {"normal", "init"} :
              pend'[z][d].type = IF z = s /\ d = c THEN NoType ELSE pend[z][d].type
         /\ \A z \in Slots : /\ pend'[z]["restrict"].type = NoType
                             /\ \A d \in Callers : pend'[z][d].act = "none"
<1>1. pend \in [Slots -> [Callers -> Record]] /\ {"normal", "init", "restrict"} = Callers
  BY DEF RatTypes, Callers
<1>2. pend[s] \in [Callers -> Record] /\ pend[s][c] \in Record
  BY <1>1
<1>3. /\ pend'[s][c] = [pend[s][c] EXCEPT !.type = NoType]
      /\ \A z \in Slots, d \in Callers : (z # s \/ d # c) => pend'[z][d] = pend[z][d]
  BY <1>1, <1>2 DEF Taken
<1>4. pend'[s][c].type = NoType /\ pend'[s][c].act = pend[s][c].act
  BY <1>2, <1>3 DEF Record
<1>5. \A z \in Slots : pend[z]["restrict"].type = NoType /\ \A d \in Callers : pend[z][d].act = "none"
  BY DEF NoEmergency
<1>6. ASSUME NEW z \in Slots, NEW d \in {"normal", "init"}
      PROVE  pend'[z][d].type = IF z = s /\ d = c THEN NoType ELSE pend[z][d].type
  BY <1>1, <1>3, <1>4, <1>6
<1>7. ASSUME NEW z \in Slots PROVE pend'[z]["restrict"].type = NoType
  BY <1>1, <1>3, <1>4, <1>5
<1>8. ASSUME NEW z \in Slots, NEW d \in Callers PROVE pend'[z][d].act = "none"
  <2>1. CASE z # s \/ d # c
    BY <1>3, <1>5, <2>1
  <2>2. CASE z = s /\ d = c
    BY <1>4, <1>5, <2>2
  <2> QED
    BY <2>1, <2>2
<1> QED
  BY <1>6, <1>7, <1>8

(* Then only the normal and the init record can wait. *)
LEMMA PlainPending ==
  ASSUME NoEmergency, NEW s \in Slots
  PROVE  HasPending(s) <=> pend[s]["normal"].type # NoType \/ pend[s]["init"].type # NoType
BY DEF NoEmergency, HasPending, Callers
-----------------------------------------------------------------------------
(* Without an emergency call: what a step can be *)

(* The redial controller and the scans have nothing to do. *)
LEMMA PlainSteps ==
  ASSUME RatTypes, Plain, NoEmergency, Next
  PROVE  /\ inst' = inst
         /\ \/ \E on \in BOOLEAN : SetEccMode(on)
            \/ OnRatSwitchDone
            \/ /\ UNCHANGED redialVars
               /\ \/ RatCalls /\ ~SwitchAbortsScan
                  \/ RatFails
                  \/ \E i \in DOMAIN mcl : ResponseGmss(i) \/ ResponseSet(i)
                  \/ \E s \in Slots : CallStarts(s) \/ CallEnds(s)
                  \/ \E s \in Slots, t \in AskedTypes : SetPreferredNetworkType(s, t)
                  \/ \E s \in Slots, t \in AskedTypes, b \in BOOLEAN : ModeSwitch(s, t, b)
<1>1. inst' = inst /\ Steps
  BY DEF Next
<1>2. inst.dial = 0 /\ inst.scan = 0 /\ dial = "none" /\ mdCall = "none" /\ ~mdDue /\ ~mdEcbm
      /\ ~resumed /\ mo = "none" /\ dials = 0 /\ scanning = {} /\ scans = 0
  BY DEF Plain, NoEmergency
<1>3. \A i \in DOMAIN mcl : ~ResponseAbort(i)
  BY DEF NoEmergency, ResponseAbort, Answered
<1>4. ~SwitchAbortsScan /\ \A s \in Slots : ~ScanStarts(s) /\ ~ScanEnds(s)
  BY <1>2 DEF SwitchAbortsScan, ScanStarts, ScanEnds, MaxScan
<1>5. ~RedialModem
  BY <1>2 DEF RedialModem, DialAccepted, CallIdAssigned, Resumed, EcbmEnds, CallDisconnected, SessionEnds
<1>6. RedialInput => \E on \in BOOLEAN : SetEccMode(on)
  BY <1>2 DEF RedialInput, EmergencyDial, Hangup, DialFails, CallDisconnected, MaxDial
<1>7. ~RedialCalls
  <2>1. stack # << >> => PlainFrame(Top)
    <3> SUFFICES ASSUME stack # << >> PROVE PlainFrame(Top)
      OBVIOUS
    <3>1. 1 \in DOMAIN stack /\ Top = stack[1]
      BY DEF RatTypes, Top
    <3> QED
      BY <3>1 DEF NoEmergency, PlainStack
  <2> QED
    BY <2>1 DEF PlainFrame, RedialCalls, RatModeUnchanged, RatModePending, RatModeGlobal, RatModeResume,
                RatIsGlobal, RatIsResumed, EmergencyOff, ForceReleaseEmergency, NoCall,
                OnCallCountChanged, Calls
<1> QED
  BY <1>1, <1>3, <1>4, <1>5, <1>6, <1>7 DEF Steps, RatResponses

(* The call the main thread makes is one of those. *)
LEMMA PlainTop ==
  ASSUME RatTypes, PlainStack, stack # << >>
  PROVE  PlainFrame(Top) /\ 1 \in DOMAIN stack /\ Top = stack[1] /\ DOMAIN stack = 1 .. Len(stack)
<1>1. 1 \in DOMAIN stack /\ Top = stack[1] /\ DOMAIN stack = 1 .. Len(stack)
  BY DEF RatTypes, Top
<1> QED
  BY <1>1 DEF PlainStack

(* A slot that no step is about: what is right of it stays right. *)
LEMMA RightKept ==
  ASSUME NEW s \in Slots, LastIsRight(s),
         \A c \in Callers : ~Switches(s, c) /\ ~Switches(s, c)',
         riljType'[s] = riljType[s], def'[s] = def[s], cur'[s] = cur[s],
         settings'[s].type = settings[s].type, settings'[s].caller = settings[s].caller,
         settings'[s].def = settings[s].def,
         \A c \in {"normal", "init"} : pend'[s][c].type = pend[s][c].type,
         Running(s)' <=> Running(s)
  PROVE  LastIsRight(s)'
<1>1. \A d : InitTarget(s, d)' = InitTarget(s, d)
  BY DEF InitTarget
<1>2. LastInit(s)' = LastInit(s)
  BY DEF LastInit, InitTarget
<1> QED
  BY <1>1, <1>2 DEF LastIsRight, Callers

(* The redial controller and the scans stay where they are. *)
LEMMA NoEmergencyKept ==
  ASSUME NoEmergency, inst' = inst, UNCHANGED << redialVars, scanning, scans, restrictedMode >>,
         \A i \in DOMAIN mcl' : mcl'[i].op # "abort", PlainStack',
         \A s \in Slots : settings'[s].act = "none" /\ settings'[s].caller # "restrict",
         \A s \in Slots : pend'[s]["restrict"].type = NoType /\ \A c \in Callers : pend'[s][c].act = "none"
  PROVE  NoEmergency'
BY DEF NoEmergency, redialVars, rdKept, rdCall, Slots

(* SET_ECC_MODE's part stays as it is too, if its callback is not made. *)
LEMMA EccKept ==
  ASSUME EccRestricts, inst' = inst, UNCHANGED << redialVars, restrictedCount >>,
         ~Restricting(TRUE), ~Restricting(FALSE), ~Restricting(TRUE)', ~Restricting(FALSE)'
  PROVE  EccRestricts'
BY DEF EccRestricts, redialVars, rdKept, rdMode, Slots, EcbmRestricts

(* A switch that may run is not blocked. *)
LEMMA NotBlocked ==
  ASSUME RatTypes, Plain, EccRestricts, NEW f \in Frame, f.caller # "restrict", MayRun(f)
  PROVE  ~Blocked
<1>1. ~inSwitching /\ ~InCall /\ ~(restrictedCount[f.slot] > 0)
  BY DEF MayRun, MustWait, Restricted
<1>2. f.slot \in Slots
  BY DEF Frame
<1>3. ASSUME NEW s \in Slots, restrictedCount[s] > 0 PROVE FALSE
  <2>1. restrictedCount[s] = 1 /\ Slots = {0}
    BY <1>3 DEF EccRestricts
  <2>2. f.slot = s
    BY <1>2, <2>1
  <2> QED
    BY <1>1, <1>3, <2>2
<1> QED
  BY <1>1, <1>3 DEF Blocked
-----------------------------------------------------------------------------
(* Without an emergency call: the last switch of a slot is right *)

(* The calls that follow a switch are no switches. *)
LEMMA PlainCalls ==
  ASSUME inst \in Instances, NEW s \in Slots
  PROVE  /\ Process(s) \in Frame /\ PlainFrame(Process(s)) /\ Process(s).op = "process"
         /\ Finish(s) \in Frame /\ PlainFrame(Finish(s)) /\ Finish(s).op = "finish"
         /\ \A e \in Errors : /\ Signal(s, e) \in Frame /\ PlainFrame(Signal(s, e))
                              /\ Signal(s, e).op = "signal"
<1>1. /\ Process(s).op = "process" /\ Process(s).act = "none"
      /\ Finish(s).op = "finish" /\ Finish(s).act = "none"
      /\ \A e : Signal(s, e).op = "signal" /\ Signal(s, e).act = "none"
  BY FrameFields
<1>2. PlainFrame(Process(s)) /\ PlainFrame(Finish(s)) /\ \A e : PlainFrame(Signal(s, e))
  BY <1>1 DEF PlainFrame
<1> QED
  BY <1>1, <1>2, FrameTypes

(* One of them takes the place of the call that is made. *)
LEMMA PushedOther ==
  ASSUME RatTypes, PlainStack, stack # << >>, NEW f \in Frame, PlainFrame(f),
         f.op \notin {"switch", "restrictedMode"}, stack' = << f >> \o Rest
  PROVE  /\ PlainStack' /\ \A z, d : ~Switches(z, d)'
         /\ ~Restricting(TRUE)' /\ ~Restricting(FALSE)'
         /\ 1 \in DOMAIN stack' /\ stack'[1] = f
<1>1. /\ PlainStack' /\ 1 \in DOMAIN stack' /\ stack'[1] = f
      /\ \A z, d : Switches(z, d)' <=> f.op = "switch" /\ f.slot = z /\ f.caller = d
      /\ \A b : Restricting(b)' <=> f.op = "restrictedMode" /\ f.ok = b
  BY Pushed
<1>2. \A z, d : ~Switches(z, d)'
  BY <1>1
<1> QED
  BY <1>1, <1>2

(* switchNwRat puts the switch into the record of its caller: another switch runs, or
   the slot is in an emergency, or a call goes on. *)
LEMMA SwitchPutOff ==
  ASSUME RatTypes, OneSwitch, OneSwitch', LastSwitch, inst' = inst, UNCHANGED redialVars,
         \A s \in Slots : Running(s)' <=> Running(s),
         stack # << >>, Top.op = "switch", stack' = Rest, NEW r \in Record,
         r.type = Top.type, r.act = "none",
         pend' = Put(Top.slot, Top.caller, r),
         UNCHANGED << keptVars, modemVars, boundVars, failed >>, Blocked
  PROVE  LastSwitch'
<1> DEFINE s == Top.slot
           c == Top.caller
<1>1. /\ s \in Slots /\ c \in {"normal", "init"} /\ Top.type # NoType /\ Slots' = Slots
  BY TopTypes, PlainTop DEF LastSwitch, NoEmergency, PlainFrame, Callers, Slots
<1>2. /\ PlainStack' /\ \A z, d : ~Switches(z, d)'
      /\ ~Restricting(TRUE)' /\ ~Restricting(FALSE)' /\ ~Restricting(TRUE) /\ ~Restricting(FALSE)
  BY Popped DEF LastSwitch, NoEmergency, Restricting
<1>3. /\ \A z \in Slots, d \in {"normal", "init"} :
           pend'[z][d].type = IF z = s /\ d = c THEN Top.type ELSE pend[z][d].type
      /\ \A z \in Slots : /\ pend'[z]["restrict"].type = NoType
                          /\ \A d \in Callers : pend'[z][d].act = "none"
  BY <1>1, RecordPut DEF LastSwitch
<1>4. UNCHANGED << inSwitching, cur, def, settings, restrictedMode, restrictedCount, riljType, calls,
                   scanning, scans, mcl, failed >>
  BY DEF keptVars, modemVars, boundVars
<1>5. NoEmergency'
  BY <1>2, <1>3, <1>4, NoEmergencyKept DEF LastSwitch, NoEmergency
<1>6. EccRestricts'
  BY <1>2, <1>4, EccKept DEF LastSwitch
<1>7. Blocked'
  BY <1>1, <1>4 DEF Blocked, InCall
<1>8. ASSUME NEW z \in Slots \ failed PROVE LastIsRight(z)'
  <2>1. LastIsRight(z)
    BY <1>8 DEF LastSwitch
  <2>2. LastInit(z)' = LastInit(z) /\ InitTarget(z, def[z])' = InitTarget(z, def[z])
    BY <1>4 DEF LastInit, InitTarget
  <2>3. CASE z # s
    <3>1. \A d \in Callers : ~Switches(z, d) /\ ~Switches(z, d)'
      BY <1>2, <2>3 DEF Switches
    <3> QED
      BY <1>3, <1>4, <1>8, <2>1, <2>3, <3>1, RightKept
  <2>4. CASE z = s /\ c = "normal"
    <3>1. Switches(z, "normal") /\ Top.type = riljType[z]
      BY <2>1, <2>4 DEF Switches, LastIsRight
    <3> QED
      BY <1>1, <1>2, <1>3, <1>4, <2>4, <3>1 DEF LastIsRight
  <2>5. CASE z = s /\ c = "init"
    <3>1. Switches(z, "init") /\ ~Switches(z, "normal")
      BY <2>5 DEF Switches
    <3>2. /\ pend[z]["normal"].type \in {NoType, riljType[z]}
          /\ pend[z]["normal"].type = NoType => Top.type = LastInit(z)
      BY <2>1, <3>1 DEF LastIsRight
    <3> QED
      BY <1>1, <1>2, <1>3, <1>4, <2>2, <2>5, <3>2 DEF LastIsRight
  <2> QED
    BY <1>1, <2>3, <2>4, <2>5
<1> QED
  BY <1>1, <1>2, <1>4, <1>5, <1>6, <1>7, <1>8 DEF LastSwitch, Woken, NotPassed

(* The call is done with, and no record and no switch has changed: something else waits
   for its turn as before, unless it was waiting for this very call. *)
LEMMA CallMade ==
  ASSUME RatTypes, OneSwitch', LastSwitch, inst' = inst, UNCHANGED redialVars,
         \A s \in Slots : Running(s)' <=> Running(s),
         stack # << >>, Top.op # "switch",
         \/ stack' = Rest
         \/ \E s \in Slots : stack' = << Process(s) >> \o Rest,
         UNCHANGED << pend, inSwitching, cur, def, settings, restrictedMode, modemVars, boundVars, failed >>,
         stack' = Rest => \/ Blocked'
                          \/ \A s \in Slots : ~HasPending(s)
                          \/ /\ Top.op \notin {"switch", "process"} /\ (~Blocked' => ~Blocked)
                             /\ Top.op = "callEnded" => ~HasPending(Top.slot)
  PROVE  /\ NoEmergency' /\ Woken' /\ NotPassed' /\ \A s \in Slots \ failed : LastIsRight(s)'
         /\ ~Restricting(TRUE)' /\ ~Restricting(FALSE)'
<1>1. NoEmergency /\ PlainStack /\ Woken /\ Slots' = Slots /\ inst \in Instances
  BY DEF LastSwitch, NoEmergency, Slots, RatTypes
<1>2. /\ PlainStack' /\ \A z, d : ~Switches(z, d)' /\ ~Restricting(TRUE)' /\ ~Restricting(FALSE)'
      /\ \A i \in DOMAIN stack : i # 1 => \E j \in DOMAIN stack' : stack'[j] = stack[i]
      /\ stack' # Rest => \E j \in DOMAIN stack' : stack'[j].op = "process"
  <2>1. CASE stack' = Rest
    BY <1>1, <2>1, Popped
  <2>2. ASSUME NEW s \in Slots, stack' = << Process(s) >> \o Rest
        PROVE  /\ PlainStack' /\ \A z, d : ~Switches(z, d)' /\ ~Restricting(TRUE)' /\ ~Restricting(FALSE)'
               /\ \A i \in DOMAIN stack : i # 1 => \E j \in DOMAIN stack' : stack'[j] = stack[i]
               /\ \E j \in DOMAIN stack' : stack'[j].op = "process"
    <3> DEFINE f == Process(s)
    <3>1. f \in Frame /\ PlainFrame(f) /\ f.op = "process"
      BY <1>1, PlainCalls
    <3>2. stack' = << f >> \o Rest
      BY <2>2
    <3> HIDE DEF f
    <3>3. \A i \in DOMAIN stack : i # 1 => \E j \in DOMAIN stack' : stack'[j] = stack[i]
      BY <1>1, <3>1, <3>2, Pushed
    <3> QED
      BY <1>1, <3>1, <3>2, <3>3, PushedOther
  <2> QED
    BY <2>1, <2>2
<1>3. NoEmergency'
  BY <1>1, <1>2, NoEmergencyKept DEF NoEmergency, modemVars, boundVars
<1>4. \A s \in Slots : HasPending(s)' <=> HasPending(s)
  BY DEF HasPending
<1>5. Woken'
  <2> SUFFICES ASSUME ~Blocked', NEW s \in Slots, HasPending(s)
               PROVE  \E i \in DOMAIN stack' : \/ stack'[i].op \in {"switch", "process"}
                                               \/ stack'[i].op = "callEnded" /\ stack'[i].slot = s
    BY <1>1, <1>4 DEF Woken
  <2>1. CASE stack' # Rest
    BY <1>2, <2>1
  <2>2. CASE stack' = Rest
    <3>1. Top.op \notin {"switch", "process"} /\ ~Blocked /\ (Top.op = "callEnded" => Top.slot # s)
      BY <2>2
    <3>2. PICK i \in DOMAIN stack : \/ stack[i].op \in {"switch", "process"}
                                    \/ stack[i].op = "callEnded" /\ stack[i].slot = s
      BY <1>1, <3>1 DEF Woken
    <3>3. i # 1
      BY <1>1, <3>1, <3>2, PlainTop
    <3> QED
      BY <1>2, <3>2, <3>3
  <2> QED
    BY <2>1, <2>2
<1>6. NotPassed'
  BY <1>2 DEF NotPassed
<1>7. ASSUME NEW z \in Slots \ failed PROVE LastIsRight(z)'
  <2>1. LastIsRight(z) /\ \A d \in Callers : ~Switches(z, d) /\ ~Switches(z, d)'
    BY <1>2, <1>7 DEF LastSwitch, Switches
  <2> QED
    BY <1>7, <2>1, RightKept DEF modemVars
<1> QED
  BY <1>2, <1>3, <1>5, <1>6, <1>7

(* switchNwRat of a switch that has to wait, for another one ... *)
LEMMA WaitsKept ==
  ASSUME RatTypes, OneSwitch, OneSwitch', LastSwitch, inst' = inst, UNCHANGED redialVars,
         \A s \in Slots : Running(s)' <=> Running(s), SwitchWaits
  PROVE  LastSwitch'
<1> DEFINE r == [type |-> Top.type, act |-> Top.act, msg |-> Top.msg]
<1>1. stack # << >> /\ Top.op = "switch" /\ stack' = Rest /\ inSwitching
  BY DEF SwitchWaits, Calls, MustWait
<1>2. Top \in Frame /\ Top.caller # "restrict" /\ Top.act = "none"
  BY <1>1, TopTypes, PlainTop DEF LastSwitch, NoEmergency, PlainFrame
<1>3. r \in Record /\ r.type = Top.type /\ r.act = "none"
  BY <1>2 DEF Frame, Record, AnyType
<1>4. pend' = Put(Top.slot, Top.caller, r)
  BY <1>2 DEF SwitchWaits, QueueRecord, Put
<1>5. UNCHANGED << keptVars, modemVars, boundVars, failed >>
  BY DEF SwitchWaits
<1> HIDE DEF r
<1> QED
  BY <1>1, <1>3, <1>4, <1>5, SwitchPutOff DEF Blocked

(* ... for the end of the emergency ... *)
LEMMA RestrictedKept ==
  ASSUME RatTypes, OneSwitch, OneSwitch', LastSwitch, inst' = inst, UNCHANGED redialVars,
         \A s \in Slots : Running(s)' <=> Running(s), SwitchRestricted
  PROVE  LastSwitch'
<1> DEFINE r == [NoRecord EXCEPT !.type = Top.type]
<1>1. stack # << >> /\ Top.op = "switch" /\ stack' = Acted(Top.slot, Top.act) \o Rest
  BY DEF SwitchRestricted, Calls
<1>2. Top \in Frame /\ Top.slot \in Slots /\ Top.caller \in {"normal", "init"} /\ Top.act = "none"
  BY <1>1, TopTypes, PlainTop DEF LastSwitch, NoEmergency, PlainFrame, Callers
<1>3. r \in Record /\ r.type = Top.type /\ r.act = "none"
  <2>1. r \in Record
    BY <1>1, TopTypes, RecordTypes DEF RatTypes
  <2> QED
    BY <2>1 DEF NoRecord
<1>4. pend' = Put(Top.slot, Top.caller, r)
  BY <1>2 DEF SwitchRestricted, Put
<1>5. UNCHANGED << keptVars, modemVars, boundVars, failed >>
  BY DEF SwitchRestricted
<1>6. stack' = Rest
  BY <1>1, <1>2 DEF Acted, RatTypes, Rest
<1>7. Blocked
  BY <1>2 DEF SwitchRestricted, Restricted, Blocked, LastSwitch, NoEmergency
<1> HIDE DEF r
<1> QED
  BY <1>1, <1>3, <1>4, <1>5, <1>6, <1>7, SwitchPutOff

(* ... for the end of a call; the mode controller's is refused. *)
LEMMA InCallKept ==
  ASSUME RatTypes, OneSwitch, OneSwitch', LastSwitch, inst' = inst, UNCHANGED redialVars,
         \A s \in Slots : Running(s)' <=> Running(s), SwitchInCall
  PROVE  LastSwitch'
<1>1. stack # << >> /\ Top.op = "switch" /\ InCall /\ UNCHANGED << keptVars, modemVars, boundVars >>
  BY DEF SwitchInCall, Calls
<1>2. Top \in Frame /\ Top.slot \in Slots /\ Top.caller \in {"normal", "init"} /\ Top.act = "none"
  BY <1>1, TopTypes, PlainTop DEF LastSwitch, NoEmergency, PlainFrame, Callers
<1>3. CASE Top.caller = "normal"
  <2> DEFINE r == [NoRecord EXCEPT !.type = Top.type]
  <2>1. r \in Record
    BY <1>1, TopTypes, RecordTypes DEF RatTypes
  <2>2. r.type = Top.type /\ r.act = "none"
    BY <2>1 DEF NoRecord
  <2>3. pend' = Put(Top.slot, Top.caller, r) /\ stack' = Acted(Top.slot, Top.act) \o Rest
        /\ failed' = failed
    BY <1>2, <1>3 DEF SwitchInCall, Put
  <2>4. stack' = Rest
    BY <1>1, <1>2, <2>3 DEF Acted, RatTypes, Rest
  <2> HIDE DEF r
  <2> QED
    BY <1>1, <2>1, <2>2, <2>3, <2>4, SwitchPutOff DEF Blocked
<1>4. CASE Top.caller = "init"
  <2> DEFINE f == Signal(Top.slot, "not_allowed")
  <2>1. stack' = << f >> \o Rest /\ failed' = failed \cup {Top.slot} /\ pend' = pend
    BY <1>4 DEF SwitchInCall
  <2>2. f \in Frame /\ PlainFrame(f) /\ f.op = "signal"
    <3>1. "not_allowed" \in Errors /\ inst \in Instances
      BY DEF Errors, RatTypes
    <3> QED
      BY <1>2, <3>1, PlainCalls
  <2> HIDE DEF f
  <2>3. /\ PlainStack' /\ \A z, d : ~Switches(z, d)'
        /\ ~Restricting(TRUE)' /\ ~Restricting(FALSE)' /\ ~Restricting(TRUE) /\ ~Restricting(FALSE)
    <3>1. PlainStack /\ ~Restricting(TRUE) /\ ~Restricting(FALSE)
      BY <1>1 DEF Restricting, LastSwitch, NoEmergency
    <3> QED
      BY <1>1, <2>1, <2>2, <3>1, PushedOther
  <2>4. UNCHANGED << inSwitching, cur, def, settings, restrictedMode, restrictedCount, riljType, calls,
                     scanning, scans, mcl >> /\ Slots' = Slots
    BY <1>1 DEF keptVars, modemVars, boundVars, Slots
  <2>5. NoEmergency' /\ EccRestricts' /\ Blocked'
    <3>1. NoEmergency'
      BY <2>1, <2>3, <2>4, NoEmergencyKept DEF LastSwitch, NoEmergency
    <3>2. EccRestricts'
      BY <2>3, <2>4, EccKept DEF LastSwitch
    <3>3. Blocked'
      BY <1>1, <2>4 DEF Blocked, InCall
    <3> QED
      BY <3>1, <3>2, <3>3
  <2>6. ASSUME NEW z \in Slots \ failed' PROVE LastIsRight(z)'
    <3>1. z # Top.slot /\ z \in Slots \ failed /\ LastIsRight(z)
      BY <2>1, <2>6 DEF LastSwitch
    <3>2. \A d \in Callers : ~Switches(z, d) /\ ~Switches(z, d)'
      BY <2>3, <3>1 DEF Switches
    <3> QED
      BY <2>1, <2>4, <3>1, <3>2, RightKept
  <2> QED
    BY <2>3, <2>4, <2>5, <2>6 DEF LastSwitch, Woken, NotPassed
<1> QED
  BY <1>2, <1>3, <1>4

(* A switch that may run, of a slot the framework or the mode controller set last: nothing
   of the slot runs or waits that is to run before it. *)
LEMMA RunsNext ==
  ASSUME RatTypes, OneSwitch, Plain, LastSwitch, stack # << >>, Top.op = "switch", MayRun(Top),
         NEW s \in Slots, s = Top.slot, s \notin failed
  PROVE  /\ ~Blocked /\ ~inSwitching /\ (\A z \in Slots : ~Running(z)) /\ Top.caller \in {"normal", "init"}
         /\ pend[s]["init"].type = NoType
         /\ Top.caller = "normal" =>
              /\ pend[s]["normal"].type = NoType /\ Target(Top) = Filter(s, riljType[s])
              /\ def[s] # NoType => Target(Top) = InitTarget(s, def[s])
         /\ Top.caller = "init" =>
              /\ pend[s]["normal"].type \in {NoType, riljType[s]}
              /\ pend[s]["normal"].type = NoType => Target(Top) = LastInit(s)
<1>1. Top \in Frame /\ Top.caller \in {"normal", "init"}
  BY TopTypes, PlainTop DEF LastSwitch, NoEmergency, PlainFrame, Callers
<1>2. ~Blocked
  BY <1>1, NotBlocked DEF LastSwitch
<1>3. ~inSwitching /\ \A z \in Slots : ~Running(z)
  BY <1>2 DEF Blocked, OneSwitch, Running
<1>4. \A d : Switches(s, d) <=> Top.caller = d
  BY DEF Switches
<1>5. pend[s]["init"].type = NoType /\ (Top.caller = "normal" => pend[s]["normal"].type = NoType)
  BY <1>1, <1>2, <1>4 DEF LastSwitch, NotPassed
<1>6. LastIsRight(s)
  BY DEF LastSwitch
<1>7. ASSUME Top.caller = "normal"
      PROVE  /\ Target(Top) = Filter(s, riljType[s])
             /\ def[s] # NoType => Target(Top) = InitTarget(s, def[s])
  <2>1. Target(Top) = Filter(s, riljType[s])
    BY <1>4, <1>6, <1>7 DEF LastIsRight, Target
  <2> QED
    BY <2>1 DEF Filter, InitTarget
<1>8. ASSUME Top.caller = "init"
      PROVE  /\ pend[s]["normal"].type \in {NoType, riljType[s]}
             /\ pend[s]["normal"].type = NoType => Target(Top) = LastInit(s)
  <2>1. Switches(s, "init") /\ ~Switches(s, "normal") /\ Target(Top) = Top.type
    BY <1>4, <1>8 DEF Target
  <2> QED
    BY <1>6, <2>1 DEF LastIsRight
<1> QED
  BY <1>1, <1>2, <1>3, <1>5, <1>7, <1>8

(* A switch to what the slot runs, or to nothing the slot can do, is done at once. *)
LEMMA DoneKept ==
  ASSUME RatTypes, OneSwitch, OneSwitch', Plain, LastSwitch, inst' = inst, UNCHANGED redialVars,
         \A s \in Slots : Running(s)' <=> Running(s), SwitchDone
  PROVE  LastSwitch'
<1> DEFINE f == Process(Top.slot)
<1>1. /\ stack # << >> /\ Top.op = "switch" /\ MayRun(Top)
      /\ UNCHANGED << keptVars, pend, modemVars, boundVars >>
  BY DEF SwitchDone, Calls
<1>2. Top \in Frame /\ Top.slot \in Slots /\ Top.caller \in {"normal", "init"} /\ Top.act = "none"
      /\ Rest \in Seq(Frame)
  BY <1>1, TopTypes, PlainTop DEF LastSwitch, NoEmergency, PlainFrame, Callers
<1>3. f \in Frame /\ PlainFrame(f) /\ f.op = "process"
  BY <1>2, PlainCalls DEF RatTypes
<1>4. stack' = << f >> \o Rest
  <2>1. << f >> \in Seq(Frame)
    BY <1>3
  <2>2. << >> \o << f >> = << f >>
    BY <2>1
  <2>3. \/ stack' = << f >> \o Rest
        \/ stack' = Acted(Top.slot, Top.act) \o << f >> \o Rest
    BY DEF SwitchDone
  <2> QED
    BY <1>2, <2>2, <2>3 DEF Acted
<1> HIDE DEF f
<1>5. /\ PlainStack' /\ \A z, d : ~Switches(z, d)'
      /\ ~Restricting(TRUE)' /\ ~Restricting(FALSE)' /\ ~Restricting(TRUE) /\ ~Restricting(FALSE)
      /\ \E i \in DOMAIN stack' : stack'[i].op = "process"
  <2>1. PlainStack /\ ~Restricting(TRUE) /\ ~Restricting(FALSE)
    BY <1>1 DEF Restricting, LastSwitch, NoEmergency
  <2> QED
    BY <1>1, <1>3, <1>4, <2>1, PushedOther
<1>6. UNCHANGED << inSwitching, cur, def, settings, restrictedMode, restrictedCount, riljType, calls,
                   scanning, scans, mcl, pend >> /\ Slots' = Slots /\ failed \subseteq failed'
  BY <1>1 DEF keptVars, modemVars, boundVars, Slots, SwitchDone
<1>7. NoEmergency' /\ EccRestricts'
  <2>1. NoEmergency'
    BY <1>5, <1>6, NoEmergencyKept DEF LastSwitch, NoEmergency
  <2>2. EccRestricts'
    BY <1>5, <1>6, EccKept DEF LastSwitch
  <2> QED
    BY <2>1, <2>2
<1>8. ASSUME NEW z \in Slots \ failed' PROVE LastIsRight(z)'
  <2>1. z \in Slots \ failed /\ LastIsRight(z)
    BY <1>6, <1>8 DEF LastSwitch
  <2>2. CASE z # Top.slot
    <3>1. \A d \in Callers : ~Switches(z, d) /\ ~Switches(z, d)'
      BY <1>5, <2>2 DEF Switches
    <3> QED
      BY <1>6, <2>1, <3>1, RightKept
  <2>3. CASE z = Top.slot
    <3>1. Target(Top) = cur[z] /\ Top.caller # "init"
      BY <1>2, <1>8, <2>3 DEF SwitchDone
    <3>2. /\ ~Running(z) /\ pend[z]["init"].type = NoType /\ pend[z]["normal"].type = NoType
          /\ def[z] # NoType => cur[z] = InitTarget(z, def[z])
      BY <1>1, <1>2, <2>1, <2>3, <3>1, RunsNext
    <3>3. InitTarget(z, def[z])' = InitTarget(z, def[z])
      BY <1>6 DEF InitTarget
    <3> QED
      BY <1>5, <1>6, <3>2, <3>3 DEF LastIsRight
  <2> QED
    BY <2>2, <2>3
<1>9. Woken' /\ NotPassed'
  BY <1>5 DEF Woken, NotPassed
<1> QED
  BY <1>6, <1>7, <1>8, <1>9 DEF LastSwitch

(* A switch that is asked of the modem blocks all others. *)
LEMMA StartsKept ==
  ASSUME RatTypes, OneSwitch, Plain, LastSwitch, inst' = inst, UNCHANGED redialVars, SwitchStarts
  PROVE  LastSwitch'
<1> DEFINE r == [op |-> IF AsksGmss(Top) THEN "gmss" ELSE "set", slot |-> Top.slot,
                 type |-> Target(Top)]
<1>1. /\ stack # << >> /\ Top.op = "switch" /\ MayRun(Top) /\ stack' = Rest /\ inSwitching'
      /\ mcl' = Append(mcl, r)
      /\ UNCHANGED << cur, def, restrictedMode, restrictedCount, pend, riljType, calls, scanning, scans,
                      failed >>
  BY DEF SwitchStarts, Calls, MayStart, boundVars
<1>2. Top \in Frame /\ Top.slot \in Slots /\ Top.caller \in {"normal", "init"} /\ Top.act = "none"
      /\ Slots' = Slots
  BY <1>1, TopTypes, PlainTop DEF LastSwitch, NoEmergency, PlainFrame, Callers, Slots
<1>3. /\ PlainStack' /\ \A z, d : ~Switches(z, d)'
      /\ ~Restricting(TRUE)' /\ ~Restricting(FALSE)' /\ ~Restricting(TRUE) /\ ~Restricting(FALSE)
  BY <1>1, Popped DEF LastSwitch, NoEmergency, Restricting
<1>4. /\ \A z \in Slots : z # Top.slot => settings'[z] = settings[z]
      /\ settings'[Top.slot].type = Target(Top) /\ settings'[Top.slot].caller = Top.caller
      /\ settings'[Top.slot].act = "none" /\ settings'[Top.slot].def = settings[Top.slot].def
  <2>1. settings \in [Slots -> Setting] /\ settings[Top.slot] \in Setting
    BY <1>2 DEF RatTypes
  <2> QED
    BY <1>2, <2>1 DEF SwitchStarts, Setting
<1>5. \A i \in DOMAIN mcl' : mcl'[i].op # "abort"
  <2>1. r.op # "abort"
    OBVIOUS
  <2> HIDE DEF r
  <2>2. \A i \in DOMAIN mcl' : mcl'[i] = r \/ (i \in DOMAIN mcl /\ mcl'[i] = mcl[i])
    BY <1>1, MclFacts DEF RatTypes
  <2> QED
    BY <2>1, <2>2 DEF LastSwitch, NoEmergency
<1>6. NoEmergency'
  <2>1. \A s \in Slots : settings'[s].act = "none" /\ settings'[s].caller # "restrict"
    BY <1>2, <1>4 DEF LastSwitch, NoEmergency
  <2> QED
    BY <1>1, <1>3, <1>5, <2>1, NoEmergencyKept DEF LastSwitch, NoEmergency
<1>7. EccRestricts'
  BY <1>1, <1>3, EccKept DEF LastSwitch
<1>8. \A s \in Slots : Running(s)' <=> s = Top.slot
  BY SwitchAdded
<1>9. ASSUME NEW z \in Slots \ failed PROVE LastIsRight(z)'
  <2>1. LastIsRight(z)
    BY <1>9 DEF LastSwitch
  <2>2. CASE z # Top.slot
    <3>1. \A d \in Callers : ~Switches(z, d) /\ ~Switches(z, d)'
      BY <1>3, <2>2 DEF Switches
    <3>2. ~Running(z) /\ ~Running(z)'
      <4>1. ~inSwitching
        BY <1>1 DEF MayRun, MustWait
      <4> QED
        BY <1>8, <1>9, <2>2, <4>1 DEF OneSwitch, Running
    <3> QED
      BY <1>1, <1>4, <1>9, <2>1, <2>2, <3>1, <3>2, RightKept
  <2>3. CASE z = Top.slot
    <3>1. /\ pend[z]["init"].type = NoType
          /\ Top.caller = "normal" =>
               /\ pend[z]["normal"].type = NoType
               /\ def[z] # NoType => Target(Top) = InitTarget(z, def[z])
          /\ Top.caller = "init" =>
               /\ pend[z]["normal"].type \in {NoType, riljType[z]}
               /\ pend[z]["normal"].type = NoType => Target(Top) = LastInit(z)
      BY <1>1, <1>9, <2>3, RunsNext
    <3>2. LastInit(z)' = LastInit(z) /\ InitTarget(z, def[z])' = InitTarget(z, def[z])
      BY <1>1, <1>4, <2>3 DEF LastInit, InitTarget
    <3>3. Running(z)' /\ pend' = pend /\ def' = def /\ riljType' = riljType
          /\ settings'[z].type = Target(Top) /\ settings'[z].caller = Top.caller
      BY <1>1, <1>4, <1>8, <1>9, <2>3
    <3> QED
      BY <1>2, <1>3, <3>1, <3>2, <3>3 DEF LastIsRight
  <2> QED
    BY <2>2, <2>3
<1>10. Woken' /\ NotPassed'
  BY <1>1 DEF Woken, NotPassed, Blocked
<1> QED
  BY <1>1, <1>2, <1>6, <1>7, <1>9, <1>10 DEF LastSwitch
-----------------------------------------------------------------------------
(* Without an emergency call: the calls that come to what waits *)

(* ... when the restriction stays what it is. *)
LEMMA CallMadeKept ==
  ASSUME RatTypes, OneSwitch', LastSwitch, inst' = inst, UNCHANGED redialVars,
         \A s \in Slots : Running(s)' <=> Running(s),
         stack # << >>, Top.op \notin {"switch", "restrictedMode"},
         \/ stack' = Rest
         \/ \E s \in Slots : stack' = << Process(s) >> \o Rest,
         UNCHANGED << pend, keptVars, modemVars, boundVars, failed >>,
         stack' = Rest => \/ Blocked'
                          \/ \A s \in Slots : ~HasPending(s)
                          \/ /\ Top.op # "process"
                             /\ Top.op = "callEnded" => ~HasPending(Top.slot)
  PROVE  LastSwitch'
<1>1. /\ UNCHANGED << inSwitching, cur, def, settings, restrictedMode, restrictedCount, calls >>
      /\ Slots' = Slots
  BY DEF keptVars, modemVars, Slots
<1>2. Blocked' <=> Blocked
  BY <1>1 DEF Blocked, InCall
<1>3. /\ NoEmergency' /\ Woken' /\ NotPassed' /\ \A s \in Slots \ failed : LastIsRight(s)'
      /\ ~Restricting(TRUE)' /\ ~Restricting(FALSE)'
  BY <1>1, <1>2, CallMade
<1>4. EccRestricts'
  BY <1>1, <1>3, EccKept DEF LastSwitch, Restricting
<1> QED
  BY <1>1, <1>3, <1>4 DEF LastSwitch

(* processPendingRatSwitchRecord: the mode controller's record, the framework's, those of
   the other slot. *)
LEMMA ProcessKept ==
  ASSUME RatTypes, OneSwitch, OneSwitch', Plain, LastSwitch, inst' = inst, UNCHANGED redialVars,
         \A s \in Slots : Running(s)' <=> Running(s), ProcessPending
  PROVE  LastSwitch'
<1>1. stack # << >> /\ Top.op = "process" /\ UNCHANGED << keptVars, modemVars, boundVars, failed >>
  BY DEF ProcessPending, Calls
<1>2. Top.slot \in Slots /\ NoEmergency /\ inst \in Instances /\ Slots \subseteq {0, 1} /\ Slots' = Slots
  BY <1>1, TopTypes DEF LastSwitch, Plain, RatTypes, Slots
<1>3. PICK s \in Slots : s = Top.slot
  BY <1>2
<1>4. pend[s]["restrict"].type = NoType
  BY <1>2 DEF NoEmergency
<1>5. ASSUME NEW c \in {"normal", "init"}, NextRecord(s) = c
      PROVE  LastSwitch'
  <2> DEFINE f == SwitchNwRat(s, pend[s][c].type, c, pend[s][c].act, pend[s][c].msg)
  <2>1. stack' = << f >> \o Rest /\ pend' = Taken(s, c)
    BY <1>3, <1>5 DEF ProcessPending, Taken
  <2>2. /\ f \in Frame /\ f.op = "switch" /\ f.slot = s /\ f.caller = c
        /\ f.type = pend[s][c].type /\ f.act = pend[s][c].act
    <3>1. c \in Callers /\ pend \in [Slots -> [Callers -> Record]]
      BY DEF Callers, RatTypes
    <3>2. pend[s][c].type \in AnyType /\ pend[s][c].act \in Acts /\ pend[s][c].msg \in 0 .. MaxSet
      BY <3>1, PendTypes
    <3> QED
      BY <1>2, <3>1, <3>2, FrameTypes, FrameFields
  <2> HIDE DEF f
  <2>3. pend[s][c].type # NoType /\ (c = "normal" => pend[s]["init"].type = NoType)
    BY <1>4, <1>5 DEF NextRecord
  <2>4. PlainFrame(f)
    BY <1>2, <2>2, <2>3 DEF PlainFrame, NoEmergency, Callers
  <2>5. /\ PlainStack' /\ stack' # << >> /\ Top' = f /\ 1 \in DOMAIN stack' /\ stack'[1] = f
        /\ \A z, d : Switches(z, d)' <=> s = z /\ c = d
        /\ ~Restricting(TRUE)' /\ ~Restricting(FALSE)' /\ ~Restricting(TRUE) /\ ~Restricting(FALSE)
    <3>1. /\ PlainStack' /\ stack' # << >> /\ Top' = f /\ 1 \in DOMAIN stack' /\ stack'[1] = f
          /\ \A z, d : Switches(z, d)' <=> f.op = "switch" /\ f.slot = z /\ f.caller = d
          /\ \A b : Restricting(b)' <=> f.op = "restrictedMode" /\ f.ok = b
      BY <1>1, <1>2, <2>1, <2>2, <2>4, Pushed DEF NoEmergency
    <3>2. \A z, d : Switches(z, d)' <=> s = z /\ c = d
      BY <2>2, <3>1
    <3> QED
      BY <1>1, <2>2, <3>1, <3>2 DEF Restricting
  <2>6. /\ \A z \in Slots, d \in {"normal", "init"} :
             pend'[z][d].type = IF z = s /\ d = c THEN NoType ELSE pend[z][d].type
        /\ \A z \in Slots : /\ pend'[z]["restrict"].type = NoType
                            /\ \A d \in Callers : pend'[z][d].act = "none"
    BY <1>2, <2>1, RecordTaken
  <2>7. UNCHANGED << inSwitching, cur, def, settings, restrictedMode, restrictedCount, riljType, calls,
                     scanning, scans, mcl, failed >>
    BY <1>1 DEF keptVars, modemVars, boundVars
  <2>8. NoEmergency' /\ EccRestricts'
    <3>1. NoEmergency'
      BY <1>2, <2>5, <2>6, <2>7, NoEmergencyKept DEF NoEmergency
    <3>2. EccRestricts'
      BY <2>5, <2>7, EccKept DEF LastSwitch
    <3> QED
      BY <3>1, <3>2
  <2>9. \A z, d : ~Switches(z, d)
    BY <1>1 DEF Switches
  <2>10. ASSUME NEW z \in Slots \ failed PROVE LastIsRight(z)'
    <3>1. LastIsRight(z)
      BY <2>10 DEF LastSwitch
    <3>2. CASE z # s
      <4>1. \A d \in Callers : ~Switches(z, d) /\ ~Switches(z, d)'
        BY <2>5, <2>9, <3>2
      <4> QED
        BY <2>6, <2>7, <2>10, <3>1, <3>2, <4>1, RightKept
    <3>3. CASE z = s /\ c = "normal"
      <4>1. pend[z]["normal"].type = riljType[z]
        BY <2>3, <2>9, <3>1, <3>3 DEF LastIsRight
      <4> QED
        BY <2>2, <2>5, <2>7, <3>3, <4>1 DEF LastIsRight
    <3>4. CASE z = s /\ c = "init"
      <4>1. /\ pend[z]["normal"].type \in {NoType, riljType[z]}
            /\ pend[z]["normal"].type = NoType => f.type = LastInit(z)
        BY <2>2, <2>3, <2>9, <3>1, <3>4 DEF LastIsRight
      <4>2. LastInit(z)' = LastInit(z)
        BY <2>7 DEF LastInit, InitTarget
      <4>3. pend'[z]["normal"].type = pend[z]["normal"].type /\ Switches(z, "init")'
            /\ ~Switches(z, "normal")' /\ Top'.type = f.type /\ riljType' = riljType
        BY <2>5, <2>6, <2>7, <2>10, <3>4
      <4> QED
        BY <4>1, <4>2, <4>3 DEF LastIsRight
    <3> QED
      BY <3>2, <3>3, <3>4
  <2>11. Woken'
    BY <2>2, <2>5 DEF Woken
  <2>12. NotPassed'
    <3> SUFFICES ASSUME NEW z \in Slots
                 PROVE  /\ Switches(z, "init")' \/ Switches(z, "normal")' => pend'[z]["init"].type = NoType
                        /\ Switches(z, "normal")' => pend'[z]["normal"].type = NoType
      BY <1>2 DEF NotPassed
    <3> QED
      BY <2>3, <2>5, <2>6
  <2> QED
    BY <1>2, <2>7, <2>8, <2>10, <2>11, <2>12 DEF LastSwitch
<1>6. CASE NextRecord(s) = "another"
  <2>1. Another(s) \in Slots
    BY <1>4, <1>6 DEF NextRecord
  <2>2. stack' = << Process(Another(s)) >> \o Rest /\ UNCHANGED pend
    BY <1>3, <1>6 DEF ProcessPending, Callers
  <2>3. stack' # Rest
    <3>1. << Process(Another(s)) >> \in Seq(Frame) /\ Rest \in Seq(Frame)
      <4>1. Process(Another(s)) \in Frame /\ Rest \in Seq(Frame)
        BY <1>1, <1>2, <2>1, FrameTypes, TopTypes
      <4> HIDE DEF Process
      <4> QED
        BY <4>1
    <3>2. Len(<< Process(Another(s)) >> \o Rest) = 1 + Len(Rest) /\ Len(Rest) \in Nat
      BY <3>1
    <3> QED
      BY <2>2, <3>2
  <2> QED
    BY <1>1, <2>1, <2>2, <2>3, CallMadeKept
<1>7. CASE NextRecord(s) = "none"
  <2>1. stack' = Rest /\ UNCHANGED pend
    BY <1>3, <1>7 DEF ProcessPending, Callers
  <2>2. ~HasPending(s) /\ (Another(s) \in Slots => ~HasPending(Another(s)))
    BY <1>2, <1>4, <1>7, PlainPending DEF NextRecord
  <2>3. \A z \in Slots : ~HasPending(z)
    BY <1>2, <2>2 DEF Another
  <2> QED
    BY <1>1, <2>1, <2>3, CallMadeKept
<1>8. NextRecord(s) \in {"normal", "init", "another", "none"}
  BY <1>4 DEF NextRecord
<1> QED
  BY <1>5, <1>6, <1>7, <1>8

(* The signal, the rest of the answer, and the end of a call. *)
LEMMA AfterKept ==
  ASSUME RatTypes, OneSwitch, OneSwitch', Plain, LastSwitch, inst' = inst, UNCHANGED redialVars,
         \A s \in Slots : Running(s)' <=> Running(s),
         FinishResponse \/ OnRatSwitchDone \/ OnCallEnded
  PROVE  LastSwitch'
<1>1. /\ stack # << >> /\ Top.op \in {"finish", "signal", "callEnded"}
      /\ UNCHANGED << keptVars, pend, modemVars, boundVars, failed >>
  BY DEF FinishResponse, OnRatSwitchDone, OnCallEnded, Calls, ratKept
<1>2. Top.slot \in Slots /\ NoEmergency /\ Rest \in Seq(Frame)
  BY <1>1, TopTypes DEF LastSwitch
<1>3. CASE FinishResponse \/ OnRatSwitchDone
  <2>1. stack' = Rest /\ Top.op # "callEnded"
    BY <1>2, <1>3 DEF FinishResponse, OnRatSwitchDone, Calls, Acted, NoEmergency
  <2> QED
    BY <1>1, <2>1, CallMadeKept
<1>4. CASE OnCallEnded
  <2>1. Top.op = "callEnded" /\ (IF ResumesAfterCall(Top.slot) THEN stack' = << Process(Top.slot) >> \o Rest
                                                           ELSE stack' = Rest)
    BY <1>2, <1>4 DEF OnCallEnded, Calls
  <2>2. ASSUME ~ResumesAfterCall(Top.slot) PROVE Blocked' \/ ~HasPending(Top.slot)
    <3> SUFFICES ASSUME ~Blocked' PROVE ~HasPending(Top.slot)
      OBVIOUS
    <3>1. ~InCall /\ ~(restrictedCount[Top.slot] > 0)
      BY <1>1, <1>2 DEF Blocked, InCall, keptVars, modemVars, Slots
    <3>2. restrictedCount[Top.slot] = 0 /\ ~restrictedMode[Top.slot]
      BY <1>2, <3>1 DEF LastSwitch, EccRestricts, NoEmergency
    <3> QED
      BY <1>2, <2>2, <3>1, <3>2, PlainPending DEF ResumesAfterCall
  <2>3. ASSUME ResumesAfterCall(Top.slot) PROVE stack' # Rest
    <3>1. << Process(Top.slot) >> \in Seq(Frame)
      BY <1>2, FrameTypes DEF RatTypes
    <3>2. Len(<< Process(Top.slot) >> \o Rest) = 1 + Len(Rest) /\ Len(Rest) \in Nat
      BY <1>2, <3>1
    <3> QED
      BY <2>1, <2>3, <3>2
  <2> QED
    BY <1>1, <1>2, <2>1, <2>2, <2>3, CallMadeKept
<1> QED
  BY <1>3, <1>4

(* SET_ECC_MODE's callback: the restriction of the slot begins, or ends. *)
LEMMA RestrictionKept ==
  ASSUME RatTypes, OneSwitch, OneSwitch', Plain, LastSwitch, inst' = inst, UNCHANGED redialVars,
         \A s \in Slots : Running(s)' <=> Running(s), OnRestrictedModeChanged
  PROVE  LastSwitch'
<1>1. /\ stack # << >> /\ Top.op = "restrictedMode" /\ 0 \in Slots /\ Rest \in Seq(Frame)
      /\ UNCHANGED << inSwitching, cur, def, settings, restrictedMode, pend, modemVars, boundVars, failed >>
      /\ Slots' = Slots
  BY TopTypes, SlotFacts DEF OnRestrictedModeChanged, Calls, RatTypes, Slots
<1>2. Top.slot = 0 /\ Top.ok \in BOOLEAN /\ NoEmergency /\ EccRestricts
  BY <1>1, TopTypes, PlainTop DEF LastSwitch, NoEmergency, PlainFrame, Frame
<1>3. Slots = {0}
  <2>1. inst.eccMode # 0
    BY <1>1, <1>2 DEF EccRestricts, Restricting
  <2>2. inst \in Instances
    BY DEF RatTypes
  <2>3. inst.eccMode \in Nat /\ (inst.eccMode > 0 => inst.slots = {0})
    BY <2>2, RedialAssumption
  <2> QED
    BY <2>1, <2>3 DEF Slots
<1>4. /\ Top.ok => restrictedCount[0] = 0 /\ restrictedCount'[0] = 1 /\ inEmergency /\ EcbmRestricts
      /\ ~Top.ok => restrictedCount[0] = 1 /\ restrictedCount'[0] = 0 /\ ~inEmergency /\ EcbmRestricts
  <2>1. restrictedCount \in [Slots -> Int]
    BY DEF RatTypes
  <2>2. restrictedCount'[0] = IF Top.ok THEN restrictedCount[0] + 1 ELSE restrictedCount[0] - 1
    BY <1>1, <1>2, <2>1 DEF OnRestrictedModeChanged
  <2>3. /\ Top.ok => restrictedCount[0] = 0 /\ inEmergency /\ EcbmRestricts
        /\ ~Top.ok => restrictedCount[0] = 1 /\ ~inEmergency /\ EcbmRestricts
    BY <1>1, <1>2 DEF EccRestricts, Restricting
  <2> QED
    BY <1>2, <2>2, <2>3
<1>5. InCall' <=> InCall
  BY <1>1 DEF InCall, modemVars
<1>6. /\ stack' = << Process(0) >> \o Rest \/ stack' = Rest
      /\ stack' = Rest => Blocked'
  <2>1. stack' = (IF ~Top.ok /\ restrictedCount'[0] = 0 /\ ~InCall THEN << Process(0) >> ELSE << >>) \o Rest
    <3>1. restrictedCount \in [Slots -> Int]
      BY DEF RatTypes
    <3> QED
      BY <1>1, <1>2, <3>1 DEF OnRestrictedModeChanged
  <2>2. CASE ~Top.ok /\ ~InCall
    <3>1. stack' = << Process(0) >> \o Rest
      BY <1>4, <2>1, <2>2
    <3>2. << Process(0) >> \in Seq(Frame)
      <4>1. Process(0) \in Frame
        BY <1>1, FrameTypes DEF RatTypes
      <4> HIDE DEF Process
      <4> QED
        BY <4>1
    <3>3. Len(<< Process(0) >> \o Rest) = 1 + Len(Rest) /\ Len(Rest) \in Nat
      BY <1>1, <3>2
    <3> QED
      BY <3>1, <3>3
  <2>3. CASE Top.ok \/ InCall
    <3>1. stack' = Rest
      BY <1>1, <1>4, <2>1, <2>3
    <3>2. Blocked'
      BY <1>1, <1>4, <1>5, <2>3 DEF Blocked
    <3> QED
      BY <3>1, <3>2
  <2> QED
    BY <1>2, <2>2, <2>3
<1>7. /\ NoEmergency' /\ Woken' /\ NotPassed' /\ \A s \in Slots \ failed : LastIsRight(s)'
      /\ ~Restricting(TRUE)' /\ ~Restricting(FALSE)'
  BY <1>1, <1>6, CallMade
<1>8. EccRestricts'
  <2>1. inEmergency' = inEmergency /\ (EcbmRestricts' <=> EcbmRestricts) /\ eccAsked' = eccAsked
        /\ eccModes' = eccModes
    BY DEF redialVars, rdMode, rdKept, EcbmRestricts
  <2> QED
    BY <1>1, <1>2, <1>3, <1>4, <1>7, <2>1 DEF EccRestricts
<1> QED
  BY <1>1, <1>7, <1>8 DEF LastSwitch
-----------------------------------------------------------------------------
(* Without an emergency call: what the main thread takes from its queue *)

(* Between two messages nothing waits that may run. *)
LEMMA Idle ==
  ASSUME LastSwitch, stack = << >>
  PROVE  /\ \A z, d : ~Switches(z, d)
         /\ ~Restricting(TRUE) /\ ~Restricting(FALSE)
         /\ ~Blocked => \A s \in Slots : ~HasPending(s)
BY DEF LastSwitch, Woken, Switches, Restricting

(* A message that makes one call. *)
LEMMA OneCall ==
  ASSUME NEW f \in Frame, PlainFrame(f), stack' = << f >>
  PROVE  /\ PlainStack' /\ 1 \in DOMAIN stack' /\ stack'[1] = f /\ Top' = f
         /\ \A z, d : Switches(z, d)' <=> f.op = "switch" /\ f.slot = z /\ f.caller = d
         /\ \A b : Restricting(b)' <=> f.op = "restrictedMode" /\ f.ok = b
<1>1. DOMAIN stack' = {1} /\ stack'[1] = f /\ Top' = f /\ stack' # << >>
  BY DEF Top
<1>2. PlainStack'
  BY <1>1 DEF PlainStack, PlainFrame
<1> QED
  BY <1>1, <1>2 DEF Switches, Restricting

(* The answer to GMSS, and the beginning of a call: the list of requests, or the calls. *)
LEMMA QuietKept ==
  ASSUME RatTypes, OneSwitch, OneSwitch', Plain, LastSwitch, inst' = inst, UNCHANGED redialVars,
         \A s \in Slots : Running(s)' <=> Running(s),
         (\E i \in DOMAIN mcl : ResponseGmss(i)) \/ (\E s \in Slots : CallStarts(s))
  PROVE  LastSwitch'
<1>1. /\ stack = << >> /\ stack' = stack
      /\ UNCHANGED << keptVars, pend, riljType, scanning, scans, failed >> /\ Slots' = Slots
  BY DEF ResponseGmss, CallStarts, Answered, boundVars, Slots
<1>2. \A i \in DOMAIN mcl' : mcl'[i].op # "abort"
  <2>1. CASE \E i \in DOMAIN mcl : ResponseGmss(i)
    <3>1. PICK i \in DOMAIN mcl : mcl' = [mcl EXCEPT ![i].op = "set"]
      BY <2>1 DEF ResponseGmss
    <3>2. \A j \in DOMAIN mcl : mcl[j] \in Request /\ mcl[j].op # "abort"
      BY MclFacts DEF LastSwitch, NoEmergency
    <3>3. DOMAIN mcl' = DOMAIN mcl /\ mcl'[i] = [mcl[i] EXCEPT !.op = "set"]
          /\ \A j \in DOMAIN mcl : j # i => mcl'[j] = mcl[j]
      BY <3>1
    <3>4. mcl'[i].op = "set"
      BY <3>2, <3>3 DEF Request
    <3> QED
      BY <3>2, <3>3, <3>4
  <2>2. CASE \E s \in Slots : CallStarts(s)
    BY <2>2 DEF CallStarts, AbortScans, LastSwitch, NoEmergency
  <2> QED
    BY <2>1, <2>2
<1>3. UNCHANGED << inSwitching, cur, def, settings, restrictedMode, restrictedCount >>
  BY <1>1 DEF keptVars
<1>4. PlainStack' /\ \A z, d : ~Switches(z, d) /\ ~Switches(z, d)'
      /\ ~Restricting(TRUE)' /\ ~Restricting(FALSE)' /\ ~Restricting(TRUE) /\ ~Restricting(FALSE)
  BY <1>1 DEF PlainStack, Switches, Restricting
<1>5. NoEmergency'
  BY <1>1, <1>2, <1>3, <1>4, NoEmergencyKept DEF LastSwitch, NoEmergency
<1>6. EccRestricts'
  BY <1>3, <1>4, EccKept DEF LastSwitch
<1>7. ASSUME NEW z \in Slots \ failed PROVE LastIsRight(z)'
  BY <1>1, <1>3, <1>4, <1>7, RightKept DEF LastSwitch
<1>8. Woken'
  <2>1. ~Blocked' => ~Blocked
    BY <1>1, <1>3 DEF Blocked, InCall, ResponseGmss, CallStarts
  <2>2. \A s \in Slots : HasPending(s)' <=> HasPending(s)
    BY <1>1 DEF HasPending
  <2> QED
    BY <1>1, <2>1, <2>2, Idle DEF Woken
<1>9. NotPassed'
  BY <1>4 DEF NotPassed
<1> QED
  BY <1>1, <1>5, <1>6, <1>7, <1>8, <1>9 DEF LastSwitch

(* A call ends: every slot is told. *)
LEMMA CallEndKept ==
  ASSUME RatTypes, OneSwitch, OneSwitch', Plain, LastSwitch, inst' = inst, UNCHANGED redialVars,
         \A s \in Slots : Running(s)' <=> Running(s), NEW x \in Slots, CallEnds(x)
  PROVE  LastSwitch'
<1>1. /\ stack = << >> /\ stack' = CallEnded \o << >> /\ calls' = calls \ {x}
      /\ UNCHANGED << keptVars, pend, riljType, scanning, scans, mcl, failed >> /\ Slots' = Slots
  BY DEF CallEnds, CallEndsThen, boundVars, Slots
<1>2. UNCHANGED << inSwitching, cur, def, settings, restrictedMode, restrictedCount >>
  BY <1>1 DEF keptVars
<1>3. inst \in Instances /\ 0 \in Slots /\ Cardinality(Slots) \in Nat /\ Slots = 0 .. Cardinality(Slots) - 1
  BY SlotFacts DEF RatTypes
<1>4. stack' = CallEnded
  BY <1>1, <1>3, FrameTypes
<1>5. /\ DOMAIN stack' = 1 .. Cardinality(Slots)
      /\ \A i \in 1 .. Cardinality(Slots) : stack'[i] = Call("callEnded", i - 1)
  BY <1>4 DEF CallEnded
<1>6. \A i \in DOMAIN stack' : /\ stack'[i].op = "callEnded" /\ stack'[i].act = "none"
                               /\ stack'[i].slot = i - 1
  BY <1>5, FrameFields
<1>7. PlainStack' /\ \A z, d : ~Switches(z, d) /\ ~Switches(z, d)'
      /\ ~Restricting(TRUE)' /\ ~Restricting(FALSE)' /\ ~Restricting(TRUE) /\ ~Restricting(FALSE)
  <2>1. PlainStack'
    BY <1>6 DEF PlainStack, PlainFrame
  <2>2. stack' # << >> => Top'.op = "callEnded"
    <3>1. stack' \in Seq(Frame)
      BY <1>3, <1>4, FrameTypes
    <3>2. stack' # << >> => 1 \in DOMAIN stack' /\ Top' = stack'[1]
      BY <3>1 DEF Top
    <3> QED
      BY <1>6, <3>2
  <2> QED
    BY <1>1, <2>1, <2>2 DEF Switches, Restricting
<1>8. NoEmergency'
  BY <1>1, <1>2, <1>7, NoEmergencyKept DEF LastSwitch, NoEmergency
<1>9. EccRestricts'
  BY <1>2, <1>7, EccKept DEF LastSwitch
<1>10. ASSUME NEW z \in Slots \ failed PROVE LastIsRight(z)'
  BY <1>1, <1>2, <1>7, <1>10, RightKept DEF LastSwitch
<1>11. Woken'
  <2> SUFFICES ASSUME NEW z \in Slots
               PROVE  \E i \in DOMAIN stack' : stack'[i].op = "callEnded" /\ stack'[i].slot = z
    BY <1>1 DEF Woken
  <2>1. z + 1 \in DOMAIN stack' /\ (z + 1) - 1 = z
    BY <1>3, <1>5
  <2> QED
    BY <1>6, <2>1
<1>12. NotPassed'
  BY <1>7 DEF NotPassed
<1> QED
  BY <1>1, <1>8, <1>9, <1>10, <1>11, <1>12 DEF LastSwitch

(* The answer of the modem leaves a signal to the mode controller, the rest of the answer, and
   the records that wait. *)
LEMMA AnswerStack ==
  ASSUME inst \in Instances, NEW s \in Slots, NEW e \in Errors,
         stack' = SignalIfInit(s, e) \o << Finish(s), Process(s) >>
  PROVE  /\ PlainStack' /\ \A z, d : ~Switches(z, d)'
         /\ ~Restricting(TRUE)' /\ ~Restricting(FALSE)'
         /\ \E i \in DOMAIN stack' : stack'[i].op = "process"
<1>1. PICK f \in Frame : f = Signal(s, e) /\ PlainFrame(f) /\ f.op = "signal"
  BY PlainCalls
<1>2. PICK g \in Frame : g = Finish(s) /\ PlainFrame(g) /\ g.op = "finish"
  BY PlainCalls
<1>3. PICK h \in Frame : h = Process(s) /\ PlainFrame(h) /\ h.op = "process"
  BY PlainCalls
<1>4. PICK q \in Seq(Frame) : /\ stack' = q \o << g, h >>
                              /\ \A i \in 1 .. Len(q) : q[i] = f
  <2>1. CASE settings[s].caller = "init"
    <3>1. << f >> \in Seq(Frame) /\ \A i \in 1 .. Len(<< f >>) : << f >>[i] = f
      OBVIOUS
    <3> QED
      BY <1>1, <1>2, <1>3, <2>1, <3>1 DEF SignalIfInit
  <2>2. CASE settings[s].caller # "init"
    <3>1. << >> \in Seq(Frame) /\ \A i \in 1 .. Len(<< >>) : << >>[i] = f
      OBVIOUS
    <3>2. stack' = << >> \o << g, h >>
      BY <1>2, <1>3, <2>2 DEF SignalIfInit
    <3> QED
      BY <3>1, <3>2
  <2> QED
    BY <2>1, <2>2
<1> DEFINE r == << g, h >>
<1>5. /\ \A i \in DOMAIN stack' : PlainFrame(stack'[i]) /\ stack'[i].op \in {"signal", "finish", "process"}
      /\ \E i \in DOMAIN stack' : stack'[i].op = "process"
      /\ stack' # << >> /\ Top' = stack'[1] /\ 1 \in DOMAIN stack'
  <2>1. r \in Seq(Frame) /\ Len(r) = 2 /\ r[1] = g /\ r[2] = h
    OBVIOUS
  <2>2. stack' = q \o r
    BY <1>4
  <2> HIDE DEF r
  <2>3. /\ stack' \in Seq(Frame) /\ Len(stack') = Len(q) + 2 /\ Len(q) \in Nat
        /\ \A i \in 1 .. Len(q) + 2 : stack'[i] = IF i <= Len(q) THEN q[i] ELSE r[i - Len(q)]
    <3>1. Len(q) \in Nat
      OBVIOUS
    <3>2. /\ q \o r \in Seq(Frame) /\ Len(q \o r) = Len(q) + 2
          /\ \A i \in 1 .. Len(q) + 2 : (q \o r)[i] = IF i <= Len(q) THEN q[i] ELSE r[i - Len(q)]
      <4>1. /\ q \o r \in Seq(Frame) /\ Len(q \o r) = Len(q) + Len(r)
            /\ \A i \in 1 .. Len(q) + Len(r) :
                 (q \o r)[i] = IF i <= Len(q) THEN q[i] ELSE r[i - Len(q)]
        BY <2>1, ConcatProperties, Zenon
      <4>2. Len(r) = 2
        BY <2>1
      <4> QED
        BY <4>1, <4>2, Zenon
    <3> QED
      BY <2>2, <3>1, <3>2
  <2>4. /\ DOMAIN stack' = 1 .. Len(q) + 2 /\ stack' # << >> /\ Top' = stack'[1]
    BY <2>3 DEF Top
  <2>5. stack'[Len(q) + 2] = h /\ Len(q) + 2 \in DOMAIN stack' /\ 1 \in DOMAIN stack'
    <3>1. /\ Len(q) + 2 \in 1 .. Len(q) + 2 /\ 1 \in 1 .. Len(q) + 2
          /\ ~(Len(q) + 2 <= Len(q)) /\ (Len(q) + 2) - Len(q) = 2
      BY <2>3
    <3> QED
      BY <2>1, <2>3, <2>4, <3>1
  <2>6. \A i \in DOMAIN stack' : stack'[i] \in {f, g, h}
    <3> TAKE i \in DOMAIN stack'
    <3>1. CASE i <= Len(q)
      BY <1>4, <2>3, <2>4, <3>1
    <3>2. CASE ~(i <= Len(q))
      <4>1. i - Len(q) \in {1, 2} /\ stack'[i] = r[i - Len(q)]
        BY <2>3, <2>4, <3>2
      <4> QED
        BY <2>1, <4>1
    <3> QED
      BY <3>1, <3>2
  <2> QED
    BY <1>1, <1>2, <1>3, <2>4, <2>5, <2>6
<1>6. PlainStack'
  BY <1>5 DEF PlainStack, PlainFrame
<1> QED
  BY <1>5, <1>6 DEF Switches, Restricting

(* What the modem answered is taken out of the list. *)
LEMMA NoAbortLeft ==
  ASSUME RatTypes, NoEmergency, NEW i \in DOMAIN mcl, mcl' = RemoveAt(mcl, i)
  PROVE  \A j \in DOMAIN mcl' : mcl'[j].op # "abort"
<1>1. /\ DOMAIN mcl' = 1 .. Len(mcl) - 1 /\ i \in 1 .. Len(mcl) /\ Len(mcl) \in Nat
      /\ \A j \in 1 .. Len(mcl) - 1 : mcl'[j] = IF j < i THEN mcl[j] ELSE mcl[j + 1]
  <2>1. mcl \in Seq(Request) /\ i \in 1 .. Len(mcl) /\ Len(mcl) \in Nat
    BY MclFacts DEF RatTypes
  <2>2. /\ mcl' \in Seq(Request) /\ Len(mcl') = Len(mcl) - 1
        /\ \A j \in 1 .. Len(mcl) - 1 : mcl'[j] = IF j < i THEN mcl[j] ELSE mcl[j + 1]
    BY <2>1, RemoveAtFacts
  <2> QED
    BY <2>1, <2>2
<1> TAKE j \in DOMAIN mcl'
<1>2. \E k \in 1 .. Len(mcl) : mcl'[j] = mcl[k]
  <2>1. CASE j < i
    BY <1>1, <2>1
  <2>2. CASE ~(j < i)
    BY <1>1, <2>2
  <2> QED
    BY <2>1, <2>2
<1> QED
  BY <1>2, MclFacts DEF NoEmergency

(* The modem answers the switch: of a success the slot has the type, and the default type, of
   mRatSettings. *)
LEMMA AnswerKept ==
  ASSUME RatTypes, OneSwitch, OneSwitch', Plain, LastSwitch, inst' = inst, UNCHANGED redialVars,
         NEW i \in DOMAIN mcl, ResponseSet(i) \/ \E b \in BOOLEAN : ResponseSetFails(i, b)
  PROVE  LastSwitch'
<1>1. PICK s \in Slots : s = mcl[i].slot
  BY MclFacts
<1>2. i \in Switching /\ Running(s) /\ \A z \in Slots : Running(z) => z = s
  BY <1>1, SwitchAnswered DEF Running, OneSwitch
<1>3. (\A z \in Slots : ~Running(z)') /\ inSwitching' = FALSE
  BY SwitchAnswered DEF ResponseSet, ResponseSetFails, UpdateState
<1>4. /\ stack = << >> /\ mcl' = RemoveAt(mcl, i) /\ Slots' = Slots /\ failed \subseteq failed'
      /\ UNCHANGED << restrictedMode, restrictedCount, riljType, calls, scanning, scans >>
  BY DEF ResponseSet, ResponseSetFails, Answered, boundVars, Slots
<1>5. PICK e \in Errors : stack' = SignalIfInit(s, e) \o << Finish(s), Process(s) >>
  <2>1. CASE ResponseSet(i)
    BY <1>1, <2>1 DEF ResponseSet, Errors
  <2>2. CASE \E b \in BOOLEAN : ResponseSetFails(i, b)
    BY <1>1, <2>2 DEF ResponseSetFails, Errors
  <2> QED
    BY <2>1, <2>2
<1>6. /\ PlainStack' /\ \A z, d : ~Switches(z, d)' /\ ~Switches(z, d)
      /\ ~Restricting(TRUE)' /\ ~Restricting(FALSE)' /\ ~Restricting(TRUE) /\ ~Restricting(FALSE)
      /\ \E k \in DOMAIN stack' : stack'[k].op = "process"
  <2>1. inst \in Instances
    BY DEF RatTypes
  <2>2. /\ PlainStack' /\ \A z, d : ~Switches(z, d)'
        /\ ~Restricting(TRUE)' /\ ~Restricting(FALSE)'
        /\ \E k \in DOMAIN stack' : stack'[k].op = "process"
    BY <1>5, <2>1, AnswerStack
  <2> QED
    BY <1>4, <2>2, Idle
<1>7. /\ \A z \in Slots, d \in {"normal", "init"} : z # s \/ s \notin failed' => pend'[z][d].type = pend[z][d].type
      /\ \A z \in Slots : /\ pend'[z]["restrict"].type = NoType
                          /\ \A d \in Callers : pend'[z][d].act = "none"
      /\ \A z \in Slots : /\ settings'[z].type = settings[z].type /\ settings'[z].caller = settings[z].caller
                          /\ settings'[z].def = settings[z].def /\ settings'[z].act = settings[z].act
  <2>1. CASE UNCHANGED << pend, settings >>
    BY <2>1 DEF LastSwitch, NoEmergency
  <2>2. CASE ~UNCHANGED << pend, settings >>
    <3>1. ~ResponseSet(i)
      BY <2>2 DEF ResponseSet
    <3>2. PICK b \in BOOLEAN : ResponseSetFails(i, b)
      BY <3>1
    <3> DEFINE r == [NoRecord EXCEPT !.type = settings[s].type]
    <3>3. settings \in [Slots -> Setting] /\ settings[s] \in Setting
      BY DEF RatTypes
    <3>4. r \in Record
      <4>1. settings[s].type \in AnyType /\ inst \in Instances
        BY <3>3 DEF Setting, RatTypes
      <4> QED
        BY <4>1, RecordTypes
    <3>5. r.act = "none"
      BY DEF NoRecord
    <3>6. pend' = Put(s, "normal", r) /\ settings' = [settings EXCEPT ![s].msg = NoMsg] /\ s \in failed'
      BY <1>1, <2>2, <3>2 DEF ResponseSetFails, Put
    <3> HIDE DEF r
    <3>7. /\ \A z \in Slots, d \in {"normal", "init"} :
               pend'[z][d].type = IF z = s /\ d = "normal" THEN r.type ELSE pend[z][d].type
          /\ \A z \in Slots : /\ pend'[z]["restrict"].type = NoType
                              /\ \A d \in Callers : pend'[z][d].act = "none"
      BY <3>4, <3>5, <3>6, RecordPut DEF LastSwitch
    <3>8. \A z \in Slots : /\ settings'[z].type = settings[z].type /\ settings'[z].caller = settings[z].caller
                           /\ settings'[z].def = settings[z].def /\ settings'[z].act = settings[z].act
      <4> TAKE z \in Slots
      <4>1. settings[z] \in Setting
        BY <3>3
      <4> QED
        BY <3>3, <3>6, <4>1 DEF Setting
    <3> QED
      BY <3>6, <3>7, <3>8
  <2> QED
    BY <2>1, <2>2
<1>8. NoEmergency'
  <2>1. \A j \in DOMAIN mcl' : mcl'[j].op # "abort"
    BY <1>4, NoAbortLeft DEF LastSwitch
  <2>2. \A z \in Slots : settings'[z].act = "none" /\ settings'[z].caller # "restrict"
    BY <1>7 DEF LastSwitch, NoEmergency
  <2> QED
    BY <1>4, <1>6, <1>7, <2>1, <2>2, NoEmergencyKept DEF LastSwitch
<1>9. EccRestricts'
  BY <1>4, <1>6, EccKept DEF LastSwitch
<1>10. /\ \A z \in Slots : z # s => cur'[z] = cur[z] /\ def'[z] = def[z]
       /\ s \notin failed' =>
            /\ cur'[s] = settings[s].type
            /\ def'[s] = IF settings[s].caller = "init" THEN settings[s].def ELSE def[s]
  <2>1. CASE ResponseSet(i)
    <3>1. /\ cur' = [cur EXCEPT ![s] = settings[s].type]
          /\ def' = IF settings[s].caller = "init" THEN [def EXCEPT ![s] = settings[s].def] ELSE def
      BY <1>1, <2>1 DEF ResponseSet, UpdateState
    <3> QED
      BY <3>1 DEF RatTypes
  <2>2. CASE \E b \in BOOLEAN : ResponseSetFails(i, b)
    <3>1. cur' = cur /\ def' = def /\ s \in failed'
      BY <1>1, <2>2 DEF ResponseSetFails, UpdateState
    <3> QED
      BY <3>1
  <2> QED
    BY <2>1, <2>2
<1>11. ASSUME NEW z \in Slots \ failed' PROVE LastIsRight(z)'
  <2>1. z \in Slots \ failed /\ LastIsRight(z) /\ riljType' = riljType
    BY <1>4, <1>11 DEF LastSwitch
  <2>2. CASE z # s
    <3>1. \A d \in Callers : ~Switches(z, d) /\ ~Switches(z, d)'
      BY <1>6
    <3>2. ~Running(z) /\ ~Running(z)'
      BY <1>2, <1>3, <2>1, <2>2
    <3>3. \A d \in {"normal", "init"} : pend'[z][d].type = pend[z][d].type
      BY <1>7, <2>1, <2>2
    <3>4. cur'[z] = cur[z] /\ def'[z] = def[z]
      BY <1>10, <2>1, <2>2
    <3> QED
      BY <1>7, <2>1, <3>1, <3>2, <3>3, <3>4, RightKept
  <2>3. CASE z = s
    <3>1. pend'[z]["normal"].type = pend[z]["normal"].type /\ pend'[z]["init"].type = pend[z]["init"].type
      BY <1>7, <1>11, <2>3
    <3>2. LastInit(z)' = LastInit(z) /\ \A d : InitTarget(z, d)' = InitTarget(z, d)
      BY <1>7, <2>1 DEF LastInit, InitTarget
    <3>3. settings[z].caller \in {"normal", "init"}
      <4>1. settings[z] \in Setting
        BY <2>1 DEF RatTypes
      <4>2. settings[z].caller # "restrict"
        BY <2>1 DEF LastSwitch, NoEmergency
      <4> QED
        BY <4>1, <4>2 DEF Setting, Callers
    <3>4. ASSUME pend[z]["normal"].type = NoType, pend[z]["init"].type = NoType, def'[z] # NoType
          PROVE  cur'[z] = InitTarget(z, def'[z])
      <4>1. /\ settings[z].caller = "init" => settings[z].type = LastInit(z)
            /\ settings[z].caller = "normal" /\ def[z] # NoType => settings[z].type = InitTarget(z, def[z])
        BY <1>2, <1>6, <2>1, <2>3, <3>4 DEF LastIsRight
      <4> QED
        BY <1>10, <1>11, <2>3, <3>3, <3>4, <4>1 DEF LastInit
    <3>5. /\ pend[z]["normal"].type \in {NoType, riljType[z]}
          /\ pend[z]["normal"].type = NoType => pend[z]["init"].type \in {NoType, LastInit(z)}
      BY <1>6, <2>1 DEF LastIsRight
    <3>6. ~Running(z)' /\ \A d : ~Switches(z, d)'
      BY <1>3, <1>6, <2>1
    <3> QED
      BY <2>1, <3>1, <3>2, <3>4, <3>5, <3>6 DEF LastIsRight
  <2> QED
    BY <2>2, <2>3
<1>12. Woken' /\ NotPassed'
  BY <1>6 DEF Woken, NotPassed
<1> QED
  BY <1>4, <1>8, <1>9, <1>11, <1>12 DEF LastSwitch

(* A request of the framework, or of the mode controller, asks for a switch. *)
LEMMA AskedKept ==
  ASSUME RatTypes, OneSwitch, OneSwitch', Plain, LastSwitch, inst' = inst, UNCHANGED redialVars,
         \A z \in Slots : Running(z)' <=> Running(z), stack = << >>,
         NEW s \in Slots, NEW f \in Frame, PlainFrame(f), f.op = "switch", f.slot = s, stack' = << f >>,
         UNCHANGED << inSwitching, cur, def, restrictedCount, pend, calls, scanning, scans, mcl, failed >>,
         restrictedMode' = restrictedMode,
         \A z \in Slots : /\ settings'[z].type = settings[z].type /\ settings'[z].caller = settings[z].caller
                          /\ settings'[z].act = settings[z].act
                          /\ z # s => settings'[z].def = settings[z].def /\ riljType'[z] = riljType[z],
         \/ f.caller = "normal" /\ f.type = riljType'[s]
         \/ f.caller = "init" /\ f.type = LastInit(s)' /\ riljType'[s] = riljType[s]
  PROVE  LastSwitch'
<1>1. /\ PlainStack' /\ 1 \in DOMAIN stack' /\ stack'[1] = f /\ Top' = f
      /\ \A z, d : Switches(z, d)' <=> s = z /\ f.caller = d
      /\ ~Restricting(TRUE)' /\ ~Restricting(FALSE)'
  <2>1. /\ PlainStack' /\ 1 \in DOMAIN stack' /\ stack'[1] = f /\ Top' = f
        /\ \A z, d : Switches(z, d)' <=> f.op = "switch" /\ f.slot = z /\ f.caller = d
        /\ \A b : Restricting(b)' <=> f.op = "restrictedMode" /\ f.ok = b
    BY OneCall
  <2>2. \A z, d : Switches(z, d)' <=> s = z /\ f.caller = d
    BY <2>1
  <2> QED
    BY <2>1, <2>2
<1>2. /\ \A z, d : ~Switches(z, d)
      /\ ~Restricting(TRUE) /\ ~Restricting(FALSE)
      /\ ~Blocked => \A z \in Slots : ~HasPending(z)
  BY Idle
<1>3. Slots' = Slots /\ (Blocked' <=> Blocked) /\ NoEmergency
  BY DEF Slots, Blocked, InCall, LastSwitch
<1>4. NoEmergency'
  <2>1. ASSUME NEW z \in Slots PROVE settings'[z].act = "none" /\ settings'[z].caller # "restrict"
    <3>1. settings[z].act = "none" /\ settings[z].caller # "restrict"
      BY <1>3 DEF NoEmergency
    <3>2. settings'[z].act = settings[z].act /\ settings'[z].caller = settings[z].caller
      OBVIOUS
    <3> QED
      BY <3>1, <3>2
  <2>2. \A z \in Slots : pend'[z]["restrict"].type = NoType /\ \A c \in Callers : pend'[z][c].act = "none"
    BY <1>3 DEF NoEmergency
  <2>3. \A i \in DOMAIN mcl' : mcl'[i].op # "abort"
    BY <1>3 DEF NoEmergency
  <2> QED
    BY <1>1, <1>3, <2>1, <2>2, <2>3, NoEmergencyKept
<1>5. EccRestricts'
  BY <1>1, <1>2, EccKept DEF LastSwitch
<1>6. Woken'
  BY <1>1 DEF Woken
<1>7. NotPassed'
  <2> SUFFICES ASSUME ~Blocked', NEW z \in Slots
               PROVE  pend'[z]["init"].type = NoType /\ pend'[z]["normal"].type = NoType
    BY <1>3 DEF NotPassed
  <2> QED
    BY <1>2, <1>3, PlainPending
<1>8. ASSUME NEW z \in Slots \ failed PROVE LastIsRight(z)'
  <2>1. LastIsRight(z)
    BY <1>8 DEF LastSwitch
  <2>2. CASE z # s
    <3>1. \A d \in Callers : ~Switches(z, d) /\ ~Switches(z, d)'
      BY <1>1, <1>2, <2>2
    <3>2. /\ riljType'[z] = riljType[z] /\ settings'[z].type = settings[z].type
          /\ settings'[z].caller = settings[z].caller /\ settings'[z].def = settings[z].def
      BY <1>8, <2>2
    <3>3. z \in Slots /\ (Running(z)' <=> Running(z)) /\ def'[z] = def[z] /\ cur'[z] = cur[z]
          /\ \A d \in {"normal", "init"} : pend'[z][d].type = pend[z][d].type
      BY <1>8
    <3> QED
      BY <2>1, <3>1, <3>2, <3>3, RightKept
  <2>3. CASE z = s /\ f.caller = "normal" /\ f.type = riljType'[s]
    <3>1. Switches(z, "normal")'
      BY <1>1, <2>3
    <3>2. Top'.type = riljType'[z]
      BY <1>1, <2>3
    <3> QED
      BY <3>1, <3>2 DEF LastIsRight
  <2>4. CASE z = s /\ f.caller = "init" /\ f.type = LastInit(s)' /\ riljType'[s] = riljType[s]
    <3>1. Switches(z, "init")' /\ ~Switches(z, "normal")' /\ Top'.type = LastInit(z)'
      BY <1>1, <2>4
    <3>2. pend[z]["normal"].type \in {NoType, riljType[z]}
      BY <1>2, <2>1 DEF LastIsRight
    <3> QED
      BY <2>4, <3>1, <3>2 DEF LastIsRight
  <2> QED
    BY <2>2, <2>3, <2>4
<1> QED
  BY <1>3, <1>4, <1>5, <1>6, <1>7, <1>8 DEF LastSwitch

(* SET_PREFERRED_NETWORK_TYPE: what it asks for is the framework's last type. *)
LEMMA FrameworkKept ==
  ASSUME RatTypes, OneSwitch, OneSwitch', Plain, LastSwitch, inst' = inst, UNCHANGED redialVars,
         \A z \in Slots : Running(z)' <=> Running(z), NEW s \in Slots, NEW t \in AskedTypes,
         SetPreferredNetworkType(s, t)
  PROVE  LastSwitch'
<1> DEFINE f == SwitchNwRat(s, t, "normal", "none", sets + 1)
<1>1. inst \in Instances /\ t \in AnyType /\ t # NoType /\ MaxSet \in Nat
  BY SlotFacts DEF RatTypes, NwTypes, AnyType, NoType
<1>2. sets + 1 \in 0 .. MaxSet /\ "normal" \in Callers /\ "none" \in Acts
  BY <1>1 DEF SetPreferredNetworkType, RatTypes, Callers, Acts
<1>3. /\ f \in Frame /\ f.op = "switch" /\ f.slot = s /\ f.caller = "normal" /\ f.type = t
      /\ f.act = "none"
  BY <1>1, <1>2, FrameTypes, FrameFields
<1>4. PlainFrame(f)
  BY <1>1, <1>3 DEF PlainFrame
<1>5. stack = << >> /\ stack' = << f >>
  BY DEF SetPreferredNetworkType
<1> HIDE DEF f
<1>6. restrictedMode' = restrictedMode
  <2>1. restrictedMode \in [Slots -> BOOLEAN] /\ restrictedMode[s] = FALSE
    BY DEF RatTypes, LastSwitch, NoEmergency
  <2> QED
    BY <2>1 DEF SetPreferredNetworkType
<1>7. riljType'[s] = t /\ \A z \in Slots : z # s => riljType'[z] = riljType[z]
  BY DEF SetPreferredNetworkType, RatTypes
<1>8. UNCHANGED << inSwitching, cur, def, settings, restrictedCount, pend, calls, scanning, scans, mcl,
                   failed >>
  BY DEF SetPreferredNetworkType
<1> QED
  BY <1>3, <1>4, <1>5, <1>6, <1>7, <1>8, AskedKept

(* A switch of the mode controller, with its new default type; the same again is not made. *)
LEMMA ModeKept ==
  ASSUME RatTypes, OneSwitch, OneSwitch', Plain, LastSwitch, inst' = inst, UNCHANGED redialVars,
         \A z \in Slots : Running(z)' <=> Running(z), NEW s \in Slots, NEW t \in AskedTypes,
         NEW b \in BOOLEAN, ModeSwitch(s, t, b)
  PROVE  LastSwitch'
<1>1. inst \in Instances /\ t \in NwTypes /\ {"init", "normal"} \subseteq Callers /\ "none" \in Acts
      /\ NoMsg \in 0 .. MaxSet /\ "success" \in Errors
  BY SlotFacts DEF RatTypes, Callers, Acts, NoMsg, Errors
<1>2. /\ stack = << >> /\ Slots' = Slots /\ SwitchInit(s, t, b, << >>)
      /\ UNCHANGED << inSwitching, cur, def, restrictedCount, pend, riljType, calls, scanning, scans, mcl,
                      failed >>
  BY DEF ModeSwitch, modemVars, Slots
<1>3. CASE ~b /\ t = def[s]
  <2> DEFINE f == Signal(s, "success")
  <2>1. f \in Frame /\ PlainFrame(f) /\ f.op = "signal"
    BY <1>1, PlainCalls
  <2>2. stack' = << f >> \o << >> /\ UNCHANGED << settings, restrictedMode >>
    BY <1>2, <1>3 DEF SwitchInit
  <2> HIDE DEF f
  <2>3. stack' = << f >>
    BY <2>1, <2>2
  <2>4. /\ PlainStack' /\ \A z, d : ~Switches(z, d)'
        /\ ~Restricting(TRUE)' /\ ~Restricting(FALSE)'
    <3>1. /\ PlainStack' /\ \A z, d : Switches(z, d)' <=> f.op = "switch" /\ f.slot = z /\ f.caller = d
          /\ \A on : Restricting(on)' <=> f.op = "restrictedMode" /\ f.ok = on
      BY <2>1, <2>3, OneCall
    <3>2. \A z, d : ~Switches(z, d)'
      BY <2>1, <3>1
    <3> QED
      BY <2>1, <3>1, <3>2
  <2>5. /\ \A z, d : ~Switches(z, d)
        /\ ~Restricting(TRUE) /\ ~Restricting(FALSE)
        /\ ~Blocked => \A z \in Slots : ~HasPending(z)
    BY <1>2, Idle
  <2>6. NoEmergency'
    BY <1>2, <2>2, <2>4, NoEmergencyKept DEF LastSwitch, NoEmergency
  <2>7. EccRestricts'
    BY <1>2, <2>4, <2>5, EccKept DEF LastSwitch
  <2>8. Woken'
    BY <1>2, <2>5 DEF Woken, Blocked, InCall, HasPending
  <2>9. NotPassed'
    BY <2>4 DEF NotPassed
  <2>10. ASSUME NEW z \in Slots \ failed PROVE LastIsRight(z)'
    BY <1>2, <2>2, <2>4, <2>5, <2>10, RightKept DEF LastSwitch
  <2> QED
    BY <1>2, <2>6, <2>7, <2>8, <2>9, <2>10 DEF LastSwitch
<1>4. CASE ~(~b /\ t = def[s])
  <2> DEFINE f == SwitchNwRat(s, InitTarget(s, t), "init", "none", NoMsg)
  <2>1. InitTarget(s, t) \in NwTypes
    BY <1>1, TargetTypes
  <2>2. InitTarget(s, t) \in AnyType /\ InitTarget(s, t) # NoType
    BY <2>1 DEF AnyType, NwTypes, NoType
  <2>3. /\ f \in Frame /\ f.op = "switch" /\ f.slot = s /\ f.caller = "init"
        /\ f.type = InitTarget(s, t) /\ f.act = "none"
    BY <1>1, <2>2, FrameTypes, FrameFields
  <2>4. PlainFrame(f)
    BY <2>2, <2>3 DEF PlainFrame
  <2>5. stack' = << f >> \o << >> /\ settings' = [settings EXCEPT ![s].def = t]
        /\ restrictedMode' = [restrictedMode EXCEPT ![s] = FALSE]
    BY <1>2, <1>4 DEF SwitchInit
  <2> HIDE DEF f
  <2>6. stack' = << f >>
    BY <2>3, <2>5
  <2>7. restrictedMode' = restrictedMode
    <3>1. restrictedMode \in [Slots -> BOOLEAN] /\ restrictedMode[s] = FALSE
      BY DEF RatTypes, LastSwitch, NoEmergency
    <3> QED
      BY <2>5, <3>1
  <2>8. \A z \in Slots : /\ settings'[z].type = settings[z].type /\ settings'[z].caller = settings[z].caller
                         /\ settings'[z].act = settings[z].act
                         /\ z # s => settings'[z].def = settings[z].def
                         /\ z = s => settings'[z].def = t
    <3> TAKE z \in Slots
    <3>1. settings[z] \in Setting /\ settings \in [Slots -> Setting]
      BY DEF RatTypes
    <3> QED
      BY <2>5, <3>1 DEF Setting
  <2>9. f.type = LastInit(s)'
    <3>1. settings'[s].def = t /\ riljType' = riljType
      BY <1>2, <2>8
    <3> QED
      BY <2>3, <3>1 DEF LastInit, InitTarget
  <2>10. \A z \in Slots : /\ settings'[z].type = settings[z].type /\ settings'[z].caller = settings[z].caller
                          /\ settings'[z].act = settings[z].act
                          /\ z # s => settings'[z].def = settings[z].def /\ riljType'[z] = riljType[z]
    BY <1>2, <2>8
  <2>11. f.caller = "init" /\ f.type = LastInit(s)' /\ riljType'[s] = riljType[s]
    BY <1>2, <2>3, <2>9
  <2> QED
    BY <1>2, <2>3, <2>4, <2>6, <2>7, <2>10, <2>11, AskedKept
<1> QED
  BY <1>3, <1>4

(* SET_ECC_MODE: the status is set, whose callback is still to be made, or reset. *)
LEMMA EccModeKept ==
  ASSUME RatTypes, OneSwitch, OneSwitch', Plain, LastSwitch, inst' = inst,
         \A z \in Slots : Running(z)' <=> Running(z), NEW on \in BOOLEAN, SetEccMode(on)
  PROVE  LastSwitch'
<1>1. /\ stack = << >> /\ Slots' = Slots /\ NoEmergency /\ EccRestricts
      /\ UNCHANGED << keptVars, pend, modemVars, boundVars, failed, rdCall, mdDue, mdEcbm, dials >>
  BY DEF SetEccMode, ratKept, Slots, LastSwitch
<1>2. /\ UNCHANGED << inSwitching, cur, def, settings, restrictedMode, restrictedCount, riljType, calls,
                      scanning, scans, mcl, failed >>
      /\ UNCHANGED << dial, mdCall, mdDue, mdEcbm, resumed, mo, dials >>
  BY <1>1 DEF keptVars, modemVars, boundVars, rdCall
<1>3. /\ \A z, d : ~Switches(z, d)
      /\ ~Restricting(TRUE) /\ ~Restricting(FALSE)
      /\ ~Blocked => \A z \in Slots : ~HasPending(z)
  BY <1>1, Idle
<1>4. inst.eccMode # 0 /\ Slots = {0}
  <2>1. inst \in Instances
    BY DEF RatTypes
  <2>2. inst.eccMode \in Nat /\ (inst.eccMode > 0 => inst.slots = {0})
    BY <2>1, RedialAssumption
  <2>3. inst.eccMode = 0 => ~eccAsked /\ eccModes = 0
    BY <1>1 DEF EccRestricts
  <2>4. CASE on
    <3>1. eccModes < inst.eccMode
      BY <2>4 DEF SetEccMode, MaxEccMode
    <3> QED
      BY <2>2, <2>3, <3>1 DEF Slots
  <2>5. CASE ~on
    <3>1. eccAsked
      BY <2>5 DEF SetEccMode
    <3> QED
      BY <2>2, <2>3, <3>1 DEF Slots
  <2> QED
    BY <2>4, <2>5
<1>5. \/ stack' = << >> /\ (inEmergency' <=> inEmergency)
      \/ stack' = RestrictedMode(TRUE) /\ ~inEmergency /\ inEmergency'
      \/ stack' = RestrictedMode(FALSE) /\ inEmergency /\ ~inEmergency'
  <2>1. CASE on
    <3>1. inEmergency' /\ stack' = IF inEmergency THEN << >> ELSE RestrictedMode(TRUE)
      BY <2>1 DEF SetEccMode
    <3> QED
      BY <3>1
  <2>2. CASE ~on
    <3>1. \/ ~inEmergency' /\ stack' = IF inEmergency THEN RestrictedMode(FALSE) ELSE << >>
          \/ inEmergency' = inEmergency /\ stack' = stack
      BY <2>2 DEF SetEccMode
    <3> QED
      BY <1>1, <3>1
  <2> QED
    BY <2>1, <2>2
<1>6. ASSUME NEW b \in BOOLEAN, stack' = RestrictedMode(b)
      PROVE  /\ PlainStack' /\ \A z, d : ~Switches(z, d)'
             /\ Restricting(b)' <=> EcbmRestricts
             /\ ~Restricting(~b)'
  <2> DEFINE f == [Fun("restrictedMode") EXCEPT !.ok = b]
  <2>1. CASE ~EcbmRestricts
    <3>1. stack' = << >>
      BY <1>6, <2>1 DEF RestrictedMode
    <3> QED
      BY <2>1, <3>1 DEF PlainStack, Switches, Restricting
  <2>2. CASE EcbmRestricts
    <3>1. stack' = << f >>
      BY <1>6, <2>2 DEF RestrictedMode
    <3>2. f.op = "restrictedMode" /\ f.ok = b /\ f.slot = 0 /\ f.act = "none"
      BY DEF Fun, Call
    <3>3. f \in Frame
      <4>1. RestrictedMode(b) \in Seq(Frame)
        BY FrameTypes DEF RatTypes
      <4>2. << f >> \in Seq(Frame) /\ Len(<< f >>) = 1 /\ << f >>[1] = f
        BY <1>6, <3>1, <4>1
      <4> HIDE DEF f
      <4> QED
        BY <4>2
    <3> HIDE DEF f
    <3>4. PlainFrame(f)
      BY <3>2 DEF PlainFrame
    <3>5. /\ PlainStack' /\ \A z, d : Switches(z, d)' <=> f.op = "switch" /\ f.slot = z /\ f.caller = d
          /\ \A x : Restricting(x)' <=> f.op = "restrictedMode" /\ f.ok = x
      BY <3>1, <3>3, <3>4, OneCall
    <3>6. /\ \A z, d : ~Switches(z, d)'
          /\ Restricting(b)' /\ ~Restricting(~b)'
      BY <3>2, <3>5
    <3> QED
      BY <2>2, <3>5, <3>6
  <2> QED
    BY <2>1, <2>2
<1>7. /\ PlainStack' /\ \A z, d : ~Switches(z, d)'
      /\ Restricting(TRUE)' => EcbmRestricts /\ inEmergency'
      /\ Restricting(FALSE)' => EcbmRestricts /\ ~inEmergency'
      /\ EcbmRestricts => (inEmergency <=> IF inEmergency' THEN ~Restricting(TRUE)' ELSE Restricting(FALSE)')
  <2>1. CASE stack' = << >> /\ (inEmergency' <=> inEmergency)
    BY <2>1 DEF PlainStack, Switches, Restricting
  <2>2. CASE stack' = RestrictedMode(TRUE) /\ ~inEmergency /\ inEmergency'
    <3>1. TRUE \in BOOLEAN /\ ~TRUE = FALSE
      OBVIOUS
    <3> QED
      BY <1>6, <2>2, <3>1
  <2>3. CASE stack' = RestrictedMode(FALSE) /\ inEmergency /\ ~inEmergency'
    <3>1. FALSE \in BOOLEAN /\ ~FALSE = TRUE
      OBVIOUS
    <3> QED
      BY <1>6, <2>3, <3>1
  <2> QED
    BY <1>5, <2>1, <2>2, <2>3
<1>8. NoEmergency'
  BY <1>1, <1>2, <1>7 DEF NoEmergency
<1>9. EccRestricts'
  <2>1. EcbmRestricts' = EcbmRestricts /\ inst.eccMode # 0 /\ inst' = inst
    BY <1>4 DEF EcbmRestricts
  <2>2. restrictedCount[0] = IF EcbmRestricts /\ inEmergency THEN 1 ELSE 0
    BY <1>1, <1>3 DEF EccRestricts
  <2>3. \A s \in Slots : restrictedCount[s] \in {0, 1} /\ (restrictedCount[s] = 1 => Slots = {0})
    BY <1>1 DEF EccRestricts
  <2>4. \A s \in Slots' : restrictedCount'[s] \in {0, 1} /\ (restrictedCount'[s] = 1 => Slots' = {0})
    BY <1>1, <1>2, <2>3
  <2>5. restrictedCount'[0] = IF EcbmRestricts /\ (IF inEmergency' THEN ~Restricting(TRUE)'
                                                   ELSE Restricting(FALSE)') THEN 1 ELSE 0
    <3>1. restrictedCount'[0] = restrictedCount[0]
      BY <1>2
    <3>2. CASE EcbmRestricts
      <4>1. inEmergency <=> IF inEmergency' THEN ~Restricting(TRUE)' ELSE Restricting(FALSE)'
        BY <1>7, <3>2
      <4> QED
        BY <2>2, <3>1, <3>2, <4>1
    <3>3. CASE ~EcbmRestricts
      BY <2>2, <3>1, <3>3
    <3> QED
      BY <3>2, <3>3
  <2>6. /\ Restricting(TRUE)' => inEmergency' /\ EcbmRestricts
        /\ Restricting(FALSE)' => ~inEmergency' /\ EcbmRestricts
    BY <1>7
  <2>7. restrictedCount'[0] = IF EcbmRestricts' /\ (IF inEmergency' THEN ~Restricting(TRUE)'
                                                    ELSE Restricting(FALSE)') THEN 1 ELSE 0
    BY <2>1, <2>5
  <2>8. /\ Restricting(TRUE)' => inEmergency' /\ EcbmRestricts'
        /\ Restricting(FALSE)' => ~inEmergency' /\ EcbmRestricts'
    BY <2>1, <2>6
  <2>9. inst'.eccMode # 0
    BY <2>1
  <2> QED
    BY <2>4, <2>7, <2>8, <2>9 DEF EccRestricts
<1>10. ASSUME NEW z \in Slots \ failed PROVE LastIsRight(z)'
  <2>1. \A d \in Callers : ~Switches(z, d) /\ ~Switches(z, d)'
    BY <1>3, <1>7
  <2> QED
    BY <1>1, <1>2, <1>10, <2>1, RightKept DEF LastSwitch
<1>11. Woken'
  <2>1. (Blocked' <=> Blocked) /\ \A z \in Slots : HasPending(z)' <=> HasPending(z)
    BY <1>1, <1>2 DEF Blocked, InCall, HasPending
  <2> QED
    BY <1>1, <1>3, <2>1 DEF Woken
<1>12. NotPassed'
  BY <1>7 DEF NotPassed
<1> QED
  BY <1>1, <1>2, <1>8, <1>9, <1>10, <1>11, <1>12 DEF LastSwitch
-----------------------------------------------------------------------------
(* The invariant *)

(* Every step keeps the last switch of a slot right. *)
LEMMA LastSwitchStep ==
  ASSUME RatTypes, OneSwitch, Plain, LastSwitch, [Next]_allVars, inst' = inst
  PROVE  LastSwitch'
<1>1. OneSwitch'
  BY OneSwitchStep
<1>2. CASE UNCHANGED allVars
  <2>1. UNCHANGED << inst, keptVars, pend, stack, modemVars, boundVars, failed, redialVars >>
    BY <1>2 DEF allVars, vars, ratVars
  <2>2. UNCHANGED << inSwitching, cur, def, settings, restrictedMode, restrictedCount, riljType, calls,
                     scanning, scans, mcl, inEmergency, eccAsked, eccModes, dial, mdCall, mdDue, mdEcbm,
                     resumed, mo, dials >>
    BY <2>1 DEF keptVars, modemVars, boundVars, redialVars, rdKept, rdCall, rdMode
  <2>3. Slots' = Slots /\ Switching' = Switching /\ Top' = Top
    BY <2>1, <2>2 DEF Slots, Switching, Top
  <2>4. \A z \in Slots, d \in Callers : Switches(z, d)' <=> Switches(z, d)
    BY <2>1, <2>3 DEF Switches
  <2>5. \A b \in BOOLEAN : Restricting(b)' <=> Restricting(b)
    BY <2>1, <2>3 DEF Restricting
  <2>6. \A z \in Slots : (HasPending(z)' <=> HasPending(z)) /\ (Running(z)' <=> Running(z))
    BY <2>1, <2>2, <2>3 DEF HasPending, Running
  <2>7. Blocked' <=> Blocked
    BY <2>2, <2>3 DEF Blocked, InCall
  <2>8. NoEmergency'
    BY <2>1, <2>2, <2>3 DEF LastSwitch, NoEmergency, PlainStack, PlainFrame
  <2>9. EccRestricts'
    BY <2>1, <2>2, <2>3, <2>5 DEF LastSwitch, EccRestricts, EcbmRestricts
  <2>10. Woken'
    BY <2>1, <2>3, <2>6, <2>7 DEF LastSwitch, Woken
  <2>11. NotPassed'
    BY <2>1, <2>3, <2>4, <2>7 DEF LastSwitch, NotPassed, Callers
  <2>12. ASSUME NEW z \in Slots \ failed PROVE LastIsRight(z)'
    <3>1. LastInit(z)' = LastInit(z) /\ InitTarget(z, def[z])' = InitTarget(z, def[z])
      BY <2>2 DEF LastInit, InitTarget
    <3>2. /\ Switches(z, "normal")' <=> Switches(z, "normal")
          /\ Switches(z, "init")' <=> Switches(z, "init")
      BY <2>4, <2>12 DEF Callers
    <3> QED
      BY <2>1, <2>2, <2>3, <2>6, <2>12, <3>1, <3>2 DEF LastSwitch, LastIsRight
  <2> QED
    BY <2>1, <2>3, <2>8, <2>9, <2>10, <2>11, <2>12 DEF LastSwitch
<1>3. CASE Next
  <2>1. \/ \E on \in BOOLEAN : SetEccMode(on)
        \/ OnRatSwitchDone
        \/ /\ UNCHANGED redialVars
           /\ \/ RatCalls /\ ~SwitchAbortsScan
              \/ RatFails
              \/ \E i \in DOMAIN mcl : ResponseGmss(i) \/ ResponseSet(i)
              \/ \E s \in Slots : CallStarts(s) \/ CallEnds(s)
              \/ \E s \in Slots, t \in AskedTypes : SetPreferredNetworkType(s, t)
              \/ \E s \in Slots, t \in AskedTypes, b \in BOOLEAN : ModeSwitch(s, t, b)
    BY <1>3, PlainSteps DEF LastSwitch
  <2>2. ASSUME inSwitching' = inSwitching PROVE \A s \in Slots : Running(s)' <=> Running(s)
    <3>1. ~SwitchStarts
      BY <2>2 DEF SwitchStarts, MayStart, MayRun, MustWait
    <3>2. ~SwitchEnds
      <4> SUFFICES ASSUME SwitchEnds PROVE FALSE
        OBVIOUS
      <4>1. PICK i \in DOMAIN mcl : ResponseSet(i) \/ \E b \in BOOLEAN : ResponseSetFails(i, b)
        BY DEF SwitchEnds
      <4>2. inSwitching' = FALSE /\ i \in Switching
        BY <4>1, SwitchAnswered DEF ResponseSet, ResponseSetFails, UpdateState
      <4> QED
        BY <2>2, <4>2 DEF OneSwitch
    <3> QED
      BY <1>3, <3>1, <3>2, SwitchesStay
  <2>3. ASSUME NEW on \in BOOLEAN, SetEccMode(on) PROVE LastSwitch'
    <3>1. inSwitching' = inSwitching
      BY <2>3 DEF SetEccMode, ratKept, keptVars
    <3> QED
      BY <1>1, <2>2, <2>3, <3>1, EccModeKept
  <2>4. CASE OnRatSwitchDone
    <3>1. inSwitching' = inSwitching /\ UNCHANGED redialVars
      BY <2>4 DEF OnRatSwitchDone, ratKept, keptVars
    <3> QED
      BY <1>1, <2>2, <2>4, <3>1, AfterKept
  <2>5. ASSUME UNCHANGED redialVars, RatCalls, ~SwitchAbortsScan PROVE LastSwitch'
    <3>1. CASE SwitchStarts
      BY <2>5, <3>1, StartsKept
    <3>2. CASE ~SwitchStarts
      <4>1. inSwitching' = inSwitching
        BY <2>5, <3>2 DEF RatCalls, SwitchWaits, SwitchRestricted, SwitchInCall, SwitchDone, ProcessPending,
                          FinishResponse, OnCallEnded, OnRestrictedModeChanged, keptVars
      <4>2. \A s \in Slots : Running(s)' <=> Running(s)
        BY <2>2, <4>1
      <4> QED
        BY <1>1, <2>5, <3>2, <4>2, WaitsKept, RestrictedKept, InCallKept, DoneKept, ProcessKept, AfterKept,
           RestrictionKept DEF RatCalls
    <3> QED
      BY <3>1, <3>2
  <2>6. ASSUME UNCHANGED redialVars, RatFails PROVE LastSwitch'
    BY <1>1, <2>6, AnswerKept DEF RatFails
  <2>7. ASSUME UNCHANGED redialVars, NEW i \in DOMAIN mcl, ResponseGmss(i) \/ ResponseSet(i) PROVE LastSwitch'
    <3>1. CASE ResponseSet(i)
      BY <1>1, <2>7, <3>1, AnswerKept
    <3>2. CASE ResponseGmss(i)
      <4>1. inSwitching' = inSwitching
        BY <3>2 DEF ResponseGmss, keptVars
      <4> QED
        BY <1>1, <2>2, <2>7, <3>2, <4>1, QuietKept
    <3> QED
      BY <2>7, <3>1, <3>2
  <2>8. ASSUME UNCHANGED redialVars, NEW s \in Slots, CallStarts(s) \/ CallEnds(s) PROVE LastSwitch'
    <3>1. inSwitching' = inSwitching
      BY <2>8 DEF CallStarts, CallEnds, CallEndsThen, keptVars
    <3> QED
      BY <1>1, <2>2, <2>8, <3>1, QuietKept, CallEndKept
  <2>9. ASSUME UNCHANGED redialVars, NEW s \in Slots, NEW t \in AskedTypes, SetPreferredNetworkType(s, t)
        PROVE  LastSwitch'
    <3>1. inSwitching' = inSwitching
      BY <2>9 DEF SetPreferredNetworkType
    <3> QED
      BY <1>1, <2>2, <2>9, <3>1, FrameworkKept
  <2>10. ASSUME UNCHANGED redialVars, NEW s \in Slots, NEW t \in AskedTypes, NEW b \in BOOLEAN,
                ModeSwitch(s, t, b)
         PROVE  LastSwitch'
    <3>1. inSwitching' = inSwitching
      BY <2>10 DEF ModeSwitch
    <3> QED
      BY <1>1, <2>2, <2>10, <3>1, ModeKept
  <2> QED
    BY <2>1, <2>3, <2>4, <2>5, <2>6, <2>7, <2>8, <2>9, <2>10
<1> QED
  BY <1>2, <1>3

(* The daemon starts with nothing to switch. *)
LEMMA InitInvariant == Init => IInv
<1> SUFFICES ASSUME Init PROVE IInv
  OBVIOUS
<1>1. inst \in Instances /\ InitRat /\ InitRedial
  BY DEF Init, InitRat
<1>2. 0 \in Slots /\ MaxSet \in Nat
  BY <1>1, SlotFacts
<1>3. NoType \in AnyType /\ "normal" \in Callers /\ "none" \in Acts /\ NoMsg \in 0 .. MaxSet
  BY <1>2 DEF AnyType, Callers, Acts, NoMsg
<1>4. RatTypes
  <2>1. NoRecord \in Record
    BY <1>1, RecordTypes
  <2>2. [type |-> NoType, caller |-> "normal", act |-> "none", msg |-> NoMsg, def |-> NoType] \in Setting
    BY <1>3 DEF Setting
  <2>3. /\ settings \in [Slots -> Setting] /\ pend \in [Slots -> [Callers -> Record]]
        /\ stack \in Seq(Frame) /\ mcl \in Seq(Request)
    BY <1>1, <2>1, <2>2 DEF InitRat
  <2>4. /\ sets \in 0 .. MaxSet /\ scans \in Nat /\ dials \in Nat /\ eccModes \in Nat
    BY <1>1, <1>2 DEF InitRat, InitRedial
  <2> QED
    BY <1>1, <1>2, <1>3, <2>3, <2>4 DEF InitRat, RatTypes
<1>5. Switching = {}
  BY <1>1 DEF InitRat, Switching
<1>6. OneSwitch
  BY <1>1, <1>5 DEF OneSwitch, InitRat
<1>7. Plain => LastSwitch
  <2> SUFFICES ASSUME Plain PROVE LastSwitch
    OBVIOUS
  <2>1. stack = << >> /\ mcl = << >> /\ \A s \in Slots, c \in Callers : pend[s][c] = NoRecord
    BY <1>1 DEF InitRat
  <2>2. \A s \in Slots, c \in Callers : pend[s][c].type = NoType /\ pend[s][c].act = "none"
    BY <2>1 DEF NoRecord
  <2>3. \A z, d : ~Switches(z, d)
    BY <2>1 DEF Switches
  <2>4. NoEmergency
    <3>1. PlainStack
      BY <2>1 DEF PlainStack
    <3>2. \A s \in Slots : settings[s].act = "none" /\ settings[s].caller # "restrict" /\ ~restrictedMode[s]
      BY <1>1 DEF InitRat
    <3>3. /\ dial = "none" /\ mdCall = "none" /\ ~mdDue /\ ~mdEcbm /\ ~resumed /\ mo = "none" /\ dials = 0
          /\ scanning = {} /\ scans = 0 /\ \A i \in DOMAIN mcl : mcl[i].op # "abort"
      BY <1>1, <2>1 DEF InitRat, InitRedial
    <3> QED
      BY <2>2, <3>1, <3>2, <3>3 DEF NoEmergency, Callers
  <2>5. EccRestricts
    BY <1>1, <1>2, <2>1 DEF EccRestricts, Restricting, InitRat, InitRedial
  <2>6. Woken
    BY <2>2 DEF Woken, HasPending
  <2>7. NotPassed
    BY <2>3 DEF NotPassed
  <2>8. \A s \in Slots : LastIsRight(s)
    <3> TAKE s \in Slots
    <3>1. def[s] = NoType /\ ~Running(s)
      BY <1>1, <1>5 DEF InitRat, Running
    <3>2. pend[s]["normal"].type = NoType /\ pend[s]["init"].type = NoType
      BY <2>2 DEF Callers
    <3> QED
      BY <2>3, <3>1, <3>2 DEF LastIsRight
  <2> QED
    BY <2>4, <2>5, <2>6, <2>7, <2>8 DEF LastSwitch
<1> QED
  BY <1>4, <1>6, <1>7 DEF IInv

(* Every step keeps the invariant. *)
LEMMA StepInvariant == IInv /\ [Next]_allVars => IInv'
<1> SUFFICES ASSUME IInv, [Next]_allVars PROVE IInv'
  OBVIOUS
<1>1. RatTypes' /\ OneSwitch'
  BY StepTypes, OneSwitchStep DEF IInv
<1>2. inst' = inst
  BY DEF Next, allVars, vars, ratVars
<1>3. Plain' <=> Plain
  BY <1>2 DEF Plain, Slots
<1>4. Plain => LastSwitch'
  BY <1>2, LastSwitchStep DEF IInv
<1> QED
  BY <1>1, <1>3, <1>4 DEF IInv

(* In every state one RAT at most is being switched, for which the flag and mRatSettings stand;
   a slot runs what the daemon takes it to run; and, without an emergency call and a scan and
   with two slots at most, what waits is taken up as soon as it may run, no switch passes
   another of its slot that is to run before it, and the last of them is right. *)
THEOREM RatSwitchInvariant == Spec => []IInv
<1> QED
  BY InitInvariant, StepInvariant, PTL DEF Spec

(* The invariant has what the property says. *)
LEMMA InvariantSettles == IInv => TypeSettles
<1> SUFFICES ASSUME IInv PROVE TypeSettles
  OBVIOUS
<1>1. RatTypes /\ OneSwitch
  BY DEF IInv
<1>2. Cardinality(Switching) = IF inSwitching THEN 1 ELSE 0
  <2>1. CASE inSwitching
    <3>1. PICK i \in Switching : Switching = {i}
      BY <1>1, <2>1 DEF OneSwitch
    <3> QED
      BY <2>1, <3>1, FS_Singleton
  <2>2. CASE ~inSwitching
    <3>1. Switching = {}
      BY <1>1, <2>2 DEF OneSwitch
    <3> QED
      BY <2>2, <3>1, FS_EmptySet
  <2> QED
    BY <2>1, <2>2
<1>3. ASSUME NEW s \in Slots, AtRest(s), NoType \notin {riljType[s], def[s], cur[s]},
             inst.dial = 0, inst.scan = 0, Slots \subseteq {0, 1}
      PROVE  modemType[s] = cur[s] /\ cur[s] = InitTarget(s, def[s])
  <2>1. LastSwitch
    BY <1>3 DEF IInv, Plain
  <2>2. stack = << >> /\ Switching = {} /\ ~HasPending(s) /\ s \in Slots \ failed
    BY <1>3 DEF AtRest
  <2>3. LastIsRight(s) /\ ~Running(s) /\ \A d : ~Switches(s, d)
    BY <2>1, <2>2 DEF LastSwitch, Running, Switches
  <2>4. pend[s]["normal"].type = NoType /\ pend[s]["init"].type = NoType
    BY <2>2 DEF HasPending, Callers
  <2>5. cur[s] = InitTarget(s, def[s])
    BY <1>3, <2>3, <2>4 DEF LastIsRight
  <2> QED
    BY <1>1, <2>5 DEF OneSwitch
<1> QED
  BY <1>2, <1>3 DEF TypeSettles

(* In the whole daemon at most one slot's RAT is being switched, and sIsInSwitching says
   whether one is; a slot at rest runs the type the framework asked for last, as far as the
   slot's default type allows (switchNwRat, processPendingRatSwitchRecord, updateState). *)
THEOREM TypeSettlesCorrect == Spec => []TypeSettles
<1> QED
  BY RatSwitchInvariant, InvariantSettles, PTL
-----------------------------------------------------------------------------
(* The emergency sessions: their invariant, in named parts *)

One(b)   == IF b THEN 1 ELSE 0
Dialing  == redialState = "dialing"

\* What there is of emergency sessions: a request to the modem, a call, a session whose
\* end the modem is to report, its callback mode, SET_ECC_MODE before its call, a call that
\* is to be dialed again, and a failure that is being handled.
Sessions == One(dial # "none") + One(mdCall # "none") + One(mdDue) + One(mdEcbm) + One(eccAsked)
            + One(Dialing /\ ~hangUping) + One(Calls("forceRelease"))

RedialTypes ==
  /\ redialState \in {"none", "dialing", "dialed", "done"}
  /\ ratState \in BOOLEAN /\ ratOp \in {"none", "global", "resume", "resume_pending"}
  /\ emcs \in Nat /\ inEmergency \in BOOLEAN /\ ecbm \in BOOLEAN
  /\ eccModeSent \in BOOLEAN /\ eccAsked \in BOOLEAN /\ mo \in {"none", "dialed", "known"}
  /\ hangUping \in BOOLEAN /\ deferred \in BOOLEAN /\ resumed \in BOOLEAN
  /\ waitsForCount \in BOOLEAN /\ voice \in {0, 1} /\ dial \in {"none", "dial", "redial"}
  /\ mdCall \in {"none", "new", "up"} /\ mdDue \in BOOLEAN /\ mdEcbm \in BOOLEAN
  /\ dials <= MaxDial /\ late \in BOOLEAN

\* mEmcsCount counts the sessions, of which SET_ECC_MODE may hide some; it is never too
\* high, and not zero outside the emergency mode.
SessionsCounted ==
  /\ emcs <= Sessions
  /\ inst.eccMode = 0 => emcs = Sessions /\ ~eccModeSent
  /\ emcs > 0 => inEmergency
  /\ eccAsked => eccModeSent

\* A call q holds the operation op.
Within(op, q) == \E i \in DOMAIN q : q[i].op = op

\* A session is in one place at a time.
OneSession ==
  /\ dial # "none" => mdCall = "none" /\ mo # "none"
  /\ mdCall # "none" => ~mdDue /\ mo # "none"
  /\ mdCall = "up" => mo = "known" /\ voice = 1 /\ 0 \in calls
  /\ voice = 1 => mdCall = "up" \/ Within("noCall", stack)
  /\ ~(mdDue /\ mdEcbm)
  /\ Dialing => dial = "none" /\ mdCall = "none" /\ mo = "known"
  /\ Dialing /\ ~hangUping => ~mdEcbm /\ ~mdDue
  /\ mo = "known" => mdCall # "none" \/ dial # "none" \/ Dialing \/ Calls("forceRelease")
  /\ redialState # "none" /\ mo # "none" => 0 \in calls
  /\ Within("noCall", stack) => mo = "none" \/ Calls("forceRelease")
  /\ Calls("forceRelease") => dial = "none" /\ mdCall = "none" /\ ~Dialing
  /\ resumed => Dialing /\ hangUping
  /\ mo # "none" => dials > 0

\* The redial's actions are those of its slot's switches, and on the stack only the call on
\* top has one: below it are calls that others have left.
TailOps   == {"process", "finish", "callEnded", "restrictedMode", "countZero", "noCall"}
Tailed(q) == \A i \in DOMAIN q : q[i].act = "none" /\ q[i].op \in TailOps

RecordActs ==
  \A s \in Slots, c \in Callers :
    pend[s][c].act # "none" => s = 0 /\ (pend[s][c].act = "global" => c = "restrict")
ActsOfSlot == /\ cSlot = 0 /\ RecordActs
              /\ \A s \in Slots : settings[s].act # "none" => s = 0
ActsRight(f) ==
  /\ f.act # "none" => f.slot = 0 /\ f.op \in {"ratMode", "act", "switch"}
  /\ f.act # "none" /\ f.op = "switch" =>
       f.type # NoType /\ (f.act = "global" => f.caller = "restrict")
ActsOnTop ==
  stack # << >> =>
    /\ Tailed(Rest) /\ ActsRight(Top)
    /\ Top.op = "ratMode" /\ Top.act = "global" => ~hangUping
    /\ Top.op = "finish" => ~inSwitching
    /\ Within("finish", Rest) => Top.op = "signal" /\ ~inSwitching /\ ~Within("finish", Tail(Rest))

\* The answer to the slot's switch is being handled
Answering ==
  \/ Calls("finish") /\ Top.slot = 0
  \/ Calls("signal") /\ Rest # << >> /\ Head(Rest).op = "finish" /\ Head(Rest).slot = 0
Busy       == Running(0) \/ Answering
TopActs(a) == stack # << >> /\ Top.act = a

\* The switch to the global mode, whose action dials again, is in one place at most: at the
\* stack's top, waiting, or with the modem.
GlobalOut   == settings[0].act = "global" /\ Busy
GlobalWaits == pend[0]["restrict"].act = "global" /\ pend[0]["restrict"].type # NoType
GlobalOnce ==
  /\ ~(TopActs("global") /\ GlobalWaits) /\ ~(TopActs("global") /\ GlobalOut)
  /\ ~(GlobalWaits /\ GlobalOut)
  /\ TopActs("global") \/ GlobalWaits \/ GlobalOut => Dialing /\ ~resumed

\* When no switch of the redial's had to wait or was dropped, the emergency mode is on its
\* way to be left when the last session has ended.
ResumeOut == settings[0].act = "resume" /\ Busy
Resuming  == (TopActs("resume") /\ Top.op # "ratMode") \/ ResumeOut
Counting == ratOp = "resume_pending" /\ waitsForCount /\ (voice = 1 \/ Within("countZero", stack))
Releasing == Resuming \/ TopActs("resume") \/ Calls("emergencyOff") \/ Counting
Released ==
  /\ \A c \in Callers : pend[0][c].act = "none"
  /\ ratOp = "resume" => Resuming
  /\ inEmergency => Sessions > 0 \/ Releasing

SessionInv == /\ RedialTypes /\ SessionsCounted /\ OneSession /\ ActsOfSlot /\ ActsOnTop /\ GlobalOnce
              /\ (~late => Released)
-----------------------------------------------------------------------------
(* The stack: what is put on its top and at its end *)

(* A list of calls begins with one. *)
LEMMA FirstFrame ==
  ASSUME NEW F, NEW q \in Seq(F), q # << >>
  PROVE  /\ Head(q) \in F /\ Tail(q) \in Seq(F)
         /\ \A op : Within(op, q) <=> Head(q).op = op \/ Within(op, Tail(q))
         /\ Tailed(q) => /\ Tailed(Tail(q)) /\ Head(q).act = "none" /\ Head(q).op \in TailOps
<1>1. /\ DOMAIN q = 1 .. Len(q) /\ Len(q) \in Nat /\ Len(q) >= 1 /\ Head(q) = q[1]
      /\ Tail(q) \in Seq(F) /\ DOMAIN Tail(q) = 1 .. Len(q) - 1 /\ Head(q) \in F
      /\ \A i \in 1 .. Len(q) - 1 : Tail(q)[i] = q[i + 1]
  OBVIOUS
<1>2. ASSUME NEW op PROVE Within(op, q) <=> Head(q).op = op \/ Within(op, Tail(q))
  <2>1. ASSUME NEW i \in DOMAIN q, q[i].op = op PROVE Head(q).op = op \/ Within(op, Tail(q))
    <3>1. CASE i = 1
      BY <1>1, <2>1, <3>1
    <3>2. CASE i # 1
      <4>1. i - 1 \in DOMAIN Tail(q) /\ Tail(q)[i - 1] = q[i]
        BY <1>1, <3>2
      <4> QED
        BY <2>1, <4>1 DEF Within
    <3> QED
      BY <3>1, <3>2
  <2>2. ASSUME NEW i \in DOMAIN Tail(q), Tail(q)[i].op = op PROVE Within(op, q)
    <3>1. i + 1 \in DOMAIN q /\ q[i + 1] = Tail(q)[i]
      BY <1>1
    <3> QED
      BY <2>2, <3>1 DEF Within
  <2>3. Head(q).op = op => Within(op, q)
    BY <1>1 DEF Within
  <2> QED
    BY <2>1, <2>2, <2>3 DEF Within
<1>3. Tailed(q) => /\ Tailed(Tail(q)) /\ Head(q).act = "none" /\ Head(q).op \in TailOps
  <2> SUFFICES ASSUME Tailed(q)
               PROVE  Tailed(Tail(q)) /\ Head(q).act = "none" /\ Head(q).op \in TailOps
    OBVIOUS
  <2>1. 1 \in DOMAIN q
    BY <1>1
  <2>2. ASSUME NEW i \in DOMAIN Tail(q) PROVE Tail(q)[i].act = "none" /\ Tail(q)[i].op \in TailOps
    <3>1. i + 1 \in DOMAIN q /\ q[i + 1] = Tail(q)[i]
      BY <1>1
    <3> QED
      BY <3>1 DEF Tailed
  <2> QED
    BY <1>1, <2>1, <2>2 DEF Tailed
<1> QED
  BY <1>1, <1>2, <1>3

(* Two lists of calls become one. *)
LEMMA JoinedFrames ==
  ASSUME NEW F, NEW p \in Seq(F), NEW q \in Seq(F)
  PROVE  /\ p \o q \in Seq(F)
         /\ \A op : Within(op, p \o q) <=> Within(op, p) \/ Within(op, q)
         /\ Tailed(p) /\ Tailed(q) => Tailed(p \o q)
<1>1. /\ p \o q \in Seq(F) /\ DOMAIN (p \o q) = 1 .. Len(p) + Len(q)
      /\ DOMAIN p = 1 .. Len(p) /\ DOMAIN q = 1 .. Len(q) /\ Len(p) \in Nat /\ Len(q) \in Nat
      /\ \A i \in 1 .. Len(p) + Len(q) : (p \o q)[i] = IF i <= Len(p) THEN p[i] ELSE q[i - Len(p)]
  BY ConcatProperties
<1>2. \A i \in DOMAIN (p \o q) : \/ i \in DOMAIN p /\ (p \o q)[i] = p[i]
                                 \/ i - Len(p) \in DOMAIN q /\ (p \o q)[i] = q[i - Len(p)]
  BY <1>1
<1>3. \A i \in DOMAIN p : i \in DOMAIN (p \o q) /\ (p \o q)[i] = p[i]
  BY <1>1
<1>4. \A i \in DOMAIN q : i + Len(p) \in DOMAIN (p \o q) /\ (p \o q)[i + Len(p)] = q[i]
  BY <1>1
<1>5. ASSUME NEW op PROVE Within(op, p \o q) <=> Within(op, p) \/ Within(op, q)
  <2>1. Within(op, p \o q) => Within(op, p) \/ Within(op, q)
    BY <1>2, Zenon DEF Within
  <2>2. Within(op, p) => Within(op, p \o q)
    BY <1>3, Zenon DEF Within
  <2>3. Within(op, q) => Within(op, p \o q)
    BY <1>4, Zenon DEF Within
  <2> QED
    BY <2>1, <2>2, <2>3
<1>6. Tailed(p) /\ Tailed(q) => Tailed(p \o q)
  BY <1>2 DEF Tailed
<1> QED
  BY <1>1, <1>5, <1>6

(* A call is put on the top. *)
LEMMA PutOnTop ==
  ASSUME NEW F, NEW f \in F, NEW q \in Seq(F)
  PROVE  /\ << f >> \o q \in Seq(F) /\ << f >> \o q # << >>
         /\ Head(<< f >> \o q) = f /\ Tail(<< f >> \o q) = q
         /\ \A op : Within(op, << f >> \o q) <=> f.op = op \/ Within(op, q)
         /\ f.act = "none" /\ f.op \in TailOps /\ Tailed(q) => Tailed(<< f >> \o q)
<1>1. << f >> \in Seq(F) /\ Len(<< f >>) = 1 /\ << f >>[1] = f /\ DOMAIN << f >> = {1}
  OBVIOUS
<1>2. /\ << f >> \o q \in Seq(F) /\ Len(<< f >> \o q) = 1 + Len(q)
      /\ \A i \in 1 .. 1 + Len(q) : (<< f >> \o q)[i] = IF i <= 1 THEN << f >>[i] ELSE q[i - 1]
  BY <1>1, ConcatProperties
<1>3. << f >> \o q # << >> /\ Head(<< f >> \o q) = f
  BY <1>1, <1>2
<1>4. Tail(<< f >> \o q) = q
  <2> DEFINE p == << f >> \o q
  <2>1. Tail(p) \in Seq(F) /\ Len(Tail(p)) = Len(q) /\ \A i \in 1 .. Len(q) : Tail(p)[i] = p[i + 1]
    BY <1>2, <1>3
  <2>2. \A i \in 1 .. Len(q) : p[i + 1] = q[i]
    BY <1>2
  <2> HIDE DEF p
  <2> QED
    BY <2>1, <2>2, SeqEqual
<1>5. \A op : Within(op, << f >>) <=> f.op = op
  BY <1>1 DEF Within
<1>6. f.act = "none" /\ f.op \in TailOps => Tailed(<< f >>)
  BY <1>1 DEF Tailed
<1> QED
  BY <1>1, <1>2, <1>3, <1>4, <1>5, <1>6, JoinedFrames

(* No call is left, or only ones without an action. *)
LEMMA TailLeft ==
  ASSUME RatTypes, inst' = inst, NEW t \in Seq(Frame), Tailed(t), ~Within("finish", t), stack' = t
  PROVE  /\ ActsOnTop' /\ ~Answering' /\ \A a : a # "none" => ~TopActs(a)'
         /\ \A op : Calls(op)' => op \in TailOps
         /\ \A op : Within(op, stack)' <=> Within(op, t)
<1>1. CASE t = << >>
  BY <1>1 DEF ActsOnTop, Answering, TopActs, Calls
<1>2. CASE t # << >>
  <2>1. /\ Tailed(Tail(t)) /\ Head(t).act = "none" /\ Head(t).op \in TailOps
        /\ Head(t).op # "finish" /\ ~Within("finish", Tail(t))
    BY <1>2, FirstFrame
  <2>2. Top' = Head(t) /\ Rest' = Tail(t) /\ stack' # << >>
    BY <1>2 DEF Top, Rest
  <2>3. Top'.op \notin {"ratMode", "switch", "signal"}
    BY <2>1, <2>2 DEF TailOps
  <2> QED
    BY <2>1, <2>2, <2>3 DEF ActsOnTop, ActsRight, Answering, TopActs, Calls
<1> QED
  BY <1>1, <1>2

(* A call is left on the top of such ones. *)
LEMMA NewOnTop ==
  ASSUME RatTypes, inst' = inst, NEW f \in Frame, NEW t \in Seq(Frame), Tailed(t), ~Within("finish", t),
         stack' = << f >> \o t, ActsRight(f), f.op # "finish",
         f.op = "ratMode" /\ f.act = "global" => ~hangUping'
  PROVE  /\ ActsOnTop' /\ ~Answering' /\ stack' # << >> /\ Top' = f
         /\ \A a : TopActs(a)' <=> f.act = a
         /\ \A op : Calls(op)' <=> f.op = op
         /\ \A op : Within(op, stack)' <=> f.op = op \/ Within(op, t)
<1>1. /\ stack' # << >> /\ Top' = f /\ Rest' = t
      /\ \A op : Within(op, stack)' <=> f.op = op \/ Within(op, t)
  BY PutOnTop DEF Top, Rest
<1>2. t # << >> => Head(t).op # "finish"
  BY FirstFrame
<1> QED
  BY <1>1, <1>2 DEF ActsOnTop, ActsRight, Answering, TopActs, Calls

(* What is left when the call on the top has been made. *)
LEMMA RestOfStack ==
  ASSUME RatTypes, ActsOnTop, stack # << >>
  PROVE  /\ Rest \in Seq(Frame) /\ Tailed(Rest) /\ Top \in Frame
         /\ \A op : Within(op, stack) <=> Top.op = op \/ Within(op, Rest)
         /\ Top.op # "signal" => ~Within("finish", Rest) /\ (Top.op # "finish" => ~Answering)
         /\ \A s \in Slots : /\ << Process(s) >> \o Rest \in Seq(Frame)
                             /\ Tailed(<< Process(s) >> \o Rest)
                             /\ \A op : Within(op, << Process(s) >> \o Rest) <=> op = "process" \/ Within(op, Rest)
<1>1. /\ Rest \in Seq(Frame) /\ Top \in Frame /\ Tailed(Rest)
      /\ \A op : Within(op, stack) <=> Top.op = op \/ Within(op, Rest)
  BY FirstFrame DEF RatTypes, Top, Rest, ActsOnTop
<1>2. Top.op # "signal" => ~Within("finish", Rest) /\ (Top.op # "finish" => ~Answering)
  BY DEF ActsOnTop, Answering, Calls
<1>3. ASSUME NEW s \in Slots
      PROVE  /\ << Process(s) >> \o Rest \in Seq(Frame) /\ Tailed(<< Process(s) >> \o Rest)
             /\ \A op : Within(op, << Process(s) >> \o Rest) <=> op = "process" \/ Within(op, Rest)
  <2>1. Process(s) \in Frame /\ Process(s).op = "process" /\ Process(s).act = "none"
    BY FrameTypes, FrameFields DEF RatTypes
  <2> QED
    BY <1>1, <2>1, PutOnTop DEF TailOps
<1> QED
  BY <1>1, <1>2, <1>3

(* Where nothing is late after a step, nothing was, and the step dropped nothing. *)
LEMMA LateFacts ==
  ASSUME SessionInv, Next
  PROVE  /\ late' \in BOOLEAN
         /\ ~late' => ~late /\ ~Dropped /\ \A c \in Callers : pend'[0][c].act = "none"
BY DEF Next, Late, SessionInv, RedialTypes

(* The flag tells whether a slot is being switched. *)
LEMMA RunningStays ==
  ASSUME RatTypes, OneSwitch, Next, inSwitching' = inSwitching
  PROVE  \A s \in Slots : Running(s)' <=> Running(s)
<1>1. ~SwitchStarts
  BY DEF SwitchStarts, MayStart, MayRun, MustWait
<1>2. ~SwitchEnds
  <2> SUFFICES ASSUME NEW i \in DOMAIN mcl, ResponseSet(i) \/ \E b \in BOOLEAN : ResponseSetFails(i, b)
               PROVE  FALSE
    BY DEF SwitchEnds
  <2>1. inSwitching' = FALSE /\ mcl[i].op = "set"
    BY DEF ResponseSet, ResponseSetFails, UpdateState, Answered
  <2>2. i \in Switching
    BY <2>1 DEF Switching
  <2> QED
    BY <2>1, <2>2 DEF OneSwitch
<1> QED
  BY <1>1, <1>2, SwitchesStay

(* A record is put into its place: the others keep their actions. *)
LEMMA RecordReplaced ==
  ASSUME RatTypes, NEW s \in Slots, NEW c \in Callers, NEW r \in Record,
         \/ pend' = [pend EXCEPT ![s][c] = r]
         \/ pend' = [pend EXCEPT ![s][c] = r, ![s]["restrict"].type = NoType]
  PROVE  /\ pend'[s][c].act = r.act
         /\ \A z \in Slots, d \in Callers :
              \/ z = s /\ d = c /\ pend'[z][d].act = r.act
              \/ /\ pend'[z][d].act = pend[z][d].act
                 /\ pend'[z][d].type \in {pend[z][d].type, NoType}
<1>1. pend \in [Slots -> [Callers -> Record]] /\ {"normal", "init", "restrict"} = Callers
  BY DEF RatTypes, Callers
<1>2. pend[s] \in [Callers -> Record] /\ pend[s]["restrict"] \in Record
  BY <1>1
<1>3. /\ \A z \in Slots, d \in Callers : (z # s \/ d \notin {c, "restrict"}) => pend'[z][d] = pend[z][d]
      /\ c # "restrict" => pend'[s][c] = r
      /\ c # "restrict" => \/ pend'[s]["restrict"] = pend[s]["restrict"]
                           \/ pend'[s]["restrict"] = [pend[s]["restrict"] EXCEPT !.type = NoType]
      /\ c = "restrict" => \/ pend'[s]["restrict"] = r
                           \/ pend'[s]["restrict"] = [r EXCEPT !.type = NoType]
  BY <1>1, <1>2
<1>4. \A x \in Record : [x EXCEPT !.type = NoType].act = x.act /\ [x EXCEPT !.type = NoType].type = NoType
  BY DEF Record
<1>5. pend'[s][c].act = r.act
  <2>1. [r EXCEPT !.type = NoType].act = r.act
    BY <1>4
  <2>2. pend'[s][c] = r \/ pend'[s][c] = [r EXCEPT !.type = NoType]
    BY <1>3
  <2> QED
    BY <2>1, <2>2
<1>6. ASSUME NEW z \in Slots, NEW d \in Callers, z # s \/ d # c
      PROVE  pend'[z][d].act = pend[z][d].act /\ pend'[z][d].type \in {pend[z][d].type, NoType}
  <2>1. CASE z # s \/ d \notin {c, "restrict"}
    BY <1>3, <2>1
  <2>2. CASE z = s /\ d = "restrict" /\ d # c
    BY <1>2, <1>3, <1>4, <2>2
  <2> QED
    BY <1>6, <2>1, <2>2
<1> QED
  BY <1>5, <1>6

(* A record is reset: all keep their actions. *)
LEMMA RecordReset ==
  ASSUME RatTypes, NEW s \in Slots, NEW c \in Callers, pend' = [pend EXCEPT ![s][c].type = NoType]
  PROVE  /\ \A z \in Slots, d \in Callers : /\ pend'[z][d].act = pend[z][d].act
                                            /\ pend'[z][d].type \in {pend[z][d].type, NoType}
         /\ pend'[s][c].type = NoType
<1>1. pend \in [Slots -> [Callers -> Record]] /\ pend[s] \in [Callers -> Record] /\ pend[s][c] \in Record
  BY DEF RatTypes
<1>2. /\ pend'[s][c] = [pend[s][c] EXCEPT !.type = NoType]
      /\ \A z \in Slots, d \in Callers : (z # s \/ d # c) => pend'[z][d] = pend[z][d]
  BY <1>1
<1>3. pend'[s][c].type = NoType /\ pend'[s][c].act = pend[s][c].act
  BY <1>1, <1>2 DEF Record
<1> QED
  BY <1>2, <1>3

(* The redial's records stay its slot's, and the global one is the one there was. *)
LEMMA RecordsKept ==
  ASSUME RatTypes, RecordActs, inst' = inst, NEW s \in Slots, NEW c \in Callers, NEW a \in Acts,
         a # "none" => s = 0 /\ (a = "global" => c = "restrict"),
         \A z \in Slots, d \in Callers :
           \/ z = s /\ d = c /\ pend'[z][d].act = a
           \/ /\ pend'[z][d].act = pend[z][d].act
              /\ pend'[z][d].type \in {pend[z][d].type, NoType}
  PROVE  RecordActs' /\ (GlobalWaits' => GlobalWaits \/ a = "global")
<1>1. 0 \in Slots /\ Slots' = Slots /\ "restrict" \in Callers
  BY SlotFacts, SameInstance DEF RatTypes, Callers
<1>2. RecordActs'
  BY <1>1 DEF RecordActs
<1>3. GlobalWaits' => GlobalWaits \/ a = "global"
  BY <1>1 DEF GlobalWaits
<1> QED
  BY <1>2, <1>3

(* The same, of a record without an action. *)
LEMMA PlainRecord ==
  ASSUME RatTypes, RecordActs, inst' = inst,
         \A z \in Slots, d \in Callers :
           \/ pend'[z][d].act = "none"
           \/ /\ pend'[z][d].act = pend[z][d].act
              /\ pend'[z][d].type \in {pend[z][d].type, NoType}
  PROVE  RecordActs' /\ (GlobalWaits' => GlobalWaits)
<1>1. 0 \in Slots /\ Slots' = Slots /\ "restrict" \in Callers
  BY SlotFacts, SameInstance DEF RatTypes, Callers
<1>2. RecordActs'
  BY <1>1 DEF RecordActs
<1>3. GlobalWaits' => GlobalWaits
  BY <1>1 DEF GlobalWaits
<1> QED
  BY <1>2, <1>3
-----------------------------------------------------------------------------
(* A step of the RAT switch controller moves the redial's actions on *)

RatOps == {"switch", "process", "finish", "callEnded", "restrictedMode", "signal"}

(* What a call of the RAT switch controller finds. *)
LEMMA RatCallFacts ==
  ASSUME RatTypes, SessionInv, NEW o \in RatOps, Calls(o)
  PROVE  /\ stack # << >> /\ Top \in Frame /\ Top.slot \in Slots /\ Top.act \in Acts /\ Top.op = o
         /\ ~Calls("ratMode") /\ ~Calls("emergencyOff") /\ ~Calls("forceRelease")
         /\ Rest \in Seq(Frame) /\ Tailed(Rest)
         /\ \A op \in {"noCall", "countZero"} : Within(op, stack) <=> Within(op, Rest)
         /\ \A a : TopActs(a) <=> Top.act = a
         /\ Top.act # "none" => /\ o = "switch" /\ Top.slot = 0 /\ Top.type # NoType
                                /\ Top.act = "global" => Top.caller = "restrict"
         /\ o # "signal" => ~Within("finish", Rest) /\ (o # "finish" => ~Answering)
         /\ cSlot = 0 /\ 0 \in Slots
<1>1. stack # << >> /\ Top.op = o /\ ActsOnTop /\ ActsRight(Top) /\ cSlot = 0 /\ 0 \in Slots
  BY SlotFacts DEF Calls, SessionInv, ActsOnTop, ActsOfSlot, RatTypes
<1>2. Top \in Frame /\ Top.slot \in Slots /\ Top.act \in Acts
  BY <1>1, TopTypes
<1>3. /\ Rest \in Seq(Frame) /\ Tailed(Rest)
      /\ \A op : Within(op, stack) <=> Top.op = op \/ Within(op, Rest)
      /\ o # "signal" => ~Within("finish", Rest) /\ (o # "finish" => ~Answering)
  BY <1>1, RestOfStack
<1>4. o \notin {"ratMode", "emergencyOff", "forceRelease", "noCall", "countZero", "act"}
  BY DEF RatOps
<1>5. \A a : TopActs(a) <=> Top.act = a
  BY <1>1 DEF TopActs
<1>6. ~Calls("ratMode") /\ ~Calls("emergencyOff") /\ ~Calls("forceRelease")
  BY <1>1, <1>4 DEF Calls
<1> QED
  BY <1>1, <1>2, <1>3, <1>4, <1>5, <1>6 DEF ActsRight

(* The sessions are what they were. *)
LEMMA SessionsKept ==
  ASSUME SessionInv, Next, UNCHANGED redialVars, ActsOfSlot', ActsOnTop', GlobalOnce',
         ~Calls("ratMode"), ~Calls("emergencyOff"), ~Calls("forceRelease"), ~Calls("forceRelease")',
         Within("noCall", stack)' <=> Within("noCall", stack),
         Within("countZero", stack)' <=> Within("countZero", stack),
         mo # "none" /\ 0 \in calls => 0 \in calls',
         ~late' /\ Resuming => Resuming'
  PROVE  SessionInv'
<1> USE DEF redialVars, rdKept, rdCall, rdMode, rdRat, Dialing
<1>1. inst' = inst
  BY DEF Next
<1>2. Sessions' = Sessions
  BY DEF Sessions, One
<1>3. RedialTypes'
  BY <1>1, LateFacts DEF SessionInv, RedialTypes, MaxDial
<1>4. SessionsCounted'
  BY <1>1, <1>2 DEF SessionInv, SessionsCounted
<1>5. OneSession'
  BY DEF SessionInv, OneSession
<1>6. ~late' => Released'
  <2> SUFFICES ASSUME ~late' PROVE Released'
    OBVIOUS
  <2>1. ~late /\ Released /\ \A c \in Callers : pend'[0][c].act = "none"
    BY LateFacts DEF SessionInv
  <2>2. TopActs("resume") => Resuming
    BY DEF TopActs, Resuming, Calls
  <2>3. Counting => Counting'
    BY DEF Counting
  <2> QED
    BY <1>2, <2>1, <2>2, <2>3 DEF Released, Releasing
<1> QED
  BY <1>3, <1>4, <1>5, <1>6 DEF SessionInv

(* What is with the modem stays there. *)
LEMMA OutKept ==
  ASSUME RatTypes, OneSwitch, Next, inSwitching' = inSwitching, settings'[0].act = settings[0].act,
         Answering' <=> Answering
  PROVE  (GlobalOut' <=> GlobalOut) /\ (ResumeOut' <=> ResumeOut)
<1>1. Running(0)' <=> Running(0)
  BY RunningStays, SlotFacts DEF RatTypes
<1> QED
  BY <1>1 DEF GlobalOut, ResumeOut, Busy

(* A record that is put off with its action. *)
LEMMA PutOff ==
  ASSUME RatTypes, OneSwitch, SessionInv, Next, Calls("switch"),
         QueueRecord(Top.slot, Top.caller, Top.type, Top.act, Top.msg), stack' = Rest,
         UNCHANGED << keptVars, cSlot, calls, redialVars >>
  PROVE  SessionInv'
<1> DEFINE r == [type |-> Top.type, act |-> Top.act, msg |-> Top.msg]
<1>1. "switch" \in RatOps /\ inst' = inst /\ inst \in Instances
  BY DEF RatOps, Next, RatTypes
<1>2. /\ stack # << >> /\ Top.slot \in Slots /\ Top.act \in Acts /\ Rest \in Seq(Frame) /\ Tailed(Rest)
      /\ ~Within("finish", Rest) /\ ~Answering
      /\ \A op \in {"noCall", "countZero"} : Within(op, stack) <=> Within(op, Rest)
      /\ \A a : TopActs(a) <=> Top.act = a
      /\ Top.act # "none" => Top.slot = 0 /\ (Top.act = "global" => Top.caller = "restrict")
      /\ ~Calls("ratMode") /\ ~Calls("emergencyOff") /\ ~Calls("forceRelease") /\ 0 \in Slots
  BY <1>1, RatCallFacts
<1>3. Top.caller \in Callers /\ r \in Record /\ r.act = Top.act
  BY <1>1, <1>2, TopTypes, RecordTypes
<1>4. \/ pend' = [pend EXCEPT ![Top.slot][Top.caller] = r]
      \/ pend' = [pend EXCEPT ![Top.slot][Top.caller] = r, ![Top.slot]["restrict"].type = NoType]
  BY DEF QueueRecord
<1> HIDE DEF r
<1>5. /\ pend'[Top.slot][Top.caller].act = Top.act
      /\ \A z \in Slots, d \in Callers :
           \/ z = Top.slot /\ d = Top.caller /\ pend'[z][d].act = Top.act
           \/ /\ pend'[z][d].act = pend[z][d].act
              /\ pend'[z][d].type \in {pend[z][d].type, NoType}
  BY <1>2, <1>3, <1>4, RecordReplaced
<1>6. RecordActs' /\ (GlobalWaits' => GlobalWaits \/ TopActs("global"))
  BY <1>1, <1>2, <1>3, <1>5, RecordsKept DEF SessionInv, ActsOfSlot
<1>7. /\ ActsOnTop' /\ ~Answering' /\ \A a : a # "none" => ~TopActs(a)'
      /\ ~Calls("forceRelease")' /\ \A op : Within(op, stack)' <=> Within(op, Rest)
  BY <1>1, <1>2, TailLeft DEF TailOps
<1>8. (GlobalOut' <=> GlobalOut) /\ (ResumeOut' <=> ResumeOut)
  BY <1>2, <1>7, OutKept DEF keptVars
<1>9. ActsOfSlot'
  BY <1>1, <1>6 DEF SessionInv, ActsOfSlot, Slots, keptVars
<1>10. GlobalOnce'
  BY <1>6, <1>7, <1>8 DEF SessionInv, GlobalOnce, Dialing, redialVars, rdCall
<1>11. ~late' /\ Resuming => Resuming'
  <2>1. ~late' => Top.act = "none"
    BY <1>2, <1>3, <1>5, LateFacts
  <2> QED
    BY <1>2, <1>8, <2>1 DEF Resuming
<1> QED
  BY <1>2, <1>7, <1>9, <1>10, <1>11, SessionsKept

(* The action b is left on the top: the one that was there, or one that waited. *)
LEMMA ActMoved ==
  ASSUME RatTypes, OneSwitch, SessionInv, Next, NEW o \in RatOps, Calls(o), NEW b \in Acts,
         UNCHANGED << inSwitching, settings, cSlot, calls, redialVars >>, RecordActs',
         ActsOnTop', Answering' <=> Answering, ~Calls("forceRelease")',
         \A a : a # "none" => (TopActs(a)' <=> a = b), b # "none" => Top'.op # "ratMode",
         \A op \in {"noCall", "countZero"} : Within(op, stack)' <=> Within(op, Rest),
         \/ b = "global" /\ Top.act = "global" /\ (GlobalWaits' => GlobalWaits)
         \/ b = "global" /\ GlobalWaits /\ ~GlobalWaits'
         \/ b # "global" /\ (GlobalWaits' => GlobalWaits \/ Top.act = "global"),
         ~late' /\ Top.act = "resume" => b = "resume"
  PROVE  SessionInv'
<1>1. /\ ~Calls("ratMode") /\ ~Calls("emergencyOff") /\ ~Calls("forceRelease") /\ 0 \in Slots
      /\ \A op \in {"noCall", "countZero"} : Within(op, stack) <=> Within(op, Rest)
      /\ \A a : TopActs(a) <=> Top.act = a
  BY RatCallFacts
<1>2. (GlobalOut' <=> GlobalOut) /\ (ResumeOut' <=> ResumeOut)
  BY OutKept
<1>3. ActsOfSlot'
  BY DEF SessionInv, ActsOfSlot, Slots, Next
<1>4. GlobalOnce'
  BY <1>1, <1>2 DEF SessionInv, GlobalOnce, Dialing, redialVars, rdCall
<1>5. ~late' /\ Resuming => Resuming'
  BY <1>1, <1>2 DEF Resuming
<1> QED
  BY <1>1, <1>3, <1>4, <1>5, SessionsKept

(* The action of a switch is called, or waits no longer for anything. *)
LEMMA ActCalled ==
  ASSUME RatTypes, OneSwitch, SessionInv, Next, Calls("switch"), NEW t \in Seq(Frame), Tailed(t),
         ~Within("finish", t),
         \A op \in {"noCall", "countZero"} : Within(op, t) <=> Within(op, Rest),
         stack' = Acted(Top.slot, Top.act) \o t,
         UNCHANGED << inSwitching, settings, cSlot, calls, redialVars >>, RecordActs',
         GlobalWaits' => GlobalWaits
  PROVE  SessionInv'
<1>1. "switch" \in RatOps /\ inst' = inst /\ inst \in Instances
  BY DEF RatOps, Next, RatTypes
<1>2. /\ Top.slot \in Slots /\ Top.act \in Acts /\ ~Answering
      /\ Top.act # "none" => Top.slot = 0
  BY <1>1, RatCallFacts
<1>3. CASE Top.act = "none"
  <2>1. stack' = t
    BY <1>3 DEF Acted
  <2>2. /\ ActsOnTop' /\ ~Answering' /\ \A a : a # "none" => ~TopActs(a)'
        /\ ~Calls("forceRelease")' /\ \A op : Within(op, stack)' <=> Within(op, t)
    BY <1>1, <2>1, TailLeft DEF TailOps
  <2> QED
    BY <1>1, <1>2, <1>3, <2>2, ActMoved
<1>4. CASE Top.act # "none"
  <2> DEFINE f == Act(Top.slot, Top.act)
  <2>1. f \in Frame /\ f.op = "act" /\ f.act = Top.act /\ f.slot = 0 /\ stack' = << f >> \o t
    BY <1>1, <1>2, <1>4, FrameTypes DEF Act, Call, Acted
  <2> HIDE DEF f
  <2>2. ActsRight(f)
    BY <2>1 DEF ActsRight
  <2>3. /\ ActsOnTop' /\ ~Answering' /\ Top' = f /\ \A a : TopActs(a)' <=> f.act = a
        /\ ~Calls("forceRelease")' /\ \A op : Within(op, stack)' <=> f.op = op \/ Within(op, t)
    BY <1>1, <2>1, <2>2, NewOnTop
  <2>4. /\ \A a : a # "none" => (TopActs(a)' <=> a = Top.act)
        /\ Top'.op # "ratMode"
        /\ \A op \in {"noCall", "countZero"} : Within(op, stack)' <=> Within(op, Rest)
    BY <2>1, <2>3
  <2> QED
    BY <1>1, <1>2, <2>3, <2>4, ActMoved
<1> QED
  BY <1>3, <1>4

(* switchNwRat in the restricted mode. *)
LEMMA RestrictedKeeps ==
  ASSUME RatTypes, OneSwitch, SessionInv, Next, SwitchRestricted, UNCHANGED redialVars
  PROVE  SessionInv'
<1>1. /\ "switch" \in RatOps /\ inst' = inst /\ inst \in Instances /\ Calls("switch") /\ "none" \in Acts
      /\ {"normal", "init"} \subseteq Callers /\ NoType \in AnyType
  BY DEF RatOps, Next, RatTypes, SwitchRestricted, Acts, Callers, AnyType
<1>2. /\ Top.slot \in Slots /\ Rest \in Seq(Frame) /\ Tailed(Rest) /\ ~Within("finish", Rest)
      /\ stack # << >>
  BY <1>1, RatCallFacts
<1>3. Top.type \in AnyType
  BY <1>2, TopTypes
<1> DEFINE r == [NoRecord EXCEPT !.type = Top.type]
<1>4. r \in Record /\ r.act = "none"
  BY <1>1, <1>3, RecordTypes DEF NoRecord
<1>5. \E c \in Callers :
        pend' = [pend EXCEPT ![Top.slot][c] = r, ![Top.slot]["restrict"].type = NoType]
  BY <1>1 DEF SwitchRestricted
<1> HIDE DEF r
<1>6. RecordActs' /\ (GlobalWaits' => GlobalWaits)
  <2> PICK c \in Callers :
        pend' = [pend EXCEPT ![Top.slot][c] = r, ![Top.slot]["restrict"].type = NoType]
    BY <1>5
  <2>1. \A z \in Slots, d \in Callers :
           \/ pend'[z][d].act = "none"
           \/ /\ pend'[z][d].act = pend[z][d].act
              /\ pend'[z][d].type \in {pend[z][d].type, NoType}
    BY <1>2, <1>4, RecordReplaced
  <2> QED
    BY <1>1, <2>1, PlainRecord DEF SessionInv, ActsOfSlot
<1>7. stack' = Acted(Top.slot, Top.act) \o Rest
      /\ UNCHANGED << inSwitching, settings, cSlot, calls, redialVars >>
  BY DEF SwitchRestricted, keptVars, modemVars
<1> QED
  BY <1>1, <1>2, <1>6, <1>7, ActCalled

(* switchNwRat during a call. *)
LEMMA CallKeeps ==
  ASSUME RatTypes, OneSwitch, SessionInv, Next, SwitchInCall, UNCHANGED redialVars
  PROVE  SessionInv'
<1>1. /\ "switch" \in RatOps /\ inst' = inst /\ inst \in Instances /\ Calls("switch") /\ "none" \in Acts
      /\ {"normal", "init"} \subseteq Callers /\ NoType \in AnyType /\ "not_allowed" \in Errors
      /\ UNCHANGED << inSwitching, settings, cSlot, calls, redialVars >>
  BY DEF RatOps, Next, RatTypes, SwitchInCall, Acts, Callers, AnyType, Errors, keptVars, modemVars
<1>2. /\ Top.slot \in Slots /\ Rest \in Seq(Frame) /\ Tailed(Rest) /\ ~Within("finish", Rest)
      /\ stack # << >> /\ ~Answering
  BY <1>1, RatCallFacts
<1>3. Top.type \in AnyType
  BY <1>2, TopTypes
<1>4. CASE Top.caller # "init"
  <2> DEFINE r == [NoRecord EXCEPT !.type = Top.type]
  <2>1. r \in Record /\ r.act = "none"
    BY <1>1, <1>3, RecordTypes DEF NoRecord
  <2>2. pend' = [pend EXCEPT ![Top.slot]["normal"] = r, ![Top.slot]["restrict"].type = NoType]
        /\ stack' = Acted(Top.slot, Top.act) \o Rest
    BY <1>4 DEF SwitchInCall
  <2> HIDE DEF r
  <2>3. \A z \in Slots, d \in Callers :
           \/ pend'[z][d].act = "none"
           \/ /\ pend'[z][d].act = pend[z][d].act
              /\ pend'[z][d].type \in {pend[z][d].type, NoType}
    <3>1. PICK c \in Callers :
            pend' = [pend EXCEPT ![Top.slot][c] = r, ![Top.slot]["restrict"].type = NoType]
      BY <1>1, <2>2
    <3> QED
      BY <1>2, <2>1, <3>1, RecordReplaced
  <2>4. RecordActs' /\ (GlobalWaits' => GlobalWaits)
    BY <1>1, <2>3, PlainRecord DEF SessionInv, ActsOfSlot
  <2> QED
    BY <1>1, <1>2, <2>2, <2>4, ActCalled
<1>5. CASE Top.caller = "init"
  <2> DEFINE f == Signal(Top.slot, "not_allowed")
  <2>1. stack' = << f >> \o Rest /\ pend' = pend
    BY <1>5 DEF SwitchInCall
  <2>2. f \in Frame /\ f.op = "signal" /\ f.act = "none"
    BY <1>1, <1>2, FrameTypes, FrameFields
  <2> HIDE DEF f
  <2>3. ActsRight(f)
    BY <2>2 DEF ActsRight
  <2>4. /\ ActsOnTop' /\ ~Answering' /\ \A a : TopActs(a)' <=> f.act = a
        /\ ~Calls("forceRelease")' /\ \A op : Within(op, stack)' <=> f.op = op \/ Within(op, Rest)
    BY <1>1, <1>2, <2>1, <2>2, <2>3, NewOnTop
  <2>5. /\ \A a : a # "none" => ~TopActs(a)'
        /\ \A op \in {"noCall", "countZero"} : Within(op, stack)' <=> Within(op, Rest)
    BY <2>2, <2>4
  <2>6. RecordActs' /\ (GlobalWaits' => GlobalWaits)
    BY <1>1, <2>1 DEF SessionInv, ActsOfSlot, RecordActs, GlobalWaits, Slots
  <2>7. ~late' => Top.act = "none"
    <3>1. Top.act # "none" => Dropped
      BY <1>1, <1>5 DEF SwitchInCall, Dropped
    <3> QED
      BY <3>1, LateFacts
  <2> QED
    BY <1>1, <1>2, <2>4, <2>5, <2>6, <2>7, ActMoved
<1> QED
  BY <1>4, <1>5

(* A type that the redial asks for is one that its slot can do. *)
LEMMA TargetThere ==
  ASSUME RatTypes, cSlot = 0
  PROVE  \A t \in AnyType : t # NoType => Filter(0, t) # NoType
BY DEF Filter, NoType

(* switchNwRat with nothing to do. *)
LEMMA DoneKeeps ==
  ASSUME RatTypes, OneSwitch, SessionInv, Next, SwitchDone, UNCHANGED redialVars
  PROVE  SessionInv'
<1>1. /\ "switch" \in RatOps /\ inst' = inst /\ inst \in Instances /\ Calls("switch") /\ "none" \in Acts
      /\ UNCHANGED << inSwitching, settings, cSlot, calls, redialVars, pend >>
  BY DEF RatOps, Next, RatTypes, SwitchDone, Acts, keptVars, modemVars
<1>2. /\ Top.slot \in Slots /\ Rest \in Seq(Frame) /\ Tailed(Rest) /\ ~Within("finish", Rest)
      /\ stack # << >> /\ cSlot = 0 /\ "process" \notin {"noCall", "countZero", "finish"}
      /\ Top.act # "none" => Top.slot = 0 /\ Top.type # NoType
  BY <1>1, RatCallFacts
<1> DEFINE t == << Process(Top.slot) >> \o Rest
<1>3. /\ t \in Seq(Frame) /\ Tailed(t) /\ ~Within("finish", t)
      /\ \A op \in {"noCall", "countZero"} : Within(op, t) <=> Within(op, Rest)
  BY <1>2, RestOfStack DEF SessionInv
<1>4. stack' = Acted(Top.slot, Top.act) \o t
  <2>1. CASE stack' = << Process(Top.slot) >> \o Rest /\ Target(Top) = NoType
    <3>1. Top.type \in AnyType
      BY <1>2, TopTypes
    <3>2. Top.act = "none"
      BY <1>2, <2>1, <3>1, TargetThere DEF Target
    <3>3. Acted(Top.slot, Top.act) = << >>
      BY <3>2 DEF Acted
    <3> QED
      BY <1>3, <2>1, <3>3
  <2>2. CASE stack' = Acted(Top.slot, Top.act) \o << Process(Top.slot) >> \o Rest
    <3>1. Top.act \in Acts
      BY <1>2, TopTypes
    <3>2. Acted(Top.slot, Top.act) \in Seq(Frame) /\ << Process(Top.slot) >> \in Seq(Frame)
      BY <1>1, <1>2, <3>1, FrameTypes
    <3> QED
      BY <1>2, <2>2, <3>2, ConcatAssociative
  <2> QED
    BY <2>1, <2>2 DEF SwitchDone
<1>5. RecordActs' /\ (GlobalWaits' => GlobalWaits)
  BY <1>1 DEF SessionInv, ActsOfSlot, RecordActs, GlobalWaits, Slots
<1> HIDE DEF t
<1> QED
  BY <1>1, <1>3, <1>4, <1>5, ActCalled

(* switchNwRat that must wait, for another switch or for the end of a scan. *)
LEMMA WaitKeeps ==
  ASSUME RatTypes, OneSwitch, SessionInv, Next, SwitchWaits \/ SwitchAbortsScan, UNCHANGED redialVars
  PROVE  SessionInv'
<1>1. /\ Calls("switch") /\ QueueRecord(Top.slot, Top.caller, Top.type, Top.act, Top.msg)
      /\ stack' = Rest /\ UNCHANGED << keptVars, cSlot, calls >>
  BY DEF SwitchWaits, SwitchAbortsScan, modemVars
<1> QED
  BY <1>1, PutOff

(* switchNwRat that asks the modem. *)
LEMMA StartKeeps ==
  ASSUME RatTypes, OneSwitch, SessionInv, Next, SwitchStarts, UNCHANGED redialVars
  PROVE  SessionInv'
<1>1. /\ "switch" \in RatOps /\ inst' = inst /\ inst \in Instances /\ Calls("switch")
      /\ UNCHANGED << cSlot, calls, pend >> /\ stack' = Rest /\ ~inSwitching
  BY DEF RatOps, Next, RatTypes, SwitchStarts, MayStart, MayRun, MustWait
<1>2. /\ stack # << >> /\ Top.slot \in Slots /\ Top.act \in Acts /\ Rest \in Seq(Frame) /\ Tailed(Rest)
      /\ ~Within("finish", Rest) /\ ~Answering
      /\ \A op \in {"noCall", "countZero"} : Within(op, stack) <=> Within(op, Rest)
      /\ \A a : TopActs(a) <=> Top.act = a
      /\ Top.act # "none" => Top.slot = 0
      /\ ~Calls("ratMode") /\ ~Calls("emergencyOff") /\ ~Calls("forceRelease") /\ 0 \in Slots
  BY <1>1, RatCallFacts
<1>3. /\ ActsOnTop' /\ ~Answering' /\ \A a : a # "none" => ~TopActs(a)'
      /\ ~Calls("forceRelease")' /\ \A op : Within(op, stack)' <=> Within(op, Rest)
  BY <1>1, <1>2, TailLeft DEF TailOps
<1>4. /\ settings'[Top.slot].act = Top.act
      /\ \A s \in Slots : s # Top.slot => settings'[s] = settings[s]
  <2>1. settings \in [Slots -> Setting] /\ settings[Top.slot] \in Setting
    BY <1>2 DEF RatTypes
  <2>2. settings'[Top.slot] = [settings[Top.slot] EXCEPT !.type = Target(Top), !.caller = Top.caller,
                                                         !.act = Top.act, !.msg = Top.msg]
        /\ \A s \in Slots : s # Top.slot => settings'[s] = settings[s]
    BY <1>2, <2>1 DEF SwitchStarts
  <2>3. settings'[Top.slot].act = Top.act
    BY <2>1, <2>2 DEF Setting
  <2> QED
    BY <2>2, <2>3
<1>5. ~Busy
  BY <1>1, <1>2 DEF Busy, Running, OneSwitch
<1>6. Busy' <=> Top.slot = 0
  BY <1>1, <1>2, <1>3, SwitchAdded DEF Busy
<1>7. ActsOfSlot'
  BY <1>1, <1>2, <1>4 DEF SessionInv, ActsOfSlot, RecordActs, Slots
<1>8. GlobalWaits' <=> GlobalWaits
  BY <1>1 DEF GlobalWaits
<1>9. Busy' => settings'[0].act = Top.act
  BY <1>4, <1>6
<1>10. GlobalOnce'
  <2>1. GlobalOut' => TopActs("global")
    BY <1>2, <1>9 DEF GlobalOut
  <2> QED
    BY <1>3, <1>8, <2>1 DEF SessionInv, GlobalOnce, Dialing, redialVars, rdCall
<1>11. Resuming => Resuming'
  BY <1>2, <1>4, <1>5, <1>6 DEF Resuming, ResumeOut
<1> QED
  BY <1>1, <1>2, <1>3, <1>7, <1>10, <1>11, SessionsKept

(* processPendingRatSwitchRecord. *)
LEMMA PendingKeeps ==
  ASSUME RatTypes, OneSwitch, SessionInv, Next, ProcessPending, UNCHANGED redialVars
  PROVE  SessionInv'
<1>1. /\ "process" \in RatOps /\ inst' = inst /\ inst \in Instances /\ Calls("process")
      /\ UNCHANGED << inSwitching, settings, cSlot, calls, redialVars >>
      /\ {"normal", "init", "restrict"} = Callers /\ "none" \in Acts
  BY DEF RatOps, Next, RatTypes, ProcessPending, keptVars, modemVars, Callers, Acts
<1>2. /\ stack # << >> /\ Top.slot \in Slots /\ Top.act = "none" /\ Rest \in Seq(Frame) /\ Tailed(Rest)
      /\ ~Within("finish", Rest) /\ ~Answering /\ 0 \in Slots
  BY <1>1, RatCallFacts
<1> DEFINE s == Top.slot
           c == NextRecord(s)
<1>3. CASE c \in Callers
  <2> DEFINE r == pend[s][c]
             f == SwitchNwRat(s, r.type, c, r.act, r.msg)
  <2>1. stack' = << f >> \o Rest /\ pend' = [pend EXCEPT ![s][c].type = NoType]
    BY <1>1, <1>3 DEF ProcessPending
  <2>2. /\ r.type \in AnyType /\ r.act \in Acts /\ r.msg \in 0 .. MaxSet /\ r.type # NoType
        /\ r.act # "none" => s = 0 /\ (r.act = "global" => c = "restrict")
    <3>1. r.type \in AnyType /\ r.act \in Acts /\ r.msg \in 0 .. MaxSet
      BY <1>2, <1>3, PendTypes DEF RatTypes
    <3>2. r.type # NoType
      BY <1>3 DEF NextRecord, Callers
    <3>3. r.act # "none" => s = 0 /\ (r.act = "global" => c = "restrict")
      BY <1>2, <1>3 DEF SessionInv, ActsOfSlot, RecordActs
    <3> QED
      BY <3>1, <3>2, <3>3
  <2>3. f \in Frame /\ f.op = "switch" /\ f.slot = s /\ f.type = r.type /\ f.act = r.act /\ f.caller = c
    BY <1>1, <1>2, <1>3, <2>2, FrameTypes, FrameFields
  <2>4. /\ \A z \in Slots, d \in Callers : /\ pend'[z][d].act = pend[z][d].act
                                           /\ pend'[z][d].type \in {pend[z][d].type, NoType}
        /\ pend'[s][c].type = NoType
    BY <1>2, <1>3, <2>1, RecordReset
  <2>5. GlobalWaits <=> pend[0]["restrict"].act = "global" /\ pend[0]["restrict"].type # NoType
    BY DEF GlobalWaits
  <2>6. r.act = "global" => GlobalWaits /\ ~GlobalWaits'
    BY <2>2, <2>4, <2>5 DEF GlobalWaits
  <2>7. RecordActs' /\ (GlobalWaits' => GlobalWaits)
    BY <1>1, <2>4, PlainRecord DEF SessionInv, ActsOfSlot
  <2> HIDE DEF c, f
  <2> DEFINE b == r.act
  <2>8. ActsRight(f)
    BY <2>2, <2>3 DEF ActsRight
  <2>9. /\ ActsOnTop' /\ ~Answering' /\ Top' = f /\ \A a : TopActs(a)' <=> f.act = a
        /\ ~Calls("forceRelease")' /\ \A op : Within(op, stack)' <=> f.op = op \/ Within(op, Rest)
    BY <1>1, <1>2, <2>1, <2>3, <2>8, NewOnTop
  <2>10. /\ \A a : a # "none" => (TopActs(a)' <=> a = b) /\ Top'.op # "ratMode"
         /\ \A op \in {"noCall", "countZero"} : Within(op, stack)' <=> Within(op, Rest)
         /\ b \in Acts
    BY <2>2, <2>3, <2>9
  <2>11. Top'.op # "ratMode"
    BY <2>3, <2>9
  <2>12. \/ b = "global" /\ GlobalWaits /\ ~GlobalWaits'
         \/ b # "global" /\ (GlobalWaits' => GlobalWaits \/ Top.act = "global")
    BY <2>6, <2>7
  <2> HIDE DEF b
  <2> QED
    BY <1>1, <1>2, <2>7, <2>9, <2>10, <2>11, <2>12, ActMoved
<1>4. CASE c \notin Callers
  <2>1. \E t \in Seq(Frame) : /\ Tailed(t) /\ ~Within("finish", t) /\ stack' = t
                              /\ \A op \in {"noCall", "countZero"} : Within(op, t) <=> Within(op, Rest)
    <3>1. CASE stack' = Rest
      BY <1>2, <3>1
    <3>2. CASE c = "another" /\ stack' = << Process(Another(s)) >> \o Rest
      <4>1. Another(s) \in Slots
        BY <3>2 DEF NextRecord
      <4> QED
        BY <1>2, <3>2, <4>1, RestOfStack DEF SessionInv
    <3> QED
      BY <1>4, <3>1, <3>2 DEF ProcessPending
  <2>2. pend' = pend
    BY <1>4 DEF ProcessPending
  <2>3. RecordActs' /\ (GlobalWaits' => GlobalWaits)
    BY <1>1, <2>2 DEF SessionInv, ActsOfSlot, RecordActs, GlobalWaits, Slots
  <2> HIDE DEF c
  <2>4. PICK t \in Seq(Frame) : /\ Tailed(t) /\ ~Within("finish", t) /\ stack' = t
                                /\ \A op \in {"noCall", "countZero"} : Within(op, t) <=> Within(op, Rest)
    BY <2>1
  <2>5. /\ ActsOnTop' /\ ~Answering' /\ \A a : a # "none" => ~TopActs(a)'
        /\ ~Calls("forceRelease")' /\ \A op : Within(op, stack)' <=> Within(op, t)
    BY <1>1, <2>4, TailLeft DEF TailOps
  <2> QED
    BY <1>1, <1>2, <2>3, <2>4, <2>5, ActMoved
<1> QED
  BY <1>3, <1>4

(* The end of a switch: its action is called. *)
LEMMA FinishKeeps ==
  ASSUME RatTypes, OneSwitch, SessionInv, Next, FinishResponse, UNCHANGED redialVars
  PROVE  SessionInv'
<1>1. /\ "finish" \in RatOps /\ inst' = inst /\ inst \in Instances /\ Calls("finish")
      /\ UNCHANGED << inSwitching, settings, cSlot, calls, pend >>
  BY DEF RatOps, Next, RatTypes, FinishResponse, keptVars, modemVars
<1>2. /\ stack # << >> /\ Top.slot \in Slots /\ Top.act = "none" /\ Rest \in Seq(Frame) /\ Tailed(Rest)
      /\ ~Within("finish", Rest) /\ 0 \in Slots /\ Top.op = "finish"
      /\ \A op \in {"noCall", "countZero"} : Within(op, stack) <=> Within(op, Rest)
      /\ \A a : TopActs(a) <=> Top.act = a
      /\ ~Calls("ratMode") /\ ~Calls("emergencyOff") /\ ~Calls("forceRelease")
  BY <1>1, RatCallFacts
<1> DEFINE a == settings[Top.slot].act
<1>3. a \in Acts /\ (a # "none" => Top.slot = 0)
  <2>1. settings[Top.slot] \in Setting
    BY <1>2 DEF RatTypes
  <2> QED
    BY <1>2, <2>1 DEF Setting, SessionInv, ActsOfSlot
<1>4. stack' = Acted(Top.slot, a) \o Rest
  BY DEF FinishResponse
<1>5. ~Running(0) /\ ~Running(0)'
  <2>1. ~inSwitching
    BY <1>2 DEF SessionInv, ActsOnTop
  <2> QED
    BY <1>1, <1>2, <2>1, RunningStays DEF OneSwitch, Running
<1>6. Busy <=> Top.slot = 0
  BY <1>2, <1>5 DEF Busy, Answering, Calls
<1>7. a # "none" => a = settings[0].act
  BY <1>3
<1> HIDE DEF a
<1>8. /\ ActsOnTop' /\ ~Answering' /\ ~Calls("forceRelease")'
      /\ \A x : x # "none" => (TopActs(x)' <=> x = a) /\ (TopActs(x)' => Top'.op = "act")
      /\ \A op \in {"noCall", "countZero"} : Within(op, stack)' <=> Within(op, Rest)
  <2>1. CASE a = "none"
    <3>1. stack' = Rest
      BY <1>2, <1>4, <2>1 DEF Acted
    <3>2. /\ ActsOnTop' /\ ~Answering' /\ \A x : x # "none" => ~TopActs(x)'
          /\ ~Calls("forceRelease")' /\ \A op : Within(op, stack)' <=> Within(op, Rest)
      BY <1>1, <1>2, <3>1, TailLeft DEF TailOps
    <3> QED
      BY <2>1, <3>2
  <2>2. CASE a # "none"
    <3> DEFINE f == Act(Top.slot, a)
    <3>1. f \in Frame /\ f.op = "act" /\ f.act = a /\ f.slot = 0 /\ stack' = << f >> \o Rest
      BY <1>1, <1>2, <1>3, <1>4, <2>2, FrameTypes DEF Act, Call, Acted
    <3> HIDE DEF f
    <3>2. ActsRight(f)
      BY <3>1 DEF ActsRight
    <3>3. /\ ActsOnTop' /\ ~Answering' /\ Top' = f /\ \A x : TopActs(x)' <=> f.act = x
          /\ ~Calls("forceRelease")' /\ \A op : Within(op, stack)' <=> f.op = op \/ Within(op, Rest)
      BY <1>1, <1>2, <3>1, <3>2, NewOnTop
    <3> QED
      BY <3>1, <3>3
  <2> QED
    BY <2>1, <2>2
<1>9. ActsOfSlot'
  BY <1>1 DEF SessionInv, ActsOfSlot, RecordActs, Slots
<1>10. (GlobalWaits' <=> GlobalWaits) /\ ~GlobalOut' /\ ~ResumeOut'
  BY <1>1, <1>5, <1>8 DEF GlobalWaits, GlobalOut, ResumeOut, Busy
<1>11. (GlobalOut => a = "global") /\ (ResumeOut => a = "resume") /\ (a = "global" => GlobalOut)
  <2>1. Top.slot = 0 => a = settings[0].act
    BY DEF a
  <2> QED
    BY <1>3, <1>6, <2>1 DEF GlobalOut, ResumeOut
<1>12. GlobalOnce'
  BY <1>2, <1>8, <1>10, <1>11 DEF SessionInv, GlobalOnce, Dialing, redialVars, rdCall
<1>13. Resuming => Resuming'
  <2>1. Resuming => a = "resume"
    BY <1>2, <1>11 DEF Resuming
  <2>2. a = "resume" => TopActs("resume")' /\ Top'.op # "ratMode"
    BY <1>8
  <2> QED
    BY <2>1, <2>2 DEF Resuming
<1> QED
  BY <1>1, <1>2, <1>8, <1>9, <1>12, <1>13, SessionsKept

(* The end of a call, and of the restricted mode, may take up a record. *)
LEMMA EndKeeps ==
  ASSUME RatTypes, OneSwitch, SessionInv, Next, OnCallEnded \/ OnRestrictedModeChanged,
         UNCHANGED redialVars
  PROVE  SessionInv'
<1>1. /\ inst' = inst /\ inst \in Instances /\ stack # << >>
      /\ UNCHANGED << inSwitching, settings, cSlot, calls, redialVars, pend >>
      /\ "none" \in Acts
  BY DEF Next, RatTypes, OnCallEnded, OnRestrictedModeChanged, Calls, keptVars, modemVars, Acts
<1>2. PICK o \in RatOps : Calls(o) /\ o \notin {"signal", "finish", "switch"}
  BY DEF RatOps, OnCallEnded, OnRestrictedModeChanged
<1>3. /\ Top.slot \in Slots /\ Top.act = "none" /\ Rest \in Seq(Frame) /\ Tailed(Rest)
      /\ ~Within("finish", Rest) /\ ~Answering
  BY <1>2, RatCallFacts
<1>4. \E t \in Seq(Frame) : /\ Tailed(t) /\ ~Within("finish", t) /\ stack' = t
                            /\ \A op \in {"noCall", "countZero"} : Within(op, t) <=> Within(op, Rest)
  <2>1. stack' = << Process(Top.slot) >> \o Rest \/ stack' = << >> \o Rest
    BY DEF OnCallEnded, OnRestrictedModeChanged
  <2>2. << >> \o Rest = Rest
    BY <1>3
  <2>3. /\ << Process(Top.slot) >> \o Rest \in Seq(Frame) /\ Tailed(<< Process(Top.slot) >> \o Rest)
        /\ \A op : Within(op, << Process(Top.slot) >> \o Rest) <=> op = "process" \/ Within(op, Rest)
    BY <1>1, <1>3, RestOfStack DEF SessionInv
  <2> QED
    BY <1>3, <2>1, <2>2, <2>3
<1>5. PICK t \in Seq(Frame) : /\ Tailed(t) /\ ~Within("finish", t) /\ stack' = t
                              /\ \A op \in {"noCall", "countZero"} : Within(op, t) <=> Within(op, Rest)
  BY <1>4
<1>6. /\ ActsOnTop' /\ ~Answering' /\ \A a : a # "none" => ~TopActs(a)'
      /\ ~Calls("forceRelease")' /\ \A op : Within(op, stack)' <=> Within(op, t)
  BY <1>1, <1>5, TailLeft DEF TailOps
<1>7. RecordActs' /\ (GlobalWaits' => GlobalWaits)
  BY <1>1 DEF SessionInv, ActsOfSlot, RecordActs, GlobalWaits, Slots
<1> QED
  BY <1>1, <1>2, <1>3, <1>5, <1>6, <1>7, ActMoved

(* The signal to the mode controller. *)
LEMMA SignalKeeps ==
  ASSUME RatTypes, OneSwitch, SessionInv, Next, OnRatSwitchDone
  PROVE  SessionInv'
<1>1. /\ "signal" \in RatOps /\ inst' = inst /\ inst \in Instances /\ Calls("signal") /\ stack' = Rest
      /\ UNCHANGED << inSwitching, settings, cSlot, calls, redialVars, pend >> /\ "none" \in Acts
  BY DEF RatOps, Next, RatTypes, OnRatSwitchDone, ratKept, keptVars, modemVars, Acts
<1>2. /\ Top.slot \in Slots /\ Top.act = "none" /\ Rest \in Seq(Frame) /\ Tailed(Rest) /\ Top.op = "signal"
  BY <1>1, RatCallFacts
<1>3. RecordActs' /\ (GlobalWaits' => GlobalWaits)
  BY <1>1 DEF SessionInv, ActsOfSlot, RecordActs, GlobalWaits, Slots
<1>4. /\ ActsOnTop' /\ (Answering' <=> Answering) /\ \A a : a # "none" => ~TopActs(a)'
      /\ ~Calls("forceRelease")' /\ \A op : Within(op, stack)' <=> Within(op, Rest)
  <2>1. CASE ~Within("finish", Rest)
    <3>1. /\ ActsOnTop' /\ ~Answering' /\ \A a : a # "none" => ~TopActs(a)'
          /\ ~Calls("forceRelease")' /\ \A op : Within(op, stack)' <=> Within(op, Rest)
      BY <1>1, <1>2, <2>1, TailLeft DEF TailOps
    <3>2. ~Answering
      <4>1. Rest # << >> => Head(Rest).op # "finish"
        BY <1>2, <2>1, FirstFrame
      <4> QED
        BY <1>2, <4>1 DEF Answering, Calls
    <3> QED
      BY <3>1, <3>2
  <2>2. CASE Within("finish", Rest)
    <3>1. Rest # << >>
      BY <2>2 DEF Within
    <3>2. /\ Tailed(Tail(Rest)) /\ Head(Rest).act = "none" /\ Head(Rest).op \in TailOps
          /\ Head(Rest).op = "finish" \/ Within("finish", Tail(Rest))
          /\ Tail(Rest) \in Seq(Frame)
      BY <1>2, <2>2, <3>1, FirstFrame
    <3>3. ~inSwitching /\ ~Within("finish", Tail(Rest))
      BY <1>1, <2>2 DEF SessionInv, ActsOnTop, Calls
    <3>4. Head(Rest).op = "finish"
      BY <3>2, <3>3
    <3>5. Top' = Head(Rest) /\ Rest' = Tail(Rest) /\ stack' # << >>
      BY <1>1, <3>1 DEF Top, Rest
    <3>6. ActsOnTop'
      BY <1>1, <3>2, <3>3, <3>4, <3>5 DEF ActsOnTop, ActsRight
    <3>7. Answering' <=> Answering
      BY <1>1, <1>2, <3>1, <3>4, <3>5 DEF Answering, Calls
    <3>8. (\A a : a # "none" => ~TopActs(a)') /\ ~Calls("forceRelease")'
      BY <3>2, <3>4, <3>5 DEF TopActs, Calls
    <3>9. \A op : Within(op, stack)' <=> Within(op, Rest)
      BY <1>1 DEF Within
    <3> QED
      BY <3>6, <3>7, <3>8, <3>9
  <2> QED
    BY <2>1, <2>2
<1> QED
  BY <1>1, <1>2, <1>3, <1>4, ActMoved

(* No call is to be made. *)
LEMMA NoCalls ==
  ASSUME stack = << >>
  PROVE  /\ \A op : ~Calls(op) /\ ~Within(op, stack)
         /\ \A a : ~TopActs(a)
         /\ ~Answering
BY DEF Calls, Within, TopActs, Answering

(* The calls that handle the answer to a switch. *)
LEMMA AnswerCalls ==
  ASSUME inst \in Instances, inst' = inst, NEW s \in Slots, NEW e \in Errors,
         stack' = SignalIfInit(s, e) \o << Finish(s), Process(s) >>, inSwitching' = FALSE
  PROVE  /\ ActsOnTop' /\ (Answering' <=> s = 0) /\ \A a : a # "none" => ~TopActs(a)'
         /\ ~Calls("forceRelease")' /\ \A op \in {"noCall", "countZero"} : ~Within(op, stack)'
<1> DEFINE f == Signal(s, e)
           g == Finish(s)
           h == Process(s)
<1>1. /\ f \in Frame /\ g \in Frame /\ h \in Frame /\ f.op = "signal" /\ g.op = "finish"
      /\ h.op = "process" /\ f.act = "none" /\ g.act = "none" /\ h.act = "none" /\ g.slot = s
  BY FrameTypes, FrameFields
<1>2. /\ settings[s].caller = "init" => stack' = << f >> \o << g, h >>
      /\ settings[s].caller # "init" => stack' = << >> \o << g, h >>
  BY DEF SignalIfInit
<1> HIDE DEF f, g, h
<1> DEFINE p == << h >>
           q == << g, h >>
<1>3. /\ p \in Seq(Frame) /\ Tailed(p) /\ \A op : Within(op, p) <=> op = "process"
  <2>1. p \in Seq(Frame) /\ DOMAIN p = {1} /\ p[1] = h
    BY <1>1
  <2> QED
    BY <1>1, <2>1 DEF Tailed, Within, TailOps
<1>4. /\ q \in Seq(Frame) /\ q # << >> /\ Head(q) = g /\ Tail(q) = p /\ Tailed(q)
      /\ \A op : Within(op, q) <=> op = "finish" \/ op = "process"
  <2>1. q = << g >> \o p
    <3>1. q \in Seq(Frame) /\ Len(q) = 2 /\ q[1] = g /\ q[2] = h
      BY <1>1
    <3>2. << g >> \in Seq(Frame) /\ Len(<< g >>) = 1 /\ << g >>[1] = g /\ Len(p) = 1 /\ p[1] = h
      BY <1>1
    <3>3. /\ << g >> \o p \in Seq(Frame) /\ Len(<< g >> \o p) = 2
          /\ (<< g >> \o p)[1] = g /\ (<< g >> \o p)[2] = h
      BY <1>3, <3>2, ConcatProperties
    <3> HIDE DEF p, q
    <3> QED
      BY <3>1, <3>3, SeqEqual
  <2> HIDE DEF p, q
  <2> QED
    BY <1>1, <1>3, <2>1, PutOnTop DEF TailOps
<1> HIDE DEF p, q
<1>5. CASE settings[s].caller = "init"
  <2>1. stack' = << f >> \o q
    BY <1>2, <1>5 DEF q
  <2>2. /\ stack' # << >> /\ Head(stack') = f /\ Tail(stack') = q
        /\ \A op : Within(op, stack') <=> f.op = op \/ Within(op, q)
    <3>1. f \in Frame /\ q \in Seq(Frame)
      BY <1>1, <1>4
    <3> QED
      BY <2>1, <3>1, PutOnTop
  <2>5. Top' = f /\ Rest' = q /\ \A op : Within(op, stack)' <=> f.op = op \/ Within(op, q)
    BY <2>2 DEF Top, Rest
  <2>3. ActsOnTop'
    BY <1>1, <1>3, <1>4, <2>2, <2>5 DEF ActsOnTop, ActsRight
  <2> QED
    BY <1>1, <1>4, <2>2, <2>5, <2>3 DEF Answering, TopActs, Calls
<1>6. CASE settings[s].caller # "init"
  <2>1. stack' = q
    BY <1>2, <1>4, <1>6 DEF q
  <2>2. /\ stack' # << >> /\ Top' = g /\ Rest' = p
        /\ \A op : Within(op, stack)' <=> Within(op, q)
    BY <1>4, <2>1 DEF Top, Rest, Within
  <2>3. ActsOnTop'
    BY <1>1, <1>3, <1>4, <2>2 DEF ActsOnTop, ActsRight
  <2> QED
    BY <1>1, <1>4, <2>2, <2>3 DEF Answering, TopActs, Calls
<1> QED
  BY <1>5, <1>6

(* The modem answers a switch. *)
LEMMA AnswerKeeps ==
  ASSUME RatTypes, OneSwitch, SessionInv, Next, NEW i \in DOMAIN mcl,
         ResponseSet(i) \/ \E b \in BOOLEAN : ResponseSetFails(i, b), UNCHANGED redialVars
  PROVE  SessionInv'
<1> DEFINE s == mcl[i].slot
<1>1. /\ inst' = inst /\ inst \in Instances /\ s \in Slots /\ 0 \in Slots /\ stack = << >>
      /\ UNCHANGED << cSlot, calls >> /\ inSwitching' = FALSE
      /\ \E e \in Errors : stack' = SignalIfInit(s, e) \o << Finish(s), Process(s) >>
  BY MclFacts, SlotFacts DEF Next, RatTypes, ResponseSet, ResponseSetFails, Answered, UpdateState, Errors
<1>2. /\ ActsOnTop' /\ (Answering' <=> s = 0) /\ \A a : a # "none" => ~TopActs(a)'
      /\ ~Calls("forceRelease")' /\ \A op \in {"noCall", "countZero"} : ~Within(op, stack)'
  BY <1>1, AnswerCalls
<1>3. /\ \A op : ~Calls(op) /\ ~Within(op, stack)
      /\ \A a : ~TopActs(a)
      /\ ~Answering
  BY <1>1, NoCalls
<1>4. (Running(0) <=> s = 0) /\ ~Running(0)'
  <2>1. i \in Switching /\ ~Running(0)'
    BY <1>1, SwitchAnswered
  <2> QED
    BY <2>1 DEF Running, OneSwitch
<1>5. Busy' <=> Busy
  BY <1>2, <1>3, <1>4 DEF Busy
<1>6. /\ \A z \in Slots : settings'[z].act = settings[z].act
      /\ RecordActs' /\ (GlobalWaits' => GlobalWaits)
  <2>1. CASE UNCHANGED << pend, settings >>
    BY <1>1, <2>1 DEF SessionInv, ActsOfSlot, RecordActs, GlobalWaits, Slots
  <2>2. CASE ~UNCHANGED << pend, settings >>
    <3>1. ~ResponseSet(i)
      BY <2>2 DEF ResponseSet
    <3>2. PICK b \in BOOLEAN : ResponseSetFails(i, b)
      BY <3>1
    <3> DEFINE r == [NoRecord EXCEPT !.type = settings[s].type]
    <3>3. settings \in [Slots -> Setting] /\ settings[s] \in Setting /\ settings[s].type \in AnyType
      BY <1>1 DEF RatTypes, Setting
    <3>4. r \in Record /\ r.act = "none"
      BY <1>1, <3>3, RecordTypes DEF NoRecord
    <3>5. /\ pend' = [pend EXCEPT ![s]["normal"] = r, ![s]["restrict"].type = NoType]
          /\ settings' = [settings EXCEPT ![s].msg = NoMsg]
      BY <2>2, <3>2 DEF ResponseSetFails
    <3>6. \A z \in Slots : settings'[z].act = settings[z].act
      <4>1. [settings[s] EXCEPT !.msg = NoMsg].act = settings[s].act
        BY <3>3 DEF Setting
      <4> QED
        BY <3>3, <3>5, <4>1
    <3> HIDE DEF r
    <3>7. PICK c \in Callers : pend' = [pend EXCEPT ![s][c] = r, ![s]["restrict"].type = NoType]
      BY <3>5 DEF Callers
    <3>8. \A z \in Slots, d \in Callers :
            \/ pend'[z][d].act = "none"
            \/ /\ pend'[z][d].act = pend[z][d].act
               /\ pend'[z][d].type \in {pend[z][d].type, NoType}
      BY <1>1, <3>4, <3>7, RecordReplaced
    <3>9. RecordActs' /\ (GlobalWaits' => GlobalWaits)
      BY <1>1, <3>8, PlainRecord DEF SessionInv, ActsOfSlot
    <3> QED
      BY <3>6, <3>9
  <2> QED
    BY <2>1, <2>2
<1> HIDE DEF s
<1>7. ActsOfSlot'
  BY <1>1, <1>6 DEF SessionInv, ActsOfSlot, Slots
<1>8. (GlobalOut' <=> GlobalOut) /\ (ResumeOut' <=> ResumeOut)
  BY <1>1, <1>5, <1>6 DEF GlobalOut, ResumeOut
<1>9. GlobalOnce'
  BY <1>2, <1>3, <1>6, <1>8 DEF SessionInv, GlobalOnce, Dialing, redialVars, rdCall
<1>10. Resuming => Resuming'
  BY <1>3, <1>8 DEF Resuming
<1> QED
  BY <1>1, <1>2, <1>3, <1>7, <1>9, <1>10, SessionsKept

(* A step of the framework, the mode controller, a scan or a call that begins. *)
LEMMA NewCallsKeep ==
  ASSUME RatTypes, OneSwitch, SessionInv, Next, UNCHANGED redialVars, stack = << >>,
         UNCHANGED << inSwitching, cSlot, pend >>, \A z \in Slots : settings'[z].act = settings[z].act,
         mo # "none" /\ 0 \in calls => 0 \in calls',
         \/ /\ stack' \in Seq(Frame) /\ Tailed(stack') /\ ~Within("finish", stack')
            /\ ~Within("noCall", stack') /\ ~Within("countZero", stack')
         \/ \E f \in Frame : stack' = << f >> /\ f.act = "none" /\ f.op \in {"switch", "signal"}
  PROVE  SessionInv'
<1>1. inst' = inst /\ inst \in Instances /\ 0 \in Slots
  BY SlotFacts DEF Next, RatTypes
<1>2. /\ \A op : ~Calls(op) /\ ~Within(op, stack)
      /\ \A a : ~TopActs(a)
      /\ ~Answering
  BY NoCalls
<1>3. /\ ActsOnTop' /\ ~Answering' /\ \A a : a # "none" => ~TopActs(a)'
      /\ ~Calls("forceRelease")' /\ \A op \in {"noCall", "countZero"} : ~Within(op, stack)'
  <2>1. CASE /\ stack' \in Seq(Frame) /\ Tailed(stack') /\ ~Within("finish", stack')
             /\ ~Within("noCall", stack') /\ ~Within("countZero", stack')
    <3>1. PICK t \in Seq(Frame) : t = stack'
      BY <2>1
    <3>2. /\ ActsOnTop' /\ ~Answering' /\ \A a : a # "none" => ~TopActs(a)'
          /\ ~Calls("forceRelease")' /\ \A op : Within(op, stack)' <=> Within(op, t)
      BY <1>1, <2>1, <3>1, TailLeft DEF TailOps
    <3> QED
      BY <2>1, <3>1, <3>2
  <2>2. CASE \E f \in Frame : stack' = << f >> /\ f.act = "none" /\ f.op \in {"switch", "signal"}
    <3>1. PICK f \in Frame : stack' = << f >> /\ f.act = "none" /\ f.op \in {"switch", "signal"}
      BY <2>2
    <3> DEFINE t == << >>
    <3>2. t \in Seq(Frame) /\ Tailed(t) /\ \A op : ~Within(op, t)
      BY DEF Tailed, Within
    <3>3. stack' = << f >> \o t
      BY <3>1
    <3>4. ActsRight(f)
      BY <3>1 DEF ActsRight
    <3> HIDE DEF t
    <3>5. /\ ActsOnTop' /\ ~Answering' /\ \A a : TopActs(a)' <=> f.act = a
          /\ ~Calls("forceRelease")' /\ \A op : Within(op, stack)' <=> f.op = op \/ Within(op, t)
      BY <1>1, <3>1, <3>2, <3>3, <3>4, NewOnTop
    <3> QED
      BY <3>1, <3>2, <3>5
  <2> QED
    BY <2>1, <2>2
<1>4. (GlobalOut' <=> GlobalOut) /\ (ResumeOut' <=> ResumeOut)
  BY <1>1, <1>2, <1>3, OutKept
<1>5. ActsOfSlot'
  BY <1>1 DEF SessionInv, ActsOfSlot, RecordActs, Slots
<1>6. GlobalOnce'
  BY <1>2, <1>3, <1>4 DEF SessionInv, GlobalOnce, GlobalWaits, Dialing, redialVars, rdCall
<1>7. Resuming => Resuming'
  BY <1>2, <1>4 DEF Resuming
<1> QED
  BY <1>1, <1>2, <1>3, <1>5, <1>6, <1>7, SessionsKept

(* The calls that are told of a call's end, and one call to take up a record. *)
LEMMA TailedCalls ==
  ASSUME inst \in Instances
  PROVE  /\ CallEnded \in Seq(Frame) /\ Tailed(CallEnded)
         /\ \A op : Within(op, CallEnded) => op = "callEnded"
         /\ \A s \in Slots : /\ << Process(s) >> \in Seq(Frame) /\ Tailed(<< Process(s) >>)
                             /\ \A op : Within(op, << Process(s) >>) => op = "process"
         /\ << >> \in Seq(Frame) /\ Tailed(<< >>) /\ \A op : ~Within(op, << >>)
<1>1. CallEnded \in Seq(Frame) /\ \A s \in Slots : Process(s) \in Frame
  BY FrameTypes
<1>2. \A i \in DOMAIN CallEnded : CallEnded[i].op = "callEnded" /\ CallEnded[i].act = "none"
  <2> TAKE i \in DOMAIN CallEnded
  <2>1. CallEnded[i] = Call("callEnded", i - 1)
    BY DEF CallEnded
  <2> QED
    BY <2>1, FrameFields
<1>3. Tailed(CallEnded) /\ \A op : Within(op, CallEnded) => op = "callEnded"
  BY <1>2 DEF Tailed, Within, TailOps
<1>4. ASSUME NEW s \in Slots
      PROVE  /\ << Process(s) >> \in Seq(Frame) /\ Tailed(<< Process(s) >>)
             /\ \A op : Within(op, << Process(s) >>) => op = "process"
  <2> DEFINE q == << Process(s) >>
  <2>1. q \in Seq(Frame) /\ DOMAIN q = {1} /\ q[1] = Process(s)
    BY <1>1
  <2>2. q[1].op = "process" /\ q[1].act = "none"
    BY <2>1, FrameFields
  <2> HIDE DEF q
  <2>3. Tailed(q) /\ \A op : Within(op, q) => op = "process"
    BY <2>1, <2>2 DEF Tailed, Within, TailOps
  <2> QED
    BY <2>1, <2>3 DEF q
<1>5. << >> \in Seq(Frame) /\ Tailed(<< >>) /\ \A op : ~Within(op, << >>)
  BY DEF Tailed, Within
<1> QED
  BY <1>1, <1>3, <1>4, <1>5

(* The answers of the modem. *)
LEMMA ResponsesKeep ==
  ASSUME RatTypes, OneSwitch, SessionInv, Next, RatResponses \/ RatFails, UNCHANGED redialVars
  PROVE  SessionInv'
<1>1. inst \in Instances
  BY DEF RatTypes
<1>2. ASSUME NEW i \in DOMAIN mcl, ResponseGmss(i) \/ ResponseAbort(i) PROVE SessionInv'
  <2>1. /\ stack = << >> /\ UNCHANGED << inSwitching, cSlot, pend, settings, calls >>
        /\ stack' = << >> \/ stack' = << Process(mcl[i].slot) >>
    BY <1>2 DEF ResponseGmss, ResponseAbort, Answered, keptVars
  <2>2. /\ stack' \in Seq(Frame) /\ Tailed(stack') /\ ~Within("finish", stack')
        /\ ~Within("noCall", stack') /\ ~Within("countZero", stack')
    <3>1. mcl[i].slot \in Slots
      BY MclFacts
    <3> QED
      BY <1>1, <2>1, <3>1, TailedCalls
  <2> QED
    BY <2>1, <2>2, NewCallsKeep
<1>3. ASSUME NEW i \in DOMAIN mcl, ResponseSet(i) \/ \E b \in BOOLEAN : ResponseSetFails(i, b)
      PROVE SessionInv'
  BY <1>3, AnswerKeeps
<1> QED
  BY <1>2, <1>3 DEF RatResponses, RatFails

(* Scans and calls that begin and end. *)
LEMMA ScansCallsKeep ==
  ASSUME RatTypes, OneSwitch, SessionInv, Next, UNCHANGED redialVars, NEW s \in Slots,
         \/ ScanStarts(s) \/ ScanEnds(s)
         \/ inst.dial = 0 /\ (CallStarts(s) \/ CallEnds(s))
  PROVE  SessionInv'
<1>1. inst \in Instances
  BY DEF RatTypes
<1>2. /\ stack = << >> /\ UNCHANGED << inSwitching, cSlot, pend, settings >>
      /\ stack' = << >> \/ stack' = CallEnded \o << >>
  BY DEF ScanStarts, ScanEnds, CallStarts, CallEnds, CallEndsThen, keptVars
<1>3. mo # "none" /\ 0 \in calls => 0 \in calls'
  <2>1. CASE ScanStarts(s) \/ ScanEnds(s)
    BY <2>1 DEF ScanStarts, ScanEnds
  <2>2. CASE inst.dial = 0
    <3>1. mo = "none"
      BY <2>2 DEF SessionInv, OneSession, RedialTypes, RatTypes, MaxDial
    <3> QED
      BY <3>1
  <2> QED
    BY <2>1, <2>2
<1>4. /\ stack' \in Seq(Frame) /\ Tailed(stack') /\ ~Within("finish", stack')
      /\ ~Within("noCall", stack') /\ ~Within("countZero", stack')
  <2>1. CallEnded \o << >> = CallEnded
    BY <1>1, TailedCalls
  <2> QED
    BY <1>1, <1>2, <2>1, TailedCalls
<1> QED
  BY <1>2, <1>3, <1>4, NewCallsKeep

(* The framework's settings and the mode controller's. *)
LEMMA RequestsKeep ==
  ASSUME RatTypes, OneSwitch, SessionInv, Next, UNCHANGED redialVars, NEW s \in Slots,
         NEW t \in AskedTypes,
         SetPreferredNetworkType(s, t) \/ \E b \in BOOLEAN : ModeSwitch(s, t, b)
  PROVE  SessionInv'
<1>1. /\ inst \in Instances /\ t \in AnyType /\ {"normal", "init"} \subseteq Callers
      /\ "none" \in Acts /\ NoMsg \in 0 .. MaxSet /\ "success" \in Errors /\ InitTarget(s, t) \in AnyType
  <2>1. inst \in Instances /\ t \in AnyType
    BY SlotFacts DEF RatTypes, AnyType
  <2>2. NoMsg \in 0 .. MaxSet
    BY <2>1, SlotFacts DEF NoMsg
  <2> QED
    BY <2>1, <2>2, TargetTypes DEF Callers, Acts, Errors
<1>2. stack = << >> /\ UNCHANGED << inSwitching, cSlot, pend, calls >>
  BY DEF SetPreferredNetworkType, ModeSwitch, modemVars
<1>3. \A z \in Slots : settings'[z].act = settings[z].act
  <2>1. settings' = settings \/ settings' = [settings EXCEPT ![s].def = t]
    BY DEF SetPreferredNetworkType, ModeSwitch, SwitchInit
  <2>2. settings \in [Slots -> Setting] /\ \A z \in Slots : settings[z] \in Setting
    BY DEF RatTypes
  <2> TAKE z \in Slots
  <2> QED
    BY <2>1, <2>2 DEF Setting
<1>4. \E f \in Frame : stack' = << f >> /\ f.act = "none" /\ f.op \in {"switch", "signal"}
  <2>1. CASE SetPreferredNetworkType(s, t)
    <3> DEFINE f == SwitchNwRat(s, t, "normal", "none", sets + 1)
    <3>1. sets + 1 \in 0 .. MaxSet
      <4>1. MaxSet \in Nat
        BY <1>1, SlotFacts
      <4>2. sets \in 0 .. MaxSet /\ sets < MaxSet
        BY <2>1 DEF SetPreferredNetworkType, RatTypes
      <4> QED
        BY <4>1, <4>2
    <3>2. f \in Frame /\ f.act = "none" /\ f.op = "switch"
      BY <1>1, <3>1, FrameTypes, FrameFields
    <3>3. stack' = << f >>
      BY <2>1 DEF SetPreferredNetworkType
    <3> HIDE DEF f
    <3> QED
      BY <3>2, <3>3
  <2>2. ASSUME NEW b \in BOOLEAN, ModeSwitch(s, t, b)
        PROVE  \E f \in Frame : stack' = << f >> /\ f.act = "none" /\ f.op \in {"switch", "signal"}
    <3> DEFINE f == SwitchNwRat(s, InitTarget(s, t), "init", "none", NoMsg)
               g == Signal(s, "success")
    <3>1. f \in Frame /\ f.act = "none" /\ f.op = "switch" /\ g \in Frame /\ g.act = "none" /\ g.op = "signal"
      BY <1>1, FrameTypes, FrameFields
    <3>2. stack' = << f >> \o << >> \/ stack' = << g >> \o << >>
      BY <2>2 DEF ModeSwitch, SwitchInit
    <3> HIDE DEF f, g
    <3>3. << f >> \o << >> = << f >> /\ << g >> \o << >> = << g >>
      BY <3>1
    <3> QED
      BY <3>1, <3>2, <3>3
  <2> QED
    BY <2>1, <2>2
<1> QED
  BY <1>2, <1>3, <1>4, NewCallsKeep

(* switchNwRat and processPendingRatSwitchRecord, and what else is called. *)
LEMMA RatCallsKeep ==
  ASSUME RatTypes, OneSwitch, SessionInv, Next, RatCalls, UNCHANGED redialVars
  PROVE  SessionInv'
BY WaitKeeps, RestrictedKeeps, CallKeeps, DoneKeeps, StartKeeps, PendingKeeps, FinishKeeps, EndKeeps
   DEF RatCalls
-----------------------------------------------------------------------------
(* The calls of the redial controller *)

RedialOps == {"ratMode", "act", "emergencyOff", "forceRelease", "noCall", "countZero"}

(* What a call of the redial controller finds. *)
LEMMA RedialCallFacts ==
  ASSUME RatTypes, SessionInv, NEW o \in RedialOps, Calls(o)
  PROVE  /\ stack # << >> /\ Top.op = o /\ inst \in Instances
         /\ \A op : Calls(op) <=> op = o
         /\ Rest \in Seq(Frame) /\ Tailed(Rest) /\ ~Within("finish", Rest) /\ ~Answering
         /\ \A op : Within(op, stack) <=> op = o \/ Within(op, Rest)
         /\ \A a : TopActs(a) <=> Top.act = a
         /\ o \notin {"ratMode", "act"} => Top.act = "none"
         /\ cSlot = 0 /\ 0 \in Slots
<1>1. stack # << >> /\ Top.op = o /\ ActsOnTop /\ ActsRight(Top) /\ cSlot = 0 /\ 0 \in Slots
      /\ o \notin {"finish", "signal", "switch"} /\ inst \in Instances
  BY SlotFacts DEF Calls, SessionInv, ActsOnTop, ActsOfSlot, RatTypes, RedialOps
<1>2. /\ Rest \in Seq(Frame) /\ Tailed(Rest) /\ ~Within("finish", Rest) /\ ~Answering
      /\ \A op : Within(op, stack) <=> op = o \/ Within(op, Rest)
  BY <1>1, RestOfStack
<1>3. (\A a : TopActs(a) <=> Top.act = a) /\ \A op : Calls(op) <=> op = o
  BY <1>1 DEF TopActs, Calls
<1>4. o \notin {"ratMode", "act"} => Top.act = "none"
  BY <1>1 DEF ActsRight
<1> QED
  BY <1>1, <1>2, <1>3, <1>4

(* The calls the redial controller makes. *)
LEMMA RedialFrames ==
  ASSUME inst \in Instances
  PROVE  /\ \A a \in Acts : /\ SetRatMode(a) \in Frame /\ SetRatMode(a).op = "ratMode"
                            /\ SetRatMode(a).act = a /\ SetRatMode(a).slot = 0
                            /\ Act(0, a) \in Frame /\ Act(0, a).op = "act"
                            /\ Act(0, a).act = a /\ Act(0, a).slot = 0
         /\ SetEmergency \in Frame /\ SetEmergency.op = "emergencyOff" /\ SetEmergency.act = "none"
         /\ ForceRelease \in Frame /\ ForceRelease.op = "forceRelease" /\ ForceRelease.act = "none"
         /\ UpdateCallCount \in Frame /\ UpdateCallCount.op = "noCall" /\ UpdateCallCount.act = "none"
         /\ Fun("countZero") \in Frame /\ Fun("countZero").op = "countZero"
         /\ Fun("countZero").act = "none"
         /\ {"none", "global", "resume"} = Acts
<1>1. {"none", "global", "resume"} = Acts /\ 0 \in Slots
      /\ {"emergencyOff", "forceRelease", "noCall", "countZero"} \subseteq Ops
  BY SlotFacts DEF Acts, Ops
<1>2. /\ SetEmergency \in Frame /\ ForceRelease \in Frame /\ UpdateCallCount \in Frame
      /\ Fun("countZero") \in Frame
  BY <1>1, FrameTypes DEF SetEmergency, ForceRelease, UpdateCallCount, Fun
<1>3. /\ SetEmergency.op = "emergencyOff" /\ SetEmergency.act = "none"
      /\ ForceRelease.op = "forceRelease" /\ ForceRelease.act = "none"
      /\ UpdateCallCount.op = "noCall" /\ UpdateCallCount.act = "none"
      /\ Fun("countZero").op = "countZero" /\ Fun("countZero").act = "none"
  BY DEF SetEmergency, ForceRelease, UpdateCallCount, Fun, Call
<1>4. ASSUME NEW a \in Acts
      PROVE  /\ SetRatMode(a) \in Frame /\ SetRatMode(a).op = "ratMode"
             /\ SetRatMode(a).act = a /\ SetRatMode(a).slot = 0
             /\ Act(0, a) \in Frame /\ Act(0, a).op = "act"
             /\ Act(0, a).act = a /\ Act(0, a).slot = 0
  <2>1. SetRatMode(a) \in Frame /\ Act(0, a) \in Frame
    BY <1>1, FrameTypes
  <2> QED
    BY <2>1 DEF SetRatMode, Act, Fun, Call
<1> QED
  BY <1>1, <1>2, <1>3, <1>4

(* The callback of the emergency status, and that of the call count. *)
LEMMA CallbackFrames ==
  ASSUME inst \in Instances
  PROVE  /\ \A b \in BOOLEAN :
              /\ RestrictedMode(b) \in Seq(Frame) /\ Tailed(RestrictedMode(b))
              /\ \A op : Within(op, RestrictedMode(b)) => op = "restrictedMode"
         /\ LET c == << Fun("countZero") >> IN
              c \in Seq(Frame) /\ Tailed(c) /\ \A op : Within(op, c) <=> op = "countZero"
         /\ LET u == << UpdateCallCount >> IN
              u \in Seq(Frame) /\ Tailed(u) /\ \A op : Within(op, u) <=> op = "noCall"
<1>1. ASSUME NEW b \in BOOLEAN
      PROVE  /\ RestrictedMode(b) \in Seq(Frame) /\ Tailed(RestrictedMode(b))
             /\ \A op : Within(op, RestrictedMode(b)) => op = "restrictedMode"
  <2>1. RestrictedMode(b) \in Seq(Frame)
    BY FrameTypes
  <2>2. \A i \in DOMAIN RestrictedMode(b) :
          RestrictedMode(b)[i].op = "restrictedMode" /\ RestrictedMode(b)[i].act = "none"
    <3> DEFINE f == [Fun("restrictedMode") EXCEPT !.ok = b]
    <3>1. f.op = "restrictedMode" /\ f.act = "none"
      BY DEF Fun, Call
    <3> HIDE DEF f
    <3>2. RestrictedMode(b) = << >> \/ RestrictedMode(b) = << f >>
      BY DEF RestrictedMode, f
    <3> QED
      BY <3>1, <3>2
  <2> QED
    BY <2>1, <2>2 DEF Tailed, Within, TailOps
<1>2. ASSUME NEW f \in Frame, f.act = "none", f.op \in TailOps, NEW q, q = << f >>
      PROVE  q \in Seq(Frame) /\ Tailed(q) /\ \A op : Within(op, q) <=> op = f.op
  <2>1. q \in Seq(Frame) /\ DOMAIN q = {1} /\ q[1] = f
    BY <1>2
  <2> QED
    BY <1>2, <2>1 DEF Tailed, Within
<1>3. {"countZero", "noCall"} \subseteq TailOps
  BY DEF TailOps
<1> QED
  BY <1>1, <1>2, <1>3, RedialFrames

(* The redial's step leaves what is with the modem, and brings no switch of its own. *)
LEMMA RedialSide ==
  ASSUME RatTypes, OneSwitch, SessionInv, Next, UNCHANGED << inSwitching, settings, cSlot >>,
         \A z \in Slots, d \in Callers :
           \/ pend'[z][d].act = "none"
           \/ /\ pend'[z][d].act = pend[z][d].act
              /\ pend'[z][d].type \in {pend[z][d].type, NoType},
         ~Answering, ~Answering'
  PROVE  /\ ActsOfSlot' /\ (GlobalWaits' => GlobalWaits)
         /\ (GlobalOut' <=> GlobalOut) /\ (ResumeOut' <=> ResumeOut)
<1>1. inst' = inst
  BY DEF Next
<1>2. RecordActs' /\ (GlobalWaits' => GlobalWaits)
  BY <1>1, PlainRecord DEF SessionInv, ActsOfSlot
<1> QED
  BY <1>1, <1>2, OutKept DEF SessionInv, ActsOfSlot, Slots

(* A step of setRatMode and what follows it: the sessions are what they were. *)
LEMMA RatOpMoves ==
  ASSUME SessionInv, Next, UNCHANGED << rdKept, rdCall, rdMode, voice, calls >>,
         ratState' \in BOOLEAN, ratOp' \in {"none", "global", "resume", "resume_pending"},
         waitsForCount' \in BOOLEAN, ActsOfSlot', ActsOnTop', GlobalOnce',
         ~Calls("forceRelease"), ~Calls("forceRelease")',
         Within("noCall", stack)' <=> Within("noCall", stack),
         ~late' => /\ ratOp' = "resume" => Resuming'
                   /\ inEmergency => Sessions > 0 \/ Releasing'
  PROVE  SessionInv'
<1> USE DEF rdKept, rdCall, rdMode, Dialing
<1>1. inst' = inst
  BY DEF Next
<1>2. Sessions' = Sessions
  BY DEF Sessions, One
<1>3. RedialTypes'
  BY <1>1, LateFacts DEF SessionInv, RedialTypes, MaxDial
<1>4. SessionsCounted'
  BY <1>1, <1>2 DEF SessionInv, SessionsCounted
<1>5. OneSession'
  BY DEF SessionInv, OneSession
<1>6. ~late' => Released'
  BY <1>2, LateFacts DEF Released
<1> QED
  BY <1>3, <1>4, <1>5, <1>6 DEF SessionInv

(* setRatMode that is asked to resume twice. *)
LEMMA UnchangedKeeps ==
  ASSUME RatTypes, OneSwitch, SessionInv, Next, RatModeUnchanged
  PROVE  SessionInv'
<1>1. /\ "ratMode" \in RedialOps /\ Calls("ratMode") /\ Top.act = "resume" /\ ratOp = "resume"
      /\ stack' = Rest /\ inst' = inst
      /\ UNCHANGED << rdKept, rdCall, rdMode, rdRat, voice, calls, inSwitching, settings, cSlot, pend >>
  BY DEF RedialOps, RatModeUnchanged, Next, redialVars, ratKept, keptVars, modemVars
<1>2. /\ stack # << >> /\ Top.op = "ratMode" /\ Rest \in Seq(Frame) /\ Tailed(Rest)
      /\ ~Within("finish", Rest) /\ ~Answering /\ ~Calls("forceRelease")
      /\ Within("noCall", stack) <=> Within("noCall", Rest)
      /\ \A a : TopActs(a) <=> Top.act = a
  BY <1>1, RedialCallFacts
<1>3. /\ ActsOnTop' /\ ~Answering' /\ \A a : a # "none" => ~TopActs(a)'
      /\ ~Calls("forceRelease")' /\ \A op : Within(op, stack)' <=> Within(op, Rest)
  BY <1>1, <1>2, TailLeft DEF TailOps
<1>4. /\ ActsOfSlot' /\ (GlobalWaits' => GlobalWaits)
      /\ (GlobalOut' <=> GlobalOut) /\ (ResumeOut' <=> ResumeOut)
  BY <1>1, <1>2, <1>3, RedialSide
<1>5. GlobalOnce'
  BY <1>1, <1>3, <1>4 DEF SessionInv, GlobalOnce, Dialing, rdCall
<1>6. ~late' => Resuming'
  <2>1. ~late' => ResumeOut
    BY <1>1, <1>2, LateFacts DEF SessionInv, Released, Resuming
  <2> QED
    BY <1>4, <2>1 DEF Resuming
<1>7. Resuming' => Releasing'
  BY DEF Releasing
<1> QED
  BY <1>1, <1>2, <1>3, <1>4, <1>5, <1>6, <1>7, RatOpMoves DEF rdRat, SessionInv, RedialTypes

(* setRatMode that waits for the end of the call. *)
LEMMA PendingModeKeeps ==
  ASSUME RatTypes, OneSwitch, SessionInv, Next, RatModePending
  PROVE  SessionInv'
<1>1. /\ "ratMode" \in RedialOps /\ Calls("ratMode") /\ Top.act = "resume"
      /\ stack' = Rest /\ inst' = inst /\ ratOp' = "resume_pending" /\ waitsForCount' = TRUE
      /\ UNCHANGED << rdKept, rdCall, rdMode, ratState, voice, calls, inSwitching, settings, cSlot, pend >>
      /\ voice = 1
  BY DEF RedialOps, RatModePending, Next, ratKept, keptVars, modemVars, SessionInv, RedialTypes
<1>2. /\ stack # << >> /\ Top.op = "ratMode" /\ Rest \in Seq(Frame) /\ Tailed(Rest)
      /\ ~Within("finish", Rest) /\ ~Answering /\ ~Calls("forceRelease")
      /\ Within("noCall", stack) <=> Within("noCall", Rest)
  BY <1>1, RedialCallFacts
<1>3. /\ ActsOnTop' /\ ~Answering' /\ \A a : a # "none" => ~TopActs(a)'
      /\ ~Calls("forceRelease")' /\ \A op : Within(op, stack)' <=> Within(op, Rest)
  BY <1>1, <1>2, TailLeft DEF TailOps
<1>4. /\ ActsOfSlot' /\ (GlobalWaits' => GlobalWaits)
      /\ (GlobalOut' <=> GlobalOut) /\ (ResumeOut' <=> ResumeOut)
  BY <1>1, <1>2, <1>3, RedialSide
<1>5. GlobalOnce'
  BY <1>1, <1>3, <1>4 DEF SessionInv, GlobalOnce, Dialing, rdCall
<1>6. Releasing'
  BY <1>1 DEF Releasing, Counting
<1> QED
  BY <1>1, <1>2, <1>3, <1>4, <1>5, <1>6, RatOpMoves DEF SessionInv, RedialTypes

(* setRatMode to the global mode, for a call that is to be dialed again. *)
LEMMA GlobalModeKeeps ==
  ASSUME RatTypes, OneSwitch, SessionInv, Next, RatModeGlobal
  PROVE  SessionInv'
<1>1. /\ "ratMode" \in RedialOps /\ Calls("ratMode") /\ Top.act = "global" /\ inst' = inst
      /\ ratOp' = "global"
      /\ UNCHANGED << rdKept, rdCall, rdMode, waitsForCount, voice, calls, inSwitching, settings, cSlot >>
  BY DEF RedialOps, RatModeGlobal, Next, keptVars, modemVars
<1>2. /\ stack # << >> /\ Top.op = "ratMode" /\ Rest \in Seq(Frame) /\ Tailed(Rest)
      /\ ~Within("finish", Rest) /\ ~Answering /\ ~Calls("forceRelease") /\ TopActs("global")
      /\ Within("noCall", stack) <=> Within("noCall", Rest)
      /\ 0 \in Slots /\ inst \in Instances
  BY <1>1, RedialCallFacts
<1>3. Dialing /\ ~resumed /\ ~hangUping /\ ~GlobalWaits /\ ~GlobalOut /\ Sessions > 0
  <2>1. Dialing /\ ~resumed /\ ~GlobalWaits /\ ~GlobalOut
    BY <1>2 DEF SessionInv, GlobalOnce
  <2>2. ~hangUping
    BY <1>1, <1>2 DEF SessionInv, ActsOnTop
  <2>3. Sessions > 0
    BY <2>1, <2>2 DEF Sessions, One
  <2> QED
    BY <2>1, <2>2, <2>3
<1>4. \E f \in Frame : /\ stack' = << f >> \o Rest /\ f.act = "global" /\ f.op \in {"act", "switch"}
                       /\ ActsRight(f)
  <2>1. CASE cur[0] = Global
    <3> DEFINE f == Act(0, "global")
    <3>1. f \in Frame /\ f.act = "global" /\ f.op = "act" /\ f.slot = 0
      BY <1>2, RedialFrames
    <3>2. stack' = << f >> \o Rest
      BY <2>1 DEF RatModeGlobal
    <3> HIDE DEF f
    <3> QED
      BY <3>1, <3>2 DEF ActsRight
  <2>2. CASE cur[0] # Global
    <3> DEFINE f == SwitchNwRat(0, Global, "restrict", "global", NoMsg)
    <3>1. /\ NoMsg \in 0 .. MaxSet /\ Global \in AnyType /\ Global # NoType
          /\ "restrict" \in Callers /\ "global" \in Acts
      BY <1>2, SlotFacts DEF NoMsg, AnyType, Global, NwTypes, Rats, NoType, Callers, Acts
    <3>4. f \in Frame
      BY <1>2, <3>1, FrameTypes
    <3>5. /\ f.act = "global" /\ f.op = "switch" /\ f.slot = 0 /\ f.type = Global
          /\ f.caller = "restrict"
      BY FrameFields
    <3>2. /\ f \in Frame /\ f.act = "global" /\ f.op = "switch" /\ f.slot = 0 /\ f.type = Global
          /\ f.caller = "restrict"
      BY <3>4, <3>5
    <3>3. stack' = << f >> \o Rest
      BY <2>2 DEF RatModeGlobal, EnterRestricted
    <3> HIDE DEF f
    <3> QED
      BY <3>1, <3>2, <3>3 DEF ActsRight
  <2> QED
    BY <2>1, <2>2
<1>5. PICK f \in Frame : /\ stack' = << f >> \o Rest /\ f.act = "global" /\ f.op \in {"act", "switch"}
                         /\ ActsRight(f)
  BY <1>4
<1>6. /\ ActsOnTop' /\ ~Answering' /\ ~Calls("forceRelease")'
      /\ \A op : Within(op, stack)' <=> f.op = op \/ Within(op, Rest)
  BY <1>1, <1>2, <1>5, NewOnTop
<1>7. \A z \in Slots, d \in Callers :
        \/ pend'[z][d].act = "none"
        \/ /\ pend'[z][d].act = pend[z][d].act
           /\ pend'[z][d].type \in {pend[z][d].type, NoType}
  <2>1. CASE pend' = pend
    BY <2>1
  <2>2. CASE pend' # pend
    <3> DEFINE r == [NoRecord EXCEPT !.type = cur[0]]
    <3>1. r \in Record /\ r.act = "none"
      BY <1>2, RecordTypes DEF NoRecord, RatTypes
    <3>2. PICK c \in Callers : pend' = [pend EXCEPT ![0][c] = r]
      BY <2>2 DEF RatModeGlobal, EnterRestricted, Callers
    <3> HIDE DEF r
    <3> QED
      BY <1>2, <3>1, <3>2, RecordReplaced
  <2> QED
    BY <2>1, <2>2
<1>8. /\ ActsOfSlot' /\ (GlobalWaits' => GlobalWaits) /\ (GlobalOut' <=> GlobalOut)
  BY <1>1, <1>2, <1>6, <1>7, RedialSide
<1>9. GlobalOnce'
  BY <1>1, <1>3, <1>8 DEF GlobalOnce, Dialing, rdCall
<1>10. ratState' \in BOOLEAN
  BY DEF RatModeGlobal, SessionInv, RedialTypes
<1> QED
  BY <1>1, <1>2, <1>3, <1>5, <1>6, <1>8, <1>9, <1>10, RatOpMoves DEF SessionInv, RedialTypes

(* setRatMode that resumes. *)
LEMMA ResumeModeKeeps ==
  ASSUME RatTypes, OneSwitch, SessionInv, Next, RatModeResume
  PROVE  SessionInv'
<1>1. /\ "ratMode" \in RedialOps /\ Calls("ratMode") /\ Top.act = "resume" /\ inst' = inst
      /\ ratOp' = "resume"
      /\ UNCHANGED << rdKept, rdCall, rdMode, waitsForCount, voice, calls, inSwitching, settings, cSlot >>
  BY DEF RedialOps, RatModeResume, Next, keptVars, modemVars
<1>2. /\ stack # << >> /\ Top.op = "ratMode" /\ Rest \in Seq(Frame) /\ Tailed(Rest)
      /\ ~Within("finish", Rest) /\ ~Answering /\ ~Calls("forceRelease")
      /\ Within("noCall", stack) <=> Within("noCall", Rest)
      /\ 0 \in Slots /\ cSlot = 0 /\ inst \in Instances
  BY <1>1, RedialCallFacts
<1>3. \E f \in Frame, t \in Seq(Frame) :
        /\ stack' = << f >> \o t /\ f.act = "resume" /\ f.op \in {"act", "switch"} /\ ActsRight(f)
        /\ Tailed(t) /\ ~Within("finish", t) /\ (Within("noCall", t) <=> Within("noCall", Rest))
  <2> DEFINE a == Act(0, "resume")
  <2>1. a \in Frame /\ a.act = "resume" /\ a.op = "act" /\ a.slot = 0
    BY <1>2, RedialFrames
  <2> HIDE DEF a
  <2>2. ActsRight(a)
    BY <2>1 DEF ActsRight
  <2>3. CASE stack' = << a >> \o Rest
    BY <1>2, <2>1, <2>2, <2>3
  <2>4. CASE stack' = << a, Process(0) >> \o Rest
    <3> DEFINE t == << Process(0) >> \o Rest
    <3>1. /\ t \in Seq(Frame) /\ Tailed(t) /\ \A op : Within(op, t) <=> op = "process" \/ Within(op, Rest)
      BY <1>2, RestOfStack DEF SessionInv
    <3>2. stack' = << a >> \o t
      <4>1. Process(0) \in Frame
        BY <1>2, FrameTypes
      <4>2. << a >> \in Seq(Frame) /\ << Process(0) >> \in Seq(Frame) /\ << a, Process(0) >> = << a >> \o << Process(0) >>
        BY <2>1, <4>1
      <4> QED
        BY <1>2, <2>4, <4>2, ConcatAssociative
    <3> HIDE DEF t
    <3> QED
      BY <1>2, <2>1, <2>2, <3>1, <3>2
  <2>5. ASSUME NEW c \in {"init", "normal"}, NEW u \in AnyType, u # NoType, NEW m \in 0 .. MaxSet,
               stack' = << SwitchNwRat(0, u, c, "resume", m) >> \o Rest
        PROVE  \E f \in Frame, t \in Seq(Frame) :
                 /\ stack' = << f >> \o t /\ f.act = "resume" /\ f.op \in {"act", "switch"} /\ ActsRight(f)
                 /\ Tailed(t) /\ ~Within("finish", t) /\ (Within("noCall", t) <=> Within("noCall", Rest))
    <3> DEFINE f == SwitchNwRat(0, u, c, "resume", m)
    <3>4. c \in Callers /\ "resume" \in Acts
      BY DEF Callers, Acts
    <3>5. f \in Frame
      BY <1>2, <3>4, FrameTypes
    <3>6. f.act = "resume" /\ f.op = "switch" /\ f.slot = 0 /\ f.type = u
      BY FrameFields
    <3>1. f \in Frame /\ f.act = "resume" /\ f.op = "switch" /\ f.slot = 0 /\ f.type = u
      BY <3>5, <3>6
    <3>2. stack' = << f >> \o Rest
      BY <2>5
    <3> HIDE DEF f
    <3>3. ActsRight(f)
      BY <2>5, <3>1 DEF ActsRight
    <3> QED
      BY <1>2, <3>1, <3>2, <3>3
  <2>6. \A c \in Callers : pend[0][c].type \in AnyType /\ pend[0][c].msg \in 0 .. MaxSet
                           /\ Filter(0, pend[0][c].type) \in AnyType
                           /\ (pend[0][c].type # NoType => Filter(0, pend[0][c].type) # NoType)
    BY <1>2, PendTypes, TargetTypes, TargetThere DEF RatTypes
  <2>7. \/ stack' = << a >> \o Rest
        \/ stack' = << a, Process(0) >> \o Rest
        \/ /\ pend[0]["init"].type # NoType
           /\ stack' = << SwitchNwRat(0, pend[0]["init"].type, "init", "resume", NoMsg) >> \o Rest
        \/ /\ pend[0]["normal"].type # NoType
           /\ stack' = << SwitchNwRat(0, Filter(0, pend[0]["normal"].type), "normal", "resume",
                                      pend[0]["normal"].msg) >> \o Rest
    BY DEF RatModeResume, LeaveRestricted, a
  <2>8. NoMsg \in 0 .. MaxSet /\ {"init", "normal"} \subseteq Callers
    BY <1>2, SlotFacts DEF NoMsg, Callers
  <2> QED
    BY <2>3, <2>4, <2>5, <2>6, <2>7, <2>8
<1>4. PICK f \in Frame, t \in Seq(Frame) :
        /\ stack' = << f >> \o t /\ f.act = "resume" /\ f.op \in {"act", "switch"} /\ ActsRight(f)
        /\ Tailed(t) /\ ~Within("finish", t) /\ (Within("noCall", t) <=> Within("noCall", Rest))
  BY <1>3
<1>5. /\ ActsOnTop' /\ ~Answering' /\ Top' = f /\ ~Calls("forceRelease")'
      /\ \A a : TopActs(a)' <=> f.act = a
      /\ \A op : Within(op, stack)' <=> f.op = op \/ Within(op, t)
  BY <1>1, <1>2, <1>4, NewOnTop
<1>6. \A z \in Slots, d \in Callers : /\ pend'[z][d].act = pend[z][d].act
                                      /\ pend'[z][d].type \in {pend[z][d].type, NoType}
  <2>1. CASE pend' = pend
    BY <2>1
  <2>2. CASE pend' # pend
    <3>1. PICK c \in Callers : pend' = [pend EXCEPT ![0][c].type = NoType]
      BY <2>2 DEF RatModeResume, LeaveRestricted, Callers
    <3> QED
      BY <1>2, <3>1, RecordReset
  <2> QED
    BY <2>1, <2>2
<1>7. /\ ActsOfSlot' /\ (GlobalWaits' => GlobalWaits) /\ (GlobalOut' <=> GlobalOut)
  BY <1>1, <1>2, <1>5, <1>6, RedialSide
<1>8. ~TopActs("global")'
  BY <1>4, <1>5
<1>9. GlobalOnce'
  BY <1>1, <1>7, <1>8 DEF SessionInv, GlobalOnce, Dialing, rdCall
<1>10. Resuming' /\ Releasing'
  BY <1>4, <1>5 DEF Resuming, Releasing
<1>11. ratState' \in BOOLEAN
  BY DEF RatModeResume, SessionInv, RedialTypes
<1> QED
  BY <1>1, <1>2, <1>4, <1>5, <1>7, <1>9, <1>10, <1>11, RatOpMoves DEF SessionInv, RedialTypes

(* onRatModeSwitchDone of the resumed mode. *)
LEMMA ResumedModeKeeps ==
  ASSUME RatTypes, OneSwitch, SessionInv, Next, RatIsResumed
  PROVE  SessionInv'
<1>1. /\ "act" \in RedialOps /\ Calls("act") /\ Top.act = "resume" /\ inst' = inst /\ ratOp' = "none"
      /\ UNCHANGED << rdKept, rdCall, rdMode, ratState, waitsForCount, voice, calls, inSwitching,
                      settings, cSlot, pend >>
  BY DEF RedialOps, RatIsResumed, Next, ratKept, keptVars, modemVars
<1>2. /\ Rest \in Seq(Frame) /\ Tailed(Rest)
      /\ ~Within("finish", Rest) /\ ~Answering /\ ~Calls("forceRelease")
      /\ Within("noCall", stack) <=> Within("noCall", Rest)
      /\ inst \in Instances
  BY <1>1, RedialCallFacts
<1>3. PICK f \in Frame : stack' = << f >> \o Rest /\ f.act = "none" /\ f.op = "emergencyOff"
  BY <1>2, RedialFrames DEF RatIsResumed
<1>4. ActsRight(f)
  BY <1>3 DEF ActsRight
<1>5. /\ ActsOnTop' /\ ~Answering' /\ \A op : Calls(op)' <=> f.op = op
      /\ \A a : TopActs(a)' <=> f.act = a
      /\ \A op : Within(op, stack)' <=> f.op = op \/ Within(op, Rest)
  BY <1>1, <1>2, <1>3, <1>4, NewOnTop
<1>6. /\ ActsOfSlot' /\ (GlobalWaits' => GlobalWaits) /\ (GlobalOut' <=> GlobalOut)
  BY <1>1, <1>2, <1>5, RedialSide
<1>7. ~TopActs("global")' /\ Calls("emergencyOff")' /\ ~Calls("forceRelease")'
  BY <1>3, <1>5
<1>8. GlobalOnce'
  BY <1>1, <1>6, <1>7 DEF SessionInv, GlobalOnce, Dialing, rdCall
<1>9. Releasing'
  BY <1>7 DEF Releasing
<1> QED
  BY <1>1, <1>2, <1>3, <1>5, <1>6, <1>7, <1>8, <1>9, RatOpMoves DEF SessionInv, RedialTypes

(* onCallCountChanged. *)
LEMMA CountKeeps ==
  ASSUME RatTypes, OneSwitch, SessionInv, Next, OnCallCountChanged
  PROVE  SessionInv'
<1>1. /\ "countZero" \in RedialOps /\ Calls("countZero") /\ inst' = inst
      /\ waitsForCount' = FALSE
      /\ UNCHANGED << rdKept, rdCall, rdMode, ratState, ratOp, voice, calls, inSwitching,
                      settings, cSlot, pend >>
  BY DEF RedialOps, OnCallCountChanged, Next, ratKept, keptVars, modemVars
<1>2. /\ Rest \in Seq(Frame) /\ Tailed(Rest) /\ Top.act = "none" /\ Top.op = "countZero"
      /\ ~Within("finish", Rest) /\ ~Answering /\ ~Calls("forceRelease") /\ ~Calls("emergencyOff")
      /\ Within("noCall", stack) <=> Within("noCall", Rest)
      /\ \A a : TopActs(a) <=> Top.act = a
      /\ inst \in Instances
  BY <1>1, RedialCallFacts
<1>3. /\ ActsOnTop' /\ ~Answering' /\ ~Calls("forceRelease")' /\ ~TopActs("global")'
      /\ ratOp = "resume_pending" => TopActs("resume")'
      /\ Within("noCall", stack)' <=> Within("noCall", Rest)
  <2>1. CASE ratOp = "resume_pending"
    <3> DEFINE f == SetRatMode("resume")
    <3>1. stack' = << f >> \o Rest /\ f \in Frame /\ f.act = "resume" /\ f.op = "ratMode" /\ f.slot = 0
      <4>1. f \in Frame /\ f.act = "resume" /\ f.op = "ratMode" /\ f.slot = 0
        BY <1>2, RedialFrames
      <4>2. stack' = << f >> \o Rest
        BY <2>1 DEF OnCallCountChanged
      <4> QED
        BY <4>1, <4>2
    <3> HIDE DEF f
    <3>2. ActsRight(f)
      BY <3>1 DEF ActsRight
    <3>3. /\ ActsOnTop' /\ ~Answering' /\ \A op : Calls(op)' <=> f.op = op
          /\ \A a : TopActs(a)' <=> f.act = a
          /\ \A op : Within(op, stack)' <=> f.op = op \/ Within(op, Rest)
      BY <1>1, <1>2, <3>1, <3>2, NewOnTop
    <3> QED
      BY <3>1, <3>3
  <2>2. CASE ratOp # "resume_pending"
    <3>1. stack' = Rest
      BY <1>2, <2>2 DEF OnCallCountChanged
    <3>2. /\ ActsOnTop' /\ ~Answering' /\ \A a : a # "none" => ~TopActs(a)'
          /\ ~Calls("forceRelease")' /\ \A op : Within(op, stack)' <=> Within(op, Rest)
      BY <1>1, <1>2, <3>1, TailLeft DEF TailOps
    <3> QED
      BY <2>2, <3>2
  <2> QED
    BY <2>1, <2>2
<1>4. /\ ActsOfSlot' /\ (GlobalWaits' => GlobalWaits)
      /\ (GlobalOut' <=> GlobalOut) /\ (ResumeOut' <=> ResumeOut)
  BY <1>1, <1>2, <1>3, RedialSide
<1>5. GlobalOnce'
  BY <1>1, <1>3, <1>4 DEF SessionInv, GlobalOnce, Dialing, rdCall
<1>6. ~late' => /\ ratOp' = "resume" => Resuming'
                /\ inEmergency => Sessions > 0 \/ Releasing'
  <2> SUFFICES ASSUME ~late' PROVE /\ ratOp' = "resume" => Resuming'
                                   /\ inEmergency => Sessions > 0 \/ Releasing'
    OBVIOUS
  <2>1. Released
    BY LateFacts DEF SessionInv
  <2>2. Resuming => Resuming'
    BY <1>2, <1>4 DEF Resuming
  <2>3. Releasing => Resuming \/ ratOp = "resume_pending"
    BY <1>2 DEF Releasing, Counting
  <2> QED
    BY <1>1, <1>3, <2>1, <2>2, <2>3 DEF Released, Releasing
<1> QED
  BY <1>1, <1>2, <1>3, <1>4, <1>5, <1>6, RatOpMoves DEF SessionInv, RedialTypes

(* onRatModeSwitchDone of the global mode. *)
LEMMA GlobalKeeps ==
  ASSUME RatTypes, OneSwitch, SessionInv, Next, RatIsGlobal
  PROVE  SessionInv'
<1> USE DEF rdKept, rdMode, rdRat
<1>1. /\ "act" \in RedialOps /\ Calls("act") /\ Top.act = "global" /\ inst' = inst
      /\ UNCHANGED << rdKept, rdMode, rdRat, voice, mo, hangUping, mdCall, calls, inSwitching,
                      settings, cSlot, pend >>
  BY DEF RedialOps, RatIsGlobal, Next, ratKept, keptVars, modemVars
<1>2. /\ Rest \in Seq(Frame) /\ Tailed(Rest)
      /\ ~Within("finish", Rest) /\ ~Answering /\ ~Calls("forceRelease")
      /\ Within("noCall", stack) <=> Within("noCall", Rest)
      /\ TopActs("global") /\ ~TopActs("resume")
      /\ inst \in Instances
  BY <1>1, RedialCallFacts
<1>3. /\ Dialing /\ ~resumed /\ ~GlobalWaits /\ ~GlobalOut
      /\ dial = "none" /\ mdCall = "none" /\ mo = "known"
  BY <1>2 DEF SessionInv, GlobalOnce, OneSession
<1>4. /\ late' \in BOOLEAN
      /\ ~late' => Released /\ \A c \in Callers : pend'[0][c].act = "none"
      /\ ResumeOut <=> Resuming
  BY <1>2, LateFacts DEF SessionInv, Resuming
<1>5. CASE hangUping
  <2> DEFINE f == SetRatMode("resume")
  <2>1. f \in Frame /\ f.act = "resume" /\ f.op = "ratMode" /\ f.slot = 0
    BY <1>2, RedialFrames
  <2>2. /\ stack' = << f >> \o Rest /\ resumed' \in BOOLEAN /\ deferred' \in BOOLEAN
        /\ redialState' = redialState /\ dial' = dial
    BY <1>5 DEF RatIsGlobal, SessionInv, RedialTypes
  <2> HIDE DEF f
  <2>3. ActsRight(f)
    BY <2>1 DEF ActsRight
  <2>4. /\ ActsOnTop' /\ ~Answering' /\ \A op : Calls(op)' <=> f.op = op
        /\ \A a : TopActs(a)' <=> f.act = a
        /\ \A op : Within(op, stack)' <=> f.op = op \/ Within(op, Rest)
    BY <1>1, <1>2, <2>1, <2>2, <2>3, NewOnTop
  <2>5. /\ ~TopActs("global")' /\ TopActs("resume")' /\ ~Calls("forceRelease")'
        /\ Within("noCall", stack)' <=> Within("noCall", stack)
    BY <1>2, <2>1, <2>4
  <2>6. /\ ActsOfSlot' /\ (GlobalWaits' => GlobalWaits)
        /\ (GlobalOut' <=> GlobalOut) /\ (ResumeOut' <=> ResumeOut)
    BY <1>1, <1>2, <2>4, RedialSide
  <2>7. GlobalOnce'
    BY <1>3, <2>5, <2>6 DEF GlobalOnce
  <2>8. Sessions' = Sessions
    BY <1>1, <1>2, <2>2, <2>5 DEF Sessions, One, Dialing
  <2>9. RedialTypes'
    BY <1>1, <1>4, <2>2 DEF SessionInv, RedialTypes, MaxDial
  <2>10. SessionsCounted'
    BY <1>1, <2>8 DEF SessionInv, SessionsCounted
  <2>11. OneSession'
    BY <1>1, <1>3, <1>5, <2>2, <2>5 DEF SessionInv, OneSession, Dialing
  <2>12. ~late' => Released'
    BY <1>1, <1>4, <2>5, <2>6 DEF Released, Releasing, Resuming
  <2> QED
    BY <2>4, <2>6, <2>7, <2>9, <2>10, <2>11, <2>12 DEF SessionInv
<1>6. CASE ~hangUping
  <2>1. /\ stack' = Rest /\ resumed' = resumed /\ deferred' = deferred
        /\ redialState' = "dialed" /\ dial' = "redial"
    BY <1>3, <1>6 DEF RatIsGlobal
  <2>2. /\ ActsOnTop' /\ ~Answering' /\ \A a : a # "none" => ~TopActs(a)'
        /\ ~Calls("forceRelease")' /\ \A op : Within(op, stack)' <=> Within(op, Rest)
    BY <1>1, <1>2, <2>1, TailLeft DEF TailOps
  <2>3. /\ ActsOfSlot' /\ (GlobalWaits' => GlobalWaits)
        /\ (GlobalOut' <=> GlobalOut) /\ (ResumeOut' <=> ResumeOut)
    BY <1>1, <1>2, <2>2, RedialSide
  <2>4. GlobalOnce'
    BY <1>3, <2>2, <2>3 DEF GlobalOnce
  <2>5. Sessions' = Sessions /\ Sessions' > 0
    BY <1>1, <1>2, <1>3, <1>6, <2>1, <2>2 DEF Sessions, One, Dialing
  <2>6. RedialTypes'
    BY <1>1, <1>4, <2>1 DEF SessionInv, RedialTypes, MaxDial
  <2>7. SessionsCounted'
    BY <1>1, <2>5 DEF SessionInv, SessionsCounted
  <2>8. OneSession'
    BY <1>1, <1>2, <1>3, <2>1, <2>2 DEF SessionInv, OneSession, Dialing
  <2>9. ~late' => Released'
    BY <1>1, <1>4, <2>3, <2>5 DEF Released, Resuming
  <2> QED
    BY <2>2, <2>3, <2>4, <2>6, <2>7, <2>8, <2>9 DEF SessionInv
<1> QED
  BY <1>5, <1>6

(* setEmergencyMode. *)
LEMMA EmergencyOffKeeps ==
  ASSUME RatTypes, OneSwitch, SessionInv, Next, EmergencyOff
  PROVE  SessionInv'
<1> USE DEF rdKept, rdCall, rdRat, Dialing
<1>1. /\ "emergencyOff" \in RedialOps /\ Calls("emergencyOff") /\ inst' = inst
      /\ UNCHANGED << rdKept, rdCall, rdRat, emcs, ecbm, voice, calls, inSwitching,
                      settings, cSlot, pend >>
      /\ FALSE \in BOOLEAN
  BY DEF RedialOps, EmergencyOff, Next, ratKept, keptVars, modemVars
<1>2. /\ Rest \in Seq(Frame) /\ Tailed(Rest) /\ Top.act = "none"
      /\ ~Within("finish", Rest) /\ ~Answering /\ ~Calls("forceRelease")
      /\ Within("noCall", stack) <=> Within("noCall", Rest)
      /\ \A a : TopActs(a) <=> Top.act = a
      /\ inst \in Instances
  BY <1>1, RedialCallFacts
<1>3. \E t \in Seq(Frame) : /\ Tailed(t) /\ ~Within("finish", t) /\ stack' = t
                            /\ Within("noCall", t) <=> Within("noCall", Rest)
  <2> DEFINE r == RestrictedMode(FALSE)
  <2>1. r \in Seq(Frame) /\ Tailed(r) /\ ~Within("finish", r) /\ ~Within("noCall", r)
    BY <1>1, <1>2, CallbackFrames
  <2>2. stack' = Rest \o r \/ stack' = Rest
    BY DEF EmergencyOff
  <2> HIDE DEF r
  <2>3. /\ Rest \o r \in Seq(Frame) /\ Tailed(Rest \o r) /\ ~Within("finish", Rest \o r)
        /\ Within("noCall", Rest \o r) <=> Within("noCall", Rest)
    BY <1>2, <2>1, JoinedFrames
  <2> QED
    BY <1>2, <2>2, <2>3
<1>4. PICK t \in Seq(Frame) : /\ Tailed(t) /\ ~Within("finish", t) /\ stack' = t
                              /\ Within("noCall", t) <=> Within("noCall", Rest)
  BY <1>3
<1>5. /\ ActsOnTop' /\ ~Answering' /\ \A a : a # "none" => ~TopActs(a)'
      /\ ~Calls("forceRelease")' /\ \A op : Within(op, stack)' <=> Within(op, t)
  BY <1>1, <1>4, TailLeft DEF TailOps
<1>6. /\ ActsOfSlot' /\ (GlobalWaits' => GlobalWaits)
      /\ (GlobalOut' <=> GlobalOut) /\ (ResumeOut' <=> ResumeOut)
  BY <1>1, <1>2, <1>5, RedialSide
<1>7. GlobalOnce'
  BY <1>1, <1>5, <1>6 DEF SessionInv, GlobalOnce
<1>8. Sessions' = Sessions /\ Sessions \in Nat
  BY <1>1, <1>2, <1>5 DEF Sessions, One
<1>9. /\ inEmergency' \in BOOLEAN
      /\ inEmergency' <=> inEmergency /\ emcs # 0
  BY DEF EmergencyOff, SessionInv, RedialTypes
<1>10. RedialTypes'
  BY <1>1, <1>9, LateFacts DEF SessionInv, RedialTypes, MaxDial
<1>11. SessionsCounted'
  BY <1>1, <1>8, <1>9 DEF SessionInv, SessionsCounted
<1>12. OneSession'
  BY <1>1, <1>2, <1>4, <1>5 DEF SessionInv, OneSession
<1>13. ~late' => Released'
  <2>1. inEmergency' => Sessions' > 0
    <3>1. emcs \in Nat /\ emcs <= Sessions
      BY DEF SessionInv, SessionsCounted, RedialTypes
    <3> QED
      BY <1>8, <1>9, <3>1
  <2>2. ~late' => /\ ratOp = "resume" => ResumeOut
                  /\ \A c \in Callers : pend'[0][c].act = "none"
    BY <1>2, LateFacts DEF SessionInv, Released, Resuming
  <2> QED
    BY <1>1, <1>6, <2>1, <2>2 DEF Released, Resuming
<1> QED
  BY <1>5, <1>6, <1>7, <1>10, <1>11, <1>12, <1>13 DEF SessionInv

(* The calls that begin to release the emergency mode, or none. *)
LEMMA ReleaseCalls ==
  ASSUME RatTypes, inst' = inst, NEW t \in Seq(Frame), Tailed(t), ~Within("finish", t), NEW b \in BOOLEAN,
         \/ stack' = (IF b THEN << SetRatMode("resume") >> ELSE << >>) \o t
         \/ b /\ stack' = << SetEmergency >> \o t
  PROVE  /\ ActsOnTop' /\ ~Answering' /\ ~Calls("forceRelease")' /\ ~TopActs("global")'
         /\ b => TopActs("resume")' \/ Calls("emergencyOff")'
         /\ \A op \in {"noCall", "countZero"} : Within(op, stack)' <=> Within(op, t)
<1>1. inst \in Instances
  BY DEF RatTypes
<1>2. ASSUME NEW f \in Frame, f.act \in {"none", "resume"}, f.op \in {"ratMode", "emergencyOff"},
             f.op = "ratMode" => f.act = "resume" /\ f.slot = 0,
             f.op = "emergencyOff" => f.act = "none", stack' = << f >> \o t
      PROVE  /\ ActsOnTop' /\ ~Answering' /\ ~Calls("forceRelease")' /\ ~TopActs("global")'
             /\ TopActs("resume")' \/ Calls("emergencyOff")'
             /\ \A op \in {"noCall", "countZero"} : Within(op, stack)' <=> Within(op, t)
  <2>1. ActsRight(f)
    BY <1>2 DEF ActsRight
  <2>2. /\ ActsOnTop' /\ ~Answering' /\ \A op : Calls(op)' <=> f.op = op
        /\ \A a : TopActs(a)' <=> f.act = a
        /\ \A op : Within(op, stack)' <=> f.op = op \/ Within(op, t)
    BY <1>2, <2>1, NewOnTop
  <2> QED
    BY <1>2, <2>2
<1>3. CASE b /\ stack' = << SetEmergency >> \o t
  <2> DEFINE f == SetEmergency
  <2>1. f \in Frame /\ f.act = "none" /\ f.op = "emergencyOff"
    BY <1>1, RedialFrames
  <2>2. stack' = << f >> \o t
    BY <1>3
  <2> HIDE DEF f
  <2> QED
    BY <1>2, <2>1, <2>2
<1>4. CASE b /\ stack' = << SetRatMode("resume") >> \o t
  <2> DEFINE f == SetRatMode("resume")
  <2>1. f \in Frame /\ f.act = "resume" /\ f.op = "ratMode" /\ f.slot = 0
    BY <1>1, RedialFrames
  <2>2. stack' = << f >> \o t
    BY <1>4
  <2> HIDE DEF f
  <2> QED
    BY <1>2, <2>1, <2>2
<1>5. CASE ~b
  <2>1. stack' = t
    BY <1>5
  <2>2. /\ ActsOnTop' /\ ~Answering' /\ \A a : a # "none" => ~TopActs(a)'
        /\ ~Calls("forceRelease")' /\ \A op : Within(op, stack)' <=> Within(op, t)
    BY <2>1, TailLeft DEF TailOps
  <2> QED
    BY <1>5, <2>2
<1> QED
  BY <1>3, <1>4, <1>5

(* The failure of a call is handled. *)
LEMMA ForceReleaseKeeps ==
  ASSUME RatTypes, OneSwitch, SessionInv, Next, ForceReleaseEmergency
  PROVE  SessionInv'
<1> USE DEF rdKept, rdRat, Dialing
<1>1. /\ "forceRelease" \in RedialOps /\ Calls("forceRelease") /\ inst' = inst /\ mo' = "none"
      /\ UNCHANGED << rdKept, rdRat, voice, inEmergency, redialState, hangUping, deferred, resumed, dial,
                      mdCall, calls, inSwitching, settings, cSlot, pend >>
      /\ FALSE \in BOOLEAN
  BY DEF RedialOps, ForceReleaseEmergency, Next, ratKept, keptVars, modemVars
<1>2. /\ Rest \in Seq(Frame) /\ Tailed(Rest) /\ Top.act = "none" /\ Top.op = "forceRelease"
      /\ ~Within("finish", Rest) /\ ~Answering /\ stack # << >>
      /\ Within("noCall", stack) <=> Within("noCall", Rest)
      /\ \A a : TopActs(a) <=> Top.act = a
      /\ inst \in Instances
  BY <1>1, RedialCallFacts
<1>3. dial = "none" /\ mdCall = "none" /\ ~Dialing /\ ~resumed
  BY <1>1 DEF SessionInv, OneSession
<1>4. \E t \in Seq(Frame), b \in BOOLEAN :
        /\ Tailed(t) /\ ~Within("finish", t) /\ (Within("noCall", t) <=> Within("noCall", Rest))
        /\ \/ stack' = (IF b THEN << SetRatMode("resume") >> ELSE << >>) \o t
           \/ b /\ stack' = << SetEmergency >> \o t
        /\ ~b => (emcs <= 1 => ~inEmergency)
  <2>1. CASE ecbm
    <3> DEFINE r == RestrictedMode(FALSE)
    <3>1. r \in Seq(Frame) /\ Tailed(r) /\ ~Within("finish", r) /\ ~Within("noCall", r)
      BY <1>1, <1>2, CallbackFrames
    <3> DEFINE b == emcs <= 1
               p == IF b THEN << SetRatMode("resume") >> ELSE << >>
    <3>2. p \in Seq(Frame)
      <4>1. SetRatMode("resume") \in Frame
        BY <1>2, RedialFrames
      <4> HIDE DEF b
      <4> QED
        BY <4>1
    <3>3. stack' = p \o Rest \o r
      BY <2>1 DEF ForceReleaseEmergency
    <3> HIDE DEF r, p
    <3> DEFINE t == Rest \o r
    <3>4. /\ t \in Seq(Frame) /\ Tailed(t) /\ ~Within("finish", t)
          /\ Within("noCall", t) <=> Within("noCall", Rest)
      BY <1>2, <3>1, JoinedFrames
    <3>5. stack' = p \o t
      BY <1>2, <3>1, <3>2, <3>3, ConcatAssociative
    <3> HIDE DEF t
    <3> QED
      BY <3>4, <3>5 DEF p
  <2>2. CASE ~ecbm /\ ratOp # "none"
    <3>1. stack' = (IF TRUE THEN << SetRatMode("resume") >> ELSE << >>) \o Rest
      BY <2>2 DEF ForceReleaseEmergency
    <3> QED
      BY <1>2, <3>1
  <2>3. CASE ~ecbm /\ ratOp = "none" /\ inEmergency
    <3>1. stack' = << SetEmergency >> \o Rest
      BY <2>3 DEF ForceReleaseEmergency
    <3> QED
      BY <1>2, <3>1
  <2>4. CASE ~ecbm /\ ratOp = "none" /\ ~inEmergency
    <3>1. stack' = Rest
      BY <2>4 DEF ForceReleaseEmergency
    <3>2. stack' = (IF FALSE THEN << SetRatMode("resume") >> ELSE << >>) \o Rest
      BY <1>2, <3>1
    <3> QED
      BY <1>2, <2>4, <3>2
  <2> QED
    BY <2>1, <2>2, <2>3, <2>4
<1>5. PICK t \in Seq(Frame), b \in BOOLEAN :
        /\ Tailed(t) /\ ~Within("finish", t) /\ (Within("noCall", t) <=> Within("noCall", Rest))
        /\ \/ stack' = (IF b THEN << SetRatMode("resume") >> ELSE << >>) \o t
           \/ b /\ stack' = << SetEmergency >> \o t
        /\ ~b => (emcs <= 1 => ~inEmergency)
  BY <1>4
<1>6. /\ ActsOnTop' /\ ~Answering' /\ ~Calls("forceRelease")' /\ ~TopActs("global")'
      /\ b => TopActs("resume")' \/ Calls("emergencyOff")'
      /\ \A op \in {"noCall", "countZero"} : Within(op, stack)' <=> Within(op, t)
  BY <1>1, <1>5, ReleaseCalls
<1>7. /\ ActsOfSlot' /\ (GlobalWaits' => GlobalWaits)
      /\ (GlobalOut' <=> GlobalOut) /\ (ResumeOut' <=> ResumeOut)
  BY <1>1, <1>2, <1>6, RedialSide
<1>8. GlobalOnce'
  BY <1>1, <1>6, <1>7 DEF SessionInv, GlobalOnce
<1>9. Sessions = Sessions' + 1 /\ Sessions' \in Nat
  BY <1>1, <1>3, <1>6 DEF Sessions, One
<1>10. /\ emcs \in Nat /\ emcs <= Sessions /\ ecbm' \in BOOLEAN /\ inEmergency \in BOOLEAN
       /\ emcs > 0 => inEmergency
       /\ emcs' = Decreased \/ (emcs' = emcs /\ ~inEmergency)
  BY <1>1 DEF SessionInv, SessionsCounted, RedialTypes, ForceReleaseEmergency
<1>11. /\ emcs' \in Nat /\ emcs' <= Sessions'
       /\ emcs' > 0 => inEmergency
       /\ emcs = Sessions => emcs' = Sessions'
       /\ inEmergency /\ ~b => Sessions' > 0
  <2>1. ASSUME NEW n \in Nat, Sessions = n + 1
        PROVE  /\ emcs' \in Nat /\ emcs' <= n /\ (emcs' > 0 => inEmergency)
               /\ emcs = n + 1 => emcs' = n
               /\ inEmergency /\ ~b => n > 0
    <3>1. emcs \in Nat /\ emcs <= n + 1
      BY <1>10, <2>1
    <3>2. CASE inEmergency
      <4>1. emcs' = IF emcs = 0 THEN 0 ELSE emcs - 1
        BY <1>10, <3>2 DEF Decreased
      <4>2. ~b => emcs > 1
        BY <1>5, <3>1, <3>2
      <4> QED
        BY <3>1, <3>2, <4>1, <4>2
    <3>3. CASE ~inEmergency
      <4>1. emcs = 0
        BY <1>10, <3>3
      <4>2. emcs' = 0
        BY <1>10, <4>1 DEF Decreased
      <4> QED
        BY <3>3, <4>1, <4>2
    <3> QED
      BY <3>2, <3>3
  <2>2. PICK n \in Nat : n = Sessions' /\ Sessions = n + 1
    BY <1>9
  <2> QED
    BY <2>1, <2>2
<1>12. RedialTypes'
  BY <1>1, <1>10, <1>11, LateFacts DEF SessionInv, RedialTypes, MaxDial
<1>13. SessionsCounted'
  BY <1>1, <1>11 DEF SessionInv, SessionsCounted
<1>14. OneSession'
  <2>1. "noCall" \in {"noCall", "countZero"}
    OBVIOUS
  <2> QED
    BY <1>1, <1>2, <1>3, <1>5, <1>6, <2>1 DEF SessionInv, OneSession
<1>15. ~late' => Released'
  <2>1. ~late' => /\ ratOp = "resume" => ResumeOut
                  /\ \A c \in Callers : pend'[0][c].act = "none"
    BY <1>2, LateFacts DEF SessionInv, Released, Resuming
  <2> QED
    BY <1>1, <1>6, <1>7, <1>11, <2>1 DEF Released, Releasing, Resuming
<1> QED
  BY <1>6, <1>7, <1>8, <1>12, <1>13, <1>14, <1>15 DEF SessionInv

(* updateCallCount, the call gone. *)
LEMMA NoCallKeeps ==
  ASSUME RatTypes, OneSwitch, SessionInv, Next, NoCall
  PROVE  SessionInv'
<1> USE DEF rdKept, rdCall, rdMode, rdRat, Dialing
<1>1. /\ "noCall" \in RedialOps /\ Calls("noCall") /\ inst' = inst /\ voice' = 0 /\ calls' = calls \ {0}
      /\ UNCHANGED << rdKept, rdCall, rdMode, rdRat, inSwitching, settings, cSlot, pend >>
  BY DEF RedialOps, NoCall, Next, keptVars
<1>2. /\ Rest \in Seq(Frame) /\ Tailed(Rest) /\ Top.act = "none" /\ Top.op = "noCall"
      /\ ~Within("finish", Rest) /\ ~Answering /\ stack # << >>
      /\ ~Calls("forceRelease") /\ ~Calls("emergencyOff") /\ Within("noCall", stack)
      /\ \A a : TopActs(a) <=> Top.act = a
      /\ \A op : Within(op, stack) <=> op = "noCall" \/ Within(op, Rest)
      /\ inst \in Instances
  BY <1>1, RedialCallFacts
<1>3. mo = "none" /\ mdCall = "none"
  BY <1>2 DEF SessionInv, OneSession
<1>4. \E t \in Seq(Frame) :
        /\ stack' = t /\ Tailed(t) /\ ~Within("finish", t)
        /\ Within("countZero", Rest) \/ (voice > 0 /\ waitsForCount) => Within("countZero", t)
  <2> DEFINE u == << Fun("countZero") >>
             b == voice > 0 /\ waitsForCount
             p == IF b THEN u ELSE << >>
             r == IF 0 \in calls THEN CallEnded ELSE << >>
  <2>1. u \in Seq(Frame) /\ Tailed(u) /\ \A op : Within(op, u) <=> op = "countZero"
    BY <1>2, CallbackFrames
  <2> HIDE DEF u
  <2>2. /\ << >> \in Seq(Frame) /\ Tailed(<< >>) /\ (\A op : ~Within(op, << >>))
        /\ CallEnded \in Seq(Frame) /\ Tailed(CallEnded)
        /\ \A op : Within(op, CallEnded) => op = "callEnded"
    BY <1>2, TailedCalls
  <2> HIDE DEF b
  <2>3. p \in Seq(Frame) /\ Tailed(p) /\ ~Within("finish", p) /\ (b => Within("countZero", p))
    BY <2>1, <2>2
  <2>4. r \in Seq(Frame) /\ Tailed(r) /\ ~Within("finish", r)
    BY <2>2
  <2>5. stack' = (Rest \o p) \o r
    BY DEF NoCall, u, b
  <2> HIDE DEF p, r
  <2> DEFINE q == Rest \o p
             t == q \o r
  <2>6. /\ q \in Seq(Frame) /\ Tailed(q) /\ ~Within("finish", q)
        /\ Within("countZero", q) <=> Within("countZero", Rest) \/ Within("countZero", p)
    BY <1>2, <2>3, JoinedFrames
  <2> HIDE DEF q
  <2>7. /\ t \in Seq(Frame) /\ Tailed(t) /\ ~Within("finish", t)
        /\ Within("countZero", t) <=> Within("countZero", q) \/ Within("countZero", r)
    BY <2>4, <2>6, JoinedFrames
  <2>8. stack' = t
    BY <2>5 DEF q
  <2> HIDE DEF t
  <2> QED
    BY <2>3, <2>6, <2>7, <2>8 DEF b
<1>5. PICK t \in Seq(Frame) :
        /\ stack' = t /\ Tailed(t) /\ ~Within("finish", t)
        /\ Within("countZero", Rest) \/ (voice > 0 /\ waitsForCount) => Within("countZero", t)
  BY <1>4
<1>6. /\ ActsOnTop' /\ ~Answering' /\ \A a : a # "none" => ~TopActs(a)'
      /\ ~Calls("forceRelease")' /\ \A op : Within(op, stack)' <=> Within(op, t)
  BY <1>1, <1>5, TailLeft DEF TailOps
<1>7. /\ ActsOfSlot' /\ (GlobalWaits' => GlobalWaits)
      /\ (GlobalOut' <=> GlobalOut) /\ (ResumeOut' <=> ResumeOut)
  BY <1>1, <1>2, <1>6, RedialSide
<1>8. GlobalOnce'
  BY <1>1, <1>6, <1>7 DEF SessionInv, GlobalOnce
<1>9. Sessions' = Sessions
  BY <1>1, <1>2, <1>6 DEF Sessions, One
<1>10. RedialTypes'
  BY <1>1, LateFacts DEF SessionInv, RedialTypes, MaxDial
<1>11. SessionsCounted'
  BY <1>1, <1>9 DEF SessionInv, SessionsCounted
<1>12. OneSession'
  BY <1>1, <1>2, <1>3 DEF SessionInv, OneSession
<1>13. ~late' => Released'
  <2>1. ~late' => Released /\ \A c \in Callers : pend'[0][c].act = "none"
    BY LateFacts DEF SessionInv
  <2>2. Resuming <=> ResumeOut
    BY <1>2 DEF Resuming
  <2>3. Releasing => ResumeOut \/ Counting
    BY <1>2, <2>2 DEF Releasing
  <2>4. Counting => Counting'
    BY <1>1, <1>2, <1>5, <1>6 DEF Counting, SessionInv, RedialTypes
  <2> QED
    BY <1>1, <1>7, <1>9, <2>1, <2>2, <2>3, <2>4 DEF Released, Releasing, Resuming
<1> QED
  BY <1>6, <1>7, <1>8, <1>10, <1>11, <1>12, <1>13 DEF SessionInv

(* The calls of the redial controller. *)
LEMMA RedialCallsKeep ==
  ASSUME RatTypes, OneSwitch, SessionInv, Next, RedialCalls
  PROVE  SessionInv'
BY UnchangedKeeps, PendingModeKeeps, GlobalModeKeeps, ResumeModeKeeps, GlobalKeeps, ResumedModeKeeps,
   EmergencyOffKeeps, ForceReleaseKeeps, NoCallKeeps, CountKeeps DEF RedialCalls
-----------------------------------------------------------------------------
(* The requests of the framework and the answers and indications of the modem *)

(* What holds before a message is handled. *)
LEMMA EventFacts ==
  ASSUME RatTypes, SessionInv, Next, stack = << >>
  PROVE  /\ RedialTypes /\ SessionsCounted /\ OneSession /\ inst \in Instances /\ inst' = inst
         /\ \A op : ~Calls(op) /\ ~Within(op, stack)
         /\ Sessions \in Nat /\ voice \in {0, 1} /\ (voice = 1 => mdCall = "up")
         /\ Sessions = 0 => voice = 0
         /\ Dialing => dial = "none" /\ mdCall = "none" /\ mo = "known"
         /\ resumed => Dialing /\ hangUping
         /\ 0 \in Slots
<1>1. \A op : ~Calls(op) /\ ~Within(op, stack)
  BY NoCalls
<1>2. Sessions \in Nat /\ (mdCall = "up" => Sessions > 0)
  BY DEF Sessions, One
<1>3. voice \in {0, 1} /\ (voice = 1 => mdCall = "up")
  BY <1>1 DEF SessionInv, RedialTypes, OneSession
<1> QED
  BY <1>1, <1>2, <1>3, SlotFacts DEF SessionInv, RedialTypes, OneSession, RatTypes, Next

(* The invariant after a message of which the RAT switch controller is not told. *)
LEMMA EventKeeps ==
  ASSUME RatTypes, OneSwitch, SessionInv, Next, stack = << >>,
         UNCHANGED << inSwitching, settings, cSlot, pend, ratOp >>,
         ActsOnTop', ~Answering', RedialTypes', SessionsCounted', OneSession',
         Dialing /\ ~resumed => Dialing' /\ ~resumed',
         TopActs("global")' => ~Dialing /\ Dialing' /\ ~resumed',
         ~late' /\ inEmergency' => \/ Sessions' > 0
                                   \/ Releasing'
                                   \/ inEmergency /\ Sessions = 0 /\ voice = 0
  PROVE  SessionInv'
<1>1. /\ \A op : ~Calls(op) /\ ~Within(op, stack)
      /\ \A a : ~TopActs(a)
      /\ ~Answering
  BY NoCalls
<1>2. /\ ActsOfSlot' /\ (GlobalWaits' => GlobalWaits)
      /\ (GlobalOut' <=> GlobalOut) /\ (ResumeOut' <=> ResumeOut)
  BY <1>1, RedialSide
<1>3. GlobalOnce'
  BY <1>1, <1>2 DEF SessionInv, GlobalOnce
<1>4. ~late' => Released'
  <2> SUFFICES ASSUME ~late' PROVE Released'
    OBVIOUS
  <2>1. Released /\ \A c \in Callers : pend'[0][c].act = "none"
    BY LateFacts DEF SessionInv
  <2>2. Resuming => ResumeOut
    BY <1>1 DEF Resuming
  <2>3. ratOp' = "resume" => Resuming'
    BY <1>2, <2>1, <2>2 DEF Released, Resuming
  <2>4. inEmergency' => Sessions' > 0 \/ Releasing'
    <3> SUFFICES ASSUME inEmergency, Sessions = 0, voice = 0 PROVE Releasing'
      OBVIOUS
    <3>1. Releasing
      BY <2>1 DEF Released
    <3>2. ~Counting
      BY <1>1 DEF Counting
    <3>3. ResumeOut
      BY <1>1, <2>2, <3>1, <3>2 DEF Releasing
    <3> QED
      BY <1>2, <3>3 DEF Releasing, Resuming
  <2> QED
    BY <2>1, <2>3, <2>4 DEF Released
<1> QED
  BY <1>2, <1>3, <1>4 DEF SessionInv

(* The framework dials an emergency call. *)
LEMMA DialKeeps ==
  ASSUME RatTypes, OneSwitch, SessionInv, Next, EmergencyDial
  PROVE  SessionInv'
<1>1. /\ stack = << >> /\ 0 \notin calls /\ dial = "none" /\ mdCall = "none" /\ dials < MaxDial
      /\ dials' = dials + 1 /\ inEmergency' = TRUE /\ eccModeSent' = FALSE /\ eccAsked' = FALSE
      /\ redialState' = "none" /\ deferred' = FALSE /\ hangUping' = FALSE /\ mo' = "dialed"
      /\ dial' = "dial"
      /\ UNCHANGED << inSwitching, settings, cSlot, pend, ratOp, ratState, waitsForCount, voice, resumed,
                      mdCall, mdDue, mdEcbm, ecbm, calls >>
      /\ emcs' = IF eccModeSent THEN emcs ELSE emcs + 1
      /\ stack' = << >> \/ stack' = RestrictedMode(TRUE)
      /\ TRUE \in BOOLEAN
  BY DEF EmergencyDial, HandleEmergencyDial, ratKept, keptVars, modemVars, rdRat
<1>2. /\ RedialTypes /\ SessionsCounted /\ OneSession /\ inst \in Instances /\ inst' = inst
      /\ \A op : ~Calls(op) /\ ~Within(op, stack)
      /\ Sessions \in Nat /\ voice = 0
      /\ Dialing => mo = "known"
      /\ resumed => Dialing
  BY <1>1, EventFacts
<1>3. ~Dialing /\ ~resumed /\ ~Dialing'
  BY <1>1, <1>2 DEF OneSession, Dialing
<1>4. /\ ActsOnTop' /\ ~Answering' /\ ~TopActs("global")' /\ ~Calls("forceRelease")'
      /\ ~Within("noCall", stack)'
  <2>1. PICK t \in Seq(Frame) : stack' = t /\ Tailed(t) /\ ~Within("finish", t) /\ ~Within("noCall", t)
    BY <1>1, <1>2, CallbackFrames, TailedCalls
  <2>2. /\ ActsOnTop' /\ ~Answering' /\ \A a : a # "none" => ~TopActs(a)'
        /\ \A op : Calls(op)' => op \in TailOps
        /\ \A op : Within(op, stack)' <=> Within(op, t)
    BY <1>2, <2>1, TailLeft
  <2> QED
    BY <2>1, <2>2 DEF TailOps
<1>5. Sessions' = IF eccAsked THEN Sessions ELSE Sessions + 1
  BY <1>1, <1>2, <1>3, <1>4 DEF Sessions, One
<1>6. RedialTypes'
  <2>1. emcs' \in Nat
    BY <1>1, <1>2 DEF RedialTypes
  <2>2. dials' <= MaxDial'
    <3>1. MaxDial \in Nat
      BY <1>2, RedialAssumption DEF MaxDial
    <3> QED
      BY <1>1, <1>2, <3>1 DEF RatTypes, MaxDial
  <2> QED
    BY <1>1, <1>2, <2>1, <2>2, LateFacts DEF RedialTypes
<1>7. SessionsCounted'
  <2> HIDE DEF Sessions
  <2>1. /\ emcs \in Nat /\ emcs <= Sessions /\ (eccAsked => eccModeSent)
        /\ inst.eccMode = 0 => emcs = Sessions /\ ~eccModeSent
    BY <1>2 DEF SessionsCounted, RedialTypes
  <2>2. PICK n \in Nat : n = Sessions
    BY <1>2
  <2>3. emcs' <= Sessions' /\ (inst.eccMode = 0 => emcs' = Sessions')
    <3>1. CASE eccModeSent
      <4>1. emcs' = emcs /\ inst.eccMode # 0
        BY <1>1, <2>1, <3>1
      <4>2. Sessions' = n \/ Sessions' = n + 1
        BY <1>5, <2>2
      <4> QED
        BY <2>1, <2>2, <4>1, <4>2
    <3>2. CASE ~eccModeSent
      <4>1. emcs' = emcs + 1 /\ Sessions' = n + 1
        BY <1>1, <1>5, <2>1, <2>2, <3>2
      <4> QED
        BY <2>1, <2>2, <4>1
    <3> QED
      BY <3>1, <3>2
  <2> QED
    BY <1>1, <1>2, <2>3 DEF SessionsCounted
<1>8. OneSession'
  BY <1>1, <1>2, <1>3, <1>4 DEF OneSession, RatTypes
<1>9. Sessions' > 0
  BY <1>1, <1>5 DEF Sessions, One
<1> QED
  BY <1>1, <1>3, <1>4, <1>6, <1>7, <1>8, <1>9, EventKeeps

(* The framework hangs up. *)
LEMMA HangupKeeps ==
  ASSUME RatTypes, OneSwitch, SessionInv, Next, Hangup
  PROVE  SessionInv'
<1> USE DEF Dialing
<1>1. /\ stack = << >> /\ 0 \in calls /\ mo = "known" /\ hangUping' = TRUE
      /\ mdDue' = (mdDue \/ (~hangUping /\ mdCall = "none" /\ dial = "none"))
      /\ UNCHANGED << inSwitching, settings, cSlot, pend, ratOp, ratState, waitsForCount, voice, resumed,
                      mdCall, mdEcbm, ecbm, calls, emcs, inEmergency, eccModeSent, eccAsked, redialState,
                      mo, deferred, dial, dials, stack >>
  BY DEF Hangup, ratVars, keptVars, modemVars, rdMode, rdRat
<1>2. /\ RedialTypes /\ SessionsCounted /\ OneSession /\ inst \in Instances /\ inst' = inst
      /\ \A op : ~Calls(op) /\ ~Within(op, stack)
      /\ Dialing => dial = "none" /\ mdCall = "none"
  BY <1>1, EventFacts
<1>3. (mdCall = "none" /\ dial = "none") <=> Dialing
  BY <1>1, <1>2 DEF OneSession
<1>4. /\ ActsOnTop' /\ ~Answering' /\ ~TopActs("global")' /\ ~Calls("forceRelease")'
      /\ ~Within("noCall", stack)'
  BY <1>1, <1>2 DEF ActsOnTop, Answering, TopActs, Calls, Within
<1>5. Sessions' = Sessions
  <2>1. UNCHANGED << One(dial # "none"), One(mdCall # "none"), One(mdEcbm), One(eccAsked) >>
    BY <1>1
  <2>2. One(Calls("forceRelease"))' = One(Calls("forceRelease"))
    BY <1>2, <1>4 DEF One
  <2>3. CASE Dialing /\ ~hangUping
    <3>1. ~mdDue /\ mdDue'
      BY <1>1, <1>2, <2>3 DEF OneSession
    <3> QED
      BY <1>1, <2>2, <2>3, <3>1 DEF Sessions, One
  <2>4. CASE ~(Dialing /\ ~hangUping)
    <3>1. mdDue' <=> mdDue
      BY <1>1, <1>3, <2>4
    <3>2. One(mdDue)' = One(mdDue)
      BY <3>1 DEF One
    <3>3. One(Dialing /\ ~hangUping) = 0 /\ One(Dialing /\ ~hangUping)' = 0
      BY <1>1, <2>4 DEF One
    <3> QED
      BY <2>1, <2>2, <3>2, <3>3 DEF Sessions
  <2> QED
    BY <2>3, <2>4
<1>6. RedialTypes'
  BY <1>1, <1>2, LateFacts DEF RedialTypes, MaxDial
<1>7. SessionsCounted'
  BY <1>1, <1>2, <1>5 DEF SessionsCounted
<1>8. OneSession'
  BY <1>1, <1>2, <1>3, <1>4 DEF OneSession
<1>9. Sessions' > 0 \/ (Sessions = 0 /\ voice = 0)
  <2>1. Sessions \in Nat /\ (Sessions = 0 => voice = 0)
    BY <1>1, EventFacts
  <2> QED
    BY <1>5, <2>1
<1> QED
  BY <1>1, <1>4, <1>6, <1>7, <1>8, <1>9, EventKeeps

(* SET_ECC_MODE. *)
LEMMA EccModeKeeps ==
  ASSUME RatTypes, OneSwitch, SessionInv, Next, NEW on \in BOOLEAN, SetEccMode(on)
  PROVE  SessionInv'
<1> USE DEF Dialing
<1>1. /\ stack = << >> /\ (eccAsked' <=> on) /\ eccAsked' \in BOOLEAN
      /\ UNCHANGED << inSwitching, settings, cSlot, pend, ratOp, ratState, waitsForCount, voice, resumed,
                      mdCall, mdDue, mdEcbm, ecbm, calls, redialState, hangUping, mo, deferred, dial, dials >>
      /\ stack' = << >> \/ \E b \in BOOLEAN : stack' = RestrictedMode(b)
  BY DEF SetEccMode, ratKept, keptVars, modemVars, rdCall, rdRat
<1>2. /\ RedialTypes /\ SessionsCounted /\ OneSession /\ inst \in Instances /\ inst' = inst
      /\ \A op : ~Calls(op) /\ ~Within(op, stack)
      /\ Sessions \in Nat /\ (Sessions = 0 => voice = 0)
  BY <1>1, EventFacts
<1>3. /\ ActsOnTop' /\ ~Answering' /\ ~TopActs("global")' /\ ~Calls("forceRelease")'
      /\ ~Within("noCall", stack)'
  <2>1. PICK t \in Seq(Frame) : stack' = t /\ Tailed(t) /\ ~Within("finish", t) /\ ~Within("noCall", t)
    BY <1>1, <1>2, CallbackFrames, TailedCalls
  <2>2. /\ ActsOnTop' /\ ~Answering' /\ \A a : a # "none" => ~TopActs(a)'
        /\ \A op : Calls(op)' => op \in TailOps
        /\ \A op : Within(op, stack)' <=> Within(op, t)
    BY <1>2, <2>1, TailLeft
  <2> QED
    BY <2>1, <2>2 DEF TailOps
<1>4. OneSession'
  BY <1>1, <1>2, <1>3 DEF OneSession
<1>5. emcs \in Nat /\ emcs <= Sessions /\ (emcs > 0 => inEmergency) /\ (eccAsked => eccModeSent)
      /\ (inst.eccMode = 0 => emcs = Sessions /\ ~eccModeSent)
  BY <1>2 DEF SessionsCounted, RedialTypes
<1>6. CASE on
  <2>1. /\ ~eccAsked /\ emcs' = emcs + 1 /\ inEmergency' /\ inEmergency' \in BOOLEAN
        /\ eccModeSent' /\ eccModeSent' \in BOOLEAN /\ eccModes < MaxEccMode
    BY <1>6 DEF SetEccMode
  <2>2. Sessions' = Sessions + 1
    BY <1>1, <1>2, <1>3, <1>6, <2>1 DEF Sessions, One
  <2>3. inst.eccMode # 0
    <3>1. eccModes \in Nat /\ inst.eccMode \in Nat
      BY RedialAssumption DEF RatTypes
    <3> QED
      BY <2>1, <3>1 DEF MaxEccMode
  <2> HIDE DEF Sessions
  <2>4. emcs' \in Nat /\ emcs' <= Sessions' /\ Sessions' > 0
    BY <1>2, <1>5, <2>1, <2>2
  <2>5. RedialTypes'
    BY <1>1, <1>2, <2>1, <2>4, LateFacts DEF RedialTypes, MaxDial
  <2>6. SessionsCounted'
    BY <1>2, <2>1, <2>3, <2>4 DEF SessionsCounted
  <2> QED
    BY <1>1, <1>3, <1>4, <2>4, <2>5, <2>6, EventKeeps
<1>7. CASE ~on
  <2>1. /\ eccAsked /\ emcs' = IF emcs = 0 THEN 0 ELSE emcs - 1
        /\ emcs <= 1 => ~eccModeSent' /\ ~inEmergency'
        /\ ~(emcs <= 1) => (eccModeSent' <=> eccModeSent) /\ (inEmergency' <=> inEmergency)
        /\ eccModeSent' \in BOOLEAN /\ inEmergency' \in BOOLEAN
    BY <1>2, <1>7 DEF SetEccMode, Decreased, RedialTypes
  <2>2. Sessions = Sessions' + 1 /\ Sessions' \in Nat
    BY <1>1, <1>2, <1>3, <1>7, <2>1 DEF Sessions, One
  <2>3. inst.eccMode # 0
    BY <1>5, <2>1
  <2>4. PICK n \in Nat : n = Sessions' /\ Sessions = n + 1
    BY <2>2
  <2> HIDE DEF Sessions
  <2>5. emcs' \in Nat /\ emcs' <= Sessions' /\ (emcs > 1 => Sessions' > 0)
    <3>1. emcs \in Nat /\ emcs <= n + 1
      BY <1>5, <2>4
    <3>2. emcs' \in Nat /\ emcs' <= n /\ (emcs > 1 => n > 0)
      BY <2>1, <3>1
    <3> QED
      BY <2>4, <3>2
  <2>6. emcs' > 0 => emcs > 1
    BY <1>5, <2>1
  <2>7. RedialTypes'
    BY <1>1, <1>2, <2>1, <2>5, LateFacts DEF RedialTypes, MaxDial
  <2>8. SessionsCounted'
    BY <1>1, <1>2, <1>5, <1>7, <2>1, <2>3, <2>5, <2>6 DEF SessionsCounted
  <2>9. inEmergency' => Sessions' > 0
    BY <1>5, <2>1, <2>5
  <2> QED
    BY <1>1, <1>3, <1>4, <2>7, <2>8, <2>9, EventKeeps
<1> QED
  BY <1>6, <1>7

(* The modem takes the call. *)
LEMMA AcceptedKeeps ==
  ASSUME RatTypes, OneSwitch, SessionInv, Next, DialAccepted
  PROVE  SessionInv'
<1> USE DEF Dialing
<1>1. /\ stack = << >> /\ dial # "none" /\ ~mdDue /\ dial' = "none" /\ mdCall' = "new"
      /\ UNCHANGED << inSwitching, settings, cSlot, pend, ratOp, ratState, waitsForCount, voice, resumed,
                      mdDue, mdEcbm, ecbm, calls, emcs, inEmergency, eccModeSent, eccAsked, redialState,
                      hangUping, mo, deferred, dials, stack >>
  BY DEF DialAccepted, ratVars, keptVars, modemVars, rdMode, rdRat, rdKept
<1>2. /\ RedialTypes /\ SessionsCounted /\ OneSession /\ inst \in Instances /\ inst' = inst
      /\ \A op : ~Calls(op) /\ ~Within(op, stack)
      /\ Dialing => dial = "none"
      /\ Sessions \in Nat /\ (voice = 1 => mdCall = "up")
  BY <1>1, EventFacts
<1>3. /\ ActsOnTop' /\ ~Answering' /\ ~TopActs("global")' /\ ~Calls("forceRelease")'
      /\ ~Within("noCall", stack)'
  BY <1>1, <1>2 DEF ActsOnTop, Answering, TopActs, Calls, Within
<1>4. mdCall = "none" /\ mo # "none" /\ voice # 1
  BY <1>1, <1>2 DEF OneSession
<1>5. Sessions' = Sessions /\ Sessions' > 0
  BY <1>1, <1>2, <1>3, <1>4 DEF Sessions, One
<1>6. RedialTypes'
  BY <1>1, <1>2, LateFacts DEF RedialTypes, MaxDial
<1>7. SessionsCounted'
  BY <1>1, <1>2, <1>5 DEF SessionsCounted
<1>8. OneSession'
  BY <1>1, <1>2, <1>3, <1>4 DEF OneSession
<1> QED
  BY <1>1, <1>3, <1>5, <1>6, <1>7, <1>8, EventKeeps

(* The call fails. *)
LEMMA FailsKeeps ==
  ASSUME RatTypes, OneSwitch, SessionInv, Next, DialFails
  PROVE  SessionInv'
<1> USE DEF Dialing
<1>1. /\ stack = << >> /\ dial # "none" /\ dial' = "none" /\ stack' = << ForceRelease >>
      /\ UNCHANGED << inSwitching, settings, cSlot, pend, ratOp, ratState, waitsForCount, voice, resumed,
                      mdCall, mdDue, mdEcbm, ecbm, calls, emcs, inEmergency, eccModeSent, eccAsked,
                      redialState, hangUping, mo, deferred, dials >>
  BY DEF DialFails, keptVars, modemVars, rdMode, rdRat, rdKept
<1>2. /\ RedialTypes /\ SessionsCounted /\ OneSession /\ inst \in Instances /\ inst' = inst
      /\ \A op : ~Calls(op) /\ ~Within(op, stack)
      /\ Dialing => dial = "none"
      /\ Sessions \in Nat /\ (voice = 1 => mdCall = "up")
  BY <1>1, EventFacts
<1>3. /\ ActsOnTop' /\ ~Answering' /\ ~TopActs("global")' /\ Calls("forceRelease")'
      /\ ~Within("noCall", stack)'
  <2> DEFINE f == ForceRelease
             t == << >>
  <2>1. f \in Frame /\ f.act = "none" /\ f.op = "forceRelease"
    BY <1>2, RedialFrames
  <2>2. t \in Seq(Frame) /\ Tailed(t) /\ \A op : ~Within(op, t)
    BY DEF Tailed, Within
  <2> HIDE DEF f
  <2>3. stack' = << f >> \o t
    BY <1>1, <2>1 DEF f
  <2> HIDE DEF t
  <2>4. ActsRight(f)
    BY <2>1 DEF ActsRight
  <2>5. /\ ActsOnTop' /\ ~Answering' /\ \A op : Calls(op)' <=> f.op = op
        /\ \A a : TopActs(a)' <=> f.act = a
        /\ \A op : Within(op, stack)' <=> f.op = op \/ Within(op, t)
    BY <1>2, <2>1, <2>2, <2>3, <2>4, NewOnTop
  <2> QED
    BY <2>1, <2>2, <2>5
<1>4. mdCall = "none" /\ mo # "none" /\ voice # 1 /\ ~Dialing
  BY <1>1, <1>2 DEF OneSession
<1>5. Sessions' = Sessions /\ Sessions' > 0
  BY <1>1, <1>2, <1>3, <1>4 DEF Sessions, One
<1>6. RedialTypes'
  BY <1>1, <1>2, LateFacts DEF RedialTypes, MaxDial
<1>7. SessionsCounted'
  BY <1>1, <1>2, <1>5 DEF SessionsCounted
<1>8. OneSession'
  BY <1>1, <1>2, <1>3, <1>4 DEF OneSession
<1> QED
  BY <1>1, <1>3, <1>4, <1>5, <1>6, <1>7, <1>8, EventKeeps

(* The modem reports the call's id. *)
LEMMA AssignedKeeps ==
  ASSUME RatTypes, OneSwitch, SessionInv, Next, CallIdAssigned
  PROVE  SessionInv'
<1> USE DEF Dialing
<1>1. /\ stack = << >> /\ mdCall = "new" /\ mdCall' = "up"
      /\ UNCHANGED << inSwitching, settings, cSlot, pend, ratOp, ratState, waitsForCount, resumed,
                      mdDue, mdEcbm, ecbm, emcs, inEmergency, eccModeSent, eccAsked,
                      hangUping, deferred, dial, dials, stack >>
  BY DEF CallIdAssigned, keptVars, modemVars, rdMode, rdRat, rdKept
<1>2. /\ RedialTypes /\ SessionsCounted /\ OneSession /\ inst \in Instances /\ inst' = inst
      /\ \A op : ~Calls(op) /\ ~Within(op, stack)
      /\ Dialing => mdCall = "none"
      /\ Sessions \in Nat /\ voice \in {0, 1} /\ (voice = 1 => mdCall = "up") /\ 0 \in Slots
  BY <1>1, EventFacts
<1>3. /\ ActsOnTop' /\ ~Answering' /\ ~TopActs("global")' /\ ~Calls("forceRelease")'
      /\ ~Within("noCall", stack)'
  BY <1>1, <1>2 DEF ActsOnTop, Answering, TopActs, Calls, Within
<1>4. mo # "none" /\ voice = 0 /\ ~Dialing /\ ~mdDue /\ dial = "none"
  BY <1>1, <1>2 DEF OneSession
<1>5. /\ mo' = "known" /\ voice' = 1 /\ 0 \in calls'
      /\ \/ redialState' = redialState
         \/ redialState' = "done"
  <2>1. CASE redialState # "none"
    <3>1. voice' = voice + 1 /\ redialState' = "done" /\ calls' = calls /\ mo' = "known"
      BY <1>4, <2>1 DEF CallIdAssigned
    <3>2. 0 \in calls
      BY <1>2, <1>4, <2>1 DEF OneSession
    <3> QED
      BY <1>4, <3>1, <3>2
  <2>2. CASE redialState = "none"
    BY <1>4, <2>2 DEF CallIdAssigned
  <2> QED
    BY <2>1, <2>2
<1>6. ~Dialing'
  BY <1>4, <1>5
<1>7. Sessions' = Sessions /\ Sessions' > 0
  BY <1>1, <1>2, <1>3, <1>4, <1>6 DEF Sessions, One
<1>8. RedialTypes'
  BY <1>1, <1>2, <1>5, LateFacts DEF RedialTypes, MaxDial
<1>9. SessionsCounted'
  BY <1>1, <1>2, <1>7 DEF SessionsCounted
<1>10. OneSession'
  BY <1>1, <1>2, <1>3, <1>4, <1>5, <1>6 DEF OneSession
<1> QED
  BY <1>1, <1>3, <1>4, <1>6, <1>7, <1>8, <1>9, <1>10, EventKeeps

(* The calls of a call's end. *)
LEMMA EndCalls ==
  ASSUME RatTypes, inst' = inst, stack' = << UpdateCallCount >>
  PROVE  /\ ActsOnTop' /\ ~Answering' /\ ~TopActs("global")' /\ ~Calls("forceRelease")'
         /\ Within("noCall", stack)'
<1>1. PICK t \in Seq(Frame) : stack' = t /\ Tailed(t) /\ ~Within("finish", t) /\ Within("noCall", t)
  <2> DEFINE u == << UpdateCallCount >>
  <2>1. u \in Seq(Frame) /\ Tailed(u) /\ \A op : Within(op, u) <=> op = "noCall"
    BY CallbackFrames DEF RatTypes
  <2>2. stack' = u
    OBVIOUS
  <2> HIDE DEF u
  <2> QED
    BY <2>1, <2>2
<1>2. /\ ActsOnTop' /\ ~Answering' /\ \A a : a # "none" => ~TopActs(a)'
      /\ \A op : Calls(op)' => op \in TailOps
      /\ \A op : Within(op, stack)' <=> Within(op, t)
  BY <1>1, TailLeft
<1> QED
  BY <1>1, <1>2 DEF TailOps

(* The calls of an end that is to be followed by another call. *)
LEMMA RedialStarts ==
  ASSUME RatTypes, inst' = inst, NEW b \in BOOLEAN, ~hangUping',
         stack' = << SetRatMode("global") >> \o (IF b THEN << Fun("countZero") >> ELSE << >>)
  PROVE  /\ ActsOnTop' /\ ~Answering' /\ ~Calls("forceRelease")' /\ ~Within("noCall", stack)'
<1> DEFINE f == SetRatMode("global")
           u == << Fun("countZero") >>
<1>1. inst \in Instances
  BY DEF RatTypes
<1>2. f \in Frame /\ f.act = "global" /\ f.op = "ratMode" /\ f.slot = 0
  BY <1>1, RedialFrames
<1>3. u \in Seq(Frame) /\ Tailed(u) /\ \A op : Within(op, u) <=> op = "countZero"
  BY <1>1, CallbackFrames
<1> HIDE DEF u
<1> DEFINE t == IF b THEN u ELSE << >>
<1>4. t \in Seq(Frame) /\ Tailed(t) /\ ~Within("finish", t) /\ ~Within("noCall", t)
  BY <1>1, <1>3, TailedCalls
<1>5. stack' = << f >> \o t
  BY DEF u
<1> HIDE DEF f, t
<1>6. ActsRight(f)
  BY <1>2 DEF ActsRight
<1>7. /\ ActsOnTop' /\ ~Answering' /\ \A op : Calls(op)' <=> f.op = op
      /\ \A op : Within(op, stack)' <=> f.op = op \/ Within(op, t)
  BY <1>2, <1>4, <1>5, <1>6, NewOnTop
<1> QED
  BY <1>2, <1>4, <1>7

(* The calls of an end after which no more calls are dialed. *)
LEMMA RedialGivenUp ==
  ASSUME RatTypes, inst' = inst, stack' = << ForceRelease, UpdateCallCount >>
  PROVE  /\ ActsOnTop' /\ ~Answering' /\ ~TopActs("global")' /\ Calls("forceRelease")'
         /\ Within("noCall", stack)'
<1> DEFINE f == ForceRelease
           g == UpdateCallCount
           t == << g >>
<1>1. inst \in Instances
  BY DEF RatTypes
<1>2. f \in Frame /\ f.act = "none" /\ f.op = "forceRelease" /\ g \in Frame
  BY <1>1, RedialFrames
<1>3. t \in Seq(Frame) /\ Tailed(t) /\ \A op : Within(op, t) <=> op = "noCall"
  BY <1>1, CallbackFrames
<1> HIDE DEF f, g
<1>8. ~Within("finish", t) /\ Within("noCall", t)
  BY <1>3
<1>4. << f, g >> = << f >> \o t
  <2>1. /\ << f, g >> \in Seq(Frame) /\ Len(<< f, g >>) = 2 /\ << f, g >>[1] = f
        /\ << f, g >>[2] = g
    BY <1>2
  <2>2. << f >> \in Seq(Frame) /\ Len(<< f >>) = 1 /\ << f >>[1] = f /\ Len(t) = 1 /\ t[1] = g
    BY <1>2
  <2>3. /\ << f >> \o t \in Seq(Frame) /\ Len(<< f >> \o t) = 2
        /\ (<< f >> \o t)[1] = f /\ (<< f >> \o t)[2] = g
    BY <1>3, <2>2, ConcatProperties
  <2> HIDE DEF t
  <2> QED
    BY <2>1, <2>3, SeqEqual
<1>5. stack' = << f >> \o t
  BY <1>4 DEF f, g
<1> HIDE DEF t
<1>6. ActsRight(f)
  BY <1>2 DEF ActsRight
<1>7. /\ ActsOnTop' /\ ~Answering' /\ \A op : Calls(op)' <=> f.op = op
      /\ \A a : TopActs(a)' <=> f.act = a
      /\ \A op : Within(op, stack)' <=> f.op = op \/ Within(op, t)
  BY <1>2, <1>3, <1>5, <1>6, <1>8, NewOnTop
<1> QED
  BY <1>2, <1>7, <1>8

(* The call ends. *)
LEMMA DisconnectedKeeps ==
  ASSUME RatTypes, OneSwitch, SessionInv, Next, NEW cause \in {"normal", "global"}, CallDisconnected(cause)
  PROVE  SessionInv'
<1> USE DEF Dialing
<1>1. /\ stack = << >> /\ mdCall = "up" /\ ~mdEcbm /\ mdCall' = "none"
      /\ mdDue' = (cause = "normal" \/ hangUping)
      /\ UNCHANGED << inSwitching, settings, cSlot, pend, ratOp, ratState, waitsForCount, resumed, calls,
                      mdEcbm, ecbm, emcs, inEmergency, eccModeSent, eccAsked, dial, dials >>
  BY DEF CallDisconnected, ratKept, keptVars, modemVars, rdMode, rdRat
<1>2. /\ RedialTypes /\ SessionsCounted /\ OneSession /\ inst \in Instances /\ inst' = inst
      /\ \A op : ~Calls(op) /\ ~Within(op, stack)
      /\ Dialing => mdCall = "none"
      /\ resumed => Dialing
  BY <1>1, EventFacts
<1>3. mo = "known" /\ voice = 1 /\ 0 \in calls /\ ~mdDue /\ dial = "none" /\ ~Dialing /\ ~resumed
  BY <1>1, <1>2 DEF OneSession
<1>4. CASE ~hangUping /\ cause = "global" /\ redialState = "none"
  <2>1. /\ voice' = 0 /\ redialState' = "dialing" /\ mo' = "known" /\ ~hangUping' /\ hangUping' \in BOOLEAN
        /\ deferred' \in BOOLEAN /\ ~mdDue' /\ mdDue' \in BOOLEAN
    <3>1. ~mdDue' /\ mdDue' \in BOOLEAN
      BY <1>1, <1>4
    <3>2. /\ voice' = voice - 1 /\ redialState' = "dialing" /\ mo' = mo /\ hangUping' = hangUping
          /\ deferred' = TRUE
      BY <1>3, <1>4 DEF CallDisconnected, Disconnected
    <3>3. voice' = 0
      BY <1>3, <3>2
    <3>4. hangUping \in BOOLEAN
      BY <1>2 DEF RedialTypes
    <3> QED
      BY <1>3, <1>4, <3>1, <3>2, <3>3, <3>4
  <2>2. /\ ActsOnTop' /\ ~Answering' /\ ~Calls("forceRelease")' /\ ~Within("noCall", stack)'
    <3>1. PICK b \in BOOLEAN :
            stack' = << SetRatMode("global") >> \o (IF b THEN << Fun("countZero") >> ELSE << >>)
      BY <1>3, <1>4 DEF CallDisconnected, Disconnected
    <3> QED
      BY <1>2, <2>1, <3>1, RedialStarts
  <2>3. Sessions' = Sessions /\ Sessions' > 0
    BY <1>1, <1>2, <1>3, <2>1, <2>2 DEF Sessions, One
  <2>4. RedialTypes'
    BY <1>1, <1>2, <2>1, LateFacts DEF RedialTypes, MaxDial
  <2>5. SessionsCounted'
    BY <1>1, <1>2, <2>3 DEF SessionsCounted
  <2>6. OneSession'
    BY <1>1, <1>2, <1>3, <2>1, <2>2 DEF OneSession
  <2> QED
    BY <1>1, <1>3, <2>1, <2>2, <2>3, <2>4, <2>5, <2>6, EventKeeps
<1>5. CASE ~hangUping /\ cause = "global" /\ redialState # "none"
  <2>1. /\ UNCHANGED << voice, deferred, redialState, mo, hangUping >> /\ ~mdDue' /\ mdDue' \in BOOLEAN
        /\ stack' = << ForceRelease, UpdateCallCount >>
    BY <1>1, <1>3, <1>5 DEF CallDisconnected, Disconnected
  <2>2. /\ ActsOnTop' /\ ~Answering' /\ ~TopActs("global")' /\ Calls("forceRelease")'
        /\ Within("noCall", stack)'
    BY <1>2, <2>1, RedialGivenUp
  <2>3. Sessions' = Sessions /\ Sessions' > 0
    BY <1>1, <1>2, <1>3, <2>1, <2>2 DEF Sessions, One
  <2>4. RedialTypes'
    BY <1>1, <1>2, <2>1, LateFacts DEF RedialTypes, MaxDial
  <2>5. SessionsCounted'
    BY <1>1, <1>2, <2>3 DEF SessionsCounted
  <2>6. OneSession'
    BY <1>1, <1>2, <1>3, <2>1, <2>2 DEF OneSession
  <2> QED
    BY <1>1, <1>3, <2>1, <2>2, <2>3, <2>4, <2>5, <2>6, EventKeeps
<1>6. CASE ~(~hangUping /\ cause = "global")
  <2>1. /\ voice' = voice /\ redialState' = "none" /\ mo' = "none" /\ ~hangUping' /\ hangUping' \in BOOLEAN
        /\ deferred' \in BOOLEAN /\ mdDue' /\ mdDue' \in BOOLEAN /\ stack' = << UpdateCallCount >>
    BY <1>1, <1>3, <1>6 DEF CallDisconnected, Disconnected
  <2>2. /\ ActsOnTop' /\ ~Answering' /\ ~TopActs("global")' /\ ~Calls("forceRelease")'
        /\ Within("noCall", stack)'
    BY <1>2, <2>1, EndCalls
  <2>3. Sessions' = Sessions /\ Sessions' > 0
    BY <1>1, <1>2, <1>3, <2>1, <2>2 DEF Sessions, One
  <2>4. RedialTypes'
    BY <1>1, <1>2, <2>1, LateFacts DEF RedialTypes, MaxDial
  <2>5. SessionsCounted'
    BY <1>1, <1>2, <2>3 DEF SessionsCounted
  <2>6. OneSession'
    BY <1>1, <1>2, <1>3, <2>1, <2>2 DEF OneSession
  <2> QED
    BY <1>1, <1>3, <2>1, <2>2, <2>3, <2>4, <2>5, <2>6, EventKeeps
<1> QED
  BY <1>4, <1>5, <1>6

(* The end that was put off. *)
LEMMA ResumedKeeps ==
  ASSUME RatTypes, OneSwitch, SessionInv, Next, Resumed
  PROVE  SessionInv'
<1> USE DEF Dialing
<1>1. /\ stack = << >> /\ resumed /\ ~resumed' /\ resumed' \in BOOLEAN
      /\ UNCHANGED << inSwitching, settings, cSlot, pend, ratOp, ratState, waitsForCount, calls, mdCall, mdDue,
                      mdEcbm, ecbm, emcs, inEmergency, eccModeSent, eccAsked, dial, dials >>
  BY DEF Resumed, ratKept, keptVars, modemVars, rdMode, rdRat, rdKept
<1>2. /\ RedialTypes /\ SessionsCounted /\ OneSession /\ inst \in Instances /\ inst' = inst
      /\ \A op : ~Calls(op) /\ ~Within(op, stack)
      /\ Dialing /\ hangUping /\ dial = "none" /\ mdCall = "none" /\ mo = "known"
      /\ voice \in {0, 1} /\ (voice = 1 => mdCall = "up")
      /\ Sessions \in Nat
  BY <1>1, EventFacts
<1>3. /\ voice' = voice /\ redialState' = "none" /\ mo' = "none" /\ ~hangUping' /\ hangUping' \in BOOLEAN
      /\ deferred' \in BOOLEAN /\ stack' = << UpdateCallCount >>
  BY <1>2 DEF Resumed, Disconnected
<1>4. /\ ActsOnTop' /\ ~Answering' /\ ~TopActs("global")' /\ ~Calls("forceRelease")'
      /\ Within("noCall", stack)'
  BY <1>2, <1>3, EndCalls
<1>5. Sessions' = Sessions
  BY <1>1, <1>2, <1>3, <1>4 DEF Sessions, One
<1>6. RedialTypes'
  BY <1>1, <1>2, <1>3, LateFacts DEF RedialTypes, MaxDial
<1>7. SessionsCounted'
  BY <1>1, <1>2, <1>5 DEF SessionsCounted
<1>8. OneSession'
  BY <1>1, <1>2, <1>3, <1>4 DEF OneSession
<1>9. voice = 0 /\ (Sessions' > 0 \/ Sessions = 0)
  BY <1>2, <1>5
<1> QED
  BY <1>1, <1>2, <1>4, <1>6, <1>7, <1>8, <1>9, EventKeeps

(* A session ends. *)
LEMMA SessionOver ==
  ASSUME RatTypes, OneSwitch, SessionInv, Next, stack = << >>, EcbmExit,
         UNCHANGED << inSwitching, settings, cSlot, pend, calls, inEmergency, rdCall, rdRat, voice, eccModeSent,
                      eccAsked, dials >>,
         \/ mdDue /\ mdDue' = FALSE /\ mdEcbm' = mdEcbm
         \/ mdEcbm /\ mdEcbm' = FALSE /\ mdDue' = mdDue
  PROVE  SessionInv'
<1> USE DEF Dialing, rdCall, rdRat
<1>1. /\ RedialTypes /\ SessionsCounted /\ OneSession /\ inst \in Instances /\ inst' = inst
      /\ \A op : ~Calls(op) /\ ~Within(op, stack)
  BY EventFacts
<1> DEFINE b == emcs <= 1
           p == IF b THEN << SetRatMode("resume") >> ELSE << >>
           r == RestrictedMode(FALSE)
           t == IF ecbm THEN r ELSE << >>
<1>2. r \in Seq(Frame) /\ Tailed(r) /\ ~Within("finish", r) /\ ~Within("noCall", r)
  <2>1. FALSE \in BOOLEAN
    OBVIOUS
  <2> QED
    BY <1>1, <2>1, CallbackFrames
<1>3. stack' = p \o t
  BY DEF EcbmExit
<1> HIDE DEF b, r
<1>4. t \in Seq(Frame) /\ Tailed(t) /\ ~Within("finish", t) /\ ~Within("noCall", t)
  BY <1>1, <1>2, TailedCalls
<1> HIDE DEF t
<1>5. /\ ActsOnTop' /\ ~Answering' /\ ~Calls("forceRelease")' /\ ~TopActs("global")'
      /\ b => TopActs("resume")' \/ Calls("emergencyOff")'
      /\ ~Within("noCall", stack)'
  <2>1. b \in BOOLEAN
    BY DEF b
  <2> QED
    BY <1>1, <1>3, <1>4, <2>1, ReleaseCalls
<1>6. Sessions = Sessions' + 1 /\ Sessions' \in Nat
  BY <1>1, <1>5 DEF Sessions, One
<1>7. /\ emcs' = IF emcs = 0 THEN 0 ELSE emcs - 1
      /\ ecbm' \in BOOLEAN /\ mdDue' \in BOOLEAN /\ mdEcbm' \in BOOLEAN
      /\ mdDue' => mdDue
      /\ mdEcbm' => mdEcbm
  <2>1. mdDue \in BOOLEAN /\ mdEcbm \in BOOLEAN
    BY <1>1 DEF RedialTypes
  <2>2. emcs' = (IF emcs = 0 THEN 0 ELSE emcs - 1) /\ ecbm' = FALSE
    BY DEF EcbmExit, Decreased
  <2>3. mdDue' \in BOOLEAN /\ (mdDue' => mdDue)
    <3>1. CASE mdDue' = FALSE
      BY <3>1
    <3>2. CASE mdDue' = mdDue
      BY <2>1, <3>2
    <3> QED
      BY <3>1, <3>2
  <2>4. mdEcbm' \in BOOLEAN /\ (mdEcbm' => mdEcbm)
    <3>1. CASE mdEcbm' = FALSE
      BY <3>1
    <3>2. CASE mdEcbm' = mdEcbm
      BY <2>1, <3>2
    <3> QED
      BY <3>1, <3>2
  <2> QED
    BY <2>2, <2>3, <2>4
<1>8. /\ emcs' \in Nat /\ emcs' <= Sessions'
      /\ emcs' > 0 => emcs > 0
      /\ emcs = Sessions => emcs' = Sessions'
      /\ ~b => Sessions' > 0
  <2>1. PICK n \in Nat : n = Sessions' /\ Sessions = n + 1
    BY <1>6
  <2>2. emcs \in Nat /\ emcs <= n + 1
    BY <1>1, <2>1 DEF SessionsCounted, RedialTypes
  <2>3. /\ emcs' \in Nat /\ emcs' <= n /\ (emcs' > 0 => emcs > 0) /\ (emcs = n + 1 => emcs' = n)
        /\ emcs > 1 => n > 0
    BY <1>7, <2>2
  <2>4. ~b => emcs > 1
    BY <2>2 DEF b
  <2> QED
    BY <2>1, <2>3, <2>4
<1>9. RedialTypes'
  BY <1>1, <1>7, <1>8, LateFacts DEF RedialTypes, MaxDial
<1>10. SessionsCounted'
  BY <1>1, <1>8 DEF SessionsCounted
<1>11. OneSession'
  BY <1>1, <1>5, <1>7 DEF OneSession
<1>12. Sessions' > 0 \/ Releasing'
  BY <1>5, <1>8 DEF Releasing
<1> QED
  BY <1>5, <1>9, <1>10, <1>11, <1>12, EventKeeps

(* The modem reports how the session ended, or the end of its callback mode. *)
LEMMA EndsKeep ==
  ASSUME RatTypes, OneSwitch, SessionInv, Next, EcbmEnds \/ \E enter \in BOOLEAN : SessionEnds(enter)
  PROVE  SessionInv'
<1> USE DEF Dialing, rdCall, rdRat
<1>1. /\ stack = << >>
      /\ UNCHANGED << inSwitching, settings, cSlot, pend, calls, inEmergency, rdCall, rdRat, voice, eccModeSent,
                      eccAsked, dials >>
  BY DEF EcbmEnds, SessionEnds, ratKept, keptVars, modemVars
<1>2. CASE EcbmEnds
  BY <1>1, <1>2, SessionOver DEF EcbmEnds
<1>3. CASE SessionEnds(FALSE)
  BY <1>1, <1>3, SessionOver DEF SessionEnds
<1>4. CASE SessionEnds(TRUE)
  <2>1. /\ mdDue /\ ~mdDue' /\ mdDue' \in BOOLEAN /\ mdEcbm' /\ mdEcbm' \in BOOLEAN
        /\ ecbm' \in BOOLEAN /\ emcs' = emcs /\ TRUE \in BOOLEAN
        /\ stack' = << >> \/ stack' = RestrictedMode(TRUE)
    BY <1>4 DEF SessionEnds
  <2>2. /\ RedialTypes /\ SessionsCounted /\ OneSession /\ inst \in Instances /\ inst' = inst
        /\ \A op : ~Calls(op) /\ ~Within(op, stack)
    BY <1>1, EventFacts
  <2>3. /\ ActsOnTop' /\ ~Answering' /\ ~TopActs("global")' /\ ~Calls("forceRelease")'
        /\ ~Within("noCall", stack)'
    <3>1. PICK t \in Seq(Frame) : stack' = t /\ Tailed(t) /\ ~Within("finish", t) /\ ~Within("noCall", t)
      BY <2>1, <2>2, CallbackFrames, TailedCalls
    <3>2. /\ ActsOnTop' /\ ~Answering' /\ \A a : a # "none" => ~TopActs(a)'
          /\ \A op : Calls(op)' => op \in TailOps
          /\ \A op : Within(op, stack)' <=> Within(op, t)
      BY <2>2, <3>1, TailLeft
    <3> QED
      BY <3>1, <3>2 DEF TailOps
  <2>4. ~mdEcbm
    BY <2>1, <2>2 DEF OneSession
  <2>5. Sessions' = Sessions /\ Sessions' > 0
    BY <1>1, <2>1, <2>2, <2>3, <2>4 DEF Sessions, One
  <2>6. RedialTypes'
    BY <1>1, <2>1, <2>2, LateFacts DEF RedialTypes, MaxDial
  <2>7. SessionsCounted'
    BY <1>1, <2>1, <2>2, <2>5 DEF SessionsCounted
  <2>8. OneSession'
    BY <1>1, <2>1, <2>2, <2>3 DEF OneSession
  <2> QED
    BY <1>1, <2>3, <2>5, <2>6, <2>7, <2>8, EventKeeps
<1> QED
  BY <1>2, <1>3, <1>4

(* Every step of the redial controller and of the modem. *)
LEMMA RedialEventsKeep ==
  ASSUME RatTypes, OneSwitch, SessionInv, Next, RedialModem \/ RedialInput
  PROVE  SessionInv'
BY DialKeeps, HangupKeeps, EccModeKeeps, AcceptedKeeps, FailsKeeps, AssignedKeeps, DisconnectedKeeps,
   ResumedKeeps, EndsKeep DEF RedialModem, RedialInput

(* No session has begun. *)
LEMMA InitSession == Init => SessionInv
<1> SUFFICES ASSUME Init PROVE SessionInv
  OBVIOUS
<1>1. inst \in Instances /\ InitRat /\ InitRedial /\ late = FALSE
  BY DEF Init, InitRat
<1>2. 0 \in Slots /\ MaxDial \in Nat
  BY <1>1, SlotFacts, RedialAssumption DEF MaxDial
<1>3. stack = << >> /\ mcl = << >> /\ \A s \in Slots, c \in Callers : pend[s][c] = NoRecord
  BY <1>1 DEF InitRat
<1>4. \A s \in Slots, c \in Callers : pend[s][c].type = NoType /\ pend[s][c].act = "none"
  BY <1>3 DEF NoRecord
<1>5. /\ \A op : ~Calls(op) /\ ~Within(op, stack)
      /\ \A a : ~TopActs(a)
      /\ ~Answering
  BY <1>3, NoCalls
<1>6. ~Busy
  BY <1>3, <1>5 DEF Busy, Running, Switching
<1>7. Sessions = 0
  BY <1>1, <1>5 DEF Sessions, One, InitRedial, Dialing
<1>8. RedialTypes
  <2>1. /\ redialState = "none" /\ ratOp = "none" /\ emcs = 0 /\ mo = "none" /\ voice = 0
        /\ dial = "none" /\ mdCall = "none" /\ dials <= MaxDial
    BY <1>1, <1>2 DEF InitRedial
  <2>2. /\ ratState \in BOOLEAN /\ inEmergency \in BOOLEAN /\ ecbm \in BOOLEAN /\ eccModeSent \in BOOLEAN
        /\ eccAsked \in BOOLEAN /\ hangUping \in BOOLEAN /\ deferred \in BOOLEAN /\ resumed \in BOOLEAN
        /\ waitsForCount \in BOOLEAN /\ mdDue \in BOOLEAN /\ mdEcbm \in BOOLEAN /\ late \in BOOLEAN
    BY <1>1 DEF InitRedial
  <2> QED
    BY <2>1, <2>2 DEF RedialTypes
<1>9. SessionsCounted /\ OneSession
  BY <1>1, <1>5, <1>7 DEF SessionsCounted, OneSession, InitRedial, Dialing
<1>10. ActsOfSlot
  BY <1>1, <1>4 DEF ActsOfSlot, RecordActs, InitRat
<1>11. ActsOnTop
  BY <1>3 DEF ActsOnTop
<1>12. GlobalOnce
  BY <1>2, <1>4, <1>5, <1>6 DEF GlobalOnce, GlobalWaits, GlobalOut, Callers
<1>13. Released
  BY <1>1, <1>2, <1>4 DEF Released, InitRedial
<1> QED
  BY <1>8, <1>9, <1>10, <1>11, <1>12, <1>13 DEF SessionInv

(* Every step keeps the sessions' invariant. *)
LEMMA StepSession == IInv /\ SessionInv /\ [Next]_allVars => SessionInv'
<1> SUFFICES ASSUME IInv, SessionInv, [Next]_allVars PROVE SessionInv'
  OBVIOUS
<1>1. RatTypes /\ OneSwitch
  BY DEF IInv
<1>2. CASE UNCHANGED allVars
  BY <1>2 DEF allVars, vars, ratVars, keptVars, modemVars, redialVars, rdKept, rdCall, rdMode, rdRat,
     SessionInv, RedialTypes, SessionsCounted, OneSession, ActsOfSlot, RecordActs, ActsOnTop, ActsRight,
     GlobalOnce, GlobalOut, GlobalWaits, Released, Releasing, Resuming, ResumeOut, Counting, Busy, Answering,
     Running, Switching, TopActs, Calls, Top, Rest, Tailed, Within, Sessions, One, Dialing, Slots, MaxDial
<1>3. CASE Next
  <2>1. CASE RedialCalls
    BY <1>1, <1>3, <2>1, RedialCallsKeep
  <2>2. CASE RedialModem \/ RedialInput
    BY <1>1, <1>3, <2>2, RedialEventsKeep
  <2>3. CASE OnRatSwitchDone
    BY <1>1, <1>3, <2>3, SignalKeeps
  <2>4. CASE RatCalls /\ UNCHANGED redialVars
    BY <1>1, <1>3, <2>4, RatCallsKeep
  <2>5. CASE (RatResponses \/ RatFails) /\ UNCHANGED redialVars
    BY <1>1, <1>3, <2>5, ResponsesKeep
  <2>6. CASE (\E s \in Slots : ScanStarts(s) \/ ScanEnds(s)) /\ UNCHANGED redialVars
    BY <1>1, <1>3, <2>6, ScansCallsKeep
  <2>7. CASE (\E s \in Slots : inst.dial = 0 /\ (CallStarts(s) \/ CallEnds(s))) /\ UNCHANGED redialVars
    BY <1>1, <1>3, <2>7, ScansCallsKeep
  <2>8. CASE (\E s \in Slots, t \in AskedTypes : SetPreferredNetworkType(s, t)) /\ UNCHANGED redialVars
    BY <1>1, <1>3, <2>8, RequestsKeep
  <2>9. CASE (\E s \in Slots, t \in AskedTypes, b \in BOOLEAN : ModeSwitch(s, t, b)) /\ UNCHANGED redialVars
    BY <1>1, <1>3, <2>9, RequestsKeep
  <2>10. Steps
    BY <1>3 DEF Next
  <2> QED
    BY <2>1, <2>2, <2>3, <2>4, <2>5, <2>6, <2>7, <2>8, <2>9, <2>10 DEF Steps
<1> QED
  BY <1>2, <1>3

(* mEmcsCount counts the emergency sessions, each of which is in one place at a time: a
   request, a call, the wait for the redial, or a session or callback mode whose end the modem
   is to report; the switch of the RAT whose action dials again is in one place as well, and,
   unless a switch of the redial's had to wait or was dropped, the emergency mode is on its way
   to be left when no session remains (increaseEmcsCount, decreaseEmcsCountAndIsZero, redial,
   setRatMode). *)
THEOREM SessionInvariant == Spec => [](IInv /\ SessionInv)
<1>1. Init => IInv /\ SessionInv
  BY InitInvariant, InitSession
<1>2. (IInv /\ SessionInv) /\ [Next]_allVars => (IInv /\ SessionInv)'
  BY StepInvariant, StepSession
<1> QED
  BY <1>1, <1>2, PTL DEF Spec

(* The invariant has what the property says. *)
LEMMA InvariantReleases == IInv /\ SessionInv => EmergencyReleased
<1> SUFFICES ASSUME IInv, SessionInv PROVE EmergencyReleased
  OBVIOUS
<1>1. RatTypes /\ RedialTypes /\ SessionsCounted /\ OneSession /\ (~late => Released)
  BY DEF IInv, SessionInv
<1>2. ASSUME stack = << >>
      PROVE  /\ \A op : ~Calls(op) /\ ~Within(op, stack)
             /\ \A a : ~TopActs(a)
             /\ ~Answering
  BY <1>2, NoCalls
<1>3. ASSUME NoSession PROVE emcs = 0 /\ (inEmergency => late)
  <2>1. /\ stack = << >> /\ mcl = << >> /\ dial = "none" /\ mdCall = "none" /\ ~mdDue /\ ~mdEcbm
        /\ ~eccAsked /\ ~Dialing
    BY <1>3 DEF NoSession, Dialing
  <2>2. Sessions = 0
    BY <1>2, <2>1 DEF Sessions, One
  <2>3. emcs = 0
    BY <1>1, <2>2 DEF SessionsCounted, RedialTypes
  <2>4. ~Counting
    BY <1>1, <1>2, <2>1 DEF Counting, OneSession
  <2>5. ~Resuming
    BY <1>2, <2>1 DEF Resuming, ResumeOut, Busy, Running, Switching
  <2>6. ~Releasing
    BY <1>2, <2>1, <2>4, <2>5 DEF Releasing
  <2>7. late \in BOOLEAN
    BY <1>1 DEF RedialTypes
  <2> QED
    BY <1>1, <2>2, <2>3, <2>6 DEF Released
<1>4. ASSUME stack = << >>, mdCall # "none", inst.eccMode = 0 PROVE inEmergency
  <2>1. Sessions > 0
    BY <1>4 DEF Sessions, One
  <2> QED
    BY <1>1, <1>4, <2>1 DEF SessionsCounted
<1> QED
  BY <1>3, <1>4 DEF EmergencyReleased

(* The emergency mode is left after the last of the emergency sessions, unless a switch of the
   redial's had to wait or was dropped, and never during an emergency call where no
   SET_ECC_MODE was taken back (increaseEmcsCount, decreaseEmcsCountAndIsZero). *)
THEOREM EmergencyReleasedCorrect == Spec => []EmergencyReleased
<1> QED
  BY SessionInvariant, InvariantReleases, PTL
=============================================================================
