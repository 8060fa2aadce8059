-------------------------- MODULE RadioPowerProofs --------------------------
(***************************************************************************)
(* Proofs about the radio power, for every set of slots and every bound on *)
(* requests and failures: a slot never has two power requests under way,   *)
(* its lock is kept until the one it has succeeded, an unlocked slot is on *)
(* only if that was requested, and is, unless the boot turned it off; the  *)
(* modem has on what is stored as on, unless a mask was built too early;   *)
(* and success is answered only when the slot has the power asked for.     *)
(***************************************************************************)
EXTENDS MCRadioPower, FiniteSetTheorems, SequenceTheorems, TLAPS

Answer == [cmd : Cmd, ok : BOOLEAN]

\* The places of the requests of slot s in a list of answers and in one of timers
AnswersOf(q, s) == {i \in DOMAIN q : q[i].cmd.slot = s}
TimersOf(q, s)  == {i \in DOMAIN q : q[i].slot = s}
AtMostOne(I)    == \A i, j \in I : i = j
-----------------------------------------------------------------------------
(* The inductive invariant, in named parts *)

\* Status keys, messages and bounds have their types.
RadioTypes ==
  /\ inst \in Instances
  /\ radioLock \in [Slots -> Locks]
  /\ requestRadioPower \in [Slots -> BOOLEAN] /\ msimMode \in [Slots -> BOOLEAN]
  /\ toRadio \in [Slots -> Seq(BOOLEAN)] /\ cmds \in [Slots -> Seq(Cmd)]
  /\ efun \in [Slots -> Seq(SUBSET Slots)]
  /\ answers \in Seq(Answer) /\ timers \in Seq(Cmd)
  /\ crossed \subseteq Slots
  /\ replies \in [Slots -> Seq({"success", "not_available"})]
  /\ datas \in Nat

\* A channel serves the requests of its own slot, and the command that runs is
\* that of the first of them.
ChannelServes ==
  \A s \in Slots : /\ \A i \in DOMAIN cmds[s] : cmds[s][i].slot = s
                   /\ efun[s] # << >> => cmds[s] # << >>

\* Only the framework and the boot have asked.
NoData ==
  /\ \A s \in Slots : \A i \in DOMAIN cmds[s] : cmds[s][i].caller \in {"framework", "boot"}
  /\ \A i \in DOMAIN answers : answers[i].cmd.caller \in {"framework", "boot"}
  /\ \A i \in DOMAIN timers : timers[i].caller \in {"framework", "boot"}

\* A slot has one request at most, with its channel, on its way back or waiting to
\* be sent again, and keeps its lock meanwhile.
OneUnderWay(s) ==
  /\ Len(cmds[s]) <= 1 /\ AtMostOne(AnswersOf(answers, s)) /\ AtMostOne(TimersOf(timers, s))
  /\ cmds[s] # << >> => AnswersOf(answers, s) = {} /\ TimersOf(timers, s) = {}
  /\ AnswersOf(answers, s) = {} \/ TimersOf(timers, s) = {}
LockKept(s) == UnderWay(s) => radioLock[s] = "radio"
OneEach == \A s \in Slots : OneUnderWay(s) /\ LockKept(s)

\* The slot is on only if that was requested; and it is on if it was requested, unless
\* BOOT_TURN_ON overtook the request or turned the slot off
Settled(s) ==
  /\ msimMode[s] => requestRadioPower[s]
  /\ s \notin crossed => (requestRadioPower[s] => msimMode[s])

\* A framework request carries what was last asked of its slot, and if it is to turn the
\* slot on the boot has not taken that back.  The boot's own slot waits for it settled:
\* bootupSetRadioPower may answer without doing anything.
Asked(c) ==
  /\ c.caller = "framework" => /\ c.on => requestRadioPower[c.slot]
                               /\ c.slot \in crossed \/ requestRadioPower[c.slot] = c.on
  /\ c.caller = "boot" => Settled(c.slot)

\* What the framework last asked is what its request carries, and has been stored
\* once the request succeeded: a slot whose request was answered, or that has none
\* and is unlocked, is settled.
PowerFollows ==
  /\ \A s \in Slots : radioLock[s] = "idle" => Settled(s)
  /\ \A s \in Slots : \A i \in DOMAIN cmds[s] : Asked(cmds[s][i])
  /\ \A i \in DOMAIN answers : /\ Asked(answers[i].cmd)
                               /\ answers[i].ok => Settled(answers[i].cmd.slot)
  /\ \A i \in DOMAIN timers : Asked(timers[i])

\* The mask of the AT+EFUN of slot s as requestRadioPower of the handler would build it now
Mask(s) == {t \in Slots : IF t = s THEN Head(cmds[s]).on ELSE msimMode[t]}

\* A command that runs has that mask, unless another was done since it was sent; so has
\* the modem, once it is done
MaskRight ==
  /\ ModemFollows
  /\ \A s \in Slots :
       efun[s] # << >> /\ Head(cmds[s]).caller # "boot" /\ s \notin stale => Head(efun[s]) = Mask(s)

\* The inductive invariant.  An attach or a detach resets every lock
\* (handleDataConnectionAttach); without those the last three parts hold.
RadioInv ==
  /\ RadioTypes /\ ChannelServes /\ MaskRight
  /\ MaxData = 0 => /\ NoData
                    /\ OneEach
                    /\ PowerFollows
-----------------------------------------------------------------------------
(* The lists of answers and of timers *)

(* An answer sent to the main thread (responseToTelCore) is its slot's only one if
   there was none; those of the other slots stay. *)
LEMMA AnswersAppend ==
  ASSUME NEW q \in Seq(Answer), NEW a \in Answer
  PROVE  /\ Append(q, a) \in Seq(Answer)
         /\ \A i \in DOMAIN Append(q, a) : Append(q, a)[i] = a \/ \E j \in DOMAIN q : Append(q, a)[i] = q[j]
         /\ \A s : s # a.cmd.slot => AnswersOf(Append(q, a), s) = AnswersOf(q, s)
         /\ AnswersOf(Append(q, a), a.cmd.slot) # {}
         /\ AnswersOf(q, a.cmd.slot) = {} => AtMostOne(AnswersOf(Append(q, a), a.cmd.slot))
<1>1. /\ Append(q, a) \in Seq(Answer) /\ Len(q) \in Nat /\ DOMAIN q = 1 .. Len(q)
      /\ DOMAIN Append(q, a) = 1 .. Len(q) + 1
      /\ Append(q, a)[Len(q) + 1] = a
      /\ \A i \in 1 .. Len(q) : Append(q, a)[i] = q[i]
  OBVIOUS
<1>2. \A i \in DOMAIN Append(q, a) : Append(q, a)[i] = a \/ \E j \in DOMAIN q : Append(q, a)[i] = q[j]
  BY <1>1
<1>3. ASSUME NEW s, s # a.cmd.slot PROVE AnswersOf(Append(q, a), s) = AnswersOf(q, s)
  BY <1>1, <1>3 DEF AnswersOf
<1>4. Len(q) + 1 \in AnswersOf(Append(q, a), a.cmd.slot)
  BY <1>1 DEF AnswersOf
<1>5. ASSUME AnswersOf(q, a.cmd.slot) = {} PROVE AtMostOne(AnswersOf(Append(q, a), a.cmd.slot))
  <2>1. \A i \in AnswersOf(Append(q, a), a.cmd.slot) : i = Len(q) + 1
    BY <1>1, <1>5 DEF AnswersOf
  <2> QED
    BY <2>1 DEF AtMostOne
<1> QED
  BY <1>1, <1>2, <1>3, <1>4, <1>5

(* A request put behind the retry timer is its slot's only one if there was none;
   those of the other slots stay. *)
LEMMA TimersAppend ==
  ASSUME NEW q \in Seq(Cmd), NEW c \in Cmd
  PROVE  /\ Append(q, c) \in Seq(Cmd)
         /\ \A i \in DOMAIN Append(q, c) : Append(q, c)[i] = c \/ \E j \in DOMAIN q : Append(q, c)[i] = q[j]
         /\ \A s : s # c.slot => TimersOf(Append(q, c), s) = TimersOf(q, s)
         /\ TimersOf(Append(q, c), c.slot) # {}
         /\ TimersOf(q, c.slot) = {} => AtMostOne(TimersOf(Append(q, c), c.slot))
<1>1. /\ Append(q, c) \in Seq(Cmd) /\ Len(q) \in Nat /\ DOMAIN q = 1 .. Len(q)
      /\ DOMAIN Append(q, c) = 1 .. Len(q) + 1
      /\ Append(q, c)[Len(q) + 1] = c
      /\ \A i \in 1 .. Len(q) : Append(q, c)[i] = q[i]
  OBVIOUS
<1>2. \A i \in DOMAIN Append(q, c) : Append(q, c)[i] = c \/ \E j \in DOMAIN q : Append(q, c)[i] = q[j]
  BY <1>1
<1>3. ASSUME NEW s, s # c.slot PROVE TimersOf(Append(q, c), s) = TimersOf(q, s)
  BY <1>1, <1>3 DEF TimersOf
<1>4. Len(q) + 1 \in TimersOf(Append(q, c), c.slot)
  BY <1>1 DEF TimersOf
<1>5. ASSUME TimersOf(q, c.slot) = {} PROVE AtMostOne(TimersOf(Append(q, c), c.slot))
  <2>1. \A i \in TimersOf(Append(q, c), c.slot) : i = Len(q) + 1
    BY <1>1, <1>5 DEF TimersOf
  <2> QED
    BY <2>1 DEF AtMostOne
<1> QED
  BY <1>1, <1>2, <1>3, <1>4, <1>5

(* Taking the first answer (handleRadioPowerResponse) leaves none of its slot if it
   was the only one, and of another slot no more than there were. *)
LEMMA AnswersTail ==
  ASSUME NEW q \in Seq(Answer), q # << >>
  PROVE  /\ Tail(q) \in Seq(Answer) /\ Head(q) \in Answer /\ 1 \in DOMAIN q /\ Head(q) = q[1]
         /\ \A i \in DOMAIN Tail(q) : \E j \in DOMAIN q : Tail(q)[i] = q[j]
         /\ AnswersOf(q, Head(q).cmd.slot) # {}
         /\ \A s : AnswersOf(q, s) = {} => AnswersOf(Tail(q), s) = {}
         /\ \A s : AtMostOne(AnswersOf(q, s)) => AtMostOne(AnswersOf(Tail(q), s))
         /\ AtMostOne(AnswersOf(q, Head(q).cmd.slot)) => AnswersOf(Tail(q), Head(q).cmd.slot) = {}
<1>1. /\ Tail(q) \in Seq(Answer) /\ Head(q) = q[1] /\ Head(q) \in Answer
      /\ Len(q) \in Nat \ {0} /\ DOMAIN q = 1 .. Len(q)
      /\ DOMAIN Tail(q) = 1 .. Len(q) - 1
      /\ \A i \in 1 .. Len(q) - 1 : Tail(q)[i] = q[i + 1]
  OBVIOUS
<1>2. 1 \in DOMAIN q
  BY <1>1
<1>3. \A i \in DOMAIN Tail(q) : i \in Nat /\ i # 0 /\ i + 1 \in DOMAIN q /\ Tail(q)[i] = q[i + 1]
  BY <1>1
<1>4. \A s : \A i \in AnswersOf(Tail(q), s) : i \in Nat /\ i # 0 /\ i + 1 \in AnswersOf(q, s)
  BY <1>3 DEF AnswersOf
<1>5. 1 \in AnswersOf(q, Head(q).cmd.slot)
  BY <1>1, <1>2 DEF AnswersOf
<1>6. ASSUME NEW s, AtMostOne(AnswersOf(q, s)) PROVE AtMostOne(AnswersOf(Tail(q), s))
  <2>1. ASSUME NEW i \in AnswersOf(Tail(q), s), NEW j \in AnswersOf(Tail(q), s) PROVE i = j
    <3>1. i \in Nat /\ j \in Nat /\ i + 1 \in AnswersOf(q, s) /\ j + 1 \in AnswersOf(q, s)
      BY <1>4
    <3>2. i + 1 = j + 1
      BY <1>6, <3>1 DEF AtMostOne
    <3> QED
      BY <3>1, <3>2
  <2> QED
    BY <2>1 DEF AtMostOne
<1>7. ASSUME AtMostOne(AnswersOf(q, Head(q).cmd.slot)) PROVE AnswersOf(Tail(q), Head(q).cmd.slot) = {}
  <2>1. ASSUME NEW i \in AnswersOf(Tail(q), Head(q).cmd.slot) PROVE FALSE
    <3>1. i \in Nat /\ i # 0 /\ i + 1 \in AnswersOf(q, Head(q).cmd.slot)
      BY <1>4
    <3>2. i + 1 = 1
      BY <1>5, <1>7, <3>1 DEF AtMostOne
    <3> QED
      BY <3>1, <3>2
  <2> QED
    BY <2>1
<1>8. \A i \in DOMAIN Tail(q) : \E j \in DOMAIN q : Tail(q)[i] = q[j]
  BY <1>3
<1>9. \A s : AnswersOf(q, s) = {} => AnswersOf(Tail(q), s) = {}
  BY <1>4
<1> QED
  BY <1>1, <1>2, <1>5, <1>6, <1>7, <1>8, <1>9

(* Taking the first timer (the retry of RETRY_TIME_MS) leaves none of its slot if it
   was the only one, and of another slot no more than there were. *)
LEMMA TimersTail ==
  ASSUME NEW q \in Seq(Cmd), q # << >>
  PROVE  /\ Tail(q) \in Seq(Cmd) /\ Head(q) \in Cmd /\ 1 \in DOMAIN q /\ Head(q) = q[1]
         /\ \A i \in DOMAIN Tail(q) : \E j \in DOMAIN q : Tail(q)[i] = q[j]
         /\ TimersOf(q, Head(q).slot) # {}
         /\ \A s : TimersOf(q, s) = {} => TimersOf(Tail(q), s) = {}
         /\ \A s : AtMostOne(TimersOf(q, s)) => AtMostOne(TimersOf(Tail(q), s))
         /\ AtMostOne(TimersOf(q, Head(q).slot)) => TimersOf(Tail(q), Head(q).slot) = {}
<1>1. /\ Tail(q) \in Seq(Cmd) /\ Head(q) = q[1] /\ Head(q) \in Cmd
      /\ Len(q) \in Nat \ {0} /\ DOMAIN q = 1 .. Len(q)
      /\ DOMAIN Tail(q) = 1 .. Len(q) - 1
      /\ \A i \in 1 .. Len(q) - 1 : Tail(q)[i] = q[i + 1]
  OBVIOUS
<1>2. 1 \in DOMAIN q
  BY <1>1
<1>3. \A i \in DOMAIN Tail(q) : i \in Nat /\ i # 0 /\ i + 1 \in DOMAIN q /\ Tail(q)[i] = q[i + 1]
  BY <1>1
<1>4. \A s : \A i \in TimersOf(Tail(q), s) : i \in Nat /\ i # 0 /\ i + 1 \in TimersOf(q, s)
  BY <1>3 DEF TimersOf
<1>5. 1 \in TimersOf(q, Head(q).slot)
  BY <1>1, <1>2 DEF TimersOf
<1>6. ASSUME NEW s, AtMostOne(TimersOf(q, s)) PROVE AtMostOne(TimersOf(Tail(q), s))
  <2>1. ASSUME NEW i \in TimersOf(Tail(q), s), NEW j \in TimersOf(Tail(q), s) PROVE i = j
    <3>1. i \in Nat /\ j \in Nat /\ i + 1 \in TimersOf(q, s) /\ j + 1 \in TimersOf(q, s)
      BY <1>4
    <3>2. i + 1 = j + 1
      BY <1>6, <3>1 DEF AtMostOne
    <3> QED
      BY <3>1, <3>2
  <2> QED
    BY <2>1 DEF AtMostOne
<1>7. ASSUME AtMostOne(TimersOf(q, Head(q).slot)) PROVE TimersOf(Tail(q), Head(q).slot) = {}
  <2>1. ASSUME NEW i \in TimersOf(Tail(q), Head(q).slot) PROVE FALSE
    <3>1. i \in Nat /\ i # 0 /\ i + 1 \in TimersOf(q, Head(q).slot)
      BY <1>4
    <3>2. i + 1 = 1
      BY <1>5, <1>7, <3>1 DEF AtMostOne
    <3> QED
      BY <3>1, <3>2
  <2> QED
    BY <2>1
<1>8. \A i \in DOMAIN Tail(q) : \E j \in DOMAIN q : Tail(q)[i] = q[j]
  BY <1>3
<1>9. \A s : TimersOf(q, s) = {} => TimersOf(Tail(q), s) = {}
  BY <1>4
<1> QED
  BY <1>1, <1>2, <1>5, <1>6, <1>7, <1>8, <1>9

-----------------------------------------------------------------------------
(* Types, and the requests a channel has *)

(* What a channel has to do, when it gets one request more, and when it has served
   the first (RfxSender, one command at a time). *)
LEMMA ChannelLists ==
  ASSUME NEW q \in Seq(Cmd), NEW c \in Cmd, NEW s, \A i \in DOMAIN q : q[i].slot = s
  PROVE  /\ Append(q, c) \in Seq(Cmd) /\ Append(q, c) # << >>
         /\ c.slot = s => \A i \in DOMAIN Append(q, c) : Append(q, c)[i].slot = s
         /\ q # << >> => /\ Tail(q) \in Seq(Cmd) /\ Head(q) \in Cmd /\ Head(q) = q[1] /\ 1 \in DOMAIN q
                         /\ Head(q).slot = s
                         /\ \A i \in DOMAIN Tail(q) : Tail(q)[i].slot = s
<1>1. /\ Append(q, c) \in Seq(Cmd) /\ Len(q) \in Nat /\ DOMAIN q = 1 .. Len(q)
      /\ DOMAIN Append(q, c) = 1 .. Len(q) + 1
      /\ Append(q, c)[Len(q) + 1] = c
      /\ \A i \in 1 .. Len(q) : Append(q, c)[i] = q[i]
  OBVIOUS
<1>2. Append(q, c) # << >>
  OBVIOUS
<1>3. ASSUME c.slot = s PROVE \A i \in DOMAIN Append(q, c) : Append(q, c)[i].slot = s
  BY <1>1, <1>3
<1>4. ASSUME q # << >>
      PROVE  /\ Tail(q) \in Seq(Cmd) /\ Head(q) \in Cmd /\ Head(q) = q[1] /\ 1 \in DOMAIN q
             /\ Head(q).slot = s
             /\ \A i \in DOMAIN Tail(q) : Tail(q)[i].slot = s
  <2>1. /\ Tail(q) \in Seq(Cmd) /\ Head(q) = q[1] /\ Head(q) \in Cmd
        /\ Len(q) \in Nat \ {0}
        /\ DOMAIN Tail(q) = 1 .. Len(q) - 1
        /\ \A i \in 1 .. Len(q) - 1 : Tail(q)[i] = q[i + 1]
    BY <1>4
  <2>2. 1 \in DOMAIN q
    BY <2>1, <1>1
  <2>3. \A i \in DOMAIN Tail(q) : i + 1 \in DOMAIN q /\ Tail(q)[i] = q[i + 1]
    BY <2>1, <1>1
  <2> QED
    BY <2>1, <2>2, <2>3
<1> QED
  BY <1>1, <1>2, <1>3, <1>4

(* A request put into the list of its slot's channel (RADIO_POWER sent to the
   modem side) keeps the channels right. *)
LEMMA SendServes ==
  ASSUME cmds \in [Slots -> Seq(Cmd)], ChannelServes, NEW c \in Cmd,
         cmds' = [cmds EXCEPT ![c.slot] = Append(@, c)], efun' = efun
  PROVE  cmds' \in [Slots -> Seq(Cmd)] /\ ChannelServes'
<1>1. c.slot \in Slots
  BY DEF Cmd
<1>2. /\ Append(cmds[c.slot], c) \in Seq(Cmd) /\ Append(cmds[c.slot], c) # << >>
      /\ \A i \in DOMAIN Append(cmds[c.slot], c) : Append(cmds[c.slot], c)[i].slot = c.slot
  <2>1. cmds[c.slot] \in Seq(Cmd) /\ \A i \in DOMAIN cmds[c.slot] : cmds[c.slot][i].slot = c.slot
    BY <1>1 DEF ChannelServes
  <2>2. ASSUME NEW s, s = c.slot
        PROVE  /\ Append(cmds[s], c) \in Seq(Cmd) /\ Append(cmds[s], c) # << >>
               /\ \A i \in DOMAIN Append(cmds[s], c) : Append(cmds[s], c)[i].slot = s
    BY <2>1, <2>2, ChannelLists
  <2> QED
    BY <2>2
<1>3. cmds' \in [Slots -> Seq(Cmd)]
  BY <1>1, <1>2
<1>4. \A s \in Slots : cmds'[s] = IF s = c.slot THEN Append(cmds[c.slot], c) ELSE cmds[s]
  BY <1>1
<1>5. ASSUME NEW s \in Slots
      PROVE  /\ \A i \in DOMAIN cmds'[s] : cmds'[s][i].slot = s
             /\ efun'[s] # << >> => cmds'[s] # << >>
  <2>1. CASE s = c.slot
    BY <2>1, <1>2, <1>4
  <2>2. CASE s # c.slot
    BY <2>2, <1>4 DEF ChannelServes
  <2> QED
    BY <2>1, <2>2
<1> QED
  BY <1>3, <1>5 DEF ChannelServes

(* The answer of the request that was served is on its way and the channel is free
   (RmcRadioRequestHandler: responseToTelCore). *)
LEMMA ServedServes ==
  ASSUME RadioTypes, ChannelServes, NEW s \in Slots, NEW ok \in BOOLEAN, cmds[s] # << >>,
         Served(s, ok)
  PROVE  /\ answers' \in Seq(Answer) /\ cmds' \in [Slots -> Seq(Cmd)]
         /\ efun' \in [Slots -> Seq(SUBSET Slots)] /\ ChannelServes'
         /\ Head(cmds[s]) \in Cmd /\ Head(cmds[s]).slot = s
         /\ 1 \in DOMAIN cmds[s] /\ Head(cmds[s]) = cmds[s][1]
<1> USE DEF Served
<1>1. /\ cmds[s] # << >> /\ cmds[s] \in Seq(Cmd)
      /\ \A i \in DOMAIN cmds[s] : cmds[s][i].slot = s
  BY DEF RadioTypes, ChannelServes
<1>2. /\ Tail(cmds[s]) \in Seq(Cmd) /\ Head(cmds[s]) \in Cmd /\ Head(cmds[s]).slot = s
      /\ 1 \in DOMAIN cmds[s] /\ Head(cmds[s]) = cmds[s][1]
      /\ \A i \in DOMAIN Tail(cmds[s]) : Tail(cmds[s])[i].slot = s
  <2>1. Head(cmds[s]) \in Cmd
    BY <1>1
  <2> QED
    BY <2>1, <1>1, ChannelLists
<1>3. [cmd |-> Head(cmds[s]), ok |-> ok] \in Answer
  BY <1>2 DEF Answer
<1>4. answers' \in Seq(Answer)
  BY <1>3 DEF RadioTypes
<1>5. cmds' \in [Slots -> Seq(Cmd)]
  BY <1>2 DEF RadioTypes
<1>6. << >> \in Seq(SUBSET Slots)
  OBVIOUS
<1>7. efun' \in [Slots -> Seq(SUBSET Slots)]
  BY <1>6 DEF RadioTypes
<1>8. ASSUME NEW t \in Slots
      PROVE  /\ \A i \in DOMAIN cmds'[t] : cmds'[t][i].slot = t
             /\ efun'[t] # << >> => cmds'[t] # << >>
  <2>1. CASE t = s
    BY <2>1, <1>2 DEF RadioTypes
  <2>2. CASE t # s
    <3>1. cmds'[t] = cmds[t] /\ efun'[t] = efun[t]
      BY <2>2 DEF RadioTypes
    <3> QED
      BY <3>1 DEF ChannelServes
  <2> QED
    BY <2>1, <2>2
<1> QED
  BY <1>1, <1>2, <1>4, <1>5, <1>7, <1>8 DEF ChannelServes

(* A request the radio controller makes is a request, of the slot it names. *)
LEMMA PowerCmdType ==
  ASSUME NEW s \in Slots, NEW on \in BOOLEAN, NEW caller \in Callers
  PROVE  /\ PowerCmd(s, on, caller) \in Cmd
         /\ PowerCmd(s, on, caller).slot = s /\ PowerCmd(s, on, caller).on = on
         /\ PowerCmd(s, on, caller).caller = caller
BY DEF PowerCmd, Cmd

(* ... and so is BOOT_TURN_ON_RADIO, whatever cards there are. *)
LEMMA BootCmdType ==
  ASSUME NEW s \in Slots, NEW cards \in SUBSET Slots
  PROVE  /\ BootCmd(s, cards) \in Cmd
         /\ BootCmd(s, cards).slot = s /\ BootCmd(s, cards).caller = "boot"
BY DEF BootCmd, Cmd, Callers

(* moduleRequestRadioPower for an attach or a detach of one slot. *)
LEMMA DataServes ==
  ASSUME RadioTypes, ChannelServes, NEW s \in Slots, NEW on \in BOOLEAN, DataConnection(s, on)
  PROVE  radioLock' \in [Slots -> Locks] /\ cmds' \in [Slots -> Seq(Cmd)] /\ ChannelServes'
<1> DEFINE c == PowerCmd(s, s \in (IF on THEN {s} ELSE {}), IF on THEN "attach" ELSE "detach")
<1>1. c \in Cmd /\ c.slot = s
  <2>1. (s \in (IF on THEN {s} ELSE {})) \in BOOLEAN
    OBVIOUS
  <2>2. (IF on THEN "attach" ELSE "detach") \in Callers
    BY DEF Callers
  <2> QED
    BY <2>1, <2>2, PowerCmdType
<1>2. radioLock' = [t \in Slots |-> IF t \in {s} THEN "radio" ELSE [u \in Slots |-> "idle"][t]]
  BY DEF DataConnection, ModuleRequestRadioPower
<1>3. radioLock' \in [Slots -> Locks]
  BY <1>2 DEF Locks
<1>4. efun' = efun
  BY DEF DataConnection
<1>5. CASE modemPowerOff
  <2>1. cmds' = cmds
    BY <1>5 DEF DataConnection, ModuleRequestRadioPower
  <2> QED
    BY <2>1, <1>3, <1>4 DEF RadioTypes, ChannelServes
<1>6. CASE ~modemPowerOff
  <2>1. cmds' = [t \in Slots |-> IF t \in {s} THEN Append(cmds[t], PowerCmd(t, t \in (IF on THEN {s} ELSE {}), IF on THEN "attach" ELSE "detach")) ELSE cmds[t]]
    BY <1>6 DEF DataConnection, ModuleRequestRadioPower
  <2>2. cmds' = [t \in Slots |-> IF t = s THEN Append(cmds[s], c) ELSE cmds[t]]
    BY <2>1
  <2> HIDE DEF c
  <2>3. cmds \in [Slots -> Seq(Cmd)]
    BY DEF RadioTypes
  <2>4. cmds' = [cmds EXCEPT ![c.slot] = Append(@, c)]
    BY <2>2, <2>3, <1>1
  <2>5. cmds' \in [Slots -> Seq(Cmd)] /\ ChannelServes'
    BY <2>3, <2>4, <1>1, <1>4, SendServes
  <2> QED
    BY <2>5, <1>3
<1> QED
  BY <1>5, <1>6

(* Every step keeps the types, and the requests of a channel its own. *)
LEMMA TypesStep ==
  ASSUME RadioTypes, ChannelServes, Next
  PROVE  RadioTypes' /\ ChannelServes'
<1> inst' = inst
  BY DEF Next
<1>0. /\ inst \in Instances
      /\ radioLock \in [Slots -> Locks]
      /\ requestRadioPower \in [Slots -> BOOLEAN] /\ msimMode \in [Slots -> BOOLEAN]
      /\ toRadio \in [Slots -> Seq(BOOLEAN)] /\ cmds \in [Slots -> Seq(Cmd)]
      /\ efun \in [Slots -> Seq(SUBSET Slots)]
      /\ answers \in Seq(Answer) /\ timers \in Seq(Cmd)
      /\ crossed \subseteq Slots
      /\ replies \in [Slots -> Seq({"success", "not_available"})]
      /\ datas \in Nat
  BY DEF RadioTypes
<1>a. {"framework", "boot"} \subseteq Callers /\ {"idle", "radio", "data"} \subseteq Locks
  BY DEF Callers, Locks
<1>b. answers # << >> => /\ Head(answers).cmd \in Cmd /\ Head(answers).cmd.slot \in Slots
                         /\ Tail(answers) \in Seq(Answer)
  <2>1. answers # << >> => Head(answers) \in Answer /\ Tail(answers) \in Seq(Answer)
    BY <1>0
  <2> QED
    BY <2>1 DEF Answer, Cmd
<1>1. ASSUME NEW s \in Slots, RequestRadioPower(s) PROVE RadioTypes' /\ ChannelServes'
  <2>1. Head(toRadio[s]) \in BOOLEAN /\ Tail(toRadio[s]) \in Seq(BOOLEAN)
    BY <1>0, <1>1 DEF RequestRadioPower
  <2>2. radioLock' \in [Slots -> Locks] /\ toRadio' \in [Slots -> Seq(BOOLEAN)]
    BY <1>0, <1>1, <1>a, <2>1 DEF RequestRadioPower
  <2>3. Append(replies[s], "not_available") \in Seq({"success", "not_available"})
    BY <1>0
  <2>4. replies' \in [Slots -> Seq({"success", "not_available"})] /\ requestRadioPower' \in [Slots -> BOOLEAN]
    BY <1>0, <1>1, <2>1, <2>3 DEF RequestRadioPower
  <2>5. cmds' \in [Slots -> Seq(Cmd)] /\ ChannelServes'
    <3> DEFINE c == PowerCmd(s, Head(toRadio[s]), "framework")
    <3>1. c \in Cmd /\ c.slot = s
      BY <2>1, <1>a, PowerCmdType
    <3>2. efun' = efun
      BY <1>1 DEF RequestRadioPower
    <3>3. cmds' = cmds \/ cmds' = [cmds EXCEPT ![s] = Append(@, c)]
      BY <1>1 DEF RequestRadioPower
    <3> HIDE DEF c
    <3>4. CASE cmds' = cmds
      BY <3>2, <3>4, <1>0 DEF ChannelServes
    <3>5. CASE cmds' = [cmds EXCEPT ![s] = Append(@, c)]
      <4>1. cmds' = [cmds EXCEPT ![c.slot] = Append(@, c)]
        BY <3>5, <3>1
      <4> QED
        BY <4>1, <3>1, <3>2, <1>0, SendServes
    <3> QED
      BY <3>3, <3>4, <3>5
  <2>6. UNCHANGED << msimMode, efun, answers, timers, datas >> /\ crossed' \in {crossed, crossed \ {s}}
    BY <1>1 DEF RequestRadioPower, boundVars
  <2> QED
    BY <1>0, <2>2, <2>4, <2>5, <2>6 DEF RadioTypes
<1>2. ASSUME NEW s \in Slots, SendEfun(s) PROVE RadioTypes' /\ ChannelServes'
  <2>1. PICK mode \in TargetModes(Head(cmds[s])) : efun' = [efun EXCEPT ![s] = << mode >>]
    BY <1>2 DEF SendEfun
  <2>2. efun' \in [Slots -> Seq(SUBSET Slots)]
    <3>1. Head(cmds[s]).cards \subseteq Slots
      <4>1. Head(cmds[s]) \in Cmd
        BY <1>0, <1>2 DEF SendEfun
      <4> QED
        BY <4>1 DEF Cmd
    <3>2. mode \in SUBSET Slots
      BY <2>1, <3>1 DEF TargetModes
    <3>3. << mode >> \in Seq(SUBSET Slots)
      BY <3>2
    <3> QED
      BY <1>0, <2>1, <3>3
  <2>3. UNCHANGED << radioLock, requestRadioPower, msimMode, toRadio, cmds, answers, timers, crossed,
                     replies, datas >>
    BY <1>2 DEF SendEfun, keyVars, boundVars, efunVars
  <2>4. ChannelServes'
    BY <1>0, <1>2, <2>3 DEF ChannelServes, SendEfun
  <2> QED
    BY <1>0, <2>2, <2>3, <2>4 DEF RadioTypes
<1>3. ASSUME NEW s \in Slots, EfunDone(s) PROVE RadioTypes' /\ ChannelServes'
  <2>1. cmds[s] # << >> /\ Served(s, TRUE)
    BY <1>3 DEF EfunDone, ChannelServes
  <2>2. /\ answers' \in Seq(Answer) /\ cmds' \in [Slots -> Seq(Cmd)]
        /\ efun' \in [Slots -> Seq(SUBSET Slots)] /\ ChannelServes'
        /\ Head(cmds[s]) \in Cmd
    BY <2>1, ServedServes
  <2>3. /\ msimMode' \in [Slots -> BOOLEAN] /\ requestRadioPower' \in [Slots -> BOOLEAN]
        /\ crossed' \subseteq Slots
    <3>1. Head(cmds[s]).on \in BOOLEAN
      BY <2>2 DEF Cmd
    <3>2. CASE Head(cmds[s]).caller = "boot"
      <4>1. /\ msimMode' = [t \in Slots |-> t \in Head(efun[s])]
            /\ requestRadioPower' = [t \in Slots |-> t \in modemOn' \/ requestRadioPower[t]]
            /\ crossed' \subseteq Slots
        BY <1>3, <3>2 DEF EfunDone, StoredMode
      <4>2. \A t \in Slots : (t \in Head(efun[s])) \in BOOLEAN /\ (t \in modemOn' \/ requestRadioPower[t]) \in BOOLEAN
        OBVIOUS
      <4> QED
        BY <4>1, <4>2
    <3>3. CASE Head(cmds[s]).caller # "boot"
      BY <1>0, <1>3, <3>1, <3>3 DEF EfunDone, StoredMode
    <3> QED
      BY <3>2, <3>3
  <2>4. UNCHANGED << radioLock, toRadio, timers, replies, datas >>
    BY <1>3 DEF EfunDone, boundVars
  <2> QED
    BY <1>0, <2>2, <2>3, <2>4 DEF RadioTypes
<1>4. ASSUME NEW s \in Slots, EfunFails(s) \/ BootSkipped(s) PROVE RadioTypes' /\ ChannelServes'
  <2>1. cmds[s] # << >> /\ \E ok \in BOOLEAN : Served(s, ok)
    BY <1>4 DEF EfunFails, BootSkipped, ChannelServes
  <2>2. /\ answers' \in Seq(Answer) /\ cmds' \in [Slots -> Seq(Cmd)]
        /\ efun' \in [Slots -> Seq(SUBSET Slots)] /\ ChannelServes'
    BY <2>1, ServedServes
  <2>3. UNCHANGED << radioLock, requestRadioPower, msimMode, toRadio, timers, crossed, replies, datas >>
    BY <1>4 DEF EfunFails, BootSkipped, keyVars, boundVars, efunVars
  <2> QED
    BY <1>0, <2>2, <2>3 DEF RadioTypes
<1>5. ASSUME RetryRadioPower PROVE RadioTypes' /\ ChannelServes'
  <2>1. timers' \in Seq(Cmd) /\ answers' \in Seq(Answer)
    BY <1>0, <1>5, <1>b DEF RetryRadioPower
  <2>2. radioLock' \in [Slots -> Locks]
    BY <1>0, <1>5, <1>a DEF RetryRadioPower
  <2>3. UNCHANGED << requestRadioPower, msimMode, toRadio, cmds, efun, crossed, replies, datas >>
    BY <1>5 DEF RetryRadioPower, boundVars, efunVars
  <2> QED
    BY <1>0, <2>1, <2>2, <2>3 DEF RadioTypes, ChannelServes
<1>6. ASSUME RetryTimer PROVE RadioTypes' /\ ChannelServes'
  <2>1. Head(timers) \in Cmd /\ timers' \in Seq(Cmd)
    BY <1>0, <1>6 DEF RetryTimer
  <2>2. UNCHANGED << radioLock, requestRadioPower, msimMode, toRadio, efun, answers, crossed, replies,
                     datas >>
    BY <1>6 DEF RetryTimer, keyVars, boundVars, efunVars
  <2>3. cmds' = [cmds EXCEPT ![Head(timers).slot] = Append(@, Head(timers))]
    BY <1>6 DEF RetryTimer
  <2>4. cmds' \in [Slots -> Seq(Cmd)] /\ ChannelServes'
    BY <1>0, <2>1, <2>2, <2>3, SendServes
  <2> QED
    BY <1>0, <2>1, <2>2, <2>4 DEF RadioTypes
<1>7. ASSUME NEW s \in Slots, OnSimStateChanged(s) PROVE RadioTypes' /\ ChannelServes'
  <2>1. radioLock' \in [Slots -> Locks]
    BY <1>0, <1>7, <1>a DEF OnSimStateChanged
  <2>2. UNCHANGED << requestRadioPower, msimMode, toRadio, efun, answers, timers, crossed, replies, datas >>
    BY <1>7 DEF OnSimStateChanged, boundVars, efunVars
  <2>3. cmds' \in [Slots -> Seq(Cmd)] /\ ChannelServes'
    <3>1. \A cards \in SUBSET Slots : BootCmd(s, cards) \in Cmd /\ BootCmd(s, cards).slot = s
      BY BootCmdType
    <3>2. cmds' = cmds \/ \E c \in Cmd : c.slot = s /\ cmds' = [cmds EXCEPT ![s] = Append(@, c)]
      BY <1>7, <3>1 DEF OnSimStateChanged
    <3>3. CASE cmds' = cmds
      BY <2>2, <3>3, <1>0 DEF ChannelServes
    <3>4. ASSUME NEW c \in Cmd, c.slot = s, cmds' = [cmds EXCEPT ![s] = Append(@, c)]
          PROVE  cmds' \in [Slots -> Seq(Cmd)] /\ ChannelServes'
      <4>1. cmds' = [cmds EXCEPT ![c.slot] = Append(@, c)]
        BY <3>4
      <4> QED
        BY <4>1, <2>2, <1>0, SendServes
    <3> QED
      BY <3>2, <3>3, <3>4
  <2> QED
    BY <1>0, <2>1, <2>2, <2>3 DEF RadioTypes
<1>8. ASSUME NEW s \in Slots, NEW on \in BOOLEAN, FrameworkPower(s, on) PROVE RadioTypes' /\ ChannelServes'
  <2>1. Append(toRadio[s], on) \in Seq(BOOLEAN)
    BY <1>0
  <2>2. toRadio' \in [Slots -> Seq(BOOLEAN)]
    BY <1>0, <1>8, <2>1 DEF FrameworkPower
  <2>3. UNCHANGED << radioLock, requestRadioPower, msimMode, cmds, efun, answers, timers, crossed,
                     replies, datas >>
    BY <1>8 DEF FrameworkPower, keyVars, efunVars
  <2> QED
    BY <1>0, <2>2, <2>3 DEF RadioTypes, ChannelServes
<1>9. ASSUME PowerOffModem PROVE RadioTypes' /\ ChannelServes'
  <2>1. UNCHANGED << radioLock, requestRadioPower, msimMode, toRadio, cmds, efun, answers, timers, crossed,
                     replies, datas >>
    BY <1>9 DEF PowerOffModem, queueVars, boundVars, efunVars
  <2> QED
    BY <1>0, <2>1 DEF RadioTypes, ChannelServes
<1>10. ASSUME AnswerRadioPower PROVE RadioTypes' /\ ChannelServes'
  <2>1. answers # << >> /\ answers' = Tail(answers)
    BY <1>10 DEF AnswerRadioPower, Answered
  <2>2. Append(replies[Head(answers).cmd.slot], "success") \in Seq({"success", "not_available"})
    BY <1>0, <1>b, <2>1
  <2>3. radioLock' \in [Slots -> Locks] /\ replies' \in [Slots -> Seq({"success", "not_available"})]
    BY <1>0, <1>10, <1>a, <1>b, <2>1, <2>2 DEF AnswerRadioPower, Unlocked
  <2>4. UNCHANGED << requestRadioPower, msimMode, toRadio, cmds, efun, timers, crossed, datas >>
    BY <1>10 DEF AnswerRadioPower, boundVars, efunVars
  <2> QED
    BY <1>0, <1>b, <2>1, <2>3, <2>4 DEF RadioTypes, ChannelServes
<1>11. ASSUME OnAttachOrDetachDone PROVE RadioTypes' /\ ChannelServes'
  <2>1. answers # << >> /\ answers' = Tail(answers)
    BY <1>11 DEF OnAttachOrDetachDone, Answered
  <2>2. radioLock' \in [Slots -> Locks]
    BY <1>0, <1>11, <1>a, <1>b, <2>1 DEF OnAttachOrDetachDone, Unlocked
  <2>3. UNCHANGED << requestRadioPower, msimMode, toRadio, cmds, efun, timers, crossed, replies, datas >>
    BY <1>11 DEF OnAttachOrDetachDone, boundVars, efunVars
  <2> QED
    BY <1>0, <1>b, <2>1, <2>2, <2>3 DEF RadioTypes, ChannelServes
<1>12. ASSUME NEW s \in Slots, NEW on \in BOOLEAN, DataConnection(s, on) PROVE RadioTypes' /\ ChannelServes'
  <2>1. radioLock' \in [Slots -> Locks] /\ cmds' \in [Slots -> Seq(Cmd)] /\ ChannelServes'
    BY <1>12, DataServes
  <2>2. UNCHANGED << requestRadioPower, msimMode, toRadio, efun, answers, timers, crossed, replies >>
    BY <1>12 DEF DataConnection, efunVars
  <2>3. datas' \in Nat
    BY <1>0, <1>12 DEF DataConnection
  <2> QED
    BY <1>0, <2>1, <2>2, <2>3 DEF RadioTypes
<1> QED
  BY <1>1, <1>2, <1>3, <1>4, <1>5, <1>6, <1>7, <1>8, <1>9, <1>10, <1>11, <1>12
     DEF Next, Steps, RadioProgress, RadioInput

-----------------------------------------------------------------------------
(* One request of a slot *)

(* The first of at most one is the last. *)
LEMMA ShortList ==
  /\ \A q \in Seq(Cmd) : q # << >> /\ Len(q) <= 1 => Tail(q) = << >>
  /\ Len(<< >>) <= 1 /\ \A c : Len(<< c >>) <= 1
<1>1. ASSUME NEW q \in Seq(Cmd), q # << >>, Len(q) <= 1 PROVE Tail(q) = << >>
  <2>1. Len(q) \in Nat /\ Len(q) # 0
    BY <1>1, EmptySeq
  <2>2. Tail(q) \in Seq(Cmd) /\ Len(Tail(q)) = Len(q) - 1
    BY <1>1, HeadTailProperties
  <2>3. Len(Tail(q)) = 0
    BY <1>1, <2>1, <2>2
  <2> QED
    BY <2>2, <2>3, EmptySeq
<1>2. Len(<< >>) <= 1 /\ \A c : Len(<< c >>) <= 1
  OBVIOUS
<1> QED
  BY <1>1, <1>2

(* Where a slot's request can be. *)
LEMMA UnderWayIs ==
  ASSUME NEW s
  PROVE  UnderWay(s) <=> \/ cmds[s] # << >> \/ AnswersOf(answers, s) # {} \/ TimersOf(timers, s) # {}
BY DEF UnderWay, AnswersOf, TimersOf

(* ... and where it is after a step. *)
LEMMA UnderWayNext ==
  ASSUME NEW s
  PROVE  UnderWay(s)' <=> \/ cmds'[s] # << >> \/ AnswersOf(answers', s) # {} \/ TimersOf(timers', s) # {}
BY DEF UnderWay, AnswersOf, TimersOf

(* A slot that is not locked has no request, and a request sent then is its only one
   (canHandleRequest, onSimStateChanged). *)
LEMMA SendAlone ==
  ASSUME RadioTypes, OneEach, NEW s \in Slots, NEW c \in Cmd, radioLock[s] = "idle",
         cmds' = [cmds EXCEPT ![s] = Append(@, c)], radioLock' = [radioLock EXCEPT ![s] = "radio"],
         answers' = answers, timers' = timers
  PROVE  OneEach' /\ cmds[s] = << >> /\ AnswersOf(answers, s) = {} /\ TimersOf(timers, s) = {}
         /\ cmds'[s] = << c >>
<1>1. cmds[s] = << >> /\ AnswersOf(answers, s) = {} /\ TimersOf(timers, s) = {}
  <2>1. ~UnderWay(s)
    BY DEF OneEach, LockKept
  <2> QED
    BY <2>1, UnderWayIs
<1>2. cmds'[s] = << c >> /\ radioLock'[s] = "radio"
  BY <1>1 DEF RadioTypes
<1>3. OneUnderWay(s)'
  <2>1. Len(cmds'[s]) <= 1
    BY <1>2, ShortList
  <2> QED
    BY <1>1, <2>1 DEF OneUnderWay, AtMostOne
<1>4. ASSUME NEW t \in Slots, t # s PROVE OneUnderWay(t)' /\ LockKept(t)'
  <2>1. cmds'[t] = cmds[t] /\ radioLock'[t] = radioLock[t]
    BY <1>4 DEF RadioTypes
  <2>2. OneUnderWay(t) /\ LockKept(t)
    BY DEF OneEach
  <2> QED
    BY <2>1, <2>2 DEF OneUnderWay, LockKept, UnderWay
<1> QED
  BY <1>1, <1>2, <1>3, <1>4 DEF OneEach, LockKept

(* The end of an EFUN moves the request of the channel to the answers. *)
LEMMA ServedAlone ==
  ASSUME RadioTypes, ChannelServes, OneEach, NEW s \in Slots, NEW ok \in BOOLEAN, cmds[s] # << >>,
         Served(s, ok), radioLock' = radioLock, timers' = timers
  PROVE  /\ OneEach' /\ cmds'[s] = << >> /\ AnswersOf(answers, s) = {} /\ TimersOf(timers, s) = {}
<1> USE DEF Served
<1> DEFINE a == [cmd |-> Head(cmds[s]), ok |-> ok]
<1>1. /\ cmds[s] # << >> /\ Head(cmds[s]) \in Cmd /\ Head(cmds[s]).slot = s
  BY ServedServes
<1>2. /\ Len(cmds[s]) <= 1 /\ AnswersOf(answers, s) = {} /\ TimersOf(timers, s) = {}
      /\ radioLock[s] = "radio"
  <2>1. OneUnderWay(s) /\ LockKept(s) /\ UnderWay(s)
    BY <1>1 DEF OneEach, UnderWay
  <2> QED
    BY <1>1, <2>1 DEF OneUnderWay, LockKept
<1>3. cmds'[s] = << >>
  <2>1. cmds[s] \in Seq(Cmd) /\ cmds'[s] = Tail(cmds[s])
    BY DEF RadioTypes
  <2>2. Tail(cmds[s]) = << >>
    BY <1>1, <1>2, <2>1, ShortList
  <2> QED
    BY <2>1, <2>2
<1>4. a \in Answer /\ a.cmd.slot = s /\ answers \in Seq(Answer) /\ answers' = Append(answers, a)
  BY <1>1 DEF Answer, RadioTypes
<1> HIDE DEF a
<1>5. \A t : t # s => AnswersOf(answers', t) = AnswersOf(answers, t)
  BY <1>4, AnswersAppend
<1>6. AtMostOne(AnswersOf(answers', s))
  BY <1>2, <1>4, AnswersAppend
<1>7. OneUnderWay(s)' /\ LockKept(s)'
  <2>1. Len(cmds'[s]) <= 1
    BY <1>3, ShortList
  <2>2. AtMostOne(TimersOf(timers, s)) /\ TimersOf(timers', s) = {}
    BY <1>2 DEF AtMostOne
  <2>3. OneUnderWay(s)'
    BY <1>3, <1>6, <2>1, <2>2 DEF OneUnderWay
  <2> QED
    BY <2>3, <1>2 DEF LockKept
<1>8. ASSUME NEW t \in Slots, t # s PROVE OneUnderWay(t)' /\ LockKept(t)'
  <2>1. cmds'[t] = cmds[t] /\ AnswersOf(answers', t) = AnswersOf(answers, t)
    BY <1>5, <1>8 DEF RadioTypes
  <2>2. OneUnderWay(t) /\ LockKept(t)
    BY DEF OneEach
  <2>3. UnderWay(t)' <=> UnderWay(t)
    BY <2>1, UnderWayIs, UnderWayNext
  <2> QED
    BY <2>1, <2>2, <2>3 DEF OneUnderWay, LockKept
<1> QED
  BY <1>2, <1>3, <1>7, <1>8 DEF OneEach

(* A failed request goes from the answers to the retry timer. *)
LEMMA RetryAlone ==
  ASSUME RadioTypes, OneEach, RetryRadioPower
  PROVE  OneEach'
<1> DEFINE c == Head(answers).cmd
<1>1. /\ answers # << >> /\ answers \in Seq(Answer) /\ timers \in Seq(Cmd)
      /\ answers' = Tail(answers) /\ timers' = Append(timers, c) /\ cmds' = cmds
      /\ radioLock' = [radioLock EXCEPT ![c.slot] = "radio"]
  BY DEF RetryRadioPower, RadioTypes
<1>2. c \in Cmd /\ c.slot \in Slots
  <2>1. Head(answers) \in Answer
    BY <1>1
  <2> QED
    BY <2>1 DEF Answer, Cmd
<1>s. PICK s \in Slots : s = c.slot
  BY <1>2
<1>3. AnswersOf(answers, s) # {}
  BY <1>s, <1>1, AnswersTail
<1>4. OneUnderWay(s)
  BY <1>s, <1>2 DEF OneEach
<1>5. AnswersOf(answers', s) = {}
  BY <1>s, <1>1, <1>4, AnswersTail DEF OneUnderWay
<1> HIDE DEF c
<1>6. cmds[s] = << >> /\ TimersOf(timers, s) = {}
  BY <1>3, <1>4 DEF OneUnderWay
<1>7. AtMostOne(TimersOf(timers', s))
  BY <1>s, <1>1, <1>2, <1>6, TimersAppend
<1>8. OneUnderWay(s)' /\ LockKept(s)'
  <2>1. radioLock'[s] = "radio"
    BY <1>s, <1>1, <1>2 DEF RadioTypes
  <2>2. Len(cmds'[s]) <= 1 /\ cmds'[s] = << >>
    BY <1>s, <1>1, <1>6
  <2>3. AtMostOne(AnswersOf(answers', s))
    BY <1>5 DEF AtMostOne
  <2>4. OneUnderWay(s)'
    BY <1>s, <1>5, <1>7, <2>2, <2>3, <1>1 DEF OneUnderWay
  <2> QED
    BY <2>1, <2>4 DEF LockKept
<1>9. ASSUME NEW t \in Slots, t # s PROVE OneUnderWay(t)' /\ LockKept(t)'
  <2>1. TimersOf(timers', t) = TimersOf(timers, t)
    BY <1>s, <1>1, <1>2, <1>9, TimersAppend
  <2>2. /\ AnswersOf(answers, t) = {} => AnswersOf(answers', t) = {}
        /\ AtMostOne(AnswersOf(answers, t)) => AtMostOne(AnswersOf(answers', t))
    BY <1>s, <1>1, AnswersTail
  <2>3. OneUnderWay(t) /\ LockKept(t)
    BY DEF OneEach
  <2>4. UnderWay(t)' => UnderWay(t)
    BY <1>s, <1>1, <2>1, <2>2, UnderWayIs, UnderWayNext
  <2>5. radioLock'[t] = radioLock[t]
    BY <1>s, <1>1, <1>2, <1>9 DEF RadioTypes
  <2> QED
    BY <1>s, <1>1, <2>1, <2>2, <2>3, <2>4, <2>5 DEF OneUnderWay, LockKept
<1> QED
  BY <1>s, <1>2, <1>8, <1>9 DEF OneEach

(* The retry timer sends the request again. *)
LEMMA TimerAlone ==
  ASSUME RadioTypes, OneEach, RetryTimer
  PROVE  OneEach'
<1> DEFINE c == Head(timers)
<1>1. /\ timers # << >> /\ timers \in Seq(Cmd) /\ timers' = Tail(timers)
      /\ cmds' = [cmds EXCEPT ![c.slot] = Append(@, c)]
      /\ answers' = answers /\ radioLock' = radioLock
  BY DEF RetryTimer, RadioTypes, keyVars
<1>2. c \in Cmd /\ c.slot \in Slots
  <2>1. Head(timers) \in Cmd
    BY <1>1
  <2> QED
    BY <2>1 DEF Cmd
<1>s. PICK s \in Slots : s = c.slot
  BY <1>2
<1>3. TimersOf(timers, s) # {}
  BY <1>s, <1>1, TimersTail
<1>4. OneUnderWay(s) /\ LockKept(s)
  BY <1>s, <1>2 DEF OneEach
<1>5. TimersOf(timers', s) = {}
  BY <1>s, <1>1, <1>4, TimersTail DEF OneUnderWay
<1> HIDE DEF c
<1>6. cmds[s] = << >> /\ AnswersOf(answers, s) = {} /\ radioLock[s] = "radio"
  <2>1. UnderWay(s)
    BY <1>3, UnderWayIs
  <2> QED
    BY <1>3, <1>4, <2>1 DEF OneUnderWay, LockKept
<1>7. OneUnderWay(s)' /\ LockKept(s)'
  <2>1. cmds'[s] = << c >>
    BY <1>s, <1>1, <1>2, <1>6 DEF RadioTypes
  <2>2. Len(cmds'[s]) <= 1
    BY <2>1
  <2>3. AtMostOne(AnswersOf(answers, s)) /\ AtMostOne(TimersOf(timers', s))
    BY <1>5, <1>6 DEF AtMostOne
  <2>4. OneUnderWay(s)'
    BY <1>s, <1>1, <1>5, <1>6, <2>2, <2>3 DEF OneUnderWay
  <2> QED
    BY <1>s, <1>1, <1>6, <2>4 DEF LockKept
<1>8. ASSUME NEW t \in Slots, t # s PROVE OneUnderWay(t)' /\ LockKept(t)'
  <2>1. /\ TimersOf(timers, t) = {} => TimersOf(timers', t) = {}
        /\ AtMostOne(TimersOf(timers, t)) => AtMostOne(TimersOf(timers', t))
    BY <1>s, <1>1, TimersTail
  <2>2. cmds'[t] = cmds[t]
    BY <1>s, <1>1, <1>2, <1>8 DEF RadioTypes
  <2>3. OneUnderWay(t) /\ LockKept(t)
    BY DEF OneEach
  <2>4. UnderWay(t)' => UnderWay(t)
    BY <1>s, <1>1, <2>1, <2>2, UnderWayIs, UnderWayNext
  <2> QED
    BY <1>s, <1>1, <2>1, <2>2, <2>3, <2>4 DEF OneUnderWay, LockKept
<1> QED
  BY <1>s, <1>2, <1>7, <1>8 DEF OneEach

(* A slot is unlocked when its only request has succeeded. *)
LEMMA AnswerAlone ==
  ASSUME RadioTypes, OneEach, AnswerRadioPower
  PROVE  OneEach'
<1> DEFINE c == Head(answers).cmd
<1>1. /\ answers # << >> /\ answers \in Seq(Answer)
      /\ answers' = Tail(answers) /\ timers' = timers /\ cmds' = cmds
      /\ radioLock' = [radioLock EXCEPT ![c.slot] = "idle"]
  BY DEF AnswerRadioPower, Answered, Unlocked, RadioTypes
<1>2. c.slot \in Slots
  <2>1. Head(answers) \in Answer
    BY <1>1
  <2> QED
    BY <2>1 DEF Answer, Cmd
<1>s. PICK s \in Slots : s = c.slot
  BY <1>2
<1>3. AnswersOf(answers, s) # {}
  BY <1>s, <1>1, AnswersTail
<1>4. OneUnderWay(s)
  BY <1>s, <1>2 DEF OneEach
<1>5. AnswersOf(answers', s) = {}
  BY <1>s, <1>1, <1>4, AnswersTail DEF OneUnderWay
<1> HIDE DEF c
<1>6. cmds[s] = << >> /\ TimersOf(timers, s) = {}
  BY <1>3, <1>4 DEF OneUnderWay
<1>7. OneUnderWay(s)' /\ LockKept(s)'
  <2>1. ~UnderWay(s)'
    BY <1>s, <1>1, <1>5, <1>6, UnderWayNext
  <2>2. AtMostOne(AnswersOf(answers', s))
    BY <1>5 DEF AtMostOne
  <2> QED
    BY <1>s, <1>1, <1>4, <1>5, <1>6, <2>1, <2>2 DEF OneUnderWay, LockKept
<1>8. ASSUME NEW t \in Slots, t # s PROVE OneUnderWay(t)' /\ LockKept(t)'
  <2>1. /\ AnswersOf(answers, t) = {} => AnswersOf(answers', t) = {}
        /\ AtMostOne(AnswersOf(answers, t)) => AtMostOne(AnswersOf(answers', t))
    BY <1>s, <1>1, AnswersTail
  <2>2. OneUnderWay(t) /\ LockKept(t)
    BY DEF OneEach
  <2>3. UnderWay(t)' => UnderWay(t)
    BY <1>s, <1>1, <2>1, UnderWayIs, UnderWayNext
  <2>4. radioLock'[t] = radioLock[t]
    BY <1>s, <1>1, <1>2, <1>8 DEF RadioTypes
  <2> QED
    BY <1>s, <1>1, <2>1, <2>2, <2>3, <2>4 DEF OneUnderWay, LockKept
<1> QED
  BY <1>s, <1>2, <1>7, <1>8 DEF OneEach

-----------------------------------------------------------------------------
(* Who asked, and for what power *)

\* What is said of every request, of a channel, answered or waiting for a retry:
\* the framework or the boot asked, and for what was last asked of the slot
Fits(c) == c.caller \in {"framework", "boot"} /\ Asked(c)
AllFit ==
  /\ \A s \in Slots : \A i \in DOMAIN cmds[s] : Fits(cmds[s][i])
  /\ \A i \in DOMAIN answers : /\ Fits(answers[i].cmd)
                               /\ answers[i].ok => Settled(answers[i].cmd.slot)
  /\ \A i \in DOMAIN timers : Fits(timers[i])
IdleSettled == \A s \in Slots : radioLock[s] = "idle" => Settled(s)

(* NoData and PowerFollows, request by request. *)
LEMMA FitsIs ==
  /\ NoData /\ PowerFollows <=> AllFit /\ IdleSettled
  /\ (NoData /\ PowerFollows)' <=> AllFit' /\ IdleSettled'
BY DEF NoData, PowerFollows, AllFit, IdleSettled, Fits

(* Where an element of a channel's list comes from, after a request more or less. *)
LEMMA ChannelElements ==
  ASSUME NEW q \in Seq(Cmd), NEW c \in Cmd
  PROVE  /\ \A i \in DOMAIN Append(q, c) : Append(q, c)[i] = c \/ \E j \in DOMAIN q : Append(q, c)[i] = q[j]
         /\ q # << >> => \A i \in DOMAIN Tail(q) : \E j \in DOMAIN q : Tail(q)[i] = q[j]
<1>1. /\ Len(q) \in Nat /\ DOMAIN q = 1 .. Len(q)
      /\ DOMAIN Append(q, c) = 1 .. Len(q) + 1
      /\ Append(q, c)[Len(q) + 1] = c
      /\ \A i \in 1 .. Len(q) : Append(q, c)[i] = q[i]
  OBVIOUS
<1>2. ASSUME q # << >> PROVE \A i \in DOMAIN Tail(q) : \E j \in DOMAIN q : Tail(q)[i] = q[j]
  <2>1. /\ DOMAIN Tail(q) = 1 .. Len(q) - 1
        /\ \A i \in 1 .. Len(q) - 1 : Tail(q)[i] = q[i + 1]
    BY <1>2
  <2>2. \A i \in 1 .. Len(q) - 1 : i + 1 \in 1 .. Len(q)
    BY <1>1
  <2> QED
    BY <1>1, <2>1, <2>2
<1>3. \A i \in DOMAIN Append(q, c) : Append(q, c)[i] = c \/ \E j \in DOMAIN q : Append(q, c)[i] = q[j]
  BY <1>1
<1> QED
  BY <1>2, <1>3

(* What is said of a request, or of a slot, is not changed by a step that leaves the keys
   of that slot alone. *)
LEMMA KeepsFit ==
  ASSUME NEW c,
         requestRadioPower'[c.slot] = requestRadioPower[c.slot],
         msimMode'[c.slot] = msimMode[c.slot], c.slot \in crossed' <=> c.slot \in crossed
  PROVE  (Fits(c) => Fits(c)') /\ (Settled(c.slot) => Settled(c.slot)')
BY DEF Fits, Asked, Settled

(* A request sent to the modem side with the slot's lock just taken: the status key
   has been set to what it carries (requestRadioPower), or the boot asks. *)
LEMMA SendFits ==
  ASSUME RadioTypes, ChannelServes, OneEach, AllFit, IdleSettled,
         NEW s \in Slots, NEW c \in Cmd, c.slot = s, radioLock[s] = "idle",
         cmds' = [cmds EXCEPT ![s] = Append(@, c)], radioLock' = [radioLock EXCEPT ![s] = "radio"],
         answers' = answers, timers' = timers, msimMode' = msimMode,
         \/ c.caller = "boot" /\ UNCHANGED << requestRadioPower, crossed >>
         \/ /\ c.caller = "framework" /\ crossed' = crossed \ {s}
            /\ requestRadioPower' = [requestRadioPower EXCEPT ![s] = c.on]
  PROVE  AllFit' /\ IdleSettled'
<1>a. \A t \in Slots : t # s => /\ requestRadioPower'[t] = requestRadioPower[t]
                                /\ t \in crossed' <=> t \in crossed
  BY DEF RadioTypes
<1>1. /\ cmds[s] = << >> /\ AnswersOf(answers, s) = {} /\ TimersOf(timers, s) = {}
      /\ cmds'[s] = << c >>
  BY SendAlone
<1>2. answers \in Seq(Answer) /\ timers \in Seq(Cmd) /\ cmds \in [Slots -> Seq(Cmd)]
  BY DEF RadioTypes
<1>3. \A d \in Cmd : d.slot # s => (Fits(d) => Fits(d)') /\ (Settled(d.slot) => Settled(d.slot)')
  <2>1. \A d \in Cmd : d.slot \in Slots
    BY DEF Cmd
  <2> QED
    BY <1>a, <2>1, KeepsFit
<1>4. Fits(c)'
  <2>1. CASE c.caller = "boot" /\ UNCHANGED << requestRadioPower, crossed >>
    <3>1. Settled(s)
      BY DEF IdleSettled
    <3>2. Settled(c.slot)'
      BY <2>1, <3>1 DEF Settled
    <3> QED
      BY <2>1, <3>2 DEF Fits, Asked
  <2>2. CASE c.caller = "framework" /\ requestRadioPower' = [requestRadioPower EXCEPT ![s] = c.on]
    <3>1. requestRadioPower'[s] = c.on
      BY <2>2 DEF RadioTypes
    <3> QED
      BY <2>2, <3>1 DEF Fits, Asked
  <2> QED
    BY <2>1, <2>2
<1>5. \A t \in Slots : t # s /\ Settled(t) => Settled(t)'
  BY <1>a DEF Settled
<1>6. ASSUME NEW i \in DOMAIN answers'
      PROVE  Fits(answers[i].cmd)' /\ (answers[i].ok => Settled(answers[i].cmd.slot))'
  <2>1. answers[i] \in Answer
    BY <1>2
  <2>2. PICK d \in Cmd : d = answers[i].cmd
    BY <2>1 DEF Answer
  <2>3. d.slot # s /\ Fits(d) /\ (answers[i].ok => Settled(d.slot))
    BY <1>1, <2>1, <2>2 DEF AllFit, AnswersOf
  <2>4. Fits(d)' /\ (answers[i].ok => Settled(d.slot)')
    BY <1>3, <2>3
  <2> QED
    BY <2>2, <2>4 DEF Fits, Asked, Settled
<1>7. ASSUME NEW i \in DOMAIN timers' PROVE Fits(timers[i])'
  <2>1. PICK d \in Cmd : d = timers[i]
    BY <1>2
  <2>2. d.slot # s /\ Fits(d)
    BY <1>1, <1>2, <2>1 DEF TimersOf, AllFit
  <2>3. Fits(d)'
    BY <1>3, <2>2
  <2> QED
    BY <2>1, <2>3 DEF Fits, Asked, Settled
<1>8. ASSUME NEW t \in Slots, NEW i \in DOMAIN cmds'[t] PROVE Fits(cmds[t][i])'
  <2>1. CASE t = s
    <3>1. cmds'[t][i] = c
      BY <1>1, <2>1
    <3> QED
      BY <3>1, <1>4 DEF Fits, Asked, Settled
  <2>2. CASE t # s
    <3>1. cmds'[t] = cmds[t]
      BY <1>2, <2>2
    <3>2. PICK d \in Cmd : d = cmds[t][i]
      BY <1>2, <3>1
    <3>3. d.slot = t /\ Fits(d)
      BY <3>1, <3>2 DEF ChannelServes, AllFit
    <3>4. Fits(d)'
      BY <1>3, <2>2, <3>3
    <3> QED
      BY <3>1, <3>2, <3>4 DEF Fits, Asked, Settled
  <2> QED
    BY <2>1, <2>2
<1>9. AllFit'
  BY <1>6, <1>7, <1>8 DEF AllFit
<1>10. IdleSettled'
  <2>1. \A t \in Slots : radioLock'[t] = "idle" => t # s /\ radioLock[t] = "idle"
    BY DEF RadioTypes
  <2> QED
    BY <2>1, <1>5 DEF IdleSettled
<1> QED
  BY <1>9, <1>10

(* The request of the channel goes to the answers, what is said of every request holds
   after the step, and the slot is settled if it succeeded. *)
LEMMA ServedFits ==
  ASSUME RadioTypes, ChannelServes, OneEach, AllFit, IdleSettled,
         NEW s \in Slots, NEW ok \in BOOLEAN, cmds[s] # << >>, Served(s, ok),
         radioLock' = radioLock, timers' = timers,
         \A c \in Cmd : Fits(c) /\ UnderWay(c.slot) /\ (c.slot = s => c = Head(cmds[s])) =>
           Fits(c)' /\ (c.slot # s /\ Settled(c.slot) => Settled(c.slot)'),
         ok => Settled(s)',
         \A t \in Slots : radioLock[t] = "idle" => Settled(t)'
  PROVE  AllFit' /\ IdleSettled'
<1> DEFINE a == [cmd |-> Head(cmds[s]), ok |-> ok]
<1>1. answers' = Append(answers, a) /\ cmds' = [cmds EXCEPT ![s] = Tail(@)]
  BY DEF Served
<1>2. /\ Head(cmds[s]) \in Cmd /\ 1 \in DOMAIN cmds[s] /\ Head(cmds[s]) = cmds[s][1]
      /\ Head(cmds[s]).slot = s
  BY ServedServes
<1>3. cmds'[s] = << >> /\ AnswersOf(answers, s) = {} /\ TimersOf(timers, s) = {}
  BY ServedAlone
<1>4. /\ a \in Answer /\ answers \in Seq(Answer) /\ timers \in Seq(Cmd) /\ cmds \in [Slots -> Seq(Cmd)]
      /\ a.cmd \in Cmd /\ a.cmd.slot = s /\ a.ok = ok
  BY <1>2 DEF Answer, RadioTypes
<1>c. PICK c \in Cmd : c = Head(cmds[s])
  BY <1>2
<1>5. c.slot = s /\ Fits(c)' /\ a = [cmd |-> c, ok |-> ok]
  <2>1. Fits(c) /\ UnderWay(c.slot)
    BY <1>c, <1>2 DEF AllFit, UnderWay
  <2> QED
    BY <1>c, <1>2, <2>1
<1> HIDE DEF a
<1>6. \A i \in DOMAIN answers' : answers'[i] = a \/ \E j \in DOMAIN answers : answers'[i] = answers[j]
  BY <1>1, <1>4, AnswersAppend
<1>7. ASSUME NEW i \in DOMAIN answers'
      PROVE  Fits(answers[i].cmd)' /\ (answers[i].ok => Settled(answers[i].cmd.slot))'
  <2>1. CASE answers'[i] = a
    <3>1. answers'[i].cmd = c /\ answers'[i].ok = ok
      BY <1>5, <2>1
    <3>2. Fits(c)' /\ (ok => Settled(c.slot)')
      BY <1>5
    <3> QED
      BY <3>1, <3>2 DEF Fits, Asked, Settled
  <2>2. CASE \E j \in DOMAIN answers : answers'[i] = answers[j]
    <3>1. PICK j \in DOMAIN answers : answers'[i] = answers[j]
      BY <2>2
    <3>2. PICK d \in Cmd : d = answers[j].cmd
      <4>1. answers[j] \in Answer
        BY <1>4
      <4> QED
        BY <4>1 DEF Answer
    <3>3. Fits(d) /\ UnderWay(d.slot) /\ d.slot # s /\ (answers[j].ok => Settled(d.slot))
      BY <1>3, <3>2 DEF AllFit, AnswersOf, UnderWay
    <3>4. Fits(d)' /\ (answers[j].ok => Settled(d.slot)')
      BY <3>3
    <3> QED
      BY <3>1, <3>2, <3>4 DEF Fits, Asked, Settled
  <2> QED
    BY <1>6, <2>1, <2>2
<1>8. ASSUME NEW t \in Slots, NEW i \in DOMAIN cmds'[t] PROVE Fits(cmds[t][i])'
  <2>1. t # s
    BY <1>3
  <2>2. cmds'[t] = cmds[t]
    BY <1>1, <1>4, <2>1
  <2>3. PICK d \in Cmd : d = cmds[t][i]
    BY <1>4, <2>2
  <2>4. Fits(d) /\ d.slot = t /\ cmds[t] # << >>
    BY <2>2, <2>3 DEF AllFit, ChannelServes
  <2>5. Fits(d)'
    BY <2>1, <2>4 DEF UnderWay
  <2> QED
    BY <2>2, <2>3, <2>5 DEF Fits, Asked, Settled
<1>9. ASSUME NEW i \in DOMAIN timers' PROVE Fits(timers[i])'
  <2>1. PICK d \in Cmd : d = timers[i]
    BY <1>4
  <2>2. Fits(d) /\ UnderWay(d.slot) /\ d.slot # s
    BY <1>3, <2>1 DEF AllFit, UnderWay, TimersOf
  <2>3. Fits(d)'
    BY <2>2
  <2> QED
    BY <2>1, <2>3 DEF Fits, Asked, Settled
<1>10. IdleSettled'
  BY DEF IdleSettled
<1> QED
  BY <1>7, <1>8, <1>9, <1>10 DEF AllFit

(* A failed EFUN, and a boot that has nothing to do: the request goes to the answers as
   it was, and no key changes.  The slot of the boot was settled before. *)
LEMMA FailFits ==
  ASSUME RadioTypes, ChannelServes, OneEach, AllFit, IdleSettled,
         NEW s \in Slots, EfunFails(s) \/ BootSkipped(s)
  PROVE  OneEach' /\ AllFit' /\ IdleSettled'
<1>1. PICK ok \in BOOLEAN : Served(s, ok) /\ (ok => Head(cmds[s]).caller = "boot")
  BY DEF EfunFails, BootSkipped
<1>2. cmds[s] # << >>
  BY DEF EfunFails, BootSkipped, ChannelServes
<1>3. UNCHANGED << radioLock, requestRadioPower, msimMode, timers, crossed >>
  BY DEF EfunFails, BootSkipped, keyVars, efunVars
<1>4. \A c \in Cmd : (Fits(c) => Fits(c)') /\ (Settled(c.slot) => Settled(c.slot)')
  BY <1>3, KeepsFit
<1>5. \A t \in Slots : Settled(t) => Settled(t)'
  BY <1>3 DEF Settled
<1>6. ok => Settled(s)'
  <2>1. Fits(Head(cmds[s])) /\ Head(cmds[s]).slot = s
    BY <1>1, <1>2, ServedServes DEF AllFit
  <2>2. ok => Settled(s)
    BY <1>1, <2>1 DEF Fits, Asked
  <2> QED
    BY <1>5, <2>2
<1>7. \A t \in Slots : radioLock[t] = "idle" => Settled(t)'
  BY <1>5 DEF IdleSettled
<1>8. OneEach'
  BY <1>1, <1>2, <1>3, ServedAlone
<1>9. AllFit' /\ IdleSettled'
  BY <1>1, <1>2, <1>3, <1>4, <1>6, <1>7, ServedFits
<1> QED
  BY <1>8, <1>9

(* A successful EFUN: the mode stored of the slot is the one the request carries, so the
   one last asked of it.  BOOT_TURN_ON stores the mode of every slot; it requests what it
   turns on, and crosses the requests under way and those it turns off. *)
LEMMA DoneFits ==
  ASSUME RadioTypes, ChannelServes, OneEach, AllFit, IdleSettled, NEW s \in Slots, EfunDone(s)
  PROVE  OneEach' /\ AllFit' /\ IdleSettled'
<1>1. Served(s, TRUE) /\ radioLock' = radioLock /\ timers' = timers
  BY DEF EfunDone
<1>2. cmds[s] # << >>
  BY DEF EfunDone, ChannelServes
<1>3. /\ Head(cmds[s]) \in Cmd /\ Head(cmds[s]).slot = s /\ Fits(Head(cmds[s]))
  BY <1>1, <1>2, ServedServes DEF AllFit
<1>4. OneEach'
  BY <1>1, <1>2, ServedAlone
<1>5. CASE Head(cmds[s]).caller = "boot"
  <2> DEFINE mode == Head(efun[s])
  <2>1. /\ msimMode' = [t \in Slots |-> t \in mode]
        /\ requestRadioPower' = [t \in Slots |-> t \in mode \/ requestRadioPower[t]]
        /\ crossed' = {t \in Slots : (t # s /\ UnderWay(t)) \/ (requestRadioPower[t] /\ t \notin mode)}
    BY <1>5 DEF EfunDone, StoredMode
  <2> HIDE DEF mode
  <2>2. \A t \in Slots : Settled(t)'
    BY <2>1 DEF Settled
  <2>3. ASSUME NEW c \in Cmd, Fits(c), UnderWay(c.slot), c.slot = s => c = Head(cmds[s])
        PROVE  Fits(c)'
    <3>1. c.slot \in Slots
      BY DEF Cmd
    <3>2. CASE c.caller = "boot"
      BY <2>2, <3>1, <3>2 DEF Fits, Asked
    <3>3. CASE c.caller = "framework"
      <4>1. c.on => requestRadioPower'[c.slot]
        BY <2>1, <2>3, <3>1, <3>3 DEF Fits, Asked
      <4>2. c.slot # s => c.slot \in crossed'
        BY <2>1, <2>3, <3>1
      <4>3. c.slot # s
        BY <1>5, <2>3, <3>3
      <4> QED
        BY <3>3, <4>1, <4>2, <4>3 DEF Fits, Asked
    <3> QED
      BY <2>3, <3>2, <3>3 DEF Fits
  <2>4. AllFit' /\ IdleSettled'
    BY <1>1, <1>2, <2>2, <2>3, ServedFits DEF Cmd
  <2> QED
    BY <1>4, <2>4
<1>6. CASE Head(cmds[s]).caller # "boot"
  <2>1. msimMode' = [msimMode EXCEPT ![s] = Head(cmds[s]).on] /\ UNCHANGED << requestRadioPower, crossed >>
    BY <1>6 DEF EfunDone, StoredMode
  <2>2. Settled(s)'
    <3>1. /\ s \in crossed \/ requestRadioPower[s] = Head(cmds[s]).on
          /\ Head(cmds[s]).on => requestRadioPower[s]
      BY <1>3, <1>6 DEF Fits, Asked
    <3>2. msimMode'[s] = Head(cmds[s]).on
      BY <2>1 DEF RadioTypes
    <3> QED
      BY <2>1, <3>1, <3>2 DEF Settled
  <2>3. \A t \in Slots : Settled(t) => Settled(t)'
    <3>1. \A t \in Slots : t # s => msimMode'[t] = msimMode[t]
      BY <2>1 DEF RadioTypes
    <3> QED
      BY <2>1, <2>2, <3>1 DEF Settled
  <2>4. \A c \in Cmd : Fits(c) => Fits(c)'
    <3>1. \A c \in Cmd : c.slot \in Slots
      BY DEF Cmd
    <3> QED
      BY <2>1, <2>3, <3>1 DEF Fits, Asked
  <2>5. AllFit' /\ IdleSettled'
    <3>1. \A t \in Slots : radioLock[t] = "idle" => Settled(t)'
      BY <2>3 DEF IdleSettled
    <3>2. \A c \in Cmd : c.slot \in Slots
      BY DEF Cmd
    <3> QED
      BY <1>1, <1>2, <2>2, <2>3, <2>4, <3>1, <3>2, ServedFits
  <2> QED
    BY <1>4, <2>5
<1> QED
  BY <1>5, <1>6

(* A failed request waits for its retry as it was (handleRadioPowerResponse). *)
LEMMA RetryFits ==
  ASSUME RadioTypes, AllFit, IdleSettled, RetryRadioPower
  PROVE  AllFit' /\ IdleSettled'
<1> DEFINE c == Head(answers).cmd
<1>1. /\ answers # << >> /\ answers \in Seq(Answer) /\ timers \in Seq(Cmd)
      /\ answers' = Tail(answers) /\ timers' = Append(timers, c) /\ cmds' = cmds
      /\ radioLock' = [radioLock EXCEPT ![c.slot] = "radio"]
  BY DEF RetryRadioPower, RadioTypes
<1>2. UNCHANGED << requestRadioPower, msimMode, crossed >>
  BY DEF RetryRadioPower, efunVars
<1>3. c \in Cmd /\ Fits(c)
  <2>1. Head(answers) \in Answer /\ 1 \in DOMAIN answers /\ Head(answers) = answers[1]
    BY <1>1, AnswersTail
  <2> QED
    BY <2>1 DEF Answer, AllFit
<1> HIDE DEF c
<1>4. ASSUME NEW i \in DOMAIN answers'
      PROVE  Fits(answers[i].cmd)' /\ (answers[i].ok => Settled(answers[i].cmd.slot))'
  <2>1. PICK j \in DOMAIN answers : answers'[i] = answers[j]
    BY <1>1, AnswersTail
  <2>2. Fits(answers[j].cmd) /\ (answers[j].ok => Settled(answers[j].cmd.slot))
    BY DEF AllFit
  <2> QED
    BY <1>2, <2>1, <2>2 DEF Fits, Asked, Settled
<1>5. ASSUME NEW i \in DOMAIN timers' PROVE Fits(timers[i])'
  <2>1. timers'[i] = c \/ \E j \in DOMAIN timers : timers'[i] = timers[j]
    BY <1>1, <1>3, TimersAppend
  <2>2. Fits(timers'[i])
    BY <1>3, <2>1 DEF AllFit
  <2> QED
    BY <1>2, <2>2 DEF Fits, Asked, Settled
<1>6. ASSUME NEW t \in Slots, NEW i \in DOMAIN cmds'[t] PROVE Fits(cmds[t][i])'
  BY <1>1, <1>2 DEF AllFit, Fits, Asked, Settled
<1>7. IdleSettled'
  <2>1. \A t \in Slots : radioLock'[t] = "idle" => radioLock[t] = "idle"
    BY <1>1 DEF RadioTypes
  <2> QED
    BY <1>2, <2>1 DEF IdleSettled, Settled
<1> QED
  BY <1>4, <1>5, <1>6, <1>7 DEF AllFit

(* The retry sends the same request again. *)
LEMMA TimerFits ==
  ASSUME RadioTypes, AllFit, IdleSettled, RetryTimer
  PROVE  AllFit' /\ IdleSettled'
<1> DEFINE c == Head(timers)
<1>1. /\ timers # << >> /\ timers \in Seq(Cmd) /\ timers' = Tail(timers)
      /\ cmds' = [cmds EXCEPT ![c.slot] = Append(@, c)] /\ answers' = answers
  BY DEF RetryTimer, RadioTypes
<1>2. UNCHANGED << radioLock, requestRadioPower, msimMode, crossed >>
  BY DEF RetryTimer, keyVars, efunVars
<1>3. c \in Cmd /\ c.slot \in Slots /\ Fits(c)
  <2>1. Head(timers) \in Cmd /\ 1 \in DOMAIN timers /\ Head(timers) = timers[1]
    BY <1>1, TimersTail
  <2> QED
    BY <2>1 DEF Cmd, AllFit
<1> HIDE DEF c
<1>4. ASSUME NEW i \in DOMAIN timers' PROVE Fits(timers[i])'
  <2>1. PICK j \in DOMAIN timers : timers'[i] = timers[j]
    BY <1>1, TimersTail
  <2>2. Fits(timers[j])
    BY DEF AllFit
  <2> QED
    BY <1>2, <2>1, <2>2 DEF Fits, Asked, Settled
<1>5. ASSUME NEW i \in DOMAIN answers'
      PROVE  Fits(answers[i].cmd)' /\ (answers[i].ok => Settled(answers[i].cmd.slot))'
  <2>1. Fits(answers[i].cmd) /\ (answers[i].ok => Settled(answers[i].cmd.slot))
    BY <1>1 DEF AllFit
  <2> QED
    BY <1>1, <1>2, <2>1 DEF Fits, Asked, Settled
<1>6. ASSUME NEW t \in Slots, NEW i \in DOMAIN cmds'[t] PROVE Fits(cmds[t][i])'
  <2>1. cmds'[t] = IF t = c.slot THEN Append(cmds[t], c) ELSE cmds[t]
    BY <1>1, <1>3 DEF RadioTypes
  <2>2. cmds[t] \in Seq(Cmd)
    BY DEF RadioTypes
  <2>3. cmds'[t][i] = c \/ \E j \in DOMAIN cmds[t] : cmds'[t][i] = cmds[t][j]
    BY <1>3, <2>1, <2>2, ChannelElements
  <2>4. Fits(cmds'[t][i])
    BY <1>3, <2>3 DEF AllFit
  <2> QED
    BY <1>2, <2>4 DEF Fits, Asked, Settled
<1>7. IdleSettled'
  BY <1>2 DEF IdleSettled, Settled
<1> QED
  BY <1>4, <1>5, <1>6, <1>7 DEF AllFit

(* A success unlocks the slot, which is settled. *)
LEMMA AnswerFits ==
  ASSUME RadioTypes, AllFit, IdleSettled, AnswerRadioPower
  PROVE  AllFit' /\ IdleSettled'
<1> DEFINE c == Head(answers).cmd
<1>1. /\ answers # << >> /\ answers \in Seq(Answer) /\ Head(answers).ok
      /\ answers' = Tail(answers) /\ timers' = timers /\ cmds' = cmds
      /\ radioLock' = [radioLock EXCEPT ![c.slot] = "idle"]
  BY DEF AnswerRadioPower, Answered, Unlocked, RadioTypes
<1>2. UNCHANGED << requestRadioPower, msimMode, crossed >>
  BY DEF AnswerRadioPower, efunVars
<1>3. Settled(c.slot)
  <2>1. 1 \in DOMAIN answers /\ Head(answers) = answers[1]
    BY <1>1, AnswersTail
  <2> QED
    BY <1>1, <2>1 DEF AllFit
<1> HIDE DEF c
<1>4. ASSUME NEW i \in DOMAIN answers'
      PROVE  Fits(answers[i].cmd)' /\ (answers[i].ok => Settled(answers[i].cmd.slot))'
  <2>1. PICK j \in DOMAIN answers : answers'[i] = answers[j]
    BY <1>1, AnswersTail
  <2>2. Fits(answers[j].cmd) /\ (answers[j].ok => Settled(answers[j].cmd.slot))
    BY DEF AllFit
  <2> QED
    BY <1>2, <2>1, <2>2 DEF Fits, Asked, Settled
<1>5. ASSUME NEW i \in DOMAIN timers' PROVE Fits(timers[i])'
  BY <1>1, <1>2 DEF AllFit, Fits, Asked, Settled
<1>6. ASSUME NEW t \in Slots, NEW i \in DOMAIN cmds'[t] PROVE Fits(cmds[t][i])'
  BY <1>1, <1>2 DEF AllFit, Fits, Asked, Settled
<1>7. IdleSettled'
  <2>1. \A t \in Slots : radioLock'[t] = "idle" => t = c.slot \/ radioLock[t] = "idle"
    BY <1>1 DEF RadioTypes
  <2> QED
    BY <1>2, <1>3, <2>1 DEF IdleSettled, Settled
<1> QED
  BY <1>4, <1>5, <1>6, <1>7 DEF AllFit

-----------------------------------------------------------------------------
(* The invariant and the properties *)

(* A step that leaves locks, keys and requests alone, or only takes a lock, keeps
   the parts that speak of them. *)
LEMMA Untouched ==
  ASSUME RadioTypes, OneEach, AllFit, IdleSettled,
         UNCHANGED << requestRadioPower, msimMode, cmds, answers, timers, crossed >>,
         \/ radioLock' = radioLock
         \/ \E s \in Slots : radioLock' = [radioLock EXCEPT ![s] = "radio"]
  PROVE  OneEach' /\ AllFit' /\ IdleSettled'
<1>1. \A t \in Slots : /\ radioLock[t] = "radio" => radioLock'[t] = "radio"
                       /\ radioLock'[t] = "idle" => radioLock[t] = "idle"
  BY DEF RadioTypes
<1>2. OneEach'
  BY <1>1 DEF OneEach, OneUnderWay, LockKept, UnderWay
<1>3. AllFit'
  BY DEF AllFit, Fits, Asked, Settled
<1>4. IdleSettled'
  BY <1>1 DEF IdleSettled, Settled
<1> QED
  BY <1>2, <1>3, <1>4

(* Every step keeps one request a slot, its lock, and the power it is for. *)
LEMMA PowerStep ==
  ASSUME RadioTypes, ChannelServes, OneEach, AllFit, IdleSettled, MaxData = 0, Next
  PROVE  OneEach' /\ AllFit' /\ IdleSettled'
<1>1. ASSUME NEW s \in Slots, RequestRadioPower(s) PROVE OneEach' /\ AllFit' /\ IdleSettled'
  <2>1. /\ radioLock[s] = "idle" /\ radioLock' = [radioLock EXCEPT ![s] = "radio"]
        /\ UNCHANGED << msimMode, answers, timers >>
    BY <1>1 DEF RequestRadioPower, CanHandleRequest
  <2>2. CASE modemPowerOff \/ hadPowerOffMd
    <3>1. UNCHANGED << requestRadioPower, cmds, crossed >>
      BY <1>1, <2>2 DEF RequestRadioPower
    <3> QED
      BY <2>1, <3>1, Untouched
  <2>3. CASE ~(modemPowerOff \/ hadPowerOffMd)
    <3> DEFINE c == PowerCmd(s, Head(toRadio[s]), "framework")
    <3>1. Head(toRadio[s]) \in BOOLEAN
      BY <1>1 DEF RequestRadioPower, RadioTypes
    <3>2. /\ c \in Cmd /\ c.slot = s /\ c.caller = "framework" /\ c.on = Head(toRadio[s])
      BY <3>1, PowerCmdType DEF Callers
    <3>3. /\ cmds' = [cmds EXCEPT ![s] = Append(@, c)]
          /\ requestRadioPower' = [requestRadioPower EXCEPT ![s] = Head(toRadio[s])]
          /\ crossed' = crossed \ {s}
      BY <1>1, <2>3 DEF RequestRadioPower
    <3> HIDE DEF c
    <3>5. PICK d \in Cmd : d = c
      BY <3>2
    <3>d. /\ d.slot = s /\ d.caller = "framework" /\ cmds' = [cmds EXCEPT ![s] = Append(@, d)]
          /\ requestRadioPower' = [requestRadioPower EXCEPT ![s] = d.on]
          /\ crossed' = crossed \ {s}
      BY <3>2, <3>3, <3>5
    <3>6. OneEach'
      BY <2>1, <3>d, SendAlone
    <3>7. AllFit' /\ IdleSettled'
      BY <2>1, <3>d, SendFits
    <3> QED
      BY <3>6, <3>7
  <2> QED
    BY <2>2, <2>3
<1>2. ASSUME NEW s \in Slots, OnSimStateChanged(s) PROVE OneEach' /\ AllFit' /\ IdleSettled'
  <2>1. UNCHANGED << requestRadioPower, msimMode, answers, timers, crossed >>
    BY <1>2 DEF OnSimStateChanged, efunVars
  <2>2. CASE cardType' = Slots /\ radioLock[s] = "idle"
    <3>1. PICK cards \in SUBSET Slots : cmds' = [cmds EXCEPT ![s] = Append(@, BootCmd(s, cards))]
      BY <1>2, <2>2 DEF OnSimStateChanged
    <3>2. PICK c \in Cmd : c = BootCmd(s, cards) /\ c.slot = s /\ c.caller = "boot"
      BY BootCmdType
    <3>3. radioLock' = [radioLock EXCEPT ![s] = "radio"] /\ cmds' = [cmds EXCEPT ![s] = Append(@, c)]
      BY <1>2, <2>2, <3>1, <3>2 DEF OnSimStateChanged
    <3>4. OneEach'
      BY <2>1, <2>2, <3>3, SendAlone
    <3>5. AllFit' /\ IdleSettled'
      BY <2>1, <2>2, <3>2, <3>3, SendFits
    <3> QED
      BY <3>4, <3>5
  <2>3. CASE ~(cardType' = Slots /\ radioLock[s] = "idle")
    <3>1. UNCHANGED << radioLock, cmds >>
      BY <1>2, <2>3 DEF OnSimStateChanged
    <3> QED
      BY <2>1, <3>1, Untouched
  <2> QED
    BY <2>2, <2>3
<1>3. ASSUME NEW s \in Slots, EfunDone(s) PROVE OneEach' /\ AllFit' /\ IdleSettled'
  BY <1>3, DoneFits
<1>4. ASSUME NEW s \in Slots, EfunFails(s) \/ BootSkipped(s) PROVE OneEach' /\ AllFit' /\ IdleSettled'
  BY <1>4, FailFits
<1>5. ASSUME RetryRadioPower PROVE OneEach' /\ AllFit' /\ IdleSettled'
  BY <1>5, RetryAlone, RetryFits
<1>6. ASSUME RetryTimer PROVE OneEach' /\ AllFit' /\ IdleSettled'
  BY <1>6, TimerAlone, TimerFits
<1>7. ASSUME AnswerRadioPower PROVE OneEach' /\ AllFit' /\ IdleSettled'
  BY <1>7, AnswerAlone, AnswerFits
<1>8. ASSUME NEW s \in Slots, SendEfun(s) PROVE OneEach' /\ AllFit' /\ IdleSettled'
  <2>1. UNCHANGED << radioLock, requestRadioPower, msimMode, cmds, answers, timers, crossed >>
    BY <1>8 DEF SendEfun, keyVars, efunVars
  <2> QED
    BY <2>1, Untouched
<1>9. ASSUME NEW s \in Slots, NEW on \in BOOLEAN, FrameworkPower(s, on)
      PROVE  OneEach' /\ AllFit' /\ IdleSettled'
  <2>1. UNCHANGED << radioLock, requestRadioPower, msimMode, cmds, answers, timers, crossed >>
    BY <1>9 DEF FrameworkPower, keyVars, efunVars
  <2> QED
    BY <2>1, Untouched
<1>10. ASSUME PowerOffModem PROVE OneEach' /\ AllFit' /\ IdleSettled'
  <2>1. UNCHANGED << radioLock, requestRadioPower, msimMode, cmds, answers, timers, crossed >>
    BY <1>10 DEF PowerOffModem, queueVars, efunVars
  <2> QED
    BY <2>1, Untouched
<1>11. ~OnAttachOrDetachDone
  <2>1. SUFFICES ASSUME answers # << >> PROVE Head(answers).cmd.caller \in {"framework", "boot"}
    BY DEF OnAttachOrDetachDone, Answered
  <2>2. 1 \in DOMAIN answers /\ Head(answers) = answers[1]
    BY <2>1, AnswersTail DEF RadioTypes
  <2> QED
    BY <2>2 DEF AllFit, Fits
<1>12. \A s \in Slots, on \in BOOLEAN : ~DataConnection(s, on)
  BY DEF DataConnection, RadioTypes
<1> QED
  BY <1>1, <1>2, <1>3, <1>4, <1>5, <1>6, <1>7, <1>8, <1>9, <1>10, <1>11, <1>12
     DEF Next, Steps, RadioProgress, RadioInput

-----------------------------------------------------------------------------
(* The mask of AT+EFUN *)

(* A request more does not change the first. *)
LEMMA HeadStays ==
  ASSUME NEW q \in Seq(Cmd), q # << >>, NEW c \in Cmd
  PROVE  Head(Append(q, c)) = Head(q)
<1>1. Len(q) \in Nat \ {0} /\ Head(q) = q[1]
  BY EmptySeq
<1>2. Append(q, c) # << >> /\ Append(q, c)[1] = q[1]
  BY <1>1
<1> QED
  BY <1>1, <1>2

(* A step that leaves the modem, the stored mode, the commands that run and their
   requests alone. *)
LEMMA MaskKept ==
  ASSUME ChannelServes, MaskRight,
         UNCHANGED << modemOn, msimMode, modemPowerOff, undone, stale, efun >>,
         \A s \in Slots : cmds[s] # << >> => Head(cmds'[s]) = Head(cmds[s])
  PROVE  MaskRight'
<1>1. ModemFollows'
  BY DEF MaskRight, ModemFollows
<1>2. ASSUME NEW s \in Slots, efun[s] # << >>, Head(cmds'[s]).caller # "boot", s \notin stale
      PROVE  Head(efun[s]) = Mask(s)'
  <2>1. Head(cmds'[s]) = Head(cmds[s])
    BY <1>2 DEF ChannelServes
  <2>2. Head(efun[s]) = Mask(s)
    BY <1>2, <2>1 DEF MaskRight
  <2> QED
    BY <2>1, <2>2 DEF Mask
<1> QED
  BY <1>1, <1>2 DEF MaskRight

(* Every step keeps the masks right: those a command makes stale are marked. *)
LEMMA MaskStep ==
  ASSUME RadioTypes, ChannelServes, MaskRight, Next
  PROVE  MaskRight'
<1>0. /\ cmds \in [Slots -> Seq(Cmd)] /\ efun \in [Slots -> Seq(SUBSET Slots)]
      /\ msimMode \in [Slots -> BOOLEAN]
  BY DEF RadioTypes
<1>1. ASSUME NEW s \in Slots, NEW c \in Cmd, cmds' = [cmds EXCEPT ![s] = Append(@, c)]
      PROVE  \A t \in Slots : cmds[t] # << >> => Head(cmds'[t]) = Head(cmds[t])
  BY <1>0, <1>1, HeadStays
<1>2. ASSUME NEW s \in Slots, RequestRadioPower(s) PROVE MaskRight'
  <2>1. UNCHANGED << modemOn, msimMode, modemPowerOff, undone, stale, efun >>
    BY <1>2 DEF RequestRadioPower
  <2>2. Head(toRadio[s]) \in BOOLEAN
    BY <1>2 DEF RequestRadioPower, RadioTypes
  <2>3. cmds' = cmds \/ \E c \in Cmd : cmds' = [cmds EXCEPT ![s] = Append(@, c)]
    <3>1. PowerCmd(s, Head(toRadio[s]), "framework") \in Cmd
      BY <2>2, PowerCmdType DEF Callers
    <3> QED
      BY <1>2, <3>1 DEF RequestRadioPower
  <2> QED
    BY <1>1, <2>1, <2>3, MaskKept
<1>3. ASSUME NEW s \in Slots, OnSimStateChanged(s) PROVE MaskRight'
  <2>1. UNCHANGED << modemOn, msimMode, modemPowerOff, undone, stale, efun >>
    BY <1>3 DEF OnSimStateChanged, efunVars
  <2>2. \A cards \in SUBSET Slots : BootCmd(s, cards) \in Cmd
    BY BootCmdType
  <2>3. cmds' = cmds \/ \E c \in Cmd : cmds' = [cmds EXCEPT ![s] = Append(@, c)]
    BY <1>3, <2>2 DEF OnSimStateChanged
  <2> QED
    BY <1>1, <2>1, <2>3, MaskKept
<1>4. ASSUME RetryTimer PROVE MaskRight'
  <2>1. UNCHANGED << modemOn, msimMode, modemPowerOff, undone, stale, efun >>
    BY <1>4 DEF RetryTimer, keyVars, efunVars
  <2>2. Head(timers) \in Cmd /\ Head(timers).slot \in Slots
    <3>1. Head(timers) \in Cmd
      BY <1>4 DEF RetryTimer, RadioTypes
    <3> QED
      BY <3>1 DEF Cmd
  <2>3. \A t \in Slots : cmds[t] # << >> => Head(cmds'[t]) = Head(cmds[t])
    BY <1>1, <1>4, <2>2 DEF RetryTimer
  <2> QED
    BY <2>1, <2>3, MaskKept
<1>5. ASSUME NEW s \in Slots, NEW on \in BOOLEAN, DataConnection(s, on) PROVE MaskRight'
  <2>1. UNCHANGED << modemOn, msimMode, modemPowerOff, undone, stale, efun >>
    BY <1>5 DEF DataConnection, efunVars
  <2>2. ASSUME NEW t \in Slots, cmds[t] # << >> PROVE Head(cmds'[t]) = Head(cmds[t])
    <3> DEFINE c == PowerCmd(t, t \in (IF on THEN {s} ELSE {}), IF on THEN "attach" ELSE "detach")
    <3>1. cmds'[t] = cmds[t] \/ cmds'[t] = Append(cmds[t], c)
      BY <1>0, <1>5 DEF DataConnection, ModuleRequestRadioPower
    <3>2. c \in Cmd
      <4>1. (t \in (IF on THEN {s} ELSE {})) \in BOOLEAN /\ (IF on THEN "attach" ELSE "detach") \in Callers
        BY DEF Callers
      <4> QED
        BY <4>1, PowerCmdType
    <3> HIDE DEF c
    <3> QED
      BY <1>0, <2>2, <3>1, <3>2, HeadStays
  <2> QED
    BY <2>1, <2>2, MaskKept
<1>6. ASSUME UNCHANGED << modemOn, msimMode, modemPowerOff, efunVars, cmds, efun >> PROVE MaskRight'
  BY <1>6, MaskKept DEF efunVars
<1>7. ASSUME NEW s \in Slots, SendEfun(s) PROVE MaskRight'
  <2>1. UNCHANGED << modemOn, msimMode, modemPowerOff, undone, stale, cmds >>
    BY <1>7 DEF SendEfun, keyVars, efunVars
  <2>2. PICK mode \in TargetModes(Head(cmds[s])) : efun' = [efun EXCEPT ![s] = << mode >>]
    BY <1>7 DEF SendEfun
  <2>3. Head(cmds[s]).slot = s
    BY <1>0, <1>7, ChannelLists DEF SendEfun, ChannelServes
  <2>4. Head(cmds[s]).caller # "boot" => mode = Mask(s)
    BY <2>2, <2>3 DEF TargetModes, Mask
  <2>5. Head(efun'[s]) = mode /\ \A t \in Slots : t # s => efun'[t] = efun[t]
    BY <1>0, <2>2
  <2>6. \A t \in Slots : Mask(t)' = Mask(t)
    BY <2>1 DEF Mask
  <2> QED
    BY <2>1, <2>4, <2>5, <2>6 DEF MaskRight, ModemFollows
<1>8. ASSUME NEW s \in Slots, EfunFails(s) \/ BootSkipped(s) PROVE MaskRight'
  <2>1. /\ UNCHANGED << modemOn, msimMode, modemPowerOff, undone >> /\ stale' \in {stale, stale \ {s}}
        /\ cmds' = [cmds EXCEPT ![s] = Tail(@)] /\ efun' = [efun EXCEPT ![s] = << >>]
    BY <1>8 DEF EfunFails, BootSkipped, Served, keyVars, efunVars
  <2>2. efun'[s] = << >> /\ \A t \in Slots : t # s => efun'[t] = efun[t] /\ cmds'[t] = cmds[t]
    BY <1>0, <2>1
  <2>3. \A t \in Slots : t # s => Mask(t)' = Mask(t)
    BY <2>1, <2>2 DEF Mask
  <2> QED
    BY <2>1, <2>2, <2>3 DEF MaskRight, ModemFollows
<1>9. ASSUME NEW s \in Slots, EfunDone(s) PROVE MaskRight'
  <2>1. /\ efun[s] # << >> /\ modemOn' = Head(efun[s]) /\ msimMode' = StoredMode(s)
        /\ stale' = {t \in Slots \ {s} : efun[t] # << >>} /\ undone' = (s \in stale)
        /\ UNCHANGED modemPowerOff
        /\ cmds' = [cmds EXCEPT ![s] = Tail(@)] /\ efun' = [efun EXCEPT ![s] = << >>]
    BY <1>9 DEF EfunDone, Served
  <2>2. \A t \in Slots : t \notin stale' => efun'[t] = << >>
    BY <1>0, <2>1
  <2>3. ASSUME s \notin stale PROVE modemOn' = {t \in Slots : msimMode'[t]}
    <3>1. Head(efun[s]) \subseteq Slots
      BY <1>0, <2>1
    <3>2. CASE Head(cmds[s]).caller = "boot"
      BY <2>1, <3>1, <3>2 DEF StoredMode
    <3>3. CASE Head(cmds[s]).caller # "boot"
      <4>1. Head(efun[s]) = Mask(s)
        BY <2>1, <2>3, <3>3 DEF MaskRight
      <4>2. msimMode' = [msimMode EXCEPT ![s] = Head(cmds[s]).on]
        BY <2>1, <3>3 DEF StoredMode
      <4> QED
        BY <1>0, <2>1, <4>1, <4>2 DEF Mask
    <3> QED
      BY <3>2, <3>3
  <2> QED
    BY <2>1, <2>2, <2>3 DEF MaskRight, ModemFollows
<1>10. ASSUME PowerOffModem PROVE MaskRight'
  <2>1. UNCHANGED << msimMode, efunVars, cmds, efun >>
    BY <1>10 DEF PowerOffModem, queueVars
  <2>2. ModemFollows'
    BY <1>10, <2>1 DEF PowerOffModem, MaskRight, ModemFollows, efunVars
  <2>3. \A t \in Slots : Mask(t)' = Mask(t)
    BY <2>1 DEF Mask
  <2> QED
    BY <2>1, <2>2, <2>3 DEF MaskRight, efunVars
<1> QED
  BY <1>2, <1>3, <1>4, <1>5, <1>6, <1>7, <1>8, <1>9, <1>10
     DEF Next, Steps, RadioProgress, RadioInput, RetryRadioPower, AnswerRadioPower, OnAttachOrDetachDone,
         FrameworkPower, keyVars

(* At boot every slot is idle and off, and nothing was asked. *)
LEMMA RadioInit ==
  ASSUME InitRadio
  PROVE  RadioInv
<1>1. /\ inst \in Instances /\ radioLock = [s \in Slots |-> "idle"]
      /\ requestRadioPower = [s \in Slots |-> FALSE] /\ msimMode = [s \in Slots |-> FALSE]
      /\ toRadio = [s \in Slots |-> << >>] /\ cmds = [s \in Slots |-> << >>]
      /\ efun = [s \in Slots |-> << >>] /\ answers = << >> /\ timers = << >>
      /\ datas = 0 /\ crossed = {} /\ replies = [s \in Slots |-> << >>]
      /\ modemOn = {}
  BY DEF InitRadio
<1>2. /\ << >> \in Seq(BOOLEAN) /\ << >> \in Seq(Cmd) /\ << >> \in Seq(SUBSET Slots)
      /\ << >> \in Seq(Answer) /\ << >> \in Seq({"success", "not_available"})
  BY EmptySeq
<1>3. RadioTypes
  BY <1>1, <1>2 DEF RadioTypes, Locks
<1>4. ChannelServes
  BY <1>1 DEF ChannelServes
<1>5. OneEach
  <2>1. \A s : AnswersOf(answers, s) = {} /\ TimersOf(timers, s) = {}
    BY <1>1 DEF AnswersOf, TimersOf
  <2>2. ASSUME NEW s \in Slots PROVE OneUnderWay(s) /\ ~UnderWay(s)
    <3>1. cmds[s] = << >> /\ Len(cmds[s]) <= 1
      BY <1>1, ShortList
    <3> QED
      BY <2>1, <3>1, UnderWayIs DEF OneUnderWay, AtMostOne
  <2> QED
    BY <2>2 DEF OneEach, LockKept
<1>6. AllFit /\ IdleSettled
  BY <1>1 DEF AllFit, IdleSettled, Settled
<1>7. MaskRight
  BY <1>1 DEF MaskRight, ModemFollows
<1> QED
  BY <1>3, <1>4, <1>5, <1>6, <1>7, FitsIs DEF RadioInv

(* Every step keeps the invariant. *)
LEMMA RadioStep ==
  ASSUME RadioInv, [Next]_radioVars
  PROVE  RadioInv'
<1>1. CASE Next
  <2>1. RadioTypes' /\ ChannelServes' /\ MaskRight'
    BY <1>1, TypesStep, MaskStep DEF RadioInv
  <2>2. MaxData' = MaxData
    BY <1>1 DEF Next, MaxData
  <2>3. ASSUME MaxData = 0 PROVE OneEach' /\ (NoData /\ PowerFollows)'
    <3>1. OneEach /\ AllFit /\ IdleSettled
      BY <2>3, FitsIs DEF RadioInv
    <3>2. OneEach' /\ AllFit' /\ IdleSettled'
      BY <1>1, <2>3, <3>1, PowerStep DEF RadioInv
    <3> QED
      BY <3>2, FitsIs
  <2> QED
    BY <2>1, <2>2, <2>3 DEF RadioInv
<1>2. CASE UNCHANGED radioVars
  <2>1. UNCHANGED << inst, radioLock, requestRadioPower, msimMode, toRadio, cmds, efun, answers, timers,
                     datas, crossed, replies, modemOn, modemPowerOff, stale, undone >>
    BY <1>2 DEF radioVars, keyVars, queueVars, boundVars, efunVars
  <2>a. MaskRight'
    BY <2>1, MaskKept DEF RadioInv
  <2>2. RadioTypes' /\ ChannelServes' /\ MaskRight'
    BY <2>1, <2>a DEF RadioInv, RadioTypes, ChannelServes
  <2>3. MaxData' = MaxData
    BY <2>1 DEF MaxData
  <2>4. ASSUME MaxData = 0 PROVE OneEach' /\ (NoData /\ PowerFollows)'
    <3>1. OneEach /\ AllFit /\ IdleSettled
      BY <2>4, FitsIs DEF RadioInv
    <3>2. OneEach' /\ AllFit' /\ IdleSettled'
      BY <2>1, <3>1, Untouched DEF RadioInv
    <3> QED
      BY <3>2, FitsIs
  <2> QED
    BY <2>2, <2>3, <2>4 DEF RadioInv
<1> QED
  BY <1>1, <1>2

(* The radio controllers, their channels and the retry timer keep types and serve each
   slot's requests on its own channel, a mask of AT+EFUN is right unless another command
   was done since it was built, and, while no attach or detach resets the locks, a slot's
   lock is kept as long as its one request is under way, which carries what was last asked
   of the slot unless the boot overtook it. *)
THEOREM RadioInvariant == Spec => []RadioInv
<1>1. InitRadio => RadioInv
  BY RadioInit
<1>2. RadioInv /\ [Next]_radioVars => RadioInv'
  BY RadioStep
<1> QED
  BY <1>1, <1>2, PTL DEF Spec

(* A set with at most one place has that many elements. *)
LEMMA CountOfOne ==
  ASSUME NEW I, AtMostOne(I)
  PROVE  IF I = {} THEN Cardinality(I) = 0 ELSE Cardinality(I) = 1
<1>1. CASE I = {}
  BY <1>1, FS_EmptySet
<1>2. CASE I # {}
  <2>1. PICK i \in I : TRUE
    BY <1>2
  <2>2. I = {i}
    BY <2>1 DEF AtMostOne
  <2> QED
    BY <1>2, <2>2, FS_Singleton
<1> QED
  BY <1>1, <1>2

(* canHandleRequest and the retry of handleRadioPowerResponse: a slot has one power
   request at most, sent, answered or waiting to be sent again, and is locked by the
   radio controller until it has succeeded; attach and detach excepted. *)
THEOREM OneCommandPerSlotCorrect == Spec => []OneCommandPerSlot
<1>1. ASSUME RadioInv PROVE OneCommandPerSlot
  <2>1. SUFFICES ASSUME MaxData = 0, NEW s \in Slots
                 PROVE  Count(s) <= 1 /\ (Count(s) = 1 => radioLock[s] = "radio")
    BY DEF OneCommandPerSlot
  <2>2. OneUnderWay(s) /\ LockKept(s)
    BY <1>1, <2>1 DEF RadioInv, OneEach
  <2>3. Count(s) = Len(cmds[s]) + Cardinality(AnswersOf(answers, s)) + Cardinality(TimersOf(timers, s))
    BY DEF Count, Quantify, AnswersOf, TimersOf
  <2>4. /\ IF AnswersOf(answers, s) = {} THEN Cardinality(AnswersOf(answers, s)) = 0
                                         ELSE Cardinality(AnswersOf(answers, s)) = 1
        /\ IF TimersOf(timers, s) = {} THEN Cardinality(TimersOf(timers, s)) = 0
                                       ELSE Cardinality(TimersOf(timers, s)) = 1
    BY <2>2, CountOfOne DEF OneUnderWay
  <2>5. /\ Len(cmds[s]) \in Nat
        /\ Len(cmds[s]) <= 1 /\ (Len(cmds[s]) # 0 => cmds[s] # << >>)
        /\ cmds[s] = << >> => Len(cmds[s]) = 0
    <3>1. cmds[s] \in Seq(Cmd)
      BY <1>1 DEF RadioInv, RadioTypes
    <3> QED
      BY <2>2, <3>1, EmptySeq, LenProperties DEF OneUnderWay
  <2>6. \A a, b, c \in 0 .. 1 : (a # 0 => b = 0 /\ c = 0) /\ (b = 0 \/ c = 0)
          => a + b + c <= 1 /\ (a + b + c = 1 => a # 0 \/ b # 0 \/ c # 0)
    OBVIOUS
  <2>7. Count(s) <= 1 /\ (Count(s) = 1 => UnderWay(s))
    <3>1. /\ Len(cmds[s]) \in 0 .. 1 /\ Cardinality(AnswersOf(answers, s)) \in 0 .. 1
          /\ Cardinality(TimersOf(timers, s)) \in 0 .. 1
      <4>1. Len(cmds[s]) \in 0 .. 1
        <5>1. \A n \in Nat : n <= 1 => n \in 0 .. 1
          OBVIOUS
        <5> QED
          BY <2>5, <5>1
      <4>2. \A n : n = 0 \/ n = 1 => n \in 0 .. 1
        OBVIOUS
      <4>3. /\ Cardinality(AnswersOf(answers, s)) = 0 \/ Cardinality(AnswersOf(answers, s)) = 1
            /\ Cardinality(TimersOf(timers, s)) = 0 \/ Cardinality(TimersOf(timers, s)) = 1
        BY <2>4
      <4> QED
        BY <4>1, <4>2, <4>3
    <3>2. /\ Len(cmds[s]) # 0 => Cardinality(AnswersOf(answers, s)) = 0 /\ Cardinality(TimersOf(timers, s)) = 0
          /\ Cardinality(AnswersOf(answers, s)) = 0 \/ Cardinality(TimersOf(timers, s)) = 0
      BY <2>2, <2>4, <2>5 DEF OneUnderWay
    <3>3. Len(cmds[s]) # 0 \/ Cardinality(AnswersOf(answers, s)) # 0 \/ Cardinality(TimersOf(timers, s)) # 0
            => UnderWay(s)
      BY <2>4, <2>5, UnderWayIs
    <3> QED
      BY <2>3, <2>6, <3>1, <3>2, <3>3
  <2> QED
    BY <2>2, <2>7 DEF LockKept
<1> QED
  BY <1>1, RadioInvariant, PTL

(* requestRadioPower of the controller, RADIO_POWER_MSIM_MODE of the handler: failures and
   retries included, a slot that is unlocked is on only if that was requested, and is on if
   it was, unless BOOT_TURN_ON overtook the request or turned the slot off; and the modem
   has on what is stored as on, unless the last mask of AT+EFUN was built too early. *)
THEOREM PowerSettlesCorrect == Spec => []PowerSettles
<1>1. RadioInv => KeysAgree
  BY DEF RadioInv, PowerFollows, Settled, KeysAgree
<1>2. RadioInv => ModemFollows
  BY DEF RadioInv, MaskRight
<1> QED
  BY <1>1, <1>2, RadioInvariant, PTL DEF PowerSettles

(* handleRadioPowerResponse: RADIO_POWER is answered with success only when the slot
   has the power it asked for, unless the boot crossed it. *)
THEOREM SuccessIsPowerCorrect == Spec => SuccessIsPower
<1> DEFINE Truthful == MaxData = 0 => \A s \in Slots :
                         Len(replies'[s]) > Len(replies[s]) /\ Last(replies'[s]) = "success" =>
                           s \in crossed \/ msimMode[s] = Head(answers).cmd.on
<1>1. ASSUME RadioInv, Next PROVE Truthful
  <2>1. SUFFICES ASSUME MaxData = 0, NEW s \in Slots,
                        Len(replies'[s]) > Len(replies[s]), Last(replies'[s]) = "success"
                 PROVE  s \in crossed \/ msimMode[s] = Head(answers).cmd.on
    OBVIOUS
  <2>2. replies[s] \in Seq({"success", "not_available"}) /\ Len(replies[s]) \in Nat
    BY <1>1 DEF RadioInv, RadioTypes
  <2>3. replies'[s] # replies[s]
    <3>1. \A n \in Nat : ~(n > n)
      OBVIOUS
    <3> QED
      BY <2>1, <2>2, <3>1
  <2>4. ASSUME NEW t \in Slots, RequestRadioPower(t) PROVE FALSE
    <3>1. replies'[s] = Append(replies[s], "not_available")
      BY <1>1, <2>3, <2>4 DEF RequestRadioPower, RadioInv, RadioTypes
    <3>2. Last(Append(replies[s], "not_available")) = "not_available"
      BY <2>2 DEF Last
    <3> QED
      BY <2>1, <3>1, <3>2
  <2>5. ASSUME AnswerRadioPower PROVE s \in crossed \/ msimMode[s] = Head(answers).cmd.on
    <3>1. answers # << >> /\ Head(answers).ok
      BY <2>5 DEF AnswerRadioPower, Answered
    <3>2. Head(answers).cmd.caller = "framework" /\ Head(answers).cmd.slot = s
      BY <1>1, <2>3, <2>5 DEF AnswerRadioPower, RadioInv, RadioTypes
    <3>3. 1 \in DOMAIN answers /\ Head(answers) = answers[1]
      BY <1>1, <3>1, AnswersTail DEF RadioInv, RadioTypes
    <3>4. Asked(Head(answers).cmd) /\ Settled(s)
      BY <1>1, <2>1, <3>1, <3>2, <3>3 DEF RadioInv, PowerFollows
    <3>5. msimMode[s] \in BOOLEAN /\ requestRadioPower[s] \in BOOLEAN /\ Head(answers).cmd.on \in BOOLEAN
      <4>1. Head(answers) \in Answer
        BY <1>1, <3>1 DEF RadioInv, RadioTypes
      <4> QED
        BY <1>1, <4>1 DEF RadioInv, RadioTypes, Answer, Cmd
    <3> QED
      BY <3>2, <3>4, <3>5 DEF Asked, Settled
  <2>6. ~AnswerRadioPower /\ (\A t \in Slots : ~RequestRadioPower(t)) => replies' = replies
    BY <1>1 DEF Next, Steps, RadioProgress, RadioInput, SendEfun, BootSkipped, EfunDone, RetryRadioPower, RetryTimer,
                OnSimStateChanged, EfunFails, FrameworkPower, PowerOffModem, OnAttachOrDetachDone,
                DataConnection
  <2> QED
    BY <2>3, <2>4, <2>5, <2>6
<1>2. RadioInv /\ [Next]_radioVars => [Truthful]_radioVars
  BY <1>1
<1>3. Spec => [][Truthful]_radioVars
  BY <1>2, RadioInvariant, PTL DEF Spec
<1> QED
  BY <1>3 DEF SuccessIsPower
=============================================================================
