----------------------------- MODULE RadioPower -----------------------------
(***************************************************************************)
(* The radio power of the slots: RtcRadioController (one per slot, on the  *)
(* main thread) and RmcRadioRequestHandler (one per slot, each on the      *)
(* thread of its own channel).                                             *)
(*                                                                         *)
(* The status key RADIO_LOCK of a slot says who may turn its radio on or   *)
(* off.  A power request of the framework waits for it; a module calls     *)
(* moduleRequestRadioPower, which takes it.  AT+EFUN carries the power of  *)
(* every slot, read from RADIO_POWER_MSIM_MODE when the command is built;  *)
(* at boot it turns on the slots with a card that the SIM mode allows.     *)
(***************************************************************************)
EXTENDS Naturals, SequencesExt

CONSTANTS
  Slots,
  Instances     \* what the device and the bounds of the run may be

ASSUME RadioAssumption ==
  \A i \in Instances : /\ {i.asked, i.fail, i.data} \subseteq Nat
                        /\ {i.boot, i.canPowerOff} \subseteq BOOLEAN

VARIABLES
  inst,               \* the instance that runs
  \* status keys
  radioLock,          \* RADIO_LOCK of a slot
  requestRadioPower,  \* REQUEST_RADIO_POWER of a slot
  msimMode,           \* RADIO_POWER_MSIM_MODE of a slot
  modemPowerOff,      \* MODEM_POWER_OFF
  hadPowerOffMd,      \* HAD_POWER_OFF_MD
  cardType,           \* the slots whose CARD_TYPE is known
  \* messages
  toRadio,            \* per slot, framework requests not yet admitted
  cmds,               \* per slot, power requests its channel has yet to serve
  efun,               \* per slot, the mode of the AT+EFUN that runs, if one does
  answers,            \* answers on their way to the main thread
  timers,             \* requests to be sent again in RETRY_TIME_MS
  modemOn,            \* the slots the modem has turned on
  asked, fails, datas,                      \* bounds
  \* history
  crossed,            \* slots whose last request BOOT_TURN_ON overtook or undid
  stale,              \* slots whose AT+EFUN was built before another's was done
  undone,             \* the last AT+EFUN done was such a one
  replies,            \* per slot, answered framework requests
  detached,           \* slots whose CS and PS detach is done, not yet attached
  dataReplies         \* answered attach and detach requests

MaxAsked    == inst.asked         \* bound: power requests of the framework, per slot
MaxFail     == inst.fail          \* bound: EFUN commands that fail
MaxData     == inst.data          \* bound: CS and PS attach or detach requests
Boot        == inst.boot          \* the cards are reported, so the radios turn on at boot
CanPowerOff == inst.canPowerOff   \* the modem may be powered off

queueVars  == << toRadio, cmds, efun, answers, timers >>
keyVars    == << radioLock, requestRadioPower, msimMode, modemPowerOff, hadPowerOffMd >>
boundVars  == << asked, fails, datas >>
efunVars   == << crossed, stale, undone >>
radioVars  == << inst, keyVars, cardType, queueVars, modemOn, boundVars, efunVars, replies,
                 detached, dataReplies >>
-----------------------------------------------------------------------------
Locks   == {"idle", "radio", "data"}
Callers == {"framework", "boot", "attach", "detach"}
Cmd     == [slot : Slots, on : BOOLEAN, caller : Callers, cards : SUBSET Slots]

\* RADIO_POWER as moduleRequestRadioPower and requestRadioPower build it
PowerCmd(s, on, caller) == [slot |-> s, on |-> on, caller |-> caller, cards |-> {}]
\* BOOT_TURN_ON_RADIO, with the slots that have a card
BootCmd(s, cards) == [slot |-> s, on |-> TRUE, caller |-> "boot", cards |-> cards]

InitRadio ==
  /\ inst \in Instances
  /\ radioLock = [s \in Slots |-> "idle"]
  /\ requestRadioPower = [s \in Slots |-> FALSE] /\ msimMode = [s \in Slots |-> FALSE]
  /\ modemPowerOff = FALSE /\ hadPowerOffMd = FALSE
  /\ cardType = {}
  /\ toRadio = [s \in Slots |-> << >>] /\ cmds = [s \in Slots |-> << >>]
  /\ efun = [s \in Slots |-> << >>] /\ answers = << >> /\ timers = << >>
  /\ modemOn = {}
  /\ asked = [s \in Slots |-> 0] /\ fails = 0 /\ datas = 0
  /\ crossed = {} /\ stale = {} /\ undone = FALSE
  /\ replies = [s \in Slots |-> << >>] /\ detached = {} /\ dataReplies = 0

\* Where a request of slot s can be
UnderWay(s) ==
  \/ cmds[s] # << >>
  \/ \E i \in DOMAIN answers : answers[i].cmd.slot = s
  \/ \E i \in DOMAIN timers : timers[i].slot = s
-----------------------------------------------------------------------------
(* RtcRadioController *)

FrameworkPower(s, on) ==
  /\ asked[s] < MaxAsked
  /\ asked' = [asked EXCEPT ![s] = @ + 1]
  /\ toRadio' = [toRadio EXCEPT ![s] = Append(@, on)]
  /\ UNCHANGED << keyVars, cardType, cmds, efun, answers, timers, modemOn, fails, datas,
                  efunVars, replies, detached, dataReplies >>

\* Mutant: the lock is not looked at
MutCanHandleRequest(s) == TRUE

CanHandleRequest(s) == radioLock[s] = "idle"

\* requestRadioPower; a refused request leaves the lock taken
RequestRadioPower(s) ==
  /\ toRadio[s] # << >> /\ CanHandleRequest(s)
  /\ LET on == Head(toRadio[s]) IN
       /\ radioLock' = [radioLock EXCEPT ![s] = "radio"]
       /\ IF modemPowerOff \/ hadPowerOffMd
          THEN /\ replies' = [replies EXCEPT ![s] = Append(@, "not_available")]
               /\ UNCHANGED << requestRadioPower, cmds, crossed >>
          ELSE /\ requestRadioPower' = [requestRadioPower EXCEPT ![s] = on]
               /\ crossed' = crossed \ {s}
               /\ cmds' = [cmds EXCEPT ![s] = Append(@, PowerCmd(s, on, "framework"))]
               /\ UNCHANGED replies
  /\ toRadio' = [toRadio EXCEPT ![s] = Tail(@)]
  /\ UNCHANGED << msimMode, modemPowerOff, hadPowerOffMd, cardType, efun, answers, timers,
                  modemOn, boundVars, stale, undone, detached, dataReplies >>

\* moduleRequestRadioPower on the slots ss, called with the locks as lock says.
\* Those in turnedOn are turned on, the others off.
\* With the modem off the lock is taken and the action never called.
ModuleRequestRadioPower(ss, lock, turnedOn, caller) ==
  /\ radioLock' = [s \in Slots |-> IF s \in ss THEN "radio" ELSE lock[s]]
  /\ cmds' = IF modemPowerOff THEN cmds
             ELSE [s \in Slots |-> IF s \in ss THEN Append(cmds[s], PowerCmd(s, s \in turnedOn, caller))
                                              ELSE cmds[s]]

\* onSimStateChanged: the slot that completes the cards reports those there are, and
\* the radios are turned on
OnSimStateChanged(s) ==
  /\ Boot /\ s \notin cardType
  /\ cardType' = cardType \cup {s}
  /\ IF cardType' = Slots /\ radioLock[s] = "idle"
     THEN /\ radioLock' = [radioLock EXCEPT ![s] = "radio"]
          /\ \E cards \in SUBSET Slots : cmds' = [cmds EXCEPT ![s] = Append(@, BootCmd(s, cards))]
     ELSE UNCHANGED << radioLock, cmds >>
  /\ UNCHANGED << requestRadioPower, msimMode, modemPowerOff, hadPowerOffMd, toRadio, efun,
                  answers, timers, modemOn, boundVars, efunVars, replies, detached, dataReplies >>

\* Mutant: the request is not found again
MutRetryRadioPowerLost ==
  /\ answers # << >> /\ ~Head(answers).ok
  /\ LET c == Head(answers).cmd IN
       /\ radioLock' = [radioLock EXCEPT ![c.slot] = "radio"]
       /\ UNCHANGED timers
  /\ answers' = Tail(answers)
  /\ UNCHANGED << requestRadioPower, msimMode, modemPowerOff, hadPowerOffMd, cardType, toRadio,
                  cmds, efun, modemOn, boundVars, efunVars, replies, detached, dataReplies >>

\* handleRadioPowerResponse, of an error: taken again, sent again after a while
RetryRadioPower ==
  /\ answers # << >> /\ ~Head(answers).ok
  /\ LET c == Head(answers).cmd IN
       /\ radioLock' = [radioLock EXCEPT ![c.slot] = "radio"]
       /\ timers' = Append(timers, c)
  /\ answers' = Tail(answers)
  /\ UNCHANGED << requestRadioPower, msimMode, modemPowerOff, hadPowerOffMd, cardType, toRadio,
                  cmds, efun, modemOn, boundVars, efunVars, replies, detached, dataReplies >>

RetryTimer ==
  /\ timers # << >>
  /\ cmds' = [cmds EXCEPT ![Head(timers).slot] = Append(@, Head(timers))]
  /\ timers' = Tail(timers)
  /\ UNCHANGED << keyVars, cardType, toRadio, efun, answers, modemOn, boundVars, efunVars,
                  replies, detached, dataReplies >>

\* handleRadioPowerResponse, of a success: the lock as the action then finds it
Answered(callers) ==
  /\ answers # << >> /\ Head(answers).ok /\ Head(answers).cmd.caller \in callers
  /\ answers' = Tail(answers)
Unlocked == [radioLock EXCEPT ![Head(answers).cmd.slot] = "idle"]

\* The response of a request without an action (dropped unless the framework asked)
AnswerRadioPower ==
  /\ Answered({"framework", "boot"})
  /\ LET c == Head(answers).cmd IN
       replies' = IF c.caller = "framework"
                  THEN [replies EXCEPT ![c.slot] = Append(@, "success")] ELSE replies
  /\ radioLock' = Unlocked
  /\ UNCHANGED << requestRadioPower, msimMode, modemPowerOff, hadPowerOffMd, cardType, toRadio,
                  cmds, efun, timers, modemOn, boundVars, efunVars, detached, dataReplies >>
-----------------------------------------------------------------------------
(* RtcDataAllowController, a CS and PS attach or detach of the OEM framework *)

\* Every slot's lock is reset, whoever holds it
DataConnection(s, on) ==
  /\ datas < MaxData
  /\ datas' = datas + 1
  /\ ModuleRequestRadioPower({s}, [t \in Slots |-> "idle"], IF on THEN {s} ELSE {},
                             IF on THEN "attach" ELSE "detach")
  /\ detached' = IF on THEN detached \ {s} ELSE detached
  /\ UNCHANGED << requestRadioPower, msimMode, modemPowerOff, hadPowerOffMd, cardType, toRadio,
                  efun, answers, timers, modemOn, asked, fails, efunVars, replies, dataReplies >>

\* onAttachOrDetachDone: a detached slot stays locked, "to avoid other module do
\* radio on/off"
OnAttachOrDetachDone ==
  /\ Answered({"attach", "detach"})
  /\ LET c == Head(answers).cmd IN
       IF c.caller = "detach"
       THEN /\ radioLock' = [radioLock EXCEPT ![c.slot] = "data"]
            /\ detached' = detached \cup {c.slot}
       ELSE radioLock' = Unlocked /\ UNCHANGED detached
  /\ dataReplies' = dataReplies + 1
  /\ UNCHANGED << requestRadioPower, msimMode, modemPowerOff, hadPowerOffMd, cardType, toRadio,
                  cmds, efun, timers, modemOn, boundVars, efunVars, replies >>
-----------------------------------------------------------------------------
(* RmcRadioRequestHandler of slot s, and the modem *)

\* requestRadioPower: the mode stored of the other slots.  bootupSetRadioPower: those
\* with a card that the SIM mode property has too.
TargetModes(c) ==
  IF c.caller = "boot" THEN SUBSET c.cards \ {{}}
  ELSE { {t \in Slots : IF t = c.slot THEN c.on ELSE msimMode[t]} }

SendEfun(s) ==
  /\ cmds[s] # << >> /\ efun[s] = << >>
  /\ \E mode \in TargetModes(Head(cmds[s])) : efun' = [efun EXCEPT ![s] = << mode >>]
  /\ UNCHANGED << keyVars, cardType, toRadio, cmds, answers, timers, modemOn, boundVars,
                  efunVars, replies, detached, dataReplies >>

\* The channel has served the request at the head
Served(s, ok) ==
  /\ answers' = Append(answers, [cmd |-> Head(cmds[s]), ok |-> ok])
  /\ cmds' = [cmds EXCEPT ![s] = Tail(@)] /\ efun' = [efun EXCEPT ![s] = << >>]

\* bootupSetRadioPower in airplane mode, under the CryptKeeper, or with no slot to turn
\* on: answered with success, and nothing is stored
BootSkipped(s) ==
  /\ cmds[s] # << >> /\ efun[s] = << >> /\ Head(cmds[s]).caller = "boot"
  /\ Served(s, TRUE)
  /\ UNCHANGED << keyVars, cardType, toRadio, timers, modemOn, boundVars, efunVars, replies,
                  detached, dataReplies >>

\* Mutant: the mode is stored of every slot the command was built for
MutStoredMode(s) == [t \in Slots |-> t \in Head(efun[s])]

\* The mode is stored of the own slot, at boot of every slot
StoredMode(s) ==
  IF Head(cmds[s]).caller = "boot" THEN [t \in Slots |-> t \in Head(efun[s])]
  ELSE [msimMode EXCEPT ![s] = Head(cmds[s]).on]

\* The boot counts as a request for the slots it turns on, and for no other.  A request
\* under way on another slot is then crossed, and one that turned on a slot it turns off.
EfunDone(s) ==
  /\ efun[s] # << >>
  /\ modemOn' = Head(efun[s])
  /\ msimMode' = StoredMode(s)
  /\ IF Head(cmds[s]).caller = "boot"
     THEN /\ requestRadioPower' = [t \in Slots |-> t \in modemOn' \/ requestRadioPower[t]]
          /\ crossed' = {t \in Slots : \/ t # s /\ UnderWay(t)
                                       \/ requestRadioPower[t] /\ t \notin modemOn'}
     ELSE UNCHANGED << requestRadioPower, crossed >>
  /\ stale' = {t \in Slots \ {s} : efun[t] # << >>}
  /\ undone' = (s \in stale)
  /\ Served(s, TRUE)
  /\ UNCHANGED << radioLock, modemPowerOff, hadPowerOffMd, cardType, toRadio, timers, boundVars,
                  replies, detached, dataReplies >>

\* An error, at boot after the retries of bootupSetRadioPower
EfunFails(s) ==
  /\ efun[s] # << >> /\ fails < MaxFail
  /\ fails' = fails + 1
  /\ stale' = stale \ {s}
  /\ Served(s, FALSE)
  /\ UNCHANGED << keyVars, cardType, toRadio, timers, modemOn, asked, datas, crossed, undone,
                  replies, detached, dataReplies >>
-----------------------------------------------------------------------------
(* RtcModemController, as far as this module goes: SHUTDOWN and MODEM_POWEROFF *)
PowerOffModem ==
  /\ CanPowerOff
  /\ \/ ~hadPowerOffMd /\ hadPowerOffMd' = TRUE /\ UNCHANGED << modemPowerOff, modemOn >>
     \/ hadPowerOffMd /\ ~modemPowerOff
        /\ modemPowerOff' = TRUE /\ modemOn' = {} /\ UNCHANGED hadPowerOffMd
  /\ UNCHANGED << radioLock, requestRadioPower, msimMode, cardType, queueVars, boundVars,
                  efunVars, replies, detached, dataReplies >>

RadioProgress ==
  \/ \E s \in Slots : RequestRadioPower(s) \/ SendEfun(s) \/ BootSkipped(s) \/ EfunDone(s)
  \/ RetryRadioPower \/ RetryTimer

RadioInput ==
  \/ \E s \in Slots : OnSimStateChanged(s) \/ EfunFails(s)
  \/ \E s \in Slots, on \in BOOLEAN : FrameworkPower(s, on)
  \/ PowerOffModem
=============================================================================
