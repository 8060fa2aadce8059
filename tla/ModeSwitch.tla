----------------------------- MODULE ModeSwitch -----------------------------
(***************************************************************************)
(* RtcModeSwitchController over RatSwitch: when the cards of all slots are *)
(* known (RtcCardTypeReadyController), the slot with CDMA is chosen and    *)
(* the RAT of every slot is switched, one after the other.  While one of   *)
(* the other owners of MODEM_OFF_STATE has it, during a call or in an      *)
(* emergency the cards wait in one pending record.                         *)
(*                                                                         *)
(* The controller's functions are calls on RatSwitch's stack.  The modem   *)
(* supports CDMA, the slots are no common slot and the restricted mode     *)
(* covers the callback mode (isECBMRestrictedModeSupport).                 *)
(***************************************************************************)
EXTENDS RatSwitch, TLC

CONSTANT
  Cards           \* kinds of card

ASSUME ModeAssumption ==
  /\ Cards \subseteq {"none", "gsm", "cdma"} /\ "none" \in Cards
  /\ \A i \in Instances : {i.plug, i.ecc, i.simSwitch, i.emergency, i.power} \subseteq Nat

VARIABLES
  card,           \* CARD_TYPE of a slot
  cardTypes,      \* m_card_types
  cardStates,     \* m_card_type_states
  due,            \* slots whose SIM task has yet to become ready
  modemOff,       \* MODEM_OFF_STATE
  reported,       \* slots whose capability was reported
  info,           \* mSwitchInfo
  waiting,        \* mPendingRecord: none or one
  queue,          \* switchQueue
  oldC,           \* mOldCCapabilitySlot
  raf,            \* the capability a slot's RAT was last set for
  callWatch, modemWatch, emergencyWatch,      \* callbacks that are registered
  emergency,      \* slots in EMERGENCY_MODE
  main,           \* the main slot, a system property
  ending,         \* CAPABILITY_SWITCH_STATE_ENDING
  finishWatch,    \* onModeSwitchFinished is registered
  posted,         \* DEAL_PENDING_MODE_SWITCH messages
  lastInfo,       \* history: the last report or request that was taken
  lastSwitch,     \* history: what became of a slot's last mode switch: "begun", "done",
                  \* "refused" by the modem, or "skipped" though it was not done
  plugs, eccs, simSwitches, emergencies, powers      \* bounds

\* Bounds
MaxPlug      == inst.plug        \* cards changed
MaxEcc       == inst.ecc         \* SWITCH_MODE_FOR_ECC requests
MaxSimSwitch == inst.simSwitch   \* SIM switches
MaxEmergency == inst.emergency   \* emergency modes
MaxPower     == inst.power       \* the modem powered off and on

cardVars  == << card, cardTypes, cardStates, due >>
watchVars == << callWatch, modemWatch, emergencyWatch >>
simVars   == << main, ending, finishWatch >>
maxVars   == << plugs, eccs, simSwitches, emergencies, powers >>
runVars   == << modemOff, info, waiting, queue, oldC, raf >>
modeVars  == << cardVars, watchVars, simVars, maxVars, runVars, reported, emergency, posted, lastInfo >>
ratRest   == << keptVars, pend, riljType, calls, scanning, mcl, modemType, boundVars, answered, failed >>
vars      == << ratVars, modeVars, lastSwitch >>
-----------------------------------------------------------------------------
States == {"first", "in", "out", "type", "same"}       \* CARD_STATE_NOT_HOT_PLUG, ...
Info   == [card : Cards, state : States, ecc : {"none", "C", "G"}]
NoInfo == [s \in Slots |-> [card |-> "none", state |-> "same", ecc |-> "none"]]

Enter(i)    == Call("enter", 0) @@ [info |-> i]
CardsReady(i) == Call("cardsReady", 0) @@ [info |-> i]
Deal        == Call("deal", 0)
Technology(s) == Call("technology", s)
EratFail(s) == Call("eratFail", s)

InitMode ==
  /\ card \in [Slots -> Cards] /\ cardTypes = [s \in Slots |-> "invalid"]
  /\ cardStates = [s \in Slots |-> "first"] /\ due = Slots
  /\ modemOff = "idle" /\ reported = {} /\ info = NoInfo /\ waiting = << >> /\ queue = << >>
  /\ oldC = 0 /\ raf = [s \in Slots |-> "unset"]
  /\ callWatch = {} /\ modemWatch = FALSE /\ emergencyWatch = {} /\ emergency = {}
  /\ main = 0 /\ ending = FALSE /\ finishWatch = FALSE /\ posted = 0 /\ lastInfo = NoInfo
  /\ lastSwitch = [s \in Slots |-> "done"]
  /\ plugs = 0 /\ eccs = 0 /\ simSwitches = 0 /\ emergencies = 0 /\ powers = 0

\* setIntValue of MODEM_OFF_STATE and its callback onModemOffStateChanged, after rest
SetModemOff(v, rest) ==
  /\ modemOff' = v
  /\ modemWatch' = (modemWatch /\ v = "sim")
  /\ stack' = rest \o (IF modemWatch /\ v = "idle" THEN << Deal >> ELSE << >>)
-----------------------------------------------------------------------------
(* RtcCardTypeReadyController                                               *)

Changed(old, new) ==
  IF old # "none" /\ new # "none" THEN IF old = new THEN "same" ELSE "type"
  ELSE IF old = new THEN "same" ELSE IF new = "none" THEN "out" ELSE "in"

\* onSimTaskReady(true) of slot s with card c; plugged: it was ready before
TaskReady(s, c, plugged) ==
  LET state  == IF plugged /\ "invalid" \notin Range(cardTypes) THEN Changed(cardTypes[s], c)
                ELSE "first"
      types  == [cardTypes EXCEPT ![s] = c]
      states == [i \in Slots |-> IF i = s THEN state ELSE IF state = "first" THEN cardStates[i]
                                 ELSE "same"]
      ready  == [i \in Slots |-> [card |-> types[i], state |-> states[i], ecc |-> "none"]]
  IN /\ cardTypes' = types /\ cardStates' = states
     /\ stack' = IF "invalid" \in Range(types) THEN << >> ELSE << CardsReady(ready) >>

SimTaskReady(s) ==
  /\ stack = << >> /\ s \in due /\ due' = due \ {s}
  /\ TaskReady(s, card[s], FALSE)
  /\ UNCHANGED << ratRest, cSlot, watchVars, simVars, maxVars, runVars, reported, emergency, posted,
                  lastInfo, card >>

Plug(s, c) ==
  /\ stack = << >> /\ plugs < MaxPlug /\ s \notin due /\ c # card[s]
  /\ plugs' = plugs + 1 /\ card' = [card EXCEPT ![s] = c]
  /\ TaskReady(s, c, TRUE)
  /\ UNCHANGED << ratRest, cSlot, watchVars, simVars, runVars, reported, emergency, posted, lastInfo,
                  due, eccs, simSwitches, emergencies, powers >>

\* updateCardStateIfRecordCovered
Covered(i) ==
  IF waiting = << >> THEN i
  ELSE [s \in Slots |-> LET w == waiting[1][s].state IN
          IF (w # "same" /\ i[s].state = "same") \/ w = "first" THEN [i[s] EXCEPT !.state = w]
          ELSE i[s]]

\* Mutant: the record that waits is left
MutOnCardTypeReady ==
  /\ Calls("cardsReady")
  /\ lastInfo' = Top.info
  /\ stack' = << Enter(Covered(Top.info)) >> \o Rest
  /\ UNCHANGED << ratRest, cSlot, cardVars, watchVars, simVars, maxVars, modemOff, info, waiting, queue,
                  oldC, raf, reported, emergency, posted >>

OnCardTypeReady ==
  /\ Calls("cardsReady")
  /\ waiting' = << >> /\ lastInfo' = Top.info
  /\ stack' = << Enter(Covered(Top.info)) >> \o Rest
  /\ UNCHANGED << ratRest, cSlot, cardVars, watchVars, simVars, maxVars, modemOff, info, queue, oldC,
                  raf, reported, emergency, posted >>
-----------------------------------------------------------------------------
(* enterModeSwitch                                                          *)

\* calculateCCapabilitySlot
CSlotFor(i, old) ==
  LET c   == {s \in Slots : i[s].card = "cdma"}
      ecc == {s \in Slots : i[s].ecc = "C"}
  IN CASE c = {}              -> IF ecc = {} THEN old ELSE Max(ecc)
       [] Cardinality(c) = 1  -> Min(c)
       [] Cardinality(c) > 1  -> IF main \in c THEN main ELSE Min(c)

\* isEnableSwitchMode is false; a modem that is powered off drops the record
EnterLater ==
  /\ Calls("enter")
  /\ reported # Slots \/ modemOff # "idle"
  /\ waiting' = IF reported = Slots /\ modemOff = "power" THEN waiting ELSE << Top.info >>
  /\ modemWatch' = (modemWatch \/ (reported = Slots /\ modemOff = "sim"))
  /\ stack' = Rest
  /\ UNCHANGED << ratRest, cSlot, cardVars, simVars, maxVars, modemOff, info, queue, oldC, raf, reported,
                  emergency, posted, lastInfo, callWatch, emergencyWatch >>

\* getCallingSlotWithCChangeCase
ChangesCInCall(i) == InCall /\ CSlotFor(i, cSlot) # cSlot /\ "cdma" \in cur[cSlot]

\* handlePendedByCall: no record waits then
EnterInCall ==
  /\ Calls("enter") /\ reported = Slots /\ modemOff = "idle" /\ ChangesCInCall(Top.info)
  /\ info' = Top.info /\ oldC' = cSlot /\ stack' = Rest /\ waiting' = << Top.info >>
  /\ callWatch' = callWatch \cup {Min(calls)}
  /\ UNCHANGED << ratRest, cSlot, cardVars, simVars, maxVars, modemOff, queue, raf, reported, emergency,
                  posted, lastInfo, modemWatch, emergencyWatch >>

\* handlePendedByEMCS
EnterInEmergency ==
  /\ Calls("enter") /\ reported = Slots /\ modemOff = "idle" /\ ~ChangesCInCall(Top.info)
  /\ emergency # {}
  /\ info' = Top.info /\ stack' = Rest /\ waiting' = << Top.info >>
  /\ oldC' = IF InCall THEN cSlot ELSE oldC
  /\ emergencyWatch' = emergencyWatch \cup {Min(emergency)}
  /\ UNCHANGED << ratRest, cSlot, cardVars, simVars, maxVars, modemOff, queue, raf, reported, emergency,
                  posted, lastInfo, modemWatch, callWatch >>

\* Mutant: the slot with CDMA first
MutSwitchOrder(c) == << c >> \o SetToSortSeq(Slots \ {c}, <)

\* setupSwitchQueue
SwitchOrder(c) == SetToSortSeq(Slots \ {c}, <) \o << c >>

\* startSwitchMode, updateRadioCapability, doSwitchRadioTech
EnterStarts ==
  /\ Calls("enter") /\ reported = Slots /\ modemOff = "idle" /\ ~ChangesCInCall(Top.info)
  /\ emergency = {}
  /\ info' = Top.info /\ oldC' = cSlot /\ cSlot' = CSlotFor(Top.info, cSlot)
  /\ queue' = Tail(SwitchOrder(cSlot'))
  /\ SetModemOff("mode", << Technology(Head(SwitchOrder(cSlot'))) >> \o Rest)
  /\ finishWatch' = (finishWatch \/ ending)
  /\ UNCHANGED << ratRest, cardVars, main, ending, maxVars, waiting, raf, reported, emergency, posted,
                  lastInfo, callWatch, emergencyWatch >>
-----------------------------------------------------------------------------
(* One slot after the other                                                 *)
Capability(s) == IF s = cSlot THEN "c" ELSE "no_c"

\* calculateDefaultNetworkType
DefaultType(s) == IF s = cSlot /\ (info[s].card # "gsm" \/ info[s].ecc # "none") THEN Rats ELSE {"gsm"}

\* An empty slot whose capability has not changed keeps its RAT
KeepsRat(s) == /\ info[s].card = "none" /\ info[s].ecc = "none" /\ info[s].state # "first"
               /\ raf[s] = Capability(s)

\* switchRadioTechnology and setPreferredNetworkType
SwitchRadioTechnology ==
  /\ Calls("technology")
  /\ LET s       == Top.slot
         changed == info[s].state # "same" IN
       \/ /\ s \in calls
          /\ stack' = << EratFail(s) >> \o Rest
          /\ UNCHANGED << settings, restrictedMode, raf, lastSwitch >>
       \/ /\ s \notin calls /\ KeepsRat(s)
          /\ stack' = << Signal(s, "success") >> \o Rest
          /\ lastSwitch' = [lastSwitch EXCEPT ![s] = IF @ = "begun" THEN "skipped" ELSE @]
          /\ UNCHANGED << settings, restrictedMode, raf >>
       \/ /\ s \notin calls /\ ~KeepsRat(s)
          /\ SwitchInit(s, DefaultType(s), changed, Rest)
          /\ IF ~changed /\ DefaultType(s) = def[s] THEN UNCHANGED << raf, lastSwitch >>
             ELSE /\ raf' = [raf EXCEPT ![s] = Capability(s)]
                  /\ lastSwitch' = [lastSwitch EXCEPT ![s] = IF @ = "done" THEN "begun" ELSE @]
  /\ UNCHANGED << inSwitching, cur, def, restrictedCount, pend, modemVars, boundVars, answered, failed,
                  cardVars, watchVars, simVars, maxVars, modemOff, info, waiting, queue, oldC, reported,
                  emergency, posted, lastInfo >>

\* The callback of MODEM_OFF_STATE is not registered during a mode switch
HandleSendEratFailByCall ==
  /\ Calls("eratFail")
  /\ \/ /\ InCall
        /\ queue' = << >> /\ cSlot' = oldC /\ modemOff' = "idle"
        /\ \/ /\ waiting # << >>
              /\ stack' = << Deal >> \o Rest
              /\ UNCHANGED << waiting, callWatch >>
           \/ /\ waiting = << >>
              /\ waiting' = << info >> /\ callWatch' = callWatch \cup {Min(calls)}
              /\ stack' = Rest
        /\ finishWatch' = (finishWatch \/ ending)
     \/ /\ ~InCall
        /\ stack' = << Technology(Top.slot) >> \o Rest
        /\ UNCHANGED << cSlot, queue, modemOff, waiting, callWatch, finishWatch >>
  /\ UNCHANGED << ratRest, cardVars, main, ending, maxVars, info, oldC, raf, modemWatch, emergencyWatch,
                  reported, emergency, posted, lastInfo >>

\* Mutant: the record that waits is not taken up
MutFinishSwitchMode ==
  /\ SetModemOff("idle", Rest)
  /\ ending' = (ending /\ ~finishWatch) /\ finishWatch' = FALSE
  /\ posted' = posted

\* finishSwitchMode, and the callback of MODESWITCH_FINISHED (notifySetRatDone)
FinishSwitchMode ==
  /\ SetModemOff("idle", Rest)
  /\ ending' = (ending /\ ~finishWatch) /\ finishWatch' = FALSE
  /\ posted' = posted + (IF waiting = << >> THEN 0 ELSE 1)

\* onRatSwitchDone
OnRatSwitchDone ==
  /\ Calls("signal")
  /\ \/ /\ Top.err = "not_allowed"
        /\ stack' = << EratFail(Top.slot) >> \o Rest
        /\ UNCHANGED << queue, modemOff, modemWatch, ending, finishWatch, posted >>
     \/ /\ Top.err # "not_allowed" /\ queue = << >>
        /\ FinishSwitchMode
        /\ UNCHANGED queue
     \/ /\ Top.err # "not_allowed" /\ queue # << >>
        /\ queue' = Tail(queue)
        /\ stack' = << Technology(Head(queue)) >> \o Rest
        /\ UNCHANGED << modemOff, modemWatch, ending, finishWatch, posted >>
  /\ UNCHANGED << ratRest, cSlot, cardVars, main, maxVars, info, waiting, oldC, raf, callWatch,
                  emergencyWatch, reported, emergency, lastInfo >>
-----------------------------------------------------------------------------
(* What waits, and what ends the waiting                                    *)

\* dealPendedModeSwitch, applyPendingRecord
DealPendedModeSwitch ==
  /\ Calls("deal")
  /\ \/ /\ waiting # << >> /\ modemOff # "mode"
        /\ waiting' = << >>
        /\ info' = waiting[1]
        /\ stack' = << Enter(info') >> \o Rest
     \/ /\ waiting = << >> \/ modemOff = "mode"
        /\ stack' = Rest
        /\ UNCHANGED << waiting, info >>
  /\ UNCHANGED << ratRest, cSlot, cardVars, watchVars, simVars, maxVars, modemOff, queue, oldC, raf,
                  reported, emergency, posted, lastInfo >>

\* REQUEST_MODE_CONTROLLER_DEAL_PENDING_MODE_SWITCH
DealRequest ==
  /\ stack = << >> /\ posted > 0 /\ posted' = posted - 1
  /\ stack' = << Deal >>
  /\ UNCHANGED << ratRest, cSlot, cardVars, watchVars, simVars, maxVars, runVars, reported, emergency,
                  lastInfo >>

OnCapabilityReported(s) ==
  /\ stack = << >> /\ s \notin reported
  /\ reported' = reported \cup {s}
  /\ stack' = IF reported' = Slots /\ waiting # << >> THEN << Deal >> ELSE << >>
  /\ UNCHANGED << ratRest, cSlot, cardVars, watchVars, simVars, maxVars, runVars, emergency, posted,
                  lastInfo >>

\* The calls of RatSwitch end, and onCallCountChanged
ModeCallEnds(s) ==
  /\ CallEndsThen(s, IF s \in callWatch THEN << Deal >> ELSE << >>)
  /\ callWatch' = callWatch \ {s}
  /\ UNCHANGED << cardVars, modemWatch, emergencyWatch, simVars, maxVars, runVars, reported, emergency,
                  posted, lastInfo >>

\* EMERGENCY_MODE: onRestrictedModeChanged, and onEMCSChanged
EmergencyMode(s, on) ==
  /\ stack = << >> /\ emergencyWatch' = IF on THEN emergencyWatch ELSE emergencyWatch \ {s}
  /\ IF on THEN /\ emergencies < MaxEmergency /\ s \notin emergency
                /\ emergencies' = emergencies + 1 /\ emergency' = emergency \cup {s}
     ELSE /\ s \in emergency /\ emergency' = emergency \ {s} /\ UNCHANGED emergencies
  /\ stack' = << [Call("restrictedMode", s) EXCEPT !.ok = on] >>
              \o (IF ~on /\ s \in emergencyWatch THEN << Deal >> ELSE << >>)
  /\ UNCHANGED << ratRest, cSlot, cardVars, callWatch, modemWatch, simVars, runVars, reported, posted,
                  lastInfo, plugs, eccs, simSwitches, powers >>

\* switchModeForECC
SwitchModeForEcc(s, mode) ==
  /\ stack = << >> /\ eccs < MaxEcc /\ eccs' = eccs + 1
  /\ \/ /\ modemOff = "idle" /\ reported = Slots /\ waiting = << >>
        /\ card[s] = "none" /\ "cdma" \notin Range(card)
        /\ lastInfo' = [i \in Slots |-> [card |-> card[i], state |-> "first",
                                         ecc |-> IF i = s THEN mode ELSE "none"]]
        /\ stack' = << Enter(lastInfo') >>
     \/ /\ modemOff # "idle" \/ reported # Slots \/ waiting # << >> \/ card[s] # "none"
           \/ "cdma" \in Range(card)
        /\ UNCHANGED << stack, lastInfo >>
  /\ UNCHANGED << ratRest, cSlot, cardVars, watchVars, simVars, runVars, reported, emergency, posted,
                  plugs, simSwitches, emergencies, powers >>
-----------------------------------------------------------------------------
(* The other owners of MODEM_OFF_STATE                                      *)

\* The SIM switch of RtcCapabilitySwitchController (isReadyForSwitch, setAllLocks)
SimSwitchStarts ==
  /\ stack = << >> /\ simSwitches < MaxSimSwitch
  /\ modemOff = "idle" /\ ~InCall /\ emergency = {}
  /\ simSwitches' = simSwitches + 1
  /\ SetModemOff("sim", << >>)
  /\ cardTypes' = [s \in Slots |-> "invalid"] /\ due' = Slots /\ ending' = FALSE
  /\ UNCHANGED << ratRest, cSlot, card, cardStates, callWatch, emergencyWatch, main, finishWatch, info,
                  waiting, queue, oldC, raf, reported, emergency, posted, lastInfo, plugs, eccs,
                  emergencies, powers >>

\* processSetMajorSimResponse
SimSwitchEnds(m) ==
  /\ stack = << >> /\ modemOff = "sim"
  /\ main' = m /\ ending' = TRUE
  /\ SetModemOff("idle", << >>)
  /\ UNCHANGED << ratRest, cSlot, cardVars, callWatch, emergencyWatch, finishWatch, maxVars, info,
                  waiting, queue, oldC, raf, reported, emergency, posted, lastInfo >>

\* MODEM_POWEROFF of RtcModemController
PowerOff ==
  /\ stack = << >> /\ powers < MaxPower /\ powers' = powers + 1
  /\ modemOff = "idle"
  /\ SetModemOff("power", << >>)
  /\ UNCHANGED << ratRest, cSlot, cardVars, callWatch, emergencyWatch, simVars, info, waiting, queue, oldC,
                  raf, reported, emergency, posted, lastInfo, plugs, eccs, simSwitches, emergencies >>

\* Its answer, and the modem powered on again: its SIM tasks become ready
PowerOn ==
  /\ stack = << >> /\ modemOff = "power"
  /\ SetModemOff("idle", << >>)
  /\ cardTypes' = [s \in Slots |-> "invalid"] /\ due' = Slots
  /\ UNCHANGED << ratRest, cSlot, card, cardStates, callWatch, emergencyWatch, simVars, maxVars, info,
                  waiting, queue, oldC, raf, reported, emergency, posted, lastInfo >>
-----------------------------------------------------------------------------
(* The answers of the modem to RatSwitch, and the history                   *)

\* The modem answers the request mcl[i]; if it is one of the mode controller's:
Becomes(i, end) ==
  lastSwitch' = IF settings[mcl[i].slot].caller = "init" THEN [lastSwitch EXCEPT ![mcl[i].slot] = end]
                ELSE lastSwitch

ModeResponses ==
  \E i \in DOMAIN mcl : \/ ResponseSet(i) /\ Becomes(i, "done")
                        \/ (ResponseGmss(i) \/ ResponseAbort(i)) /\ UNCHANGED lastSwitch

ModeFails == \E i \in DOMAIN mcl, b \in BOOLEAN : ResponseSetFails(i, b) /\ Becomes(i, "refused")
-----------------------------------------------------------------------------
ModeCalls ==
  \/ SwitchRadioTechnology
  \/ /\ \/ OnCardTypeReady \/ EnterLater \/ EnterInCall \/ EnterInEmergency \/ EnterStarts
        \/ HandleSendEratFailByCall \/ OnRatSwitchDone \/ DealPendedModeSwitch
     /\ UNCHANGED lastSwitch

ModeEnds == \/ DealRequest \/ PowerOn
            \/ \E s \in Slots : \/ SimTaskReady(s) \/ OnCapabilityReported(s) \/ ModeCallEnds(s)
                                \/ EmergencyMode(s, FALSE) \/ SimSwitchEnds(s)

ModeInput == \/ SimSwitchStarts \/ PowerOff
             \/ \E s \in Slots : EmergencyMode(s, TRUE)
             \/ \E s \in Slots, c \in Cards : Plug(s, c)
             \/ \E s \in Slots, mode \in {"C", "G"} : SwitchModeForEcc(s, mode)
=============================================================================
