----------------------------- MODULE RatSwitch -----------------------------
(***************************************************************************)
(* RtcRatSwitchController, one per slot, all on the main thread: the RAT   *)
(* of a slot is set by the framework (normal), the mode controller (init)  *)
(* or the redial of an emergency call (restrict).  One switch runs at a    *)
(* time in the whole daemon; the others wait in one record per slot and    *)
(* caller.                                                                 *)
(*                                                                         *)
(* switchNwRat, processPendingRatSwitchRecord, the signal and the actions  *)
(* call each other, across slots; stack holds the calls still to be made   *)
(* by the message the main thread handles, which takes no other message    *)
(* before the stack is empty.                                              *)
(***************************************************************************)
EXTENDS Naturals, SequencesExt, FiniteSetsExt

CONSTANT
  Instances       \* what the slots and the bounds of the run may be

ASSUME RatAssumption ==
  \A i \in Instances :
    /\ IsFiniteSet(i.slots) /\ 0 \in i.slots /\ i.slots = 0 .. Cardinality(i.slots) - 1
    /\ i.types \subseteq (SUBSET {"gsm", "cdma"}) \ {{}}
    /\ {i.set, i.init, i.fail, i.scan, i.call} \subseteq Nat

VARIABLES
  inst,             \* the instance that runs
  inSwitching,      \* sIsInSwitching, of all slots
  cur,              \* mCurPreferedNetWorkType of a slot
  def,              \* mDefaultNetworkType of a slot
  settings,         \* mRatSettings of a slot
  pend,             \* the three pending records of a slot
  restrictedMode,   \* mInRestrictedMode of a slot
  restrictedCount,  \* mRestrictedCount of a slot
  stack,            \* calls the main thread has still to make
  riljType,         \* the system property with the framework's type of a slot
  cSlot,            \* the slot whose modem is capable of CDMA, a system property
  calls,            \* slots whose AP_VOICE_CALL_COUNT is not 0
  scanning,         \* slots whose NETWORK_SCAN_ONGOING is set
  mcl,              \* requests below the main thread
  modemType,        \* what the modem of a slot runs
  sets, inits, fails, scans, callsMade,     \* bounds
  answered,         \* history: the framework's requests that were answered
  failed            \* history: slots one of whose switches was refused

\* Slot numbers, 0 ..; the network types that are asked for; and bounds:
Slots      == inst.slots
AskedTypes == inst.types
MaxSet     == inst.set      \* SET_PREFERRED_NETWORK_TYPE requests
MaxInit    == inst.init     \* switches of the mode controller
MaxFail    == inst.fail     \* switches the modem refuses
MaxScan    == inst.scan     \* network scans
MaxCall    == inst.call     \* calls

boundVars == << sets, inits, fails, scans, callsMade >>
keptVars  == << inSwitching, cur, def, settings, restrictedMode, restrictedCount >>
modemVars == << riljType, cSlot, calls, scanning, mcl, modemType >>
ratVars   == << inst, keptVars, pend, stack, modemVars, boundVars, answered, failed >>
-----------------------------------------------------------------------------
Rats    == {"gsm", "cdma"}
NwTypes == (SUBSET Rats) \ {{}}
NoType  == {}                    \* -1
NoMsg   == 0
Callers == {"normal", "init", "restrict"}
Acts    == {"none", "global", "resume"}      \* RfxAction of the redial
Record  == [type : NwTypes \cup {NoType}, act : Acts, msg : 0 .. MaxSet]
NoRecord == [type |-> NoType, act |-> "none", msg |-> NoMsg]

Messages == 1 .. MaxSet

Call(op, s) == [op |-> op, slot |-> s, caller |-> "normal", type |-> NoType, act |-> "none",
                msg |-> NoMsg, ok |-> TRUE, err |-> "none"]
SwitchNwRat(s, t, caller, act, msg) ==
  [Call("switch", s) EXCEPT !.type = t, !.caller = caller, !.act = act, !.msg = msg]
Process(s)    == Call("process", s)
Act(s, act)   == [Call("act", s) EXCEPT !.act = act]
Signal(s, err) == [Call("signal", s) EXCEPT !.err = err]
Finish(s)     == Call("finish", s)

\* An action that is there
Acted(s, act) == IF act = "none" THEN << >> ELSE << Act(s, act) >>
Reply(msg)    == answered \cup ({msg} \ {NoMsg})

\* Mutant: the type of the slot is not looked at
MutFilter(s, t) == IF s = cSlot THEN t ELSE t \ {"cdma"}

\* filterPrefNwTypeFromRilj, the card allowing every type
Filter(s, t) == IF def[s] = NoType THEN IF s = cSlot THEN t ELSE t \ {"cdma"}
                ELSE IF def[s] \cap t # {} THEN def[s] \cap t ELSE def[s]

InCall == calls # {}

InitRat ==
  /\ inst \in Instances
  /\ inSwitching = FALSE
  /\ cur = [s \in Slots |-> NoType] /\ def = [s \in Slots |-> NoType]
  /\ settings = [s \in Slots |-> [type |-> NoType, caller |-> "normal", act |-> "none",
                                  msg |-> NoMsg, def |-> NoType]]
  /\ pend = [s \in Slots |-> [c \in Callers |-> NoRecord]]
  /\ restrictedMode = [s \in Slots |-> FALSE] /\ restrictedCount = [s \in Slots |-> 0]
  /\ stack = << >>
  /\ riljType = [s \in Slots |-> NoType] /\ cSlot = 0 /\ calls = {} /\ scanning = {} /\ mcl = << >>
  /\ modemType = [s \in Slots |-> NoType]
  /\ sets = 0 /\ inits = 0 /\ fails = 0 /\ scans = 0 /\ callsMade = 0
  /\ answered = {} /\ failed = {}
-----------------------------------------------------------------------------
(* Requests of the framework, the mode controller and the redial.           *)

\* setPreferredNetworkType of a message
SetPreferredNetworkType(s, t) ==
  /\ stack = << >> /\ sets < MaxSet
  /\ sets' = sets + 1
  /\ riljType' = [riljType EXCEPT ![s] = t]
  /\ restrictedMode' = [restrictedMode EXCEPT ![s] = FALSE]
  /\ stack' = << SwitchNwRat(s, t, "normal", "none", sets + 1) >>
  /\ UNCHANGED << inSwitching, cur, def, settings, restrictedCount, pend, cSlot, calls, scanning,
                  mcl, modemType, inits, fails, scans, callsMade, answered, failed >>

\* The target of setPreferredNetworkType of a RatSwitchInfo
InitTarget(s, d) == IF d \cap riljType[s] = {} THEN d ELSE d \cap riljType[s]

\* setPreferredNetworkType of a RatSwitchInfo whose default type is d
SwitchInit(s, d, changed, rest) ==
  IF ~changed /\ d = def[s]
  THEN /\ stack' = << Signal(s, "success") >> \o rest
       /\ UNCHANGED << settings, restrictedMode >>
  ELSE /\ settings' = [settings EXCEPT ![s].def = d]
       /\ restrictedMode' = [restrictedMode EXCEPT ![s] = FALSE]
       /\ stack' = << SwitchNwRat(s, InitTarget(s, d), "init", "none", NoMsg) >> \o rest

ModeSwitch(s, d, changed) ==
  /\ stack = << >> /\ inits < MaxInit
  /\ inits' = inits + 1
  /\ SwitchInit(s, d, changed, << >>)
  /\ UNCHANGED << inSwitching, cur, def, restrictedCount, pend, modemVars, sets, fails, scans,
                  callsMade, answered, failed >>

\* setPreferredNetworkType with an action: the redial enters the restricted mode
EnterRestricted(s, t, rest) ==
  /\ pend' = IF pend[s]["init"].type = NoType /\ pend[s]["normal"].type = NoType
             THEN [pend EXCEPT ![s]["restrict"] = [NoRecord EXCEPT !.type = cur[s]]]
             ELSE pend
  /\ restrictedMode' = [restrictedMode EXCEPT ![s] = TRUE]
  /\ stack' = << SwitchNwRat(s, t, "restrict", "global", NoMsg) >> \o rest

\* ... and leaves it; a record that waits is taken along but not taken out
LeaveRestricted(s, rest) ==
  /\ restrictedMode' = [restrictedMode EXCEPT ![s] = FALSE]
  /\ \/ /\ pend[s]["init"].type # NoType
        /\ pend' = [pend EXCEPT ![s]["restrict"].type = NoType]
        /\ stack' = << SwitchNwRat(s, pend[s]["init"].type, "init", "resume", NoMsg) >> \o rest
     \/ /\ pend[s]["init"].type = NoType /\ pend[s]["normal"].type # NoType
        /\ pend' = [pend EXCEPT ![s]["restrict"].type = NoType]
        /\ stack' = << SwitchNwRat(s, Filter(s, pend[s]["normal"].type), "normal", "resume",
                                   pend[s]["normal"].msg) >> \o rest
     \/ /\ pend[s]["init"].type = NoType /\ pend[s]["normal"].type = NoType
        /\ stack' = << Act(s, "resume"), Process(s) >> \o rest
        /\ UNCHANGED pend
-----------------------------------------------------------------------------
(* switchNwRat: the guards are those of the code, in its order.              *)
Top      == Head(stack)
Rest     == Tail(stack)
Calls(op) == stack # << >> /\ Top.op = op

\* Mutant: a record that is replaced is not answered
MutQueueRecord(s, caller, t, act, msg) ==
  LET rec == [type |-> t, act |-> act, msg |-> msg] IN
  /\ pend' = IF caller = "restrict" THEN [pend EXCEPT ![s]["restrict"] = rec]
             ELSE [pend EXCEPT ![s][caller] = rec, ![s]["restrict"].type = NoType]
  /\ answered' = answered

\* queueRatSwitchRecord
QueueRecord(s, caller, t, act, msg) ==
  LET rec == [type |-> t, act |-> act, msg |-> msg] IN
  /\ pend' = IF caller = "restrict" THEN [pend EXCEPT ![s]["restrict"] = rec]
             ELSE [pend EXCEPT ![s][caller] = rec, ![s]["restrict"].type = NoType]
  /\ answered' = IF caller = "normal" /\ pend[s]["normal"].type # NoType
                 THEN Reply(pend[s]["normal"].msg) ELSE answered

MustWait(s) == inSwitching

Restricted(f) == (restrictedCount[f.slot] > 0 \/ restrictedMode[f.slot]) /\ f.caller # "restrict"

\* Another switch runs
SwitchWaits ==
  /\ Calls("switch") /\ MustWait(Top.slot)
  /\ QueueRecord(Top.slot, Top.caller, Top.type, Top.act, Top.msg)
  /\ stack' = Rest
  /\ UNCHANGED << keptVars, modemVars, boundVars, failed >>

\* The slot is in an emergency: success, and the record waits without its request
SwitchRestricted ==
  /\ Calls("switch") /\ ~MustWait(Top.slot) /\ Restricted(Top)
  /\ pend' = IF Top.caller = "init"
             THEN [pend EXCEPT ![Top.slot]["init"] = [NoRecord EXCEPT !.type = Top.type],
                               ![Top.slot]["restrict"].type = NoType]
             ELSE [pend EXCEPT ![Top.slot]["normal"] = [NoRecord EXCEPT !.type = Top.type],
                               ![Top.slot]["restrict"].type = NoType]
  /\ answered' = Reply(Top.msg) \cup
                 (IF Top.caller = "normal" /\ pend[Top.slot]["normal"].type # NoType
                  THEN Reply(pend[Top.slot]["normal"].msg) ELSE {})
  /\ stack' = Acted(Top.slot, Top.act) \o Rest
  /\ UNCHANGED << keptVars, modemVars, boundVars, failed >>

\* A call: the mode controller is told, a request of the framework waits
SwitchInCall ==
  /\ Calls("switch") /\ ~MustWait(Top.slot) /\ ~Restricted(Top)
  /\ Top.caller # "restrict" /\ InCall
  /\ IF Top.caller = "init"
     THEN /\ stack' = << Signal(Top.slot, "not_allowed") >> \o Rest
          /\ failed' = failed \cup {Top.slot}
          /\ UNCHANGED << pend, answered >>
     ELSE /\ stack' = Acted(Top.slot, Top.act) \o Rest
          /\ pend' = [pend EXCEPT ![Top.slot]["normal"] = [NoRecord EXCEPT !.type = Top.type],
                                  ![Top.slot]["restrict"].type = NoType]
          /\ answered' = Reply(Top.msg) \cup Reply(pend[Top.slot]["normal"].msg)
          /\ UNCHANGED failed
  /\ UNCHANGED << keptVars, modemVars, boundVars >>

MayRun(f) == ~MustWait(f.slot) /\ ~Restricted(f) /\ ~(f.caller # "restrict" /\ InCall)
Target(f) == IF f.caller = "normal" THEN Filter(f.slot, f.type) ELSE f.type

\* No type that the slot can do (processPendingRatSwitchRecord, without the action),
\* or nothing to do
SwitchDone ==
  /\ Calls("switch") /\ MayRun(Top)
  /\ \/ /\ Target(Top) = NoType
        /\ stack' = << Process(Top.slot) >> \o Rest
        /\ failed' = failed \cup {Top.slot}
     \/ /\ Target(Top) # NoType /\ Target(Top) = cur[Top.slot] /\ Top.caller # "init"
        /\ stack' = Acted(Top.slot, Top.act) \o << Process(Top.slot) >> \o Rest
        /\ UNCHANGED failed
  /\ answered' = Reply(Top.msg)
  /\ UNCHANGED << keptVars, pend, modemVars, boundVars >>

MayStart(f) == /\ MayRun(f) /\ Target(f) # NoType
               /\ ~(Target(f) = cur[f.slot] /\ f.caller # "init")

\* A network scan is stopped first
ScanSlot == CHOOSE s \in scanning : \A t \in scanning : s <= t
SwitchAbortsScan ==
  /\ Calls("switch") /\ MayStart(Top) /\ scanning # {}
  /\ QueueRecord(Top.slot, Top.caller, Top.type, Top.act, Top.msg)
  /\ mcl' = Append(mcl, [op |-> "abort", slot |-> ScanSlot, type |-> NoType])
  /\ stack' = Rest
  /\ UNCHANGED << keptVars, riljType, cSlot, calls, scanning, modemType, boundVars, failed >>

AsksGmss(f) == \/ f.caller = "init" /\ Target(f) = Rats
               \/ f.caller = "normal" /\ Target(f) = Rats /\ "cdma" \notin cur[f.slot]

SwitchStarts ==
  /\ Calls("switch") /\ MayStart(Top) /\ scanning = {}
  /\ inSwitching' = TRUE
  /\ settings' = [settings EXCEPT ![Top.slot] = [@ EXCEPT !.type = Target(Top), !.caller = Top.caller,
                                                         !.act = Top.act, !.msg = Top.msg]]
  /\ mcl' = Append(mcl, [op |-> IF AsksGmss(Top) THEN "gmss" ELSE "set", slot |-> Top.slot,
                         type |-> Target(Top)])
  /\ stack' = Rest
  /\ UNCHANGED << cur, def, restrictedMode, restrictedCount, pend, riljType, cSlot, calls, scanning,
                  modemType, boundVars, answered, failed >>
-----------------------------------------------------------------------------
(* processPendingRatSwitchRecord                                            *)
HasPending(s) == \E c \in Callers : pend[s][c].type # NoType
Another(s)    == IF s = 0 THEN 1 ELSE 0

\* The record of slot s that is next
NextRecord(s) ==
  IF pend[s]["restrict"].type # NoType /\ ~restrictedMode[s] THEN "restrict"
  ELSE IF pend[s]["init"].type # NoType THEN "init"
  ELSE IF pend[s]["normal"].type # NoType THEN "normal"
  ELSE IF Another(s) \in Slots /\ HasPending(Another(s)) THEN "another"
  ELSE "none"

ProcessPending ==
  /\ Calls("process")
  /\ LET s == Top.slot
         c == NextRecord(s) IN
       \/ /\ c \in Callers
          /\ stack' = << SwitchNwRat(s, pend[s][c].type, c, pend[s][c].act, pend[s][c].msg) >> \o Rest
          /\ pend' = [pend EXCEPT ![s][c].type = NoType]
       \/ /\ c = "another" /\ stack' = << Process(Another(s)) >> \o Rest /\ UNCHANGED pend
       \/ /\ c = "none" /\ stack' = Rest /\ UNCHANGED pend
  /\ UNCHANGED << keptVars, modemVars, boundVars, answered, failed >>
-----------------------------------------------------------------------------
(* Answers of the modem.                                                    *)
Answered(op, i) == stack = << >> /\ i \in DOMAIN mcl /\ mcl[i].op = op

\* responseGetGmssRatMode, whatever the answer
ResponseGmss(i) ==
  /\ Answered("gmss", i)
  /\ mcl' = [mcl EXCEPT ![i].op = "set"]
  /\ UNCHANGED << keptVars, pend, stack, riljType, cSlot, calls, scanning, modemType, boundVars, answered,
                  failed >>

\* updateState
UpdateState(s, ok) ==
  /\ IF ok THEN /\ cur' = [cur EXCEPT ![s] = settings[s].type]
                /\ def' = IF settings[s].caller = "init" THEN [def EXCEPT ![s] = settings[s].def]
                          ELSE def
     ELSE UNCHANGED << cur, def >>
  /\ inSwitching' = FALSE

SignalIfInit(s, err) == IF settings[s].caller = "init" THEN << Signal(s, err) >> ELSE << >>

\* responseSetPreferredNetworkType, of a success
ResponseSet(i) ==
  /\ Answered("set", i)
  /\ LET s == mcl[i].slot IN
       /\ modemType' = [modemType EXCEPT ![s] = mcl[i].type]
       /\ UpdateState(s, TRUE)
       /\ stack' = SignalIfInit(s, "success") \o << Finish(s), Process(s) >>
  /\ mcl' = RemoveAt(mcl, i)
  /\ UNCHANGED << settings, restrictedMode, restrictedCount, pend, riljType, cSlot, calls, scanning,
                  boundVars, answered, failed >>

\* ... of an error; refused during a call, the framework's request waits
ResponseSetFails(i, notAllowed) ==
  /\ Answered("set", i) /\ fails < MaxFail
  /\ fails' = fails + 1
  /\ LET s == mcl[i].slot
         waits == notAllowed /\ settings[s].caller = "normal" /\ pend[s]["normal"].type = NoType IN
       /\ UpdateState(s, FALSE)
       /\ IF waits
          THEN /\ pend' = [pend EXCEPT ![s]["normal"] = [NoRecord EXCEPT !.type = settings[s].type],
                                       ![s]["restrict"].type = NoType]
               /\ answered' = Reply(settings[s].msg)
               /\ settings' = [settings EXCEPT ![s].msg = NoMsg]
          ELSE UNCHANGED << pend, answered, settings >>
       /\ stack' = SignalIfInit(s, IF notAllowed THEN "not_allowed" ELSE "error")
                   \o << Finish(s), Process(s) >>
       /\ failed' = failed \cup {s}
  /\ mcl' = RemoveAt(mcl, i)
  /\ UNCHANGED << restrictedMode, restrictedCount, riljType, cSlot, calls, scanning, modemType, sets,
                  inits, scans, callsMade >>

\* The rest of it, after the signal: mRatSettings as it then is
FinishResponse ==
  /\ Calls("finish")
  /\ stack' = Acted(Top.slot, settings[Top.slot].act) \o Rest
  /\ answered' = Reply(settings[Top.slot].msg)
  /\ UNCHANGED << keptVars, pend, modemVars, boundVars, failed >>

\* The answer of LOCAL_ABORT_AVAILABLE_NETWORK, to the slot that was scanning
ResponseAbort(i) ==
  /\ Answered("abort", i)
  /\ scanning' = scanning \ {mcl[i].slot}
  /\ stack' = IF InCall THEN << >> ELSE << Process(mcl[i].slot) >>
  /\ mcl' = RemoveAt(mcl, i)
  /\ UNCHANGED << keptVars, pend, riljType, cSlot, calls, modemType, boundVars, answered, failed >>
-----------------------------------------------------------------------------
(* Scans and calls                                                          *)
ScanStarts(s) ==
  /\ stack = << >> /\ scans < MaxScan /\ s \notin scanning
  /\ scans' = scans + 1 /\ scanning' = scanning \cup {s}
  /\ UNCHANGED << keptVars, pend, stack, riljType, cSlot, calls, mcl, modemType, sets, inits, fails,
                  callsMade, answered, failed >>

ScanEnds(s) ==
  /\ stack = << >> /\ s \in scanning /\ scanning' = scanning \ {s}
  /\ UNCHANGED << keptVars, pend, stack, riljType, cSlot, calls, mcl, modemType, boundVars, answered,
                  failed >>

\* onApVoiceCallCountChanged of every controller: a call begins, ...
AbortScans == IF scanning = {} THEN mcl
              ELSE mcl \o [i \in 1 .. Cardinality(Slots) |->
                             [op |-> "abort", slot |-> ScanSlot, type |-> NoType]]

\* ... or ends
CallEnded == [i \in 1 .. Cardinality(Slots) |-> Call("callEnded", i - 1)]

CallStarts(s) ==
  /\ stack = << >> /\ callsMade < MaxCall /\ s \notin calls
  /\ callsMade' = callsMade + 1 /\ calls' = calls \cup {s}
  /\ mcl' = AbortScans
  /\ UNCHANGED << keptVars, pend, stack, riljType, cSlot, scanning, modemType, sets, inits, fails, scans,
                  answered, failed >>

\* ... with the callbacks of other controllers after those of this one
CallEndsThen(s, more) ==
  /\ stack = << >> /\ s \in calls
  /\ calls' = calls \ {s}
  /\ stack' = CallEnded \o more
  /\ UNCHANGED << keptVars, pend, riljType, cSlot, scanning, mcl, modemType, boundVars, answered, failed >>

CallEnds(s) == CallEndsThen(s, << >>)

ResumesAfterCall(s) ==
  /\ restrictedCount[s] = 0 /\ ~InCall /\ ~restrictedMode[s]
  /\ pend[s]["init"].type # NoType \/ pend[s]["normal"].type # NoType

OnCallEnded ==
  /\ Calls("callEnded")
  /\ stack' = (IF ResumesAfterCall(Top.slot) THEN << Process(Top.slot) >> ELSE << >>) \o Rest
  /\ UNCHANGED << keptVars, pend, modemVars, boundVars, answered, failed >>
-----------------------------------------------------------------------------
\* onRestrictedModeChanged: EMERGENCY_MODE or EMERGENCY_CALLBACK_MODE is set (ok) or reset
OnRestrictedModeChanged ==
  /\ Calls("restrictedMode")
  /\ LET s == Top.slot
         n == IF Top.ok THEN restrictedCount[s] + 1 ELSE restrictedCount[s] - 1 IN
       /\ restrictedCount' = [restrictedCount EXCEPT ![s] = n]
       /\ stack' = (IF ~Top.ok /\ n = 0 /\ ~InCall THEN << Process(s) >> ELSE << >>) \o Rest
  /\ UNCHANGED << inSwitching, cur, def, settings, restrictedMode, pend, modemVars, boundVars,
                  answered, failed >>

RatCalls == SwitchWaits \/ SwitchRestricted \/ SwitchInCall \/ SwitchDone \/ SwitchAbortsScan
            \/ SwitchStarts \/ ProcessPending \/ FinishResponse \/ OnCallEnded
            \/ OnRestrictedModeChanged

RatResponses == \E i \in DOMAIN mcl : ResponseGmss(i) \/ ResponseSet(i) \/ ResponseAbort(i)
RatFails     == \E i \in DOMAIN mcl, b \in BOOLEAN : ResponseSetFails(i, b)
CallsEnd     == \E s \in Slots : CallEnds(s) \/ ScanEnds(s)
RatInput     == \E s \in Slots : CallStarts(s) \/ ScanStarts(s)
=============================================================================
