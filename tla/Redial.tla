------------------------------- MODULE Redial -------------------------------
(***************************************************************************)
(* RtcRedialController of slot 0, over RatSwitch: an emergency call that   *)
(* the modem ends with "change to global mode" is dialed again once the    *)
(* RAT of the slot is global; the emergency mode and the RAT are given     *)
(* back when the last emergency session has ended.                         *)
(*                                                                         *)
(* The functions of the controller are calls on RatSwitch's stack, which   *)
(* call setPreferredNetworkType and are called back by its action.  A      *)
(* callback of a status key goes to the end of the stack.                  *)
(***************************************************************************)
EXTENDS RatSwitch

ASSUME RedialAssumption ==
  \A i \in Instances :
    /\ {i.dial, i.global, i.hangup, i.eccMode} \subseteq Nat
    /\ i.eccMode > 0 => i.slots = {0}
    /\ i.ecbmRestricts \in BOOLEAN

VARIABLES
  redialState,    \* mRedialState
  ratState,       \* mRatState = REDIAL_RAT_CHANGED
  ratOp,          \* mRatOp
  emcs,           \* mEmcsCount
  inEmergency,    \* mInEmergencyMode, and EMERGENCY_MODE
  ecbm,           \* mEcbm = EMERGENCY_CALLBACK_MODE_ENTER
  eccModeSent,    \* mIsEccModeSent
  eccAsked,       \* the framework has set the mode and not made its call
  mo,             \* mMoCall: none, without or with its call id
  hangUping,      \* mIsUserHangUping
  deferred,       \* the message of the first disconnection is deferred
  resumed,        \* ... and was put back into the queue
  waitsForCount,  \* VOICE_CALL_COUNT's callback is registered
  voice,          \* VOICE_CALL_COUNT of slot 0
  dial,           \* the dial or redial request the modem has yet to answer
  mdCall,         \* the call of the modem: none, new, or up (its id reported)
  mdDue,          \* the modem has yet to report how the session ended
  mdEcbm,         \* the modem is in the emergency callback mode
  dials, globals, hangups, eccModes      \* bounds

\* Bounds, and isECBMRestrictedModeSupport
MaxDial       == inst.dial      \* emergency calls
MaxGlobal     == inst.global    \* calls the modem ends for a redial
MaxHangup     == inst.hangup    \* HANGUP requests
MaxEccMode    == inst.eccMode   \* SET_ECC_MODE requests (one slot, without EMCI)
EcbmRestricts == inst.ecbmRestricts

rdKept   == << eccModeSent, eccAsked, mdDue, mdEcbm, dials, globals, hangups, eccModes >>
rdCall   == << redialState, mo, hangUping, deferred, resumed, dial, mdCall >>
rdMode   == << emcs, inEmergency, ecbm >>
rdRat    == << ratState, ratOp, waitsForCount >>
redialVars == << rdKept, rdCall, rdMode, rdRat, voice >>
ratKept  == << keptVars, pend, modemVars, boundVars, answered, failed >>
vars     == << ratVars, redialVars >>
-----------------------------------------------------------------------------
Global == Rats          \* getGlobalRatMode
Fun(op)           == Call(op, 0)
SetRatMode(op)    == [Fun("ratMode") EXCEPT !.act = op]
SetEmergency      == Fun("emergencyOff")
ForceRelease      == Fun("forceRelease")
UpdateCallCount   == Fun("noCall")
RestrictedMode(on) == IF EcbmRestricts THEN << [Fun("restrictedMode") EXCEPT !.ok = on] >>
                      ELSE << >>

InitRedial ==
  /\ redialState = "none" /\ ratState = FALSE /\ ratOp = "none"
  /\ emcs = 0 /\ inEmergency = FALSE /\ ecbm = FALSE /\ eccModeSent = FALSE /\ eccAsked = FALSE
  /\ mo = "none" /\ hangUping = FALSE /\ deferred = FALSE /\ resumed = FALSE
  /\ waitsForCount = FALSE /\ voice = 0
  /\ dial = "none" /\ mdCall = "none" /\ mdDue = FALSE /\ mdEcbm = FALSE
  /\ dials = 0 /\ globals = 0 /\ hangups = 0 /\ eccModes = 0

Decreased == IF emcs = 0 THEN 0 ELSE emcs - 1
-----------------------------------------------------------------------------
(* Requests of the framework                                                *)

\* handleEmergencyDial, up to resetController
HandleEmergencyDial ==
  /\ emcs' = IF eccModeSent THEN emcs ELSE emcs + 1
  /\ inEmergency' = TRUE
  /\ stack' = IF inEmergency THEN << >> ELSE RestrictedMode(TRUE)

EmergencyDial ==
  /\ stack = << >> /\ dials < MaxDial
  /\ 0 \notin calls /\ dial = "none" /\ mdCall = "none"
  /\ dials' = dials + 1
  /\ HandleEmergencyDial
  /\ eccModeSent' = FALSE /\ eccAsked' = FALSE
  /\ redialState' = "none" /\ deferred' = FALSE /\ hangUping' = FALSE /\ mo' = "dialed"
  /\ dial' = "dial"
  /\ UNCHANGED << ratKept, ecbm, rdRat, voice, resumed, mdCall, mdDue, mdEcbm, globals, hangups,
                  eccModes >>

\* REQUEST_HANGUP of the call; the modem ends the session if it waits for the redial
Hangup ==
  /\ stack = << >> /\ hangups < MaxHangup /\ 0 \in calls /\ mo = "known"
  /\ hangups' = hangups + 1
  /\ hangUping' = TRUE
  /\ mdDue' = (mdDue \/ (~hangUping /\ mdCall = "none" /\ dial = "none"))
  /\ UNCHANGED << ratVars, rdMode, rdRat, voice, redialState, mo, deferred, resumed, dial, mdCall,
                  eccModeSent, eccAsked, mdEcbm, dials, globals, eccModes >>

\* SET_ECC_MODE, before the call in flight mode, or taken back if none is made
SetEccMode(on) ==
  /\ stack = << >> /\ eccAsked' = on
  /\ IF on
     THEN /\ eccModes < MaxEccMode /\ ~eccAsked /\ 0 \notin calls /\ dial = "none" /\ mdCall = "none"
          /\ eccModes' = eccModes + 1
          /\ eccModeSent' = TRUE /\ emcs' = emcs + 1 /\ inEmergency' = TRUE
          /\ stack' = IF inEmergency THEN << >> ELSE RestrictedMode(TRUE)
     ELSE /\ eccAsked
          /\ emcs' = Decreased
          /\ IF emcs <= 1
             THEN /\ eccModeSent' = FALSE /\ inEmergency' = FALSE
                  /\ stack' = IF inEmergency THEN RestrictedMode(FALSE) ELSE << >>
             ELSE UNCHANGED << eccModeSent, inEmergency, stack >>
          /\ UNCHANGED eccModes
  /\ UNCHANGED << ratKept, ecbm, rdCall, rdRat, voice, mdDue, mdEcbm, dials, globals, hangups >>
-----------------------------------------------------------------------------
(* setRatMode, onRatModeSwitchDone, setEmergencyMode                        *)

RatModeUnchanged ==
  /\ Calls("ratMode") /\ Top.act = "resume" /\ ratOp = "resume"
  /\ stack' = Rest
  /\ UNCHANGED << ratKept, redialVars >>

RatModePending ==
  /\ Calls("ratMode") /\ Top.act = "resume" /\ ratOp # "resume" /\ ratState /\ voice > 0
  /\ ratOp' = "resume_pending" /\ waitsForCount' = TRUE
  /\ stack' = Rest
  /\ UNCHANGED << ratKept, rdKept, rdCall, rdMode, ratState, voice >>

RatModeGlobal ==
  /\ Calls("ratMode") /\ Top.act = "global"
  /\ ratOp' = "global"
  /\ IF cur[0] = Global
     THEN /\ stack' = << Act(0, "global") >> \o Rest
          /\ UNCHANGED << keptVars, pend, ratState >>
     ELSE /\ ratState' = TRUE
          /\ EnterRestricted(0, Global, Rest)
          /\ UNCHANGED << inSwitching, cur, def, settings, restrictedCount >>
  /\ UNCHANGED << modemVars, boundVars, answered, failed, rdKept, rdCall, rdMode, waitsForCount,
                  voice >>

\* Mutant: the RAT is not given back
MutRatModeResume ==
  /\ Calls("ratMode") /\ Top.act = "resume" /\ ratOp # "resume" /\ ~(ratState /\ voice > 0)
  /\ ratOp' = "resume"
  /\ stack' = << Act(0, "resume") >> \o Rest
  /\ UNCHANGED << keptVars, pend, ratState >>
  /\ UNCHANGED << modemVars, boundVars, answered, failed, rdKept, rdCall, rdMode, waitsForCount,
                  voice >>

RatModeResume ==
  /\ Calls("ratMode") /\ Top.act = "resume" /\ ratOp # "resume" /\ ~(ratState /\ voice > 0)
  /\ ratOp' = "resume"
  /\ IF ~ratState
     THEN /\ stack' = << Act(0, "resume") >> \o Rest
          /\ UNCHANGED << keptVars, pend, ratState >>
     ELSE /\ ratState' = FALSE
          /\ LeaveRestricted(0, Rest)
          /\ UNCHANGED << inSwitching, cur, def, settings, restrictedCount >>
  /\ UNCHANGED << modemVars, boundVars, answered, failed, rdKept, rdCall, rdMode, waitsForCount,
                  voice >>

\* onRatModeSwitchDone of the global mode: redial, getRedialRequest
RatIsGlobal ==
  /\ Calls("act") /\ Top.act = "global"
  /\ \/ /\ hangUping
        /\ stack' = << SetRatMode("resume") >> \o Rest
        /\ resumed' = (resumed \/ deferred) /\ deferred' = FALSE
        /\ UNCHANGED << redialState, dial >>
     \/ /\ ~hangUping /\ mo = "none"
        /\ stack' = Rest
        /\ UNCHANGED << resumed, deferred, redialState, dial >>
     \/ /\ ~hangUping /\ mo # "none"
        /\ stack' = Rest
        /\ dial' = "redial" /\ redialState' = "dialed"
        /\ UNCHANGED << resumed, deferred >>
  /\ UNCHANGED << ratKept, rdKept, rdMode, rdRat, voice, mo, hangUping, mdCall >>

\* ... of the resumed mode
RatIsResumed ==
  /\ Calls("act") /\ Top.act = "resume"
  /\ ratOp' = "none"
  /\ stack' = << SetEmergency >> \o Rest
  /\ UNCHANGED << ratKept, rdKept, rdCall, rdMode, ratState, waitsForCount, voice >>

\* setEmergencyMode(false), canReleaseEmergencySession
EmergencyOff ==
  /\ Calls("emergencyOff")
  /\ IF inEmergency /\ emcs = 0
     THEN inEmergency' = FALSE /\ stack' = Rest \o RestrictedMode(FALSE)
     ELSE stack' = Rest /\ UNCHANGED inEmergency
  /\ UNCHANGED << ratKept, rdKept, rdCall, rdRat, emcs, ecbm, voice >>

\* Mutant: the RAT is resumed at once
MutForceReleaseEmergency ==
  /\ Calls("forceRelease")
  /\ mo' = "none"
  /\ stack' = << SetRatMode("resume") >> \o Rest
  /\ UNCHANGED << emcs, ecbm >>
  /\ UNCHANGED << ratKept, rdKept, rdRat, voice, inEmergency, redialState, hangUping, deferred,
                  resumed, dial, mdCall >>

ForceReleaseEmergency ==
  /\ Calls("forceRelease")
  /\ mo' = "none"
  /\ \/ /\ ecbm
        /\ ecbm' = FALSE /\ emcs' = Decreased
        /\ stack' = (IF emcs <= 1 THEN << SetRatMode("resume") >> ELSE << >>) \o Rest
                    \o RestrictedMode(FALSE)
     \/ /\ ~ecbm /\ ratOp # "none"
        /\ emcs' = Decreased
        /\ stack' = << SetRatMode("resume") >> \o Rest
        /\ UNCHANGED ecbm
     \/ /\ ~ecbm /\ ratOp = "none" /\ inEmergency
        /\ emcs' = Decreased
        /\ stack' = << SetEmergency >> \o Rest
        /\ UNCHANGED ecbm
     \/ /\ ~ecbm /\ ratOp = "none" /\ ~inEmergency
        /\ stack' = Rest
        /\ UNCHANGED << emcs, ecbm >>
  /\ UNCHANGED << ratKept, rdKept, rdRat, voice, inEmergency, redialState, hangUping, deferred,
                  resumed, dial, mdCall >>

\* RtcCallController::updateCallCount, the call gone; onCallCountChanged is told
NoCall ==
  /\ Calls("noCall")
  /\ voice' = 0 /\ calls' = calls \ {0}
  /\ stack' = Rest \o (IF voice > 0 /\ waitsForCount THEN << Fun("countZero") >> ELSE << >>)
                   \o (IF 0 \in calls THEN CallEnded ELSE << >>)
  /\ UNCHANGED << keptVars, pend, riljType, cSlot, scanning, mcl, modemType, boundVars, answered, failed,
                  rdKept, rdCall, rdMode, rdRat >>

OnCallCountChanged ==
  /\ Calls("countZero")
  /\ waitsForCount' = FALSE
  /\ stack' = (IF ratOp = "resume_pending" THEN << SetRatMode("resume") >> ELSE << >>) \o Rest
  /\ UNCHANGED << ratKept, rdKept, rdCall, rdMode, ratState, ratOp, voice >>
-----------------------------------------------------------------------------
(* Answers and indications of the modem                                     *)

DialAccepted ==
  /\ stack = << >> /\ dial # "none" /\ ~mdDue
  /\ dial' = "none" /\ mdCall' = "new"
  /\ UNCHANGED << ratVars, rdKept, rdMode, rdRat, voice, redialState, mo, hangUping, deferred,
                  resumed >>

\* notifyRilResponse of a dial or redial that failed
DialFails ==
  /\ stack = << >> /\ dial # "none" /\ fails < MaxFail
  /\ fails' = fails + 1 /\ dial' = "none"
  /\ stack' = << ForceRelease >>
  /\ UNCHANGED << keptVars, pend, modemVars, sets, inits, scans, callsMade, answered, failed, rdKept,
                  rdMode, rdRat, voice, redialState, mo, hangUping, deferred, resumed, mdCall >>

\* handleCallInfoUpdate, ECPI_MSG_TYPE_CALL_ID_ASSIGN; kept back if it is of a redial
CallIdAssigned ==
  /\ stack = << >> /\ mdCall = "new"
  /\ mdCall' = "up"
  /\ mo' = IF mo = "none" THEN mo ELSE "known"
  /\ IF mo # "none" /\ redialState # "none"
     THEN /\ voice' = voice + 1 /\ redialState' = "done"
          /\ UNCHANGED << calls, mcl >>
     ELSE /\ voice' = 1 /\ calls' = calls \cup {0} /\ mcl' = AbortScans
          /\ UNCHANGED redialState
  /\ UNCHANGED << keptVars, pend, stack, riljType, cSlot, scanning, modemType, boundVars, answered, failed,
                  rdKept, rdMode, rdRat, hangUping, deferred, resumed, dial >>

\* ECPI_MSG_TYPE_CALL_DISCONNECT; kept back if the call is to be redialed
Disconnected(cause) ==
  LET toGlobal == mo = "known" /\ ~hangUping /\ cause = "global" IN
  \/ /\ toGlobal /\ redialState = "none"
     /\ voice' = voice - 1 /\ deferred' = TRUE /\ redialState' = "dialing"
     /\ stack' = << SetRatMode("global") >>
                 \o (IF voice = 1 /\ waitsForCount THEN << Fun("countZero") >> ELSE << >>)
     /\ UNCHANGED << mo, hangUping >>
  \/ /\ toGlobal /\ redialState # "none"
     /\ stack' = << ForceRelease, UpdateCallCount >>
     /\ UNCHANGED << voice, deferred, redialState, mo, hangUping >>
  \/ /\ mo = "known" /\ ~toGlobal
     /\ deferred' = FALSE /\ redialState' = "none" /\ hangUping' = FALSE /\ mo' = "none"
     /\ stack' = << UpdateCallCount >>
     /\ UNCHANGED voice
  \/ /\ mo # "known"
     /\ stack' = << UpdateCallCount >>
     /\ UNCHANGED << voice, deferred, redialState, mo, hangUping >>

CallDisconnected(cause) ==
  /\ stack = << >> /\ mdCall = "up" /\ ~mdEcbm
  /\ cause = "global" => globals < MaxGlobal
  /\ globals' = globals + (IF cause = "global" THEN 1 ELSE 0)
  /\ mdCall' = "none" /\ mdDue' = (cause = "normal" \/ hangUping)
  /\ Disconnected(cause)
  /\ UNCHANGED << ratKept, rdMode, rdRat, resumed, dial, eccModeSent, eccAsked, mdEcbm, dials, hangups,
                  eccModes >>

\* The message that was deferred
Resumed ==
  /\ stack = << >> /\ resumed
  /\ resumed' = FALSE
  /\ Disconnected("global")
  /\ UNCHANGED << ratKept, rdKept, rdMode, rdRat, dial, mdCall >>

\* handleEmergencyCallbackMode(EMERGENCY_CALLBACK_MODE_EXIT)
EcbmExit ==
  /\ emcs' = Decreased /\ ecbm' = FALSE
  /\ stack' = (IF emcs <= 1 THEN << SetRatMode("resume") >> ELSE << >>)
              \o (IF ecbm THEN RestrictedMode(FALSE) ELSE << >>)

\* ENTER_EMERGENCY_CALLBACK_MODE or NO_EMERGENCY_CALLBACK_MODE
SessionEnds(enter) ==
  /\ stack = << >> /\ mdDue
  /\ mdDue' = FALSE
  /\ IF enter
     THEN /\ mdEcbm' = TRUE /\ ecbm' = TRUE
          /\ stack' = IF ecbm THEN << >> ELSE RestrictedMode(TRUE)
          /\ UNCHANGED emcs
     ELSE EcbmExit /\ UNCHANGED mdEcbm
  /\ UNCHANGED << ratKept, inEmergency, rdCall, rdRat, voice, eccModeSent, eccAsked, dials, globals, hangups,
                  eccModes >>

\* EXIT_EMERGENCY_CALLBACK_MODE
EcbmEnds ==
  /\ stack = << >> /\ mdEcbm
  /\ mdEcbm' = FALSE
  /\ EcbmExit
  /\ UNCHANGED << ratKept, inEmergency, rdCall, rdRat, voice, eccModeSent, eccAsked, mdDue, dials, globals,
                  hangups, eccModes >>
-----------------------------------------------------------------------------
RedialCalls == RatModeUnchanged \/ RatModePending \/ RatModeGlobal \/ RatModeResume \/ RatIsGlobal
               \/ RatIsResumed \/ EmergencyOff \/ ForceReleaseEmergency \/ NoCall
               \/ OnCallCountChanged

RedialModem == \/ DialAccepted \/ CallIdAssigned \/ Resumed \/ EcbmEnds
               \/ CallDisconnected("normal")
               \/ \E enter \in BOOLEAN : SessionEnds(enter)

RedialInput == \/ EmergencyDial \/ Hangup \/ DialFails \/ CallDisconnected("global")
               \/ \E on \in BOOLEAN : SetEccMode(on)
=============================================================================
