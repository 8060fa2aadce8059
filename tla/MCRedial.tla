------------------------------ MODULE MCRedial ------------------------------
(* RatSwitch and Redial with the framework's own settings of the RAT, scans, *)
(* a mode controller that tries once, and other calls.                       *)
EXTENDS Redial, TLC

Gsm  == {"gsm"}
Both == {"gsm", "cdma"}

NoRedial == [slots |-> {0, 1}, types |-> {Gsm, Both}, set |-> 0, init |-> 0, fail |-> 0, scan |-> 0,
             call |-> 0, dial |-> 0, global |-> 0, hangup |-> 0, eccMode |-> 0,
             ecbmRestricts |-> TRUE]
Redialed == [NoRedial EXCEPT !.slots = {0}, !.dial = 1, !.global = 1]

\* Switches of two slots, refused and during a call; with a scan; redials with a
\* setting of the framework, SET_ECC_MODE, and a switch of the mode controller, also
\* where the emergency modes do not restrict the slot
RatInstances ==
  { [NoRedial EXCEPT !.set = 2, !.init = 1, !.fail = 1, !.call = 1],
    [NoRedial EXCEPT !.types = {Both}, !.set = 2, !.init = 1, !.scan = 1, !.call = 1],
    [Redialed EXCEPT !.set = 1, !.fail = 1, !.dial = 2, !.global = 2, !.hangup = 1],
    [Redialed EXCEPT !.fail = 1, !.dial = 3, !.global = 0, !.eccMode = 2],
    [Redialed EXCEPT !.slots = {0, 1}, !.set = 1, !.init = 1, !.hangup = 1],
    [Redialed EXCEPT !.init = 1, !.hangup = 1, !.ecbmRestricts = FALSE] }

VARIABLE late     \* history: a switch of the redial's had to wait, or was dropped

\* switchNwRat, of a type that the mode controller asked for and the redial resumes: in
\* a call it tells the mode controller and forgets the redial's action.
Dropped == /\ Calls("switch") /\ ~MustWait(Top.slot) /\ ~Restricted(Top) /\ InCall
           /\ Top.caller = "init" /\ Top.act # "none"

allVars == << vars, late >>
Late    == late' = (late \/ Dropped \/ \E c \in Callers : pend'[0][c].act # "none")

Init == InitRat /\ InitRedial /\ late = FALSE

\* The signal, to a mode controller that waits for nothing
OnRatSwitchDone ==
  /\ Calls("signal")
  /\ stack' = Rest
  /\ UNCHANGED << ratKept, redialVars >>

Steps ==
  \/ RedialCalls \/ RedialModem \/ RedialInput \/ OnRatSwitchDone
  \/ (RatCalls \/ RatResponses \/ RatFails) /\ UNCHANGED redialVars
  \/ (\E s \in Slots : ScanStarts(s) \/ ScanEnds(s)) /\ UNCHANGED redialVars
  \/ (\E s \in Slots : inst.dial = 0 /\ (CallStarts(s) \/ CallEnds(s))) /\ UNCHANGED redialVars
  \/ (\E s \in Slots, t \in AskedTypes : SetPreferredNetworkType(s, t)) /\ UNCHANGED redialVars
  \/ (\E s \in Slots, t \in AskedTypes, b \in BOOLEAN : ModeSwitch(s, t, b)) /\ UNCHANGED redialVars

Next == Steps /\ Late /\ UNCHANGED inst

Progress ==
  \/ RedialCalls \/ RedialModem \/ OnRatSwitchDone
  \/ (RatCalls \/ RatResponses \/ \E s \in Slots : ScanEnds(s)) /\ UNCHANGED redialVars
  \/ (\E s \in Slots : inst.dial = 0 /\ CallEnds(s)) /\ UNCHANGED redialVars

Spec == Init /\ [][Next]_allVars /\ WF_allVars(Progress /\ Late /\ UNCHANGED inst)
-----------------------------------------------------------------------------
\* The records, requests and calls, and the state of the redial, have their types.
TypeOK ==
  /\ inSwitching \in BOOLEAN
  /\ cur \in [Slots -> NwTypes \cup {NoType}] /\ def \in [Slots -> NwTypes \cup {NoType}]
  /\ pend \in [Slots -> [Callers -> Record]]
  /\ restrictedMode \in [Slots -> BOOLEAN] /\ calls \subseteq Slots /\ scanning \subseteq Slots
  /\ answered \subseteq Messages
  /\ \A i \in DOMAIN mcl : mcl[i].op \in {"gmss", "set", "abort"} /\ mcl[i].slot \in Slots
  /\ redialState \in {"none", "dialing", "dialed", "done"}
  /\ ratOp \in {"none", "global", "resume", "resume_pending"} /\ ratState \in BOOLEAN
  /\ emcs \in 0 .. (MaxDial + MaxEccMode) /\ voice \in 0 .. 1
  /\ mo \in {"none", "dialed", "known"} /\ dial \in {"none", "dial", "redial"}
  /\ mdCall \in {"none", "new", "up"}
  /\ deferred => redialState # "none"

Switching == {i \in DOMAIN mcl : mcl[i].op # "abort"}

\* Every SET_PREFERRED_NETWORK_TYPE is answered, though it waits behind a switch
\* of any slot, a scan, a call, a redial or another request that replaces it.  What
\* waits is taken up in the end: when everything has come to rest, no slot has a
\* record left, unless a redial left it.  A call the modem wants in the global mode is
\* dialed again, or its end reported, unless a switch had to wait (handleCallInfoUpdate,
\* redial).
RequestsEnd ==
  /\ <>[](/\ answered = 1 .. sets
          /\ inst.dial > 0 \/ \A s \in Slots : ~HasPending(s))
  /\ redialState = "dialing" ~> redialState # "dialing" \/ late

\* A slot that has nothing to do and no switch of which was refused
AtRest(s) == stack = << >> /\ Switching = {} /\ ~HasPending(s) /\ s \notin failed

\* In the whole daemon at most one slot's RAT is being switched, and the flag says
\* whether one is (switchNwRat, updateState).  A slot at rest runs the type the
\* framework asked for last, as far as the slot's default type allows, unless the modem
\* refused it, or an older setting was left waiting and ran after it: by the abort of a
\* scan, by a slot in the restricted mode, which does not pass the turn on, or with a
\* third slot, which processPendingRatSwitchRecord does not know.
TypeSettles ==
  /\ Cardinality(Switching) = IF inSwitching THEN 1 ELSE 0
  /\ \A s \in Slots : AtRest(s) /\ NoType \notin {riljType[s], def[s], cur[s]}
                      /\ inst.dial = 0 /\ inst.scan = 0 /\ Slots \subseteq {0, 1} =>
       /\ modemType[s] = cur[s]
       /\ cur[s] = InitTarget(s, def[s])

\* No emergency session is left, with the modem or on its way there
NoSession ==
  /\ stack = << >> /\ dial = "none" /\ mdCall = "none" /\ ~mdDue /\ ~mdEcbm /\ ~eccAsked
  /\ ~resumed /\ mcl = << >> /\ redialState # "dialing"

\* increaseEmcsCount, decreaseEmcsCountAndIsZero: SET_ECC_MODE, the calls, their
\* failures, the callback mode and its end count the sessions so that the emergency
\* mode is left after the last of them -- and, as the modem wants it ("ATDE >
\* +CIEV:102,0 > AT+EMCS=0"), only when it has reported the end of the session, so
\* never during its call (where no SET_ECC_MODE was taken back).  The mode outlives
\* the sessions if a switch of the redial's had to wait or was dropped.
EmergencyReleased ==
  /\ NoSession => emcs = 0 /\ (inEmergency => late)
  /\ stack = << >> /\ mdCall # "none" /\ inst.eccMode = 0 => inEmergency

\* setRatMode: after the last session the slot is out of the restricted mode and
\* runs the type the framework asked for, unless a switch had to wait, or a scan was
\* aborted, or a SET_ECC_MODE may have been taken back, which resumes nothing, or the
\* emergency does not restrict the slot, so that a setting may pass one that waits.
RatRestored ==
  NoSession /\ ~late /\ inst.dial > 0 /\ inst.scan = 0 /\ inst.eccMode = 0 /\ EcbmRestricts =>
    /\ ratOp = "none" /\ ~ratState /\ ~restrictedMode[0] /\ restrictedCount[0] = 0
    /\ cur[0] = Filter(0, riljType[0]) \/ riljType[0] = NoType \/ 0 \in failed \/ HasPending(0)
=============================================================================
