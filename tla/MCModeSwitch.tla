---------------------------- MODULE MCModeSwitch ----------------------------
(* ModeSwitch with the framework's settings of the RAT, calls and refusals *)
EXTENDS ModeSwitch

Bounds == [slots |-> {0, 1}, types |-> {{"gsm", "cdma"}}, set |-> 0, init |-> 0, fail |-> 0,
           scan |-> 0, call |-> 1, plug |-> 0, ecc |-> 0, simSwitch |-> 0, emergency |-> 0,
           power |-> 0]

\* A card changed and a setting of the framework, with a switch the modem refuses, or
\* a SIM switch; or a switch for an emergency call, an emergency and the modem powered
\* off.  Each with a call.
ModeInstances ==
  { [Bounds EXCEPT !.plug = 1, !.set = 1, !.fail = 1],
    [Bounds EXCEPT !.plug = 1, !.simSwitch = 1],
    [Bounds EXCEPT !.ecc = 1, !.emergency = 1],
    [Bounds EXCEPT !.ecc = 1, !.power = 1] }

Init == InitRat /\ InitMode

Steps ==
  \/ ModeCalls
  \/ (ModeEnds \/ ModeInput) /\ UNCHANGED lastSwitch
  \/ RatCalls /\ UNCHANGED << modeVars, lastSwitch >>
  \/ (ModeResponses \/ ModeFails) /\ UNCHANGED modeVars
  \/ (\E s \in Slots : CallStarts(s)) /\ UNCHANGED << modeVars, lastSwitch >>
  \/ (\E s \in Slots, t \in AskedTypes : SetPreferredNetworkType(s, t)) /\ UNCHANGED << modeVars, lastSwitch >>

Next == Steps /\ UNCHANGED inst

Progress == \/ ModeCalls
            \/ ModeEnds /\ UNCHANGED lastSwitch
            \/ RatCalls /\ UNCHANGED << modeVars, lastSwitch >>
            \/ ModeResponses /\ UNCHANGED modeVars

Spec == Init /\ [][Next]_vars /\ WF_vars(Progress /\ UNCHANGED inst)
-----------------------------------------------------------------------------
\* The records, the queue and the owner of the modem have their types, and the
\* queue has slots only during a mode switch.
TypeOK ==
  /\ modemOff \in {"idle", "mode", "sim", "power"}
  /\ info \in [Slots -> Info] /\ \A i \in DOMAIN waiting : waiting[i] \in [Slots -> Info]
  /\ cSlot \in Slots /\ oldC \in Slots /\ main \in Slots
  /\ Range(queue) \subseteq Slots /\ (queue # << >> => modemOff = "mode")
  /\ callWatch \subseteq Slots /\ emergencyWatch \subseteq Slots
  /\ modemWatch => modemOff = "sim"

\* The main thread has nothing to do for the mode
AtRest == stack = << >> /\ modemOff = "idle" /\ waiting = << >> /\ posted = 0 /\ due = {}

\* mPendingRecord: whatever the cards had to wait for, the last that were reported
\* are the last the mode was switched to; and a slot has the default type of its card
\* and of the slot with CDMA, except one whose last mode switch the modem refused.
\* An empty slot may keep the type it had with the same capability.
LastCardsRun ==
  AtRest /\ reported = Slots =>
    /\ \A s \in Slots : info[s].card = lastInfo[s].card /\ info[s].ecc = lastInfo[s].ecc
    /\ \A s \in Slots : lastSwitch[s] # "refused" =>
         \/ def[s] = DefaultType(s)
         \/ info[s].card = "none" /\ raf[s] = Capability(s)

\* setupSwitchQueue takes the slot with CDMA last, so that never two slots run it;
\* and when no mode is being switched, the slot that is said to be capable of CDMA is
\* the one that runs it, though a call broke a switch off (handleSendEratFailByCall).
\* Two kinds of slot are not counted, until a mode switch of theirs has gone through:
\* one of which the modem refused to take CDMA; and an empty one whose switch a call
\* broke off, and which is then passed over as if it had been done, its new capability
\* having been stored before the switch (setSlotCapability, KeepsRat).
SwitchedCdma == {s \in Slots : "cdma" \in modemType[s] /\ lastSwitch[s] \notin {"refused", "skipped"}}
OneCdmaSlot ==
  /\ Cardinality(SwitchedCdma) <= 1
  /\ stack = << >> /\ modemOff # "mode" => SwitchedCdma \subseteq {cSlot}

\* Every mode switch ends and what waited is taken up, whatever it waited for; and
\* a SIM switch that has ended is told that the RAT of its slots is set
\* (onModeSwitchFinished), though the mode switch is broken off by a call.
ModeSettles == <>[](modemOff # "mode" /\ waiting = << >> /\ ~ending)
=============================================================================
