----------------------------- MODULE MCRadioPower -----------------------------
(* RadioPower alone: the framework, the boot, and the data controller *)
EXTENDS RadioPower, FiniteSetsExt

\* Two requests per slot over the boot, with and without a card in each slot; commands
\* that fail twice, and the modem powered off; and attach and detach
RadioInstances ==
  { [asked |-> 2, fail |-> 1, data |-> 0, boot |-> TRUE, canPowerOff |-> FALSE],
    [asked |-> 1, fail |-> 2, data |-> 0, boot |-> TRUE, canPowerOff |-> TRUE],
    [asked |-> 1, fail |-> 2, data |-> 2, boot |-> FALSE, canPowerOff |-> FALSE] }

Steps ==
  \/ RadioProgress \/ RadioInput \/ AnswerRadioPower \/ OnAttachOrDetachDone
  \/ \E s \in Slots, on \in BOOLEAN : DataConnection(s, on)

Next == Steps /\ UNCHANGED inst

Progress == RadioProgress \/ AnswerRadioPower \/ OnAttachOrDetachDone

Spec == InitRadio /\ [][Next]_radioVars /\ WF_radioVars(Progress /\ UNCHANGED inst)
-----------------------------------------------------------------------------
PoweredOff == modemPowerOff \/ hadPowerOffMd

\* The status keys, the messages and the bounds have their types.
TypeOK ==
  /\ radioLock \in [Slots -> Locks]
  /\ requestRadioPower \in [Slots -> BOOLEAN] /\ msimMode \in [Slots -> BOOLEAN]
  /\ modemPowerOff \in BOOLEAN /\ hadPowerOffMd \in BOOLEAN /\ cardType \subseteq Slots
  /\ \A s \in Slots : /\ cmds[s] \in Seq(Cmd) /\ toRadio[s] \in Seq(BOOLEAN)
                      /\ efun[s] \in Seq(SUBSET Slots)
                      /\ replies[s] \in Seq({"success", "not_available"})
  /\ answers \in Seq([cmd : Cmd, ok : BOOLEAN]) /\ timers \in Seq(Cmd)
  /\ modemOn \subseteq Slots /\ detached \subseteq Slots
  /\ crossed \subseteq Slots /\ stale \subseteq Slots /\ undone \in BOOLEAN
  /\ dataReplies \in 0 .. MaxData

Count(s) == Len(cmds[s]) + Quantify(DOMAIN answers, LAMBDA i : answers[i].cmd.slot = s)
                         + Quantify(DOMAIN timers, LAMBDA i : timers[i].slot = s)

\* canHandleRequest and the retry of handleRadioPowerResponse: of a slot at most
\* one power request is under way, sent, failed or waiting to be sent again, and
\* the slot stays locked by the radio controller until it has succeeded.  An attach
\* or a detach resets every lock (handleDataConnectionAttach), so not with those.
OneCommandPerSlot ==
  MaxData = 0 => \A s \in Slots : Count(s) <= 1 /\ (Count(s) = 1 => radioLock[s] = "radio")

\* An unlocked slot is on only if its power was requested (REQUEST_RADIO_POWER), and it
\* has the power that was last requested of it (RADIO_POWER_MSIM_MODE), as the
\* capability switch and the world mode back it up.  The second fails after
\* BOOT_TURN_ON for a request it overtook, and for a slot turned on before that has no
\* card or is not in the SIM mode: the boot turns it off and leaves what was requested
\* (bootupSetRadioPower).  Attach and detach change the power behind the request.
KeysAgree ==
  MaxData = 0 => \A s \in Slots : radioLock[s] = "idle" =>
    /\ msimMode[s] => requestRadioPower[s]
    /\ s \notin crossed => (requestRadioPower[s] => msimMode[s])

\* The slots the modem has on are those stored as on, over boot, retries, attach and
\* detach, unless the last AT+EFUN done was built from keys another's then changed.
ModemFollows == ~undone /\ ~modemPowerOff => modemOn = {s \in Slots : msimMode[s]}

\* What was requested, what is stored and what the modem has agree, but for these cases.
PowerSettles == KeysAgree /\ ModemFollows

\* RADIO_POWER is answered with success only when the slot has the power it asked for
\* (handleRadioPowerResponse, the mode stored by requestRadioPower), unless the boot
\* crossed it.
SuccessIsPower ==
  [][MaxData = 0 => \A s \in Slots :
       Len(replies'[s]) > Len(replies[s]) /\ Last(replies'[s]) = "success" =>
         s \in crossed \/ msimMode[s] = Head(answers).cmd.on]_radioVars

\* Every power request is answered in the end, failing commands and all, unless
\* the modem was powered off (then the request refused keeps the lock) or the slot
\* is detached (its lock is then the data controller's).  And the action of a module's
\* request is called when its request has succeeded, however often it was sent
\* (mActionMap is keyed by the token, which the retry must put back): every attach and
\* detach is answered.  A success is never answered before the slot has the power.
AllAnswered ==
  /\ SuccessIsPower
  /\ <>[](PoweredOff \/ \A s \in Slots : ~UnderWay(s) /\ (toRadio[s] = << >> \/ radioLock[s] = "data"))
  /\ <>[](modemPowerOff \/ dataReplies = datas)
=============================================================================
