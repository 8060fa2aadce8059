------------------------------ MODULE SimSwitch ------------------------------
(***************************************************************************)
(* The SIM switch on the modem side of the RIL daemon: the major slot      *)
(* moves, the modem remaps its protocol stacks to the slots (ESIMMAP or    *)
(* EPSMAP), and the AT channels follow: reader and descriptor of a class   *)
(* of channels are exchanged between the slots, under the restart and      *)
(* reader mutexes of the channels.                                         *)
(*                                                                         *)
(* The switch runs in a handler of one channel (class "own", RIL_CMD_9),   *)
(* which it does not lock itself.  With NoReset the URC channels (and      *)
(* class "vsim", RIL_CMD_11) are exchanged by the URC handler, on the last *)
(* of the indications the modem sends to every slot.                       *)
(***************************************************************************)
EXTENDS Naturals, FiniteSets, SequencesExt

CONSTANT Instances   \* what the device and the bounds of the run may be

ASSUME SimSwitchAssumption ==
  \A i \in Instances :
    /\ i.simCount \in Nat \ {0, 1} /\ i.noReset \in BOOLEAN /\ i.ownSlot \in 0 .. i.simCount - 1
    /\ i.classes \in Seq({"urc", "cmd", "sms", "own", "vsim"})
    /\ {"urc", "own"} \subseteq Range(i.classes)
    /\ {i.switches, i.commands, i.unsolicited, i.errors, i.timeouts} \subseteq Nat

VARIABLE inst   \* the instance that runs

SimCount       == inst.simCount
ClassOrder     == inst.classes       \* the classes of channels in the order of their numbers
NoReset        == inst.noReset       \* isDssNoResetSupport
OwnSlot        == inst.ownSlot       \* the slot whose channel runs the switch
MaxSwitches    == inst.switches      \* bound: switches
MaxCommands    == inst.commands      \* bound: commands of the senders
MaxUnsolicited == inst.unsolicited   \* bound: unsolicited lines
MaxErrors      == inst.errors        \* bound: ESIMMAP commands that fail
MaxTimeouts    == inst.timeouts      \* bound: ESIMMAP commands that time out

Slots == 0 .. SimCount - 1
Classes == Range(ClassOrder)
Channels == Classes \X Slots   \* a channel, its context, and the reader and descriptor it starts with
own == << "own", OwnSlot >>

VARIABLES
  fd,           \* per channel, the descriptor of its sender
  ctxOf,        \* per reader, its context and channel
  needWait, restartMutex, readerMutex,   \* per context: flag, owners
  place, line,  \* per reader: where it is, and with which line
  lines,        \* per descriptor, lines not yet read: << kind, slot >>
  owed,         \* per descriptor, the command the modem works on
  waiting,      \* per context, the command whose answer is awaited, or "none"
  result,       \* per context, the final response
  sender,       \* per channel of class "cmd", its place
  sw, todo,     \* the switch: its place, and the channels it has still to lock or unlock
  urcAt, uk,    \* the URC handler: its place, and the slot it has come to
  urcOld, urcNew,   \* the slots it exchanges
  majorSlot, target,   \* MAIN_CAPABILITY_SLOT, and the slot asked for
  mdMajor,      \* the modem's major slot
  urcFlag,      \* CAPABILITY_SWITCH_URC_CHANNEL
  s_urc_count,
  mapUrcs,      \* the slots of ESIMMAP indications that wait for the URC handler
  switches, commands, unsolicited, errors, timeouts,   \* counters
  \* history
  caught,       \* readers whose context was exchanged while they held a reader mutex
  misrouted     \* a response was processed in a context that awaits none

readers  == << place, line >>
mutexes  == << needWait, restartMutex, readerMutex >>
modem    == << lines, owed, mdMajor >>
urcVars  == << urcAt, uk, urcOld, urcNew, s_urc_count >>
counters == << switches, commands, unsolicited, errors, timeouts >>
vars == << inst, fd, ctxOf, mutexes, readers, modem, waiting, result, sender, sw, todo, urcVars, majorSlot,
           target, urcFlag, mapUrcs, counters, caught, misrouted >>
-----------------------------------------------------------------------------
Init ==
  /\ inst \in Instances
  /\ fd = [c \in Channels |-> c] /\ ctxOf = [r \in Channels |-> r]
  /\ needWait = [c \in Channels |-> FALSE]
  /\ restartMutex = [c \in Channels |-> "free"] /\ readerMutex = [c \in Channels |-> "free"]
  /\ place = [r \in Channels |-> "idle"] /\ line = [r \in Channels |-> << "none", 0 >>]
  /\ lines = [f \in Channels |-> << >>] /\ owed = [f \in Channels |-> "none"]
  /\ waiting = [c \in Channels |-> "none"] /\ result = [c \in Channels |-> "none"]
  /\ sender = [c \in Channels |-> "idle"]
  /\ sw = "idle" /\ todo = {} /\ urcAt = "idle" /\ uk = 1 /\ urcOld = 0 /\ urcNew = 0
  /\ majorSlot = 0 /\ target = 0 /\ mdMajor = 0
  /\ urcFlag = FALSE /\ s_urc_count = 0 /\ mapUrcs = << >>
  /\ switches = 0 /\ commands = 0 /\ unsolicited = 0 /\ errors = 0 /\ timeouts = 0
  /\ caught = {} /\ misrouted = FALSE

OfClass(class) == [i \in 1 .. SimCount |-> << class, i - 1 >>]

Exchanged == Classes \ (IF NoReset THEN {"urc", "vsim"} ELSE {"urc"})

\* Mutant: the channel of the switch itself is not left out
MutAffected == (Exchanged \X Slots) \cup IF NoReset THEN {} ELSE {"urc"} \X Slots

\* The channels that are locked: not the switch's own, and with NoReset no URC channels
Affected ==
  ((Exchanged \X Slots) \ {own}) \cup IF NoReset THEN {} ELSE {"urc"} \X Slots

\* The channels are numbered slot by slot
Number(class) == CHOOSE i \in DOMAIN ClassOrder : ClassOrder[i] = class
Before(c, d) == c[2] < d[2] \/ (c[2] = d[2] /\ Number(c[1]) < Number(d[1]))

\* The SMS channels first (they may be busy for long), then the others, URCs last
LockRound(c) == IF c[1] = "sms" THEN 0 ELSE IF c[1] = "urc" THEN 2 ELSE 1
LockedBefore(c, d) ==
  LockRound(c) < LockRound(d) \/ (LockRound(c) = LockRound(d) /\ Before(c, d))

\* In the order of their numbers, URCs last
UnlockedBefore(c, d) ==
  \/ c[1] # "urc" /\ d[1] = "urc"
  \/ (c[1] = "urc" <=> d[1] = "urc") /\ Before(c, d)
-----------------------------------------------------------------------------
(* Readers: readline, then under the reader mutex of the context they have *)
(* at that moment, processLine                                             *)

ReadLine(r) ==
  /\ place[r] = "idle" /\ lines[r] # << >>
  /\ line' = [line EXCEPT ![r] = Head(lines[r])]
  /\ lines' = [lines EXCEPT ![r] = Tail(@)]
  /\ place' = [place EXCEPT ![r] = "have"]
  /\ UNCHANGED << fd, ctxOf, mutexes, owed, mdMajor, waiting, result, sender, sw, todo, urcVars,
                  majorSlot, target, urcFlag, mapUrcs, counters, caught, misrouted >>

TakeReaderMutex(r) ==
  /\ place[r] = "have" /\ readerMutex[ctxOf[r]] = "free"
  /\ readerMutex' = [readerMutex EXCEPT ![ctxOf[r]] = "reader"]
  /\ place' = [place EXCEPT ![r] = "taken"]
  /\ UNCHANGED << fd, ctxOf, needWait, restartMutex, line, modem, waiting, result, sender, sw, todo,
                  urcVars, majorSlot, target, urcFlag, mapUrcs, counters, caught, misrouted >>

\* processLine: a final response ends the command, an indication goes to its handler
ProcessLine(r) ==
  /\ place[r] = "taken"
  /\ LET c == ctxOf[r] IN
     /\ IF line[r][1] \in {"ok", "error"}
        THEN /\ waiting' = [waiting EXCEPT ![c] = "none"]
             /\ result' = [result EXCEPT ![c] = IF waiting[c] = "none" THEN @ ELSE line[r][1]]
             /\ misrouted' = (misrouted \/ waiting[c] = "none")
        ELSE UNCHANGED << waiting, result, misrouted >>
     /\ mapUrcs' = IF line[r][1] = "map" THEN Append(mapUrcs, line[r][2]) ELSE mapUrcs
  /\ place' = [place EXCEPT ![r] = "processed"]
  /\ UNCHANGED << fd, ctxOf, mutexes, line, modem, sender, sw, todo, urcVars, majorSlot, target,
                  urcFlag, counters, caught >>

\* The mutex of the context it has now; after a switch indication it waits for the
\* URC channels to be exchanged before it reads on
ReleaseReaderMutex(r) ==
  /\ place[r] = "processed"
  /\ readerMutex' = [readerMutex EXCEPT ![ctxOf[r]] = "free"]
  /\ place' = [place EXCEPT ![r] = IF line[r][1] = "map" THEN "waitFlag" ELSE "idle"]
  /\ UNCHANGED << fd, ctxOf, needWait, restartMutex, line, modem, waiting, result, sender, sw, todo,
                  urcVars, majorSlot, target, urcFlag, mapUrcs, counters, caught, misrouted >>

WaitFlag(r) ==
  /\ place[r] = "waitFlag" /\ ~urcFlag
  /\ place' = [place EXCEPT ![r] = "idle"]
  /\ UNCHANGED << fd, ctxOf, mutexes, line, modem, waiting, result, sender, sw, todo, urcVars,
                  majorSlot, target, urcFlag, mapUrcs, counters, caught, misrouted >>

Reader(r) ==
  ReadLine(r) \/ TakeReaderMutex(r) \/ ProcessLine(r) \/ ReleaseReaderMutex(r) \/ WaitFlag(r)
-----------------------------------------------------------------------------
(* The modem (external) *)

\* A command is answered; ESIMMAP changes the mapping and is announced on every slot
ModemAnswers(f) ==
  /\ owed[f] # "none"
  /\ \E answer \in {"ok", "error"} :
       /\ answer = "error" => owed[f] = "map" /\ errors < MaxErrors
       /\ errors' = IF answer = "error" THEN errors + 1 ELSE errors
       /\ mdMajor' = IF owed[f] = "map" /\ answer = "ok" THEN target ELSE mdMajor
       /\ lines' = [g \in Channels |->
            IF g = f THEN Append(lines[g], << answer, 0 >>)
            ELSE IF g[1] = "urc" /\ NoReset /\ owed[f] = "map" /\ answer = "ok"
                 THEN Append(lines[g], << "map", target >>) ELSE lines[g]]
  /\ owed' = [owed EXCEPT ![f] = "none"]
  /\ UNCHANGED << fd, ctxOf, mutexes, readers, waiting, result, sender, sw, todo, urcVars, majorSlot,
                  target, urcFlag, mapUrcs, switches, commands, unsolicited, timeouts, caught,
                  misrouted >>

Unsolicited(f) ==
  /\ unsolicited < MaxUnsolicited
  /\ unsolicited' = unsolicited + 1
  /\ lines' = [lines EXCEPT ![f] = Append(@, << "urc", 0 >>)]
  /\ UNCHANGED << fd, ctxOf, mutexes, readers, owed, mdMajor, waiting, result, sender, sw, todo,
                  urcVars, majorSlot, target, urcFlag, mapUrcs, switches, commands, errors,
                  timeouts, caught, misrouted >>
-----------------------------------------------------------------------------
(* An ordinary sender: RfxSender::processMessage with a command *)

Send(c, command) ==
  /\ waiting' = [waiting EXCEPT ![c] = command]
  /\ result' = [result EXCEPT ![c] = "none"]
  /\ owed' = [owed EXCEPT ![fd[c]] = command]

StartHandler(c) ==
  /\ c[1] = "cmd" /\ sender[c] = "idle" /\ commands < MaxCommands
  /\ restartMutex[c] = "free"
  /\ restartMutex' = [restartMutex EXCEPT ![c] = "sender"]
  /\ commands' = commands + 1
  /\ Send(c, "plain")
  /\ sender' = [sender EXCEPT ![c] = "handling"]
  /\ UNCHANGED << fd, ctxOf, needWait, readerMutex, readers, lines, mdMajor, sw, todo, urcVars,
                  majorSlot, target, urcFlag, mapUrcs, switches, unsolicited, errors, timeouts,
                  caught, misrouted >>

\* The handler is done; if a switch is under way, the sender gives the mutex up
EndHandler(c) ==
  /\ sender[c] = "handling" /\ waiting[c] = "none"
  /\ restartMutex' = [restartMutex EXCEPT ![c] = "free"]
  /\ sender' = [sender EXCEPT ![c] = IF needWait[c] THEN "condition" ELSE "idle"]
  /\ UNCHANGED << fd, ctxOf, needWait, readerMutex, readers, modem, waiting, result, sw, todo,
                  urcVars, majorSlot, target, urcFlag, mapUrcs, counters, caught, misrouted >>

\* m_restartCondition was signalled: the wait takes the mutex and releases it
Resume(c) ==
  /\ sender[c] = "signalled" /\ restartMutex[c] = "free"
  /\ sender' = [sender EXCEPT ![c] = "idle"]
  /\ UNCHANGED << fd, ctxOf, mutexes, readers, modem, waiting, result, sw, todo, urcVars, majorSlot,
                  target, urcFlag, mapUrcs, counters, caught, misrouted >>
-----------------------------------------------------------------------------
(* lockRestartMutex, unlockRestartMutex and switchChannel, on the switch's *)
(* thread or the URC handler's                                             *)

\* The three steps of lockRestartMutex
NeedWait(c) == needWait' = [needWait EXCEPT ![c] = TRUE] /\ UNCHANGED << restartMutex, readerMutex >>
\* Mutant: the restart mutex is not taken
MutLockRestart(c) == UNCHANGED << needWait, restartMutex, readerMutex >>

LockRestart(c) ==
  /\ restartMutex[c] = "free"
  /\ restartMutex' = [restartMutex EXCEPT ![c] = "switch"]
  /\ UNCHANGED << needWait, readerMutex >>

\* Mutant: the reader mutex is not taken
MutLockReader(c) == UNCHANGED << needWait, restartMutex, readerMutex >>

LockReader(c) ==
  /\ readerMutex[c] = "free"
  /\ readerMutex' = [readerMutex EXCEPT ![c] = "switch"]
  /\ UNCHANGED << needWait, restartMutex >>

Unlock(c) ==
  /\ needWait' = [needWait EXCEPT ![c] = FALSE]
  /\ readerMutex' = [readerMutex EXCEPT ![c] = "free"]
  /\ restartMutex' = [restartMutex EXCEPT ![c] = "free"]
  /\ sender' = [sender EXCEPT ![c] = IF @ = "condition" THEN "signalled" ELSE @]

\* switchChannelByRealId as a permutation of the slots of a class
Swap(p, a, b) == [p EXCEPT ![a] = p[b], ![b] = p[a]]

\* Mutant: with more than two SIMs too, the old and the new slot are exchanged through slot 0
MutPermutation(old, new) == Swap(Swap([s \in Slots |-> s], 0, old), 0, new)

\* switchChannel: through slot 0 with two SIMs, else neighbour by neighbour
Permutation(old, new) ==
  LET id == [s \in Slots |-> s]
      up[i \in Slots] == IF i <= old THEN id ELSE Swap(up[i - 1], i - 1, i)
      down[i \in Slots] == IF i >= old THEN id ELSE Swap(down[i + 1], i + 1, i)
  IN IF old = new THEN id
     ELSE IF SimCount < 3 THEN Swap(Swap(id, 0, old), 0, new)
     ELSE IF new > old THEN up[new] ELSE down[new]

SwitchChannels(classes, old, new) ==
  LET p == Permutation(old, new)
      from(c) == IF c[1] \in classes THEN << c[1], p[c[2]] >> ELSE c
  IN /\ fd' = [c \in Channels |-> fd[from(c)]]
     /\ ctxOf' = [r \in Channels |-> CHOOSE c \in Channels : from(c) = ctxOf[r]]
     /\ caught' = caught \cup {r \in Channels : place[r] \in {"taken", "processed"}
                                               /\ ctxOf'[r] # ctxOf[r]}
-----------------------------------------------------------------------------
(* requestSetRadioCapability *)

swRest == << readers, modem, waiting, result, urcVars, majorSlot, target, mapUrcs >>

\* The handler starts with its restart mutex held
StartSwitch(new) ==
  /\ sw = "idle" /\ switches < MaxSwitches /\ restartMutex[own] = "free"
  /\ switches' = switches + 1
  /\ target' = new
  /\ restartMutex' = [restartMutex EXCEPT ![own] = "sender"]
  /\ sw' = "need" /\ todo' = Affected
  /\ UNCHANGED << fd, ctxOf, needWait, readerMutex, readers, modem, waiting, result, sender,
                  urcVars, majorSlot, urcFlag, mapUrcs, commands, unsolicited, errors, timeouts,
                  caught, misrouted >>

LockChannels ==
  /\ sw \in {"need", "restart", "reader"}
  /\ \E c \in todo :
       /\ \A d \in todo \ {c} : LockedBefore(c, d)
       /\ \/ sw = "need" /\ NeedWait(c) /\ sw' = "restart" /\ UNCHANGED todo
          \/ sw = "restart" /\ LockRestart(c) /\ sw' = "reader" /\ UNCHANGED todo
          \/ sw = "reader" /\ LockReader(c) /\ sw' = "need" /\ todo' = todo \ {c}
  /\ UNCHANGED << fd, ctxOf, swRest, sender, urcFlag, counters, caught, misrouted >>

\* The URC channels are exchanged here, or left to the URC handler
Locked ==
  /\ sw = "need" /\ todo = {}
  /\ sw' = "map"
  /\ IF NoReset THEN urcFlag' = TRUE /\ UNCHANGED << fd, ctxOf, caught >>
     ELSE SwitchChannels({"urc"}, majorSlot, target) /\ UNCHANGED urcFlag
  /\ UNCHANGED << mutexes, swRest, sender, todo, counters, misrouted >>

SendMap ==
  /\ sw = "map"
  /\ Send(own, "map")
  /\ sw' = "mapWait"
  /\ UNCHANGED << fd, ctxOf, mutexes, readers, lines, mdMajor, urcVars, majorSlot, target, mapUrcs,
                  sender, todo, urcFlag, counters, caught, misrouted >>

\* The response is there: an error is sent again
MapAnswered ==
  /\ sw = "mapWait" /\ waiting[own] = "none"
  /\ sw' = IF result[own] = "error" THEN "map" ELSE "waitUrc"
  /\ UNCHANGED << fd, ctxOf, mutexes, swRest, sender, todo, urcFlag, counters, caught, misrouted >>

\* A command that times out has getSuccess() = -1, which the loop takes for success
MapTimesOut ==
  /\ sw = "mapWait" /\ waiting[own] # "none" /\ timeouts < MaxTimeouts
  /\ timeouts' = timeouts + 1
  /\ waiting' = [waiting EXCEPT ![own] = "none"]
  /\ sw' = "waitUrc"
  /\ UNCHANGED << fd, ctxOf, mutexes, readers, modem, result, urcVars, majorSlot, target, mapUrcs,
                  sender, todo, urcFlag, switches, commands, unsolicited, errors, caught, misrouted >>

\* The URC channels are done: setSimSwitchProp, and the other channels
SwitchAll ==
  /\ sw = "waitUrc" /\ ~urcFlag
  /\ majorSlot' = target
  /\ SwitchChannels(Exchanged, majorSlot, target)
  /\ sw' = "unlock" /\ todo' = Affected
  /\ UNCHANGED << mutexes, readers, modem, waiting, result, urcVars, target, mapUrcs, sender,
                  urcFlag, counters, misrouted >>

\* waitSIMInitDone gives up after ten seconds: the modem is reset, the handler returns
SimInitFails ==
  /\ sw = "waitUrc" /\ ~urcFlag /\ NoReset
  /\ majorSlot' = target
  /\ sw' = "gaveUp"
  /\ restartMutex' = [restartMutex EXCEPT ![own] = "free"]
  /\ UNCHANGED << fd, ctxOf, needWait, readerMutex, readers, modem, waiting, result, urcVars,
                  target, mapUrcs, sender, todo, urcFlag, counters, caught, misrouted >>

UnlockChannels ==
  /\ sw = "unlock"
  /\ \E c \in todo :
       /\ \A d \in todo \ {c} : UnlockedBefore(c, d)
       /\ Unlock(c)
       /\ todo' = todo \ {c}
  /\ UNCHANGED << fd, ctxOf, swRest, sw, urcFlag, counters, caught, misrouted >>

EndSwitch ==
  /\ sw = "unlock" /\ todo = {}
  /\ sw' = "idle"
  /\ restartMutex' = [restartMutex EXCEPT ![own] = "free"]
  /\ UNCHANGED << fd, ctxOf, needWait, readerMutex, swRest, sender, todo, urcFlag, counters, caught,
                  misrouted >>

Switching ==
  LockChannels \/ Locked \/ SendMap \/ MapAnswered \/ SwitchAll \/ UnlockChannels \/ EndSwitch
-----------------------------------------------------------------------------
(* handleSimSwitchUrc, under s_switch_urc_channel_mutex: one at a time *)

urcRest == << readers, modem, waiting, result, sw, todo, majorSlot, target, counters, misrouted >>
urcSlots == << urcOld, urcNew >>

\* checkIfSwitch: the last of the indications, while a switch waits for them
CheckIfSwitch ==
  /\ urcAt = "idle" /\ mapUrcs # << >>
  /\ mapUrcs' = Tail(mapUrcs)
  /\ IF urcFlag /\ s_urc_count + 1 = SimCount
     THEN s_urc_count' = 0 /\ urcAt' = "lockReaders"
     ELSE s_urc_count' = (IF urcFlag THEN s_urc_count + 1 ELSE s_urc_count) /\ UNCHANGED urcAt
  /\ uk' = 1 /\ urcOld' = majorSlot /\ urcNew' = Head(mapUrcs)
  /\ UNCHANGED << fd, ctxOf, mutexes, urcRest, sender, urcFlag, caught >>

LockReaders ==
  /\ urcAt = "lockReaders" /\ uk <= SimCount
  /\ LockReader(OfClass("urc")[uk])
  /\ uk' = uk + 1
  /\ UNCHANGED << fd, ctxOf, urcRest, urcSlots, sender, urcAt, s_urc_count, urcFlag, mapUrcs, caught >>

SwitchUrc ==
  /\ urcAt = "lockReaders" /\ uk = SimCount + 1
  /\ SwitchChannels({"urc"}, urcOld, urcNew)
  /\ urcFlag' = FALSE
  /\ urcAt' = (IF "vsim" \in Classes THEN "need" ELSE "unlockReaders") /\ uk' = 1
  /\ UNCHANGED << mutexes, urcRest, urcSlots, sender, s_urc_count, mapUrcs >>

LockVsim ==
  /\ urcAt \in {"need", "restart", "reader"} /\ uk <= SimCount
  /\ LET c == OfClass("vsim")[uk] IN
       \/ urcAt = "need" /\ NeedWait(c) /\ urcAt' = "restart" /\ uk' = uk
       \/ urcAt = "restart" /\ LockRestart(c) /\ urcAt' = "reader" /\ uk' = uk
       \/ urcAt = "reader" /\ LockReader(c) /\ urcAt' = "need" /\ uk' = uk + 1
  /\ UNCHANGED << fd, ctxOf, urcRest, urcSlots, sender, s_urc_count, urcFlag, mapUrcs, caught >>

SwitchVsim ==
  /\ urcAt = "need" /\ uk = SimCount + 1
  /\ SwitchChannels({"vsim"}, urcOld, urcNew)
  /\ urcAt' = "unlockVsim" /\ uk' = 1
  /\ UNCHANGED << mutexes, urcRest, urcSlots, sender, s_urc_count, urcFlag, mapUrcs >>

UnlockVsim ==
  /\ urcAt = "unlockVsim"
  /\ IF uk <= SimCount
     THEN Unlock(OfClass("vsim")[uk]) /\ uk' = uk + 1 /\ UNCHANGED urcAt
     ELSE UNCHANGED << mutexes, sender >> /\ urcAt' = "unlockReaders" /\ uk' = 1
  /\ UNCHANGED << fd, ctxOf, urcRest, urcSlots, s_urc_count, urcFlag, mapUrcs, caught >>

UnlockReaders ==
  /\ urcAt = "unlockReaders"
  /\ IF uk <= SimCount
     THEN /\ readerMutex' = [readerMutex EXCEPT ![OfClass("urc")[uk]] = "free"]
          /\ uk' = uk + 1 /\ UNCHANGED urcAt
     ELSE UNCHANGED readerMutex /\ urcAt' = "idle" /\ uk' = 1
  /\ UNCHANGED << fd, ctxOf, needWait, restartMutex, urcRest, urcSlots, sender, s_urc_count, urcFlag,
                  mapUrcs, caught >>

SimSwitchUrc ==
  CheckIfSwitch \/ LockReaders \/ SwitchUrc \/ LockVsim \/ SwitchVsim \/ UnlockVsim \/ UnlockReaders
-----------------------------------------------------------------------------
Steps ==
  \/ \E r \in Channels : Reader(r) \/ ModemAnswers(r) \/ Unsolicited(r)
  \/ \E c \in Channels : StartHandler(c) \/ EndHandler(c) \/ Resume(c)
  \/ \E new \in Slots : StartSwitch(new)
  \/ Switching \/ MapTimesOut \/ SimInitFails
  \/ SimSwitchUrc

Next == Steps /\ UNCHANGED inst

Spec == Init /\ [][Next]_vars

\* The threads run and the modem answers: as long as one of them can go on, one does
Progress ==
  \/ \E c \in Channels : Reader(c) \/ ModemAnswers(c) \/ EndHandler(c) \/ Resume(c)
  \/ Switching \/ SimSwitchUrc
FairSpec == Spec /\ WF_vars(Progress /\ UNCHANGED inst)
-----------------------------------------------------------------------------
(* Properties *)

TypeOK ==
  /\ IsInjective(fd) /\ fd \in [Channels -> Channels]
  /\ IsInjective(ctxOf) /\ ctxOf \in [Channels -> Channels]
  /\ needWait \in [Channels -> BOOLEAN]
  /\ restartMutex \in [Channels -> {"free", "sender", "switch"}]
  /\ readerMutex \in [Channels -> {"free", "reader", "switch"}]
  /\ place \in [Channels -> {"idle", "have", "taken", "processed", "waitFlag"}]
  /\ line \in [Channels -> {"none", "ok", "error", "map", "urc"} \X Slots]
  /\ \A f \in Channels : lines[f] \in Seq({"ok", "error", "map", "urc"} \X Slots)
  /\ mapUrcs \in Seq(Slots)
  /\ owed \in [Channels -> {"none", "plain", "map"}]
  /\ waiting \in [Channels -> {"none", "plain", "map"}]
  /\ result \in [Channels -> {"none", "ok", "error"}]
  /\ sender \in [Channels -> {"idle", "handling", "condition", "signalled"}]
  /\ sw \in {"idle", "need", "restart", "reader", "map", "mapWait", "waitUrc", "unlock", "gaveUp"}
  /\ urcAt \in {"idle", "lockReaders", "need", "restart", "reader", "unlockVsim", "unlockReaders"}
  /\ {majorSlot, target, mdMajor, urcOld, urcNew} \subseteq Slots
  /\ urcFlag \in BOOLEAN /\ s_urc_count \in 0 .. SimCount - 1
  /\ caught \subseteq Channels /\ misrouted \in BOOLEAN

\* No reader changes its channel between the lock and the unlock of a reader mutex, the
\* readers of the switch's own channel excepted, whose mutexes the switch may not take
\* (lockRestartMutex, RmcCapabilitySwitchRequestHandler.cpp:613): else it would unlock
\* the mutex of the channel it got and leave the one it took locked for good
ReaderExcluded == \A r \in caught : r[1] = "own"

\* A response is processed in the context of the command it answers: no command is on
\* its way while its channel's reader and descriptor are exchanged
AnswersRouted == ~misrouted \/ timeouts > 0

\* The protocol stack the modem maps to a slot: 0 for the major slot, the others in
\* the order of AT+EPSMAP (RmcCapabilitySwitchRequestHandler.cpp:162-171)
Protocol(major, s) == IF s = major THEN 0 ELSE Cardinality({t \in Slots \ {major} : t < s}) + 1

\* Between switches every channel of every slot has the descriptor and the reader of
\* the protocol stack the modem maps to that slot; no channel stays locked and no sender
\* stays on its condition
MappingAgrees ==
  sw = "idle" /\ urcAt = "idle" =>
    /\ timeouts = 0 \/ NoReset
         => /\ majorSlot = mdMajor
            /\ \A c \in Channels : /\ fd[c] = << c[1], Protocol(mdMajor, c[2]) >>
                                   /\ ctxOf[fd[c]] = c
    /\ \A c \in Channels : /\ ~needWait[c] /\ restartMutex[c] # "switch"
                           /\ readerMutex[c] # "switch" /\ sender[c] # "condition"

\* The sender of the command channel of a slot is in its handler, or waits for the switch
Sending(slot) == \E c \in Channels : c = << "cmd", slot >> /\ sender[c] # "idle"

\* A switch ends, unless it gives up, loses its reader, or an answer to a command it no
\* longer awaits makes it wait for indications that do not come: the mutexes it takes one by one
\* while senders and the URC handler hold others do not block it for good.  Without a reset
\* the first switch: a reader polls the flag every 5 ms and could only miss its fall if the
\* next switch, seconds later, raised it before (RfxReader.cpp:136).  Nor does it block
\* others: a command that was sent is answered, and a sender that waits for it goes on.
SwitchEnds ==
  /\ sw = "need" /\ (NoReset => switches = 1)
       ~> (sw \in {"idle", "gaveUp"} \/ caught # {} \/ timeouts > 0)
  /\ \A slot \in {0, 1} :
       Sending(slot) ~> (~Sending(slot) \/ sw = "gaveUp" \/ caught # {} \/ timeouts > 0)
=============================================================================
