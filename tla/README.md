# TLA+ development of the MediaTek RIL in vendor_mediatek_ims

This directory holds TLA+ modules, TLC configurations and TLAPS proofs about
the radio interface layer of the repository: the daemon that takes telephony
requests from Android, turns them into AT commands for the modem, and carries
answers and unsolicited codes back. Paths below are relative to
`src/radio_stack/fusion/mtk-ril/` unless they begin with `src/`; a bare file
name is one named earlier in the same section.

Contents: 1 the system; 2 the modules; 3 the request path; 4 the AT channel;
5 status, RIL library and SIM switch; 6 the telephony core controllers; 7 the
runs; 8 the proofs; 9 what TLC found on the way; 10 what is not modelled, and
the plan.

## 1. The system

The tree is the vendor side of MediaTek's IMS stack: about 400,000 lines in
2,155 files, without design documents. Its centre is `mtk-ril` (163,000
lines), a multi-threaded message-passing program. Around it stand daemons and
libraries that configure it, multiplex the modem's serial line, set up data
interfaces, and run the media path of video calls.

### 1.1 Inventory

| Component | State it keeps | Operations | Hard behaviour | What makes it correct | Module |
|---|---|---|---|---|---|
| Request dispatch (`framework/core/RfxDispatchThread`, `RfxMainThread`, `RfxRootController`, `RfxRilAdapter`, `RfxMclDispatcherThread`) | three dispatch queues, pending queue, loopers of the main, Mcl and channel threads, suspended-message list | enqueue, drain, reject, suspend, resume, forward, answer, complete | eight or more threads; answers race with the bookkeeping of the request; admission and radio state change between any two messages | each request completed at most once and eventually, in order per controller, nothing left suspended for no reason | `RfxDispatch`, `RequestService` |
| Looper (`src/radio_stack/platformlib/common/libmtkutils/Looper.cpp`) | message list sorted by due time | send, send at the front, take | several senders | order | `Looper` |
| AT channel (`framework/core/RfxSender`, `RfxReader`, `RfxChannelContext`, `RfxAtLine`) | command mutex and condition, published response, buffered line | send a command, sort a line, acknowledge, time out, stop at end of file | two threads, a modem that answers late or not at all and interleaves URCs | an answer belongs to its command and is whole; no URC is lost; the sender wakes; the reader is never shut out | `AtChannel` |
| Handler registry, base handler (`RfxHandlerManager`, `RfxBaseHandler`) | registrations | register, find, dispatch | start-up order | every request finds its handler or NOT_SUPPORTED | `RfxDispatch` (dispatch only) |
| Admission controllers (`telcore/sms`, `telcore/nw/RtcNetworkController`) | `mSmsSending`, RAT-switch flag | preview, resume | several messages resumed together | one SMS at a time | `RfxDispatch` (constants `Serial`, `GateResponses`) |
| Status replicas (`RfxStatusManager`, `RfxMclStatusManager`, `RfxAsyncSignal`) | a value per key on either side, posted callbacks | set, sync, notify | crossing writes, requests that overtake | replicas converge, callbacks end with the current value | `StatusSync` |
| Response merging, timers (`RfxController::preprocessResponse`, `RfxTimer`) | wait list, processed list | save, match, time out | time-out against the second answer | each pair delivered once | - |
| RIL library: wake lock, timers (`src/radio_stack/fusion/libril/ril.cpp`, `ril_event.cpp`) | count, kernel lock, newest timer, timer lists | grab, acknowledge, time out | the event loop reads and writes without the mutex | lock held while owed and given back, by one timer | `WakeLock` |
| RIL library: clients, cached indications (`ril_service.cpp`, `ril.cpp`) | callbacks of a client, its connection, the cache | connect, send, cache, disconnect | a client that dies and returns | cached indications kept, in order, once | `RilUrcCache` |
| RIL library: request table, descriptors | a list per slot, watch table | add, remove, select | - | one entry per token | completions counted in `RfxDispatch` |
| SIM switch (`mdcomm/capabilityswitch`) | restart and reader mutexes, channel-to-descriptor assignment | lock all, remap, exchange, unlock | readers blocked in `read`, senders waiting, two handlers switching different channels | no answer goes to the wrong slot, the mapping is the modem's, all goes on | `SimSwitch` |
| Data allow controller (`telcore/data`, `mdcomm/data/RmcDcMsimReqHandler`) | on-demand queue, allowed slot, request under way, peers of a conflict | enqueue, dequeue, allow, resolve a conflict, retry, restart | conflicts, SIM lock, client death, restart | what is believed is what the modem allows, the wanted slot is allowed | `DataAllow` |
| Radio controller (`telcore/power/RtcRadioController`, `mdcomm/power`) | lock per slot, requested and stored power, actions by token | request, retry, boot, attach, detach, modem off | failing commands, one mask for all slots built by several threads | one command per slot, power as last asked, every action called | `RadioPower` |
| RAT switch controller (`telcore/nw/RtcRatSwitchController`) | one flag for all slots, three pending records per slot, restricted mode | switch, queue, process what waits, signal | calls, scans, restricted mode; functions that re-enter each other across slots | one switch at a time, every request answered, the type asked for | `RatSwitch` |
| Redial controller (`telcore/cc/RtcRedialController`) | redial and RAT state, session count, deferred disconnection | emergency dial, redial in global mode, give the RAT back | failures, hang-up, callback mode, other switches in between | emergency mode as long as the sessions, RAT restored | `Redial` |
| Mode switch, card type controllers (`telcore/modecontroller`) | cards, pending record, queue of slots, owner of `MODEM_OFF_STATE` | cards ready, choose the slot with CDMA, switch each slot, break off | five owners of the modem, calls, emergencies, hot plug | last cards decide, one CDMA slot, what waits is taken up | `ModeSwitch` |
| Capability switch controllers (`telcore/capabilityswitch`) | transaction state, retries | start, per-slot answer, finish | modem reset in the middle | all slots agree | environment of the two above |
| Call list, IMS conference (`telcore/cc/RtcCallController`, `telcore/ims`) | call lists, pending operations | dial, merge | unsolicited call state changes | operations finish or are rolled back | only the call count (`Redial`) |
| RIL clients (`telcore/client`) | per-client request queue | accept, read, answer | sockets that close with answers pending | answer to the right client | - |
| Other telcore controllers and mdcomm handlers | little | translate | none of its own | formats | - |
| gsm0710muxd, netagent, netdagent, wpfa | frames, transactions, a shared ring | flow control, PDN set-up, packet filters | threads and a modem | not surveyed in depth | - |
| VT service, source, sink, RTP, avsync, imsma, socketwrapper, comutils | media sessions | start, stop, buffer | prebuilt libraries | not surveyed in depth | - |
| c2kril, rild, muxreport, libratconfig, libcarrierconfig, operator, EccList | properties, tables | start-up | - | - | - |
| c-ares, libmnl, tinyxml, Android copies, APKs, `.so` files | third party | | | | - |

### 1.2 How the parts interact

```
 RILJ / RIL clients / Bluetooth SAP          HIDL clients: RilUrcCache, WakeLock
   | enqueueRequestMessage                       ^ RFX_onRequestComplete
   v                                             | RFX_SAP_onRequestComplete
 dispatchRequestQueue --drainer--> main looper --+-- RfxRootController
                                        ^             | reject / suspend / forward
                                        |             v
 dispatchResponseQueue --drainer--------+   telcore controllers: DataAllow, RadioPower,
   ^ enqueueResponseMessage                   RatSwitch <- Redial, ModeSwitch
   |                                                  | pendingQueue, Mcl looper
   |                                                  v
 RmcXxx handlers <---------------------------- channel looper (RfxSender)
   | atSendCommand (AtChannel)         RfxReader --> URC to the Mcl looper
   v                                        ^
 ======================= modem =============+      SimSwitch exchanges the channels
```

A request and its answer meet in `pendingQueue`, by token. Status values cross
in both directions as STATUS_SYNC messages on the same path (`StatusSync`).
The threads share no other state: main thread, Mcl dispatcher, three queue
drainers, one sender and one reader per channel. All telcore controllers run
on the main thread; they call each other directly and through callbacks of
status keys.

## 2. Modules

| Module | Models | Remarks |
|---|---|---|
| `Looper` | the message list of `Looper.cpp` | two FIFO segments, front and normal |
| `RfxDispatch` | the life of a request | EXTENDS `Looper` |
| `RfxDispatchInv` | inductive invariants of `RfxDispatch`, and its refinement of `RequestService` | checked by TLC and proved |
| `RequestService` | what the daemon promises about a request | abstract; implemented by `RfxDispatch` |
| `AtChannel` | one AT channel | the modem is external |
| `StatusSync` | both copies of the status keys and the paths between | EXTENDS `Looper` |
| `WakeLock` | wake lock, its timers and the event loop | |
| `RilUrcCache` | one client's connection and cached indications | |
| `SimSwitch` | the modem side of the SIM switch over all channels | readers and senders reduced to what the switch meets |
| `DataAllow` | data allow controller with the modem side | |
| `RadioPower` | radio controller with the power handlers | |
| `RatSwitch` | RAT switch controller of every slot | a library for the next two |
| `Redial` | redial controller | EXTENDS `RatSwitch` |
| `ModeSwitch` | card type and mode switch controllers | EXTENDS `RatSwitch` |
| `MC...` | instances for TLC, and for `Redial`, `ModeSwitch` and `RadioPower` the next-state relation with its environment, and the properties | `MCRilDaemon` joins `WakeLock` and `RilUrcCache` |
| `RfxDispatchProofs`, `AtChannelProofs`, `StatusSyncProofs`, `RilDaemonProofs`, `RadioPowerProofs`, `DataAllowProofs`, `SimSwitchProofs`, `RedialProofs` | theorems, section 8 | TLAPS; each EXTENDS the module it is about, `RilDaemonProofs` both `WakeLock` and `RilUrcCache`, `RadioPowerProofs` and `RedialProofs` the `MC` module with the environment |

**Idioms.** Operators whose name begins with `Mut` are faults a maintainer
might introduce. Nothing uses them; put in place of the operator they stand
next to, each makes TLC report the property listed with it in `PROJECT.json`.
Where one question needs several small instances (two slots with everything,
three slots with less), the constant `Instances` is a set of records, `Init`
chooses one into the variable `inst`, and the bounds are read from it; a run
explores each of them. Every bound is a named operator or constant, marked
`bound`, and appears only in guards of the environment or of history
counters. History variables are marked; no guard of the program reads one.
`TypeOK` is stated in every module and was checked while it was developed; the
runs spend their time on other properties, and the inductive invariants of section 8
contain the types for every module proved about.

**The stack.** The telcore controllers of `RatSwitch`, `Redial` and
`ModeSwitch` call each other, re-enter themselves and are called back by
status keys, all within one message of the main thread. `stack` holds the
calls that message still has to make, in order; each call is one action, and
no other message is taken until the stack is empty. So the order in which a
callback sees half-updated state is the order of the code.

## 3. The request path: `RfxDispatch`, `RequestService`

**State.** The three dispatch queues, the pending queue (a count per token),
`mainLooper`, `mclLooper` and `chanLooper` have the names of the code. `main`
is the program counter of the main thread: idle, inside `requestToMcl` with
the calls still to make, or walking the suspended list at index `i`.
`blocked` abstracts whatever a controller's `onPreviewMessage` looks at, and
`radioOn` the two status keys behind rejection. `place`, `issued` and `sent`
are history variables; no guard but `place[r] = "new"` reads them.

| Action | Code |
|---|---|
| `EnqueueRequest` | `enqueueRequestMessage`, `enqueueSapRequestMessage`; an unknown id is answered at once |
| `Process*Queue` | the three drainers: dequeue, `enqueueMessage` on the main looper |
| `ReplyNotSupported`, `ReplyUnavailable`, `Suspend`, `Forward`, `Deliver`, `ApplyStatusSync` | the exits of `RfxRootController::processMessage` and `RfxController::processMessage` |
| `ControllerEvent` | a timer or URC on the main thread that changes a controller's gate |
| `RequestToMcl` | `RfxRilAdapter::requestToMcl`, one call at a time |
| `ResumeMessage`, `KeepSuspended`, `HandleMessageEnd` | `processSuspendedMessage`, after every message |
| `MclDispatch`, `ChannelDispatch`, `HandlerReply` | `RfxMclMessenger`, `RfxSender::processMessage`, a handler's `responseToTelCore` |

**Choices.** `handleMessage` repeats its loop while a resumed message is
pending; `processEmit` always empties its list, so one round is one message and
the walk. `onCheckIfRemoveSuspendedMessage` is overridden nowhere and
`clearMessages` and the ignore time stamp are called or set nowhere, so they
are left out. A controller in `Serial` behaves like `RtcGsmSmsController` with
`mSmsSending`; one in `GateResponses` like `RtcNetworkController`, whose
preview looks at the message id and so holds responses too. Other controllers
may change their gate whenever their code runs. `ControllerEvent` requires that
no front message waits, because the timer or URC it stands for is a normal
message of the same looper and front messages go first; without that condition
`SuspendedInOrder` would fail in states the program cannot reach.

**Properties.** `AtMostOneReply` (a completion frees the client's
`RequestInfo`, so a second one would use a dangling token);
`FirstReplyFindsRequest` (a request the modem side holds has a pending entry);
`RequestTracked` (section 8); `ControllerOrder`, `SuspendedInOrder` (suspension
does not reorder the requests of a controller); `NoneLeftBehind` (no resumable
message stays in the list between messages); `SerialOneOutstanding` ("We only
send one request to rmc, the following request should queue in rtc",
`telcore/sms/RtcGsmSmsController.cpp:249`); `RilAnswered` (every RIL request is
completed); `SapNotSupportedAnswered` (violated, section 9).

**Refinement.** `RequestService` has a status (new, open, closed) and a count
of answers per request, and three steps: issue, answer, lose. `ImplementsService`
maps a request to its `place` and its answers to the completions on both
sockets, with the SAP requests as the ones that may be lost. A request that is
rejected on the main thread, suspended and resumed four times and answered
twice by its handler is still one open and one close with one answer.

## 4. `AtChannel`: one command at a time

**State.** `commandMutex`, `signalled` (the condition) and `m_response` (type
and response of the context, which the code always sets together) are what the
threads share. `resp[c]` is the `RfxAtResponse` of command `c`; `m_success`
is a function of its final line and not stored. `pty` holds the lines in
flight. A line is `[text, from, no]`: a class of text, and, for the properties
only, who sent it. The code under test looks at `text`. `written` and `rank`
are history: the order in which commands were written.

| Action | Code |
|---|---|
| `AtSendCommand` | the modem-off check at the head of `atSendCommandFullAck` |
| `WriteLine` | the lock and `writeline`, which fails with `AT_ERROR_GENERIC` |
| `Publish` | `setType`, `setResponse`, and the wait that releases the mutex |
| `Wake` | the loop in `atSendCommandFullNolockAck`: answer or acknowledgement |
| `TimeOut`, `ReturnTimeout` | the wait gives up; then it has the mutex again |
| `ReadLine`, `ReadSecondLine`, `ReadEof` | `readline`, SMS codes on two lines, TRM at end of file |
| `ReaderLock`, `ProcessLine` | `tryLock`, `processLine`, unlock |
| `Modem*`, `CloseChannel` | external: the modem and the multiplexer |

`TimeOut` and `ReturnTimeout` are separate because the reader may have the
mutex in between: the final response is then stored although the command
reports a time-out. On loads other than user loads a time-out asserts or ends
the sender thread with the mutex held; both are modelled as the code has them
(`exited`, `aborted`). `m_readerMutex` is only ever contended by the SIM
switch and is part of that component.

**Properties.** `AnswersOwnCommand`: lines kept for a command are its own. The
exceptions are spelled out in the property: a URC that looks like the answer,
and late answers on a user load. A late answer is taken by the *next* command,
whose own answer then goes to the one after it: a time-out puts the channel out
of step by one answer for good. The property says by no more than that
(`InStep`), so on other loads, which stop at a time-out, every line is the
command's own. Three settings in a row show the shift. `AnswerComplete`: a
successful answer has all its lines, in order. `UrcsKept`: a URC is in exactly
one place until the reader stops. `FinalWakesSender`, `ReaderDrains`: signals,
those of acknowledgements included, are not lost, and the reader always gets
the mutex back.

## 5. Status, RIL library, SIM switch

### 5.1 `StatusSync`

Every status key has a copy on the main thread (`RfxStatusManager`) and one on
the modem side (`RfxMclStatusManager`). A setter stores locally and then sends:
up through `dispatchStatusSyncQueue` and the main looper, down through the Mcl
looper, which requests share. `MclSetValue` and `UpdateValueToTelCore` are two
steps because the key's mutex is released in between; `ProcessEmit` runs the
posted callbacks with the values they were posted with. `ReplicasAgree`: the
copies differ at rest only for keys two parties set within one propagation time
(`raced`), and when no callback is left to run each was last given the current
value. `RequestFindsStatus`: a handler finds the status set before its request
was forwarded, unless the request was put at the front. `EventuallyAgree` is
the same with liveness. Left out: the mock run mode, callbacks registered late,
several slots (they share nothing but the paths).

### 5.2 `WakeLock`

`libril/ril.cpp` takes a partial wake lock for an indication that the client
has to acknowledge, and arms a timer that gives it back. Grabs replace the
timer: `grabPartialWakeLock` cancels the one in `s_last_wake_timeout_info` by
setting its `userParam` and records its own. The event loop
(`ril_event.cpp`, `userTimerCallback`) reads `userParam` and clears the record
*without* `s_wakeLockCountMutex`, so `FirePending`, `WakeTimeoutCallback`,
`CheckLast` and `ClearLast` are separate steps. `CountIsTruth`: the kernel's
lock is held only while somebody counts on it, and while somebody does unless
an allocation failed. `TimerMatchesLock`: a held lock has a timer that will
release it, and beside it no other timer, on the lists or already in
`wakeTimeoutCallback`, that would cut the newer indication short. Two timers are
not counted (`Heeded`; section 9): one that was cancelled after its mark was read,
and one wiped from the record (`wiped`). `EventuallyReleased`: the phone can sleep
again though the client never acknowledges.

### 5.3 `RilUrcCache`

Indications to one HIDL client and one slot. The main thread sends them or
caches them while the client is not connected (`CacheUrcHead`, `CacheUrc`); the
one binder thread registers the callbacks, marks the client ready and sends the
cache (`SetResponseFunctions`, `OnNewCommandConnect`, `SendUrc*`, `PopUrc`). A
call on a dead client goes through `checkReturnStatus`: release the read lock,
note the counter, take the write lock, reset unless the callbacks were renewed
(`Call`, `ResetCallbacks`, `OnCommandDisconnect`, `UnlockW`, `LockR`). Both
functions on the cache read its head *before* they take the mutex; the stale
head is a step of the model, and freed memory a choice. `CachedKept`: what was
cached stays until it was sent, in the order it arrived, each once.
`OnlyFailedReset`: a failed call resets the callbacks it failed on and never
those of a client that came up since. The instance is the AOSP radio client,
for which the second holds; section 9 says what happens for the IMS client.

### 5.4 `SimSwitch`

`requestSetRadioCapability` on the modem side: the major slot moves, the modem
remaps its protocol stacks (`SendMap`, `MapAnswered`), and the reader and
descriptor of every channel class but the switch's own are exchanged between
slots (`Swap`, `SwitchChannels`) under the restart and reader mutexes, taken
one channel at a time, of those in the set `todo` the one that is `LockedBefore`
the others. Without a modem restart (`noReset`) the
URC handler exchanges the URC and VSIM channels on the last of the indications
(`CheckIfSwitch` ... `UnlockReaders`). Readers and senders are reduced to what
the switch meets: `ReadLine`, `TakeReaderMutex` (of the context the reader has
*then*), `ProcessLine`, `WaitFlag` (the 5 ms poll), `Send`, `StartHandler`,
`EndHandler`, `Resume`. The return at `RmcCapabilitySwitchRequestHandler.cpp:193`,
which leaves every mutex held while the radio is reset, is the place `gaveUp`.
`ReaderExcluded`, `AnswersRouted`, `MappingAgrees`: no reader but those of the
switch's own channel changes its context inside a mutex, no answer reaches a
context that awaits none, and between switches every channel has the protocol
stack the modem maps to its slot and nothing stays locked. `SwitchEnds`: a
switch ends and does not block others.

Assumption: a reader notices the fall of the flag before the next switch raises
it again (it polls every 5 ms, switches are seconds apart); so without a reset
`SwitchEnds` speaks of the first switch.
## 6. Controllers of the telephony core

### 6.1 `DataAllow`

One `RtcDataAllowController` for all slots. On-demand networks (MMS, SUPL) are
queued by `RtcDataController`; the head of the queue, or else the preferred
SIM, is to be allowed (`Wanted`, `OnSetDataAllow`). Requests go one at a time
(`mDoingDataAllow`; others are suspended). When the modem refuses with 4117
because a peer is still allowed, all peers are disallowed and the request is
sent again (`HandleMultiAllowError`, `PeerDisallowed`, `ResendRequest`). The
property `allow_data_slot` survives a restart of the daemon (`Restart`).
`PropertyIsModem`: what the property says, which `onSetDataAllow` believes
without asking, is what the modem allows once all messages are done.
`WantedIsAllowed`: the slot that is allowed is the one wanted, or in the mode
without preferred data no other than the one asked for last; both unless an
EDALLOW=1 was lost. `PeersCounted`:
`mDisallowingPeer` counts exactly the peers' requests under way, and answers
keep their order. `AllowEnds`. The number of slots is the field `simCount` of an
instance. The exceptions (`allowLost`, `cleared`, a
restart) are situations of section 9. Left out: the OEM temporary data switch,
modems that set EDALLOW themselves, PS attach and detach.

### 6.2 `RadioPower`

One `RtcRadioController` per slot on the main thread, one
`RmcRadioRequestHandler` per slot on its own channel's thread. `RADIO_LOCK`
says who may change the power of a slot. A failed command is sent again after a
while with a new token (`RetryRadioPower`, `RetryTimer`), and the action that
belongs to it must follow the token. AT+EFUN carries a mask of all slots that
is read when the command is built (`TargetModes`, `SendEfun`) and stored when it
has ended (`EfunDone`, `StoredMode`).

At boot the slot whose card is the last to become known sends BOOT_TURN_ON with
the slots that have a card, any set of them (`OnSimStateChanged`, `BootCmd`).
`bootupSetRadioPower` turns on those of them the SIM mode property has too: it sets
`REQUEST_RADIO_POWER` of these and stores `RADIO_POWER_MSIM_MODE` of *every* slot, 0
for the others, whose request it leaves as it was. In airplane mode, under the
CryptKeeper and with no slot to turn on it answers with success and stores neither key
(`BootSkipped`). The property is any set of slots, chosen when the mask is
built; the loop of `MAX_RETRY_COUNT` commands is one command (`EfunFails` is its last
failure). A status key has one copy here; that it has two, which `StatusSync` keeps in
step, is not combined with this module. `RADIO_STATE` and the permutation of the mask
by the major slot are left out.

`OneCommandPerSlot`: at most one request per slot, sent, failed or waiting.
`PowerSettles` is two statements. `KeysAgree`: an unlocked slot is on only if that
was requested, and has the power last requested of it, but for a slot whose request
the boot overtook or undid (`crossed`). `ModemFollows`: the modem has on what is
stored, unless the command done last was built from keys that another's then changed
(`stale`, `undone`). `AllAnswered`: every request, attach and detach is answered, with
success only when the power is as asked. `OneCommandPerSlot`, `KeysAgree` and that
last part are stated without attach and detach (`MaxData = 0`), which reset the locks
(section 9); `ModemFollows` with them.

### 6.3 `RatSwitch`

`switchNwRat` with its outcomes (`SwitchWaits`, `SwitchRestricted`,
`SwitchInCall`, `SwitchDone`, `SwitchAbortsScan`, `SwitchStarts`), one pending
record per slot and caller (framework, mode controller, redial),
`processPendingRatSwitchRecord`, the answers of the modem with the signal to
the mode controller in their middle, calls and scans. `sIsInSwitching` is one
flag for all slots, and the end of one slot's switch takes up another's record.

### 6.4 `Redial`

An emergency call that the modem ends with "change to global mode" is dialed
again when the RAT is global; its disconnection is deferred meanwhile.
`mEmcsCount` counts emergency sessions: dial, SET_ECC_MODE, failure, callback
mode and its end. `TypeSettles` (one switch at a time in the daemon, and a slot
at rest runs the type asked for, where no emergency call and no scan comes between
and on at most two slots), `EmergencyReleased` (the emergency mode lasts
as long as a session does), `RatRestored` (the RAT is given back after the last
session, without scan and without SET_ECC_MODE, where the emergency restricts the
slot: `EcbmRestricts`, operators OP12 and OP20), `RequestsEnd` (every request is answered, nothing waits for ever, a
redial is dialed or its end reported).

Assumptions about the modem: it reports the end of every session
(NO_EMERGENCY_CALLBACK_MODE, or ENTER and later EXIT), also when the user hung
up while it waited for the redial; it leaves the callback mode before the next
emergency call ends; a redial keeps the call id. Exception in the properties:
`late`, a switch of the redial's own had to wait behind another or was dropped
because of a call (section 9).

### 6.5 `ModeSwitch`

When the SIM tasks of all slots are ready the mode controller chooses the slot
with CDMA and switches every slot's RAT in turn, the slot that loses CDMA
first (`SwitchOrder`). While another owner has `MODEM_OFF_STATE` (SIM switch,
power-off), during a call or in an emergency the cards wait in one pending
record (`EnterLater`, `EnterInCall`, `EnterInEmergency`), to be taken up by
`DealPendedModeSwitch`; a call that begins half-way breaks the switch off
(`HandleSendEratFailByCall`). `LastCardsRun`, `OneCdmaSlot`, `ModeSettles`: the
last cards reported decide, never two slots run CDMA and the one that does is
the slot said to be capable of it, everything that waits is taken up and a SIM
switch is told when the RAT is set. `lastSwitch` keeps what became of the last mode
switch of a slot. Both exceptions are of single slots and end with the next switch of
the slot that goes through: `"refused"`, the modem refused it (in `LastCardsRun` and
`OneCdmaSlot`), and `"skipped"`, a call broke it off and it was then passed over (in
`OneCdmaSlot`, section 9.2). The controller's own refusal during a call is no
exception.

Assumptions: the modem supports CDMA, no common slot,
`isECBMRestrictedModeSupport`; the assertion or modem reset after a failed
switch (`onRatSwitchDone`) continues with the next slot; a SIM switch ends; the wait for an ICCID
is left out because the code's condition for it is never true; `ct3gStatus` is
not modelled (section 9). Of the owners of `MODEM_OFF_STATE` the world phone and
the reset of the radio do not occur: the mode controller treats the one like a SIM
switch, the other like the power-off (`isEnableSwitchMode`). `PowerOn` is the end of the
power-off and the reset of the card types in one step.

## 7. Runs

| Run | Instances | Distinct states | Properties |
|---|---|---|---|
| `dispatch_gate` | 3 requests, 1 controller with a response gate, 2 channels, 2 replies | 111 thousand | `FirstReplyFindsRequest`, `RequestTracked`, `ControllerOrder`, `SuspendedInOrder`, `NoneLeftBehind` |
| `dispatch_mixed` | 3 RIL and 1 SAP request, serial controller or none, unknown id, no data, no handler | 109 thousand | `AtMostOneReply`, `SerialOneOutstanding`, `RilAnswered`, `ImplementsService` |
| `dispatch_sap` | 1 RIL and 2 SAP requests, one of unknown id | | `SapNotSupportedAnswered`, violated |
| `at_channel` | two queries, URC channel, user load; query and ATCI raw command in numeric mode, two-line SMS and a URC like the answer, internal load; three settings, user load | 10.0 million | `AnswersOwnCommand`, `UrcsKept`, `AnswerComplete` |
| `at_live` | numeric query and plain setting, user load | 121 thousand | `FinalWakesSender`, `ReaderDrains` |
| `status_sync` | 2 keys, 2 modem-side threads, 3 writes, 2 requests | 83 thousand | `ReplicasAgree`, `RequestFindsStatus`, `EventuallyAgree` |
| `ril_daemon` | wake lock: 2 threads, 4 timers, 1 failed allocation; cache: 3 indications, 2 deaths | 227 thousand | `CountIsTruth`, `TimerMatchesLock`, `EventuallyReleased`; `CachedKept`, `OnlyFailedReset` |
| `sim_switch` | 2 slots with traffic, with and without reset; 4 and 3 slots, two switches | 290 thousand | `ReaderExcluded`, `AnswersRouted`, `MappingAgrees`, `SwitchEnds` |
| `data_allow` | 2 slots with everything; 3 slots, 3 requests of the framework, or 2 of which one may be refused | 1.03 million | `PropertyIsModem`, `WantedIsAllowed`, `PeersCounted`, `AllowEnds` |
| `radio_power` | 2 slots: boot with and without cards, 2 requests each and 1 failure, or 1 request each, 2 failures and power-off; attach and detach | 1.03 million | `OneCommandPerSlot`, `PowerSettles`, `AllAnswered` |
| `redial` | switches with calls, scans, refusals; redials with failures, hang-up, SET_ECC_MODE, other switches, also where the emergency does not restrict the slot | 264 thousand | `TypeSettles`, `EmergencyReleased`, `RatRestored`, `RequestsEnd` |
| `mode_switch` | 2 slots, cards plugged with a framework setting and a refusal of the modem, or with a SIM switch; ECC mode with an emergency, or with power-off; each with a call | 969 thousand | `LastCardsRun`, `OneCdmaSlot`, `ModeSettles` |

**Bounds.** Three requests of one controller are the fewest with which a
request can be suspended behind one that is outstanding and resumed ahead of a
third; two replies give the second answer to one token. With two commands a
late answer meets the next command, with three the shift goes on to the one after
it; two lines give an order within an answer. Two threads that set one key and a third party cover every crossing of
three writes. Four timers let one fire while a second is installed, a third is
recorded and a fourth waits. Two deaths of the client give a failed call, a new
client, and a failure in the middle of sending the cache; three indications
order within it. Two slots show every exchange of one pair, four slots and two
switches a permutation that is not its own inverse. Two slots and two networks
give a conflict whose requests interleave with the queue; three slots two peers
at once. Two failures of the same command give a retry of a retry. One switch
of each caller and slot at a time fills every pending record.

**Deadlock** is not checked: in every run the environment is bounded, so it
ends in states where the program rightly waits.

**Fairness** is weak throughout. `RfxDispatch`, `StatusSync`: each thread, which
the kernel's scheduler provides since it blocks only on its own queue, and in
`RfxDispatch` that every handler answers (each ends in `responseToTelCore`; the
SIM switch's is the exception, section 5.4). `RilAnswered` presupposes that a
controller does not keep its gate closed for ever. `AtChannel`: the two
threads; time-outs are not relied upon and the modem owes nothing. `WakeLock`:
the event loop and threads inside a call; nobody has to acknowledge.
`RilUrcCache`: the threads, and that a dead client is started again. The other
modules have fairness of their progress as a whole (the disjunction of all
steps of threads and of the modem's answers): as long as one of them can go on,
one does. That is weaker than fairness of each thread, and enough because their
runs are finite; failures, refusals, calls and requests are never owed.
## 8. Proofs

| Module | Theorem | Statement |
|---|---|---|
| `RfxDispatchProofs` | `TypeCorrect` | `Spec => []TypeOK` |
| | `OneMessagePerRequest` | `Spec => []RequestTracked` |
| | `AtMostOneReplyCorrect` | `Spec => []AtMostOneReply` |
| | `FirstReplyCorrect` | `Spec => []FirstReplyFindsRequest` |
| | `ServiceImplemented` | `Spec => ImplementsService` |
| | `SerialInvariant` | `Spec => []SerialInv` |
| | `SerialOneOutstandingCorrect` | `Spec => []SerialOneOutstanding` |
| | `WalkInvariant` | `Spec => []WalkInv` |
| | `NoneLeftBehindCorrect` | `Spec => []NoneLeftBehind` |
| | `OrderInvariant` | `Spec => []OrderInv` |
| | `ControllerOrderCorrect` | `Spec => []ControllerOrder` |
| | `SuspendedInOrderCorrect` | `Spec => []SuspendedInOrder` |
| `RilDaemonProofs` | `WakeLockInvariant` | `Spec => []WakeInv` |
| | `CountCorrect` | `Spec => []CountIsTruth` |
| | `TimerCorrect` | `Spec => []TimerMatchesLock` |
| | `CacheInvariant` | `UrcSpec => []CacheInv` |
| | `CachedKeptCorrect` | `UrcSpec => []CachedKept` |
| | `OnlyFailedResetCorrect` | `UrcSpec => OnlyFailedReset`, unless `ClientType = "IMS_MTK"` |
| `StatusSyncProofs` | `StatusInvariant` | `Spec => []IInv` |
| | `ReplicasAgreeCorrect` | `Spec => []ReplicasAgree` |
| | `RequestFindsStatusCorrect` | `Spec => []RequestFindsStatus` |
| `AtChannelProofs` | `ChannelInvariant` | `Spec => []IInv` |
| | `ChannelTypeCorrect` | `Spec => []TypeOK` |
| | `AnswersOwnCommandCorrect` | `Spec => []AnswersOwnCommand` |
| | `CompletenessInvariant` | `Spec => []CInv` |
| | `AnswerCompleteCorrect` | `Spec => []AnswerComplete` |
| | `UrcsKeptCorrect` | `Spec => []UrcsKept` |
| `RadioPowerProofs` | `RadioInvariant` | `Spec => []RadioInv` |
| | `OneCommandPerSlotCorrect` | `Spec => []OneCommandPerSlot` |
| | `PowerSettlesCorrect` | `Spec => []PowerSettles` |
| | `SuccessIsPowerCorrect` | `Spec => SuccessIsPower`, the safety half of `AllAnswered` |
| `DataAllowProofs` | `AllowInvariant` | `Spec => []AllowInv` |
| | `PeersCountedCorrect` | `Spec => []PeersCounted` |
| | `SlotInvariant` | `Spec => [](AllowInv /\ SlotInv)` |
| | `PropertyIsModemCorrect` | `Spec => []PropertyIsModem` |
| | `WantedIsAllowedCorrect` | `Spec => []WantedIsAllowed` |
| `SimSwitchProofs` | `SwitchInvariant` | `Spec => []SwitchInv` |
| | `TypesCorrect` | `Spec => []TypeOK` |
| | `ReaderExcludedCorrect` | `Spec => []ReaderExcluded` |
| | `AnswersRoutedCorrect` | `Spec => []AnswersRouted` |
| | `MappingAgreesCorrect` | `Spec => []MappingAgrees` |
| `RedialProofs` | `RatSwitchInvariant` | `Spec => []IInv` |
| | `TypeSettlesCorrect` | `Spec => []TypeSettles` |
| | `SessionInvariant` | `Spec => [](IInv /\ SessionInv)` |
| | `EmergencyReleasedCorrect` | `Spec => []EmergencyReleased` |

**Request path.** For every set of requests, controllers and channels and every
owner and channel function, under `ConstAssumption` only (disjoint kinds of
requests, typed functions). `AtMostOneReply` is not inductive: nothing in it
says that no second message of a completed request is still in some queue.
`RequestTracked` adds what is needed, in five named parts: `OneMessage` (each
queue, looper and list holds only messages whose request is at that `place`,
and no two of one request), `ChannelsApart` (a channel's looper holds that
channel's requests), `HandledOnce` (a request a handler has had comes back only
as a response), `PendingExact` (a pending entry exists exactly while the modem
side owes the answer), `RepliesCounted` (a completion happens only on the step
to `done`). A step takes a message out of one place and puts it into one other;
lemmas `TrackedAppend`, `TrackedTail`, `TrackedRemoveAt`, `LooperSendTracked`,
`LooperTakeTracked` say what that does to a list, one lemma per action applies
them, and `TrackedStep` puts the actions together. A second answer of a handler
finds no pending entry (`AnswerFound`) and changes nothing.

**Refinement.** `ServiceImplemented` rests on the same invariant: every step of
`RfxDispatch` either leaves `place` and the completions of all requests as the
client sees them, or is one `Issue`, `Answer` or `Lose` of the abstract service.
The invariant is what excludes an answer to a request that is already closed.

**Admission.** `SerialOneOutstanding` counts requests between `requestToMcl` and
the handling of the response. `SerialInv` adds why there is at most one:
`ClosedMeanwhile` (while one is out its controller's gate is closed),
`SentConsistent` (a message in a list is a request exactly until the request
was sent, so no request can be forwarded a second time, and no response can be
of a request that is not out), `SentPlaces` (what the modem side holds was
sent). A controller forwards only with the gate open, hence with none out; the
response that opens the gate is of the one that was. `NoneLeftBehind` is the
last state of a walk, `WalkInv` says the same of its prefix: what the index has
passed is held back, and an erasure moves the rest under the index.

**Order.** The requests of one controller are in order in each list
(`ListsInOrder`) and from stage to stage: sent, being sent, resumed or
suspended, in the main looper, in the dispatch queue (`StagesInOrder`). The
resumed and the suspended are one stage, and which of the two is ahead depends
on the gate. While it is open a resumed request was ahead of those still in the
list; once it has closed again, a suspended request stands ahead of the resumed
ones, which will come to it and be suspended behind it (`ResumedAndWaiting`). A
gate must therefore never move while requests of its controller are both resumed
and suspended. It does not: a request is forwarded only through an open gate,
between messages an open controller has no suspended request (`WalkInv`), and a
response passes a closed gate only if it did not itself come from the suspended
list, so after all resumed messages (`GatedResponses`). A timer or a URC is a
normal message and waits for them too.

**Wake lock.** For every set of threads and any number of timers and of failed
allocations, under `WakeLockAssumption` ("free" is not a thread).
`CountIsTruth` needs only the types. `TimerMatchesLock` needs five more parts:
`MutexOwned` (a thread is inside a function exactly while it owns the mutex),
`Bounded` (no timer is known before it is armed), `InOrder` (timers fire in the
order they were armed), `NewestLives` (a held lock waits for the *newest*
timer, and the thread in the middle of a replacement is never about to cancel
it), `OnlyRecorded` (a timer that is neither cancelled nor wiped is the recorded one, or
one that the thread in the middle of a call knows of). The newest timer is the witness
`HeldHasTimer` itself does not name: an old one may be cancelled at any step,
the newest only by an acknowledgement that has already given the lock back.

**Status keys.** For every set of keys, values, threads and requests, under
`StatusAssumption`. `ReplicasAgree` speaks of the moment when no update of a key
is under way; what makes it true then must be said of the time before.
`UpCarries` and `DownCarries`: the last update on a path carries the value of
the copy it was sent from, read back from the main looper over the dispatch
queue to the thread that has stored a value and not sent it. `OneWay`: for a key
nobody raced for there are updates on one of the two paths only, and of one
thread only, or else an update stored at one end would put the two out of step.
When the last update arrives the receiver takes the sender's value and
`CopiesAgree` holds again. `CallbacksCarry` is the same argument over the queue
of posted callbacks. A request on the Mcl looper is no update
(`PathsTyped`), at the front or not. `RequestFindsStatus` compares how many updates
were sent before the request with how many the handler's side has; `NoneOvertaken`
says it of a request still on the looper: those sent before it are all but the ones
behind it. The updates of a part of the list are counted by the cardinality of
their places, and what a send and a take do to it is `CountsAppend` and its
companions.

**AT channel.** For every set of commands, URCs and instances and every bound on
the lines, under `ChannelAssumption`: no unsolicited code looks like a final
response or like the PDU line of an SMS code, NO CARRIER comes on URC channels
only, and no prefix looks like one either. `AnswersOwnCommand` looks at lines already kept; what keeps a wrong line
out must be said of the lines on their way. `InOrder`: lines and unanswered
commands are in the order the commands were written, and nothing of a command
follows the end of its answer (the modem answers in order). `Recent`: whatever is
under way is of one of the last `Slack` commands, where `Slack` counts the
time-outs, and one for the current command while it has no final response. Writing
a command raises both `written` and `Slack`; giving it up turns its share into a
time-out; a final response takes the share away, and by `InOrder` what remains
under way was written later than what was answered, so that it is still among the
last. `CommandTracked` ties outcome, rank and published response to the sender's
place in the code. `FinalEnds`, `IntermediateOf` say what `processLine` can take a
line for.

`AnswerComplete` speaks of channels on which nothing timed out and no URC looks
like an answer to the command. There only the current command has lines under way, and they are numbered: what is kept and what
is under way are together, without a gap, the lines the modem sent
(`AnswerNumbered`), and the response was published before the reader could have
taken the mutex (`AnswerTracked`), so none slips past it. When the final response
is stored nothing is under way and all was kept. `UrcsKept` needs no order: the
lemmas `UrcRead`, `UrcSortLine`, `UrcSorted` and `UrcSends` follow one unsolicited
line from the wire to the reader's buffer, to `handleUnsolicited` or to the command
it looks like an answer to. At each step it leaves one place and reaches exactly one.

**Cached indications.** For every number of indications and deaths, under
`RilUrcCacheAssumption`. `CachedKept` looks at the calls made and the list; `CacheInv` ties
them together. The list is what was cached, in the order of arrival
(`ListOrdered`), and behind everything cached that was sent (`SentAhead`), except
for the head while the binder thread has sent it and not yet removed it. Only the
owner of the mutex shortens the list (`MutexIsLoop`, `HeadKnown`); the main thread,
which caches without having re-read the head, holds only the newest indication and
has not sent it (`NewestOnMain`). The head `sendUrc` read before the mutex is
either still the head or the empty list of that moment. `OnlyFailedReset` needs
`FailedNoted`: as long as the counter is the one the thread noted, the callbacks
are those its call was made on, because every registration raises the counter.
`setResponseFunctionsIms` does not (section 9); the theorem excludes that client
and no other.

**Radio power.** For every set of slots and every bound on requests and failures,
under `RadioAssumption`. A request of a slot is in one place: with the slot's
channel, among the answers, or behind the retry timer; `OneEach` says there is one
at most and that the slot keeps the radio lock meanwhile. `PowerFollows`: what a
framework request carries is what was last asked of its slot, and once EFUN has
succeeded it is what is stored; so when the lock is released the two agree.
BOOT_TURN_ON changes the keys of every slot at once: a slot with a request under way is
`crossed` from then on, as is one it turns off that was on before, and of the others
both keys are what the mask says or were off already. `PowerFollows` holds without
attach and detach only, which reset every lock (section 9). `MaskRight` holds with
them: a command that runs and is not `stale` carries the mask it would be built with
now, so what the modem takes over is what is stored. `SuccessIsPower` is an action
property: a request answered with success at this step has the power it asked for.

**Data allow.** For any number of slots, networks and requests, under
`DataAllowAssumption`. `PeersCounted` says that `mDisallowingPeer` is the number of
requests under way to peers. `CountAgrees` is the same for every situation: that
many while a conflict is resolved, one while `mDoingDataAllow`, else none, counted
as the places in the channels plus the responses in the main looper.
`FlagsAgree`: while peers are disallowed, `mDoingDataAllow` is set, `mReqDataAllow`
is not and `mLastAllowTrueRequest` is there to be sent again; a conflict is only
reported of a slot that has peers, without which `handleMultiAllowError` would
wait for nobody; messages are suspended only while something is under way.
`IdsInOrder` is the order of the answers: those given, then the one
request taken up (in a channel, in an answer, or kept in `LastId` until the peers
are done), then those that wait. The suspended messages and the main looper are
one list, `Pending`: suspending and resuming move the border and not the order.

`PropertyIsModem` and `WantedIsAllowed` speak only of the states in which all
messages are done. `SlotInv`, inductive together with `AllowInv`, says of every
other state which slot will be allowed then: that of the last request in `Pending`
that allows one (`EndsWith`: in preferred data mode nothing that disallows follows
it), and when none waits that of the one taken up last (`Taken`,
`mLastAllowTrueRequest`). `PreferredAgrees` says that this slot is the property's,
`FrameworkAgrees` the same for the mode without preferred data, where the property
is written only when a request is taken up, so that nothing is said while another
waits. `RequestsAgree` makes a conflict harmless: everything under way is for what
`mReqDataAllow` says, so while the peers are disallowed no success of theirs is taken for
that of the original request, and when such a request has ended its slot alone is
allowed in the modem. `WantedAgrees` relates the property to the queue: every way into
and out of the queue ends in `OnSetDataAllow` or leaves the head as it is. What
`Without` leaves of the queue is a queue again (`WithoutTyped`, over its recursive
function by `AllNumbers`, as for the SIM switch below). A refused EDALLOW=1 is
excepted in both modes: without preferred data the slot allowed before the lost
request stays allowed too, which a run with one refusal showed.

**SIM switch.** For any number of slots from two, every sequence of channel classes
with a URC class and the switch's own, with and without modem restart, and every
bound, under `SimSwitchAssumption`. The three properties need one another, so
`SwitchInv` is one invariant in named parts. `MutexesHeld` says which mutexes of
which channel the switch and the URC handler have at each of their places
(`SwitchLocked`, `VsimLocked`, `UrcLocked`) and that nothing is held that they will
not come back to. `ReadersHold`: a reader that processes a line has the mutex of
its context. So a channel that is being exchanged (`Quiet`) has no reader inside
and, as an ordinary sender in its handler has the restart mutex (`Awaited`), no
command under way: `ReaderExcluded`, and with `AnswersAwaited` (one answer at
most on a descriptor, only where it is awaited) `AnswersRouted`. A time-out of the
mapping command breaks `AnswersAwaited`, as the exception in the property says.
`MappingAgrees` speaks of the end of a switch; `Arranged` says of every class of
channels by which major slot it is arranged at that moment (`MajorOf`), which the
exchanges move from the old to the new. Without a restart that also depends on the
indications. `FlagFollows`: while the flag is up, either the modem still has the
old major slot and nothing has been announced (`NotObeyed`), or it has the new one,
owes nothing, and the indications on their way, waiting and counted are together one
for every slot (`Obeyed`, `Announced`); so none of them can be left over for the
next switch, and the flag falls only after the last. With a restart
`ResponseTells` ties the major slot of the modem to the response the loop goes by.
`switchChannel` exchanges neighbours one after the other, or twice through slot 0;
`PermutationRotates` shows that both are the rotation of the slots between the old
and the new one. `Permutation` computes it with recursive functions. Their values
are reached by a set of numbers that contains 0 and successors (`AllNumbers`, from
the least element of its complement), because the induction theorem of the library
takes an operator. `ProtocolIsStack` counts the slots below one, so that `Arranged`
can be stated in closed form.

**RAT switch.** For every set of instances, any number of slots and all bounds,
under `RatAssumption` and `RedialAssumption`. The steps of one message are a stack
of calls, so an invariant must hold between two calls and not between two messages
only. `OneSwitch`: one request is out exactly while `sIsInSwitching` is set, it is for
the type that `mRatSettings` holds, and the modem runs what the daemon takes it to
run. It needs no assumption about the stack: a switch sends its request only where
it has seen the flag down, the flag falls with the answer, and whatever the signal
to the mode controller starts in the middle of the answer has taken the old request
out first.

What a slot at rest runs is said of the state in which no switch is left. `LastSwitch`
says of every other one, for instances with neither emergency call nor scan and at
most two slots, which type will be the last to run. The switches of a slot stand in an
order: the framework's that is about to be asked for or waits, the mode controller's
that waits, the one that runs (`LastIsRight`), each to the type asked for when none
stands behind it. The order is that in which they run because a switch that may run
passes none of its slot that waits (`NotPassed`), and that is so because what waits
and may run has a call on the stack that comes to it (`Woken`): the end of a switch
calls `processPendingRatSwitchRecord` for the slot that ended, which passes the turn to
the other one; the end of a call and of the restricted mode have calls of their
own. `NoEmergency` says that of the redial controller only SET_ECC_MODE is left,
`EccRestricts` that this restricts slot 0, if it is the only slot, from one status
callback to the other. The proof found the three limits in `TypeSettles`: each names a way in
which an older switch runs after a newer one (section 9.2), at bounds the runs had
not had.

**Emergency sessions.** For every set of instances, with calls, redials, failures,
hang-ups, SET_ECC_MODE and switches of others in any number. `mEmcsCount` is moved in
six functions and none of them sees all sessions; `EmergencyReleased` looks only at
the states in which no session is left. `SessionInv` says of every state what a
session is: a request to the modem, a call, a session or a callback mode whose end the
modem owes, a SET_ECC_MODE before its call, a call that waits for the global mode, or a
failure that is being handled. `SessionsCounted`: their number, `Sessions`, is the
counter, from which SET_ECC_MODE may hide some, so that it is never too high.
`OneSession` says that a session is in one of these places at a time, and what is then
true of the call id, the voice count and the redial's state. A session moves from one
place to the next when an action of the redial comes back from the RAT switch, so the
actions are followed as well: they are slot 0's only (`ActsOfSlot`), below the top of
the stack there is none (`ActsOnTop`), and the one that dials again is in one place,
on top of the stack, waiting, or with the modem, and only while its call waits for it
(`GlobalOnce`): a second one would dial, and count, a call twice. `Released`, for as
long as no switch of the redial's had to wait or was dropped: if no session remains
and the emergency mode is on, something that will end it is on its way, on the stack,
with the modem, or waiting for the voice count. Every part was checked by TLC on ten
instances larger than those of section 7 before it was proved. `SessionsKept` does the
steps of the RAT switch controller, which move the actions only, `RatOpMoves` and
`EventKeeps` those of the redial; `LateFacts` is why a step that leaves `late` unset has
dropped nothing.

With this every safety property of `RfxDispatch`, `AtChannel`, `StatusSync`,
`WakeLock`, `RilUrcCache`, `RadioPower`, `DataAllow`, `SimSwitch` and `RatSwitch`
that a run checks is proved, and of `Redial` all but `RatRestored`.
Only model-checked, at the bounds of section 7: the liveness properties, which
rest on ENABLED through the fairness conditions and so are out of TLAPS's reach;
`RatRestored`, for which `LastIsRight` would have to be stated of the restricted
mode too, with the type that is kept for its end; and `LastCardsRun` and
`OneCdmaSlot`, for which the queue of the mode controller has to be followed through
the stack of calls and five owners of the modem.

## 9. What TLC found on the way

### 9.1 Where code and comments disagree

`dispatch_sap`. A SAP request of unknown id is answered by a SAP_RESPONSE
without data, under the comment "send NOT_SUPPORT to BT process"
(`framework/core/RfxDispatchThread.cpp:137`). `RfxRootController::processMessage`
recognises it ("no RfxBaseData, send error to BT", line 56) but calls
`responseToRilj`, which delivers RESPONSE and URC only. The Bluetooth process
is never answered.

Recorded without a run: `Dispatch_queue::enqueue` says it adds to the front and
appends (`framework/include/core/RfxDispatchQueue.h:68`); the main-thread
watchdog says "over 10s" and is set to ten minutes
(`framework/core/RfxMainThread.cpp:40,67`); `applyPendingRecord` says "Copy data
of mPendingRecord to mSwitchInfo" and leaves `ct3gStatus` out
(`telcore/modecontroller/RtcModeSwitchController.cpp:599`).

### 9.2 Sequences that are exceptions in a property

Each was a counterexample to a stronger property; no text of the repository
promises that property, so it is not a run, and the exception stands in the
property instead.

- **A time-out shifts the channel** (`framework/core/RfxSender.cpp:330`): on a
  user load the sender goes on with the next command while the answer of the one it
  gave up is outstanding. That answer completes the next command, the next one's
  answer the one after it, and so on until the reset of the modem that the time-out
  asks for; hence `InStep`.
- **Cancelled timer still releases** (`libril/ril.cpp:736`). The event loop has
  read `userParam = NULL`; a grab on another thread cancels the timer and counts
  up; the callback then takes the mutex, sets the count to 0 and releases the
  lock the grab has just taken. `CountIsTruth` holds, the indication is not
  covered. `Heeded` leaves out this timer: cancelled, and in `wakeTimeoutCallback` all
  the same. The same window at `ril.cpp:393` wipes the record of the newer timer,
  which then no grab cancels; `Heeded` leaves it out too (`wiped`).
- **Failed allocation** (`ril.cpp:692`): `grabPartialWakeLock` releases the lock
  for everybody and leaves the count; hence `fails > 0` in `CountIsTruth`.
- **Cache of indications** (`ril.cpp:1730, 1777`): the head read before the mutex
  (`staleHead`) lets an indication be appended to a freed chain.
- **IMS client** (`libril/ril_service.cpp:1699-1721`): `setResponseFunctionsIms`
  does not touch the counter that `checkReturnStatusMtk` compares (line 1555), so
  a call that failed on the old IMS client may reset the callbacks of the new one:
  with `ClientType = "IMS_MTK"` `OnlyFailedReset` fails.
- **Client dies while its cache is sent** (`ril.cpp:1780`): the binder thread holds
  `s_pendingUrcMutex` and wants the write lock (or the read lock behind a waiting
  writer), the main thread holds the write lock in `checkReturnStatus` and wants
  `s_pendingUrcMutex` in `onCommandDisconnect`. Both wait for ever. The model
  reaches it, which is why no run states that the cache is sent in the end.
- **Refused EDALLOW** (`mdcomm/data/RmcDcMsimReqHandler.cpp:135`): only cause 4117
  is turned into an error; any other refusal is answered with success
  (`allowLost`), the property then names a slot the modem does not allow, and
  `onSetDataAllow` never asks again; without preferred data mode the slot allowed
  before may stay allowed.
- **Mask of EFUN** (`mdcomm/power/RmcRadioRequestHandler.cpp:251`): two slots'
  handlers build their masks before either stores its result; the second command
  undoes the first in the modem, which then disagrees with the keys until a command
  that read them afterwards is done. `ModemFollows` excepts this state (`undone`) and
  no other.
- **Attach, detach** (`telcore/data/RtcDataAllowController.cpp:565`) reset the
  radio lock of every slot, whoever holds it; hence `MaxData = 0` in two
  properties.
- **Scan** (`telcore/nw/RtcRatSwitchController.cpp:582, :336`): a setting queued
  behind the abort of a scan may run after a newer one that did not have to wait.
- **Turn not passed on** (`RtcRatSwitchController.cpp:513-524, 677-720`): a slot in the
  restricted mode whose own record may not run does not pass the turn to the other
  slot, whose older record stays and runs after a newer setting. A third slot is never
  reached: `processPendingRatSwitchRecord` knows slots 0 and 1 (line 711).
- **Mode switch broken off on an empty slot** (`RtcRatSwitchController.cpp:377-401`):
  `setPreferredNetworkType` stores the slot's new capability before the switch goes
  through. If a call breaks the switch off, the capability says it was done: when the
  mode is switched again the empty slot is passed over ("Skip switch if C2K no change")
  and keeps CDMA beside the slot that gets it. `OneCdmaSlot` leaves out such a slot
  (`"skipped"`). A slot whose switch the modem refused keeps its type likewise
  (`"refused"`).
- **Redial held up** (`RtcRatSwitchController.cpp:679, :641`;
  `telcore/cc/RtcRedialController.cpp:355, :756`): when the redial's own switch has
  to wait behind another it is skipped while the restricted mode it has itself set
  lasts, a later record of another caller erases it, a repeated emergency redial is
  swallowed, and the session count reaches zero early. All these need `late`.
- **Redial without the restricted mode** (`RtcRatSwitchController.cpp:1640`: every
  operator but OP12 and OP20). A type of the mode controller that arrives before the
  redial's own waits and is what the redial resumes; when it is resumed during a call,
  `switchNwRat` tells the mode controller and forgets the action (lines 525-528), so the
  emergency mode is not left, and asking to resume again is "no change"
  (`late`, `Dropped`). A framework setting equal to the current type is answered
  at once after the redial, and the older one that waits runs after it.
- **SET_ECC_MODE taken back** (`RtcRedialController.cpp:246`) may end the emergency
  mode during a call that another session began; after a redial it brings the count to
  zero and resumes no RAT.
- **Boot** (`crossed` in `RadioPower`): BOOT_TURN_ON turns on a slot whose own
  request to turn off is under way. And it turns off, unasked, a slot that the framework
  has turned on before and that has no card or is not in the SIM mode property
  (`RmcRadioRequestHandler.cpp:778-789`): `RADIO_POWER_MSIM_MODE` is 0 while
  `REQUEST_RADIO_POWER` stays true.

### 9.3 Hazards seen and not covered

A SAP request without an owner, or that nobody handles, is answered by a
RESPONSE rather than a SAP_RESPONSE (`framework/core/RfxRootController.cpp:109`,
`RfxMclDispatcherThread.cpp:79`). `generateToken` calls `resetToken` with the
non-recursive token mutex held after 2^31 messages
(`framework/base/RfxMessage.cpp:123, 140`). A reader could miss the fall of the
switch flag if the next switch raised it within its 5 ms poll
(`framework/core/RfxReader.cpp:136`).

## 10. Not modelled, and the plan

- **Response merging** (`RfxController::preprocessResponse`): only the HELLO
  example controller registers for it.
- **The capability transaction** of `RtcCapabilitySwitchController` above
  `SimSwitch`: its effects are the environment of `ModeSwitch` (SIM switch
  starts, ends, is told) and `SimSwitch` (a new major slot). Next in the plan:
  `CapabilityRequest`, composed with `ModeSwitch` through `MODEM_OFF_STATE`.
- **Call list and conference** (`RtcCallController`, `RtcImsConferenceHandler`):
  only the call count is modelled; `ImsConference` is planned over it.
- **RIL clients' sockets, SAP socket**: I/O; their requests enter `RfxDispatch`
  like any other.
- **Request table, descriptors and acknowledgement of requests** in libril: one
  list under one mutex; I/O; no caller passes an ackToken.
- **gsm0710muxd, netagent, netdagent, wpfa**: not surveyed in depth; candidates
  are flow control, the transaction of command and URC threads, and the ring
  shared with the modem.
- **Proofs not made**: `RatRestored`, with `LastIsRight` stated of the restricted mode
  and of the type kept for its end; `OneCdmaSlot` and `LastCardsRun` over the stack of
  calls.

Left out for good: parsing and formatting of AT strings, data classes, logging,
media processing, generated tables, start-up helpers, third-party and prebuilt
code. The mapped code is about 5,500 of 390,000 lines: most of the tree is of
those kinds or repeats, request by request, the translation between a RIL
structure and an AT command that the abstract request of `RfxDispatch` and the
abstract command of `AtChannel` stand for.
