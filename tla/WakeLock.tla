------------------------------ MODULE WakeLock ------------------------------
(***************************************************************************)
(* The partial wake lock of the RIL daemon library (libril/ril.cpp): taken *)
(* for an indication that the client has to acknowledge, given back by the *)
(* acknowledgement or by a timer, and the timers it is given back by       *)
(* (libril/ril_event.cpp).                                                 *)
(*                                                                         *)
(* Grabbers are the main thread and the binder thread (indications sent    *)
(* while a client connects), Ackers the binder thread, and the event loop  *)
(* runs the timers.  A timer is "cancelled" by setting its userParam, and  *)
(* s_last_wake_timeout_info points at the newest one; the event loop reads *)
(* and writes both WITHOUT s_wakeLockCountMutex.                           *)
(***************************************************************************)
EXTENDS Naturals, FiniteSets, SequencesExt

CONSTANTS
  Grabbers, Ackers,   \* threads
  MaxTimers,          \* bound: timers armed, one per grabPartialWakeLock
  MaxFails            \* bound: callocs that fail in internalRequestTimedCallback

Threads == Grabbers \cup Ackers
Timers == 1 .. MaxTimers

ASSUME WakeLockAssumption ==
  /\ MaxTimers \in Nat \ {0} /\ MaxFails \in Nat
  /\ "free" \notin Threads

NULL == 0

VARIABLES
  s_wakelock_count,
  held,                       \* the kernel's wake lock
  s_wakeLockCountMutex,       \* its owner, or "free"
  s_last_wake_timeout_info,   \* a timer or NULL
  cancelled,                  \* timers whose userParam is 1
  timer_list, pending_list,   \* of ril_event, in order of expiry
  firing, stage,              \* the event loop: userTimerCallback of which timer, where
  pc, seen,                   \* per thread: its place, the timer it is to cancel
  armed, acks, fails,         \* timers armed, acknowledgements, failed allocations
  wiped                       \* history: newer timers wiped from s_last_wake_timeout_info

loopVars == << timer_list, pending_list, firing, stage >>
countVars == << s_wakelock_count, held >>
vars == << countVars, s_wakeLockCountMutex, s_last_wake_timeout_info, cancelled, loopVars,
           pc, seen, armed, acks, fails, wiped >>
-----------------------------------------------------------------------------
Init ==
  /\ s_wakelock_count = 0 /\ held = FALSE
  /\ s_wakeLockCountMutex = "free"
  /\ s_last_wake_timeout_info = NULL /\ cancelled = {}
  /\ timer_list = << >> /\ pending_list = << >> /\ firing = NULL /\ stage = "loop"
  /\ pc = [t \in Threads |-> "idle"] /\ seen = [t \in Threads |-> NULL]
  /\ armed = 0 /\ acks = 0 /\ fails = 0
  /\ wiped = {}

Lock(t) ==
  /\ pc[t] = "idle" /\ s_wakeLockCountMutex = "free"
  /\ s_wakeLockCountMutex' = t

Goto(t, place) == pc' = [pc EXCEPT ![t] = place]

\* grabPartialWakeLock: lock, acquire_wake_lock, internalRequestTimedCallback (a
\* timer at the end of timer_list: they all have the same delay), count
GrabArm(t) ==
  /\ t \in Grabbers /\ armed < MaxTimers
  /\ Lock(t) /\ Goto(t, "look")
  /\ held' = TRUE
  /\ armed' = armed + 1
  /\ timer_list' = Append(timer_list, armed + 1)
  /\ s_wakelock_count' = s_wakelock_count + 1
  /\ UNCHANGED << s_last_wake_timeout_info, cancelled, pending_list, firing, stage, seen,
                  acks, fails, wiped >>

\* grabPartialWakeLock when the timer cannot be allocated
GrabFails(t) ==
  /\ t \in Grabbers /\ fails < MaxFails
  /\ pc[t] = "idle" /\ s_wakeLockCountMutex = "free"
  /\ held' = FALSE
  /\ fails' = fails + 1
  /\ UNCHANGED << s_wakelock_count, s_wakeLockCountMutex, s_last_wake_timeout_info, cancelled,
                  loopVars, pc, seen, armed, acks, wiped >>

\* releaseWakeLock, called by responseAcknowledgement: one less, or the last one
ReleaseStart(t) ==
  /\ t \in Ackers /\ acks < armed
  /\ acks' = acks + 1
  /\ IF s_wakelock_count > 1
     THEN /\ pc[t] = "idle" /\ s_wakeLockCountMutex = "free"
          /\ s_wakelock_count' = s_wakelock_count - 1
          /\ UNCHANGED << held, s_wakeLockCountMutex, pc >>
     ELSE /\ Lock(t) /\ Goto(t, "lookLast")
          /\ s_wakelock_count' = 0 /\ held' = FALSE
  /\ UNCHANGED << s_last_wake_timeout_info, cancelled, loopVars, seen, armed, fails, wiped >>

\* Both functions read s_last_wake_timeout_info before they write through it
Look(t) ==
  /\ pc[t] \in {"look", "lookLast"}
  /\ seen' = [seen EXCEPT ![t] = s_last_wake_timeout_info]
  /\ Goto(t, IF pc[t] = "look" THEN "replace" ELSE "cancel")
  /\ UNCHANGED << countVars, s_wakeLockCountMutex, s_last_wake_timeout_info, cancelled, loopVars,
                  armed, acks, fails, wiped >>

CancelSeen(t) == cancelled' = cancelled \cup ({seen[t]} \ {NULL})

\* Mutant: the new timer is installed first and then cancelled
MutCancelAndUnlock(t) ==
  /\ pc[t] \in {"replace", "cancel"}
  /\ cancelled' = cancelled \cup ({IF pc[t] = "replace" THEN armed ELSE seen[t]} \ {NULL})
  /\ s_last_wake_timeout_info' = IF pc[t] = "replace" THEN armed ELSE s_last_wake_timeout_info
  /\ s_wakeLockCountMutex' = "free"
  /\ Goto(t, "idle") /\ seen' = [seen EXCEPT ![t] = NULL]
  /\ UNCHANGED << countVars, loopVars, armed, acks, fails, wiped >>

\* userParam = 1 for the timer seen; a grab then installs its own.  A write through
\* a timer freed meanwhile reaches no timer of this module.
CancelAndUnlock(t) ==
  /\ pc[t] \in {"replace", "cancel"}
  /\ CancelSeen(t)
  /\ s_last_wake_timeout_info' = IF pc[t] = "replace" THEN armed ELSE s_last_wake_timeout_info
  /\ s_wakeLockCountMutex' = "free"
  /\ Goto(t, "idle") /\ seen' = [seen EXCEPT ![t] = NULL]
  /\ UNCHANGED << countVars, loopVars, armed, acks, fails, wiped >>
-----------------------------------------------------------------------------
(* The event loop *)

\* processTimeouts: the timers that have expired, the oldest ones, become pending
ProcessTimeouts ==
  /\ stage = "loop" /\ pending_list = << >> /\ timer_list # << >>
  /\ \E n \in DOMAIN timer_list :
       /\ pending_list' = SubSeq(timer_list, 1, n)
       /\ timer_list' = SubSeq(timer_list, n + 1, Len(timer_list))
  /\ UNCHANGED << countVars, s_wakeLockCountMutex, s_last_wake_timeout_info, cancelled, firing,
                  stage, pc, seen, armed, acks, fails, wiped >>

\* firePending, userTimerCallback: userParam is read here, with no lock
FirePending ==
  /\ stage = "loop" /\ pending_list # << >>
  /\ firing' = Head(pending_list) /\ pending_list' = Tail(pending_list)
  /\ stage' = IF Head(pending_list) \in cancelled THEN "check" ELSE "release"
  /\ UNCHANGED << countVars, s_wakeLockCountMutex, s_last_wake_timeout_info, cancelled, timer_list,
                  pc, seen, armed, acks, fails, wiped >>

\* Mutant: the timeout counts one grab down, as an acknowledgement does
MutWakeTimeoutCallback ==
  /\ stage = "release" /\ s_wakeLockCountMutex = "free"
  /\ s_wakelock_count' = IF s_wakelock_count > 1 THEN s_wakelock_count - 1 ELSE 0
  /\ held' = (s_wakelock_count > 1)
  /\ stage' = "check"
  /\ UNCHANGED << s_wakeLockCountMutex, s_last_wake_timeout_info, cancelled, timer_list,
                  pending_list, firing, pc, seen, armed, acks, fails, wiped >>

\* Mutant: the count is left alone
MutWakeTimeoutKeepsCount ==
  /\ stage = "release" /\ s_wakeLockCountMutex = "free"
  /\ held' = FALSE
  /\ stage' = "check"
  /\ UNCHANGED << s_wakelock_count, s_wakeLockCountMutex, s_last_wake_timeout_info, cancelled,
                  timer_list, pending_list, firing, pc, seen, armed, acks, fails, wiped >>

\* wakeTimeoutCallback with param = NULL
WakeTimeoutCallback ==
  /\ stage = "release" /\ s_wakeLockCountMutex = "free"
  /\ s_wakelock_count' = 0 /\ held' = FALSE
  /\ stage' = "check"
  /\ UNCHANGED << s_wakeLockCountMutex, s_last_wake_timeout_info, cancelled, timer_list,
                  pending_list, firing, pc, seen, armed, acks, fails, wiped >>

\* userTimerCallback: is it still the last one
CheckLast ==
  /\ stage = "check"
  /\ stage' = IF s_last_wake_timeout_info = firing THEN "clear" ELSE "loop"
  /\ firing' = IF s_last_wake_timeout_info = firing THEN firing ELSE NULL
  /\ UNCHANGED << countVars, s_wakeLockCountMutex, s_last_wake_timeout_info, cancelled, timer_list,
                  pending_list, pc, seen, armed, acks, fails, wiped >>

\* ... then forget it, whatever was installed in between, and free it
ClearLast ==
  /\ stage = "clear"
  /\ s_last_wake_timeout_info' = NULL
  /\ wiped' = wiped \cup ({s_last_wake_timeout_info} \ {firing, NULL})
  /\ stage' = "loop" /\ firing' = NULL
  /\ UNCHANGED << countVars, s_wakeLockCountMutex, cancelled, timer_list, pending_list,
                  pc, seen, armed, acks, fails >>

EventLoop == ProcessTimeouts \/ FirePending \/ WakeTimeoutCallback \/ CheckLast \/ ClearLast

Next ==
  \/ \E t \in Threads :
       GrabArm(t) \/ GrabFails(t) \/ ReleaseStart(t) \/ Look(t) \/ CancelAndUnlock(t)
  \/ EventLoop

Spec == Init /\ [][Next]_vars

\* The event loop is a thread of its own, and so is a thread inside a call
FairSpec ==
  /\ Spec /\ WF_vars(EventLoop)
  /\ \A t \in Threads : WF_vars(Look(t) \/ CancelAndUnlock(t))
-----------------------------------------------------------------------------
(* Properties *)

TypeOK ==
  /\ s_wakelock_count \in 0 .. MaxTimers /\ held \in BOOLEAN
  /\ s_wakeLockCountMutex \in Threads \cup {"free"}
  /\ s_last_wake_timeout_info \in Timers \cup {NULL}
  /\ cancelled \subseteq Timers
  /\ timer_list \in Seq(Timers) /\ pending_list \in Seq(Timers)
  /\ firing \in Timers \cup {NULL} /\ stage \in {"loop", "release", "check", "clear"}
  /\ pc \in [Threads -> {"idle", "look", "replace", "lookLast", "cancel"}]
  /\ seen \in [Threads -> Timers \cup {NULL}]
  /\ armed \in 0 .. MaxTimers /\ acks \in 0 .. armed /\ fails \in 0 .. MaxFails
  /\ wiped \subseteq Timers

\* The lock is held exactly while somebody counts on it, unless an allocation failed
\* and grabPartialWakeLock released it for everybody (ril.cpp:691-692)
CountIsTruth ==
  /\ held => s_wakelock_count > 0
  /\ s_wakelock_count > 0 => held \/ fails > 0

\* Timers on their way to release the lock
Live ==
  ((Range(timer_list) \cup Range(pending_list)) \ cancelled)
    \cup (IF stage = "release" THEN {firing} ELSE {})

\* However grabs, acknowledgements and timeouts interleave (cancelling a timer while
\* the event loop runs it included), a held lock has a timer that will release it:
\* the phone can always go back to sleep
HeldHasTimer == held => Live # {}

\* Timers that will release the lock, or are about to, and that nobody has called off
\* or lost sight of
Heeded == Live \ (cancelled \cup wiped)

\* Replacing a timer cancels the one before (ril.cpp:694-697): beside the newest there
\* is none, on the lists or in wakeTimeoutCallback, that will cut its indication short.
\* Two exceptions, each of one timer.  One that was cancelled after userTimerCallback
\* had read its userParam (ril.cpp:736 waits for the mutex): it still releases the
\* lock of the grab that cancelled it.  And one that userTimerCallback wiped from
\* s_last_wake_timeout_info between its check and its write (ril.cpp:393), which no
\* later grab can cancel.
OneTimer == s_wakeLockCountMutex = "free" => Cardinality(Heeded) <= 1

\* A held lock has a timer, and no second one but for these two
TimerMatchesLock == HeldHasTimer /\ OneTimer

\* The lock is given back, even if the client never acknowledges
EventuallyReleased == held ~> ~held
=============================================================================
