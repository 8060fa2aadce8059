--------------------------- MODULE RilDaemonProofs ---------------------------
(***************************************************************************)
(* Proofs about the RIL library.  Of WakeLock, for any number of threads   *)
(* that grab and release, of timers and of failed allocations.  Of         *)
(* RilUrcCache: an indication that was cached is sent once, in order, and  *)
(* a failed call resets the callbacks it failed on.                        *)
(*                                                                         *)
(* CachedKept speaks of the calls that were made and of the list.          *)
(* CacheInv adds what ties them together: a listed indication has not been *)
(* sent, but for the one at the head while the binder thread is about to   *)
(* remove it, the main thread only ever holds the newest indication, and   *)
(* only the owner of the mutex shortens the list.                          *)
(***************************************************************************)
EXTENDS WakeLock, RilUrcCache, FiniteSetTheorems, SequenceTheorems, TLAPS
-----------------------------------------------------------------------------
(* The wake lock *)

Queued == Range(timer_list) \cup Range(pending_list)

\* A thread is inside one of the two functions exactly while it holds the mutex
MutexOwned == \A t \in Threads : pc[t] # "idle" <=> s_wakeLockCountMutex = t

\* Timers are known only once they are armed, and no more are counted than armed
Bounded ==
  /\ s_wakelock_count <= armed
  /\ s_last_wake_timeout_info \in 0 .. armed
  /\ \A t \in Threads : seen[t] \in 0 .. armed
  /\ \A c \in cancelled : c <= armed
  /\ \A q \in Queued : q <= armed
  /\ firing <= armed

\* The timers fire in the order they were armed, each once
InOrder ==
  /\ \A i, j \in DOMAIN timer_list : i < j => timer_list[i] < timer_list[j]
  /\ \A i, j \in DOMAIN pending_list : i < j => pending_list[i] < pending_list[j]
  /\ \A p \in Range(pending_list), q \in Range(timer_list) : p < q
  /\ \A q \in Queued : firing < q
  /\ stage = "loop" => firing = NULL

\* The event loop looks at a timer only while it fires one
FiringKnown == stage # "loop" => firing # NULL

\* What the thread that holds the mutex is about to cancel is never the newest timer
\* while the lock is held, and a held lock waits for that timer
NewestLives ==
  /\ held => armed \in Live
  /\ \A t \in Threads :
       /\ pc[t] = "look" => s_last_wake_timeout_info # armed
       /\ pc[t] = "replace" => seen[t] # armed
       /\ pc[t] \in {"lookLast", "cancel"} => ~held

\* The timers that will be heeded, on the lists or in wakeTimeoutCallback, are the one
\* that is recorded, or the ones the thread in the middle of a call knows of
OnlyRecorded ==
  /\ s_wakeLockCountMutex = "free" => Heeded \subseteq {s_last_wake_timeout_info}
  /\ \A t \in Threads :
       /\ pc[t] = "look"     => Heeded \subseteq {armed, s_last_wake_timeout_info}
       /\ pc[t] = "replace"  => Heeded \subseteq {armed, seen[t]}
       /\ pc[t] = "lookLast" => Heeded \subseteq {s_last_wake_timeout_info}
       /\ pc[t] = "cancel"   => Heeded \subseteq {seen[t]}

WakeInv ==
  TypeOK /\ MutexOwned /\ Bounded /\ InOrder /\ FiringKnown /\ NewestLives /\ OnlyRecorded
-----------------------------------------------------------------------------
(* The lists of timers *)

(* What a list holds after a timer was added, taken or moved to the pending ones. *)
LEMMA Ranges ==
  ASSUME NEW S, NEW q \in Seq(S)
  PROVE  /\ \A x \in S : Range(Append(q, x)) = Range(q) \cup {x}
         /\ q # << >> => Range(q) = {Head(q)} \cup Range(Tail(q))
         /\ Range(q) \subseteq S
<1>1. ASSUME NEW x \in S PROVE Range(Append(q, x)) = Range(q) \cup {x}
  <2>1. /\ DOMAIN Append(q, x) = 1 .. Len(q) + 1 /\ DOMAIN q = 1 .. Len(q) /\ Len(q) \in Nat
        /\ \A i \in 1 .. Len(q) : Append(q, x)[i] = q[i]
        /\ Append(q, x)[Len(q) + 1] = x
    OBVIOUS
  <2> QED
    BY <2>1 DEF Range
<1>2. ASSUME q # << >> PROVE Range(q) = {Head(q)} \cup Range(Tail(q))
  <2>1. /\ DOMAIN q = 1 .. Len(q) /\ Len(q) \in Nat \ {0} /\ Head(q) = q[1]
        /\ DOMAIN Tail(q) = 1 .. Len(q) - 1 /\ \A i \in 1 .. Len(q) - 1 : Tail(q)[i] = q[i + 1]
    BY <1>2, EmptySeq
  <2>2. \A i \in 1 .. Len(q) : i = 1 \/ \E j \in DOMAIN Tail(q) : Tail(q)[j] = q[i]
    <3> TAKE i \in 1 .. Len(q)
    <3>1. i = 1 \/ (i - 1 \in 1 .. Len(q) - 1 /\ (i - 1) + 1 = i)
      BY <2>1
    <3> QED
      BY <2>1, <3>1
  <2>3. Range(q) \subseteq {Head(q)} \cup Range(Tail(q))
    BY <2>1, <2>2 DEF Range
  <2>4. {Head(q)} \cup Range(Tail(q)) \subseteq Range(q)
    <3>1. 1 \in DOMAIN q /\ \A i \in DOMAIN Tail(q) : i + 1 \in DOMAIN q
      BY <2>1
    <3> QED
      BY <2>1, <3>1 DEF Range
  <2> QED
    BY <2>3, <2>4
<1>3. Range(q) \subseteq S
  BY DEF Range
<1> QED
  BY <1>1, <1>2, <1>3

(* processTimeouts cuts the list in two. *)
LEMMA Cut ==
  ASSUME NEW S, NEW q \in Seq(S), NEW n \in DOMAIN q
  PROVE  /\ SubSeq(q, 1, n) \in Seq(S) /\ SubSeq(q, n + 1, Len(q)) \in Seq(S)
         /\ Range(SubSeq(q, 1, n)) \cup Range(SubSeq(q, n + 1, Len(q))) = Range(q)
         /\ DOMAIN SubSeq(q, 1, n) = 1 .. n
         /\ \A i \in 1 .. n : SubSeq(q, 1, n)[i] = q[i]
         /\ DOMAIN SubSeq(q, n + 1, Len(q)) = 1 .. Len(q) - n
         /\ \A i \in 1 .. Len(q) - n : SubSeq(q, n + 1, Len(q))[i] = q[n + i]
<1> DEFINE a == SubSeq(q, 1, n)
           b == SubSeq(q, n + 1, Len(q))
<1>1. n \in 1 .. Len(q) /\ Len(q) \in Nat /\ DOMAIN q = 1 .. Len(q)
  OBVIOUS
<1>2. a \in Seq(S) /\ b \in Seq(S)
  BY <1>1
<1>3. Len(a) = n /\ \A i \in 1 .. n : a[i] = q[i]
  BY <1>1
<1>4. Len(b) = Len(q) - n /\ \A i \in 1 .. Len(q) - n : b[i] = q[n + i]
  BY <1>1
<1>5. DOMAIN a = 1 .. n /\ DOMAIN b = 1 .. Len(q) - n
  BY <1>2, <1>3, <1>4
<1>6. \A i \in 1 .. Len(q) : i \in 1 .. n \/ (i - n \in 1 .. Len(q) - n /\ n + (i - n) = i)
  BY <1>1
<1>7. Range(a) \cup Range(b) = Range(q)
  <2>1. Range(a) \cup Range(b) \subseteq Range(q)
    BY <1>1, <1>3, <1>4, <1>5 DEF Range
  <2>2. ASSUME NEW i \in 1 .. Len(q) PROVE q[i] \in Range(a) \cup Range(b)
    <3>1. CASE i \in 1 .. n
      BY <1>3, <1>5, <3>1 DEF Range
    <3>2. CASE i - n \in 1 .. Len(q) - n /\ n + (i - n) = i
      BY <1>4, <1>5, <3>2 DEF Range
    <3> QED
      BY <1>6, <3>1, <3>2
  <2> QED
    BY <1>1, <2>1, <2>2 DEF Range
<1> QED
  BY <1>2, <1>3, <1>4, <1>5, <1>7
-----------------------------------------------------------------------------
(* One lemma per conjunct of the invariant *)

(* A step leaves every variable in its type: the count never passes the timers armed. *)
LEMMA TypeStep == TypeOK /\ Bounded /\ [Next]_vars => TypeOK'
<1> SUFFICES ASSUME TypeOK, Bounded, [Next]_vars PROVE TypeOK'
  OBVIOUS
<1> USE WakeLockAssumption DEF loopVars, countVars, NULL, Timers
<1>1. ASSUME NEW t \in Threads, GrabArm(t) PROVE TypeOK'
  <2>1. armed + 1 \in Timers /\ s_wakelock_count + 1 \in 0 .. MaxTimers
    BY <1>1 DEF TypeOK, Bounded, GrabArm
  <2>2. Append(timer_list, armed + 1) \in Seq(Timers)
    BY <2>1 DEF TypeOK
  <2> QED
    BY <1>1, <2>1, <2>2 DEF TypeOK, GrabArm, Lock, Goto
<1>2. ASSUME NEW t \in Threads, GrabFails(t) PROVE TypeOK'
  <2>1. held' \in BOOLEAN
    BY <1>2 DEF GrabFails
  <2>2. fails' \in 0 .. MaxFails
    BY <1>2 DEF TypeOK, GrabFails
  <2>3. UNCHANGED << s_wakelock_count, s_wakeLockCountMutex, s_last_wake_timeout_info, cancelled,
                     loopVars, pc, seen, armed, acks, wiped >>
    BY <1>2 DEF GrabFails
  <2> QED
    BY <2>1, <2>2, <2>3 DEF TypeOK
<1>3. ASSUME NEW t \in Threads, ReleaseStart(t) PROVE TypeOK'
  <2>1. held' \in BOOLEAN
    BY <1>3 DEF TypeOK, ReleaseStart
  <2>2. /\ s_wakelock_count' \in 0 .. MaxTimers /\ acks' \in 0 .. armed
        /\ s_wakeLockCountMutex' \in Threads \cup {"free"}
    BY <1>3 DEF TypeOK, ReleaseStart, Lock
  <2>3. pc' \in [Threads -> {"idle", "look", "replace", "lookLast", "cancel"}]
    BY <1>3 DEF TypeOK, ReleaseStart, Goto
  <2>4. UNCHANGED << s_last_wake_timeout_info, cancelled, loopVars, seen, armed, fails, wiped >>
    BY <1>3 DEF ReleaseStart
  <2> QED
    BY <2>1, <2>2, <2>3, <2>4 DEF TypeOK
<1>4. ASSUME NEW t \in Threads, Look(t) PROVE TypeOK'
  BY <1>4 DEF TypeOK, Look, Goto
<1>5. ASSUME NEW t \in Threads, CancelAndUnlock(t) PROVE TypeOK'
  <2>1. CancelSeen(t) => cancelled' \subseteq Timers
    BY DEF TypeOK, CancelSeen
  <2>2. armed \in Timers \cup {NULL}
    BY DEF TypeOK
  <2> QED
    BY <1>5, <2>1, <2>2 DEF TypeOK, CancelAndUnlock, Goto
<1>6. ASSUME ProcessTimeouts PROVE TypeOK'
  <2>a. timer_list \in Seq(Timers)
    BY DEF TypeOK
  <2>b. PICK n \in DOMAIN timer_list :
          /\ pending_list' = SubSeq(timer_list, 1, n)
          /\ timer_list' = SubSeq(timer_list, n + 1, Len(timer_list))
    BY <1>6 DEF ProcessTimeouts
  <2>1. pending_list' \in Seq(Timers) /\ timer_list' \in Seq(Timers)
    BY <2>a, <2>b, Cut
  <2> QED
    BY <1>6, <2>1 DEF TypeOK, ProcessTimeouts
<1>7. ASSUME FirePending PROVE TypeOK'
  BY <1>7 DEF TypeOK, FirePending
<1>8. ASSUME WakeTimeoutCallback PROVE TypeOK'
  <2>1. held' \in BOOLEAN
    BY <1>8 DEF WakeTimeoutCallback
  <2>2. s_wakelock_count' \in 0 .. MaxTimers /\ stage' \in {"loop", "release", "check", "clear"}
    BY <1>8 DEF WakeTimeoutCallback
  <2>3. UNCHANGED << s_wakeLockCountMutex, s_last_wake_timeout_info, cancelled, timer_list,
                     pending_list, firing, pc, seen, armed, acks, fails, wiped >>
    BY <1>8 DEF WakeTimeoutCallback
  <2> QED
    BY <2>1, <2>2, <2>3 DEF TypeOK
<1>9. ASSUME CheckLast PROVE TypeOK'
  BY <1>9 DEF TypeOK, CheckLast
<1>10. ASSUME ClearLast PROVE TypeOK'
  BY <1>10 DEF TypeOK, ClearLast
<1>11. CASE UNCHANGED vars
  BY <1>11 DEF TypeOK, vars
<1> QED
  BY <1>1, <1>2, <1>3, <1>4, <1>5, <1>6, <1>7, <1>8, <1>9, <1>10, <1>11 DEF Next, EventLoop

(* Nobody enters while another thread is inside. *)
LEMMA MutexStep == TypeOK /\ MutexOwned /\ [Next]_vars => MutexOwned'
<1> SUFFICES ASSUME TypeOK, MutexOwned, [Next]_vars, NEW u \in Threads
             PROVE  (pc[u] # "idle" <=> s_wakeLockCountMutex = u)'
  BY DEF MutexOwned
<1> USE WakeLockAssumption
<1>a. /\ pc[u] # "idle" <=> s_wakeLockCountMutex = u
      /\ pc \in [Threads -> {"idle", "look", "replace", "lookLast", "cancel"}]
  BY DEF MutexOwned, TypeOK
<1>1. ASSUME NEW t \in Threads, GrabArm(t) \/ ReleaseStart(t)
      PROVE  (pc[u] # "idle" <=> s_wakeLockCountMutex = u)'
  <2>1. CASE UNCHANGED << pc, s_wakeLockCountMutex >>
    BY <1>a, <2>1
  <2>2. CASE Lock(t) /\ (Goto(t, "look") \/ Goto(t, "lookLast"))
    BY <1>a, <2>2 DEF Lock, Goto
  <2> QED
    BY <1>1, <2>1, <2>2 DEF GrabArm, ReleaseStart
<1>2. ASSUME NEW t \in Threads, Look(t)
      PROVE  (pc[u] # "idle" <=> s_wakeLockCountMutex = u)'
  BY <1>2, <1>a DEF Look, Goto
<1>3. ASSUME NEW t \in Threads, CancelAndUnlock(t)
      PROVE  (pc[u] # "idle" <=> s_wakeLockCountMutex = u)'
  <2>1. s_wakeLockCountMutex = t
    BY <1>3 DEF CancelAndUnlock, MutexOwned
  <2> QED
    BY <1>3, <1>a, <2>1 DEF CancelAndUnlock, Goto
<1>4. CASE UNCHANGED << pc, s_wakeLockCountMutex >>
  BY <1>4, <1>a
<1> QED
  BY <1>1, <1>2, <1>3, <1>4 DEF Next, EventLoop, GrabFails, ProcessTimeouts, FirePending,
                               WakeTimeoutCallback, CheckLast, ClearLast, vars

(* What the lists hold after a step of the event loop. *)
LEMMA LoopLists ==
  ASSUME TypeOK, [Next]_vars
  PROVE  /\ \A t \in Threads : GrabArm(t) => Queued' = Queued \cup {armed + 1}
         /\ FirePending => /\ Queued = {Head(pending_list)} \cup Queued'
                           /\ Head(pending_list) \in Timers
         /\ ~FirePending /\ (\A t \in Threads : ~GrabArm(t)) => Queued' = Queued
<1>a. timer_list \in Seq(Timers) /\ pending_list \in Seq(Timers)
  BY DEF TypeOK
<1>1. ASSUME NEW t \in Threads, GrabArm(t) PROVE Queued' = Queued \cup {armed + 1}
  <2>1. armed + 1 \in Timers
    BY <1>1, WakeLockAssumption DEF TypeOK, GrabArm, Timers
  <2>2. Range(timer_list') = Range(timer_list) \cup {armed + 1}
    BY <1>1, <1>a, <2>1, Ranges DEF GrabArm
  <2> QED
    BY <1>1, <2>2 DEF GrabArm, Queued
<1>2. ASSUME FirePending
      PROVE  Queued = {Head(pending_list)} \cup Queued' /\ Head(pending_list) \in Timers
  <2>1. Range(pending_list) = {Head(pending_list)} \cup Range(pending_list')
        /\ Range(pending_list) \subseteq Timers
    BY <1>2, <1>a, Ranges DEF FirePending
  <2> QED
    BY <1>2, <2>1 DEF FirePending, Queued
<1>3. ASSUME ProcessTimeouts PROVE Queued' = Queued
  <2>1. PICK n \in DOMAIN timer_list :
          /\ pending_list' = SubSeq(timer_list, 1, n)
          /\ timer_list' = SubSeq(timer_list, n + 1, Len(timer_list))
    BY <1>3 DEF ProcessTimeouts
  <2>2. Range(pending_list') \cup Range(timer_list') = Range(timer_list)
    BY <1>a, <2>1, Cut
  <2>3. Range(pending_list) = {}
    BY <1>3 DEF ProcessTimeouts, Range
  <2> QED
    BY <2>2, <2>3 DEF Queued
<1>4. ASSUME UNCHANGED << timer_list, pending_list >> PROVE Queued' = Queued
  BY <1>4 DEF Queued
<1> QED
  BY <1>1, <1>2, <1>3, <1>4 DEF Next, EventLoop, GrabFails, ReleaseStart, Look, CancelAndUnlock,
                               WakeTimeoutCallback, CheckLast, ClearLast, vars, loopVars

(* Everything that refers to a timer refers to one that has been armed. *)
LEMMA BoundedStep == TypeOK /\ Bounded /\ [Next]_vars => Bounded'
<1> SUFFICES ASSUME TypeOK, Bounded, [Next]_vars PROVE Bounded'
  OBVIOUS
<1> USE WakeLockAssumption DEF Timers, NULL
<1>a. /\ armed \in Nat /\ s_wakelock_count \in Nat /\ s_last_wake_timeout_info \in Nat
      /\ firing \in Nat /\ cancelled \subseteq Nat /\ Queued \subseteq Nat
      /\ \A t \in Threads : seen[t] \in Nat
  <2>1. Range(timer_list) \subseteq Timers /\ Range(pending_list) \subseteq Timers
    BY Ranges DEF TypeOK
  <2> QED
    BY <2>1 DEF TypeOK, Queued
<1>1. ASSUME NEW t \in Threads, GrabArm(t) PROVE Bounded'
  <2>1. armed' = armed + 1 /\ s_wakelock_count' = s_wakelock_count + 1
        /\ Queued' = Queued \cup {armed + 1}
        /\ UNCHANGED << s_last_wake_timeout_info, cancelled, seen, firing >>
    BY <1>1, LoopLists DEF GrabArm
  <2> QED
    BY <1>a, <2>1 DEF Bounded
<1>2. ASSUME NEW t \in Threads, ReleaseStart(t) PROVE Bounded'
  <2>1. Queued' = Queued /\ s_wakelock_count' <= s_wakelock_count
        /\ UNCHANGED << armed, s_last_wake_timeout_info, cancelled, seen, firing >>
    BY <1>2, <1>a DEF ReleaseStart, Queued, loopVars
  <2> QED
    BY <1>2, <1>a, <2>1 DEF Bounded, ReleaseStart
<1>3. ASSUME NEW t \in Threads, Look(t) PROVE Bounded'
  <2>1. /\ Queued' = Queued /\ seen' = [seen EXCEPT ![t] = s_last_wake_timeout_info]
        /\ UNCHANGED << armed, s_wakelock_count, s_last_wake_timeout_info, cancelled, firing >>
    BY <1>3 DEF Look, Queued, loopVars, countVars
  <2> QED
    BY <1>a, <2>1 DEF Bounded, TypeOK
<1>4. ASSUME NEW t \in Threads, CancelAndUnlock(t) PROVE Bounded'
  <2>1. /\ Queued' = Queued /\ seen' = [seen EXCEPT ![t] = 0]
        /\ cancelled' \subseteq cancelled \cup {seen[t]}
        /\ s_last_wake_timeout_info' \in {armed, s_last_wake_timeout_info}
        /\ UNCHANGED << armed, s_wakelock_count, firing >>
    BY <1>4 DEF CancelAndUnlock, CancelSeen, Queued, loopVars, countVars
  <2> QED
    BY <1>a, <2>1 DEF Bounded, TypeOK
<1>5. ASSUME FirePending PROVE Bounded'
  <2>1. /\ Queued' \subseteq Queued /\ firing' \in Queued
        /\ UNCHANGED << armed, s_wakelock_count, s_last_wake_timeout_info, cancelled, seen >>
    BY <1>5, LoopLists DEF FirePending, countVars
  <2> QED
    BY <1>a, <2>1 DEF Bounded
<1>6. ASSUME (\E t \in Threads : GrabFails(t)) \/ ProcessTimeouts
             \/ WakeTimeoutCallback \/ CheckLast \/ ClearLast \/ UNCHANGED vars,
             Queued' = Queued
      PROVE  Bounded'
  <2>1. /\ firing' \in {firing, 0} /\ s_last_wake_timeout_info' \in {s_last_wake_timeout_info, 0}
        /\ s_wakelock_count' \in {s_wakelock_count, 0}
        /\ UNCHANGED << armed, cancelled, seen >>
    BY <1>6 DEF GrabFails, ProcessTimeouts, WakeTimeoutCallback, CheckLast, ClearLast, vars,
                loopVars, countVars
  <2> QED
    BY <1>6, <1>a, <2>1 DEF Bounded
<1>7. ASSUME (\E t \in Threads : GrabFails(t)) \/ ProcessTimeouts \/ WakeTimeoutCallback
             \/ CheckLast \/ ClearLast \/ UNCHANGED vars
      PROVE  Queued' = Queued
  <2>1. CASE ProcessTimeouts
    <3>1. ~FirePending /\ \A t \in Threads : ~GrabArm(t)
      BY <2>1 DEF ProcessTimeouts, FirePending, GrabArm, TypeOK
    <3> QED
      BY <3>1, LoopLists
  <2>2. CASE UNCHANGED << timer_list, pending_list >>
    BY <2>2 DEF Queued
  <2> QED
    BY <1>7, <2>1, <2>2 DEF GrabFails, WakeTimeoutCallback, CheckLast, ClearLast, vars, loopVars
<1> QED
  BY <1>1, <1>2, <1>3, <1>4, <1>5, <1>6, <1>7 DEF Next, EventLoop

(* The order of expiry is the order of arming. *)
LEMMA InOrderStep == TypeOK /\ Bounded /\ InOrder /\ [Next]_vars => InOrder'
<1> SUFFICES ASSUME TypeOK, Bounded, InOrder, [Next]_vars PROVE InOrder'
  OBVIOUS
<1> USE DEF NULL
<1>t. Timers \subseteq Nat \ {0}
  BY WakeLockAssumption DEF Timers
<1>a. /\ timer_list \in Seq(Timers) /\ pending_list \in Seq(Timers) /\ armed \in Nat
      /\ firing \in Nat /\ Range(timer_list) \subseteq Nat /\ Range(pending_list) \subseteq Nat
  <2>1. Range(timer_list) \subseteq Timers /\ Range(pending_list) \subseteq Timers
    BY Ranges DEF TypeOK
  <2>2. timer_list \in Seq(Timers) /\ pending_list \in Seq(Timers)
    BY DEF TypeOK
  <2>3. armed \in Nat /\ firing \in Nat
    BY <1>t, WakeLockAssumption DEF TypeOK
  <2> QED
    BY <2>1, <2>2, <2>3, <1>t
<1>1. ASSUME NEW t \in Threads, GrabArm(t) PROVE InOrder'
  <2>1. /\ timer_list' = Append(timer_list, armed + 1) /\ armed + 1 \in Timers
        /\ UNCHANGED << pending_list, firing, stage >>
    BY <1>1, <1>a, WakeLockAssumption DEF GrabArm, TypeOK, Timers
  <2>2. /\ DOMAIN timer_list' = 1 .. Len(timer_list) + 1 /\ DOMAIN timer_list = 1 .. Len(timer_list)
        /\ \A i \in 1 .. Len(timer_list) : timer_list'[i] = timer_list[i]
        /\ timer_list'[Len(timer_list) + 1] = armed + 1 /\ Len(timer_list) \in Nat
    BY <1>a, <2>1
  <2>3. \A i \in DOMAIN timer_list : timer_list[i] \in Nat /\ timer_list[i] < armed + 1
    <3>1. \A i \in DOMAIN timer_list : timer_list[i] \in Range(timer_list)
      BY DEF Range
    <3> QED
      BY <1>a, <3>1 DEF Bounded, Queued
  <2>4. \A i, j \in DOMAIN timer_list' : i < j => timer_list'[i] < timer_list'[j]
    BY <2>2, <2>3 DEF InOrder
  <2>5. Range(timer_list') = Range(timer_list) \cup {armed + 1}
    BY <1>a, <2>1, Ranges
  <2>6. (\A p \in Range(pending_list) : p < armed + 1) /\ firing < armed + 1
    BY <1>a DEF Bounded, Queued
  <2> QED
    BY <2>1, <2>4, <2>5, <2>6 DEF InOrder, Queued
<1>2. ASSUME ProcessTimeouts PROVE InOrder'
  <2>1. PICK n \in DOMAIN timer_list :
          /\ pending_list' = SubSeq(timer_list, 1, n)
          /\ timer_list' = SubSeq(timer_list, n + 1, Len(timer_list))
    BY <1>2 DEF ProcessTimeouts
  <2>2. /\ DOMAIN pending_list' = 1 .. n /\ \A i \in 1 .. n : pending_list'[i] = timer_list[i]
        /\ DOMAIN timer_list' = 1 .. Len(timer_list) - n
        /\ \A i \in 1 .. Len(timer_list) - n : timer_list'[i] = timer_list[n + i]
        /\ Range(pending_list') \cup Range(timer_list') = Range(timer_list)
    BY <1>a, <2>1, Cut
  <2>3. DOMAIN timer_list = 1 .. Len(timer_list) /\ Len(timer_list) \in Nat /\ n \in 1 .. Len(timer_list)
    BY <1>a, <2>1
  <2>a. \A i, j \in 1 .. Len(timer_list) : i < j => timer_list[i] < timer_list[j]
    BY <2>3 DEF InOrder
  <2>4. /\ \A i, j \in DOMAIN pending_list' : i < j => pending_list'[i] < pending_list'[j]
        /\ \A i, j \in DOMAIN timer_list' : i < j => timer_list'[i] < timer_list'[j]
        /\ \A i \in DOMAIN pending_list', j \in DOMAIN timer_list' : pending_list'[i] < timer_list'[j]
    <3>1. /\ \A i \in 1 .. n : i \in 1 .. Len(timer_list)
          /\ \A i \in 1 .. Len(timer_list) - n : n + i \in 1 .. Len(timer_list)
      BY <2>3
    <3>2. ASSUME NEW i \in DOMAIN pending_list', NEW j \in DOMAIN pending_list', i < j
          PROVE  pending_list'[i] < pending_list'[j]
      BY <2>2, <2>a, <3>1, <3>2
    <3>3. ASSUME NEW i \in DOMAIN timer_list', NEW j \in DOMAIN timer_list', i < j
          PROVE  timer_list'[i] < timer_list'[j]
      <4>1. n + i < n + j
        BY <2>2, <2>3, <3>3
      <4> QED
        BY <2>2, <2>a, <3>1, <4>1
    <3>4. ASSUME NEW i \in DOMAIN pending_list', NEW j \in DOMAIN timer_list'
          PROVE  pending_list'[i] < timer_list'[j]
      <4>1. i < n + j
        BY <2>2, <2>3
      <4> QED
        BY <2>2, <2>a, <3>1, <4>1
    <3> QED
      BY <3>2, <3>3, <3>4
  <2>5. Queued' \subseteq Queued /\ UNCHANGED << firing, stage >>
    BY <1>2, <2>2 DEF Queued, ProcessTimeouts
  <2>6. \A p \in Range(pending_list'), q \in Range(timer_list') : p < q
    BY <2>4 DEF Range
  <2> QED
    BY <2>4, <2>5, <2>6 DEF InOrder
<1>3. ASSUME FirePending PROVE InOrder'
  <2>1. /\ pending_list # << >> /\ pending_list' = Tail(pending_list) /\ firing' = Head(pending_list)
        /\ stage' # "loop" /\ UNCHANGED timer_list
    BY <1>3 DEF FirePending
  <2>2. /\ DOMAIN pending_list = 1 .. Len(pending_list) /\ Len(pending_list) \in Nat \ {0}
        /\ Head(pending_list) = pending_list[1] /\ DOMAIN pending_list' = 1 .. Len(pending_list) - 1
        /\ \A i \in 1 .. Len(pending_list) - 1 : pending_list'[i] = pending_list[i + 1]
    BY <1>a, <2>1, EmptySeq
  <2>3. Range(pending_list) = {Head(pending_list)} \cup Range(pending_list')
    BY <1>a, <2>1, Ranges
  <2>4. \A i, j \in DOMAIN pending_list' : i < j => pending_list'[i] < pending_list'[j]
    BY <2>2 DEF InOrder
  <2>5. \A i \in DOMAIN pending_list' : firing' < pending_list'[i]
    BY <2>1, <2>2 DEF InOrder
  <2>6. \A p \in Range(pending_list') : firing' < p
    BY <2>5 DEF Range
  <2>7. \A q \in Range(timer_list) : firing' < q
    BY <2>1, <2>3 DEF InOrder
  <2> QED
    BY <2>1, <2>3, <2>4, <2>6, <2>7 DEF InOrder, Queued
<1>4. ASSUME CheckLast \/ ClearLast PROVE InOrder'
  <2>1. /\ UNCHANGED << timer_list, pending_list >> /\ firing' \in {firing, 0}
        /\ stage' = "loop" => firing' = 0
    BY <1>4 DEF CheckLast, ClearLast
  <2>2. \A q \in Queued : 0 < q
    <3>1. Range(timer_list) \subseteq Timers /\ Range(pending_list) \subseteq Timers
      BY <1>a, Ranges
    <3>2. Queued \subseteq Nat \ {0}
      BY <3>1, <1>t DEF Queued
    <3> QED
      BY <3>2
  <2> QED
    BY <2>1, <2>2 DEF InOrder, Queued
<1>5. ASSUME WakeTimeoutCallback PROVE InOrder'
  BY <1>5 DEF WakeTimeoutCallback, InOrder, Queued
<1>6. CASE UNCHANGED loopVars
  BY <1>6 DEF loopVars, InOrder, Queued
<1> QED
  BY <1>1, <1>2, <1>3, <1>4, <1>5, <1>6 DEF Next, EventLoop, GrabFails, ReleaseStart, Look,
                                           CancelAndUnlock, vars

(* While the lock is held its newest timer is on its way: a grab installs it before it
   cancels the one before, and only the last release, which gives the lock back, or
   the timer itself ends it. *)
LEMMA NewestStep ==
  TypeOK /\ MutexOwned /\ Bounded /\ NewestLives /\ [Next]_vars => NewestLives'
<1> SUFFICES ASSUME TypeOK, MutexOwned, Bounded, NewestLives, [Next]_vars PROVE NewestLives'
  OBVIOUS
<1> USE DEF NULL
<1>a. /\ armed \in Nat /\ pc \in [Threads -> {"idle", "look", "replace", "lookLast", "cancel"}]
      /\ seen \in [Threads -> Timers \cup {NULL}] /\ "free" \notin Threads
      /\ s_wakeLockCountMutex = "free" => \A u \in Threads : pc[u] = "idle"
      /\ \A u, t \in Threads : pc[t] # "idle" /\ u # t => pc[u] = "idle"
  BY WakeLockAssumption DEF TypeOK, MutexOwned
<1>1. ASSUME NEW t \in Threads, GrabArm(t) PROVE NewestLives'
  <2>1. /\ s_wakeLockCountMutex = "free" /\ pc' = [pc EXCEPT ![t] = "look"] /\ armed' = armed + 1
        /\ Queued' = Queued \cup {armed + 1}
        /\ UNCHANGED << s_last_wake_timeout_info, cancelled, firing, stage >>
    BY <1>1, LoopLists DEF GrabArm, Lock, Goto
  <2>2. armed + 1 \notin cancelled /\ s_last_wake_timeout_info # armed + 1
    BY <1>a DEF Bounded
  <2>3. armed' \in Live'
    BY <2>1, <2>2 DEF Live, Queued
  <2>4. \A u \in Threads : pc'[u] = IF u = t THEN "look" ELSE "idle"
    BY <1>a, <2>1
  <2> QED
    BY <2>1, <2>2, <2>3, <2>4 DEF NewestLives
<1>2. ASSUME NEW t \in Threads, GrabFails(t) PROVE NewestLives'
  <2>1. held' = FALSE /\ pc' = pc /\ \A u \in Threads : pc[u] = "idle"
    BY <1>2, <1>a DEF GrabFails
  <2> QED
    BY <2>1 DEF NewestLives
<1>3. ASSUME NEW t \in Threads, ReleaseStart(t) PROVE NewestLives'
  <2>1. s_wakeLockCountMutex = "free" /\ UNCHANGED << armed, s_last_wake_timeout_info, seen >>
        /\ Live' = Live
    BY <1>3 DEF ReleaseStart, Lock, Live, loopVars
  <2>2. CASE UNCHANGED << held, pc >>
    BY <2>1, <2>2 DEF NewestLives
  <2>3. CASE held' = FALSE /\ pc' = [pc EXCEPT ![t] = "lookLast"]
    <3>1. \A u \in Threads : pc'[u] = IF u = t THEN "lookLast" ELSE "idle"
      BY <1>a, <2>1, <2>3
    <3> QED
      BY <2>3, <3>1 DEF NewestLives
  <2> QED
    BY <1>3, <2>2, <2>3 DEF ReleaseStart, Goto
<1>4. ASSUME NEW t \in Threads, Look(t) PROVE NewestLives'
  <2>1. /\ pc[t] \in {"look", "lookLast"} /\ UNCHANGED << held, armed, s_last_wake_timeout_info >>
        /\ pc' = [pc EXCEPT ![t] = IF pc[t] = "look" THEN "replace" ELSE "cancel"]
        /\ seen' = [seen EXCEPT ![t] = s_last_wake_timeout_info] /\ Live' = Live
    BY <1>4 DEF Look, Goto, Live, loopVars, countVars
  <2>2. \A u \in Threads : pc'[u] = IF u = t THEN IF pc[t] = "look" THEN "replace" ELSE "cancel"
                                    ELSE "idle"
    BY <1>a, <2>1
  <2>3. seen'[t] = s_last_wake_timeout_info
    BY <1>a, <2>1
  <2> QED
    BY <2>1, <2>2, <2>3 DEF NewestLives
<1>5. ASSUME NEW t \in Threads, CancelAndUnlock(t) PROVE NewestLives'
  <2>1. /\ pc[t] \in {"replace", "cancel"} /\ UNCHANGED << held, armed, timer_list, pending_list, firing, stage >>
        /\ pc' = [pc EXCEPT ![t] = "idle"] /\ cancelled' = cancelled \cup ({seen[t]} \ {0})
    BY <1>5 DEF CancelAndUnlock, CancelSeen, Goto, loopVars, countVars
  <2>2. \A u \in Threads : pc'[u] = "idle"
    BY <1>a, <2>1
  <2>3. held => seen[t] # armed
    BY <2>1 DEF NewestLives
  <2>4. held' => armed' \in Live'
    BY <2>1, <2>3 DEF NewestLives, Live
  <2> QED
    BY <2>2, <2>4 DEF NewestLives
<1>6. ASSUME ProcessTimeouts PROVE NewestLives'
  <2>1. Queued' = Queued
    <3>1. ~FirePending /\ \A t \in Threads : ~GrabArm(t)
      BY <1>6 DEF ProcessTimeouts, FirePending, GrabArm, TypeOK
    <3> QED
      BY <3>1, LoopLists
  <2>2. UNCHANGED << cancelled, firing, stage, held, armed, s_last_wake_timeout_info, seen, pc >>
    BY <1>6 DEF ProcessTimeouts, countVars
  <2> QED
    BY <2>1, <2>2 DEF NewestLives, Live, Queued
<1>7. ASSUME FirePending PROVE NewestLives'
  <2>1. /\ Queued = {Head(pending_list)} \cup Queued' /\ stage = "loop" /\ firing' = Head(pending_list)
        /\ stage' = IF Head(pending_list) \in cancelled THEN "check" ELSE "release"
        /\ UNCHANGED << cancelled, held, armed, s_last_wake_timeout_info, seen, pc >>
    BY <1>7, LoopLists DEF FirePending, countVars
  <2>2. Live \subseteq Live'
    BY <2>1 DEF Live, Queued
  <2> QED
    BY <2>1, <2>2 DEF NewestLives
<1>8. ASSUME WakeTimeoutCallback PROVE NewestLives'
  <2>1. held' = FALSE /\ UNCHANGED << armed, s_last_wake_timeout_info, seen, pc >>
    BY <1>8 DEF WakeTimeoutCallback
  <2> QED
    BY <2>1 DEF NewestLives
<1>9. ASSUME CheckLast \/ ClearLast PROVE NewestLives'
  <2>1. /\ UNCHANGED << timer_list, pending_list, cancelled, held, armed, seen, pc >>
        /\ stage # "release" /\ s_last_wake_timeout_info' \in {s_last_wake_timeout_info, 0}
    BY <1>9 DEF CheckLast, ClearLast, countVars
  <2>2. Live \subseteq Live'
    BY <2>1 DEF Live
  <2>3. \A u \in Threads : pc[u] = "look" => s_last_wake_timeout_info' # armed
    <3> SUFFICES ASSUME NEW u \in Threads, pc[u] = "look" PROVE s_last_wake_timeout_info' # armed
      OBVIOUS
    <3>1. s_last_wake_timeout_info # armed /\ s_last_wake_timeout_info \in 0 .. armed
      BY DEF NewestLives, Bounded
    <3>2. armed # 0
      BY <1>a, <3>1
    <3> QED
      BY <2>1, <3>1, <3>2
  <2> QED
    BY <2>1, <2>2, <2>3 DEF NewestLives
<1>10. CASE UNCHANGED vars
  BY <1>10 DEF NewestLives, Live, vars, loopVars, countVars
<1> QED
  BY <1>1, <1>2, <1>3, <1>4, <1>5, <1>6, <1>7, <1>8, <1>9, <1>10 DEF Next, EventLoop

(* firePending takes a timer of the list, and it stays known until the loop goes on. *)
LEMMA FiringStep == TypeOK /\ FiringKnown /\ [Next]_vars => FiringKnown'
<1> SUFFICES ASSUME TypeOK, FiringKnown, [Next]_vars PROVE FiringKnown'
  OBVIOUS
<1>1. ASSUME FirePending PROVE FiringKnown'
  <2>1. Head(pending_list) \in Timers /\ firing' = Head(pending_list)
    BY <1>1, LoopLists DEF FirePending
  <2> QED
    BY <2>1, WakeLockAssumption DEF FiringKnown, Timers, NULL
<1>2. ASSUME WakeTimeoutCallback \/ CheckLast \/ ClearLast PROVE FiringKnown'
  BY <1>2 DEF WakeTimeoutCallback, CheckLast, ClearLast, FiringKnown
<1>3. CASE UNCHANGED << firing, stage >>
  BY <1>3 DEF FiringKnown
<1> QED
  BY <1>1, <1>2, <1>3 DEF Next, EventLoop, GrabArm, GrabFails, ReleaseStart, Look, CancelAndUnlock,
                          ProcessTimeouts, vars, loopVars

(* A timer becomes heeded only when a grab arms it; one that is called off, or that
   userTimerCallback wipes from the record, is heeded no longer. *)
LEMMA HeededStep ==
  ASSUME TypeOK, InOrder, FiringKnown, [Next]_vars
  PROVE  /\ 0 \notin Heeded
         /\ \A t \in Threads : GrabArm(t) => Heeded' \subseteq Heeded \cup {armed + 1}
         /\ \A t \in Threads : CancelAndUnlock(t) => Heeded' \subseteq Heeded \ {seen[t]}
         /\ ClearLast => Heeded' \subseteq Heeded \ {s_last_wake_timeout_info}
         /\ (\A t \in Threads : ~GrabArm(t)) => Heeded' \subseteq Heeded
<1> USE DEF NULL
<1> DEFINE Deciding == IF stage = "release" THEN {firing} ELSE {}
<1>a. Heeded = (Queued \cup Deciding) \ (cancelled \cup wiped)
  <2>1. Live = (Queued \ cancelled) \cup Deciding
    BY DEF Live, Queued
  <2> QED
    BY <2>1 DEF Heeded
<1>b. Heeded' = (Queued' \cup Deciding') \ (cancelled' \cup wiped')
  <2>1. Live' = (Queued' \ cancelled') \cup Deciding'
    BY DEF Live, Queued
  <2> QED
    BY <2>1 DEF Heeded
<1>c. 0 \notin Queued /\ 0 \notin Deciding /\ firing \notin Queued
  <2>1. Range(timer_list) \subseteq Timers /\ Range(pending_list) \subseteq Timers
    BY Ranges DEF TypeOK
  <2>2. Timers \subseteq Nat \ {0}
    BY WakeLockAssumption DEF Timers
  <2>3. firing \in Nat /\ \A q \in Queued : firing < q
    BY <2>2 DEF TypeOK, InOrder
  <2>4. Queued \subseteq Nat
    BY <2>1, <2>2 DEF Queued
  <2> QED
    BY <2>1, <2>2, <2>3, <2>4 DEF Queued, FiringKnown
<1>1. 0 \notin Heeded
  BY <1>a, <1>c
<1>2. ASSUME NEW t \in Threads, GrabArm(t) PROVE Heeded' \subseteq Heeded \cup {armed + 1}
  <2>1. Queued' = Queued \cup {armed + 1} /\ UNCHANGED << cancelled, wiped, stage, firing >>
    BY <1>2, LoopLists DEF GrabArm
  <2> QED
    BY <1>a, <1>b, <2>1
<1>3. ASSUME NEW t \in Threads, CancelAndUnlock(t) PROVE Heeded' \subseteq Heeded \ {seen[t]}
  <2>1. /\ Queued' = Queued /\ cancelled' = cancelled \cup ({seen[t]} \ {0})
        /\ UNCHANGED << wiped, stage, firing >>
    BY <1>3 DEF CancelAndUnlock, CancelSeen, Queued, loopVars
  <2> QED
    BY <1>a, <1>b, <1>c, <2>1
<1>4. ASSUME ClearLast PROVE Heeded' \subseteq Heeded \ {s_last_wake_timeout_info}
  <2>1. /\ Queued' = Queued /\ Deciding' = {} /\ UNCHANGED cancelled
        /\ wiped' = wiped \cup ({s_last_wake_timeout_info} \ {firing, 0})
    BY <1>4 DEF ClearLast, Queued
  <2> QED
    BY <1>a, <1>b, <1>c, <2>1
<1>5. ASSUME FirePending PROVE Heeded' \subseteq Heeded
  <2>1. /\ Queued = {Head(pending_list)} \cup Queued' /\ UNCHANGED << cancelled, wiped >>
        /\ firing' = Head(pending_list)
    BY <1>5, LoopLists DEF FirePending
  <2> QED
    BY <1>a, <1>b, <2>1
<1>6. ASSUME WakeTimeoutCallback \/ CheckLast PROVE Heeded' \subseteq Heeded
  <2>1. Queued' = Queued /\ Deciding' = {} /\ UNCHANGED << cancelled, wiped >>
    BY <1>6 DEF WakeTimeoutCallback, CheckLast, Queued
  <2> QED
    BY <1>a, <1>b, <2>1
<1>7. ASSUME ProcessTimeouts PROVE Heeded' \subseteq Heeded
  <2>1. ~FirePending /\ \A t \in Threads : ~GrabArm(t)
    BY <1>7 DEF ProcessTimeouts, FirePending, GrabArm, TypeOK
  <2>2. Queued' = Queued /\ UNCHANGED << cancelled, wiped, stage, firing >>
    BY <1>7, <2>1, LoopLists DEF ProcessTimeouts
  <2> QED
    BY <1>a, <1>b, <2>2
<1>8. ASSUME UNCHANGED << loopVars, cancelled, wiped >> PROVE Heeded' \subseteq Heeded
  BY <1>8, <1>a, <1>b DEF loopVars, Queued
<1>9. ASSUME \A t \in Threads : ~GrabArm(t) PROVE Heeded' \subseteq Heeded
  BY <1>9, <1>3, <1>4, <1>5, <1>6, <1>7, <1>8
     DEF Next, EventLoop, GrabFails, ReleaseStart, Look, vars
<1> QED
  BY <1>1, <1>2, <1>3, <1>4, <1>9

(* A timer that is heeded is the one that is recorded, or the one the thread in the middle
   of a call has just armed or is about to cancel. *)
LEMMA RecordedStep ==
  /\ TypeOK /\ MutexOwned /\ InOrder /\ FiringKnown /\ OnlyRecorded /\ [Next]_vars
  => OnlyRecorded'
<1> SUFFICES ASSUME TypeOK, MutexOwned, InOrder, FiringKnown, OnlyRecorded, [Next]_vars
             PROVE  OnlyRecorded'
  OBVIOUS
<1>a. /\ armed \in Nat /\ pc \in [Threads -> {"idle", "look", "replace", "lookLast", "cancel"}]
      /\ seen \in [Threads -> Timers \cup {NULL}] /\ "free" \notin Threads
      /\ s_wakeLockCountMutex = "free" => \A u \in Threads : pc[u] = "idle"
      /\ \A u, t \in Threads : pc[t] # "idle" /\ u # t => pc[u] = "idle"
      /\ \A t \in Threads : pc[t] # "idle" => s_wakeLockCountMutex # "free"
  BY WakeLockAssumption DEF TypeOK, MutexOwned
<1>1. ASSUME NEW t \in Threads, GrabArm(t) PROVE OnlyRecorded'
  <2>1. /\ s_wakeLockCountMutex = "free" /\ s_wakeLockCountMutex' = t
        /\ pc' = [pc EXCEPT ![t] = "look"] /\ armed' = armed + 1
        /\ Heeded' \subseteq Heeded \cup {armed + 1}
        /\ UNCHANGED s_last_wake_timeout_info
    BY <1>1, HeededStep DEF GrabArm, Lock, Goto
  <2>2. Heeded' \subseteq {armed', s_last_wake_timeout_info'}
    BY <2>1 DEF OnlyRecorded
  <2>3. \A u \in Threads : pc'[u] = IF u = t THEN "look" ELSE "idle"
    BY <1>a, <2>1
  <2> QED
    BY <1>a, <2>1, <2>2, <2>3 DEF OnlyRecorded
<1>2. ASSUME NEW t \in Threads, ReleaseStart(t) PROVE OnlyRecorded'
  <2>1. /\ s_wakeLockCountMutex = "free" /\ UNCHANGED << armed, s_last_wake_timeout_info, seen >>
        /\ Heeded' \subseteq Heeded
    <3>1. UNCHANGED << timer_list, pending_list, stage, firing, cancelled, wiped >>
      BY <1>2 DEF ReleaseStart, loopVars
    <3>2. Heeded' = Heeded
      BY <3>1 DEF Heeded, Live
    <3> QED
      BY <1>2, <3>2 DEF ReleaseStart, Lock
  <2>2. CASE UNCHANGED << s_wakeLockCountMutex, pc >>
    BY <2>1, <2>2 DEF OnlyRecorded
  <2>3. CASE s_wakeLockCountMutex' = t /\ pc' = [pc EXCEPT ![t] = "lookLast"]
    <3>1. \A u \in Threads : pc'[u] = IF u = t THEN "lookLast" ELSE "idle"
      BY <1>a, <2>1, <2>3
    <3>2. Heeded' \subseteq {s_last_wake_timeout_info'}
      BY <2>1 DEF OnlyRecorded
    <3> QED
      BY <1>a, <2>3, <3>1, <3>2 DEF OnlyRecorded
  <2> QED
    BY <1>2, <2>2, <2>3 DEF ReleaseStart, Goto, Lock
<1>3. ASSUME NEW t \in Threads, Look(t) PROVE OnlyRecorded'
  <2>1. /\ pc[t] \in {"look", "lookLast"}
        /\ UNCHANGED << s_wakeLockCountMutex, armed, s_last_wake_timeout_info >>
        /\ pc' = [pc EXCEPT ![t] = IF pc[t] = "look" THEN "replace" ELSE "cancel"]
        /\ seen' = [seen EXCEPT ![t] = s_last_wake_timeout_info] /\ Heeded' = Heeded
    BY <1>3 DEF Look, Goto, Heeded, Live, loopVars
  <2>2. \A u \in Threads : pc'[u] = IF u = t THEN IF pc[t] = "look" THEN "replace" ELSE "cancel"
                                    ELSE "idle"
    BY <1>a, <2>1
  <2>3. seen'[t] = s_last_wake_timeout_info /\ s_wakeLockCountMutex' # "free"
    BY <1>a, <2>1
  <2>4. /\ pc[t] = "look" => Heeded' \subseteq {armed', seen'[t]}
        /\ pc[t] = "lookLast" => Heeded' \subseteq {seen'[t]}
    BY <2>1, <2>3 DEF OnlyRecorded
  <2> QED
    BY <2>1, <2>2, <2>3, <2>4 DEF OnlyRecorded
<1>4. ASSUME NEW t \in Threads, CancelAndUnlock(t) PROVE OnlyRecorded'
  <2>1. /\ pc[t] \in {"replace", "cancel"} /\ Heeded' \subseteq Heeded \ {seen[t]}
        /\ pc' = [pc EXCEPT ![t] = "idle"]
        /\ pc[t] = "replace" => s_last_wake_timeout_info' = armed
    BY <1>4, HeededStep DEF CancelAndUnlock, Goto
  <2>2. \A u \in Threads : pc'[u] = "idle"
    BY <1>a, <2>1
  <2>3. Heeded' \subseteq {s_last_wake_timeout_info'}
    BY <2>1 DEF OnlyRecorded
  <2> QED
    BY <2>2, <2>3 DEF OnlyRecorded
<1>5. ASSUME Heeded' \subseteq Heeded \/ Heeded' \subseteq Heeded \ {s_last_wake_timeout_info},
             s_last_wake_timeout_info' = s_last_wake_timeout_info
               \/ Heeded' \subseteq Heeded \ {s_last_wake_timeout_info},
             UNCHANGED << s_wakeLockCountMutex, pc, seen, armed >>
      PROVE  OnlyRecorded'
  BY <1>5 DEF OnlyRecorded
<1>6. ASSUME ProcessTimeouts \/ FirePending \/ WakeTimeoutCallback \/ CheckLast
             \/ (\E t \in Threads : GrabFails(t)) \/ UNCHANGED vars
      PROVE  OnlyRecorded'
  <2>1. UNCHANGED << s_wakeLockCountMutex, s_last_wake_timeout_info, pc, seen, armed >>
    BY <1>6 DEF ProcessTimeouts, FirePending, WakeTimeoutCallback, CheckLast, GrabFails, vars
  <2>2. \A t \in Threads : ~GrabArm(t)
    BY <2>1, <1>a DEF GrabArm
  <2> QED
    BY <1>5, <2>1, <2>2, HeededStep
<1>7. ASSUME ClearLast PROVE OnlyRecorded'
  <2>1. Heeded' \subseteq Heeded \ {s_last_wake_timeout_info}
    BY <1>7, HeededStep
  <2>2. UNCHANGED << s_wakeLockCountMutex, pc, seen, armed >>
    BY <1>7 DEF ClearLast
  <2> QED
    BY <1>5, <2>1, <2>2
<1> QED
  BY <1>1, <1>2, <1>3, <1>4, <1>6, <1>7 DEF Next, EventLoop
-----------------------------------------------------------------------------
(* However grabs, acknowledgements and timeouts interleave, every variable keeps its
   type, the threads exclude each other, a held lock waits for its newest timer, and the
   timers that will be heeded are the recorded one and those of the thread inside. *)
THEOREM WakeLockInvariant == Spec => []WakeInv
<1>1. Init => WakeInv
  <2> SUFFICES ASSUME Init PROVE WakeInv
    OBVIOUS
  <2>1. Range(timer_list) = {} /\ Range(pending_list) = {} /\ Queued = {}
    BY DEF Init, Range, Queued
  <2>2. TypeOK
    <3>1. held \in BOOLEAN /\ wiped \subseteq Timers
      BY DEF Init
    <3>2. timer_list \in Seq(Timers) /\ pending_list \in Seq(Timers)
      BY EmptySeq DEF Init
    <3>3. /\ s_wakelock_count \in 0 .. MaxTimers /\ armed \in 0 .. MaxTimers
          /\ acks \in 0 .. armed /\ fails \in 0 .. MaxFails
      BY WakeLockAssumption DEF Init
    <3>4. /\ s_wakeLockCountMutex \in Threads \cup {"free"}
          /\ s_last_wake_timeout_info \in Timers \cup {NULL} /\ cancelled \subseteq Timers
          /\ firing \in Timers \cup {NULL} /\ stage \in {"loop", "release", "check", "clear"}
      BY DEF Init
    <3>5. /\ pc \in [Threads -> {"idle", "look", "replace", "lookLast", "cancel"}]
          /\ seen \in [Threads -> Timers \cup {NULL}]
      BY DEF Init
    <3> QED
      BY <3>1, <3>2, <3>3, <3>4, <3>5 DEF TypeOK
  <2>3. MutexOwned
    BY WakeLockAssumption DEF Init, MutexOwned
  <2>4. Heeded = {}
    BY <2>1 DEF Init, Heeded, Live, Queued
  <2>5. OnlyRecorded
    BY <2>4 DEF OnlyRecorded
  <2>6. Bounded /\ InOrder /\ FiringKnown /\ NewestLives
    BY <2>1 DEF Init, Bounded, InOrder, FiringKnown, NewestLives, NULL
  <2> QED
    BY <2>2, <2>3, <2>5, <2>6 DEF WakeInv
<1>2. WakeInv /\ [Next]_vars => WakeInv'
  BY TypeStep, MutexStep, BoundedStep, InOrderStep, FiringStep, NewestStep, RecordedStep
     DEF WakeInv
<1> QED
  BY <1>1, <1>2, PTL DEF Spec

(* The kernel's lock is held exactly while somebody counts on it, unless an allocation
   failed. *)
THEOREM CountCorrect == Spec => []CountIsTruth
<1>1. Init => CountIsTruth
  BY DEF Init, CountIsTruth
<1>2. TypeOK /\ CountIsTruth /\ [Next]_vars => CountIsTruth'
  <2> SUFFICES ASSUME TypeOK, CountIsTruth, [Next]_vars PROVE CountIsTruth'
    OBVIOUS
  <2>1. s_wakelock_count \in Nat /\ fails \in Nat
    BY WakeLockAssumption DEF TypeOK
  <2>2. ASSUME NEW t \in Threads, GrabArm(t) PROVE CountIsTruth'
    BY <2>1, <2>2 DEF GrabArm, CountIsTruth
  <2>3. ASSUME NEW t \in Threads, GrabFails(t) PROVE CountIsTruth'
    BY <2>1, <2>3 DEF GrabFails, CountIsTruth
  <2>4. ASSUME NEW t \in Threads, ReleaseStart(t) PROVE CountIsTruth'
    <3>1. CASE s_wakelock_count > 1
      BY <2>1, <2>4, <3>1 DEF ReleaseStart, CountIsTruth
    <3>2. CASE ~(s_wakelock_count > 1)
      BY <2>4, <3>2 DEF ReleaseStart, CountIsTruth
    <3> QED
      BY <3>1, <3>2
  <2>5. ASSUME WakeTimeoutCallback PROVE CountIsTruth'
    BY <2>5 DEF WakeTimeoutCallback, CountIsTruth
  <2>6. CASE UNCHANGED << s_wakelock_count, held, fails >>
    BY <2>6 DEF CountIsTruth
  <2> QED
    BY <2>2, <2>3, <2>4, <2>5, <2>6 DEF Next, EventLoop, Look, CancelAndUnlock, ProcessTimeouts,
                                       FirePending, CheckLast, ClearLast, vars, countVars
<1> QED
  BY <1>1, <1>2, WakeLockInvariant, PTL DEF Spec, WakeInv

(* A held lock always has a timer that will release it.  When the mutex is free there is
   at most one such timer, on the lists or in wakeTimeoutCallback, that was neither
   cancelled (before or after its mark was read) nor wiped from the record. *)
THEOREM TimerCorrect == Spec => []TimerMatchesLock
<1>1. WakeInv => TimerMatchesLock
  <2> SUFFICES ASSUME WakeInv PROVE HeldHasTimer /\ OneTimer
    BY DEF TimerMatchesLock
  <2>1. HeldHasTimer
    BY DEF WakeInv, NewestLives, HeldHasTimer
  <2>2. ASSUME s_wakeLockCountMutex = "free" PROVE Cardinality(Heeded) <= 1
    <3>1. Heeded \subseteq {s_last_wake_timeout_info}
      BY <2>2 DEF WakeInv, OnlyRecorded
    <3>2. Heeded = {} \/ Heeded = {s_last_wake_timeout_info}
      BY <3>1
    <3>3. Cardinality({}) = 0 /\ Cardinality({s_last_wake_timeout_info}) = 1
      BY FS_EmptySet, FS_Singleton
    <3>4. Cardinality(Heeded) = 0 \/ Cardinality(Heeded) = 1
      BY <3>2, <3>3
    <3> QED
      BY <3>4
  <2> QED
    BY <2>1, <2>2 DEF OneTimer
<1> QED
  BY <1>1, WakeLockInvariant, PTL
-----------------------------------------------------------------------------
(* The cached indications *)

SendPlaces == {"rlock", "call", "unlockR", "wlock", "disconnect", "wunlock", "relock"}
Places == SendPlaces \cup {"idle", "cache", "ready", "drainHead", "drainLock", "drain", "pop"}
CalledPlaces == SendPlaces \ {"rlock", "call"}

\* The binder thread is in sendUrc's loop, between taking and releasing the mutex
Draining ==
  \/ at[binder] \in {"drain", "pop"}
  \/ at[binder] \in SendPlaces /\ msg[binder] # Connected
\* ... with an indication of the list in its hands
HeadInHand == Draining /\ at[binder] # "drain"
\* ... which it has sent
HeadCalled == HeadInHand /\ at[binder] \notin {"rlock", "call"}

PlacesOK ==
  /\ at \in [Senders -> Places]
  /\ at[main] \in SendPlaces \cup {"idle", "cache"}
  /\ at[binder] # "cache"

MutexIsLoop == mutex = IF Draining THEN binder ELSE "free"

\* The main thread has the newest indication, which is not cached while it is on its way
NewestOnMain ==
  /\ cached \subseteq 1 .. urcs
  /\ \A i \in DOMAIN called : called[i][2] \in 1 .. urcs \cup {Connected}
  /\ at[main] # "idle" =>
       /\ urcs > 0 /\ msg[main] = urcs /\ urcs \notin cached
       /\ at[main] \notin CalledPlaces => \A i \in DOMAIN called : called[i][2] # urcs

\* What is listed was cached, in the order of arrival
ListOrdered ==
  /\ \A i \in DOMAIN pendedUrcList : pendedUrcList[i] \in cached
  /\ \A i, j \in DOMAIN pendedUrcList : i < j => pendedUrcList[i] < pendedUrcList[j]

\* The head the binder thread knows is the list's, unless it read it before the first
\* indication was cached
HeadKnown ==
  /\ HeadInHand => pendedUrcList # << >> /\ msg[binder] = pendedUrcList[1]
  /\ at[binder] = "drainLock" => head[binder] \in {HeadOf(pendedUrcList), NoUrc}
  /\ at[binder] = "drain" => \/ head[binder] = HeadOf(pendedUrcList)
                             \/ head[binder] = NoUrc /\ staleHead

\* Cached indications that were sent are ahead of what is listed
SentAhead ==
  \A i \in DOMAIN called : called[i][2] \in cached =>
    \A j \in DOMAIN pendedUrcList :
      called[i][2] < pendedUrcList[j] \/ (HeadCalled /\ j = 1 /\ called[i][2] = pendedUrcList[1])

SentOnce ==
  \A i, j \in DOMAIN called : called[i][2] = called[j][2] /\ called[i][2] # Connected => i = j

SentInOrder ==
  \A i, j \in DOMAIN called :
    i < j /\ called[i][2] \in cached /\ called[j][2] \in cached => called[i][2] < called[j][2]

Kept ==
  /\ HeadCalled => \E i \in DOMAIN called : called[i][2] = msg[binder]
  /\ ~staleHead => \A u \in cached : \/ \E j \in DOMAIN pendedUrcList : pendedUrcList[j] = u
                                     \/ \E i \in DOMAIN called : called[i][2] = u

CallsInv ==
  /\ PlacesOK /\ MutexIsLoop /\ NewestOnMain
  /\ ListOrdered /\ HeadKnown /\ SentAhead /\ SentOnce /\ SentInOrder /\ Kept

CacheInv == UrcTypeOK /\ CallsInv

\* The callbacks a thread is about to reset are those its call failed on, as long as the
\* counter is the one it noted
FailedNoted ==
  /\ \A t \in Senders : noted[t] <= counter
  /\ \A t \in Senders : at[t] = "wlock" =>
       \E i \in DOMAIN called :
         /\ called[i][2] = msg[t]
         /\ \A j \in DOMAIN called : called[j][2] = msg[t] => j <= i
         /\ noted[t] = counter => called[i][1] = callback
-----------------------------------------------------------------------------
(* The head of the list is an indication. *)
LEMMA ListHead ==
  ASSUME NEW q \in Seq(1 .. MaxUrcs), q # << >>
  PROVE  1 \in DOMAIN q /\ Head(q) = q[1] /\ q[1] \in 1 .. MaxUrcs
<1>1. Len(q) \in Nat /\ Len(q) > 0 /\ DOMAIN q = 1 .. Len(q) /\ Head(q) = q[1]
  OBVIOUS
<1>2. 1 \in 1 .. Len(q)
  BY <1>1
<1>3. q[1] \in 1 .. MaxUrcs
  BY <1>2, ElementOfSeq
<1> QED
  BY <1>1, <1>3
-----------------------------------------------------------------------------
(* A step of the threads that leaves the list, the cache and the calls alone *)

(* What is said of the list and of the calls is kept by a step that changes  *)
(* neither, unless it takes the indication just sent out of the thread's hand. *)
LEMMA ListsFrame ==
  ASSUME ListOrdered, SentAhead, SentOnce, SentInOrder, Kept,
         UNCHANGED << pendedUrcList, cached, called >>, staleHead => staleHead',
         HeadCalled' <=> HeadCalled, HeadCalled => msg'[binder] = msg[binder]
  PROVE  ListOrdered' /\ SentAhead' /\ SentOnce' /\ SentInOrder' /\ Kept'
<1>1. ListOrdered' /\ SentOnce' /\ SentInOrder'
  BY DEF ListOrdered, SentOnce, SentInOrder
<1>2. SentAhead'
  BY DEF SentAhead
<1>3. Kept'
  BY DEF Kept
<1> QED
  BY <1>1, <1>2, <1>3

(* A thread in the middle of a call stays on the same side of it. *)
LEMMA SameSide ==
  ASSUME PlacesOK, NEW t \in Senders, NEW p \in SendPlaces, at[t] \in SendPlaces,
         p \in CalledPlaces <=> at[t] \in CalledPlaces,
         at' = [at EXCEPT ![t] = p], msg' = msg
  PROVE  /\ PlacesOK'
         /\ Draining' <=> Draining
         /\ HeadInHand' <=> HeadInHand
         /\ HeadCalled' <=> HeadCalled
         /\ at'[binder] \in {"drainLock", "drain"} <=> at[binder] \in {"drainLock", "drain"}
         /\ at'[main] = "idle" <=> at[main] = "idle"
         /\ at'[main] \in CalledPlaces <=> at[main] \in CalledPlaces
<1>1. /\ t \in {main, binder} /\ main # binder /\ main \in Senders /\ binder \in Senders
  BY RilUrcCacheAssumption DEF Senders
<1>2. \A s \in Senders : at'[s] = IF s = t THEN p ELSE at[s]
  BY DEF PlacesOK, Places
<1>3. PlacesOK'
  <2>1. at' \in [Senders -> Places]
    BY DEF PlacesOK, Places
  <2> QED
    BY <1>1, <1>2, <2>1 DEF PlacesOK, Places, SendPlaces
<1>4. CASE t = binder
  <2>1. at'[binder] = p /\ at'[main] = at[main] /\ at[binder] \in SendPlaces
    BY <1>1, <1>2, <1>4
  <2>2. Draining' <=> Draining
    BY <2>1 DEF Draining, SendPlaces
  <2>3. HeadInHand' <=> HeadInHand
    BY <2>1, <2>2 DEF HeadInHand, SendPlaces
  <2>4. HeadCalled' <=> HeadCalled
    BY <1>4, <2>1, <2>3 DEF HeadCalled, SendPlaces, CalledPlaces
  <2> QED
    BY <1>3, <2>1, <2>2, <2>3, <2>4 DEF SendPlaces
<1>5. CASE t = main
  <2>1. at'[main] = p /\ at'[binder] = at[binder] /\ at[main] \in SendPlaces
    BY <1>1, <1>2, <1>5
  <2>2. Draining' <=> Draining
    BY <2>1 DEF Draining
  <2>3. HeadInHand' <=> HeadInHand
    BY <2>1, <2>2 DEF HeadInHand
  <2>4. HeadCalled' <=> HeadCalled
    BY <2>1, <2>3 DEF HeadCalled
  <2> QED
    BY <1>3, <1>5, <2>1, <2>2, <2>3, <2>4 DEF SendPlaces
<1> QED
  BY <1>1, <1>4, <1>5

(* Locks, the reset of the callbacks, the connection flag: none of the parts that are *)
(* about indications is concerned. *)
LEMMA StaysSending ==
  ASSUME CacheInv, NEW t \in Senders, NEW p \in SendPlaces, at[t] \in SendPlaces,
         p \in CalledPlaces <=> at[t] \in CalledPlaces, at' = [at EXCEPT ![t] = p],
         UNCHANGED << mutex, pendedUrcList, msg, head, urcs, history >>
  PROVE  CallsInv'
<1>0. UNCHANGED << mutex, pendedUrcList, msg, head, urcs, cached, called, staleHead >>
  BY DEF history
<1>1. /\ PlacesOK'
      /\ Draining' <=> Draining
      /\ HeadInHand' <=> HeadInHand
      /\ HeadCalled' <=> HeadCalled
      /\ at'[binder] \in {"drainLock", "drain"} <=> at[binder] \in {"drainLock", "drain"}
      /\ at'[main] = "idle" <=> at[main] = "idle"
      /\ at'[main] \in CalledPlaces <=> at[main] \in CalledPlaces
  BY <1>0, SameSide DEF CacheInv, CallsInv
<1>2. MutexIsLoop'
  BY <1>0, <1>1 DEF CacheInv, CallsInv, MutexIsLoop
<1>3. NewestOnMain'
  BY <1>0, <1>1 DEF CacheInv, CallsInv, NewestOnMain
<1>4. HeadKnown'
  <2>1. t = binder => at'[binder] \notin {"drainLock", "drain"}
    BY DEF CacheInv, CallsInv, PlacesOK, Places, SendPlaces
  <2>2. t # binder => at'[binder] = at[binder]
    BY DEF CacheInv, CallsInv, PlacesOK, Places, Senders
  <2>3. HeadInHand' => pendedUrcList' # << >> /\ msg'[binder] = pendedUrcList'[1]
    BY <1>0, <1>1 DEF CacheInv, CallsInv, HeadKnown
  <2> QED
    BY <1>0, <2>1, <2>2, <2>3 DEF CacheInv, CallsInv, HeadKnown
<1>5. ListOrdered' /\ SentAhead' /\ SentOnce' /\ SentInOrder' /\ Kept'
  BY <1>0, <1>1, ListsFrame DEF CacheInv, CallsInv
<1> QED
  BY <1>1, <1>2, <1>3, <1>4, <1>5 DEF CallsInv

(* Taking and releasing the locks, resetting the callbacks. *)
LEMMA SendingCalls ==
  ASSUME CacheInv, NEW t \in Senders,
         LockR(t) \/ ResetCallbacks(t) \/ OnCommandDisconnect(t) \/ UnlockW(t)
  PROVE  CallsInv'
<1>1. CASE LockR(t)
  <2>1. PICK p \in {"call", "unlockR"} :
          at' = [at EXCEPT ![t] = p] /\ (p = "call" <=> at[t] = "rlock")
    BY <1>1 DEF LockR, Go
  <2>2. at[t] \in SendPlaces /\ p \in SendPlaces /\ (p \in CalledPlaces <=> at[t] \in CalledPlaces)
    BY <1>1, <2>1 DEF LockR, SendPlaces, CalledPlaces
  <2> QED
    BY <1>1, <2>1, <2>2, StaysSending DEF LockR
<1>2. CASE ResetCallbacks(t)
  <2>1. PICK p \in {"disconnect", "wunlock"} : at' = [at EXCEPT ![t] = p]
    BY <1>2 DEF ResetCallbacks, Go
  <2>2. at[t] \in SendPlaces /\ p \in SendPlaces /\ (p \in CalledPlaces <=> at[t] \in CalledPlaces)
    BY <1>2, <2>1 DEF ResetCallbacks, SendPlaces, CalledPlaces
  <2> QED
    BY <1>2, <2>1, <2>2, StaysSending DEF ResetCallbacks
<1>3. CASE OnCommandDisconnect(t)
  <2>1. at[t] \in SendPlaces /\ "wunlock" \in SendPlaces
        /\ ("wunlock" \in CalledPlaces <=> at[t] \in CalledPlaces)
    BY <1>3 DEF OnCommandDisconnect, SendPlaces, CalledPlaces
  <2> QED
    BY <1>3, <2>1, StaysSending DEF OnCommandDisconnect, Go, locks
<1>4. CASE UnlockW(t)
  <2>1. at[t] \in SendPlaces /\ "relock" \in SendPlaces
        /\ ("relock" \in CalledPlaces <=> at[t] \in CalledPlaces)
    BY <1>4 DEF UnlockW, SendPlaces, CalledPlaces
  <2> QED
    BY <1>4, <2>1, StaysSending DEF UnlockW, Go
<1> QED
  BY <1>1, <1>2, <1>3, <1>4

(* At the end of a send the main thread rests, and the binder thread goes on to *)
(* remove the indication it has sent, or to start with the list. *)
LEMMA UnlockRCalls ==
  ASSUME CacheInv, NEW t \in Senders, UnlockR(t)
  PROVE  CallsInv'
<1>0. /\ UNCHANGED << mutex, pendedUrcList, msg, head, urcs, cached, called, staleHead >>
      /\ at[t] = "unlockR" /\ PlacesOK
      /\ main \in Senders /\ binder \in Senders /\ t \in {main, binder} /\ main # binder
  BY RilUrcCacheAssumption DEF UnlockR, history, CacheInv, CallsInv, Senders
<1>1. \A s \in Senders : at'[s] =
        IF s = t THEN IF t = main THEN "idle" ELSE IF msg[t] = Connected THEN "drainHead" ELSE "pop"
                 ELSE at[s]
  BY <1>0 DEF UnlockR, Go, PlacesOK, Places
<1>2. PlacesOK'
  <2>1. at' \in [Senders -> Places]
    BY <1>0 DEF UnlockR, Go, PlacesOK, Places
  <2> QED
    BY <1>0, <1>1, <2>1 DEF PlacesOK, Places, SendPlaces
<1>3. /\ Draining' <=> Draining
      /\ HeadInHand' <=> HeadInHand
      /\ HeadCalled' <=> HeadCalled
      /\ at'[binder] \in {"drainLock", "drain"} => at'[binder] = at[binder]
  <2>1. CASE t = main
    BY <1>0, <1>1, <2>1 DEF Draining, HeadInHand, HeadCalled
  <2>2. CASE t = binder
    BY <1>0, <1>1, <2>2 DEF Draining, HeadInHand, HeadCalled, SendPlaces
  <2> QED
    BY <1>0, <2>1, <2>2
<1>4. MutexIsLoop'
  BY <1>0, <1>3 DEF CacheInv, CallsInv, MutexIsLoop
<1>5. NewestOnMain'
  <2>1. at'[main] # "idle" => at'[main] = at[main]
    BY <1>0, <1>1
  <2> QED
    BY <1>0, <2>1 DEF CacheInv, CallsInv, NewestOnMain
<1>6. HeadKnown'
  BY <1>0, <1>3 DEF CacheInv, CallsInv, HeadKnown
<1>7. ListOrdered' /\ SentAhead' /\ SentOnce' /\ SentInOrder' /\ Kept'
  BY <1>0, <1>3, ListsFrame DEF CacheInv, CallsInv
<1> QED
  BY <1>2, <1>4, <1>5, <1>6, <1>7 DEF CallsInv

(* The call of an indication function: the indication was not sent before, and any cached *)
(* one that was sent is older. *)
LEMMA CallCalls ==
  ASSUME CacheInv, NEW t \in Senders, Call(t)
  PROVE  CallsInv'
<1>0. /\ UNCHANGED << mutex, pendedUrcList, msg, head, urcs, cached, staleHead >>
      /\ at[t] = "call" /\ CallsInv /\ UrcTypeOK
      /\ main \in Senders /\ binder \in Senders /\ t \in {main, binder} /\ main # binder
  BY RilUrcCacheAssumption DEF Call, CacheInv, Senders
<1>1. PICK p \in {"unlockR", "wlock"} : at' = [at EXCEPT ![t] = p]
  BY DEF Call, Go
<1>2. \A s \in Senders : at'[s] = IF s = t THEN p ELSE at[s]
  BY <1>0, <1>1 DEF CallsInv, PlacesOK, Places
<1>3. PlacesOK'
  <2>1. at' \in [Senders -> Places]
    BY <1>0, <1>1 DEF CallsInv, PlacesOK, Places, SendPlaces
  <2> QED
    BY <1>0, <1>2, <2>1 DEF CallsInv, PlacesOK, Places, SendPlaces
<1>4. /\ Draining' <=> Draining
      /\ HeadInHand' <=> HeadInHand
      /\ HeadCalled' <=> IF t = binder THEN HeadInHand ELSE HeadCalled
      /\ at'[binder] \in {"drainLock", "drain"} => at'[binder] = at[binder]
      /\ t = binder => ~HeadCalled
  <2>1. CASE t = main
    BY <1>0, <1>2, <2>1 DEF Draining, HeadInHand, HeadCalled
  <2>2. CASE t = binder
    BY <1>0, <1>2, <2>2 DEF Draining, HeadInHand, HeadCalled, SendPlaces
  <2> QED
    BY <1>0, <2>1, <2>2
<1>5. /\ called \in Seq((0 .. generation) \X Messages) /\ called' = Append(called, << callback, msg[t] >>)
  BY <1>0 DEF Call, UrcTypeOK
<1>6. /\ Len(called) \in Nat /\ DOMAIN called = 1 .. Len(called)
      /\ DOMAIN called' = 1 .. Len(called) + 1
      /\ \A i \in DOMAIN called : called'[i] = called[i]
      /\ called'[Len(called) + 1] = << callback, msg[t] >>
  BY <1>5
<1>7. \A i \in DOMAIN called' : \/ i \in DOMAIN called /\ called'[i][2] = called[i][2]
                                \/ i = Len(called) + 1 /\ called'[i][2] = msg[t]
  BY <1>6
<1>8. /\ t = main => /\ msg[t] = urcs /\ urcs > 0 /\ urcs \notin cached
                     /\ \A i \in DOMAIN called : called[i][2] # urcs
      /\ t = binder /\ msg[t] # Connected =>
           /\ HeadInHand /\ ~HeadCalled /\ pendedUrcList # << >> /\ msg[t] = pendedUrcList[1]
           /\ 1 \in DOMAIN pendedUrcList
  <2>1. ASSUME t = main
        PROVE  /\ msg[t] = urcs /\ urcs > 0 /\ urcs \notin cached
               /\ \A i \in DOMAIN called : called[i][2] # urcs
    BY <1>0, <2>1 DEF CallsInv, NewestOnMain, CalledPlaces
  <2>2. ASSUME t = binder, msg[t] # Connected
        PROVE  /\ HeadInHand /\ ~HeadCalled /\ pendedUrcList # << >> /\ msg[t] = pendedUrcList[1]
               /\ 1 \in DOMAIN pendedUrcList
    <3>1. HeadInHand /\ ~HeadCalled
      BY <1>0, <2>2 DEF HeadInHand, HeadCalled, Draining, SendPlaces
    <3>2. pendedUrcList # << >> /\ msg[t] = pendedUrcList[1]
      BY <1>0, <2>2, <3>1 DEF CallsInv, HeadKnown
    <3> QED
      BY <1>0, <3>1, <3>2 DEF UrcTypeOK
  <2> QED
    BY <2>1, <2>2
<1>9. t = binder /\ msg[t] # Connected =>
        /\ msg[t] \in cached /\ msg[t] \in 1 .. urcs
        /\ \A j \in DOMAIN pendedUrcList : j # 1 => msg[t] < pendedUrcList[j]
        /\ \A i \in DOMAIN called : called[i][2] \in cached => called[i][2] < msg[t]
  <2> SUFFICES ASSUME t = binder, msg[t] # Connected
               PROVE  /\ msg[t] \in cached /\ msg[t] \in 1 .. urcs
                      /\ \A j \in DOMAIN pendedUrcList : j # 1 => msg[t] < pendedUrcList[j]
                      /\ \A i \in DOMAIN called : called[i][2] \in cached => called[i][2] < msg[t]
    OBVIOUS
  <2>1. msg[t] \in cached /\ msg[t] \in 1 .. urcs
    BY <1>0, <1>8 DEF CallsInv, ListOrdered, NewestOnMain
  <2>2. \A j \in DOMAIN pendedUrcList : j # 1 => msg[t] < pendedUrcList[j]
    <3>1. \A j \in DOMAIN pendedUrcList : j # 1 => j > 1
      BY <1>0 DEF UrcTypeOK
    <3> QED
      BY <1>0, <1>8, <3>1 DEF CallsInv, ListOrdered
  <2>3. \A i \in DOMAIN called : called[i][2] \in cached => called[i][2] < msg[t]
    BY <1>0, <1>8 DEF CallsInv, SentAhead
  <2> QED
    BY <2>1, <2>2, <2>3
<1>10. MutexIsLoop' /\ ListOrdered' /\ HeadKnown'
  <2>1. MutexIsLoop'
    BY <1>0, <1>4 DEF CallsInv, MutexIsLoop
  <2>2. ListOrdered'
    BY <1>0 DEF CallsInv, ListOrdered
  <2>3. HeadKnown'
    BY <1>0, <1>4 DEF CallsInv, HeadKnown
  <2> QED
    BY <2>1, <2>2, <2>3
<1>11. NewestOnMain'
  <2>1. \A i \in DOMAIN called' : called'[i][2] \in 1 .. urcs \cup {Connected}
    <3>1. urcs > 0 => urcs \in 1 .. urcs
      BY <1>0, RilUrcCacheAssumption DEF UrcTypeOK
    <3>2. msg[t] \in 1 .. urcs \cup {Connected}
      BY <1>0, <1>8, <1>9, <3>1
    <3>3. \A i \in DOMAIN called : called[i][2] \in 1 .. urcs \cup {Connected}
      BY <1>0 DEF CallsInv, NewestOnMain
    <3> QED
      BY <1>7, <3>2, <3>3
  <2>2. at'[main] # "idle" => urcs > 0 /\ msg[main] = urcs /\ urcs \notin cached
    BY <1>0, <1>2 DEF CallsInv, NewestOnMain
  <2>3. at'[main] # "idle" /\ at'[main] \notin CalledPlaces => \A i \in DOMAIN called' : called'[i][2] # urcs
    <3>1. CASE t = main
      BY <1>0, <1>2, <3>1 DEF CalledPlaces, SendPlaces
    <3>2. CASE t = binder
      <4>1. Connected # urcs
        BY <1>0, RilUrcCacheAssumption DEF UrcTypeOK, Connected
      <4>2. at'[main] = at[main]
        BY <1>0, <1>2, <3>2
      <4> QED
        BY <1>0, <1>7, <1>9, <3>2, <4>1, <4>2 DEF CallsInv, NewestOnMain
    <3> QED
      BY <1>0, <3>1, <3>2
  <2> QED
    BY <1>0, <2>1, <2>2, <2>3 DEF CallsInv, NewestOnMain
<1>12. Connected \notin cached /\ Connected # urcs
  BY <1>0, RilUrcCacheAssumption DEF UrcTypeOK, Connected
<1>13. msg[t] # Connected => \A i \in DOMAIN called : called[i][2] # msg[t]
  <2>1. cached \subseteq Int
    BY <1>0 DEF UrcTypeOK
  <2> QED
    BY <1>0, <1>8, <1>9, <2>1
<1>14. SentOnce'
  BY <1>0, <1>6, <1>7, <1>13 DEF CallsInv, SentOnce
<1>15. SentInOrder'
  <2>1. SUFFICES ASSUME NEW i \in DOMAIN called', NEW j \in DOMAIN called', i < j,
                        called'[i][2] \in cached, called'[j][2] \in cached
                 PROVE  called'[i][2] < called'[j][2]
    BY <1>0 DEF SentInOrder
  <2>2. i \in DOMAIN called /\ called'[i][2] = called[i][2]
    BY <1>6, <1>7, <2>1
  <2>3. CASE j \in DOMAIN called /\ called'[j][2] = called[j][2]
    BY <1>0, <2>1, <2>2, <2>3 DEF CallsInv, SentInOrder
  <2>4. CASE j = Len(called) + 1 /\ called'[j][2] = msg[t]
    BY <1>0, <1>8, <1>9, <1>12, <2>1, <2>2, <2>4
  <2> QED
    BY <1>7, <2>3, <2>4
<1>16. SentAhead'
  <2>1. SUFFICES ASSUME NEW i \in DOMAIN called', NEW j \in DOMAIN pendedUrcList, called'[i][2] \in cached
                 PROVE  \/ called'[i][2] < pendedUrcList[j]
                        \/ HeadCalled' /\ j = 1 /\ called'[i][2] = pendedUrcList[1]
    BY <1>0 DEF SentAhead
  <2>2. CASE i \in DOMAIN called /\ called'[i][2] = called[i][2]
    BY <1>0, <1>4, <2>1, <2>2 DEF CallsInv, SentAhead
  <2>3. CASE i = Len(called) + 1 /\ called'[i][2] = msg[t]
    BY <1>0, <1>4, <1>8, <1>9, <1>12, <2>1, <2>3
  <2> QED
    BY <1>7, <2>2, <2>3
<1>17. Kept'
  <2>1. HeadCalled' => \E i \in DOMAIN called' : called'[i][2] = msg[binder]
    <3>1. CASE t = binder
      BY <1>6, <3>1
    <3>2. CASE t = main
      BY <1>0, <1>4, <1>6, <3>2 DEF CallsInv, Kept
    <3> QED
      BY <1>0, <3>1, <3>2
  <2>2. \A u : (\E i \in DOMAIN called : called[i][2] = u) => \E i \in DOMAIN called' : called'[i][2] = u
    BY <1>6
  <2> QED
    BY <1>0, <2>1, <2>2 DEF CallsInv, Kept
<1> QED
  BY <1>3, <1>10, <1>11, <1>14, <1>15, <1>16, <1>17 DEF CallsInv

(* An indication that arrives is the newest; it has been neither cached nor sent. *)
LEMMA CacheHeadCalls ==
  ASSUME CacheInv, CacheUrcHead
  PROVE  CallsInv'
<1>0. /\ UNCHANGED << mutex, pendedUrcList, cached, called, staleHead >>
      /\ at[main] = "idle" /\ at' = [at EXCEPT ![main] = "cache"]
      /\ urcs' = urcs + 1 /\ msg' = [msg EXCEPT ![main] = urcs + 1] /\ urcs < MaxUrcs
      /\ head'[binder] = head[binder]
      /\ CallsInv /\ UrcTypeOK
      /\ main \in Senders /\ binder \in Senders /\ main # binder
  BY RilUrcCacheAssumption DEF CacheUrcHead, history, locks, Go, CacheInv, Senders, UrcTypeOK
<1>1. /\ at'[main] = "cache" /\ at'[binder] = at[binder]
      /\ msg'[main] = urcs + 1 /\ msg'[binder] = msg[binder]
  BY <1>0 DEF CallsInv, PlacesOK, Places, UrcTypeOK
<1>2. PlacesOK'
  BY <1>0, <1>1 DEF CallsInv, PlacesOK, Places
<1>3. /\ Draining' <=> Draining
      /\ HeadInHand' <=> HeadInHand
      /\ HeadCalled' <=> HeadCalled
  BY <1>1 DEF Draining, HeadInHand, HeadCalled
<1>4. MutexIsLoop' /\ HeadKnown'
  <2>1. MutexIsLoop'
    BY <1>0, <1>3 DEF CallsInv, MutexIsLoop
  <2>2. HeadKnown'
    BY <1>0, <1>1, <1>3 DEF CallsInv, HeadKnown
  <2> QED
    BY <2>1, <2>2
<1>5. NewestOnMain'
  <2>1. urcs \in Nat /\ urcs' > 0 /\ urcs' # Connected /\ urcs' \notin 1 .. urcs
        /\ \A u \in 1 .. urcs : u \in 1 .. urcs'
    BY <1>0, RilUrcCacheAssumption DEF UrcTypeOK, Connected
  <2>2. cached' \subseteq 1 .. urcs' /\ \A i \in DOMAIN called' : called'[i][2] \in 1 .. urcs' \cup {Connected}
    BY <1>0, <2>1 DEF CallsInv, NewestOnMain
  <2>3. urcs' \notin cached' /\ \A i \in DOMAIN called' : called'[i][2] # urcs'
    BY <1>0, <2>1 DEF CallsInv, NewestOnMain
  <2> QED
    BY <1>0, <1>1, <2>1, <2>2, <2>3 DEF NewestOnMain
<1>6. ListOrdered' /\ SentAhead' /\ SentOnce' /\ SentInOrder' /\ Kept'
  BY <1>0, <1>1, <1>3, ListsFrame DEF CallsInv
<1> QED
  BY <1>2, <1>4, <1>5, <1>6 DEF CallsInv

(* The newest indication is cached behind all others, while the binder thread is not in *)
(* its loop, or is on its way to the client. *)
LEMMA CacheCalls ==
  ASSUME CacheInv, CacheUrc
  PROVE  CallsInv'
<1>0. /\ UNCHANGED << mutex, called, urcs, msg, head >>
      /\ at[main] = "cache" /\ mutex = "free" /\ msg[main] = urcs
      /\ CallsInv /\ UrcTypeOK
      /\ main \in Senders /\ binder \in Senders /\ main # binder /\ binder # "free"
  BY RilUrcCacheAssumption DEF CacheUrc, locks, CacheInv, CallsInv, NewestOnMain, Senders
<1>1. PICK p \in {"rlock", "idle"} : at' = [at EXCEPT ![main] = p]
  BY DEF CacheUrc, Go
<1>2. at'[main] = p /\ at'[binder] = at[binder]
  BY <1>0, <1>1 DEF CallsInv, PlacesOK, Places
<1>3. PlacesOK'
  BY <1>0, <1>1, <1>2 DEF CallsInv, PlacesOK, Places, SendPlaces
<1>4. /\ ~Draining /\ ~HeadInHand /\ ~HeadCalled
      /\ ~Draining' /\ ~HeadInHand' /\ ~HeadCalled'
  <2>1. ~Draining
    BY <1>0 DEF CallsInv, MutexIsLoop
  <2>2. ~Draining'
    BY <1>0, <1>2, <2>1 DEF Draining
  <2> QED
    BY <2>1, <2>2 DEF HeadInHand, HeadCalled
<1>5. MutexIsLoop'
  BY <1>0, <1>4 DEF MutexIsLoop
<1>6. at[binder] # "drain" /\ at'[binder] # "drain"
  BY <1>2, <1>4 DEF Draining
<1>7. CASE ready
  <2>1. UNCHANGED << pendedUrcList, cached, staleHead >> /\ p = "rlock"
    BY <1>0, <1>1, <1>2, <1>7 DEF CacheUrc, Go, CallsInv, PlacesOK, Places
  <2>2. NewestOnMain'
    BY <1>0, <1>2, <2>1 DEF CallsInv, NewestOnMain, CalledPlaces, SendPlaces
  <2>3. HeadKnown'
    BY <1>0, <1>2, <1>4, <2>1 DEF CallsInv, HeadKnown
  <2>4. ListOrdered' /\ SentAhead' /\ SentOnce' /\ SentInOrder' /\ Kept'
    BY <1>0, <1>4, <2>1, ListsFrame DEF CallsInv
  <2> QED
    BY <1>3, <1>5, <2>2, <2>3, <2>4 DEF CallsInv
<1>8. CASE ~ready
  <2>1. /\ p = "idle" /\ cached' = cached \cup {urcs}
        /\ \/ pendedUrcList' = Append(pendedUrcList, urcs) /\ staleHead' = staleHead
           \/ pendedUrcList' = Append(pendedUrcList, urcs) /\ staleHead'
           \/ pendedUrcList' = pendedUrcList /\ staleHead'
    <3>1. p = "idle"
      BY <1>0, <1>1, <1>2, <1>8 DEF CacheUrc, Go, CallsInv, PlacesOK, Places
    <3> QED
      BY <1>0, <1>8, <3>1 DEF CacheUrc
  <2>2. /\ urcs \in Int /\ urcs > 0 /\ urcs \notin cached /\ cached \subseteq 1 .. urcs /\ urcs # Connected
        /\ \A i \in DOMAIN called : called[i][2] # urcs
        /\ \A u \in cached : u \in Int /\ u < urcs
    <3>1. /\ urcs > 0 /\ urcs \notin cached /\ cached \subseteq 1 .. urcs
          /\ \A i \in DOMAIN called : called[i][2] # urcs
      BY <1>0 DEF CallsInv, NewestOnMain, CalledPlaces, SendPlaces
    <3>2. urcs \in Int /\ urcs # Connected
      BY <1>0, RilUrcCacheAssumption DEF UrcTypeOK, Connected
    <3>3. \A u \in cached : u \in Int /\ u < urcs
      BY <3>1, <3>2
    <3> QED
      BY <3>1, <3>2, <3>3
  <2>3. NewestOnMain'
    <3>1. cached' \subseteq 1 .. urcs
      BY <2>1, <2>2
    <3> QED
      BY <1>0, <1>2, <2>1, <3>1 DEF CallsInv, NewestOnMain
  <2>4. /\ pendedUrcList \in Seq(1 .. MaxUrcs) /\ urcs \in 1 .. MaxUrcs
        /\ Len(pendedUrcList) \in Nat /\ DOMAIN pendedUrcList = 1 .. Len(pendedUrcList)
    BY <1>0, <2>2 DEF UrcTypeOK
  <2>5. /\ \A j \in DOMAIN pendedUrcList : j \in DOMAIN pendedUrcList' /\ pendedUrcList'[j] = pendedUrcList[j]
        /\ \A j \in DOMAIN pendedUrcList' : \/ j \in DOMAIN pendedUrcList /\ pendedUrcList'[j] = pendedUrcList[j]
                                            \/ j = Len(pendedUrcList) + 1 /\ pendedUrcList'[j] = urcs
        /\ ~staleHead' => ~staleHead /\ \E j \in DOMAIN pendedUrcList' : pendedUrcList'[j] = urcs
    <3>1. /\ DOMAIN Append(pendedUrcList, urcs) = 1 .. Len(pendedUrcList) + 1
          /\ \A j \in 1 .. Len(pendedUrcList) : Append(pendedUrcList, urcs)[j] = pendedUrcList[j]
          /\ Append(pendedUrcList, urcs)[Len(pendedUrcList) + 1] = urcs
      BY <2>4
    <3>2. /\ Len(pendedUrcList) + 1 \in DOMAIN Append(pendedUrcList, urcs)
          /\ DOMAIN pendedUrcList \subseteq DOMAIN Append(pendedUrcList, urcs)
          /\ \A j \in DOMAIN Append(pendedUrcList, urcs) :
                j \in DOMAIN pendedUrcList \/ j = Len(pendedUrcList) + 1
      BY <2>4, <3>1
    <3>3. CASE pendedUrcList' = pendedUrcList /\ staleHead'
      BY <3>3
    <3>4. CASE pendedUrcList' = Append(pendedUrcList, urcs) /\ (staleHead' \/ staleHead' = staleHead)
      BY <2>4, <3>1, <3>2, <3>4
    <3> QED
      BY <2>1, <3>3, <3>4
  <2>6. ListOrdered'
    <3>1. \A j \in DOMAIN pendedUrcList' : pendedUrcList'[j] \in cached'
      BY <1>0, <2>1, <2>5 DEF CallsInv, ListOrdered
    <3>2. \A i, j \in DOMAIN pendedUrcList' : i < j => pendedUrcList'[i] < pendedUrcList'[j]
      <4>1. SUFFICES ASSUME NEW i \in DOMAIN pendedUrcList', NEW j \in DOMAIN pendedUrcList', i < j
                     PROVE  pendedUrcList'[i] < pendedUrcList'[j]
        OBVIOUS
      <4>2. i \in DOMAIN pendedUrcList /\ pendedUrcList'[i] = pendedUrcList[i]
        BY <2>4, <2>5, <4>1
      <4>3. CASE j \in DOMAIN pendedUrcList /\ pendedUrcList'[j] = pendedUrcList[j]
        BY <1>0, <4>1, <4>2, <4>3 DEF CallsInv, ListOrdered
      <4>4. CASE pendedUrcList'[j] = urcs
        BY <1>0, <2>2, <4>2, <4>4 DEF CallsInv, ListOrdered
      <4> QED
        BY <2>5, <4>3, <4>4
    <3> QED
      BY <3>1, <3>2 DEF ListOrdered
  <2>7. HeadKnown'
    <3>1. ASSUME at[binder] = "drainLock", head[binder] = HeadOf(pendedUrcList)
          PROVE  head[binder] \in {HeadOf(pendedUrcList'), NoUrc}
      <4>1. CASE pendedUrcList = << >>
        BY <3>1, <4>1 DEF HeadOf
      <4>2. CASE pendedUrcList # << >>
        <5>1. 1 \in DOMAIN pendedUrcList /\ HeadOf(pendedUrcList) = pendedUrcList[1]
          BY <2>4, <4>2 DEF HeadOf
        <5>2. pendedUrcList' \in Seq(1 .. MaxUrcs)
          <6>1. Append(pendedUrcList, urcs) \in Seq(1 .. MaxUrcs)
            BY <2>4
          <6> QED
            BY <2>1, <2>4, <6>1
        <5>3. HeadOf(pendedUrcList') = pendedUrcList[1]
          BY <2>5, <5>1, <5>2 DEF HeadOf
        <5> QED
          BY <3>1, <5>1, <5>3
      <4> QED
        BY <4>1, <4>2
    <3>2. at[binder] = "drainLock" => head[binder] \in {HeadOf(pendedUrcList), NoUrc}
      BY <1>0 DEF CallsInv, HeadKnown
    <3> QED
      BY <1>0, <1>2, <1>4, <1>6, <3>1, <3>2 DEF HeadKnown
  <2>8. SentOnce'
    BY <1>0 DEF CallsInv, SentOnce
  <2>9. \A i \in DOMAIN called : called[i][2] \in cached' => called[i][2] \in cached
    BY <2>1, <2>2
  <2>10. SentInOrder'
    BY <1>0, <2>9 DEF CallsInv, SentInOrder
  <2>11. SentAhead'
    <3>1. SUFFICES ASSUME NEW i \in DOMAIN called, NEW j \in DOMAIN pendedUrcList', called[i][2] \in cached
                   PROVE  called[i][2] < pendedUrcList'[j]
      BY <1>0, <2>9 DEF SentAhead
    <3>2. CASE j \in DOMAIN pendedUrcList /\ pendedUrcList'[j] = pendedUrcList[j]
      BY <1>0, <1>4, <3>1, <3>2 DEF CallsInv, SentAhead
    <3>3. CASE pendedUrcList'[j] = urcs
      BY <2>2, <3>1, <3>3
    <3> QED
      BY <2>5, <3>2, <3>3
  <2>12. Kept'
    <3>1. SUFFICES ASSUME ~staleHead', NEW u \in cached'
                   PROVE  \/ \E j \in DOMAIN pendedUrcList' : pendedUrcList'[j] = u
                          \/ \E i \in DOMAIN called : called[i][2] = u
      BY <1>0, <1>4 DEF Kept
    <3>2. CASE u = urcs
      BY <2>5, <3>1, <3>2
    <3>3. CASE u \in cached
      BY <1>0, <2>5, <3>1, <3>3 DEF CallsInv, Kept
    <3> QED
      BY <2>1, <3>2, <3>3
  <2> QED
    BY <1>3, <1>5, <2>3, <2>6, <2>7, <2>8, <2>10, <2>11, <2>12 DEF CallsInv
<1> QED
  BY <1>7, <1>8
-----------------------------------------------------------------------------
(* The binder thread: connecting, and the loop over the list *)

(* What the main thread has in its hands does not depend on the binder thread. *)
LEMMA BinderMoves ==
  ASSUME CacheInv, NEW p \in SendPlaces \cup {"idle", "ready", "drainHead", "drainLock", "drain", "pop"},
         at' = [at EXCEPT ![binder] = p], msg'[main] = msg[main],
         UNCHANGED << urcs, cached, called >>
  PROVE  at'[binder] = p /\ PlacesOK' /\ NewestOnMain'
<1>1. main \in Senders /\ binder \in Senders /\ main # binder
  BY RilUrcCacheAssumption DEF Senders
<1>2. at'[binder] = p /\ at'[main] = at[main]
  BY <1>1 DEF CacheInv, CallsInv, PlacesOK, Places
<1>3. PlacesOK'
  <2>1. at' \in [Senders -> Places]
    BY <1>1 DEF CacheInv, CallsInv, PlacesOK, Places
  <2>2. p # "cache"
    BY DEF SendPlaces
  <2> QED
    BY <1>2, <2>1, <2>2 DEF CacheInv, CallsInv, PlacesOK, Places
<1>4. NewestOnMain'
  BY <1>2 DEF CacheInv, CallsInv, NewestOnMain
<1> QED
  BY <1>2, <1>3, <1>4

(* Connecting a client changes nothing about the indications. *)
LEMMA ConnectCalls ==
  ASSUME CacheInv, SetResponseFunctions \/ OnNewCommandConnect
  PROVE  CallsInv'
<1>0. main \in Senders /\ binder \in Senders /\ main # binder /\ CallsInv
  BY RilUrcCacheAssumption DEF Senders, CacheInv
<1>1. /\ UNCHANGED << mutex, pendedUrcList, head, urcs, cached, called, staleHead >>
      /\ msg'[main] = msg[main]
      /\ at[binder] \in {"idle", "ready"}
      /\ \E p \in {"ready", "rlock", "drainHead"} :
            at' = [at EXCEPT ![binder] = p] /\ (p = "rlock" => msg'[binder] = Connected)
  <2>1. CASE SetResponseFunctions
    BY <2>1 DEF SetResponseFunctions, history, locks, Go
  <2>2. CASE OnNewCommandConnect
    <3>1. /\ UNCHANGED << mutex, pendedUrcList, head, urcs, cached, called, staleHead >>
          /\ at[binder] = "ready"
      BY <2>2 DEF OnNewCommandConnect, history, locks
    <3>2. \/ msg' = [msg EXCEPT ![binder] = Connected] /\ at' = [at EXCEPT ![binder] = "rlock"]
          \/ msg' = msg /\ at' = [at EXCEPT ![binder] = "drainHead"]
      BY <2>2 DEF OnNewCommandConnect, Go
    <3>3. CASE msg' = [msg EXCEPT ![binder] = Connected] /\ at' = [at EXCEPT ![binder] = "rlock"]
      <4>1. msg'[binder] = Connected /\ msg'[main] = msg[main]
        BY <1>0, <3>3 DEF CacheInv, UrcTypeOK
      <4> QED
        BY <3>1, <3>3, <4>1
    <3>4. CASE msg' = msg /\ at' = [at EXCEPT ![binder] = "drainHead"]
      BY <3>1, <3>4
    <3> QED
      BY <3>2, <3>3, <3>4
  <2> QED
    BY <2>1, <2>2
<1>2. PICK p \in {"ready", "rlock", "drainHead"} :
            at' = [at EXCEPT ![binder] = p] /\ (p = "rlock" => msg'[binder] = Connected)
  BY <1>1
<1>3. at'[binder] = p /\ PlacesOK' /\ NewestOnMain'
  <2>1. p \in SendPlaces \cup {"idle", "ready", "drainHead", "drainLock", "drain", "pop"}
    BY DEF SendPlaces
  <2> QED
    BY <1>1, <1>2, <2>1, BinderMoves
<1>4. /\ ~Draining /\ ~HeadInHand /\ ~HeadCalled
      /\ ~Draining' /\ ~HeadInHand' /\ ~HeadCalled'
  BY <1>1, <1>2, <1>3 DEF Draining, HeadInHand, HeadCalled, SendPlaces
<1>5. MutexIsLoop' /\ HeadKnown'
  BY <1>0, <1>1, <1>3, <1>4 DEF CallsInv, MutexIsLoop, HeadKnown
<1>6. ListOrdered' /\ SentAhead' /\ SentOnce' /\ SentInOrder' /\ Kept'
  BY <1>0, <1>1, <1>4, ListsFrame DEF CallsInv
<1> QED
  BY <1>3, <1>5, <1>6 DEF CallsInv

(* Reading the head, and taking the mutex for the loop. *)
LEMMA SendHeadCalls ==
  ASSUME CacheInv, SendUrcHead \/ SendUrcLock
  PROVE  CallsInv'
<1>0. main \in Senders /\ binder \in Senders /\ main # binder /\ CallsInv /\ binder # "free"
  BY RilUrcCacheAssumption DEF Senders, CacheInv
<1>1. CASE SendUrcHead
  <2>1. /\ UNCHANGED << mutex, pendedUrcList, msg, urcs, cached, called, staleHead >>
        /\ at[binder] = "drainHead" /\ at' = [at EXCEPT ![binder] = "drainLock"]
        /\ head'[binder] = HeadOf(pendedUrcList)
    BY <1>0, <1>1 DEF SendUrcHead, history, locks, Go, CacheInv, UrcTypeOK
  <2>2. at'[binder] = "drainLock" /\ PlacesOK' /\ NewestOnMain'
    BY <2>1, BinderMoves
  <2>3. /\ ~Draining /\ ~HeadInHand /\ ~HeadCalled
        /\ ~Draining' /\ ~HeadInHand' /\ ~HeadCalled'
    BY <2>1, <2>2 DEF Draining, HeadInHand, HeadCalled, SendPlaces
  <2>4. MutexIsLoop' /\ HeadKnown'
    BY <1>0, <2>1, <2>2, <2>3 DEF CallsInv, MutexIsLoop, HeadKnown, HeadOf
  <2>5. ListOrdered' /\ SentAhead' /\ SentOnce' /\ SentInOrder' /\ Kept'
    BY <1>0, <2>1, <2>3, ListsFrame DEF CallsInv
  <2> QED
    BY <2>2, <2>4, <2>5 DEF CallsInv
<1>2. CASE SendUrcLock
  <2>1. /\ UNCHANGED << pendedUrcList, msg, head, urcs, cached, called >> /\ mutex' = binder
        /\ at[binder] = "drainLock" /\ at' = [at EXCEPT ![binder] = "drain"]
        /\ staleHead' = (staleHead \/ head[binder] # HeadOf(pendedUrcList))
    BY <1>2 DEF SendUrcLock, Go
  <2>2. at'[binder] = "drain" /\ PlacesOK' /\ NewestOnMain'
    BY <2>1, BinderMoves
  <2>3. /\ ~Draining /\ ~HeadInHand /\ ~HeadCalled
        /\ Draining' /\ ~HeadInHand' /\ ~HeadCalled'
    BY <2>1, <2>2 DEF Draining, HeadInHand, HeadCalled, SendPlaces
  <2>4. MutexIsLoop'
    BY <2>1, <2>3 DEF MutexIsLoop
  <2>5. HeadKnown'
    <3>1. head[binder] \in {HeadOf(pendedUrcList), NoUrc}
      BY <1>0, <2>1 DEF CallsInv, HeadKnown
    <3>2. HeadOf(pendedUrcList)' = HeadOf(pendedUrcList)
      BY <2>1 DEF HeadOf
    <3> QED
      BY <2>1, <2>2, <2>3, <3>1, <3>2 DEF HeadKnown
  <2>6. ListOrdered' /\ SentAhead' /\ SentOnce' /\ SentInOrder' /\ Kept'
    BY <1>0, <2>1, <2>3, ListsFrame DEF CallsInv
  <2> QED
    BY <2>2, <2>4, <2>5, <2>6 DEF CallsInv
<1> QED
  BY <1>1, <1>2

(* A turn of the loop takes the head into the hand; its end clears a list it believes *)
(* empty, which it is unless the head was read too early. *)
LEMMA SendUrcCalls ==
  ASSUME CacheInv, SendUrc
  PROVE  CallsInv'
<1>0. /\ main \in Senders /\ binder \in Senders /\ main # binder /\ CallsInv /\ binder # "free" /\ UrcTypeOK
      /\ UNCHANGED << head, urcs, cached, called, staleHead >> /\ at[binder] = "drain"
  BY RilUrcCacheAssumption DEF Senders, CacheInv, SendUrc, history
<1>1. \/ head[binder] = HeadOf(pendedUrcList)
      \/ head[binder] = NoUrc /\ staleHead
  BY <1>0 DEF CallsInv, HeadKnown
<1>2. Draining /\ ~HeadInHand /\ ~HeadCalled
  BY <1>0 DEF Draining, HeadInHand, HeadCalled
<1>3. CASE head[binder] # NoUrc /\ ready
  <2>1. /\ msg' = [msg EXCEPT ![binder] = head[binder]]
        /\ at' = [at EXCEPT ![binder] = "rlock"]
        /\ UNCHANGED << mutex, pendedUrcList >>
    BY <1>3 DEF SendUrc, Go
  <2>2. msg'[main] = msg[main] /\ msg'[binder] = head[binder]
    BY <1>0, <2>1 DEF UrcTypeOK
  <2>3. at'[binder] = "rlock" /\ PlacesOK' /\ NewestOnMain'
    BY <1>0, <2>1, <2>2, BinderMoves DEF SendPlaces
  <2>4. pendedUrcList # << >> /\ head[binder] = pendedUrcList[1] /\ head[binder] \in 1 .. MaxUrcs
    <3>1. pendedUrcList # << >> /\ head[binder] = Head(pendedUrcList)
      BY <1>1, <1>3 DEF HeadOf
    <3>2. pendedUrcList \in Seq(1 .. MaxUrcs)
      BY <1>0 DEF UrcTypeOK
    <3>3. Head(pendedUrcList) = pendedUrcList[1] /\ pendedUrcList[1] \in 1 .. MaxUrcs
      BY <3>1, <3>2, ListHead
    <3> QED
      BY <3>1, <3>3
  <2>5. msg'[binder] # Connected
    BY <2>2, <2>4, RilUrcCacheAssumption DEF Connected
  <2>6. Draining' /\ HeadInHand' /\ ~HeadCalled'
    <3>1. Draining'
      BY <2>3, <2>5 DEF Draining, SendPlaces, Connected
    <3> QED
      BY <2>3, <3>1 DEF HeadInHand, HeadCalled
  <2>7. MutexIsLoop' /\ HeadKnown'
    BY <1>0, <1>2, <2>1, <2>2, <2>3, <2>4, <2>6 DEF CallsInv, MutexIsLoop, HeadKnown
  <2>8. ListOrdered' /\ SentAhead' /\ SentOnce' /\ SentInOrder' /\ Kept'
    BY <1>0, <1>2, <2>1, <2>6, ListsFrame DEF CallsInv
  <2> QED
    BY <2>3, <2>7, <2>8 DEF CallsInv
<1>4. CASE ~(head[binder] # NoUrc /\ ready)
  <2>1. /\ pendedUrcList' = IF head[binder] = NoUrc THEN << >> ELSE pendedUrcList
        /\ mutex' = "free" /\ msg' = msg
        /\ at' = [at EXCEPT ![binder] = "idle"]
    BY <1>4 DEF SendUrc, Go
  <2>2. at'[binder] = "idle" /\ PlacesOK' /\ NewestOnMain'
    BY <1>0, <2>1, BinderMoves
  <2>3. ~Draining' /\ ~HeadInHand' /\ ~HeadCalled'
    BY <2>2 DEF Draining, HeadInHand, HeadCalled, SendPlaces
  <2>4. MutexIsLoop' /\ HeadKnown'
    BY <2>1, <2>2, <2>3 DEF MutexIsLoop, HeadKnown
  <2>5. CASE pendedUrcList' = pendedUrcList
    <3>1. ListOrdered' /\ SentAhead' /\ SentOnce' /\ SentInOrder' /\ Kept'
      BY <1>0, <1>2, <2>3, <2>5, ListsFrame DEF CallsInv
    <3> QED
      BY <2>2, <2>4, <3>1 DEF CallsInv
  <2>6. CASE pendedUrcList' = << >> /\ head[binder] = NoUrc /\ pendedUrcList # << >>
    <3>1. staleHead
      <4>1. pendedUrcList \in Seq(1 .. MaxUrcs)
        BY <1>0 DEF UrcTypeOK
      <4>2. Head(pendedUrcList) # 0
        BY <2>6, <4>1, RilUrcCacheAssumption
      <4> QED
        BY <1>1, <2>6, <4>2 DEF HeadOf, NoUrc
    <3>2. DOMAIN pendedUrcList' = {}
      BY <2>6
    <3>3. ListOrdered' /\ SentAhead'
      BY <3>2 DEF ListOrdered, SentAhead
    <3>4. SentOnce' /\ SentInOrder'
      BY <1>0 DEF CallsInv, SentOnce, SentInOrder
    <3>5. Kept'
      BY <1>0, <2>3, <3>1 DEF Kept
    <3> QED
      BY <2>2, <2>4, <3>3, <3>4, <3>5 DEF CallsInv
  <2> QED
    BY <2>1, <2>5, <2>6
<1> QED
  BY <1>3, <1>4

(* The indication that was sent leaves the list. *)
LEMMA PopCalls ==
  ASSUME CacheInv, PopUrc
  PROVE  CallsInv'
<1>0. /\ main \in Senders /\ binder \in Senders /\ main # binder /\ CallsInv /\ UrcTypeOK
      /\ UNCHANGED << mutex, msg, urcs, cached, called, staleHead >>
      /\ at[binder] = "pop" /\ at' = [at EXCEPT ![binder] = "drain"]
      /\ pendedUrcList' = Tail(pendedUrcList) /\ head'[binder] = HeadOf(Tail(pendedUrcList))
  BY RilUrcCacheAssumption DEF Senders, CacheInv, PopUrc, Go, history, locks, UrcTypeOK
<1>1. at'[binder] = "drain" /\ PlacesOK' /\ NewestOnMain'
  BY <1>0, BinderMoves
<1>2. /\ Draining /\ HeadInHand /\ HeadCalled
      /\ Draining' /\ ~HeadInHand' /\ ~HeadCalled'
  BY <1>0, <1>1 DEF Draining, HeadInHand, HeadCalled
<1>3. pendedUrcList # << >> /\ msg[binder] = pendedUrcList[1] /\ pendedUrcList \in Seq(1 .. MaxUrcs)
  BY <1>0, <1>2 DEF CallsInv, HeadKnown, UrcTypeOK
<1>4. /\ Len(pendedUrcList) \in Nat /\ Len(pendedUrcList) > 0
      /\ DOMAIN pendedUrcList = 1 .. Len(pendedUrcList)
      /\ DOMAIN pendedUrcList' = 1 .. Len(pendedUrcList) - 1
      /\ \A j \in DOMAIN pendedUrcList' : pendedUrcList'[j] = pendedUrcList[j + 1]
  BY <1>0, <1>3
<1>5. \A j \in DOMAIN pendedUrcList' :
        j + 1 \in DOMAIN pendedUrcList /\ j + 1 # 1 /\ pendedUrcList'[j] = pendedUrcList[j + 1]
  BY <1>4
<1>6. MutexIsLoop' /\ HeadKnown'
  <2>1. head'[binder] = HeadOf(pendedUrcList')
    BY <1>0
  <2> QED
    BY <1>0, <1>1, <1>2, <2>1 DEF CallsInv, MutexIsLoop, HeadKnown, HeadOf
<1>7. ListOrdered'
  <2>1. \A i, j \in DOMAIN pendedUrcList' : i < j => i + 1 < j + 1
    BY <1>4
  <2> QED
    BY <1>0, <1>5, <2>1 DEF CallsInv, ListOrdered
<1>8. SentAhead'
  BY <1>0, <1>5 DEF CallsInv, SentAhead
<1>9. SentOnce' /\ SentInOrder'
  BY <1>0 DEF CallsInv, SentOnce, SentInOrder
<1>10. Kept'
  <2>1. SUFFICES ASSUME ~staleHead, NEW u \in cached
                 PROVE  \/ \E j \in DOMAIN pendedUrcList' : pendedUrcList'[j] = u
                        \/ \E i \in DOMAIN called : called[i][2] = u
    BY <1>0, <1>2 DEF Kept
  <2>2. CASE \E i \in DOMAIN called : called[i][2] = u
    BY <2>2
  <2>3. CASE \E j \in DOMAIN pendedUrcList : pendedUrcList[j] = u
    <3>1. PICK j \in DOMAIN pendedUrcList : pendedUrcList[j] = u
      BY <2>3
    <3>2. CASE j = 1
      BY <1>0, <1>2, <1>3, <3>1, <3>2 DEF CallsInv, Kept
    <3>3. CASE j # 1
      <4>1. j - 1 \in DOMAIN pendedUrcList' /\ (j - 1) + 1 = j
        BY <1>4, <3>3
      <4> QED
        BY <1>5, <3>1, <4>1
    <3> QED
      BY <3>2, <3>3
  <2> QED
    BY <1>0, <2>1, <2>2, <2>3 DEF CallsInv, Kept
<1> QED
  BY <1>1, <1>6, <1>7, <1>8, <1>9, <1>10 DEF CallsInv
-----------------------------------------------------------------------------
(* Types *)

(* What was called stays well typed when a new client comes up. *)
LEMMA CalledGrows ==
  ASSUME UrcTypeOK, generation' = generation + 1, called' = called
  PROVE  called' \in Seq((0 .. generation') \X Messages)
<1>1. called \in Seq((0 .. generation) \X Messages) /\ generation \in Nat
  BY RilUrcCacheAssumption DEF UrcTypeOK
<1>2. (0 .. generation) \X Messages \subseteq (0 .. generation') \X Messages
  BY <1>1
<1>3. Len(called) \in Nat /\ DOMAIN called = 1 .. Len(called)
      /\ \A i \in 1 .. Len(called) : called[i] \in (0 .. generation) \X Messages
  BY <1>1
<1>4. called \in [1 .. Len(called) -> (0 .. generation) \X Messages]
  BY <1>1
<1>5. called \in [1 .. Len(called) -> (0 .. generation') \X Messages]
  BY <1>2, <1>4
<1> QED
  BY <1>3, <1>5

(* The client process comes up and dies. *)
LEMMA ClientTypes ==
  ASSUME UrcTypeOK, ClientUp \/ ClientDies
  PROVE  UrcTypeOK'
<1>1. CASE ClientUp
  <2>1. called' \in Seq((0 .. generation') \X Messages)
    BY <1>1, CalledGrows DEF ClientUp, history
  <2>2. /\ generation' \in 0 .. MaxDeaths + 1 /\ registered' \in 0 .. generation' /\ callback' \in 0 .. generation'
        /\ alive' \in BOOLEAN
    BY <1>1, RilUrcCacheAssumption DEF ClientUp, UrcTypeOK
  <2>3. UNCHANGED << deaths, counter, readers, writer, mutex, ready, pendedUrcList, msg, noted, head,
                     urcs, cached, staleHead >>
    BY <1>1 DEF ClientUp, locks, history
  <2> QED
    BY <2>1, <2>2, <2>3 DEF UrcTypeOK
<1>2. CASE ClientDies
  <2>0. alive' \in BOOLEAN /\ deaths' \in 0 .. MaxDeaths
    <3>1. alive' = FALSE /\ deaths' = deaths + 1 /\ deaths < MaxDeaths
      BY <1>2 DEF ClientDies
    <3>2. deaths \in 0 .. MaxDeaths
      BY DEF UrcTypeOK
    <3>3. \A d \in 0 .. MaxDeaths : d < MaxDeaths => d + 1 \in 0 .. MaxDeaths
      BY RilUrcCacheAssumption
    <3> QED
      BY <3>1, <3>2, <3>3
  <2>1. UNCHANGED << generation, registered, callback, counter, readers, writer, mutex, ready, pendedUrcList,
                     msg, noted, head, urcs, cached, called, staleHead >>
    BY <1>2 DEF ClientDies, locks, history
  <2> QED
    BY <2>0, <2>1 DEF UrcTypeOK
<1> QED
  BY <1>1, <1>2

(* The steps of a send. *)
LEMMA SendingTypes ==
  ASSUME CacheInv, NEW t \in Senders, Sending(t)
  PROVE  UrcTypeOK'
<1>0. UrcTypeOK
  BY DEF CacheInv
<1>1. CASE Call(t)
  <2>1. /\ called \in Seq((0 .. generation) \X Messages) /\ called' = Append(called, << callback, msg[t] >>)
        /\ UNCHANGED << alive, generation, registered, deaths, callback, counter, writer, mutex, ready,
                        pendedUrcList, msg, head, urcs, cached, staleHead >>
        /\ (noted' = noted \/ noted' = [noted EXCEPT ![t] = counter])
        /\ (readers' = readers \/ readers' = readers \ {t})
    BY <1>0, <1>1 DEF Call, UrcTypeOK, client
  <2>2. msg[t] \in Messages
    <3>1. t = main => msg[t] = urcs /\ urcs > 0
      BY <1>1 DEF CacheInv, CallsInv, NewestOnMain, Call
    <3>2. t = binder => msg[t] = Connected \/ (pendedUrcList # << >> /\ msg[t] = pendedUrcList[1])
      BY <1>1 DEF CacheInv, CallsInv, HeadKnown, HeadInHand, Draining, SendPlaces, Call
    <3>3. pendedUrcList # << >> => pendedUrcList[1] \in 1 .. MaxUrcs
      BY <1>0, ListHead DEF UrcTypeOK
    <3> QED
      BY <1>0, <3>1, <3>2, <3>3, RilUrcCacheAssumption DEF UrcTypeOK, Messages, Connected, Senders
  <2>3. << callback, msg[t] >> \in (0 .. generation) \X Messages
    BY <1>0, <2>2 DEF UrcTypeOK
  <2>4. called' \in Seq((0 .. generation') \X Messages)
    BY <2>1, <2>3
  <2>5. noted' \in [Senders -> Nat] /\ readers' \subseteq Senders /\ (writer' # "none" => readers' = {})
    BY <1>0, <2>1 DEF UrcTypeOK
  <2> QED
    BY <1>0, <2>1, <2>4, <2>5 DEF UrcTypeOK
<1>2. CASE LockR(t)
  BY <1>0, <1>2 DEF LockR, UrcTypeOK, client, history, Messages
<1>3. CASE ResetCallbacks(t)
  BY <1>0, <1>3 DEF ResetCallbacks, UrcTypeOK, client, history, Messages, NoUrc
<1>4. CASE OnCommandDisconnect(t)
  BY <1>0, <1>4 DEF OnCommandDisconnect, UrcTypeOK, client, history, locks, Messages
<1>5. CASE UnlockW(t)
  BY <1>0, <1>5 DEF UnlockW, UrcTypeOK, client, history, Messages
<1>6. CASE UnlockR(t)
  BY <1>0, <1>6 DEF UnlockR, UrcTypeOK, client, history, Messages
<1> QED
  BY <1>1, <1>2, <1>3, <1>4, <1>5, <1>6 DEF Sending

(* The steps that put indications into the cache, and those of the binder thread. *)
LEMMA CacheTypes ==
  ASSUME CacheInv, CacheUrcHead \/ CacheUrc \/ Connecting
  PROVE  UrcTypeOK'
<1>0. /\ UrcTypeOK /\ main \in Senders /\ binder \in Senders
      /\ pendedUrcList \in Seq(1 .. MaxUrcs)
  BY DEF CacheInv, Senders, UrcTypeOK
<1>1. \A q \in Seq(1 .. MaxUrcs) : HeadOf(q) \in 0 .. MaxUrcs
  BY RilUrcCacheAssumption DEF HeadOf, NoUrc
<1>2. CASE CacheUrcHead
  <2>1. head' \in [Senders -> 0 .. MaxUrcs]
    BY <1>0, <1>1, <1>2 DEF CacheUrcHead, UrcTypeOK
  <2>2. urcs' \in 0 .. MaxUrcs /\ msg' \in [Senders -> Messages \cup {NoUrc}]
    BY <1>0, <1>2, RilUrcCacheAssumption DEF CacheUrcHead, UrcTypeOK, Messages, Connected
  <2> QED
    BY <1>0, <1>2, <2>1, <2>2 DEF CacheUrcHead, UrcTypeOK, client, history, locks
<1>3. CASE CacheUrc
  <2>1. msg[main] \in 1 .. MaxUrcs
    BY <1>0, <1>3, RilUrcCacheAssumption DEF CacheUrc, CacheInv, CallsInv, NewestOnMain, UrcTypeOK
  <2>2. Append(pendedUrcList, msg[main]) \in Seq(1 .. MaxUrcs)
    BY <1>0, <2>1
  <2>3. pendedUrcList' = pendedUrcList \/ pendedUrcList' = Append(pendedUrcList, msg[main])
    BY <1>3 DEF CacheUrc
  <2>4. (cached' = cached \/ cached' = cached \cup {msg[main]}) /\ (staleHead' = staleHead \/ staleHead' = TRUE)
    BY <1>3 DEF CacheUrc
  <2>5. UNCHANGED << alive, generation, registered, deaths, callback, counter, readers, writer, mutex, ready,
                     msg, noted, head, urcs, called >>
    BY <1>3 DEF CacheUrc, client, locks
  <2>6. pendedUrcList' \in Seq(1 .. MaxUrcs) /\ cached' \subseteq 1 .. MaxUrcs /\ staleHead' \in BOOLEAN
    BY <1>0, <2>1, <2>2, <2>3, <2>4 DEF UrcTypeOK
  <2> QED
    BY <1>0, <2>5, <2>6 DEF UrcTypeOK
<1>4. CASE SetResponseFunctions
  BY <1>0, <1>4, RilUrcCacheAssumption DEF SetResponseFunctions, UrcTypeOK, history, locks, Messages
<1>5. CASE OnNewCommandConnect
  <2>1. msg' \in [Senders -> Messages \cup {NoUrc}]
    <3>1. msg' = msg \/ msg' = [msg EXCEPT ![binder] = Connected]
      BY <1>5 DEF OnNewCommandConnect
    <3>2. Connected \in Messages
      BY RilUrcCacheAssumption DEF Messages, Connected
    <3> QED
      BY <1>0, <3>1, <3>2 DEF UrcTypeOK
  <2> QED
    BY <1>0, <1>5, <2>1 DEF OnNewCommandConnect, UrcTypeOK, client, history, locks
<1>6. CASE SendUrcHead
  <2>1. head' \in [Senders -> 0 .. MaxUrcs]
    BY <1>0, <1>1, <1>6 DEF SendUrcHead, UrcTypeOK
  <2> QED
    BY <1>0, <1>6, <2>1 DEF SendUrcHead, UrcTypeOK, client, history, locks
<1>7. CASE SendUrcLock
  <2>1. staleHead' \in BOOLEAN
    BY <1>0, <1>7 DEF SendUrcLock, UrcTypeOK
  <2> QED
    BY <1>0, <1>7, <2>1 DEF SendUrcLock, UrcTypeOK, client
<1>8. CASE SendUrc
  <2>1. UNCHANGED << alive, generation, registered, deaths, callback, counter, readers, writer, ready,
                     noted, head, urcs, cached, called, staleHead >>
        /\ mutex' \in {mutex, "free"}
    BY <1>8 DEF SendUrc, client, history
  <2>2. pendedUrcList' = pendedUrcList \/ pendedUrcList' = << >>
    BY <1>8 DEF SendUrc
  <2>3. msg' = msg \/ msg' = [msg EXCEPT ![binder] = head[binder]]
    BY <1>8 DEF SendUrc
  <2>4. head[binder] \in Messages \cup {NoUrc}
    BY <1>0, RilUrcCacheAssumption DEF UrcTypeOK, Messages, Connected, NoUrc
  <2>5. pendedUrcList' \in Seq(1 .. MaxUrcs)
    <3>1. << >> \in Seq(1 .. MaxUrcs)
      OBVIOUS
    <3> QED
      BY <1>0, <2>2, <3>1
  <2>6. msg' \in [Senders -> Messages \cup {NoUrc}]
    BY <1>0, <2>3, <2>4 DEF UrcTypeOK
  <2>7. mutex' \in {"free", binder}
    BY <1>0, <2>1 DEF UrcTypeOK
  <2> QED
    BY <1>0, <2>1, <2>5, <2>6, <2>7 DEF UrcTypeOK
<1>9. CASE PopUrc
  <2>1. pendedUrcList # << >>
    BY <1>9 DEF CacheInv, CallsInv, HeadKnown, HeadInHand, Draining, PopUrc
  <2>2. Tail(pendedUrcList) \in Seq(1 .. MaxUrcs)
    BY <1>0, <2>1
  <2>3. pendedUrcList' \in Seq(1 .. MaxUrcs) /\ head' \in [Senders -> 0 .. MaxUrcs]
    BY <1>0, <1>1, <1>9, <2>2 DEF PopUrc, UrcTypeOK
  <2> QED
    BY <1>0, <1>9, <2>3 DEF PopUrc, UrcTypeOK, client, history, locks
<1> QED
  BY <1>2, <1>3, <1>4, <1>5, <1>6, <1>7, <1>8, <1>9 DEF Connecting
-----------------------------------------------------------------------------
(* The invariant *)

(* No client, no indication, no call. *)
LEMMA InitCache == UrcInit => CacheInv
<1> SUFFICES ASSUME UrcInit PROVE CacheInv
  OBVIOUS
<1>1. /\ at = [t \in Senders |-> "idle"] /\ called = << >> /\ pendedUrcList = << >> /\ cached = {}
      /\ mutex = "free" /\ main \in Senders /\ binder \in Senders
  BY DEF UrcInit, Senders
<1>2. UrcTypeOK
  <2>1. /\ alive = FALSE /\ generation = 0 /\ registered = 0 /\ deaths = 0 /\ callback = 0 /\ counter = 0
        /\ readers = {} /\ writer = "none" /\ mutex = "free" /\ ready = FALSE /\ urcs = 0
        /\ pendedUrcList = << >> /\ cached = {} /\ called = << >> /\ staleHead = FALSE
    BY DEF UrcInit, NoUrc
  <2>2. /\ msg \in [Senders -> Messages \cup {NoUrc}] /\ noted \in [Senders -> Nat]
        /\ head \in [Senders -> 0 .. MaxUrcs]
    BY RilUrcCacheAssumption DEF UrcInit, NoUrc
  <2>3. << >> \in Seq((0 .. generation) \X Messages) /\ << >> \in Seq(1 .. MaxUrcs)
    OBVIOUS
  <2>4. 0 \in 0 .. MaxDeaths + 1 /\ 0 \in 0 .. MaxDeaths /\ 0 \in 0 .. MaxUrcs /\ 0 \in 0 .. 0
    BY RilUrcCacheAssumption
  <2>5. /\ alive \in BOOLEAN /\ generation \in 0 .. MaxDeaths + 1 /\ registered \in 0 .. generation
        /\ deaths \in 0 .. MaxDeaths /\ callback \in 0 .. generation /\ counter \in Nat
        /\ ready \in BOOLEAN /\ staleHead \in BOOLEAN /\ urcs \in 0 .. MaxUrcs
    BY <2>1, <2>4
  <2>6. /\ readers \subseteq Senders /\ writer \in Senders \cup {"none"}
        /\ (writer # "none" => readers = {}) /\ mutex \in {"free", binder} /\ cached \subseteq 1 .. MaxUrcs
    BY <2>1
  <2>7. called \in Seq((0 .. generation) \X Messages) /\ pendedUrcList \in Seq(1 .. MaxUrcs)
    BY <2>1, <2>3
  <2> QED
    BY <2>2, <2>5, <2>6, <2>7 DEF UrcTypeOK
<1>3. ~Draining /\ ~HeadInHand /\ ~HeadCalled
  BY <1>1 DEF Draining, HeadInHand, HeadCalled, SendPlaces
<1>4. PlacesOK /\ MutexIsLoop
  BY <1>1, <1>3 DEF PlacesOK, Places, MutexIsLoop
<1>5. DOMAIN called = {} /\ DOMAIN pendedUrcList = {}
  BY <1>1
<1>6. NewestOnMain /\ ListOrdered /\ HeadKnown
  BY <1>1, <1>3, <1>5 DEF NewestOnMain, ListOrdered, HeadKnown
<1>7. SentAhead /\ SentOnce /\ SentInOrder /\ Kept
  BY <1>1, <1>3, <1>5 DEF SentAhead, SentOnce, SentInOrder, Kept
<1> QED
  BY <1>2, <1>4, <1>6, <1>7 DEF CacheInv, CallsInv

(* Every step of the two threads and of the client keeps the invariant. *)
LEMMA StepCache == CacheInv /\ [UrcNext]_urcVars => CacheInv'
<1> SUFFICES ASSUME CacheInv, [UrcNext]_urcVars PROVE CacheInv'
  OBVIOUS
<1>1. CASE ClientUp \/ ClientDies
  <2>1. UrcTypeOK'
    BY <1>1, ClientTypes DEF CacheInv
  <2>2. UNCHANGED << mutex, pendedUrcList, at, msg, head, urcs, cached, called, staleHead >>
    BY <1>1 DEF ClientUp, ClientDies, locks, history
  <2>3. CallsInv'
    BY <2>2 DEF CacheInv, CallsInv, PlacesOK, Places, MutexIsLoop, NewestOnMain, ListOrdered, HeadKnown, SentAhead,
                SentOnce, SentInOrder, Kept, Draining, HeadInHand, HeadCalled, HeadOf
  <2> QED
    BY <2>1, <2>3 DEF CacheInv
<1>2. CASE CacheUrcHead \/ CacheUrc
  BY <1>2, CacheTypes, CacheHeadCalls, CacheCalls DEF CacheInv
<1>3. CASE Connecting
  <2>1. CallsInv'
    BY <1>3, ConnectCalls, SendHeadCalls, SendUrcCalls, PopCalls DEF Connecting
  <2> QED
    BY <1>3, <2>1, CacheTypes DEF CacheInv
<1>4. CASE \E t \in Senders : Sending(t)
  <2>1. PICK t \in Senders : Sending(t)
    BY <1>4
  <2>2. CallsInv'
    BY <2>1, SendingCalls, UnlockRCalls, CallCalls DEF Sending
  <2> QED
    BY <2>1, <2>2, SendingTypes DEF CacheInv
<1>5. CASE UNCHANGED urcVars
  <2>1. /\ UNCHANGED << alive, generation, registered, deaths, callback, counter, readers, writer, mutex,
                        ready, pendedUrcList, at, msg, noted, head, urcs, cached, called, staleHead >>
    BY <1>5 DEF urcVars, client, locks, history
  <2>2. UrcTypeOK'
    BY <2>1 DEF CacheInv, UrcTypeOK
  <2>3. CallsInv'
    BY <2>1 DEF CacheInv, CallsInv, PlacesOK, Places, MutexIsLoop, NewestOnMain, ListOrdered, HeadKnown, SentAhead,
                SentOnce, SentInOrder, Kept, Draining, HeadInHand, HeadCalled, HeadOf
  <2> QED
    BY <2>2, <2>3 DEF CacheInv
<1> QED
  BY <1>1, <1>2, <1>3, <1>4, <1>5 DEF UrcNext

(* Always: the threads are where the mutex says, the list holds what was cached and not *)
(* sent, and what was sent is older than what waits (cacheUrc, sendUrc). *)
THEOREM CacheInvariant == UrcSpec => []CacheInv
<1>1. UrcInit => CacheInv
  BY InitCache
<1>2. CacheInv /\ [UrcNext]_urcVars => CacheInv'
  BY StepCache
<1> QED
  BY <1>1, <1>2, PTL DEF UrcSpec

(* An indication is sent at most once, cached ones are sent in the order they arrived in, *)
(* and none is lost unless a head read before the mutex had moved (ril.cpp:1720-1800). *)
THEOREM CachedKeptCorrect == UrcSpec => []CachedKept
<1>1. CacheInv => CachedKept
  <2> SUFFICES ASSUME CacheInv PROVE CachedKept
    OBVIOUS
  <2>1. ASSUME ~staleHead, NEW u \in cached
        PROVE  u \in Range(pendedUrcList) \/ Calls(u) # {}
    <3>1. \/ \E j \in DOMAIN pendedUrcList : pendedUrcList[j] = u
          \/ \E i \in DOMAIN called : called[i][2] = u
      BY <2>1 DEF CacheInv, CallsInv, Kept
    <3> QED
      BY <3>1 DEF Range, Calls
  <2>2. ASSUME NEW u \in 1 .. MaxUrcs
        PROVE  Cardinality(Calls(u)) <= 1
    <3>1. u # Connected
      BY RilUrcCacheAssumption DEF Connected
    <3>2. CASE Calls(u) = {}
      BY <3>2, FS_EmptySet
    <3>3. CASE Calls(u) # {}
      <4>1. PICK i \in DOMAIN called : called[i][2] = u
        BY <3>3 DEF Calls
      <4>2. Calls(u) = {i}
        BY <3>1, <4>1 DEF CacheInv, CallsInv, SentOnce, Calls
      <4> QED
        BY <4>2, FS_Singleton
    <3> QED
      BY <3>2, <3>3
  <2>3. \A i, j \in DOMAIN called :
          i < j /\ {called[i][2], called[j][2]} \subseteq cached => called[i][2] < called[j][2]
    BY DEF CacheInv, CallsInv, SentInOrder
  <2> QED
    BY <2>1, <2>2, <2>3 DEF CachedKept
<1> QED
  BY <1>1, CacheInvariant, PTL
-----------------------------------------------------------------------------
(* The reset of the callbacks *)

(* A step that calls nothing, and changes the callbacks only with the counter. *)
LEMMA NotedFrame ==
  ASSUME UrcTypeOK, FailedNoted, UNCHANGED << called, noted >>, counter' \in Nat, counter' >= counter,
         counter' = counter => callback' = callback,
         \A t \in Senders : at'[t] = "wlock" => at[t] = "wlock" /\ msg'[t] = msg[t]
  PROVE  FailedNoted'
<1>1. \A t \in Senders : noted[t] \in Nat /\ noted[t] <= counter /\ counter \in Nat
  BY DEF UrcTypeOK, FailedNoted
<1>2. \A t \in Senders : noted'[t] <= counter'
  BY <1>1
<1>3. ASSUME NEW t \in Senders, at'[t] = "wlock"
      PROVE  \E i \in DOMAIN called' :
               /\ called'[i][2] = msg'[t]
               /\ \A j \in DOMAIN called' : called'[j][2] = msg'[t] => j <= i
               /\ noted'[t] = counter' => called'[i][1] = callback'
  <2>1. PICK i \in DOMAIN called :
          /\ called[i][2] = msg[t]
          /\ \A j \in DOMAIN called : called[j][2] = msg[t] => j <= i
          /\ noted[t] = counter => called[i][1] = callback
    BY <1>3 DEF FailedNoted
  <2>2. noted[t] = counter' => counter' = counter
    BY <1>1
  <2> QED
    BY <1>3, <2>1, <2>2
<1> QED
  BY <1>2, <1>3 DEF FailedNoted

(* The two threads never send the same indication, so the last call of each is its own. *)
LEMMA OwnIndications ==
  ASSUME CacheInv, at[main] \in SendPlaces, at[binder] \in SendPlaces
  PROVE  msg[main] # msg[binder]
<1>1. msg[main] = urcs /\ urcs \notin cached /\ urcs # Connected
  BY RilUrcCacheAssumption DEF CacheInv, CallsInv, NewestOnMain, SendPlaces, UrcTypeOK, Connected
<1>2. CASE msg[binder] = Connected
  BY <1>1, <1>2
<1>3. CASE msg[binder] # Connected
  <2>1. pendedUrcList # << >> /\ msg[binder] = pendedUrcList[1] /\ pendedUrcList \in Seq(1 .. MaxUrcs)
    BY <1>3 DEF CacheInv, CallsInv, HeadKnown, HeadInHand, Draining, SendPlaces, UrcTypeOK
  <2>2. pendedUrcList[1] \in cached
    BY <2>1, ListHead DEF CacheInv, CallsInv, ListOrdered
  <2> QED
    BY <1>1, <2>1, <2>2
<1> QED
  BY <1>2, <1>3

(* A call that fails notes the counter its callbacks go with. *)
LEMMA CallNoted ==
  ASSUME CacheInv, FailedNoted, NEW t \in Senders, Call(t)
  PROVE  FailedNoted'
<1>1. /\ UNCHANGED << callback, counter, msg >>
      /\ at[t] = "call" /\ UrcTypeOK
      /\ called \in Seq((0 .. generation) \X Messages)
      /\ called' = Append(called, << callback, msg[t] >>)
  BY DEF Call, CacheInv, UrcTypeOK
<1>2. /\ Len(called) \in Nat /\ DOMAIN called = 1 .. Len(called)
      /\ DOMAIN called' = 1 .. Len(called) + 1
      /\ \A i \in DOMAIN called : called'[i] = called[i]
      /\ called'[Len(called) + 1] = << callback, msg[t] >>
  BY <1>1
<1>3. /\ Len(called) + 1 \in DOMAIN called' /\ \A i \in DOMAIN called' : i <= Len(called) + 1
      /\ \A i \in DOMAIN called : i \in DOMAIN called' /\ called'[i] = called[i]
      /\ \A i \in DOMAIN called' : i \in DOMAIN called \/ i = Len(called) + 1
  BY <1>2
<1>4. \/ at' = [at EXCEPT ![t] = "unlockR"] /\ noted' = noted
      \/ at' = [at EXCEPT ![t] = "wlock"] /\ noted' = [noted EXCEPT ![t] = counter]
  BY DEF Call, Go
<1>5. \A s \in Senders : s # t => at'[s] = at[s] /\ noted'[s] = noted[s]
  BY <1>1, <1>4 DEF CacheInv, CallsInv, PlacesOK, Places, UrcTypeOK
<1>6. \A s \in Senders : noted'[s] <= counter'
  <2>1. noted'[t] <= counter
    BY <1>1, <1>4 DEF FailedNoted, UrcTypeOK
  <2> QED
    BY <1>1, <1>5, <2>1 DEF FailedNoted
<1>7. ASSUME NEW s \in Senders, at'[s] = "wlock"
      PROVE  \E i \in DOMAIN called' :
               /\ called'[i][2] = msg'[s]
               /\ \A j \in DOMAIN called' : called'[j][2] = msg'[s] => j <= i
               /\ noted'[s] = counter' => called'[i][1] = callback'
  <2>1. CASE s = t
    BY <1>1, <1>2, <1>3, <2>1
  <2>2. CASE s # t
    <3>1. PICK i \in DOMAIN called :
            /\ called[i][2] = msg[s]
            /\ \A j \in DOMAIN called : called[j][2] = msg[s] => j <= i
            /\ noted[s] = counter => called[i][1] = callback
      BY <1>5, <1>7, <2>2 DEF FailedNoted
    <3>2. msg[t] # msg[s]
      <4>1. at[main] \in SendPlaces /\ at[binder] \in SendPlaces
        BY <1>1, <1>5, <1>7, <2>2 DEF SendPlaces, Senders
      <4> QED
        BY <2>2, <4>1, OwnIndications DEF Senders
    <3>3. called'[Len(called) + 1][2] = msg[t]
      BY <1>2
    <3>4. \A j \in DOMAIN called' : called'[j][2] = msg[s] => j \in DOMAIN called /\ called[j][2] = msg[s]
      BY <1>3, <3>2, <3>3
    <3> QED
      BY <1>1, <1>3, <1>5, <2>2, <3>1, <3>4
  <2> QED
    BY <2>1, <2>2
<1> QED
  BY <1>6, <1>7 DEF FailedNoted

(* Nothing has failed at first. *)
LEMMA InitNoted == UrcInit => FailedNoted
<1> SUFFICES ASSUME UrcInit PROVE FailedNoted
  OBVIOUS
<1>1. counter = 0 /\ \A t \in Senders : at[t] = "idle" /\ noted[t] = 0
  BY DEF UrcInit
<1> QED
  BY <1>1 DEF FailedNoted

(* A new client, and a reset, count. *)
LEMMA StepNoted ==
  ASSUME ClientType # "IMS_MTK", CacheInv, FailedNoted, [UrcNext]_urcVars
  PROVE  FailedNoted'
<1>0. /\ UrcTypeOK /\ counter \in Nat /\ main \in Senders /\ binder \in Senders /\ main # binder
      /\ at \in [Senders -> Places]
      /\ msg \in [Senders -> Messages \cup {NoUrc}]
  BY RilUrcCacheAssumption DEF CacheInv, CallsInv, PlacesOK, Places, UrcTypeOK, Senders
<1>1. CASE ClientUp \/ ClientDies \/ UNCHANGED urcVars
  <2>1. UNCHANGED << called, noted, counter, callback, at, msg >>
    BY <1>1 DEF ClientUp, ClientDies, urcVars, history
  <2> QED
    BY <1>0, <2>1, NotedFrame
<1>2. CASE CacheUrcHead \/ CacheUrc
  <2>1. /\ UNCHANGED << called, noted, counter, callback >>
        /\ \E p \in {"cache", "rlock", "idle"} : at' = [at EXCEPT ![main] = p]
        /\ msg'[binder] = msg[binder]
    BY <1>0, <1>2 DEF CacheUrcHead, CacheUrc, history, Go
  <2>2. \A t \in Senders : at'[t] = "wlock" => at[t] = "wlock" /\ msg'[t] = msg[t]
    BY <1>0, <2>1 DEF Senders
  <2> QED
    BY <1>0, <2>1, <2>2, NotedFrame
<1>3. CASE Connecting
  <2>1. UNCHANGED << called, noted >> /\ msg'[main] = msg[main]
        /\ \E p \in {"ready", "rlock", "drainHead", "drainLock", "drain", "idle"} : at' = [at EXCEPT ![binder] = p]
    BY <1>0, <1>3 DEF Connecting, SetResponseFunctions, OnNewCommandConnect, SendUrcHead, SendUrcLock, SendUrc,
                      PopUrc, history, Go
  <2>2. UNCHANGED << counter, callback >> \/ counter' = counter + 1
    BY <1>3 DEF Connecting, SetResponseFunctions, OnNewCommandConnect, SendUrcHead, SendUrcLock, SendUrc, PopUrc
  <2>3. \A t \in Senders : at'[t] = "wlock" => at[t] = "wlock" /\ msg'[t] = msg[t]
    BY <1>0, <2>1 DEF Senders
  <2>4. counter' \in Nat /\ counter' >= counter /\ (counter' = counter => callback' = callback)
    BY <1>0, <2>2
  <2> QED
    BY <1>0, <2>1, <2>3, <2>4, NotedFrame
<1>4. ASSUME NEW t \in Senders, LockR(t) \/ ResetCallbacks(t) \/ OnCommandDisconnect(t) \/ UnlockW(t) \/ UnlockR(t)
      PROVE  FailedNoted'
  <2>1. UNCHANGED << called, noted, msg >>
        /\ \E p \in {"call", "unlockR", "disconnect", "wunlock", "relock", "idle", "drainHead", "pop"} :
              at' = [at EXCEPT ![t] = p]
    BY <1>4 DEF LockR, ResetCallbacks, OnCommandDisconnect, UnlockW, UnlockR, history, Go
  <2>2. UNCHANGED << counter, callback >> \/ counter' = counter + 1
    BY <1>4 DEF LockR, ResetCallbacks, OnCommandDisconnect, UnlockW, UnlockR
  <2>3. \A s \in Senders : at'[s] = "wlock" => at[s] = "wlock" /\ msg'[s] = msg[s]
    BY <1>0, <2>1
  <2>4. counter' \in Nat /\ counter' >= counter /\ (counter' = counter => callback' = callback)
    BY <1>0, <2>2
  <2> QED
    BY <1>0, <2>1, <2>3, <2>4, NotedFrame
<1> QED
  BY <1>1, <1>2, <1>3, <1>4, CallNoted DEF UrcNext, Sending

(* Of the steps only the reset leads from waiting for the write lock to the disconnect. *)
LEMMA OnlyResetDisconnects ==
  ASSUME CacheInv, [UrcNext]_urcVars, NEW t \in Senders, at[t] = "wlock", at'[t] = "disconnect"
  PROVE  ResetCallbacks(t) /\ counter = noted[t]
<1>0. /\ main \in Senders /\ binder \in Senders /\ main # binder
      /\ at \in [Senders -> Places]
  BY RilUrcCacheAssumption DEF CacheInv, CallsInv, PlacesOK, Places, Senders
<1>1. CASE ClientUp \/ ClientDies \/ UNCHANGED urcVars
  <2>1. at' = at
    BY <1>1 DEF ClientUp, ClientDies, urcVars
  <2> QED
    BY <2>1
<1>2. CASE CacheUrcHead \/ CacheUrc
  <2>1. \E p \in {"cache", "rlock", "idle"} : at' = [at EXCEPT ![main] = p]
    BY <1>2 DEF CacheUrcHead, CacheUrc, Go
  <2> QED
    BY <1>0, <2>1
<1>3. CASE Connecting
  <2>1. \E p \in {"ready", "rlock", "drainHead", "drainLock", "drain", "idle"} : at' = [at EXCEPT ![binder] = p]
    BY <1>3 DEF Connecting, SetResponseFunctions, OnNewCommandConnect, SendUrcHead, SendUrcLock, SendUrc,
                PopUrc, Go
  <2> QED
    BY <1>0, <2>1
<1>4. CASE \E s \in Senders : Sending(s)
  <2>1. PICK s \in Senders : Sending(s)
    BY <1>4
  <2>2. CASE ResetCallbacks(s)
    <3>1. s = t
      BY <1>0, <2>2 DEF ResetCallbacks, Go
    <3>2. CASE counter = noted[s]
      BY <2>2, <3>1, <3>2
    <3>3. CASE counter # noted[s]
      BY <1>0, <2>2, <3>1, <3>3 DEF ResetCallbacks, Go
    <3> QED
      BY <3>2, <3>3
  <2>3. CASE LockR(s) \/ Call(s) \/ OnCommandDisconnect(s) \/ UnlockW(s) \/ UnlockR(s)
    <3>1. \E p \in {"call", "unlockR", "wlock", "wunlock", "relock", "idle", "drainHead", "pop"} :
              at' = [at EXCEPT ![s] = p]
      BY <2>3 DEF LockR, Call, OnCommandDisconnect, UnlockW, UnlockR, Go
    <3> QED
      BY <1>0, <3>1
  <2> QED
    BY <2>1, <2>2, <2>3 DEF Sending
<1> QED
  BY <1>1, <1>2, <1>3, <1>4 DEF UrcNext

(* A call that failed resets the callbacks it failed on and not those of a client that *)
(* came up since (checkReturnStatus), for the clients whose registration is counted:   *)
(* setResponseFunctionsIms does not count (ril_service.cpp).                           *)
THEOREM OnlyFailedResetCorrect ==
  ASSUME ClientType # "IMS_MTK"
  PROVE  UrcSpec => OnlyFailedReset
<1>1. UrcInit => FailedNoted
  BY InitNoted
<1>2. CacheInv /\ FailedNoted /\ [UrcNext]_urcVars => FailedNoted'
  BY StepNoted
<1>3. CacheInv /\ FailedNoted /\ [UrcNext]_urcVars =>
        [\A t \in Senders :
           at[t] = "wlock" /\ at'[t] = "disconnect" => callback = called[Max(Calls(msg[t]))][1]]_urcVars
  <2>1. SUFFICES ASSUME CacheInv, FailedNoted, [UrcNext]_urcVars, NEW t \in Senders,
                        at[t] = "wlock", at'[t] = "disconnect"
                 PROVE  callback = called[Max(Calls(msg[t]))][1]
    OBVIOUS
  <2>2. counter = noted[t]
    BY <2>1, OnlyResetDisconnects
  <2>3. PICK i \in DOMAIN called :
          /\ called[i][2] = msg[t]
          /\ \A j \in DOMAIN called : called[j][2] = msg[t] => j <= i
          /\ noted[t] = counter => called[i][1] = callback
    BY <2>1 DEF FailedNoted
  <2>4. i \in Calls(msg[t]) /\ Calls(msg[t]) \subseteq Nat /\ \A j \in Calls(msg[t]) : j <= i
    <3>1. DOMAIN called \subseteq Nat
      BY <2>1 DEF CacheInv, UrcTypeOK
    <3> QED
      BY <2>3, <3>1 DEF Calls
  <2>5. Max(Calls(msg[t])) = i
    <3> DEFINE S == Calls(msg[t])
    <3>1. i \in S /\ S \subseteq Nat /\ \A j \in S : j <= i
      BY <2>4
    <3> HIDE DEF S
    <3>2. \A x \in S : (\A y \in S : x >= y) => x = i
      BY <3>1
    <3>3. \A y \in S : i >= y
      BY <3>1
    <3>4. Max(S) = i
      BY <3>1, <3>2, <3>3 DEF Max
    <3> QED
      BY <3>4 DEF S
  <2> QED
    BY <2>2, <2>3, <2>5
<1> QED
  BY <1>1, <1>2, <1>3, CacheInvariant, PTL DEF UrcSpec, OnlyFailedReset
=============================================================================
