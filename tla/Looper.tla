------------------------------- MODULE Looper -------------------------------
(***************************************************************************)
(* The message list of a Looper (libmtkutils/Looper.cpp).                  *)
(*                                                                         *)
(* mMessageEnvelopes is kept sorted by uptime and an equal uptime goes     *)
(* after the ones already there.  The framework only uses two classes of   *)
(* uptime on one looper: "front" (0, or PRIORITY_HIGH on an AT channel)    *)
(* and "normal" (now, or PRIORITY_MEDIUM), so the list is two FIFO         *)
(* segments, hi ahead of lo.  Delayed messages are not in this module.     *)
(***************************************************************************)
EXTENDS Sequences

EmptyLooper == [hi |-> << >>, lo |-> << >>]

LooperOf(S) == [hi : Seq(S), lo : Seq(S)]

\* sendMessage: stamped with now, behind everything already due
SendMessage(l, m) == [hi |-> l.hi, lo |-> Append(l.lo, m)]

\* Mutant: inserted ahead of the fronts already there
MutSendMessageFrontLifo(l, m) == [hi |-> << m >> \o l.hi, lo |-> l.lo]

\* sendMessageAtTime(0, ...): ahead of the normal ones, behind earlier fronts
SendMessageFront(l, m) == [hi |-> Append(l.hi, m), lo |-> l.lo]

LooperBusy(l) == l.hi # << >> \/ l.lo # << >>

\* The envelope pollInner takes next, and the list without it
LooperHead(l) == IF l.hi # << >> THEN Head(l.hi) ELSE Head(l.lo)

LooperTail(l) == IF l.hi # << >> THEN [hi |-> Tail(l.hi), lo |-> l.lo]
                                 ELSE [hi |-> l.hi, lo |-> Tail(l.lo)]
=============================================================================
