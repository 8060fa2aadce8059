--------------------------- MODULE RequestService ---------------------------
(***************************************************************************)
(* What the RIL daemon promises its clients about a request, whatever      *)
(* threads, queues and controllers it passes: it is issued once, closed    *)
(* once, and answered when it is closed and at no other time.  Only a      *)
(* request of a client in Losable may be closed without an answer.         *)
(***************************************************************************)
EXTENDS Naturals

CONSTANTS Requests, Losable

VARIABLES
  status,    \* "new", "open" or "closed", per request
  answers    \* completions the client has seen, per request

vars == << status, answers >>

Init ==
  /\ status = [r \in Requests |-> "new"]
  /\ answers = [r \in Requests |-> 0]

Issue(r) ==
  /\ status[r] = "new"
  /\ status' = [status EXCEPT ![r] = "open"]
  /\ UNCHANGED answers

Answer(r) ==
  /\ status[r] = "open"
  /\ status' = [status EXCEPT ![r] = "closed"]
  /\ answers' = [answers EXCEPT ![r] = @ + 1]

Lose(r) ==
  /\ r \in Losable
  /\ status[r] = "open"
  /\ status' = [status EXCEPT ![r] = "closed"]
  /\ UNCHANGED answers

Next == \E r \in Requests : Issue(r) \/ Answer(r) \/ Lose(r)

Spec == Init /\ [][Next]_vars
=============================================================================
