----------------------------- MODULE MCDataAllow -----------------------------
(* Instances of DataAllow for TLC. *)
EXTENDS DataAllow

\* Two slots in preferred data mode with everything that may happen; and three slots
\* whose requests the framework sends itself: three requests, or two of which the modem
\* may refuse one for good
DataAllowInstances ==
  { [simCount |-> 2, types |-> {"mms", "supl"}, preferred |-> TRUE, events |-> 4, requests |-> 0,
     refused |-> 1, unsupported |-> 1, restarts |-> 1],
    [simCount |-> 3, types |-> {"mms"}, preferred |-> FALSE, events |-> 1, requests |-> 3,
     refused |-> 0, unsupported |-> 0, restarts |-> 0],
    [simCount |-> 3, types |-> {"mms"}, preferred |-> FALSE, events |-> 1, requests |-> 2,
     refused |-> 1, unsupported |-> 0, restarts |-> 0] }
=============================================================================
