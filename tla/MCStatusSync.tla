---------------------------- MODULE MCStatusSync ----------------------------
(* An instance of StatusSync for TLC. *)
EXTENDS StatusSync

CONSTANTS kRadio, kMode, t1, t2, off, on, r1, r2

\* kRadio is set by two modem-side threads (RADIO_STATE by the radio and the
\* modem handler); kMode by a controller and a handler
KeyWriters == [k \in Keys |-> IF k = kRadio THEN {t1, t2} ELSE {"main", t1}]
=============================================================================
