--------------------------- MODULE MCRfxDispatch ---------------------------
(* Instances of RfxDispatch for TLC.  Each cfg picks an Owner and a Channel. *)
EXTENDS RfxDispatchInv

CONSTANTS r1, r2, r3, s1, s2, c1, c2, ch1, ch2

\* Three requests of one controller, two channels
OneOwner  == [r \in Requests |-> c1]
TwoChannels == [r \in Requests |-> IF r = r3 THEN ch2 ELSE ch1]

\* r2 unowned, the others owned; r3 and s2 have no handler registered
MixedOwner   == [r \in Requests |-> IF r = r2 THEN NoOne ELSE c1]
MixedChannel == [r \in Requests |-> IF r \in {r3, s2} THEN NoOne ELSE ch1]
=============================================================================
