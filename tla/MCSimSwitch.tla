----------------------------- MODULE MCSimSwitch -----------------------------
(* Instances of SimSwitch for TLC. *)
EXTENDS SimSwitch

\* Commands and an error while the modem resets its SIMs; the switch without a reset,
\* whose command may time out; two switches of four slots; and of three without a reset
SimSwitchInstances ==
  { [simCount |-> 2, classes |-> << "urc", "cmd", "own" >>, noReset |-> FALSE, ownSlot |-> 0,
     switches |-> 1, commands |-> 1, unsolicited |-> 1, errors |-> 1, timeouts |-> 0],
    [simCount |-> 2, classes |-> << "urc", "own", "vsim" >>, noReset |-> TRUE, ownSlot |-> 0,
     switches |-> 1, commands |-> 1, unsolicited |-> 1, errors |-> 0, timeouts |-> 1],
    [simCount |-> 4, classes |-> << "urc", "own" >>, noReset |-> FALSE, ownSlot |-> 1,
     switches |-> 2, commands |-> 0, unsolicited |-> 0, errors |-> 0, timeouts |-> 0],
    [simCount |-> 3, classes |-> << "urc", "own" >>, noReset |-> TRUE, ownSlot |-> 1,
     switches |-> 2, commands |-> 0, unsolicited |-> 0, errors |-> 0, timeouts |-> 0] }
=============================================================================
