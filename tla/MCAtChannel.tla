---------------------------- MODULE MCAtChannel ----------------------------
(* Instances of AtChannel for TLC: the commands and URCs of one channel. *)
EXTENDS AtChannel

CONSTANTS query, list, digits, plain, set2, set3, raw, carrier, same, sms

\* A query with one line and one with several, one that asks for digits (AT+CIMI),
\* plain settings, and an ATCI pass-through command
AtTypes == [c \in Commands |-> CASE c = query -> "SINGLELINE" [] c = list -> "MULTILINE"
                                 [] c = digits -> "NUMERIC" [] c = raw -> "RAW"
                                 [] OTHER -> "NO_RESULT"]
AtPrefixes == [c \in Commands |-> CASE c = query -> "+ESBP:" [] c = list -> "+CSRAA:"
                                    [] c = raw -> "+ATCI:" [] OTHER -> "none"]

\* NO CARRIER, which only a URC channel may take for a URC; a URC with the prefix
\* of the query; and an SMS, which takes two lines
AtUrcTexts == [u \in Urcs |-> CASE u = carrier -> "NO_CARRIER" [] u = same -> "+ESBP:"
                                 [] OTHER -> "SMS"]

\* Two queries on a URC channel of a user load; three settings there, so that the
\* second may take the late answer of the first and the third that of the second; a
\* query and a pass-through command in numeric mode on an internal load
SafetyInstances ==
  { [commands |-> {query, list}, urcs |-> {carrier}, urcChannel |-> TRUE, numericSet |-> FALSE,
     userLoad |-> TRUE],
    [commands |-> {plain, set2, set3}, urcs |-> {}, urcChannel |-> FALSE,
     numericSet |-> FALSE, userLoad |-> TRUE],
    [commands |-> {query, raw}, urcs |-> {same, sms}, urcChannel |-> FALSE, numericSet |-> TRUE,
     userLoad |-> FALSE] }

\* A numeric query and a setting on a user load
LiveInstances ==
  { [commands |-> {digits, plain}, urcs |-> {}, urcChannel |-> FALSE, numericSet |-> FALSE,
     userLoad |-> TRUE] }
=============================================================================
