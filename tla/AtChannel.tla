----------------------------- MODULE AtChannel -----------------------------
(***************************************************************************)
(* One AT channel of the RIL daemon: the sender thread (RfxSender), the    *)
(* reader thread (RfxReader) and what they share (RfxChannelContext).      *)
(*                                                                         *)
(* The sender writes a command, publishes an RfxAtResponse in the context  *)
(* and waits on m_commandCondition; the reader sorts every line of the     *)
(* channel into acknowledgement, intermediate line, final response or      *)
(* unsolicited code (URC).  m_commandMutex is held by the sender from the  *)
(* write to the wait, and by the reader while it sorts a line.             *)
(*                                                                         *)
(* A line is its class of text plus who sent it; the sender and the        *)
(* reader look at the text only.  m_readerMutex and m_restartMutex are     *)
(* contended by the SIM switch alone and belong to that component.         *)
(***************************************************************************)
EXTENDS Naturals, FiniteSets, Sequences

CONSTANTS
  Commands,      \* AT commands the channel's handlers send, each once
  Type,          \* [Commands -> AtCommandType]
  Prefix,        \* [Commands -> responsePrefix]
  PowerCommands, \* commands sent with the modem off (EPOF, EPON, ...)
  Urcs,          \* unsolicited codes the modem sends, each once
  UrcText,       \* [Urcs -> Texts]
  Instances,     \* which commands and URCs a channel has, and the build it runs on
  None,          \* NULL
  MaxLines,      \* bound: intermediate lines of one answer
  MaxPty         \* bound: lines in flight, the buffer of the pty

FinalSuccess   == {"OK"}
FinalErrors    == {"ERROR", "CME_ERROR", "NO_CARRIER"}
NumericSuccess == {"0"}
NumericErrors  == {"4", "CME_ERROR"}
Digits         == {"DIGITS", "0", "4"}
Prefixes       == {Prefix[c] : c \in Commands} \cup {UrcText[u] : u \in Urcs}
Texts == FinalSuccess \cup FinalErrors \cup Digits \cup Prefixes
           \cup {"ACK", "PROMPT", "SMS", "PDU"}
CommandTypes == {"NO_RESULT", "NUMERIC", "SINGLELINE", "MULTILINE", "RAW"}
Outcomes == {"none", "OK", "ERROR", "INVALID_RESPONSE", "TIMEOUT",
             "RADIO_UNAVAILABLE", "GENERIC"}

ASSUME ChannelAssumption ==
  /\ Type \in [Commands -> CommandTypes]
  /\ PowerCommands \subseteq Commands
  /\ Commands \cap Urcs = {} /\ None \notin Commands \cup Urcs
  /\ \A u \in Urcs :
       UrcText[u] \notin {"ACK", "OK", "ERROR", "CME_ERROR", "PROMPT", "PDU"} \cup Digits
  /\ \A c \in Commands :
       Prefix[c] \notin {"ACK", "OK", "PROMPT", "SMS", "PDU"} \cup FinalErrors \cup Digits
  /\ \A i \in Instances : /\ i.commands \subseteq Commands /\ i.urcs \subseteq Urcs
                           /\ {i.urcChannel, i.numericSet, i.userLoad} \subseteq BOOLEAN
                           /\ \A u \in i.urcs : UrcText[u] = "NO_CARRIER" => i.urcChannel
  /\ MaxLines \in Nat \ {0} /\ MaxPty \in Nat \ {0}

VARIABLES
  pty,           \* lines written by the modem and not yet read
  closed,        \* the modem's end of the channel is gone
  toModem,       \* commands the modem has not answered yet
  lines,         \* intermediate lines the modem has sent, per command
  modemAcked,    \* commands the modem has acknowledged
  urcSent,       \* URCs the modem has begun to send
  smsHalf,       \* URC of which only the first of two lines is sent
  mdOff,         \* RFX_STATUS_KEY_MODEM_POWER_OFF
  commandMutex,  \* who holds m_commandMutex
  sender,        \* the sender thread: [pc, cmd]
  signalled,     \* m_commandCondition was signalled at the waiting sender
  m_response,    \* command of the published RfxAtResponse; None: type NONE
  resp,          \* the RfxAtResponse of every command
  outcome,       \* what atSendCommand... returned, per command
  acked,         \* commands whose ack went to RFX_onRequestAck (with a token)
  reader,        \* the reader thread: [pc, line]
  urcs,          \* lines given to handleUnsolicited, in order
  trm,           \* the vendor.ril.muxreport property was set
  inst,          \* the instance that runs
  \* history
  written,       \* how many commands were written
  rank           \* the position of each among them; 0: not written

IsUrcChannel == inst.urcChannel   \* the channel is RIL_URC + j * RIL_CHANNEL_OFFSET
IsNumericSet == inst.numericSet   \* RFX_STATUS_KEY_ATCI_IS_NUMERIC
UserLoad     == inst.userLoad     \* isInternalLoad() # 1 and isUserLoad() = 1

modemVars  == << closed, toModem, lines, modemAcked, urcSent, smsHalf, mdOff >>
rankVars   == << written, rank >>
senderVars == << sender, outcome, acked, rankVars >>
vars == << pty, modemVars, commandMutex, senderVars, signalled, m_response,
           resp, reader, urcs, trm, inst >>

Line(t, s, n) == [text |-> t, from |-> s, no |-> n]
NoLine == Line("", None, 0)
Lines  == [text : Texts, from : Commands \cup Urcs, no : 0 .. MaxLines]

Init ==
  /\ pty = << >> /\ closed = FALSE
  /\ toModem = << >> /\ lines = [c \in Commands |-> 0]
  /\ modemAcked = {} /\ urcSent = {} /\ smsHalf = None
  /\ mdOff = FALSE
  /\ commandMutex = "free"
  /\ sender = [pc |-> "idle", cmd |-> None]
  /\ signalled = FALSE /\ m_response = None
  /\ resp = [c \in Commands |-> [inter |-> << >>, ack |-> FALSE, final |-> NoLine]]
  /\ outcome = [c \in Commands |-> "none"]
  /\ acked = {}
  /\ reader = [pc |-> "read", line |-> NoLine]
  /\ urcs = << >> /\ trm = FALSE
  /\ written = 0 /\ rank = [c \in Commands |-> 0]
  /\ inst \in Instances
-----------------------------------------------------------------------------
(* The sender thread *)

\* atSendCommand* reads the modem state before it takes the lock
AtSendCommand(c) ==
  /\ sender.pc = "idle" /\ outcome[c] = "none"
  /\ \/ /\ mdOff /\ c \notin PowerCommands
        /\ outcome' = [outcome EXCEPT ![c] = "RADIO_UNAVAILABLE"]
        /\ UNCHANGED sender
     \/ /\ ~mdOff \/ c \in PowerCommands
        /\ sender' = [pc |-> "lock", cmd |-> c]
        /\ UNCHANGED outcome
  /\ UNCHANGED << pty, modemVars, commandMutex, acked, rankVars, signalled, m_response,
                  resp, reader, urcs, trm >>

\* Mutant: the mutex is not released on the way out
MutReturnKeepsMutex(c, result) ==
  /\ m_response' = None
  /\ outcome' = [outcome EXCEPT ![c] = result]
  /\ sender' = [pc |-> "idle", cmd |-> None]
  /\ commandMutex' = "sender"

\* The end of atSendCommandFull: context cleared, error set, mutex released
Return(c, result) ==
  /\ m_response' = None
  /\ outcome' = [outcome EXCEPT ![c] = result]
  /\ sender' = [pc |-> "idle", cmd |-> None]
  /\ commandMutex' = "free"

\* The line is in the pty; the commands are counted for the properties
Write(c) ==
  /\ toModem' = Append(toModem, c)
  /\ written' = written + 1
  /\ rank' = [rank EXCEPT ![c] = written + 1]

\* Mutant: the mutex is taken for the wait only, after the write
MutWriteLineUnlocked ==
  /\ sender.pc = "lock" /\ commandMutex = "free"
  /\ Write(sender.cmd)
  /\ sender' = [pc |-> "publish", cmd |-> sender.cmd]
  /\ UNCHANGED << outcome, m_response, commandMutex >>
  /\ UNCHANGED << pty, closed, lines, modemAcked, urcSent, smsHalf, mdOff,
                  acked, signalled, resp, reader, urcs, trm >>

\* m_commandMutex.lock and writeline; a write error ends the call
WriteLine ==
  /\ sender.pc = "lock" /\ commandMutex = "free"
  /\ \/ /\ Write(sender.cmd)
        /\ commandMutex' = "sender"
        /\ sender' = [pc |-> "publish", cmd |-> sender.cmd]
        /\ UNCHANGED << outcome, m_response >>
     \/ /\ closed
        /\ Return(sender.cmd, "GENERIC")
        /\ UNCHANGED << toModem, rankVars >>
  /\ UNCHANGED << pty, closed, lines, modemAcked, urcSent, smsHalf, mdOff,
                  acked, signalled, resp, reader, urcs, trm >>

\* setType, setResponse, and waitRelative, which releases the mutex
Publish ==
  /\ sender.pc = "publish"
  /\ m_response' = sender.cmd
  /\ sender' = [pc |-> "wait", cmd |-> sender.cmd]
  /\ commandMutex' = "free"
  /\ signalled' = FALSE
  /\ UNCHANGED << pty, modemVars, outcome, acked, rankVars, resp, reader, urcs, trm >>

\* What a command with a final response returns, the check that
\* atSendCommandSinglelineAck and atSendCommandNumericAck make included
Result(c) ==
  IF resp[c].final.text \in FinalSuccess \cup NumericSuccess \cup {"PROMPT"}
  THEN IF Type[c] \in {"SINGLELINE", "NUMERIC"} /\ resp[c].inter = << >>
       THEN "INVALID_RESPONSE" ELSE "OK"
  ELSE "ERROR"

\* waitRelative returns with the mutex: finish, or pass on an ack and wait
Wake ==
  /\ sender.pc = "wait" /\ signalled /\ commandMutex = "free"
  /\ signalled' = FALSE
  /\ LET c == sender.cmd IN
     \/ /\ resp[c].final # NoLine
        /\ Return(c, Result(c))
        /\ UNCHANGED << resp, acked >>
     \/ /\ resp[c].final = NoLine
        /\ resp' = [resp EXCEPT ![c].ack = FALSE]
        /\ acked' = IF resp[c].ack THEN acked \cup {c} ELSE acked
        /\ UNCHANGED << sender, outcome, m_response, commandMutex >>
  /\ UNCHANGED << pty, modemVars, rankVars, reader, urcs, trm >>

\* The wait times out; a signal that comes after this is lost
TimeOut ==
  /\ sender.pc = "wait" /\ ~signalled
  /\ sender' = [pc |-> "timedout", cmd |-> sender.cmd]
  /\ UNCHANGED << pty, modemVars, commandMutex, outcome, acked, rankVars, signalled,
                  m_response, resp, reader, urcs, trm >>

\* Mutant: an internal load goes on after a time-out
MutReturnTimeoutContinues ==
  /\ sender.pc = "timedout" /\ commandMutex = "free"
  /\ m_response' = None /\ commandMutex' = "free"
  /\ sender' = [pc |-> "idle", cmd |-> None]
  /\ UNCHANGED << pty, modemVars, outcome, acked, rankVars, signalled, resp, reader, urcs, trm >>

\* waitRelative has the mutex again and returns -ETIMEDOUT.  A user load asks
\* for a modem reset and goes on; other loads assert, or, when the modem is
\* in exception, end the thread, which still holds m_commandMutex.
ReturnTimeout ==
  /\ sender.pc = "timedout" /\ commandMutex = "free"
  /\ \/ /\ UserLoad
        /\ Return(sender.cmd, "TIMEOUT")
        /\ trm' = TRUE
        /\ UNCHANGED reader
     \/ /\ ~UserLoad
        /\ m_response' = None
        /\ commandMutex' = "sender"
        /\ sender' = [pc |-> "exited", cmd |-> sender.cmd]
        /\ reader' \in {reader, [pc |-> "aborted", line |-> NoLine]}
        /\ UNCHANGED << outcome, trm >>
  /\ UNCHANGED << pty, modemVars, acked, rankVars, signalled, resp, urcs >>
-----------------------------------------------------------------------------
(* The reader thread *)

\* readline: a full line out of the reader's buffer; it blocks without one
Readline == pty # << >> /\ pty' = Tail(pty)

\* The codes of s_smsUnsoliciteds, which bring the PDU on a second line
IsSMSUnsolicited(l) == l.text = "SMS"

ReadLine ==
  /\ reader.pc = "read"
  /\ Readline
  /\ LET l == Head(pty) IN
       reader' = [pc |-> IF IsSMSUnsolicited(l) THEN "sms" ELSE "lock", line |-> l]
  /\ UNCHANGED << modemVars, commandMutex, senderVars, signalled, m_response,
                  resp, urcs, trm >>

\* handleUnsolicited: the line goes to the Mcl dispatcher
HandleUnsolicited(l) == urcs' = Append(urcs, l)

ReadSecondLine ==
  /\ reader.pc = "sms"
  /\ Readline
  /\ HandleUnsolicited(reader.line)
  /\ reader' = [pc |-> "read", line |-> NoLine]
  /\ UNCHANGED << modemVars, commandMutex, senderVars, signalled, m_response,
                  resp, trm >>

\* readline returns NULL: the reader stops and triggers TRM
ReadEof ==
  /\ reader.pc \in {"read", "sms"} /\ pty = << >> /\ closed
  /\ reader' = [pc |-> "stopped", line |-> NoLine]
  /\ trm' = TRUE
  /\ UNCHANGED << pty, modemVars, commandMutex, senderVars, signalled,
                  m_response, resp, urcs >>

\* m_commandMutex.tryLock succeeds
ReaderLock ==
  /\ reader.pc = "lock" /\ commandMutex = "free"
  /\ commandMutex' = "reader"
  /\ reader' = [pc |-> "process", line |-> reader.line]
  /\ UNCHANGED << pty, modemVars, senderVars, signalled, m_response, resp,
                  urcs, trm >>

\* NO CARRIER on a URC channel is a URC, not a final response
IsFinalResponseErrorEx(l) ==
  l.text \in FinalErrors /\ ~(IsUrcChannel /\ l.text = "NO_CARRIER")

\* The switch on getCommandType in processLine
IsIntermediate(c, l) ==
  CASE Type[c] = "NO_RESULT"  -> FALSE
    [] Type[c] = "NUMERIC"    -> resp[c].inter = << >> /\ l.text \in Digits
    [] Type[c] = "SINGLELINE" -> resp[c].inter = << >> /\ l.text = Prefix[c]
    [] Type[c] = "MULTILINE"  -> l.text = Prefix[c]
    [] Type[c] = "RAW" /\ IsNumericSet  -> l.text \notin NumericSuccess \cup NumericErrors
    [] Type[c] = "RAW" /\ ~IsNumericSet ->
         l.text \notin FinalSuccess \cup {"PROMPT"} /\ ~IsFinalResponseErrorEx(l)

IsFinal(c, l) ==
  \/ l.text \in FinalSuccess \cup {"PROMPT"} \/ IsFinalResponseErrorEx(l)
  \/ Type[c] = "RAW" /\ IsNumericSet /\ l.text \in NumericSuccess \cup NumericErrors

\* m_commandCondition.signal: only a sender that still waits takes it
SignalSender == signalled' = (signalled \/ sender.pc = "wait")

\* Mutant: the sender is not signalled
MutHandleFinalResponseSilent(c, l) ==
  /\ resp' = [resp EXCEPT ![c].final = l]
  /\ UNCHANGED signalled

\* handleFinalResponse
HandleFinalResponse(c, l) ==
  /\ resp' = [resp EXCEPT ![c].final = l]
  /\ SignalSender

\* setAck(1) and handleRequestAck
HandleRequestAck(c) ==
  /\ resp' = [resp EXCEPT ![c].ack = TRUE]
  /\ SignalSender

\* Mutant: a line that is no part of the answer is dropped
MutSortLineDrops(c, l) ==
  \/ /\ l.text = "ACK"
     /\ HandleRequestAck(c) /\ UNCHANGED urcs
  \/ /\ l.text # "ACK" /\ IsIntermediate(c, l)
     /\ resp' = [resp EXCEPT ![c].inter = Append(@, l)]
     /\ UNCHANGED << signalled, urcs >>
  \/ /\ l.text # "ACK" /\ ~IsIntermediate(c, l) /\ IsFinal(c, l)
     /\ HandleFinalResponse(c, l) /\ UNCHANGED urcs
  \/ /\ l.text # "ACK" /\ ~IsIntermediate(c, l) /\ ~IsFinal(c, l)
     /\ UNCHANGED << resp, signalled, urcs >>

\* The tests of processLine in their order, for a published response
SortLine(c, l) ==
  \/ /\ l.text = "ACK"
     /\ HandleRequestAck(c) /\ UNCHANGED urcs
  \/ /\ l.text # "ACK" /\ IsIntermediate(c, l)
     /\ resp' = [resp EXCEPT ![c].inter = Append(@, l)]
     /\ UNCHANGED << signalled, urcs >>
  \/ /\ l.text # "ACK" /\ ~IsIntermediate(c, l) /\ IsFinal(c, l)
     /\ HandleFinalResponse(c, l) /\ UNCHANGED urcs
  \/ /\ l.text # "ACK" /\ ~IsIntermediate(c, l) /\ ~IsFinal(c, l)
     /\ HandleUnsolicited(l) /\ UNCHANGED << resp, signalled >>

\* processLine and the unlock that follows it
ProcessLine ==
  /\ reader.pc = "process"
  /\ \/ m_response = None /\ HandleUnsolicited(reader.line) /\ UNCHANGED << resp, signalled >>
     \/ m_response # None /\ SortLine(m_response, reader.line)
  /\ reader' = [pc |-> "read", line |-> NoLine]
  /\ commandMutex' = "free"
  /\ UNCHANGED << pty, modemVars, senderVars, m_response, trm >>
-----------------------------------------------------------------------------
(* The modem, from the answers the sender expects.  It answers in order,   *)
(* acknowledges at most once, and may send a URC between any two lines.    *)

ModemWrites(l) == ~closed /\ Len(pty) < MaxPty /\ pty' = Append(pty, l)
ModemSends(l) == smsHalf = None /\ ModemWrites(l)
EnvUnchanged == UNCHANGED << commandMutex, senderVars, signalled, m_response,
                             resp, reader, urcs, trm >>

ModemAck ==
  /\ toModem # << >> /\ ~mdOff
  /\ LET c == Head(toModem) IN
       /\ c \notin modemAcked /\ lines[c] = 0
       /\ ModemSends(Line("ACK", c, 0))
       /\ modemAcked' = modemAcked \cup {c}
  /\ UNCHANGED << closed, toModem, lines, urcSent, smsHalf, mdOff >>
  /\ EnvUnchanged

MostLines(c) == IF Type[c] = "NO_RESULT" THEN 0
                ELSE IF Type[c] \in {"NUMERIC", "SINGLELINE"} THEN 1 ELSE MaxLines

ModemLine ==
  /\ toModem # << >> /\ ~mdOff
  /\ LET c == Head(toModem) IN
       /\ lines[c] < MostLines(c)
       /\ lines' = [lines EXCEPT ![c] = @ + 1]
       /\ ModemSends(Line(IF Type[c] = "NUMERIC" THEN "DIGITS" ELSE Prefix[c],
                          c, lines[c] + 1))
  /\ UNCHANGED << closed, toModem, modemAcked, urcSent, smsHalf, mdOff >>
  /\ EnvUnchanged

ModemFinal ==
  /\ toModem # << >> /\ ~mdOff
  /\ LET c == Head(toModem) IN
       \E t \in IF Type[c] = "RAW" /\ IsNumericSet THEN {"0", "4"} ELSE {"OK", "CME_ERROR"} :
         ModemSends(Line(t, c, 0))
  /\ toModem' = Tail(toModem)
  /\ UNCHANGED << closed, lines, modemAcked, urcSent, smsHalf, mdOff >>
  /\ EnvUnchanged

ModemUrc(u) ==
  /\ u \notin urcSent /\ ~mdOff
  /\ ModemSends(Line(UrcText[u], u, 0))
  /\ urcSent' = urcSent \cup {u}
  /\ smsHalf' = IF UrcText[u] = "SMS" THEN u ELSE None
  /\ UNCHANGED << closed, toModem, lines, modemAcked, mdOff >>
  /\ EnvUnchanged

ModemSecondLine ==
  /\ smsHalf # None
  /\ ModemWrites(Line("PDU", smsHalf, 0))
  /\ smsHalf' = None
  /\ UNCHANGED << closed, toModem, lines, modemAcked, urcSent, mdOff >>
  /\ EnvUnchanged

\* RmcRadioRequestHandler powers the modem off / the mux closes the channel
ModemPowerOff ==
  /\ ~mdOff /\ mdOff' = TRUE
  /\ UNCHANGED << pty, closed, toModem, lines, modemAcked, urcSent, smsHalf >>
  /\ EnvUnchanged

CloseChannel ==
  /\ ~closed /\ closed' = TRUE
  /\ UNCHANGED << pty, toModem, lines, modemAcked, urcSent, smsHalf, mdOff >>
  /\ EnvUnchanged
-----------------------------------------------------------------------------
Reader == ReadLine \/ ReadSecondLine \/ ReadEof \/ ReaderLock \/ ProcessLine
Sender == WriteLine \/ Publish \/ Wake \/ ReturnTimeout
Modem == ModemAck \/ ModemLine \/ ModemFinal \/ ModemSecondLine
           \/ ModemPowerOff \/ CloseChannel \/ \E u \in inst.urcs : ModemUrc(u)

Steps == Reader \/ Sender \/ TimeOut \/ Modem
           \/ \E c \in inst.commands : AtSendCommand(c)

Next == Steps /\ UNCHANGED inst

Spec == Init /\ [][Next]_vars

\* Each thread runs whenever it can: the reader polls for the mutex, the
\* sender is woken by the condition.  The time-out is not relied upon, and
\* nothing is assumed of the modem.
FairSpec == Spec /\ WF_vars(Reader /\ UNCHANGED inst) /\ WF_vars(Sender /\ UNCHANGED inst)
-----------------------------------------------------------------------------
(* What the channel promises *)

\* Every variable has its type, and m_commandMutex is held exactly in the
\* stretches of code between its lock and its unlock or wait.
TypeOK ==
  /\ pty \in Seq(Lines) /\ urcs \in Seq(Lines)
  /\ closed \in BOOLEAN /\ mdOff \in BOOLEAN /\ signalled \in BOOLEAN /\ trm \in BOOLEAN
  /\ toModem \in Seq(Commands) /\ lines \in [Commands -> 0 .. MaxLines]
  /\ modemAcked \subseteq Commands /\ acked \subseteq Commands
  /\ urcSent \subseteq Urcs /\ smsHalf \in Urcs \cup {None}
  /\ sender \in [pc : {"idle", "lock", "publish", "wait", "timedout", "exited"},
                 cmd : Commands \cup {None}]
  /\ reader \in [pc : {"read", "sms", "lock", "process", "stopped", "aborted"},
                 line : Lines \cup {NoLine}]
  /\ m_response \in Commands \cup {None}
  /\ written \in Nat /\ rank \in [Commands -> 0 .. written]
  /\ resp \in [Commands -> [inter : Seq(Lines), ack : BOOLEAN, final : Lines \cup {NoLine}]]
  /\ outcome \in [Commands -> Outcomes]
  /\ commandMutex = IF sender.pc \in {"publish", "exited"} THEN "sender"
                    ELSE IF reader.pc = "process" THEN "reader" ELSE "free"

TimedOut == {c \in Commands : outcome[c] = "TIMEOUT"}

\* A URC that no reader of this protocol can tell from a line of c's answer
LooksLikeAnswer(c, u) ==
  \/ Type[c] = "RAW"
  \/ Type[c] \in {"SINGLELINE", "MULTILINE"} /\ UrcText[u] = Prefix[c]

\* A line of s in the answer of c: s is c, or was written before c, and no more
\* commands lie between them than have timed out
InStep(c, s) ==
  rank[s] \in 1 .. rank[c] /\ rank[c] - rank[s] <= Cardinality(TimedOut)

\* Every line kept in a command's response was sent in answer to that very
\* command.  The exceptions are exactly those the protocol cannot exclude: a
\* URC with the command's own prefix (or any URC, for RAW), and late answers
\* (user loads go on after a time-out).  A time-out puts the channel out of step
\* by one answer, for all the commands that follow; nothing else ever does.
AnswersOwnCommand ==
  \A c \in Commands :
    /\ \A i \in DOMAIN resp[c].inter :
         LET s == resp[c].inter[i].from IN
           \/ s \in Commands /\ InStep(c, s)
           \/ s \in Urcs /\ LooksLikeAnswer(c, s)
    /\ resp[c].final # NoLine =>
         resp[c].final.from \in Commands /\ InStep(c, resp[c].final.from)

\* The places that hold the (first) line of URC u
Holders(u) ==
  {<< "pty", i >> : i \in {j \in DOMAIN pty : pty[j].from = u /\ pty[j].text # "PDU"}}
  \cup {<< "urcs", i >> : i \in {j \in DOMAIN urcs : urcs[j].from = u}}
  \cup UNION {{<< c, i >> : i \in {j \in DOMAIN resp[c].inter : resp[c].inter[j].from = u}}
                : c \in Commands}

\* No unsolicited line is lost or handled twice, whatever command it arrives
\* in the middle of: until the channel closes or the process dies, each one is
\* still unread, or in the reader's hands, or was dispatched once, or was
\* kept by a command whose answer it looks like.
UrcsKept ==
  \A u \in urcSent :
    \/ \E h \in Holders(u) : Holders(u) = {h} /\ reader.line.from # u
    \/ Holders(u) = {} /\ reader.line.from = u
    \/ Holders(u) = {} /\ reader.pc \in {"stopped", "aborted"}

\* A command that returns success has every intermediate line the modem sent
\* for it, in order, if no URC looks like an answer to it and no earlier
\* command timed out: no line of it slipped through as a URC between the
\* write and the publication of the response.
AnswerComplete ==
  \A c \in Commands :
    (outcome[c] = "OK" /\ TimedOut = {} /\ \A u \in inst.urcs : ~LooksLikeAnswer(c, u))
      => [i \in DOMAIN resp[c].inter |-> resp[c].inter[i].no] = [i \in 1 .. lines[c] |-> i]

\* The commands that some instance sends
Sent == UNION {i.commands : i \in Instances}

\* Once the reader has accepted a final response the command returns, without
\* the help of the time-out, and an acknowledgement reaches RFX_onRequestAck unless
\* the final response or the time-out overtakes it: no signal is ever lost.
FinalWakesSender ==
  \A c \in Sent :
    /\ (resp[c].final # NoLine /\ sender.cmd = c) ~> (sender.cmd # c)
    /\ resp[c].ack ~> (c \in acked \/ resp[c].final # NoLine \/ sender.pc = "timedout"
                         \/ outcome[c] = "TIMEOUT")

\* On a user load no command, timed out or not, keeps the reader from the
\* channel for good: it comes back to an empty channel again and again.
ReaderDrains == []<>(pty = << >> /\ reader.pc \in {"read", "sms", "stopped"})
=============================================================================
