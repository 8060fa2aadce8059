--------------------------- MODULE AtChannelProofs ---------------------------
(***************************************************************************)
(* Proofs about AtChannel: the answers a channel keeps are those of its    *)
(* own commands, off by one command for each time-out and never by more; a *)
(* command that succeeds has every line the modem sent for it; and every   *)
(* unsolicited line is at one place.                                       *)
(***************************************************************************)
EXTENDS AtChannel, FiniteSetTheorems, TLAPS

OutPcs == {"publish", "wait", "timedout", "exited"}

FinalTexts == FinalSuccess \cup FinalErrors \cup {"PROMPT", "0", "4"}

\* The line that ends the answer of a command
EndsAnswer(l) == l.from \in Commands /\ l.text \in FinalTexts

\* The reader has a line it has still to sort
Held == reader.pc \in {"lock", "process"}

\* The threads' sections under m_commandMutex do not overlap, and the reader sorts
\* only lines it has read
ThreadsApart ==
  /\ reader.pc = "process" => sender.pc \notin {"publish", "exited"}
  /\ reader.pc \in {"sms", "lock", "process"} => reader.line \in Lines

\* A line is of a command that was written, or is a URC of this channel
LineOk(us, rk, l) ==
  /\ l \in Lines
  /\ l.from \in Commands => rk[l.from] # 0
  /\ l.from \in Urcs => l.from \in us /\ l.text \in {UrcText[l.from], "PDU"}

LinesOk ==
  /\ \A i \in DOMAIN pty : LineOk(inst.urcs, rank, pty[i])
  /\ Held => LineOk(inst.urcs, rank, reader.line)
  /\ \A i \in DOMAIN toModem : rank[toModem[i]] # 0
  /\ smsHalf \in inst.urcs \cup {None} /\ inst \in Instances

\* What was written first is answered first, and nothing follows the end of an answer
Ahead(rk, l, s) ==
  l.from \in Commands => /\ rk[l.from] <= rk[s]
                         /\ EndsAnswer(l) => rk[l.from] < rk[s]

\* A line and the lines and commands behind it
AheadOf(rk, l, q) == \A j \in DOMAIN q : q[j].from \in Commands => Ahead(rk, l, q[j].from)
AheadOfAll(rk, l, q) == \A j \in DOMAIN q : Ahead(rk, l, q[j])

InOrder ==
  /\ \A i, j \in DOMAIN pty : i < j /\ pty[j].from \in Commands => Ahead(rank, pty[i], pty[j].from)
  /\ \A i \in DOMAIN pty : AheadOfAll(rank, pty[i], toModem)
  /\ \A i, j \in DOMAIN toModem : i < j => rank[toModem[i]] < rank[toModem[j]]
  /\ Held => AheadOf(rank, reader.line, pty) /\ AheadOfAll(rank, reader.line, toModem)

CommandTracked ==
  /\ sender.pc # "idle" => sender.cmd \in Commands /\ outcome[sender.cmd] = "none"
  /\ sender.pc \in OutPcs => rank[sender.cmd] = written /\ written # 0
  /\ \A c \in Commands :
       rank[c] # 0 /\ outcome[c] = "none" => sender.pc \in OutPcs /\ sender.cmd = c
  /\ m_response # None => sender.pc \in {"wait", "timedout"} /\ sender.cmd = m_response
  /\ \A c \in Commands : rank[c] = 0 => resp[c].inter = << >> /\ resp[c].final = NoLine

Unanswered == sender.pc \in OutPcs /\ resp[sender.cmd].final = NoLine

\* How many answers may be outstanding: one for each time-out, and the current one
Slack == Cardinality(TimedOut) + (IF Unanswered THEN 1 ELSE 0)

\* The command is among the last that were written
Outstanding(w, rk, k, c) == w < rk[c] + k

\* ... which holds of all that is under way
Recent ==
  /\ \A i \in DOMAIN pty : pty[i].from \in Commands => Outstanding(written, rank, Slack, pty[i].from)
  /\ \A i \in DOMAIN toModem : Outstanding(written, rank, Slack, toModem[i])
  /\ Held /\ reader.line.from \in Commands =>
       Outstanding(written, rank, Slack, reader.line.from)

IInv == /\ TypeOK /\ ThreadsApart /\ IsFiniteSet(TimedOut)
        /\ CommandTracked /\ LinesOk /\ InOrder /\ Recent /\ AnswersOwnCommand
-----------------------------------------------------------------------------
(* Types *)

Responses == [inter : Seq(Lines), ack : BOOLEAN, final : Lines \cup {NoLine}]
SenderStates == [pc : {"idle", "lock", "publish", "wait", "timedout", "exited"},
                 cmd : Commands \cup {None}]
ReaderStates == [pc : {"read", "sms", "lock", "process", "stopped", "aborted"},
                 line : Lines \cup {NoLine}]

(* Appending a line and taking the first keep a list of lines. *)
LEMMA ListTyped ==
  ASSUME NEW S, NEW q \in Seq(S)
  PROVE  /\ \A m \in S : Append(q, m) \in Seq(S)
         /\ q # << >> => Head(q) \in S /\ Tail(q) \in Seq(S)
OBVIOUS

(* What sorting a line may do to the responses. *)
LEMMA SortLineFacts ==
  ASSUME resp \in [Commands -> Responses], urcs \in Seq(Lines), signalled \in BOOLEAN,
         NEW c \in Commands, NEW l \in Lines, SortLine(c, l)
  PROVE  /\ resp' \in [Commands -> Responses] /\ urcs' \in Seq(Lines) /\ signalled' \in BOOLEAN
         /\ \A d \in Commands \ {c} : resp'[d] = resp[d]
         /\ \/ resp'[c].inter = resp[c].inter
            \/ IsIntermediate(c, l) /\ resp'[c].inter = Append(resp[c].inter, l)
         /\ \/ resp'[c].final = resp[c].final
            \/ IsFinal(c, l) /\ resp'[c].final = l
<1>1. resp[c] \in Responses /\ resp[c].inter \in Seq(Lines)
  BY DEF Responses
<1>2. CASE HandleRequestAck(c) /\ UNCHANGED urcs
  <2>1. resp' = [resp EXCEPT ![c] = [resp[c] EXCEPT !.ack = TRUE]]
    BY <1>2 DEF HandleRequestAck
  <2>2. [resp[c] EXCEPT !.ack = TRUE] \in Responses
    BY <1>1 DEF Responses
  <2> QED
    BY <1>1, <1>2, <2>1, <2>2 DEF HandleRequestAck, SignalSender, Responses
<1>3. CASE /\ IsIntermediate(c, l) /\ resp' = [resp EXCEPT ![c].inter = Append(@, l)]
           /\ UNCHANGED << signalled, urcs >>
  <2>1. resp' = [resp EXCEPT ![c] = [resp[c] EXCEPT !.inter = Append(resp[c].inter, l)]]
    BY <1>3
  <2>2. Append(resp[c].inter, l) \in Seq(Lines)
    BY <1>1, ListTyped
  <2>3. [resp[c] EXCEPT !.inter = Append(resp[c].inter, l)] \in Responses
    BY <1>1, <2>2 DEF Responses
  <2> QED
    BY <1>1, <1>3, <2>1, <2>3 DEF Responses
<1>4. CASE IsFinal(c, l) /\ HandleFinalResponse(c, l) /\ UNCHANGED urcs
  <2>1. resp' = [resp EXCEPT ![c] = [resp[c] EXCEPT !.final = l]]
    BY <1>4 DEF HandleFinalResponse
  <2>2. [resp[c] EXCEPT !.final = l] \in Responses
    BY <1>1 DEF Responses
  <2> QED
    BY <1>1, <1>4, <2>1, <2>2 DEF HandleFinalResponse, SignalSender, Responses
<1>5. CASE HandleUnsolicited(l) /\ UNCHANGED << resp, signalled >>
  <2>1. urcs' \in Seq(Lines)
    BY <1>5, ListTyped DEF HandleUnsolicited
  <2> QED
    BY <1>5, <2>1
<1> QED
  BY <1>2, <1>3, <1>4, <1>5 DEF SortLine

(* The lines the modem may send. *)
LEMMA ModemLinesTyped ==
  /\ \A c \in Commands : MostLines(c) <= MaxLines
  /\ \A c \in Commands, t \in {"ACK", "OK", "CME_ERROR", "0", "4"} : Line(t, c, 0) \in Lines
  /\ \A c \in Commands, n \in 0 .. MaxLines :
       Line("DIGITS", c, n) \in Lines /\ Line(Prefix[c], c, n) \in Lines
  /\ \A u \in Urcs : Line(UrcText[u], u, 0) \in Lines /\ Line("PDU", u, 0) \in Lines
<1>1. MaxLines \in Nat \ {0} /\ 0 \in 0 .. MaxLines
  BY ChannelAssumption
<1>2. /\ {"ACK", "OK", "CME_ERROR", "0", "4", "DIGITS", "PDU"} \subseteq Texts
      /\ \A c \in Commands : Prefix[c] \in Texts
      /\ \A u \in Urcs : UrcText[u] \in Texts
  BY DEF Texts, FinalSuccess, FinalErrors, Digits, Prefixes
<1>3. \A t \in Texts, s \in Commands \cup Urcs, n \in 0 .. MaxLines : Line(t, s, n) \in Lines
  BY DEF Line, Lines
<1> QED
  BY <1>1, <1>2, <1>3 DEF MostLines

(* The end of atSendCommandFull keeps the types. *)
LEMMA ReturnTyped ==
  ASSUME TypeOK, NEW c \in Commands, NEW r \in Outcomes, Return(c, r)
  PROVE  /\ m_response' \in Commands \cup {None} /\ outcome' \in [Commands -> Outcomes]
         /\ sender' = [pc |-> "idle", cmd |-> None] /\ commandMutex' = "free"
BY DEF TypeOK, Return

(* A step of the sender keeps the types. *)
LEMMA SenderType ==
  ASSUME TypeOK, ThreadsApart, sender.pc # "idle" => sender.cmd \in Commands, UNCHANGED inst,
         Sender \/ TimeOut \/ \E c \in Commands : AtSendCommand(c)
  PROVE  TypeOK'
<1> USE DEF modemVars, rankVars
<1>1. ASSUME NEW c \in Commands, AtSendCommand(c) PROVE TypeOK'
  <2>1. outcome' \in [Commands -> Outcomes]
    BY <1>1 DEF AtSendCommand, TypeOK, Outcomes
  <2>2. /\ sender' = sender \/ sender' = [pc |-> "lock", cmd |-> c]
        /\ sender.pc = "idle" /\ sender'.pc \in {"idle", "lock"}
    BY <1>1 DEF AtSendCommand
  <2>3. commandMutex' = IF reader'.pc = "process" THEN "reader" ELSE "free"
    BY <1>1, <2>2 DEF AtSendCommand, TypeOK
  <2>4. sender' \in SenderStates
    BY <2>2 DEF TypeOK, SenderStates
  <2>5. sender'.pc \notin {"publish", "exited"}
    BY <2>2
  <2>6. UNCHANGED << pty, closed, toModem, lines, modemAcked, urcSent, smsHalf, mdOff, acked,
                     written, rank, signalled, m_response, resp, reader, urcs, trm >>
    BY <1>1 DEF AtSendCommand
  <2> QED
    BY <2>1, <2>3, <2>4, <2>5, <2>6 DEF TypeOK, SenderStates
<1>2. ASSUME WriteLine PROVE TypeOK'
  <2>1. sender.pc = "lock" /\ sender.cmd \in Commands /\ commandMutex = "free"
    BY <1>2 DEF WriteLine
  <2>2. CASE Return(sender.cmd, "GENERIC") /\ UNCHANGED << toModem, rankVars >>
    <3>1. "GENERIC" \in Outcomes
      BY DEF Outcomes
    <3>2. /\ m_response' \in Commands \cup {None} /\ outcome' \in [Commands -> Outcomes]
          /\ sender' = [pc |-> "idle", cmd |-> None] /\ commandMutex' = "free"
      BY <2>1, <2>2, <3>1, ReturnTyped
    <3> QED
      BY <1>2, <2>1, <2>2, <3>2 DEF WriteLine, TypeOK
  <2>3. CASE /\ Write(sender.cmd) /\ commandMutex' = "sender"
             /\ sender' = [pc |-> "publish", cmd |-> sender.cmd]
             /\ UNCHANGED << outcome, m_response >>
    <3>1. toModem' \in Seq(Commands)
      BY <2>1, <2>3, ListTyped DEF Write, TypeOK
    <3>2. written' \in Nat /\ rank' \in [Commands -> 0 .. written']
      BY <2>1, <2>3 DEF Write, TypeOK
    <3> QED
      BY <1>2, <2>1, <2>3, <3>1, <3>2 DEF WriteLine, TypeOK
  <2> QED
    BY <1>2, <2>2, <2>3 DEF WriteLine
<1>3. ASSUME Publish PROVE TypeOK'
  BY <1>3 DEF Publish, TypeOK, ThreadsApart
<1>4. ASSUME Wake PROVE TypeOK'
  <2> DEFINE c == sender.cmd
  <2>1. c \in Commands /\ sender.pc = "wait" /\ commandMutex = "free"
    BY <1>4 DEF Wake
  <2>2. CASE Return(c, Result(c)) /\ UNCHANGED << resp, acked >>
    <3>1. Result(c) \in Outcomes
      BY DEF Result, Outcomes
    <3>2. /\ m_response' \in Commands \cup {None} /\ outcome' \in [Commands -> Outcomes]
          /\ sender' = [pc |-> "idle", cmd |-> None] /\ commandMutex' = "free"
      BY <2>1, <2>2, <3>1, ReturnTyped
    <3> QED
      BY <1>4, <2>1, <2>2, <3>2 DEF Wake, TypeOK
  <2>3. CASE /\ resp' = [resp EXCEPT ![c].ack = FALSE]
             /\ acked' = IF resp[c].ack THEN acked \cup {c} ELSE acked
             /\ UNCHANGED << sender, outcome, m_response, commandMutex >>
    <3>1. resp[c] \in Responses
      BY <2>1 DEF TypeOK, Responses
    <3>2. [resp[c] EXCEPT !.ack = FALSE] \in Responses
      BY <3>1 DEF Responses
    <3>3. resp' \in [Commands -> Responses]
      BY <2>3, <3>2 DEF TypeOK, Responses
    <3>4. acked' \subseteq Commands
      BY <2>1, <2>3 DEF TypeOK
    <3> QED
      BY <1>4, <2>3, <3>3, <3>4 DEF Wake, TypeOK, Responses
  <2> QED
    BY <1>4, <2>2, <2>3 DEF Wake
<1>5. ASSUME TimeOut PROVE TypeOK'
  BY <1>5 DEF TimeOut, TypeOK
<1>6. ASSUME ReturnTimeout PROVE TypeOK'
  <2>1. sender.cmd \in Commands /\ sender.pc = "timedout" /\ commandMutex = "free"
    BY <1>6 DEF ReturnTimeout
  <2>2. CASE Return(sender.cmd, "TIMEOUT") /\ trm' = TRUE /\ UNCHANGED reader
    <3>1. "TIMEOUT" \in Outcomes
      BY DEF Outcomes
    <3>2. /\ m_response' \in Commands \cup {None} /\ outcome' \in [Commands -> Outcomes]
          /\ sender' = [pc |-> "idle", cmd |-> None] /\ commandMutex' = "free"
      BY <2>1, <2>2, <3>1, ReturnTyped
    <3> QED
      BY <1>6, <2>1, <2>2, <3>2 DEF ReturnTimeout, TypeOK
  <2>3. CASE /\ m_response' = None /\ commandMutex' = "sender"
             /\ sender' = [pc |-> "exited", cmd |-> sender.cmd]
             /\ reader' \in {reader, [pc |-> "aborted", line |-> NoLine]}
             /\ UNCHANGED << outcome, trm >>
    <3>1. sender' \in SenderStates /\ sender'.pc = "exited"
      BY <2>1, <2>3 DEF SenderStates
    <3>2. reader' \in ReaderStates
      BY <2>3 DEF TypeOK, ReaderStates
    <3>3. UNCHANGED << pty, closed, toModem, lines, modemAcked, urcSent, smsHalf, mdOff, acked,
                       written, rank, signalled, resp, urcs, outcome, trm >>
      BY <1>6, <2>3 DEF ReturnTimeout
    <3> QED
      BY <2>3, <3>1, <3>2, <3>3 DEF TypeOK, SenderStates, ReaderStates
  <2> QED
    BY <1>6, <2>2, <2>3 DEF ReturnTimeout
<1> QED
  BY <1>1, <1>2, <1>3, <1>4, <1>5, <1>6 DEF Sender

(* A step of the reader keeps the types. *)
LEMMA ReaderType ==
  ASSUME TypeOK, ThreadsApart, UNCHANGED inst, Reader
  PROVE  TypeOK'
<1> USE DEF modemVars, senderVars, rankVars
<1>1. pty # << >> => Head(pty) \in Lines /\ Tail(pty) \in Seq(Lines)
  BY ListTyped DEF TypeOK
<1>2. ASSUME ReadLine PROVE TypeOK'
  <2>1. /\ Head(pty) \in Lines /\ pty' \in Seq(Lines) /\ reader.pc = "read"
        /\ reader' = [pc |-> IF IsSMSUnsolicited(Head(pty)) THEN "sms" ELSE "lock",
                      line |-> Head(pty)]
    BY <1>1, <1>2 DEF ReadLine, Readline
  <2>2. reader' \in ReaderStates /\ reader'.pc \in {"sms", "lock"}
    BY <2>1 DEF ReaderStates
  <2>3. UNCHANGED << closed, toModem, lines, modemAcked, urcSent, smsHalf, mdOff, commandMutex,
                     sender, outcome, acked, written, rank, signalled, m_response, resp, urcs, trm >>
    BY <1>2 DEF ReadLine
  <2> QED
    BY <2>1, <2>2, <2>3 DEF TypeOK, ReaderStates
<1>3. ASSUME ReadSecondLine PROVE TypeOK'
  <2>1. pty' \in Seq(Lines) /\ reader.pc = "sms" /\ reader.line \in Lines
    BY <1>1, <1>3 DEF ReadSecondLine, Readline, ThreadsApart
  <2>2. urcs' \in Seq(Lines)
    <3>1. urcs' = Append(urcs, reader.line) /\ urcs \in Seq(Lines)
      BY <1>3 DEF ReadSecondLine, HandleUnsolicited, TypeOK
    <3> QED
      BY <3>1, <2>1, ListTyped
  <2> QED
    BY <1>3, <2>1, <2>2 DEF ReadSecondLine, TypeOK
<1>4. ASSUME ReadEof PROVE TypeOK'
  BY <1>4 DEF ReadEof, TypeOK
<1>5. ASSUME ReaderLock PROVE TypeOK'
  BY <1>5 DEF ReaderLock, TypeOK
<1>6. ASSUME ProcessLine PROVE TypeOK'
  <2>1. reader.pc = "process" /\ reader.line \in Lines
    BY <1>6 DEF ProcessLine, ThreadsApart
  <2>2. /\ resp' \in [Commands -> Responses] /\ urcs' \in Seq(Lines) /\ signalled' \in BOOLEAN
    <3>1. resp \in [Commands -> Responses] /\ urcs \in Seq(Lines) /\ signalled \in BOOLEAN
      BY DEF TypeOK, Responses
    <3>2. CASE m_response = None /\ HandleUnsolicited(reader.line) /\ UNCHANGED << resp, signalled >>
      <4>1. urcs' \in Seq(Lines)
        BY <2>1, <3>1, <3>2, ListTyped DEF HandleUnsolicited
      <4> QED
        BY <3>1, <3>2, <4>1
    <3>3. CASE m_response # None /\ SortLine(m_response, reader.line)
      <4>1. m_response \in Commands
        BY <3>3 DEF TypeOK
      <4> QED
        BY <2>1, <3>1, <3>3, <4>1, SortLineFacts
    <3> QED
      BY <1>6, <3>2, <3>3 DEF ProcessLine
  <2>3. sender.pc \notin {"publish", "exited"}
    BY <2>1 DEF ThreadsApart
  <2> QED
    BY <1>6, <2>1, <2>2, <2>3 DEF ProcessLine, TypeOK, Responses
<1> QED
  BY <1>2, <1>3, <1>4, <1>5, <1>6 DEF Reader

\* The types of the modem's variables, and those of the others
ModemTyped ==
  /\ pty \in Seq(Lines) /\ closed \in BOOLEAN /\ mdOff \in BOOLEAN
  /\ toModem \in Seq(Commands) /\ lines \in [Commands -> 0 .. MaxLines]
  /\ modemAcked \subseteq Commands /\ urcSent \subseteq Urcs /\ smsHalf \in Urcs \cup {None}

(* A step that types the modem's variables and leaves the others alone. *)
LEMMA TypeParts ==
  /\ TypeOK => ModemTyped
  /\ TypeOK /\ EnvUnchanged /\ ModemTyped' => TypeOK'
<1>1. TypeOK => ModemTyped
  BY DEF TypeOK, ModemTyped
<1>2. ASSUME TypeOK, EnvUnchanged, ModemTyped' PROVE TypeOK'
  <2>1. UNCHANGED << commandMutex, sender, outcome, acked, written, rank, signalled,
                     m_response, resp, reader, urcs, trm >>
    BY <1>2 DEF EnvUnchanged, senderVars, rankVars
  <2>2. /\ urcs \in Seq(Lines) /\ signalled \in BOOLEAN /\ trm \in BOOLEAN
        /\ acked \subseteq Commands
        /\ sender \in [pc : {"idle", "lock", "publish", "wait", "timedout", "exited"},
                       cmd : Commands \cup {None}]
        /\ reader \in [pc : {"read", "sms", "lock", "process", "stopped", "aborted"},
                       line : Lines \cup {NoLine}]
        /\ m_response \in Commands \cup {None}
        /\ written \in Nat /\ rank \in [Commands -> 0 .. written]
        /\ resp \in [Commands -> [inter : Seq(Lines), ack : BOOLEAN, final : Lines \cup {NoLine}]]
        /\ outcome \in [Commands -> Outcomes]
        /\ commandMutex = IF sender.pc \in {"publish", "exited"} THEN "sender"
                          ELSE IF reader.pc = "process" THEN "reader" ELSE "free"
    BY <1>2 DEF TypeOK
  <2>3. /\ urcs' \in Seq(Lines) /\ signalled' \in BOOLEAN /\ trm' \in BOOLEAN
        /\ acked' \subseteq Commands /\ sender' \in SenderStates /\ reader' \in ReaderStates
        /\ m_response' \in Commands \cup {None}
        /\ written' \in Nat /\ rank' \in [Commands -> 0 .. written']
        /\ resp' \in [Commands -> Responses] /\ outcome' \in [Commands -> Outcomes]
        /\ commandMutex' = IF sender'.pc \in {"publish", "exited"} THEN "sender"
                           ELSE IF reader'.pc = "process" THEN "reader" ELSE "free"
    BY <2>1, <2>2 DEF SenderStates, ReaderStates, Responses
  <2> QED
    BY <1>2, <2>3 DEF TypeOK, ModemTyped, SenderStates, ReaderStates, Responses
<1> QED
  BY <1>1, <1>2

(* A step of the modem keeps the types. *)
LEMMA ModemType ==
  ASSUME TypeOK, inst \in Instances, UNCHANGED inst, Modem
  PROVE  TypeOK'
<1> SUFFICES ModemTyped' /\ EnvUnchanged
  BY TypeParts
<1> ModemTyped
  BY TypeParts
<1>1. toModem # << >> => Head(toModem) \in Commands /\ Tail(toModem) \in Seq(Commands)
  BY ListTyped DEF ModemTyped
<1>2. ASSUME NEW l \in Lines, ModemWrites(l) PROVE pty' \in Seq(Lines)
  BY <1>2, ListTyped DEF ModemWrites, ModemTyped
<1>3. ASSUME ModemAck PROVE ModemTyped' /\ EnvUnchanged
  <2>1. toModem # << >> /\ ModemWrites(Line("ACK", Head(toModem), 0))
        /\ modemAcked' = modemAcked \cup {Head(toModem)}
    BY <1>3 DEF ModemAck, ModemSends
  <2>2. pty' \in Seq(Lines) /\ modemAcked' \subseteq Commands
    BY <1>1, <1>2, <2>1, ModemLinesTyped DEF ModemTyped
  <2> QED
    BY <1>3, <2>2 DEF ModemAck, ModemTyped
<1>4. ASSUME ModemLine PROVE ModemTyped' /\ EnvUnchanged
  <2> DEFINE c == Head(toModem)
  <2>1. /\ toModem # << >> /\ c \in Commands /\ lines[c] < MostLines(c)
        /\ lines' = [lines EXCEPT ![c] = lines[c] + 1]
        /\ ModemWrites(Line(IF Type[c] = "NUMERIC" THEN "DIGITS" ELSE Prefix[c],
                            c, lines[c] + 1))
    BY <1>1, <1>4 DEF ModemLine, ModemSends
  <2> HIDE DEF c
  <2>2. lines[c] \in 0 .. MaxLines /\ MostLines(c) <= MaxLines /\ MostLines(c) \in Nat
        /\ MaxLines \in Nat
    BY <2>1, ModemLinesTyped, ChannelAssumption DEF ModemTyped, MostLines
  <2>3. lines[c] + 1 \in 0 .. MaxLines
    BY <2>1, <2>2
  <2>4. pty' \in Seq(Lines)
    BY <1>2, <2>1, <2>3, ModemLinesTyped
  <2>5. lines' \in [Commands -> 0 .. MaxLines]
    BY <2>1, <2>3 DEF ModemTyped
  <2>6. /\ UNCHANGED << closed, toModem, modemAcked, urcSent, smsHalf, mdOff >>
        /\ EnvUnchanged
    BY <1>4 DEF ModemLine
  <2> QED
    BY <2>4, <2>5, <2>6 DEF ModemTyped
<1>5. ASSUME ModemFinal PROVE ModemTyped' /\ EnvUnchanged
  <2>1. PICK t \in {"OK", "CME_ERROR", "0", "4"} : ModemWrites(Line(t, Head(toModem), 0))
    BY <1>5 DEF ModemFinal, ModemSends
  <2>2. toModem # << >> /\ toModem' = Tail(toModem)
    BY <1>5 DEF ModemFinal
  <2>3. pty' \in Seq(Lines) /\ toModem' \in Seq(Commands)
    BY <1>1, <1>2, <2>1, <2>2, ModemLinesTyped
  <2> QED
    BY <1>5, <2>3 DEF ModemFinal, ModemTyped
<1>6. ASSUME NEW u \in inst.urcs, ModemUrc(u) PROVE ModemTyped' /\ EnvUnchanged
  <2>1. u \in Urcs /\ ModemWrites(Line(UrcText[u], u, 0))
    BY <1>6, ChannelAssumption DEF ModemUrc, ModemSends
  <2>2. pty' \in Seq(Lines) /\ smsHalf' \in Urcs \cup {None} /\ urcSent' \subseteq Urcs
    BY <1>2, <1>6, <2>1, ModemLinesTyped DEF ModemUrc, ModemTyped
  <2>3. UNCHANGED << closed, toModem, lines, modemAcked, mdOff >> /\ EnvUnchanged
    BY <1>6 DEF ModemUrc
  <2> QED
    BY <2>2, <2>3 DEF ModemTyped
<1>7. ASSUME ModemSecondLine PROVE ModemTyped' /\ EnvUnchanged
  <2>1. smsHalf \in Urcs /\ ModemWrites(Line("PDU", smsHalf, 0))
    BY <1>7 DEF ModemSecondLine, ModemTyped
  <2>2. pty' \in Seq(Lines)
    BY <1>2, <2>1, ModemLinesTyped
  <2>3. /\ UNCHANGED << closed, toModem, lines, modemAcked, urcSent, mdOff >>
        /\ EnvUnchanged /\ smsHalf' = None
    BY <1>7 DEF ModemSecondLine
  <2> QED
    BY <2>2, <2>3 DEF ModemTyped
<1>8. ASSUME ModemPowerOff \/ CloseChannel PROVE ModemTyped' /\ EnvUnchanged
  BY <1>8 DEF ModemPowerOff, CloseChannel, ModemTyped
<1> QED
  BY <1>3, <1>4, <1>5, <1>6, <1>7, <1>8 DEF Modem

(* The mutex keeps the threads apart. *)
LEMMA ApartStep ==
  ASSUME TypeOK, ThreadsApart, inst \in Instances, [Next]_vars
  PROVE  ThreadsApart'
<1> USE DEF senderVars, rankVars, EnvUnchanged
<1>1. ASSUME Sender \/ TimeOut \/ \E c \in Commands : AtSendCommand(c) PROVE ThreadsApart'
  <2>1. /\ \/ UNCHANGED reader \/ reader' = [pc |-> "aborted", line |-> NoLine]
        /\ \/ sender'.pc \notin {"publish", "exited"} \/ UNCHANGED sender
           \/ commandMutex = "free"
    BY <1>1 DEF Sender, TimeOut, AtSendCommand, WriteLine, Publish, Wake, ReturnTimeout, Return
  <2> QED
    BY <2>1 DEF ThreadsApart, TypeOK
<1>2. ASSUME Reader PROVE ThreadsApart'
  <2>1. UNCHANGED sender
    BY <1>2 DEF Reader, ReadLine, ReadSecondLine, ReadEof, ReaderLock, ProcessLine
  <2>2. pty # << >> => Head(pty) \in Lines
    BY ListTyped DEF TypeOK
  <2>3. CASE ReadLine
    BY <2>2, <2>3 DEF ReadLine, Readline, ThreadsApart
  <2>4. CASE ReaderLock
    BY <2>1, <2>4 DEF ReaderLock, ThreadsApart, TypeOK
  <2>5. CASE ReadSecondLine \/ ReadEof \/ ProcessLine
    BY <2>5 DEF ReadSecondLine, ReadEof, ProcessLine, ThreadsApart
  <2> QED
    BY <1>2, <2>3, <2>4, <2>5 DEF Reader
<1>3. ASSUME Modem PROVE ThreadsApart'
  BY <1>3 DEF Modem, ModemAck, ModemLine, ModemFinal, ModemSecondLine, ModemUrc,
              ModemPowerOff, CloseChannel, ThreadsApart
<1>4. ASSUME UNCHANGED vars PROVE ThreadsApart'
  BY <1>4 DEF vars, ThreadsApart
<1> QED
  <2>1. inst.commands \subseteq Commands
    BY ChannelAssumption
  <2> QED
    BY <1>1, <1>2, <1>3, <1>4, <2>1 DEF Next, Steps
-----------------------------------------------------------------------------
(* The sender *)

\* A step of the sender thread, its wait included
SenderSteps == Sender \/ TimeOut \/ \E c \in Commands : AtSendCommand(c)

(* A step of the sender writes the command it has, or writes nothing; it leaves
   the lines of every response alone. *)
LEMMA SenderFacts ==
  ASSUME TypeOK, CommandTracked, SenderSteps
  PROVE  /\ UNCHANGED << pty, smsHalf >>
         /\ UNCHANGED reader \/ reader' = [pc |-> "aborted", line |-> NoLine]
         /\ \A c \in Commands : resp'[c].inter = resp[c].inter /\ resp'[c].final = resp[c].final
         /\ \/ UNCHANGED << written, rank, toModem >>
            \/ /\ Write(sender.cmd) /\ sender.pc = "lock" /\ UNCHANGED << resp, outcome >>
               /\ sender' = [pc |-> "publish", cmd |-> sender.cmd]
               /\ sender.cmd \in Commands /\ rank[sender.cmd] = 0
<1> USE DEF modemVars, rankVars
<1>1. ASSUME NEW c \in Commands, AtSendCommand(c) 
      PROVE  UNCHANGED << pty, smsHalf, reader, resp, written, rank, toModem >>
  BY <1>1 DEF AtSendCommand
<1>2. CASE WriteLine
  <2>1. sender.pc = "lock" /\ sender.cmd \in Commands /\ UNCHANGED << pty, smsHalf, reader, resp >>
    BY <1>2 DEF WriteLine, CommandTracked
  <2>2. rank[sender.cmd] = 0
    BY <2>1 DEF CommandTracked, OutPcs
  <2> QED
    BY <1>2, <2>1, <2>2 DEF WriteLine
<1>3. CASE Publish \/ TimeOut \/ ReturnTimeout
  BY <1>3 DEF Publish, TimeOut, ReturnTimeout
<1>4. CASE Wake
  <2>1. UNCHANGED << pty, smsHalf, reader, written, rank, toModem >>
    BY <1>4 DEF Wake
  <2>2. resp' = resp \/ resp' = [resp EXCEPT ![sender.cmd].ack = FALSE]
    BY <1>4 DEF Wake
  <2>3. \A c \in Commands : resp'[c].inter = resp[c].inter /\ resp'[c].final = resp[c].final
    <3>1. resp \in [Commands -> Responses]
      BY DEF TypeOK, Responses
    <3>2. CASE resp' = [resp EXCEPT ![sender.cmd].ack = FALSE]
      <4>1. resp' = [resp EXCEPT ![sender.cmd] = [resp[sender.cmd] EXCEPT !.ack = FALSE]]
        BY <3>2
      <4> QED
        BY <3>1, <4>1 DEF Responses
    <3> QED
      BY <2>2, <3>2
  <2> QED
    BY <2>1, <2>3
<1> QED
  BY <1>1, <1>2, <1>3, <1>4 DEF SenderSteps, Sender

(* An outcome other than a time-out leaves the set of those that timed out. *)
LEMMA TimedOutKept ==
  ASSUME TypeOK, NEW c \in Commands, outcome[c] = "none",
         NEW r, outcome' = [outcome EXCEPT ![c] = r]
  PROVE  /\ r # "TIMEOUT" => TimedOut' = TimedOut
         /\ r = "TIMEOUT" => TimedOut' = TimedOut \cup {c} /\ c \notin TimedOut
BY DEF TypeOK, TimedOut

(* Where the current command is, every other one that was written has an outcome. *)
LEMMA SenderTracks ==
  ASSUME TypeOK, TypeOK', CommandTracked, SenderSteps
  PROVE  CommandTracked'
<1> USE DEF modemVars, rankVars, OutPcs
<1>0. \A c \in Commands : resp'[c].inter = resp[c].inter /\ resp'[c].final = resp[c].final
  BY SenderFacts
<1>1. ASSUME NEW c \in Commands, AtSendCommand(c) PROVE CommandTracked'
  <2>1. /\ sender.pc = "idle" /\ outcome[c] = "none"
        /\ UNCHANGED << m_response, resp, written, rank >>
    BY <1>1 DEF AtSendCommand
  <2>2. CASE outcome' = [outcome EXCEPT ![c] = "RADIO_UNAVAILABLE"] /\ UNCHANGED sender
    BY <2>1, <2>2 DEF CommandTracked, TypeOK
  <2>3. CASE sender' = [pc |-> "lock", cmd |-> c] /\ UNCHANGED outcome
    BY <2>1, <2>3 DEF CommandTracked
  <2> QED
    BY <1>1, <2>2, <2>3 DEF AtSendCommand
<1>2. ASSUME WriteLine PROVE CommandTracked'
  <2>1. /\ sender.pc = "lock" /\ sender.cmd \in Commands /\ outcome[sender.cmd] = "none"
        /\ rank[sender.cmd] = 0 /\ m_response = None /\ UNCHANGED resp
    BY <1>2 DEF WriteLine, CommandTracked
  <2>2. CASE Return(sender.cmd, "GENERIC") /\ UNCHANGED << toModem, rankVars >>
    BY <2>1, <2>2 DEF Return, CommandTracked, TypeOK
  <2>3. CASE /\ Write(sender.cmd) /\ sender' = [pc |-> "publish", cmd |-> sender.cmd]
             /\ UNCHANGED << outcome, m_response >>
    <3>1. /\ written' = written + 1 /\ written \in Nat
          /\ \A c \in Commands : rank'[c] = IF c = sender.cmd THEN written + 1 ELSE rank[c]
      BY <2>3 DEF Write, TypeOK
    <3> QED
      BY <2>1, <2>3, <3>1 DEF CommandTracked
  <2> QED
    BY <1>2, <2>2, <2>3 DEF WriteLine
<1>3. ASSUME Publish \/ TimeOut PROVE CommandTracked'
  BY <1>3 DEF Publish, TimeOut, CommandTracked, TypeOK
<1>4. ASSUME Wake PROVE CommandTracked'
  <2>1. /\ sender.pc = "wait" /\ sender.cmd \in Commands /\ outcome[sender.cmd] = "none"
        /\ UNCHANGED << written, rank >>
    BY <1>4 DEF Wake, CommandTracked
  <2>2. CASE Return(sender.cmd, Result(sender.cmd))
    <3>1. Result(sender.cmd) # "none"
      BY DEF Result
    <3> QED
      BY <1>0, <2>1, <2>2, <3>1 DEF Return, CommandTracked, TypeOK
  <2>3. CASE UNCHANGED << sender, outcome, m_response >>
    BY <1>0, <2>1, <2>3 DEF CommandTracked
  <2> QED
    BY <1>4, <2>2, <2>3 DEF Wake
<1>5. ASSUME ReturnTimeout PROVE CommandTracked'
  <2>1. /\ sender.pc = "timedout" /\ sender.cmd \in Commands /\ outcome[sender.cmd] = "none"
        /\ UNCHANGED << written, rank >>
    BY <1>5 DEF ReturnTimeout, CommandTracked
  <2>2. CASE Return(sender.cmd, "TIMEOUT")
    BY <1>0, <2>1, <2>2 DEF Return, CommandTracked, TypeOK
  <2>3. CASE /\ m_response' = None /\ sender' = [pc |-> "exited", cmd |-> sender.cmd]
             /\ UNCHANGED outcome
    BY <1>0, <2>1, <2>3 DEF CommandTracked
  <2> QED
    BY <1>5, <2>2, <2>3 DEF ReturnTimeout
<1> QED
  BY <1>1, <1>2, <1>3, <1>4, <1>5 DEF SenderSteps, Sender

(* There are as many answers outstanding as the slack allows, or none. *)
LEMMA SlackType ==
  /\ IsFiniteSet(TimedOut) => Slack \in Nat /\ Cardinality(TimedOut) \in Nat
  /\ IsFiniteSet(TimedOut') => Slack' \in Nat /\ Cardinality(TimedOut') \in Nat
BY FS_CardinalityType DEF Slack

(* A command the sender writes is answered for by the slack; a command it gives
   up has timed out. *)
LEMMA SenderSlack ==
  ASSUME TypeOK, TypeOK', CommandTracked, IsFiniteSet(TimedOut), SenderSteps
  PROVE  /\ IsFiniteSet(TimedOut')
         /\ Cardinality(TimedOut) <= Cardinality(TimedOut')
         /\ written' + Slack <= written + Slack'
<1> DEFINE n == Cardinality(TimedOut)
<1> USE DEF modemVars, rankVars, OutPcs
<1>n. n \in Nat /\ written \in Nat
  BY FS_CardinalityType DEF TypeOK
<1>f. \A c \in Commands : resp'[c].final = resp[c].final
  BY SenderFacts
<1>1. ASSUME TimedOut' = TimedOut, written' = written, Unanswered' <=> Unanswered
      PROVE  /\ IsFiniteSet(TimedOut') /\ n <= Cardinality(TimedOut')
             /\ written' + Slack <= written + Slack'
  BY <1>1, <1>n DEF Slack
<1>2. ASSUME NEW c \in Commands, AtSendCommand(c)
      PROVE  TimedOut' = TimedOut /\ written' = written /\ (Unanswered' <=> Unanswered)
  <2>1. sender.pc = "idle" /\ outcome[c] = "none" /\ sender'.pc \in {"idle", "lock"}
        /\ written' = written
    BY <1>2 DEF AtSendCommand
  <2>2. TimedOut' = TimedOut
    BY <1>2, <2>1, TimedOutKept DEF AtSendCommand, TimedOut
  <2> QED
    BY <2>1, <2>2 DEF Unanswered
<1>3. CASE WriteLine
  <2>1. /\ sender.pc = "lock" /\ sender.cmd \in Commands /\ outcome[sender.cmd] = "none"
        /\ resp[sender.cmd].final = NoLine
    BY <1>3 DEF WriteLine, CommandTracked
  <2>2. CASE Return(sender.cmd, "GENERIC") /\ UNCHANGED << toModem, rankVars >>
    <3>1. TimedOut' = TimedOut
      BY <2>1, <2>2, TimedOutKept DEF Return
    <3>2. Unanswered' <=> Unanswered
      BY <2>1, <2>2 DEF Return, Unanswered
    <3> QED
      BY <1>1, <2>2, <3>1, <3>2
  <2>3. CASE /\ Write(sender.cmd) /\ sender' = [pc |-> "publish", cmd |-> sender.cmd]
             /\ UNCHANGED outcome
    <3>1. TimedOut' = TimedOut /\ written' = written + 1
      BY <2>3 DEF Write, TimedOut
    <3>2. Unanswered' /\ ~Unanswered
      BY <1>f, <2>1, <2>3 DEF Unanswered, NoLine
    <3>3. Slack = n /\ Slack' = n + 1
      BY <3>1, <3>2, <1>n DEF Slack
    <3> QED
      BY <1>n, <3>1, <3>3
  <2> QED
    BY <1>3, <2>2, <2>3 DEF WriteLine
<1>4. ASSUME Publish \/ TimeOut
      PROVE  TimedOut' = TimedOut /\ written' = written /\ (Unanswered' <=> Unanswered)
  BY <1>4 DEF Publish, TimeOut, TimedOut, Unanswered
<1>5. ASSUME Wake
      PROVE  TimedOut' = TimedOut /\ written' = written /\ (Unanswered' <=> Unanswered)
  <2>1. /\ sender.pc = "wait" /\ sender.cmd \in Commands /\ outcome[sender.cmd] = "none"
        /\ written' = written
    BY <1>5 DEF Wake, CommandTracked
  <2>2. CASE Return(sender.cmd, Result(sender.cmd)) /\ resp[sender.cmd].final # NoLine
    <3>0. Result(sender.cmd) # "TIMEOUT"
      BY DEF Result
    <3>1. TimedOut' = TimedOut
      BY <2>1, <2>2, <3>0, TimedOutKept DEF Return
    <3>2. ~Unanswered' /\ ~Unanswered
      BY <2>1, <2>2 DEF Return, Unanswered
    <3> QED
      BY <2>1, <3>1, <3>2
  <2>3. CASE UNCHANGED << sender, outcome >>
    BY <1>f, <2>1, <2>3 DEF Unanswered, TimedOut, NoLine
  <2> QED
    BY <1>5, <2>2, <2>3 DEF Wake
<1>6. CASE ReturnTimeout
  <2>1. /\ sender.pc = "timedout" /\ sender.cmd \in Commands /\ outcome[sender.cmd] = "none"
        /\ written' = written
    BY <1>6 DEF ReturnTimeout, CommandTracked
  <2>2. CASE Return(sender.cmd, "TIMEOUT")
    <3>1. TimedOut' = TimedOut \cup {sender.cmd} /\ sender.cmd \notin TimedOut
      BY <2>1, <2>2, TimedOutKept DEF Return
    <3>2. IsFiniteSet(TimedOut') /\ Cardinality(TimedOut') = n + 1
      BY <3>1, FS_AddElement
    <3>3. Slack <= n + 1 /\ Slack' = n + 1 /\ Slack \in Nat
      BY <1>n, <2>2, <3>2 DEF Slack, Return, Unanswered
    <3> QED
      BY <1>n, <2>1, <3>2, <3>3
  <2>3. CASE sender' = [pc |-> "exited", cmd |-> sender.cmd] /\ UNCHANGED outcome
    <3>1. TimedOut' = TimedOut
      BY <2>3 DEF TimedOut
    <3>2. Unanswered' <=> Unanswered
      BY <1>f, <2>1, <2>3 DEF Unanswered, NoLine
    <3> QED
      BY <1>1, <2>1, <3>1, <3>2
  <2> QED
    BY <1>6, <2>2, <2>3 DEF ReturnTimeout
<1> QED
  BY <1>1, <1>2, <1>3, <1>4, <1>5, <1>6 DEF SenderSteps, Sender

(* What was in step stays in step: no command is numbered twice. *)
LEMMA SenderAnswers ==
  ASSUME TypeOK, TypeOK', CommandTracked, IsFiniteSet(TimedOut), AnswersOwnCommand,
         UNCHANGED inst, SenderSteps
  PROVE  AnswersOwnCommand'
<1>1. \A c \in Commands : resp'[c].inter = resp[c].inter /\ resp'[c].final = resp[c].final
  BY SenderFacts
<1>2. \A c \in Commands : rank[c] # 0 => rank'[c] = rank[c]
  BY SenderFacts DEF Write, TypeOK
<1>3. /\ Cardinality(TimedOut) <= Cardinality(TimedOut')
      /\ Cardinality(TimedOut) \in Nat /\ Cardinality(TimedOut') \in Nat
  BY SenderSlack, SlackType
<1>4. \A c, s \in Commands : InStep(c, s) => InStep(c, s)'
  <2> SUFFICES ASSUME NEW c \in Commands, NEW s \in Commands, InStep(c, s) PROVE InStep(c, s)'
    OBVIOUS
  <2>0. rank[s] \in Nat /\ rank[c] \in Nat
    BY DEF TypeOK
  <2>1. rank[s] # 0 /\ rank[c] # 0
    BY <2>0 DEF InStep
  <2> QED
    BY <1>2, <1>3, <2>0, <2>1 DEF InStep
<1>5. \A c \in Commands, u \in Urcs : LooksLikeAnswer(c, u)' <=> LooksLikeAnswer(c, u)
  BY DEF LooksLikeAnswer
<1> QED
  BY <1>1, <1>4, <1>5 DEF AnswersOwnCommand, NoLine

(* Numbers only grow: a line stays in its place when a command is numbered, and
   within the slack when that grows. *)
LEMMA RankKept ==
  ASSUME NEW rk, NEW rk2, \A d \in Commands : rk[d] # 0 => rk2[d] = rk[d]
  PROVE  /\ \A us, l : LineOk(us, rk, l) => LineOk(us, rk2, l)
         /\ \A us, l : \A s \in Commands : LineOk(us, rk, l) /\ rk[s] # 0 /\ Ahead(rk, l, s)
                                            => Ahead(rk2, l, s)
BY DEF LineOk, Ahead

(* The lines under way keep their order, and stay within the slack. *)
LEMMA SenderLines ==
  ASSUME TypeOK, TypeOK', CommandTracked, IsFiniteSet(TimedOut), LinesOk, InOrder, Recent,
         UNCHANGED inst, SenderSteps
  PROVE  LinesOk' /\ InOrder' /\ Recent'
<1>1. /\ UNCHANGED << pty, smsHalf >>
      /\ Held' => Held /\ UNCHANGED reader
  BY SenderFacts DEF Held
<1>2. /\ written' + Slack <= written + Slack' /\ Slack \in Nat /\ Slack' \in Nat
      /\ written \in Nat /\ written' \in Nat /\ \A d \in Commands : rank[d] \in Nat
  <2>1. written' + Slack <= written + Slack' /\ Slack \in Nat /\ Slack' \in Nat
    BY SenderSlack, SlackType
  <2>2. written \in Nat /\ \A d \in Commands : rank[d] \in Nat
    BY DEF TypeOK
  <2>3. written' \in Nat
    BY DEF TypeOK
  <2> QED
    BY <2>1, <2>2, <2>3
<1>3. ASSUME NEW d \in Commands, rank'[d] = rank[d], Outstanding(written, rank, Slack, d)
      PROVE  Outstanding(written', rank', Slack', d)
  <2>1. \A w, w2, k, k2, r \in Nat : w2 + k <= w + k2 /\ w < r + k => w2 < r + k2
    OBVIOUS
  <2>2. written < rank[d] + Slack
    BY <1>3 DEF Outstanding
  <2>3. written' < rank[d] + Slack'
    BY <1>2, <2>1, <2>2
  <2> QED
    BY <1>3, <2>3 DEF Outstanding
<1>4. \A i \in DOMAIN toModem : toModem[i] \in Commands /\ rank[toModem[i]] # 0
  BY DEF TypeOK, LinesOk
<1>5. CASE UNCHANGED << written, rank, toModem >>
  <2>1. LinesOk'
    BY <1>1, <1>5 DEF LinesOk
  <2>2. InOrder'
    BY <1>1, <1>5 DEF InOrder
  <2>3. Recent'
    BY <1>1, <1>3, <1>4, <1>5 DEF Recent
  <2> QED
    BY <2>1, <2>2, <2>3
<1>6. ASSUME NEW c \in Commands, c = sender.cmd, Write(c), rank[c] = 0
      PROVE  LinesOk' /\ InOrder' /\ Recent'
  <2>1. /\ \A d \in Commands : rank[d] # 0 => rank'[d] = rank[d] /\ rank[d] < rank'[c]
        /\ rank'[c] = written' /\ written' = written + 1 /\ rank'[c] # 0
    <3>1. written' = written + 1 /\ rank' = [rank EXCEPT ![c] = written + 1]
      BY <1>6 DEF Write
    <3>2. written \in Nat /\ rank \in [Commands -> 0 .. written]
      BY DEF TypeOK
    <3>3. /\ \A d \in Commands : d # c => rank'[d] = rank[d]
          /\ \A d \in Commands : rank[d] \in 0 .. written
          /\ rank'[c] = written + 1
      BY <3>1, <3>2
    <3> QED
      BY <1>6, <3>1, <3>2, <3>3
  <2>2. /\ toModem' = Append(toModem, c) /\ toModem \in Seq(Commands)
    BY <1>6 DEF Write, TypeOK
  <2>3. /\ Len(toModem) \in Nat /\ DOMAIN toModem = 1 .. Len(toModem)
        /\ DOMAIN toModem' = 1 .. Len(toModem) + 1
        /\ \A i \in DOMAIN toModem : toModem'[i] = toModem[i] /\ i < Len(toModem) + 1
        /\ \A i \in DOMAIN toModem' : i \in DOMAIN toModem \/ (i = Len(toModem) + 1 /\ toModem'[i] = c)
    BY <2>2
  <2>4. /\ \A us, l : LineOk(us, rank, l) => LineOk(us, rank', l)
        /\ \A us, l : \A s \in Commands : LineOk(us, rank, l) /\ rank[s] # 0 /\ Ahead(rank, l, s)
                                           => Ahead(rank', l, s)
    BY <2>1, RankKept
  <2>5. \A us, l : LineOk(us, rank, l) => Ahead(rank', l, c)
    BY <1>2, <2>1 DEF LineOk, Ahead
  <2>6. ASSUME NEW us, NEW l, LineOk(us, rank, l), AheadOfAll(rank, l, toModem)
        PROVE  AheadOfAll(rank', l, toModem')
    BY <1>4, <2>3, <2>4, <2>5, <2>6 DEF AheadOfAll
  <2>7. /\ \A i \in DOMAIN pty : LineOk(inst.urcs, rank, pty[i])
        /\ Held => LineOk(inst.urcs, rank, reader.line)
        /\ \A i \in DOMAIN pty : pty[i].from \in Commands => rank[pty[i].from] # 0
    BY DEF LinesOk, LineOk
  <2>8. LinesOk'
    <3>1. \A i \in DOMAIN toModem' : rank'[toModem'[i]] # 0
      BY <1>4, <2>1, <2>3
    <3> QED
      BY <1>1, <2>4, <3>1 DEF LinesOk
  <2>9. InOrder'
    <3>1. \A i, j \in DOMAIN pty : i < j /\ pty[j].from \in Commands => Ahead(rank', pty[i], pty[j].from)
      BY <2>4, <2>7 DEF InOrder
    <3>2. \A i \in DOMAIN pty : AheadOfAll(rank', pty[i], toModem')
      BY <2>6, <2>7 DEF InOrder
    <3>3. ASSUME NEW i \in DOMAIN toModem', NEW j \in DOMAIN toModem', i < j
          PROVE  rank'[toModem'[i]] < rank'[toModem'[j]]
      <4>1. i \in DOMAIN toModem
        BY <2>3, <3>3
      <4>2. CASE j \in DOMAIN toModem
        BY <1>4, <2>1, <2>3, <3>3, <4>1, <4>2 DEF InOrder
      <4>3. CASE toModem'[j] = c
        BY <1>4, <2>1, <2>3, <4>1, <4>3
      <4> QED
        BY <2>3, <4>2, <4>3
    <3>4. ASSUME Held
          PROVE  AheadOf(rank', reader.line, pty) /\ AheadOfAll(rank', reader.line, toModem')
      <4>1. AheadOf(rank, reader.line, pty) /\ AheadOfAll(rank, reader.line, toModem)
        BY <3>4 DEF InOrder
      <4>2. AheadOf(rank', reader.line, pty)
        BY <2>4, <2>7, <3>4, <4>1 DEF AheadOf
      <4> QED
        BY <2>6, <2>7, <3>4, <4>1, <4>2
    <3> QED
      BY <1>1, <3>1, <3>2, <3>3, <3>4 DEF InOrder
  <2>10. Recent'
    <3>1. \A d \in Commands : rank[d] # 0 /\ Outstanding(written, rank, Slack, d)
                                => Outstanding(written', rank', Slack', d)
      BY <1>3, <2>1
    <3>2. Outstanding(written', rank', Slack', c)
      BY <1>2, <2>1 DEF Outstanding
    <3>3. \A i \in DOMAIN pty : pty[i].from \in Commands => Outstanding(written', rank', Slack', pty[i].from)
      BY <2>7, <3>1 DEF Recent
    <3>4. \A i \in DOMAIN toModem' : Outstanding(written', rank', Slack', toModem'[i])
      BY <1>4, <2>3, <3>1, <3>2 DEF Recent
    <3>5. Held /\ reader.line.from \in Commands => Outstanding(written', rank', Slack', reader.line.from)
      BY <2>7, <3>1 DEF Recent, LineOk
    <3> QED
      BY <1>1, <3>3, <3>4, <3>5 DEF Recent
  <2> QED
    BY <2>8, <2>9, <2>10
<1> QED
  BY <1>5, <1>6, SenderFacts
-----------------------------------------------------------------------------
(* The reader *)

(* A line taken for the end of an answer is one: no URC of this channel looks
   like it, NO CARRIER on a URC channel included. *)
LEMMA FinalEnds ==
  ASSUME inst \in Instances, NEW c \in Commands, NEW l, LineOk(inst.urcs, rank, l), IsFinal(c, l)
  PROVE  EndsAnswer(l)
<1>1. l.text \in FinalTexts
  BY DEF IsFinal, IsFinalResponseErrorEx, FinalTexts, NumericSuccess, NumericErrors, FinalErrors
<1>2. l.from \in Commands \cup Urcs
  BY DEF LineOk, Lines
<1>3. ASSUME l.from \in Urcs PROVE FALSE
  <2>1. l.from \in inst.urcs /\ l.text \in {UrcText[l.from], "PDU"}
    BY <1>3 DEF LineOk
  <2>2. /\ UrcText[l.from] \notin {"ACK", "OK", "ERROR", "CME_ERROR", "PROMPT"} \cup Digits
        /\ UrcText[l.from] = "NO_CARRIER" => IsUrcChannel
    BY <1>3, <2>1, ChannelAssumption DEF IsUrcChannel
  <2>3. l.text = "NO_CARRIER"
    BY <1>1, <2>1, <2>2 DEF FinalTexts, FinalSuccess, FinalErrors, Digits
  <2>4. IsUrcChannel
    BY <2>1, <2>2, <2>3
  <2> QED
    BY <2>3, <2>4 DEF IsFinal, IsFinalResponseErrorEx, FinalSuccess, NumericSuccess, NumericErrors
<1> QED
  BY <1>1, <1>2, <1>3 DEF EndsAnswer

(* The end of an answer is a line. *)
LEMMA EndIsLine ==
  ASSUME NEW l, EndsAnswer(l)
  PROVE  l # NoLine
<1>1. NoLine.from = None
  BY DEF NoLine, Line
<1>2. None \notin Commands
  BY ChannelAssumption
<1> QED
  BY <1>1, <1>2 DEF EndsAnswer

(* A line kept in an answer is of a command, or a URC that looks like it. *)
LEMMA IntermediateOf ==
  ASSUME NEW us, NEW c \in Commands, NEW l, LineOk(us, rank, l), IsIntermediate(c, l)
  PROVE  l.from \in Commands \/ (l.from \in Urcs /\ LooksLikeAnswer(c, l.from))
<1>1. l.from \in Commands \cup Urcs
  BY DEF LineOk, Lines
<1>2. ASSUME l.from \in Urcs PROVE LooksLikeAnswer(c, l.from)
  <2>1. l.text = UrcText[l.from] \/ l.text = "PDU"
    BY <1>2 DEF LineOk
  <2>2. /\ UrcText[l.from] \notin Digits /\ Prefix[c] # "PDU" /\ Type[c] \in CommandTypes
    BY <1>2, ChannelAssumption
  <2>3. CASE Type[c] = "NO_RESULT"
    BY <2>3 DEF IsIntermediate
  <2>4. CASE Type[c] = "NUMERIC"
    BY <2>1, <2>2, <2>4 DEF IsIntermediate, Digits
  <2>5. CASE Type[c] = "SINGLELINE"
    BY <2>1, <2>2, <2>5 DEF IsIntermediate, LooksLikeAnswer
  <2>6. CASE Type[c] = "MULTILINE"
    BY <2>1, <2>2, <2>6 DEF IsIntermediate, LooksLikeAnswer
  <2>7. CASE Type[c] = "RAW"
    BY <2>7 DEF LooksLikeAnswer
  <2> QED
    BY <2>2, <2>3, <2>4, <2>5, <2>6, <2>7 DEF CommandTypes
<1> QED
  BY <1>1, <1>2

(* The reader's step before it sorts: it takes a line, drops one, or keeps it. *)
LEMMA ReaderTakes ==
  ASSUME ReadLine \/ ReadSecondLine \/ ReadEof \/ ReaderLock
  PROVE  /\ UNCHANGED << toModem, smsHalf, rank, written, sender, outcome, m_response, resp >>
         /\ \/ pty' = pty /\ (Held' => Held /\ reader'.line = reader.line)
            \/ pty # << >> /\ pty' = Tail(pty) /\ (Held' => reader'.line = Head(pty))
BY DEF ReadLine, ReadSecondLine, ReadEof, ReaderLock, Readline, Held, modemVars, senderVars, rankVars

(* Taking a line keeps what is known of the lines under way. *)
LEMMA ReaderLines ==
  ASSUME TypeOK, LinesOk, InOrder, Recent, UNCHANGED inst,
         ReadLine \/ ReadSecondLine \/ ReadEof \/ ReaderLock
  PROVE  LinesOk' /\ InOrder' /\ Recent'
<1>1. UNCHANGED << toModem, smsHalf, rank, written, sender, outcome, m_response, resp >>
  BY ReaderTakes
<1>2. Slack' = Slack
  BY <1>1 DEF Slack, Unanswered, TimedOut
<1>3. CASE pty' = pty /\ (Held' => Held /\ reader'.line = reader.line)
  BY <1>1, <1>2, <1>3 DEF LinesOk, InOrder, Recent
<1>4. CASE pty # << >> /\ pty' = Tail(pty) /\ (Held' => reader'.line = Head(pty))
  <2>1. /\ pty \in Seq(Lines) /\ DOMAIN pty = 1 .. Len(pty) /\ Len(pty) \in Nat \ {0}
        /\ Head(pty) = pty[1] /\ DOMAIN pty' = 1 .. Len(pty) - 1
        /\ \A i \in 1 .. Len(pty) - 1 : pty'[i] = pty[i + 1]
    BY <1>4 DEF TypeOK
  <2>2. /\ 1 \in DOMAIN pty
        /\ \A i \in DOMAIN pty' : i + 1 \in DOMAIN pty /\ pty'[i] = pty[i + 1] /\ 1 < i + 1
        /\ \A i, j \in DOMAIN pty' : i < j => i + 1 < j + 1
    BY <2>1
  <2>3. LinesOk'
    BY <1>1, <1>4, <2>1, <2>2 DEF LinesOk
  <2>4. InOrder'
    <3>1. \A i, j \in DOMAIN pty' : i < j /\ pty'[j].from \in Commands
                                     => Ahead(rank, pty'[i], pty'[j].from)
      BY <2>2 DEF InOrder
    <3>2. \A i \in DOMAIN pty' : AheadOfAll(rank, pty'[i], toModem)
      BY <2>2 DEF InOrder
    <3>3. AheadOf(rank, pty[1], pty') /\ AheadOfAll(rank, pty[1], toModem)
      BY <2>2 DEF InOrder, AheadOf
    <3> QED
      BY <1>1, <1>4, <2>1, <3>1, <3>2, <3>3 DEF InOrder
  <2>5. Recent'
    BY <1>1, <1>2, <1>4, <2>1, <2>2 DEF Recent
  <2> QED
    BY <2>3, <2>4, <2>5
<1> QED
  BY <1>3, <1>4, ReaderTakes

(* What sorting a line does: nothing to the responses, or one line for the current
   command, and the end of the answer only by a line that ends one. *)
LEMMA ProcessFacts ==
  ASSUME TypeOK, ThreadsApart, CommandTracked, LinesOk, ProcessLine
  PROVE  /\ UNCHANGED << pty, toModem, smsHalf, rank, written, sender, outcome, m_response >>
         /\ Held /\ ~Held'
         /\ \/ UNCHANGED resp
            \/ \E c \in Commands :
                 /\ c = sender.cmd /\ sender.pc \in {"wait", "timedout"} /\ rank[c] = written
                 /\ written # 0 /\ SortLine(c, reader.line)
                 /\ \A d \in Commands \ {c} : resp'[d] = resp[d]
                 /\ \/ resp'[c].inter = resp[c].inter
                    \/ /\ IsIntermediate(c, reader.line)
                       /\ resp'[c].inter = Append(resp[c].inter, reader.line)
                 /\ \/ resp'[c].final = resp[c].final
                    \/ EndsAnswer(reader.line) /\ resp'[c].final = reader.line
<1>1. /\ UNCHANGED << pty, toModem, smsHalf, rank, written, sender, outcome, m_response >>
      /\ Held /\ ~Held' /\ reader.pc = "process" /\ reader.line \in Lines
  BY DEF ProcessLine, modemVars, senderVars, rankVars, Held, ThreadsApart
<1>2. CASE m_response # None /\ SortLine(m_response, reader.line)
  <2>1. /\ m_response \in Commands /\ m_response = sender.cmd
        /\ sender.pc \in {"wait", "timedout"}
        /\ rank[m_response] = written /\ written # 0
    BY <1>2 DEF CommandTracked, TypeOK, OutPcs
  <2>2. resp \in [Commands -> Responses] /\ urcs \in Seq(Lines) /\ signalled \in BOOLEAN
    BY DEF TypeOK, Responses
  <2>3. /\ \A d \in Commands \ {m_response} : resp'[d] = resp[d]
        /\ \/ resp'[m_response].inter = resp[m_response].inter
           \/ /\ IsIntermediate(m_response, reader.line)
              /\ resp'[m_response].inter = Append(resp[m_response].inter, reader.line)
        /\ \/ resp'[m_response].final = resp[m_response].final
           \/ IsFinal(m_response, reader.line) /\ resp'[m_response].final = reader.line
    BY <1>1, <1>2, <2>1, <2>2, SortLineFacts
  <2>4. IsFinal(m_response, reader.line) => EndsAnswer(reader.line)
    BY <1>1, <2>1, FinalEnds DEF LinesOk
  <2> QED
    BY <1>1, <1>2, <2>1, <2>3, <2>4
<1>3. CASE UNCHANGED resp
  BY <1>1, <1>3
<1> QED
  BY <1>2, <1>3 DEF ProcessLine

(* Sorting keeps the order; the end of an answer takes one from the slack, and
   leaves only what was written after it. *)
LEMMA ProcessLines ==
  ASSUME TypeOK, ThreadsApart, CommandTracked, IsFiniteSet(TimedOut), LinesOk, InOrder, Recent,
         UNCHANGED inst, ProcessLine
  PROVE  LinesOk' /\ InOrder' /\ Recent' /\ CommandTracked' /\ TimedOut' = TimedOut
<1>1. /\ UNCHANGED << pty, toModem, smsHalf, rank, written, sender, outcome, m_response >>
      /\ Held /\ ~Held'
  BY ProcessFacts
<1>2. LinesOk' /\ InOrder' /\ TimedOut' = TimedOut
  BY <1>1 DEF LinesOk, InOrder, TimedOut
<1>3. CASE UNCHANGED resp
  <2>1. Slack' = Slack
    BY <1>1, <1>3 DEF Slack, Unanswered, TimedOut
  <2> QED
    BY <1>1, <1>2, <1>3, <2>1 DEF Recent, CommandTracked
<1>4. ASSUME NEW c \in Commands, c = sender.cmd, sender.pc \in {"wait", "timedout"},
             rank[c] = written, written # 0,
             \A d \in Commands \ {c} : resp'[d] = resp[d],
             \/ resp'[c].final = resp[c].final
             \/ EndsAnswer(reader.line) /\ resp'[c].final = reader.line
      PROVE  Recent' /\ CommandTracked'
  <2>1. CommandTracked'
    BY <1>1, <1>4 DEF CommandTracked
  <2>2. CASE resp'[c].final = resp[c].final
    <3>1. Slack' = Slack
      BY <1>1, <1>4, <2>2 DEF Slack, Unanswered, TimedOut, OutPcs, NoLine
    <3> QED
      BY <1>1, <2>1, <3>1 DEF Recent
  <2>3. CASE EndsAnswer(reader.line) /\ resp'[c].final = reader.line /\ resp[c].final = NoLine
    <3>1. Unanswered /\ ~Unanswered'
      <4>1. reader.line # NoLine
        BY <2>3, EndIsLine
      <4> QED
        BY <1>1, <1>4, <2>3, <4>1 DEF Unanswered, OutPcs, NoLine
    <3>2. Slack = Slack' + 1 /\ Slack' \in Nat
      BY <1>2, <3>1, FS_CardinalityType DEF Slack
    <3>3. \A w, k, r, s \in Nat : w < r + (k + 1) /\ r < s => w < s + k
      OBVIOUS
    <3>4. written \in Nat /\ \A d \in Commands : rank[d] \in Nat
      BY DEF TypeOK
    <3>5. ASSUME NEW d \in Commands, Ahead(rank, reader.line, d)
          PROVE  Outstanding(written, rank, Slack', d)
      <4>1. /\ reader.line.from \in Commands /\ rank[reader.line.from] < rank[d]
            /\ written < rank[reader.line.from] + (Slack' + 1)
        BY <1>1, <2>3, <3>2, <3>5 DEF Recent, Outstanding, Ahead, EndsAnswer
      <4> QED
        BY <3>2, <3>3, <3>4, <4>1 DEF Outstanding
    <3>6. \A i \in DOMAIN pty : pty[i].from \in Commands => Outstanding(written, rank, Slack', pty[i].from)
      BY <1>1, <3>5 DEF InOrder, AheadOf
    <3>7. \A i \in DOMAIN toModem : Outstanding(written, rank, Slack', toModem[i])
      BY <1>1, <3>5 DEF InOrder, AheadOfAll, TypeOK
    <3> QED
      BY <1>1, <2>1, <3>6, <3>7 DEF Recent
  <2>4. CASE EndsAnswer(reader.line) /\ resp'[c].final = reader.line /\ resp[c].final # NoLine
    <3>1. ~Unanswered /\ ~Unanswered'
      <4>1. reader.line # NoLine
        BY <2>4, EndIsLine
      <4> QED
        BY <1>1, <1>4, <2>4, <4>1 DEF Unanswered, NoLine
    <3>2. Slack' = Slack
      BY <1>2, <3>1 DEF Slack
    <3> QED
      BY <1>1, <2>1, <3>2 DEF Recent
  <2> QED
    BY <1>4, <2>2, <2>3, <2>4
<1> QED
  BY <1>2, <1>3, <1>4, ProcessFacts

(* The line kept is of the current command, or of one no further back than
   there were time-outs. *)
LEMMA ProcessAnswers ==
  ASSUME TypeOK, ThreadsApart, CommandTracked, IsFiniteSet(TimedOut), LinesOk, Recent,
         AnswersOwnCommand, UNCHANGED inst, ProcessLine
  PROVE  AnswersOwnCommand'
<1>1. /\ UNCHANGED << pty, toModem, rank, written, sender, outcome, m_response >>
      /\ Held /\ LineOk(inst.urcs, rank, reader.line)
  BY ProcessFacts DEF LinesOk
<1>2. \A c, s \in Commands : InStep(c, s)' <=> InStep(c, s)
  BY <1>1 DEF InStep, TimedOut
<1>3. ASSUME NEW c \in Commands, c = sender.cmd, rank[c] = written, written # 0,
             reader.line.from \in Commands
      PROVE  InStep(c, reader.line.from)
  <2> DEFINE s == reader.line.from
  <2>1. /\ written \in Nat /\ rank[s] \in 0 .. written
        /\ Cardinality(TimedOut) \in Nat
    BY <1>3, FS_CardinalityType DEF TypeOK
  <2>2. rank[s] # 0 /\ written < rank[s] + Slack
    BY <1>1, <1>3 DEF LineOk, Recent, Outstanding
  <2> HIDE DEF s
  <2>3. Slack = Cardinality(TimedOut) \/ Slack = Cardinality(TimedOut) + 1
    BY <2>1 DEF Slack
  <2>4. \A w, r, n \in Nat : w < r + n \/ w < r + (n + 1) => w - r <= n
    OBVIOUS
  <2>5. rank[s] \in 1 .. written /\ written - rank[s] <= Cardinality(TimedOut)
    BY <2>1, <2>2, <2>3, <2>4
  <2> QED
    BY <1>3, <2>5 DEF InStep, s
<1>4. CASE UNCHANGED resp
  BY <1>2, <1>4 DEF AnswersOwnCommand, LooksLikeAnswer
<1>5. ASSUME NEW c \in Commands, c = sender.cmd, rank[c] = written, written # 0,
             \A d \in Commands \ {c} : resp'[d] = resp[d],
             \/ resp'[c].inter = resp[c].inter
             \/ /\ IsIntermediate(c, reader.line)
                /\ resp'[c].inter = Append(resp[c].inter, reader.line),
             \/ resp'[c].final = resp[c].final
             \/ EndsAnswer(reader.line) /\ resp'[c].final = reader.line
      PROVE  AnswersOwnCommand'
  <2> DEFINE Kept(d, s) == \/ s \in Commands /\ InStep(d, s)
                           \/ s \in Urcs /\ LooksLikeAnswer(d, s)
  <2>1. \A i \in DOMAIN resp'[c].inter : Kept(c, resp'[c].inter[i].from)
    <3>0. resp[c].inter \in Seq(Lines) /\ \A i \in DOMAIN resp[c].inter : Kept(c, resp[c].inter[i].from)
      BY DEF TypeOK, AnswersOwnCommand
    <3>1. CASE resp'[c].inter = resp[c].inter
      BY <3>0, <3>1
    <3>2. CASE /\ IsIntermediate(c, reader.line)
               /\ resp'[c].inter = Append(resp[c].inter, reader.line)
      <4>1. Kept(c, reader.line.from)
        BY <1>1, <1>3, <1>5, <3>2, IntermediateOf
      <4>2. \A i \in DOMAIN resp'[c].inter :
              \/ i \in DOMAIN resp[c].inter /\ resp'[c].inter[i] = resp[c].inter[i]
              \/ resp'[c].inter[i] = reader.line
        BY <3>0, <3>2
      <4> HIDE DEF Kept
      <4> QED
        BY <3>0, <4>1, <4>2
    <3> QED
      BY <1>5, <3>1, <3>2
  <2>2. resp'[c].final # NoLine => /\ resp'[c].final.from \in Commands
                                   /\ InStep(c, resp'[c].final.from)
    BY <1>3, <1>5 DEF AnswersOwnCommand, EndsAnswer
  <2>3. ASSUME NEW d \in Commands
        PROVE  /\ \A i \in DOMAIN resp'[d].inter : Kept(d, resp'[d].inter[i].from)
               /\ resp'[d].final # NoLine => /\ resp'[d].final.from \in Commands
                                            /\ InStep(d, resp'[d].final.from)
    <3>1. CASE d = c
      BY <2>1, <2>2, <3>1
    <3>2. CASE d # c
      <4>1. resp'[d] = resp[d]
        BY <1>5, <3>2
      <4> QED
        BY <4>1 DEF AnswersOwnCommand
    <3> QED
      BY <3>1, <3>2
  <2>4. rank' = rank /\ TimedOut' = TimedOut
    BY <1>1 DEF TimedOut
  <2> QED
    BY <2>3, <2>4 DEF AnswersOwnCommand, InStep, LooksLikeAnswer, NoLine
<1> QED
  BY <1>4, <1>5, ProcessFacts
-----------------------------------------------------------------------------
(* The modem *)

(* A line that the modem adds for the first command it has not answered, or for
   a URC, comes behind the lines of this and the earlier commands, and before the
   commands that are still to be answered. *)
LEMMA AppendLine ==
  ASSUME TypeOK, LinesOk, InOrder, Recent, UNCHANGED << inst, rank, written, reader >>,
         Slack' = Slack, smsHalf' \in inst.urcs \cup {None},
         NEW l, LineOk(inst.urcs, rank, l), pty' = Append(pty, l),
         l.from \in Commands => toModem # << >> /\ l.from = Head(toModem),
         IF EndsAnswer(l) THEN toModem' = Tail(toModem) ELSE toModem' = toModem
  PROVE  LinesOk' /\ InOrder' /\ Recent'
<1>1. /\ pty \in Seq(Lines) /\ toModem \in Seq(Commands) /\ l \in Lines
      /\ \A d \in Commands : rank[d] \in Nat
  BY DEF TypeOK, LineOk
<1>2. /\ DOMAIN pty = 1 .. Len(pty) /\ Len(pty) \in Nat
      /\ DOMAIN pty' = 1 .. Len(pty) + 1 /\ pty'[Len(pty) + 1] = l
      /\ \A i \in 1 .. Len(pty) : pty'[i] = pty[i]
  BY <1>1
<1>3. \A i \in DOMAIN pty' : \/ i \in DOMAIN pty /\ pty'[i] = pty[i]
                             \/ i = Len(pty) + 1 /\ pty'[i] = l
  BY <1>2
<1>4. toModem # << >> => Head(toModem) = toModem[1] /\ 1 \in DOMAIN toModem
  BY <1>1
<1>5. \A i \in DOMAIN toModem' :
        \E k \in DOMAIN toModem : /\ toModem'[i] = toModem[k]
                                  /\ EndsAnswer(l) => k = i + 1 /\ 1 < k
                                  /\ ~EndsAnswer(l) => k = i
  <2>1. CASE EndsAnswer(l)
    <3>1. toModem # << >> /\ toModem' = Tail(toModem)
      BY <2>1 DEF EndsAnswer
    <3>2. \A i \in DOMAIN toModem' :
            i + 1 \in DOMAIN toModem /\ toModem'[i] = toModem[i + 1] /\ 1 < i + 1
      BY <1>1, <3>1
    <3> QED
      BY <2>1, <3>2
  <2>2. CASE ~EndsAnswer(l)
    BY <2>2
  <2> QED
    BY <2>1, <2>2
<1>6. LinesOk'
  <2>1. \A i \in DOMAIN pty' : LineOk(inst.urcs, rank, pty'[i])
    BY <1>3 DEF LinesOk
  <2>2. \A i \in DOMAIN toModem' : rank[toModem'[i]] # 0
    BY <1>5 DEF LinesOk
  <2> QED
    BY <2>1, <2>2 DEF LinesOk, Held
<1>7. \A i \in DOMAIN pty : l.from \in Commands => Ahead(rank, pty[i], l.from)
  BY <1>4 DEF InOrder, AheadOfAll
<1>8. AheadOfAll(rank, l, toModem')
  <2>1. ASSUME NEW i \in DOMAIN toModem', l.from \in Commands
        PROVE  Ahead(rank, l, toModem'[i])
    <3>1. PICK k \in DOMAIN toModem : /\ toModem'[i] = toModem[k]
                                      /\ EndsAnswer(l) => 1 < k
      BY <1>5
    <3>2. l.from = toModem[1] /\ 1 \in DOMAIN toModem /\ k \in 1 .. Len(toModem)
          /\ toModem[k] \in Commands
      BY <1>1, <1>4, <2>1
    <3>3. k = 1 \/ rank[toModem[1]] < rank[toModem[k]]
      BY <3>2 DEF InOrder
    <3>4. rank[toModem[1]] \in Nat /\ rank[toModem[k]] \in Nat
      BY <1>1, <2>1, <3>2
    <3> QED
      BY <3>1, <3>2, <3>3, <3>4 DEF Ahead
  <2> QED
    BY <2>1 DEF AheadOfAll, Ahead
<1>9. InOrder'
  <2>1. \A i, j \in DOMAIN pty' : i < j /\ pty'[j].from \in Commands
                                   => Ahead(rank, pty'[i], pty'[j].from)
    <3> SUFFICES ASSUME NEW i \in DOMAIN pty', NEW j \in DOMAIN pty', i < j,
                        pty'[j].from \in Commands
                 PROVE  Ahead(rank, pty'[i], pty'[j].from)
      OBVIOUS
    <3>1. i \in DOMAIN pty /\ pty'[i] = pty[i]
      BY <1>2
    <3>2. CASE j \in DOMAIN pty /\ pty'[j] = pty[j]
      BY <3>1, <3>2 DEF InOrder
    <3>3. CASE pty'[j] = l
      BY <1>7, <3>1, <3>3
    <3> QED
      BY <1>3, <3>2, <3>3
  <2>2. \A i \in DOMAIN pty' : AheadOfAll(rank, pty'[i], toModem')
    <3>1. ASSUME NEW i \in DOMAIN pty PROVE AheadOfAll(rank, pty[i], toModem')
      BY <1>5, <3>1 DEF InOrder, AheadOfAll
    <3> QED
      BY <1>3, <1>8, <3>1
  <2>3. \A i, j \in DOMAIN toModem' : i < j => rank[toModem'[i]] < rank[toModem'[j]]
    <3> SUFFICES ASSUME NEW i \in DOMAIN toModem', NEW j \in DOMAIN toModem', i < j
                 PROVE  rank[toModem'[i]] < rank[toModem'[j]]
      OBVIOUS
    <3>1. PICK k \in DOMAIN toModem : /\ toModem'[i] = toModem[k]
                                      /\ EndsAnswer(l) => k = i + 1
                                      /\ ~EndsAnswer(l) => k = i
      BY <1>5
    <3>2. PICK m \in DOMAIN toModem : /\ toModem'[j] = toModem[m]
                                      /\ EndsAnswer(l) => m = j + 1
                                      /\ ~EndsAnswer(l) => m = j
      BY <1>5
    <3>3. i \in Nat /\ j \in Nat
      <4>1. toModem' \in Seq(Commands)
        BY <1>1, ListTyped DEF EndsAnswer
      <4> QED
        BY <4>1
    <3>4. k < m
      BY <3>1, <3>2, <3>3
    <3> QED
      BY <3>1, <3>2, <3>4 DEF InOrder
  <2>4. Held => AheadOf(rank, reader.line, pty') /\ AheadOfAll(rank, reader.line, toModem')
    <3>1. Held => AheadOfAll(rank, reader.line, toModem')
      BY <1>5 DEF InOrder, AheadOfAll
    <3>2. Held /\ l.from \in Commands => Ahead(rank, reader.line, l.from)
      BY <1>4 DEF InOrder, AheadOfAll
    <3>3. Held => AheadOf(rank, reader.line, pty')
      BY <1>3, <3>2 DEF InOrder, AheadOf
    <3> QED
      BY <3>1, <3>3
  <2> QED
    BY <2>1, <2>2, <2>3, <2>4 DEF InOrder, Held
<1>10. Recent'
  <2>1. l.from \in Commands => Outstanding(written, rank, Slack, l.from)
    BY <1>4 DEF Recent
  <2>2. \A i \in DOMAIN pty' : pty'[i].from \in Commands
                                => Outstanding(written, rank, Slack, pty'[i].from)
    BY <1>3, <2>1 DEF Recent
  <2>3. \A i \in DOMAIN toModem' : Outstanding(written, rank, Slack, toModem'[i])
    BY <1>5 DEF Recent
  <2> QED
    BY <2>2, <2>3 DEF Recent, Held
<1> QED
  BY <1>6, <1>9, <1>10

(* What the modem answers is in order, and it changes nothing of the two threads. *)
LEMMA ModemLines ==
  ASSUME TypeOK, CommandTracked, LinesOk, InOrder, Recent, AnswersOwnCommand,
         UNCHANGED inst, Modem
  PROVE  /\ LinesOk' /\ InOrder' /\ Recent' /\ CommandTracked' /\ AnswersOwnCommand'
         /\ TimedOut' = TimedOut
<1>1. UNCHANGED << rank, written, sender, outcome, m_response, resp, reader >>
  BY DEF Modem, ModemAck, ModemLine, ModemFinal, ModemUrc, ModemSecondLine, ModemPowerOff,
         CloseChannel, EnvUnchanged, senderVars, rankVars
<1>2. TimedOut' = TimedOut /\ Slack' = Slack
  BY <1>1 DEF TimedOut, Slack, Unanswered
<1>3. CommandTracked'
  BY <1>1 DEF CommandTracked
<1>4. AnswersOwnCommand'
  BY <1>1, <1>2 DEF AnswersOwnCommand, InStep, LooksLikeAnswer
<1>5. /\ smsHalf \in inst.urcs \cup {None} /\ inst.urcs \subseteq Urcs
      /\ Commands \cap Urcs = {} /\ None \notin Commands \cup Urcs
  BY ChannelAssumption DEF LinesOk
<1>6. toModem # << >> => Head(toModem) \in Commands /\ rank[Head(toModem)] # 0
  <2>1. toModem # << >> => 1 \in DOMAIN toModem /\ Head(toModem) = toModem[1]
    BY DEF TypeOK
  <2> QED
    BY <2>1 DEF LinesOk, TypeOK
<1>7. ASSUME NEW l \in Lines, toModem # << >>, l.from = Head(toModem)
      PROVE  LineOk(inst.urcs, rank, l)
  BY <1>5, <1>6, <1>7 DEF LineOk
<1>8. ASSUME NEW l \in Lines, l.from \in inst.urcs, l.text \in {UrcText[l.from], "PDU"}
      PROVE  LineOk(inst.urcs, rank, l) /\ l.from \notin Commands
  BY <1>5, <1>8 DEF LineOk
<1>9. ASSUME ModemAck PROVE LinesOk' /\ InOrder' /\ Recent'
  <2> DEFINE l == Line("ACK", Head(toModem), 0)
  <2>1. /\ toModem # << >> /\ pty' = Append(pty, l) /\ UNCHANGED << toModem, smsHalf >>
    BY <1>9 DEF ModemAck, ModemSends, ModemWrites
  <2>2. l \in Lines /\ l.from = Head(toModem) /\ l.text = "ACK"
    BY <1>6, <2>1, ModemLinesTyped DEF Line
  <2> HIDE DEF l
  <2>3. LineOk(inst.urcs, rank, l) /\ ~EndsAnswer(l)
    BY <1>7, <2>1, <2>2 DEF EndsAnswer, FinalTexts, FinalSuccess, FinalErrors
  <2> QED
    BY <1>1, <1>2, <1>5, <2>1, <2>2, <2>3, AppendLine
<1>10. ASSUME ModemLine PROVE LinesOk' /\ InOrder' /\ Recent'
  <2> DEFINE c == Head(toModem)
             l == Line(IF Type[c] = "NUMERIC" THEN "DIGITS" ELSE Prefix[c], c, lines[c] + 1)
  <2>1. /\ toModem # << >> /\ pty' = Append(pty, l) /\ UNCHANGED << toModem, smsHalf >>
        /\ lines[c] < MostLines(c)
    BY <1>10 DEF ModemLine, ModemSends, ModemWrites
  <2>2. c \in Commands
    BY <1>6, <2>1
  <2>3. l.from = c /\ l.text \in {"DIGITS", Prefix[c]}
    BY DEF Line
  <2>4. l \in Lines
    <3> HIDE DEF c
    <3>1. lines[c] \in 0 .. MaxLines /\ MostLines(c) <= MaxLines /\ MostLines(c) \in Nat
          /\ MaxLines \in Nat
      BY <2>2, ModemLinesTyped, ChannelAssumption DEF TypeOK, MostLines
    <3>2. lines[c] + 1 \in 0 .. MaxLines
      BY <2>1, <3>1
    <3> QED
      BY <2>2, <3>2, ModemLinesTyped
  <2> HIDE DEF l
  <2>5. l.text \notin FinalTexts
    BY <2>2, <2>3, ChannelAssumption DEF FinalTexts, FinalSuccess, FinalErrors, Digits
  <2>6. LineOk(inst.urcs, rank, l) /\ ~EndsAnswer(l)
    BY <1>7, <2>1, <2>3, <2>4, <2>5 DEF EndsAnswer
  <2> QED
    BY <1>1, <1>2, <1>5, <2>1, <2>3, <2>6, AppendLine
<1>11. ASSUME ModemFinal PROVE LinesOk' /\ InOrder' /\ Recent'
  <2>1. PICK t \in {"OK", "CME_ERROR", "0", "4"} : pty' = Append(pty, Line(t, Head(toModem), 0))
    BY <1>11 DEF ModemFinal, ModemSends, ModemWrites
  <2> DEFINE l == Line(t, Head(toModem), 0)
  <2>2. toModem # << >> /\ toModem' = Tail(toModem) /\ UNCHANGED smsHalf /\ pty' = Append(pty, l)
    BY <1>11, <2>1 DEF ModemFinal
  <2>3. l \in Lines /\ l.from = Head(toModem) /\ l.text = t
    BY <1>6, <2>2, ModemLinesTyped DEF Line
  <2> HIDE DEF l
  <2>4. LineOk(inst.urcs, rank, l) /\ EndsAnswer(l)
    BY <1>6, <1>7, <2>2, <2>3 DEF EndsAnswer, FinalTexts, FinalSuccess, FinalErrors
  <2> QED
    BY <1>1, <1>2, <1>5, <2>2, <2>3, <2>4, AppendLine
<1>12. ASSUME NEW u \in inst.urcs, ModemUrc(u) PROVE LinesOk' /\ InOrder' /\ Recent'
  <2> DEFINE l == Line(UrcText[u], u, 0)
  <2>1. pty' = Append(pty, l) /\ UNCHANGED toModem /\ smsHalf' \in inst.urcs \cup {None}
    BY <1>12 DEF ModemUrc, ModemSends, ModemWrites
  <2>2. l \in Lines /\ l.from = u /\ l.text = UrcText[u]
    BY <1>5, ModemLinesTyped DEF Line
  <2> HIDE DEF l
  <2>3. LineOk(inst.urcs, rank, l) /\ l.from \notin Commands /\ ~EndsAnswer(l)
    BY <1>8, <2>2 DEF EndsAnswer
  <2> QED
    BY <1>1, <1>2, <2>1, <2>3, AppendLine
<1>13. ASSUME ModemSecondLine PROVE LinesOk' /\ InOrder' /\ Recent'
  <2> DEFINE l == Line("PDU", smsHalf, 0)
  <2>1. pty' = Append(pty, l) /\ UNCHANGED toModem /\ smsHalf' = None /\ smsHalf \in inst.urcs
    BY <1>5, <1>13 DEF ModemSecondLine, ModemWrites
  <2>2. l \in Lines /\ l.from = smsHalf /\ l.text = "PDU"
    BY <1>5, <2>1, ModemLinesTyped DEF Line
  <2> HIDE DEF l
  <2>3. LineOk(inst.urcs, rank, l) /\ l.from \notin Commands /\ ~EndsAnswer(l)
    BY <1>8, <2>1, <2>2 DEF EndsAnswer
  <2> QED
    BY <1>1, <1>2, <2>1, <2>3, AppendLine
<1>14. ASSUME ModemPowerOff \/ CloseChannel PROVE LinesOk' /\ InOrder' /\ Recent'
  <2>1. UNCHANGED << pty, toModem, smsHalf >>
    BY <1>14 DEF ModemPowerOff, CloseChannel
  <2> QED
    BY <1>1, <1>2, <2>1 DEF LinesOk, InOrder, Recent, Held
<1> QED
  BY <1>2, <1>3, <1>4, <1>9, <1>10, <1>11, <1>12, <1>13, <1>14 DEF Modem
-----------------------------------------------------------------------------
(* The theorems *)

(* The channel starts in the invariant. *)
LEMMA InitInvariant == Init => IInv
<1> SUFFICES ASSUME Init PROVE IInv
  OBVIOUS
<1>1. inst \in Instances /\ inst.urcs \subseteq Urcs
  BY ChannelAssumption DEF Init
<1>2. TypeOK
  <2>1. << >> \in Seq(Lines) /\ << >> \in Seq(Commands) /\ 0 \in 0 .. MaxLines /\ 0 \in 0 .. 0
    BY ChannelAssumption
  <2>2. resp \in [Commands -> [inter : Seq(Lines), ack : BOOLEAN, final : Lines \cup {NoLine}]]
    BY <2>1 DEF Init
  <2> QED
    BY <2>1, <2>2 DEF Init, TypeOK, Outcomes
<1>3. TimedOut = {}
  BY DEF Init, TimedOut
<1>4. IsFiniteSet(TimedOut)
  BY <1>3, FS_EmptySet
<1>5. DOMAIN pty = {} /\ DOMAIN toModem = {}
  BY DEF Init
<1>6. ThreadsApart /\ CommandTracked
  BY DEF Init, ThreadsApart, CommandTracked, OutPcs
<1>7. LinesOk /\ InOrder /\ Recent
  BY <1>1, <1>5 DEF Init, LinesOk, InOrder, Recent, Held, AheadOfAll
<1>8. AnswersOwnCommand
  BY DEF Init, AnswersOwnCommand
<1> QED
  BY <1>2, <1>4, <1>6, <1>7, <1>8 DEF IInv

(* Every step of the channel keeps it. *)
LEMMA StepInvariant == IInv /\ [Next]_vars => IInv'
<1> SUFFICES ASSUME IInv, [Next]_vars PROVE IInv'
  OBVIOUS
<1> USE DEF IInv
<1>1. inst \in Instances /\ inst.commands \subseteq Commands
  BY ChannelAssumption DEF LinesOk
<1>2. ThreadsApart'
  BY <1>1, ApartStep
<1>3. ASSUME SenderSteps, UNCHANGED inst PROVE IInv'
  <2>1. TypeOK'
    BY <1>3, SenderType DEF SenderSteps, CommandTracked
  <2>2. CommandTracked' /\ IsFiniteSet(TimedOut') /\ LinesOk' /\ InOrder' /\ Recent'
        /\ AnswersOwnCommand'
    BY <1>3, <2>1, SenderTracks, SenderSlack, SenderLines, SenderAnswers
  <2> QED
    BY <1>2, <2>1, <2>2
<1>4. ASSUME ReadLine \/ ReadSecondLine \/ ReadEof \/ ReaderLock, UNCHANGED inst PROVE IInv'
  <2>1. TypeOK'
    BY <1>4, ReaderType DEF Reader
  <2>2. LinesOk' /\ InOrder' /\ Recent'
    BY <1>4, ReaderLines
  <2>3. UNCHANGED << rank, written, sender, outcome, m_response, resp >>
    BY <1>4, ReaderTakes
  <2>4. TimedOut' = TimedOut /\ CommandTracked'
    BY <2>3 DEF TimedOut, CommandTracked
  <2>5. AnswersOwnCommand'
    BY <2>3, <2>4 DEF AnswersOwnCommand, InStep, LooksLikeAnswer
  <2> QED
    BY <1>2, <2>1, <2>2, <2>4, <2>5
<1>5. ASSUME ProcessLine, UNCHANGED inst PROVE IInv'
  BY <1>2, <1>5, ReaderType, ProcessLines, ProcessAnswers DEF Reader
<1>6. ASSUME Modem, UNCHANGED inst PROVE IInv'
  BY <1>1, <1>2, <1>6, ModemType, ModemLines
<1>7. ASSUME UNCHANGED vars PROVE IInv'
  <2>1. UNCHANGED << pty, closed, toModem, lines, modemAcked, urcSent, smsHalf, mdOff,
                     commandMutex, sender, outcome, acked, written, rank, signalled,
                     m_response, resp, reader, urcs, trm, inst >>
    BY <1>7 DEF vars, modemVars, senderVars, rankVars
  <2>2. TypeOK' /\ ThreadsApart' /\ CommandTracked'
    BY <1>2, <2>1 DEF TypeOK, CommandTracked
  <2>3. TimedOut' = TimedOut /\ Slack' = Slack
    BY <2>1 DEF TimedOut, Slack, Unanswered
  <2>4. LinesOk' /\ InOrder' /\ Recent'
    BY <2>1, <2>3 DEF LinesOk, InOrder, Recent, Held
  <2>5. AnswersOwnCommand'
    BY <2>1, <2>3 DEF AnswersOwnCommand, InStep, LooksLikeAnswer
  <2> QED
    BY <2>2, <2>3, <2>4, <2>5
<1> QED
  BY <1>1, <1>3, <1>4, <1>5, <1>6, <1>7 DEF Next, Steps, Reader, SenderSteps

(* What the channel has under way is in the order it was written, and no more
   answers are outstanding than commands that timed out, and the current one. *)
THEOREM ChannelInvariant == Spec => []IInv
<1>1. IInv /\ [Next]_vars => IInv'
  BY StepInvariant
<1> QED
  BY InitInvariant, <1>1, PTL DEF Spec

(* Every variable of the channel has its type and m_commandMutex is held exactly
   where the sender and the reader hold it (RfxSender, RfxReader::processLine). *)
THEOREM ChannelTypeCorrect == Spec => []TypeOK
<1>1. IInv => TypeOK
  BY DEF IInv
<1> QED
  BY ChannelInvariant, <1>1, PTL

(* atSendCommandFull returns lines that were sent in answer to its own command, or,
   after n time-outs of a user load, of a command at most n back; an unsolicited
   line only where processLine cannot tell it from the answer. *)
THEOREM AnswersOwnCommandCorrect == Spec => []AnswersOwnCommand
<1>1. IInv => AnswersOwnCommand
  BY DEF IInv
<1> QED
  BY ChannelInvariant, <1>1, PTL

-----------------------------------------------------------------------------
(* The lines: a command that succeeds has every line the modem sent for it, and
   every unsolicited line is at one place *)

\* A line and the lines of q behind it
Cons(x, q) == << x >> \o q

\* The lines of the modem that may still be sorted for a command
UnderWay == IF Held THEN Cons(reader.line, pty) ELSE pty

\* The lines of the modem, from the SMS code whose PDU the reader waits for
Unread == IF reader.pc = "sms" THEN Cons(reader.line, pty) ELSE pty

TextOf(c) == IF Type[c] = "NUMERIC" THEN "DIGITS" ELSE Prefix[c]
FinalsOf(num, c) == IF Type[c] = "RAW" /\ num THEN {"0", "4"} ELSE {"OK", "CME_ERROR"}

\* A numbered line of a command is an intermediate line of its answer, any other
\* one its acknowledgement or its final response
Shaped(num, l) ==
  l.from \in Commands => IF l.no = 0 THEN l.text \in {"ACK"} \cup FinalsOf(num, l.from)
                         ELSE l.text = TextOf(l.from)

LinesShaped ==
  /\ \A i \in DOMAIN pty : Shaped(inst.numericSet, pty[i])
  /\ Held => Shaped(inst.numericSet, reader.line)
  /\ \A c \in Commands : lines[c] <= MostLines(c) /\ (lines[c] # 0 => rank[c] # 0)

\* In q an SMS code is followed by its PDU, which half is the owner of if it is still
\* to come, and a PDU follows nothing else
Paired(q, half) ==
  /\ \A i \in DOMAIN q : q[i].text = "SMS" => IF i = Len(q) THEN half # None
                                               ELSE q[i + 1].text = "PDU"
  /\ \A i \in DOMAIN q : q[i].text = "PDU" => i # 1 /\ q[i - 1].text = "SMS"
  /\ half # None => q # << >> /\ q[Len(q)].text = "SMS"

SmsPaired ==
  /\ reader.pc \notin {"stopped", "aborted"} => Paired(Unread, smsHalf)
  /\ reader.pc = "sms" => reader.line.text = "SMS"
  /\ Held => reader.line.text \notin {"SMS", "PDU"}

AnswerTracked ==
  /\ \A c, d \in Commands : rank[c] = rank[d] /\ rank[c] # 0 => c = d
  /\ sender.pc \in {"wait", "timedout"} => m_response = sender.cmd
  /\ \A c \in Commands :
       outcome[c] \in {"OK", "INVALID_RESPONSE", "ERROR"} => resp[c].final # NoLine

\* An intermediate line of c's answer
NumberedLine(l, c) == l.from = c /\ l.no # 0

\* Of the n lines that were sent for c the first m are kept, the others are in q
Numbered(c, m, n, q) ==
  /\ m <= n
  /\ \A i \in DOMAIN q : NumberedLine(q[i], c) => q[i].no \in m + 1 .. n
  /\ \A i, j \in DOMAIN q :
       i < j /\ NumberedLine(q[i], c) /\ NumberedLine(q[j], c) => q[i].no < q[j].no
  /\ \A k \in m + 1 .. n : \E i \in DOMAIN q : q[i].from = c /\ q[i].no = k

\* No URC of the channel looks like an answer to c
Clean(us, c) == \A u \in us : ~LooksLikeAnswer(c, u)

\* The answer to c is awaited
Current(c) == sender.cmd = c /\ sender.pc \in {"publish", "wait", "timedout"}
                /\ resp[c].final = NoLine

InNumber(inter) == \A i \in DOMAIN inter : inter[i].no = i

\* What is kept and what is under way for c is all that was sent for it
Numbers(c) == Numbered(c, Len(resp[c].inter), lines[c], UnderWay) /\ InNumber(resp[c].inter)

\* All that was sent for c is kept
Whole(c) == Len(resp[c].inter) = lines[c] /\ InNumber(resp[c].inter)

AnswerNumbered ==
  TimedOut = {} => \A c \in Commands : Clean(inst.urcs, c) =>
    /\ Current(c) => Numbers(c)
    /\ resp[c].final # NoLine => Whole(c)

CInv == LinesShaped /\ SmsPaired /\ AnswerTracked /\ AnswerNumbered
-----------------------------------------------------------------------------
(* Lists of lines *)

(* A list with a line in front of it. *)
LEMMA ConsFacts ==
  ASSUME NEW x \in Lines, NEW q \in Seq(Lines)
  PROVE  /\ Cons(x, q) \in Seq(Lines) /\ Cons(x, q) # << >>
         /\ Len(Cons(x, q)) = Len(q) + 1 /\ DOMAIN Cons(x, q) = 1 .. Len(q) + 1
         /\ Cons(x, q)[1] = x /\ \A i \in 1 .. Len(q) : Cons(x, q)[i + 1] = q[i]
         /\ Tail(Cons(x, q)) = q
         /\ \A y \in Lines : Append(Cons(x, q), y) = Cons(x, Append(q, y))
         /\ q # << >> => Cons(Head(q), Tail(q)) = q
<1>1. << x >> \in Seq(Lines) /\ Len(<< x >>) = 1 /\ << x >>[1] = x
  OBVIOUS
<1>2. /\ Cons(x, q) \in Seq(Lines) /\ Len(Cons(x, q)) = Len(q) + 1
      /\ Cons(x, q)[1] = x /\ \A i \in 1 .. Len(q) : Cons(x, q)[i + 1] = q[i]
  BY <1>1 DEF Cons
<1>3. DOMAIN Cons(x, q) = 1 .. Len(q) + 1 /\ Cons(x, q) # << >>
  BY <1>2
<1>4. Tail(Cons(x, q)) = q
  BY <1>2
<1>5. ASSUME NEW y \in Lines PROVE Append(Cons(x, q), y) = Cons(x, Append(q, y))
  BY <1>1 DEF Cons
<1>6. q # << >> => Cons(Head(q), Tail(q)) = q
  BY DEF Cons
<1> QED
  BY <1>2, <1>3, <1>4, <1>5, <1>6

(* Adding a line to the numbered lines of c: it is the next of them or none. *)
LEMMA NumberedAppend ==
  ASSUME NEW c, NEW m \in Nat, NEW n \in Nat, NEW q \in Seq(Lines), NEW l \in Lines,
         Numbered(c, m, n, q)
  PROVE  /\ ~NumberedLine(l, c) => Numbered(c, m, n, Append(q, l))
         /\ NumberedLine(l, c) /\ l.no = n + 1 => Numbered(c, m, n + 1, Append(q, l))
<1> DEFINE r == Append(q, l)
<1>1. /\ Len(q) \in Nat /\ DOMAIN q = 1 .. Len(q) /\ DOMAIN r = 1 .. Len(q) + 1
      /\ r[Len(q) + 1] = l /\ \A i \in 1 .. Len(q) : r[i] = q[i]
  OBVIOUS
<1>2. /\ DOMAIN q \subseteq DOMAIN r /\ \A i \in DOMAIN q : r[i] = q[i]
      /\ \A i \in DOMAIN r : i \in DOMAIN q \/ r[i] = l
      /\ Len(q) + 1 \in DOMAIN r
  BY <1>1
<1>3. \A i, j \in DOMAIN r : i < j => i \in DOMAIN q
  BY <1>1
<1> HIDE DEF r
<1>4. ASSUME ~NumberedLine(l, c) PROVE Numbered(c, m, n, r)
  <2>1. \A i \in DOMAIN r : NumberedLine(r[i], c) => i \in DOMAIN q /\ r[i] = q[i]
    BY <1>2, <1>4
  <2>2. \A k \in m + 1 .. n : \E i \in DOMAIN r : r[i].from = c /\ r[i].no = k
    BY <1>2 DEF Numbered
  <2> QED
    BY <2>1, <2>2 DEF Numbered
<1>5. ASSUME NumberedLine(l, c), l.no = n + 1 PROVE Numbered(c, m, n + 1, r)
  <2>1. /\ m <= n + 1 /\ n + 1 \in m + 1 .. n + 1
        /\ \A k \in m + 1 .. n : k \in m + 1 .. n + 1 /\ k < n + 1
        /\ \A k \in m + 1 .. n + 1 : k = n + 1 \/ k \in m + 1 .. n
    BY DEF Numbered
  <2>2. \A i \in DOMAIN r : NumberedLine(r[i], c) => r[i].no \in m + 1 .. n + 1
    BY <1>2, <1>5, <2>1 DEF Numbered
  <2>3. ASSUME NEW i \in DOMAIN r, NEW j \in DOMAIN r, i < j, NumberedLine(r[i], c),
               NumberedLine(r[j], c)
        PROVE  r[i].no < r[j].no
    <3>1. i \in DOMAIN q /\ r[i] = q[i] /\ q[i].no \in m + 1 .. n
      BY <1>2, <1>3, <2>3 DEF Numbered
    <3>2. CASE j \in DOMAIN q
      BY <1>2, <2>3, <3>1, <3>2 DEF Numbered
    <3>3. CASE r[j] = l
      BY <1>5, <2>1, <3>1, <3>3
    <3> QED
      BY <1>2, <3>2, <3>3
  <2>4. \A k \in m + 1 .. n + 1 : \E i \in DOMAIN r : r[i].from = c /\ r[i].no = k
    <3> SUFFICES ASSUME NEW k \in m + 1 .. n + 1
                 PROVE  \E i \in DOMAIN r : r[i].from = c /\ r[i].no = k
      OBVIOUS
    <3>1. CASE k = n + 1
      <4>1. r[Len(q) + 1].from = c /\ r[Len(q) + 1].no = k
        BY <1>1, <1>5, <3>1 DEF NumberedLine, r
      <4> QED
        BY <1>2, <4>1
    <3>2. CASE k \in m + 1 .. n
      BY <1>2, <3>2 DEF Numbered
    <3> QED
      BY <2>1, <3>1, <3>2
  <2> QED
    BY <2>1, <2>2, <2>3, <2>4 DEF Numbered
<1> QED
  BY <1>4, <1>5 DEF r

(* Taking the first line: it is the next of the numbered lines of c or none. *)
LEMMA NumberedTail ==
  ASSUME NEW c, NEW m \in Nat, NEW n \in Nat, NEW q \in Seq(Lines), q # << >>,
         Numbered(c, m, n, q)
  PROVE  /\ ~NumberedLine(q[1], c) => Numbered(c, m, n, Tail(q))
         /\ NumberedLine(q[1], c) => /\ q[1].no = m + 1 /\ m + 1 <= n
                                     /\ Numbered(c, m + 1, n, Tail(q))
<1> DEFINE r == Tail(q)
<1>1. /\ Len(q) \in Nat \ {0} /\ DOMAIN q = 1 .. Len(q) /\ DOMAIN r = 1 .. Len(q) - 1
      /\ \A i \in 1 .. Len(q) - 1 : r[i] = q[i + 1]
  OBVIOUS
<1>2. /\ 1 \in DOMAIN q
      /\ \A i \in DOMAIN r : i + 1 \in DOMAIN q /\ r[i] = q[i + 1] /\ 1 < i + 1
      /\ \A i, j \in DOMAIN r : i < j => i + 1 < j + 1
  BY <1>1
<1>3. \A i \in DOMAIN q : i = 1 \/ \E j \in DOMAIN r : r[j] = q[i]
  <2> SUFFICES ASSUME NEW i \in DOMAIN q, i # 1 PROVE i - 1 \in DOMAIN r /\ r[i - 1] = q[i]
    OBVIOUS
  <2> QED
    BY <1>1
<1> HIDE DEF r
<1>4. /\ \A i \in DOMAIN r : NumberedLine(r[i], c) => r[i].no \in m + 1 .. n
      /\ \A i, j \in DOMAIN r :
           i < j /\ NumberedLine(r[i], c) /\ NumberedLine(r[j], c) => r[i].no < r[j].no
  BY <1>2 DEF Numbered
<1>5. ASSUME ~NumberedLine(q[1], c) PROVE Numbered(c, m, n, r)
  <2>1. \A k \in m + 1 .. n : k # 0
    OBVIOUS
  <2>2. ASSUME NEW k \in m + 1 .. n PROVE \E i \in DOMAIN r : r[i].from = c /\ r[i].no = k
    <3>1. PICK i \in DOMAIN q : q[i].from = c /\ q[i].no = k
      BY DEF Numbered
    <3>2. i # 1
      BY <1>5, <2>1, <3>1 DEF NumberedLine
    <3> QED
      BY <1>3, <3>1, <3>2
  <2> QED
    BY <1>4, <2>2 DEF Numbered
<1>6. ASSUME NumberedLine(q[1], c) PROVE q[1].no = m + 1 /\ m + 1 <= n /\ Numbered(c, m + 1, n, r)
  <2>1. q[1].no \in m + 1 .. n
    BY <1>2, <1>6 DEF Numbered
  <2>2. m + 1 <= n /\ m + 1 \in m + 1 .. n
    BY <2>1
  <2>3. PICK i \in DOMAIN q : q[i].from = c /\ q[i].no = m + 1
    BY <2>2 DEF Numbered
  <2>4. NumberedLine(q[i], c) /\ i \in Nat
    BY <1>1, <2>3 DEF NumberedLine
  <2>5. q[1].no = m + 1
    <3>1. CASE i = 1
      BY <2>3, <3>1
    <3>2. CASE 1 < i
      <4>1. q[1].no < q[i].no
        BY <1>2, <1>6, <2>4, <3>2 DEF Numbered
      <4> QED
        BY <2>1, <2>3, <4>1
    <3> QED
      BY <1>1, <3>1, <3>2
  <2>6. ASSUME NEW j \in DOMAIN r, NumberedLine(r[j], c) PROVE r[j].no \in m + 1 + 1 .. n
    <3>1. r[j].no \in m + 1 .. n /\ m + 1 < r[j].no
      BY <1>2, <1>4, <1>6, <2>5, <2>6 DEF Numbered
    <3> QED
      BY <3>1
  <2>7. ASSUME NEW k \in m + 1 + 1 .. n PROVE \E j \in DOMAIN r : r[j].from = c /\ r[j].no = k
    <3>1. k \in m + 1 .. n /\ k # m + 1
      OBVIOUS
    <3>2. PICK j \in DOMAIN q : q[j].from = c /\ q[j].no = k
      BY <3>1 DEF Numbered
    <3> QED
      BY <1>3, <2>5, <3>1, <3>2
  <2> QED
    BY <1>4, <2>2, <2>5, <2>6, <2>7 DEF Numbered
<1> QED
  BY <1>5, <1>6 DEF r

(* Where no numbered line of c is left, all of them are kept. *)
LEMMA NumberedNone ==
  ASSUME NEW c, NEW m \in Nat, NEW n \in Nat, NEW q \in Seq(Lines),
         \A i \in DOMAIN q : ~NumberedLine(q[i], c)
  PROVE  /\ Numbered(c, m, n, q) => m = n
         /\ Numbered(c, 0, 0, q)
<1>1. ASSUME Numbered(c, m, n, q), m # n PROVE FALSE
  <2>1. m + 1 \in m + 1 .. n /\ m + 1 # 0
    BY <1>1 DEF Numbered
  <2>2. PICK i \in DOMAIN q : q[i].from = c /\ q[i].no = m + 1
    BY <1>1, <2>1 DEF Numbered
  <2> QED
    BY <2>1, <2>2 DEF NumberedLine
<1>2. 1 .. 0 = {}
  OBVIOUS
<1> QED
  BY <1>1, <1>2 DEF Numbered

(* Adding a line keeps the pairs: a PDU behind its code, or another line where no
   code waits for one. *)
LEMMA PairedAppend ==
  ASSUME NEW half, NEW half2, NEW q \in Seq(Lines), NEW l \in Lines, Paired(q, half),
         \/ half # None /\ half2 = None /\ l.text = "PDU"
         \/ half = None /\ l.text # "PDU" /\ (half2 # None <=> l.text = "SMS")
  PROVE  Paired(Append(q, l), half2)
<1> DEFINE r == Append(q, l)
<1>1. /\ Len(q) \in Nat /\ DOMAIN q = 1 .. Len(q) /\ DOMAIN r = 1 .. Len(q) + 1
      /\ r[Len(q) + 1] = l /\ (\A i \in 1 .. Len(q) : r[i] = q[i])
      /\ Len(r) = Len(q) + 1 /\ r # << >>
      /\ q # << >> => Len(q) \in DOMAIN q
  OBVIOUS
<1> HIDE DEF r
<1>2. ASSUME NEW i \in DOMAIN r, r[i].text = "SMS"
      PROVE  IF i = Len(r) THEN half2 # None ELSE r[i + 1].text = "PDU"
  <2>1. CASE i \in 1 .. Len(q)
    <3>1. /\ i # Len(r) /\ q[i].text = "SMS" /\ i \in DOMAIN q
          /\ IF i = Len(q) THEN r[i + 1] = l ELSE r[i + 1] = q[i + 1]
      BY <1>1, <1>2, <2>1
    <3> QED
      BY <3>1 DEF Paired
  <2>2. CASE i = Len(q) + 1
    BY <1>1, <1>2, <2>2
  <2> QED
    BY <1>1, <2>1, <2>2
<1>3. ASSUME NEW i \in DOMAIN r, r[i].text = "PDU" PROVE i # 1 /\ r[i - 1].text = "SMS"
  <2>1. CASE i \in 1 .. Len(q)
    <3>1. q[i].text = "PDU" /\ i \in DOMAIN q
      BY <1>1, <1>3, <2>1
    <3>2. i # 1 /\ q[i - 1].text = "SMS"
      BY <3>1 DEF Paired
    <3>3. r[i - 1] = q[i - 1]
      BY <1>1, <2>1, <3>2
    <3> QED
      BY <3>2, <3>3
  <2>2. CASE i = Len(q) + 1
    <3>1. half # None /\ q # << >> /\ q[Len(q)].text = "SMS"
      BY <1>1, <1>3, <2>2 DEF Paired
    <3>2. r[i - 1] = q[Len(q)] /\ i # 1
      BY <1>1, <2>2, <3>1
    <3> QED
      BY <3>1, <3>2
  <2> QED
    BY <1>1, <2>1, <2>2
<1>4. half2 # None => r # << >> /\ r[Len(r)].text = "SMS"
  BY <1>1
<1> QED
  BY <1>2, <1>3, <1>4 DEF Paired, r

(* Taking the first line keeps the pairs, when it is no code, or is taken with its PDU. *)
LEMMA PairedTail ==
  ASSUME NEW half, NEW q \in Seq(Lines), q # << >>, Paired(q, half)
  PROVE  /\ q[1].text # "PDU"
         /\ q[1].text # "SMS" => Paired(Tail(q), half)
         /\ q[1].text = "SMS" /\ Tail(q) # << >> =>
              Tail(q)[1].text = "PDU" /\ Paired(Tail(Tail(q)), half)
<1>1. ASSUME NEW k \in Nat, NEW r, NEW n \in Nat, n = Len(r), DOMAIN r = 1 .. n,
             Len(q) = n + k, k # 0, \A i \in 1 .. n : r[i] = q[i + k],
             q[k].text # "SMS"
      PROVE  Paired(r, half)
  <2>0. DOMAIN q = 1 .. Len(q)
    OBVIOUS
  <2>1. DOMAIN q = 1 .. n + k /\ \A i \in 1 .. n : i + k \in DOMAIN q /\ (i = n <=> i + k = Len(q))
    <3>1. \A i \in 1 .. n : i + k \in 1 .. n + k /\ (i = n <=> i + k = n + k)
      BY <1>1
    <3> QED
      BY <1>1, <2>0, <3>1
  <2>2. ASSUME NEW i \in DOMAIN r, r[i].text = "SMS"
        PROVE  IF i = Len(r) THEN half # None ELSE r[i + 1].text = "PDU"
    <3>1. q[i + k].text = "SMS" /\ i + k \in DOMAIN q
      BY <1>1, <2>1, <2>2
    <3>2. IF i + k = Len(q) THEN half # None ELSE q[i + k + 1].text = "PDU"
      BY <3>1 DEF Paired
    <3>3. i # n => r[i + 1] = q[i + k + 1]
      <4>1. \A j \in 1 .. n : j # n => j + 1 \in 1 .. n /\ (j + 1) + k = j + k + 1
        OBVIOUS
      <4> QED
        BY <1>1, <2>2, <4>1
    <3> QED
      BY <1>1, <2>1, <2>2, <3>2, <3>3
  <2>3. ASSUME NEW i \in DOMAIN r, r[i].text = "PDU" PROVE i # 1 /\ r[i - 1].text = "SMS"
    <3>1. q[i + k].text = "PDU" /\ i + k \in DOMAIN q
      BY <1>1, <2>1, <2>3
    <3>0. \A j \in DOMAIN q : q[j].text = "PDU" => q[j - 1].text = "SMS"
      BY DEF Paired
    <3>2. q[(i + k) - 1].text = "SMS"
      BY <3>0, <3>1
    <3>a. \A j \in 1 .. n : /\ j = 1 => (j + k) - 1 = k
                            /\ j # 1 => j - 1 \in 1 .. n /\ (j - 1) + k = (j + k) - 1
      OBVIOUS
    <3>3. i = 1 => (i + k) - 1 = k
      BY <1>1, <3>a
    <3>4. i # 1 => i - 1 \in 1 .. n /\ (i - 1) + k = (i + k) - 1
      BY <1>1, <3>a
    <3> QED
      BY <1>1, <3>2, <3>3, <3>4
  <2>4. half # None => r # << >> /\ r[Len(r)].text = "SMS"
    <3>1. ASSUME half # None PROVE q[n + k].text = "SMS"
      BY <1>1, <3>1 DEF Paired
    <3>2. half # None => n # 0
      BY <1>1, <3>1
    <3>3. n # 0 => n \in 1 .. n
      OBVIOUS
    <3>4. n # 0 => r # << >>
      BY <1>1
    <3> QED
      BY <1>1, <3>1, <3>2, <3>3, <3>4
  <2> QED
    BY <2>2, <2>3, <2>4 DEF Paired
<1>2. /\ DOMAIN q = 1 .. Len(q) /\ Len(q) \in Nat \ {0} /\ 1 \in DOMAIN q
      /\ Tail(q) \in Seq(Lines) /\ Len(Tail(q)) = Len(q) - 1
      /\ \A i \in 1 .. Len(q) - 1 : Tail(q)[i] = q[i + 1]
  OBVIOUS
<1>3. q[1].text # "PDU"
  BY <1>2 DEF Paired
<1>4. ASSUME q[1].text # "SMS" PROVE Paired(Tail(q), half)
  <2>1. DOMAIN Tail(q) = 1 .. Len(q) - 1 /\ Len(q) - 1 \in Nat /\ Len(q) = (Len(q) - 1) + 1
    BY <1>2
  <2>2. 1 \in Nat /\ 1 # 0
    OBVIOUS
  <2> HIDE DEF Paired
  <2> QED
    BY <1>1, <1>2, <1>4, <2>1, <2>2
<1>5. ASSUME q[1].text = "SMS", Tail(q) # << >>
      PROVE  Tail(q)[1].text = "PDU" /\ Paired(Tail(Tail(q)), half)
  <2>1. Len(q) # 1 /\ Tail(q)[1] = q[2]
    BY <1>2, <1>5
  <2>2. q[2].text = "PDU"
    BY <1>2, <1>5, <2>1 DEF Paired
  <2>3. /\ Tail(Tail(q)) \in Seq(Lines) /\ Len(Tail(Tail(q))) = Len(q) - 2
        /\ Len(q) - 2 \in Nat /\ Len(q) = (Len(q) - 2) + 2
        /\ DOMAIN Tail(Tail(q)) = 1 .. Len(q) - 2
        /\ \A i \in 1 .. Len(q) - 2 : Tail(Tail(q))[i] = q[i + 2]
    BY <1>2, <1>5, <2>1
  <2>4. 2 \in Nat /\ 2 # 0 /\ q[2].text # "SMS"
    BY <2>2
  <2> QED
    BY <1>1, <2>1, <2>2, <2>3, <2>4
<1> QED
  BY <1>3, <1>4, <1>5
-----------------------------------------------------------------------------
(* One step *)

\* The line the modem sends in a step: one for the first command it has still to
\* answer, a URC, or the second half of one
FromCommand(l) ==
  /\ toModem # << >> /\ l.from = Head(toModem) /\ l.from \in Commands
  /\ l.text \notin {"SMS", "PDU"} /\ smsHalf = None /\ UNCHANGED << smsHalf, urcSent >>
  /\ \/ l.no = 0 /\ UNCHANGED lines
     \/ /\ l.no = lines[l.from] + 1 /\ l.no <= MostLines(l.from)
        /\ lines' = [lines EXCEPT ![l.from] = l.no]
FromUrc(l) ==
  /\ l.from \in inst.urcs \ urcSent /\ l.text = UrcText[l.from] /\ l.no = 0 /\ UNCHANGED lines
  /\ urcSent' = urcSent \cup {l.from}
  /\ smsHalf = None /\ smsHalf' = IF l.text = "SMS" THEN l.from ELSE None
SecondHalf(l) ==
  /\ smsHalf # None /\ l.from = smsHalf /\ l.text = "PDU" /\ l.no = 0
  /\ smsHalf' = None /\ UNCHANGED << lines, urcSent >>

(* A step of the modem adds at most one line, of its kind and shape. *)
LEMMA ModemStep ==
  ASSUME TypeOK, LinesOk, UNCHANGED inst, Modem
  PROVE  /\ UNCHANGED << rank, written, sender, outcome, m_response, resp, reader, urcs >>
         /\ \/ UNCHANGED << pty, lines, smsHalf, urcSent >>
            \/ \E l \in Lines : /\ pty' = Append(pty, l) /\ Shaped(inst.numericSet, l)
                                /\ FromCommand(l) \/ FromUrc(l) \/ SecondHalf(l)
<1>1. UNCHANGED << rank, written, sender, outcome, m_response, resp, reader, urcs >>
  BY DEF Modem, ModemAck, ModemLine, ModemFinal, ModemUrc, ModemSecondLine, ModemPowerOff,
         CloseChannel, EnvUnchanged, senderVars, rankVars
<1>2. /\ smsHalf \in inst.urcs \cup {None} /\ inst.urcs \subseteq Urcs
      /\ Commands \cap Urcs = {} /\ None \notin Commands \cup Urcs
  BY ChannelAssumption DEF LinesOk
<1>3. toModem # << >> => Head(toModem) \in Commands
  BY ListTyped DEF TypeOK
<1> DEFINE Sent1 == \E l \in Lines : /\ pty' = Append(pty, l) /\ Shaped(inst.numericSet, l)
                                     /\ FromCommand(l) \/ FromUrc(l) \/ SecondHalf(l)
<1>4. ASSUME ModemAck PROVE Sent1
  <2> DEFINE l == Line("ACK", Head(toModem), 0)
  <2>1. /\ toModem # << >> /\ pty' = Append(pty, l) /\ smsHalf = None
        /\ UNCHANGED << smsHalf, urcSent, lines >>
    BY <1>4 DEF ModemAck, ModemSends, ModemWrites
  <2>2. l \in Lines /\ l.from = Head(toModem) /\ l.from \in Commands /\ l.text = "ACK" /\ l.no = 0
    BY <1>3, <2>1, ModemLinesTyped DEF Line
  <2> HIDE DEF l
  <2>3. Shaped(inst.numericSet, l) /\ FromCommand(l)
    BY <2>1, <2>2 DEF Shaped, FromCommand
  <2> QED
    BY <2>1, <2>2, <2>3
<1>5. ASSUME ModemLine PROVE Sent1
  <2> DEFINE c == Head(toModem)
             l == Line(TextOf(c), c, lines[c] + 1)
  <2>1. /\ toModem # << >> /\ pty' = Append(pty, l) /\ smsHalf = None
        /\ UNCHANGED << smsHalf, urcSent >> /\ lines[c] < MostLines(c)
        /\ lines' = [lines EXCEPT ![c] = lines[c] + 1]
    BY <1>5 DEF ModemLine, ModemSends, ModemWrites, TextOf
  <2>2. c \in Commands
    BY <1>3, <2>1
  <2>3. l.from = c /\ l.text = TextOf(c) /\ l.no = lines[c] + 1
    BY DEF Line
  <2>4. l \in Lines /\ l.no # 0 /\ l.no <= MostLines(c)
    <3> HIDE DEF c
    <3>1. lines[c] \in 0 .. MaxLines /\ MostLines(c) <= MaxLines /\ MostLines(c) \in Nat
          /\ MaxLines \in Nat
      BY <2>2, ModemLinesTyped, ChannelAssumption DEF TypeOK, MostLines
    <3>2. lines[c] + 1 \in 0 .. MaxLines /\ lines[c] + 1 # 0 /\ lines[c] + 1 <= MostLines(c)
      BY <2>1, <3>1
    <3>3. l \in Lines
      BY <2>2, <3>2, ModemLinesTyped DEF TextOf
    <3> QED
      BY <2>3, <3>2, <3>3
  <2> HIDE DEF l
  <2>5. l.text \notin {"SMS", "PDU"}
    BY <2>2, <2>3, ChannelAssumption DEF TextOf
  <2>6. Shaped(inst.numericSet, l) /\ FromCommand(l)
    BY <2>1, <2>2, <2>3, <2>4, <2>5 DEF Shaped, FromCommand
  <2> QED
    BY <2>1, <2>4, <2>6
<1>6. ASSUME ModemFinal PROVE Sent1
  <2> DEFINE c == Head(toModem)
  <2>1. PICK t \in FinalsOf(inst.numericSet, c) : smsHalf = None /\ pty' = Append(pty, Line(t, c, 0))
    BY <1>6 DEF ModemFinal, ModemSends, ModemWrites, FinalsOf, IsNumericSet
  <2> DEFINE l == Line(t, c, 0)
  <2>2. toModem # << >> /\ UNCHANGED << smsHalf, urcSent, lines >> /\ pty' = Append(pty, l)
    BY <1>6, <2>1 DEF ModemFinal
  <2>3. t \in {"OK", "CME_ERROR", "0", "4"}
    BY DEF FinalsOf
  <2>4. l \in Lines /\ l.from = c /\ c \in Commands /\ l.text = t /\ l.no = 0
    BY <1>3, <2>2, <2>3, ModemLinesTyped DEF Line
  <2> HIDE DEF l, c
  <2>5. Shaped(inst.numericSet, l)
    BY <2>1, <2>4 DEF Shaped
  <2>6. FromCommand(l)
    BY <2>1, <2>2, <2>3, <2>4 DEF FromCommand, c
  <2> QED
    BY <2>2, <2>4, <2>5, <2>6
<1>7. ASSUME NEW u \in inst.urcs, ModemUrc(u) PROVE Sent1
  <2> DEFINE l == Line(UrcText[u], u, 0)
  <2>1. /\ pty' = Append(pty, l) /\ smsHalf = None /\ u \notin urcSent /\ UNCHANGED lines
        /\ urcSent' = urcSent \cup {u} /\ smsHalf' = IF UrcText[u] = "SMS" THEN u ELSE None
    BY <1>7 DEF ModemUrc, ModemSends, ModemWrites
  <2>2. l \in Lines /\ l.from = u /\ l.text = UrcText[u] /\ l.no = 0
    BY <1>2, ModemLinesTyped DEF Line
  <2> HIDE DEF l
  <2>3. Shaped(inst.numericSet, l) /\ FromUrc(l)
    BY <1>2, <2>1, <2>2 DEF Shaped, FromUrc
  <2> QED
    BY <2>1, <2>2, <2>3
<1>8. ASSUME ModemSecondLine PROVE Sent1
  <2> DEFINE l == Line("PDU", smsHalf, 0)
  <2>1. /\ pty' = Append(pty, l) /\ smsHalf # None /\ smsHalf' = None /\ UNCHANGED << lines, urcSent >>
    BY <1>8 DEF ModemSecondLine, ModemWrites
  <2>2. l \in Lines /\ l.from = smsHalf /\ smsHalf \in Urcs /\ l.text = "PDU" /\ l.no = 0
    BY <1>2, <2>1, ModemLinesTyped DEF Line
  <2> HIDE DEF l
  <2>3. Shaped(inst.numericSet, l) /\ SecondHalf(l)
    BY <1>2, <2>1, <2>2 DEF Shaped, SecondHalf
  <2> QED
    BY <2>1, <2>2, <2>3
<1>9. ASSUME ModemPowerOff \/ CloseChannel PROVE UNCHANGED << pty, lines, smsHalf, urcSent >>
  BY <1>9 DEF ModemPowerOff, CloseChannel
<1> QED
  BY <1>1, <1>4, <1>5, <1>6, <1>7, <1>8, <1>9 DEF Modem

(* The first line of the pty, and the others. *)
LEMMA PtyTail ==
  ASSUME TypeOK, pty # << >>, pty' = Tail(pty)
  PROVE  /\ Head(pty) = pty[1] /\ 1 \in DOMAIN pty /\ pty[1] \in Lines /\ pty' \in Seq(Lines)
         /\ Cons(pty[1], pty') = pty
         /\ \A i \in DOMAIN pty' : i + 1 \in DOMAIN pty /\ pty'[i] = pty[i + 1]
<1>1. /\ pty \in Seq(Lines) /\ DOMAIN pty = 1 .. Len(pty) /\ Len(pty) \in Nat \ {0}
      /\ Head(pty) = pty[1] /\ DOMAIN pty' = 1 .. Len(pty) - 1 /\ pty' \in Seq(Lines)
      /\ \A i \in 1 .. Len(pty) - 1 : pty'[i] = pty[i + 1]
  BY DEF TypeOK
<1>2. Cons(Head(pty), Tail(pty)) = pty
  BY <1>1, ConsFacts, ListTyped
<1> QED
  BY <1>1, <1>2

(* What is under way has the shape the modem gave it. *)
LEMMA ShapedStep ==
  ASSUME TypeOK, ThreadsApart, CommandTracked, LinesOk, LinesShaped, UNCHANGED inst,
         Steps \/ UNCHANGED vars
  PROVE  LinesShaped'
<1>0. \A c \in Commands : lines[c] \in Nat /\ rank[c] \in Nat
  BY ChannelAssumption DEF TypeOK
<1>1. ASSUME SenderSteps PROVE LinesShaped'
  <2>1. UNCHANGED << pty, lines >> /\ (Held' => Held /\ UNCHANGED reader)
    <3>1. UNCHANGED lines
      BY <1>1 DEF SenderSteps, Sender, AtSendCommand, WriteLine, Publish, Wake, TimeOut,
                  ReturnTimeout, modemVars
    <3> QED
      BY <1>1, <3>1, SenderFacts DEF Held
  <2>2. \A c \in Commands : rank[c] # 0 => rank'[c] # 0
    BY <1>1, SenderFacts DEF Write, TypeOK
  <2> QED
    BY <2>1, <2>2 DEF LinesShaped, MostLines
<1>2. ASSUME ReadLine \/ ReadSecondLine \/ ReadEof \/ ReaderLock PROVE LinesShaped'
  <2>1. UNCHANGED << lines, rank >>
    BY <1>2 DEF ReadLine, ReadSecondLine, ReadEof, ReaderLock, modemVars, senderVars, rankVars
  <2>2. CASE pty' = pty /\ (Held' => Held /\ reader'.line = reader.line)
    BY <2>1, <2>2 DEF LinesShaped, MostLines
  <2>3. CASE pty # << >> /\ pty' = Tail(pty) /\ (Held' => reader'.line = Head(pty))
    BY <2>1, <2>3, PtyTail DEF LinesShaped, MostLines
  <2> QED
    BY <1>2, <2>2, <2>3, ReaderTakes
<1>3. ASSUME ProcessLine PROVE LinesShaped'
  <2>1. UNCHANGED << pty, lines, rank >> /\ ~Held'
    BY <1>3 DEF ProcessLine, Held, modemVars, senderVars, rankVars
  <2> QED
    BY <2>1 DEF LinesShaped, MostLines
<1>4. ASSUME Modem PROVE LinesShaped'
  <2>0. UNCHANGED << rank, reader >>
    BY <1>4, ModemStep
  <2>1. CASE UNCHANGED << pty, lines, smsHalf, urcSent >>
    BY <2>0, <2>1 DEF LinesShaped, Held, MostLines
  <2>2. ASSUME NEW l \in Lines, pty' = Append(pty, l), Shaped(inst.numericSet, l),
               FromCommand(l) \/ FromUrc(l) \/ SecondHalf(l)
        PROVE  LinesShaped'
    <3>0. pty \in Seq(Lines)
      BY DEF TypeOK
    <3>1. \A i \in DOMAIN pty' : (i \in DOMAIN pty /\ pty'[i] = pty[i]) \/ pty'[i] = l
      BY <2>2, <3>0
    <3>2. /\ \A i \in DOMAIN pty' : Shaped(inst.numericSet, pty'[i])
          /\ Held' => Shaped(inst.numericSet, reader'.line)
      BY <2>0, <2>2, <3>1 DEF LinesShaped, Held
    <3>3. \A c \in Commands : lines'[c] <= MostLines(c) /\ (lines'[c] # 0 => rank[c] # 0)
      <4>1. CASE UNCHANGED lines
        BY <4>1 DEF LinesShaped
      <4>2. CASE /\ FromCommand(l) /\ l.no <= MostLines(l.from)
                 /\ lines' = [lines EXCEPT ![l.from] = l.no]
        <5>1. rank[l.from] # 0
          <6>1. 1 \in DOMAIN toModem /\ l.from = toModem[1]
            BY <4>2 DEF FromCommand, TypeOK
          <6> QED
            BY <6>1 DEF LinesOk
        <5> QED
          BY <4>2, <5>1 DEF LinesShaped, TypeOK
      <4> QED
        BY <2>2, <4>1, <4>2 DEF FromCommand, FromUrc, SecondHalf
    <3> QED
      BY <2>0, <3>2, <3>3 DEF LinesShaped, MostLines
  <2> QED
    BY <1>4, <2>1, <2>2, ModemStep
<1>5. ASSUME UNCHANGED vars PROVE LinesShaped'
  <2>1. UNCHANGED << pty, lines, rank, reader, inst >>
    BY <1>5 DEF vars, modemVars, senderVars, rankVars
  <2> QED
    BY <2>1 DEF LinesShaped, Held, MostLines
<1>6. inst.commands \subseteq Commands
  BY ChannelAssumption DEF LinesOk
<1> QED
  BY <1>1, <1>2, <1>3, <1>4, <1>5, <1>6 DEF Steps, Reader, SenderSteps

(* While the reader waits for a PDU, the code it holds is the first of what is unread. *)
LEMMA UnreadCode ==
  ASSUME TypeOK, ThreadsApart, reader.pc = "sms"
  PROVE  /\ Unread \in Seq(Lines) /\ Unread # << >> /\ Unread[1] = reader.line
         /\ Tail(Unread) = pty
<1>1. reader.line \in Lines /\ pty \in Seq(Lines) /\ Unread = Cons(reader.line, pty)
  BY DEF TypeOK, ThreadsApart, Unread
<1>2. /\ Cons(reader.line, pty) \in Seq(Lines) /\ Cons(reader.line, pty) # << >>
      /\ Cons(reader.line, pty)[1] = reader.line /\ Tail(Cons(reader.line, pty)) = pty
  BY <1>1, ConsFacts
<1> QED
  BY <1>1, <1>2

(* A code and its PDU stay together, and the reader sorts neither of them. *)
LEMMA PairedStep ==
  ASSUME TypeOK, ThreadsApart, CommandTracked, LinesOk, SmsPaired, UNCHANGED inst,
         Steps \/ UNCHANGED vars
  PROVE  SmsPaired'
<1> DEFINE Goes(pc) == pc \notin {"stopped", "aborted"}
<1>0. pty \in Seq(Lines) /\ (reader.pc \in {"sms", "lock", "process"} => reader.line \in Lines)
  BY DEF TypeOK, ThreadsApart
<1>1. ASSUME SenderSteps PROVE SmsPaired'
  <2>1. CASE UNCHANGED << pty, smsHalf, reader >>
    BY <2>1 DEF SmsPaired, Unread, Held
  <2>2. CASE reader' = [pc |-> "aborted", line |-> NoLine]
    BY <2>2 DEF SmsPaired, Held
  <2> QED
    BY <1>1, <2>1, <2>2, SenderFacts
<1>2. ASSUME ReadLine PROVE SmsPaired'
  <2> DEFINE l == pty[1]
  <2>1. /\ pty # << >> /\ pty' = Tail(pty) /\ reader.pc = "read" /\ UNCHANGED smsHalf
        /\ reader' = [pc |-> IF Head(pty).text = "SMS" THEN "sms" ELSE "lock", line |-> Head(pty)]
    BY <1>2 DEF ReadLine, Readline, IsSMSUnsolicited, modemVars
  <2>2. Head(pty) = l /\ Cons(l, pty') = pty
    BY <2>1, PtyTail
  <2>3. Unread = pty /\ Paired(pty, smsHalf)
    BY <2>1 DEF SmsPaired, Unread
  <2>4. l.text # "PDU" /\ (l.text # "SMS" => Paired(pty', smsHalf))
    BY <1>0, <2>1, <2>3, PairedTail
  <2> HIDE DEF l
  <2>5. CASE l.text = "SMS"
    <3>1. reader' = [pc |-> "sms", line |-> l] /\ Unread' = pty
      BY <2>1, <2>2, <2>5 DEF Unread
    <3> QED
      BY <2>1, <2>3, <2>5, <3>1 DEF SmsPaired, Held
  <2>6. CASE l.text # "SMS"
    <3>1. reader' = [pc |-> "lock", line |-> l] /\ Unread' = pty'
      BY <2>1, <2>2, <2>6 DEF Unread
    <3> QED
      BY <2>1, <2>4, <2>6, <3>1 DEF SmsPaired, Held
  <2> QED
    BY <2>5, <2>6
<1>3. ASSUME ReadSecondLine PROVE SmsPaired'
  <2>1. /\ pty # << >> /\ pty' = Tail(pty) /\ reader.pc = "sms" /\ UNCHANGED smsHalf
        /\ reader' = [pc |-> "read", line |-> NoLine]
    BY <1>3 DEF ReadSecondLine, Readline, modemVars
  <2>2. /\ Unread = Cons(reader.line, pty) /\ Paired(Unread, smsHalf) /\ reader.line.text = "SMS"
        /\ Unread' = pty'
    BY <2>1 DEF SmsPaired, Unread
  <2>3. /\ Unread \in Seq(Lines) /\ Unread # << >> /\ Unread[1] = reader.line
        /\ Tail(Unread) = pty
    BY <2>1, UnreadCode
  <2>4. Paired(pty', smsHalf)
    BY <2>1, <2>2, <2>3, PairedTail
  <2> QED
    BY <2>1, <2>2, <2>4 DEF SmsPaired, Held
<1>4. ASSUME ReadEof \/ ReaderLock PROVE SmsPaired'
  BY <1>4 DEF ReadEof, ReaderLock, SmsPaired, Unread, Held, modemVars
<1>5. ASSUME ProcessLine PROVE SmsPaired'
  BY <1>5 DEF ProcessLine, SmsPaired, Unread, Held, modemVars
<1>6. ASSUME Modem PROVE SmsPaired'
  <2>0. UNCHANGED reader
    BY <1>6, ModemStep
  <2>1. CASE UNCHANGED << pty, lines, smsHalf, urcSent >>
    BY <2>0, <2>1 DEF SmsPaired, Unread, Held
  <2>2. ASSUME NEW l \in Lines, pty' = Append(pty, l), FromCommand(l) \/ FromUrc(l) \/ SecondHalf(l)
        PROVE  SmsPaired'
    <3>1. \/ smsHalf # None /\ smsHalf' = None /\ l.text = "PDU"
          \/ smsHalf = None /\ l.text # "PDU" /\ (smsHalf' # None <=> l.text = "SMS")
      <4>1. CASE FromCommand(l) \/ SecondHalf(l)
        BY <4>1 DEF FromCommand, SecondHalf
      <4>2. CASE FromUrc(l)
        <5>1. l.from \in Urcs /\ l.from # None /\ UrcText[l.from] # "PDU"
          BY <4>2, ChannelAssumption DEF FromUrc, LinesOk
        <5> QED
          BY <4>2, <5>1 DEF FromUrc
      <4> QED
        BY <2>2, <4>1, <4>2
    <3>2. Unread \in Seq(Lines) /\ Unread' = Append(Unread, l)
      <4>1. CASE reader.pc = "sms"
        <5>1. reader.line \in Lines /\ pty \in Seq(Lines)
          BY <1>0, <4>1
        <5>2. /\ Cons(reader.line, pty) \in Seq(Lines)
              /\ Append(Cons(reader.line, pty), l) = Cons(reader.line, Append(pty, l))
          BY <5>1, ConsFacts
        <5> QED
          BY <2>0, <2>2, <4>1, <5>2 DEF Unread
      <4>2. CASE reader.pc # "sms"
        BY <1>0, <2>0, <2>2, <4>2 DEF Unread
      <4> QED
        BY <4>1, <4>2
    <3>3. Paired(Unread, smsHalf) => Paired(Unread', smsHalf')
      BY <3>1, <3>2, PairedAppend
    <3> QED
      BY <2>0, <3>3 DEF SmsPaired, Held
  <2> QED
    BY <1>6, <2>1, <2>2, ModemStep
<1>7. ASSUME UNCHANGED vars PROVE SmsPaired'
  <2>1. UNCHANGED << pty, smsHalf, reader >>
    BY <1>7 DEF vars, modemVars
  <2> QED
    BY <2>1 DEF SmsPaired, Unread, Held
<1>8. inst.commands \subseteq Commands
  BY ChannelAssumption DEF LinesOk
<1> QED
  BY <1>1, <1>2, <1>3, <1>4, <1>5, <1>6, <1>7, <1>8 DEF Steps, Reader, SenderSteps

(* A final response, once there, stays. *)
LEMMA FinalStays ==
  ASSUME TypeOK, ThreadsApart, CommandTracked, LinesOk, UNCHANGED inst, Steps \/ UNCHANGED vars,
         NEW c \in Commands, resp[c].final # NoLine
  PROVE  resp'[c].final # NoLine
<1>1. CASE SenderSteps
  BY <1>1, SenderFacts
<1>2. CASE ReadLine \/ ReadSecondLine \/ ReadEof \/ ReaderLock
  BY <1>2, ReaderTakes
<1>3. CASE ProcessLine
  <2>1. resp'[c].final = resp[c].final \/ EndsAnswer(resp'[c].final)
    BY <1>3, ProcessFacts
  <2> QED
    BY <2>1, EndIsLine
<1>4. CASE Modem
  BY <1>4, ModemStep
<1>5. CASE UNCHANGED vars
  BY <1>5 DEF vars
<1>6. inst.commands \subseteq Commands
  BY ChannelAssumption DEF LinesOk
<1> QED
  BY <1>1, <1>2, <1>3, <1>4, <1>5, <1>6 DEF Steps, Reader, SenderSteps

(* No two commands have one number, the published response is the sender's, and an
   answered command has a final response. *)
LEMMA TrackedStep ==
  ASSUME TypeOK, ThreadsApart, CommandTracked, LinesOk, AnswerTracked, UNCHANGED inst,
         Steps \/ UNCHANGED vars
  PROVE  AnswerTracked'
<1> USE DEF modemVars, rankVars, senderVars
<1>0. \A c \in Commands : resp[c].final # NoLine => resp'[c].final # NoLine
  BY FinalStays
<1> DEFINE Answered == \A c \in Commands :
             outcome'[c] \in {"OK", "INVALID_RESPONSE", "ERROR"} => resp'[c].final # NoLine
           Distinct == \A c, d \in Commands : rank'[c] = rank'[d] /\ rank'[c] # 0 => c = d
           Published == sender'.pc \in {"wait", "timedout"} => m_response' = sender'.cmd
<1>a. UNCHANGED outcome => Answered
  BY <1>0 DEF AnswerTracked
<1>b. UNCHANGED rank => Distinct
  BY DEF AnswerTracked
<1>c. UNCHANGED << sender, m_response >> => Published
  BY DEF AnswerTracked
<1>d. ASSUME NEW c \in Commands, NEW r, outcome' = [outcome EXCEPT ![c] = r],
             r \in {"OK", "INVALID_RESPONSE", "ERROR"} => resp'[c].final # NoLine
      PROVE  Answered
  <2>1. \A d \in Commands \ {c} : outcome'[d] = outcome[d]
    BY <1>d DEF TypeOK
  <2>2. outcome'[c] = r
    BY <1>d DEF TypeOK
  <2> QED
    BY <1>0, <1>d, <2>1, <2>2 DEF AnswerTracked
<1> SUFFICES Answered /\ Distinct /\ Published
  BY DEF AnswerTracked, NoLine
<1>1. ASSUME NEW c \in Commands, AtSendCommand(c) PROVE Answered /\ Distinct /\ Published
  <2>1. UNCHANGED << rank, resp, m_response >>
    BY <1>1 DEF AtSendCommand
  <2>2. Published
    BY <1>1 DEF AtSendCommand
  <2>3. Answered
    <3>1. "RADIO_UNAVAILABLE" \notin {"OK", "INVALID_RESPONSE", "ERROR"}
      OBVIOUS
    <3> HIDE DEF Answered
    <3> QED
      BY <1>1, <1>a, <1>d, <3>1 DEF AtSendCommand
  <2> QED
    BY <1>b, <2>1, <2>2, <2>3
<1>2. ASSUME WriteLine PROVE Answered /\ Distinct /\ Published
  <2>0. sender.cmd \in Commands
    BY <1>2 DEF WriteLine, CommandTracked
  <2>1. CASE Return(sender.cmd, "GENERIC") /\ UNCHANGED << toModem, rankVars >>
    <3>1. "GENERIC" \notin {"OK", "INVALID_RESPONSE", "ERROR"}
      OBVIOUS
    <3>2. Published
      BY <2>1 DEF Return
    <3> HIDE DEF Answered, Distinct, Published
    <3> QED
      BY <1>b, <1>d, <2>0, <2>1, <3>1, <3>2 DEF Return
  <2>2. CASE /\ Write(sender.cmd) /\ sender' = [pc |-> "publish", cmd |-> sender.cmd]
             /\ UNCHANGED << outcome, m_response >>
    <3>1. Published
      BY <2>2
    <3>2. Distinct
      <4>1. /\ written \in Nat /\ \A c \in Commands : rank[c] \in 0 .. written
            /\ \A c \in Commands : rank'[c] = IF c = sender.cmd THEN written + 1 ELSE rank[c]
        BY <2>2 DEF Write, TypeOK
      <4>2. \A c \in Commands : rank[c] # written + 1
        BY <4>1
      <4> QED
        BY <4>1, <4>2 DEF AnswerTracked
    <3> HIDE DEF Answered, Distinct, Published
    <3> QED
      BY <1>a, <2>2, <3>1, <3>2
  <2> QED
    BY <1>2, <2>1, <2>2 DEF WriteLine
<1>3. ASSUME Publish PROVE Answered /\ Distinct /\ Published
  BY <1>3, <1>a, <1>b DEF Publish
<1>4. ASSUME TimeOut PROVE Answered /\ Distinct /\ Published
  <2>1. UNCHANGED << outcome, rank, m_response >> /\ sender.pc = "wait" /\ sender'.cmd = sender.cmd
    BY <1>4 DEF TimeOut
  <2> QED
    BY <1>a, <1>b, <2>1 DEF AnswerTracked
<1>5. ASSUME Wake PROVE Answered /\ Distinct /\ Published
  <2>0. sender.cmd \in Commands /\ UNCHANGED rank
    BY <1>5 DEF Wake, CommandTracked
  <2>1. CASE /\ resp[sender.cmd].final # NoLine /\ Return(sender.cmd, Result(sender.cmd))
    <3>1. Published
      BY <2>1 DEF Return
    <3>2. resp'[sender.cmd].final # NoLine
      BY <1>0, <2>0, <2>1
    <3> HIDE DEF Answered, Distinct, Published
    <3> QED
      BY <1>b, <1>d, <2>0, <2>1, <3>1, <3>2 DEF Return
  <2>2. CASE UNCHANGED << sender, outcome, m_response >>
    BY <1>a, <1>b, <1>c, <2>0, <2>2
  <2> QED
    BY <1>5, <2>1, <2>2 DEF Wake
<1>6. ASSUME ReturnTimeout PROVE Answered /\ Distinct /\ Published
  <2>0. sender.cmd \in Commands /\ UNCHANGED rank /\ sender'.pc \notin {"wait", "timedout"}
    BY <1>6 DEF ReturnTimeout, CommandTracked, Return
  <2>1. UNCHANGED outcome \/ outcome' = [outcome EXCEPT ![sender.cmd] = "TIMEOUT"]
    BY <1>6 DEF ReturnTimeout, Return
  <2>2. "TIMEOUT" \notin {"OK", "INVALID_RESPONSE", "ERROR"}
    OBVIOUS
  <2>3. Published
    BY <2>0
  <2> HIDE DEF Answered, Distinct, Published
  <2> QED
    BY <1>a, <1>b, <1>d, <2>0, <2>1, <2>2, <2>3
<1>7. ASSUME Reader \/ Modem \/ UNCHANGED vars PROVE Answered /\ Distinct /\ Published
  <2>1. UNCHANGED << outcome, rank, sender, m_response >>
    BY <1>7, ModemStep DEF Reader, ReadLine, ReadSecondLine, ReadEof, ReaderLock, ProcessLine, vars
  <2> QED
    BY <1>a, <1>b, <1>c, <2>1
<1>8. inst.commands \subseteq Commands
  BY ChannelAssumption DEF LinesOk
<1> HIDE DEF Answered, Distinct, Published
<1> QED
  BY <1>1, <1>2, <1>3, <1>4, <1>5, <1>6, <1>7, <1>8 DEF Steps, Sender
-----------------------------------------------------------------------------
(* Complete answers *)

(* While nothing has timed out, only the current command has lines under way. *)
LEMMA OnlyCurrent ==
  ASSUME TypeOK, CommandTracked, AnswerTracked, TimedOut = {}, NEW d \in Commands,
         Outstanding(written, rank, Slack, d)
  PROVE  Unanswered /\ d = sender.cmd
<1>1. Slack = IF Unanswered THEN 1 ELSE 0
  BY FS_EmptySet DEF Slack
<1>2. written \in Nat /\ rank[d] \in 0 .. written
  BY DEF TypeOK
<1>3. Unanswered /\ rank[d] = written
  BY <1>1, <1>2 DEF Outstanding
<1>4. rank[sender.cmd] = written /\ written # 0 /\ sender.cmd \in Commands
  BY <1>3 DEF Unanswered, CommandTracked, OutPcs
<1> QED
  BY <1>3, <1>4 DEF AnswerTracked

(* The lines under way are those of the pty and the one the reader holds. *)
LEMMA UnderWayLines ==
  ASSUME TypeOK, ThreadsApart
  PROVE  /\ UnderWay \in Seq(Lines)
         /\ \A i \in DOMAIN UnderWay : \/ \E j \in DOMAIN pty : UnderWay[i] = pty[j]
                                       \/ Held /\ UnderWay[i] = reader.line
<1>1. pty \in Seq(Lines) /\ (Held => reader.line \in Lines) /\ DOMAIN pty = 1 .. Len(pty)
  BY DEF TypeOK, ThreadsApart, Held
<1>2. CASE Held
  <2>1. /\ Cons(reader.line, pty) \in Seq(Lines) /\ DOMAIN Cons(reader.line, pty) = 1 .. Len(pty) + 1
        /\ Cons(reader.line, pty)[1] = reader.line
        /\ \A i \in 1 .. Len(pty) : Cons(reader.line, pty)[i + 1] = pty[i]
    BY <1>1, <1>2, ConsFacts
  <2>2. \A i \in 1 .. Len(pty) + 1 : i = 1 \/ \E j \in 1 .. Len(pty) : i = j + 1
    <3> SUFFICES ASSUME NEW i \in 1 .. Len(pty) + 1, i # 1
                 PROVE  i - 1 \in 1 .. Len(pty) /\ i = (i - 1) + 1
      OBVIOUS
    <3>1. Len(pty) \in Nat
      BY <1>1
    <3> QED
      BY <3>1
  <2>3. UnderWay = Cons(reader.line, pty)
    BY <1>2 DEF UnderWay
  <2>4. ASSUME NEW i \in 1 .. Len(pty) + 1
        PROVE  (\E j \in DOMAIN pty : UnderWay[i] = pty[j]) \/ UnderWay[i] = reader.line
    <3>1. CASE i = 1
      BY <2>1, <2>3, <3>1
    <3>2. ASSUME NEW j \in 1 .. Len(pty), i = j + 1 PROVE UnderWay[i] = pty[j]
      BY <2>1, <2>3, <3>2
    <3> QED
      BY <1>1, <2>2, <3>1, <3>2
  <2> QED
    BY <1>2, <2>1, <2>3, <2>4
<1>3. CASE ~Held
  BY <1>1, <1>3 DEF UnderWay
<1> QED
  BY <1>2, <1>3

(* Each line of a command under way is of the current one. *)
LEMMA UnderWayOfCurrent ==
  ASSUME TypeOK, ThreadsApart, CommandTracked, Recent, AnswerTracked, TimedOut = {},
         NEW i \in DOMAIN UnderWay, UnderWay[i].from \in Commands
  PROVE  Unanswered /\ UnderWay[i].from = sender.cmd
<1>1. Outstanding(written, rank, Slack, UnderWay[i].from)
  BY UnderWayLines DEF Recent
<1> QED
  BY <1>1, OnlyCurrent

(* Which lines are kept, of those that come while c waits: its own numbered ones. *)
LEMMA KeptLine ==
  ASSUME inst \in Instances, NEW c \in Commands, Clean(inst.urcs, c), NEW l,
         LineOk(inst.urcs, rank, l), Shaped(inst.numericSet, l), l.from \in Commands => l.from = c
  PROVE  /\ ~NumberedLine(l, c) => l.text = "ACK" \/ ~IsIntermediate(c, l)
         /\ NumberedLine(l, c) => l.text # "ACK" /\ ~EndsAnswer(l)
         /\ NumberedLine(l, c) /\ Type[c] # "NO_RESULT"
              /\ (Type[c] \in {"NUMERIC", "SINGLELINE"} => resp[c].inter = << >>)
            => IsIntermediate(c, l)
<1>1. /\ Prefix[c] \notin {"ACK", "OK", "PROMPT", "SMS", "PDU"} \cup FinalErrors \cup Digits
      /\ Type[c] \in CommandTypes
  BY ChannelAssumption
<1>2. ASSUME l.from \notin Commands PROVE ~IsIntermediate(c, l)
  <2>1. l.from \in Urcs => l.from \in inst.urcs
    BY DEF LineOk
  <2> QED
    BY <1>2, <2>1, IntermediateOf DEF Clean
<1>3. ASSUME l.from = c, l.no = 0, l.text # "ACK" PROVE ~IsIntermediate(c, l)
  <2>1. l.text \in FinalsOf(inst.numericSet, c)
    BY <1>3 DEF Shaped
  <2>2. CASE Type[c] \in {"NO_RESULT", "NUMERIC", "SINGLELINE", "MULTILINE"}
    BY <1>1, <2>1, <2>2 DEF IsIntermediate, FinalsOf, Digits, FinalErrors
  <2>3. CASE Type[c] = "RAW"
    BY <2>1, <2>3 DEF IsIntermediate, FinalsOf, IsNumericSet, NumericSuccess, NumericErrors,
                      FinalSuccess, FinalErrors, IsFinalResponseErrorEx
  <2> QED
    BY <1>1, <2>2, <2>3 DEF CommandTypes
<1>4. ASSUME NumberedLine(l, c) PROVE l.text = TextOf(c) /\ l.text # "ACK" /\ ~EndsAnswer(l)
  <2>1. l.text = TextOf(c)
    BY <1>4 DEF NumberedLine, Shaped
  <2> QED
    BY <1>1, <2>1 DEF TextOf, EndsAnswer, FinalTexts, FinalSuccess, FinalErrors, Digits
<1>5. ASSUME NumberedLine(l, c), Type[c] # "NO_RESULT",
             Type[c] \in {"NUMERIC", "SINGLELINE"} => resp[c].inter = << >>
      PROVE  IsIntermediate(c, l)
  <2>1. l.text = TextOf(c)
    BY <1>4, <1>5
  <2>2. CASE Type[c] \in {"NUMERIC", "SINGLELINE", "MULTILINE"}
    BY <1>5, <2>1, <2>2 DEF IsIntermediate, TextOf, Digits
  <2>3. CASE Type[c] = "RAW"
    <3>1. l.text = Prefix[c]
      BY <2>1, <2>3 DEF TextOf
    <3> QED
      BY <1>1, <2>3, <3>1 DEF IsIntermediate, NumericSuccess, NumericErrors,
           FinalSuccess, FinalErrors, IsFinalResponseErrorEx, Digits
  <2> QED
    BY <1>1, <1>5, <2>2, <2>3 DEF CommandTypes
<1> QED
  BY <1>2, <1>3, <1>4, <1>5 DEF NumberedLine

(* A line is kept, and is then not the final response, or the kept lines stay. *)
LEMMA SortLineKeeps ==
  ASSUME TypeOK, NEW c \in Commands, NEW l \in Lines, SortLine(c, l)
  PROVE  /\ l.text = "ACK" \/ ~IsIntermediate(c, l) => resp'[c].inter = resp[c].inter
         /\ l.text # "ACK" /\ IsIntermediate(c, l) =>
              /\ resp'[c].inter = Append(resp[c].inter, l)
              /\ resp'[c].final = resp[c].final
<1>1. resp \in [Commands -> Responses]
  BY DEF TypeOK, Responses
<1>2. CASE l.text # "ACK" /\ IsIntermediate(c, l)
  <2>1. resp' = [resp EXCEPT ![c] = [resp[c] EXCEPT !.inter = Append(resp[c].inter, l)]]
    BY <1>2 DEF SortLine
  <2> QED
    BY <1>1, <1>2, <2>1 DEF Responses
<1>3. CASE l.text = "ACK" \/ ~IsIntermediate(c, l)
  <2>1. \/ resp' = [resp EXCEPT ![c] = [resp[c] EXCEPT !.ack = TRUE]]
        \/ resp' = [resp EXCEPT ![c] = [resp[c] EXCEPT !.final = l]]
        \/ resp' = resp
    BY <1>3 DEF SortLine, HandleRequestAck, HandleFinalResponse
  <2> QED
    BY <1>1, <1>3, <2>1 DEF Responses
<1> QED
  BY <1>2, <1>3

(* The sender leaves the lines of a command alone; the one it writes has none yet. *)
LEMMA NumberedSender ==
  ASSUME TypeOK, ThreadsApart, CommandTracked, LinesOk, LinesShaped, UNCHANGED inst,
         SenderSteps, NEW c \in Commands
  PROVE  /\ Current(c)' => Numbers(c)' \/ (Current(c) /\ (Numbers(c) => Numbers(c)'))
         /\ Whole(c) => Whole(c)'
         /\ resp'[c].final = resp[c].final
<1>1. /\ resp'[c].inter = resp[c].inter /\ resp'[c].final = resp[c].final /\ UNCHANGED << pty, lines >>
      /\ UNCHANGED reader \/ reader' = [pc |-> "aborted", line |-> NoLine]
  <2>1. UNCHANGED lines
    BY DEF SenderSteps, Sender, AtSendCommand, WriteLine, Publish, Wake, TimeOut,
           ReturnTimeout, modemVars
  <2> QED
    BY <2>1, SenderFacts
<1>2. ASSUME Write(sender.cmd), sender.pc = "lock", rank[sender.cmd] = 0, sender.cmd \in Commands,
             sender' = [pc |-> "publish", cmd |-> sender.cmd], UNCHANGED resp, Current(c)'
      PROVE  Numbers(c)'
  <2>1. c = sender.cmd /\ rank[c] = 0 /\ c \notin Urcs
    BY <1>2, ChannelAssumption DEF Current
  <2>2. lines[c] = 0 /\ resp[c].inter = << >>
    BY <2>1 DEF LinesShaped, CommandTracked
  <2>3. \A i \in DOMAIN UnderWay : UnderWay[i].from # c
    <3>1. \A i \in DOMAIN UnderWay : LineOk(inst.urcs, rank, UnderWay[i])
      BY UnderWayLines DEF LinesOk
    <3> QED
      BY <2>1, <3>1 DEF LineOk
  <2>4. UnderWay' = UnderWay
    <3>1. UNCHANGED reader
      BY <1>2 DEF SenderSteps, Sender, AtSendCommand, WriteLine, Publish, Wake, TimeOut, ReturnTimeout
    <3> QED
      BY <1>1, <3>1 DEF UnderWay, Held
  <2>5. Numbered(c, 0, 0, UnderWay)
    <3>1. UnderWay \in Seq(Lines) /\ \A i \in DOMAIN UnderWay : ~NumberedLine(UnderWay[i], c)
      BY <2>3, UnderWayLines DEF NumberedLine
    <3>2. 0 \in Nat
      OBVIOUS
    <3> QED
      BY <3>1, <3>2, NumberedNone
  <2>6. Len(<< >>) = 0 /\ InNumber(<< >>)
    BY DEF InNumber
  <2> QED
    BY <1>1, <2>2, <2>4, <2>5, <2>6 DEF Numbers
<1>3. ASSUME UNCHANGED << written, rank, toModem >>, Current(c)'
      PROVE  Current(c) /\ UNCHANGED reader
  <2>1. sender'.pc \in {"publish", "wait", "timedout"} /\ sender'.cmd = c
    BY <1>3 DEF Current
  <2>2. CASE \E d \in Commands : AtSendCommand(d)
    <3>1. sender'.pc \notin {"publish", "wait", "timedout"}
      BY <2>2 DEF AtSendCommand
    <3> QED
      BY <2>1, <3>1
  <2>3. CASE WriteLine
    <3>1. ~Write(sender.cmd)
      <4>1. \A w \in Nat : w + 1 # w
        OBVIOUS
      <4> QED
        BY <1>3, <4>1 DEF Write, TypeOK
    <3>2. sender'.pc = "idle"
      BY <2>3, <3>1 DEF WriteLine, Return
    <3> QED
      BY <2>1, <3>2
  <2>4. CASE Publish \/ TimeOut
    <3>1. /\ UNCHANGED reader /\ sender'.cmd = sender.cmd
          /\ sender.pc \in {"publish", "wait"}
      BY <2>4 DEF Publish, TimeOut
    <3>2. resp[c].final = NoLine
      BY <1>1, <1>3 DEF Current, NoLine
    <3> QED
      BY <2>1, <3>1, <3>2 DEF Current
  <2>5. CASE Wake
    <3>1. UNCHANGED << sender, reader >>
      BY <2>1, <2>5 DEF Wake, Return
    <3> QED
      BY <1>1, <1>3, <3>1 DEF Current, NoLine
  <2>6. CASE ReturnTimeout
    <3>1. sender'.pc \in {"idle", "exited"}
      BY <2>6 DEF ReturnTimeout, Return
    <3> QED
      BY <2>1, <3>1
  <2> QED
    BY <2>2, <2>3, <2>4, <2>5, <2>6 DEF SenderSteps, Sender
<1>4. UNCHANGED reader => (Numbers(c) => Numbers(c)')
  BY <1>1 DEF Numbers, UnderWay, Held
<1>5. Whole(c) => Whole(c)'
  BY <1>1 DEF Whole
<1> QED
  BY <1>1, <1>2, <1>3, <1>4, <1>5, SenderFacts

(* Of what is under way the reader drops, before it sorts, at most a code's PDU. *)
LEMMA ReaderUnderWay ==
  ASSUME TypeOK, ThreadsApart, LinesShaped, SmsPaired,
         ReadLine \/ ReadSecondLine \/ ReadEof \/ ReaderLock
  PROVE  \/ UnderWay' = UnderWay
         \/ UnderWay # << >> /\ UnderWay' = Tail(UnderWay) /\ UnderWay[1].from \notin Commands
<1>0. pty \in Seq(Lines) /\ \A i \in DOMAIN pty : pty[i].text \in {"SMS", "PDU"} => pty[i].from \notin Commands
  <2>1. ASSUME NEW i \in DOMAIN pty, pty[i].from \in Commands PROVE pty[i].text \notin {"SMS", "PDU"}
    <3>1. Shaped(inst.numericSet, pty[i]) /\ Prefix[pty[i].from] \notin {"SMS", "PDU"}
      BY <2>1, ChannelAssumption DEF LinesShaped
    <3> QED
      BY <2>1, <3>1 DEF Shaped, FinalsOf, TextOf
  <2> QED
    BY <2>1 DEF TypeOK
<1>1. CASE ReadLine
  <2>1. /\ pty # << >> /\ pty' = Tail(pty) /\ reader.pc = "read"
        /\ reader' = [pc |-> IF Head(pty).text = "SMS" THEN "sms" ELSE "lock", line |-> Head(pty)]
    BY <1>1 DEF ReadLine, Readline, IsSMSUnsolicited
  <2>2. /\ Head(pty) = pty[1] /\ 1 \in DOMAIN pty /\ Cons(pty[1], pty') = pty
    BY <2>1, PtyTail
  <2>3. UnderWay = pty
    BY <2>1 DEF UnderWay, Held
  <2>4. CASE Head(pty).text = "SMS"
    <3>1. UnderWay' = Tail(pty)
      BY <2>1, <2>4 DEF UnderWay, Held
    <3> QED
      BY <1>0, <2>1, <2>2, <2>3, <2>4, <3>1
  <2>5. CASE Head(pty).text # "SMS"
    <3>1. UnderWay' = Cons(pty[1], pty')
      BY <2>1, <2>2, <2>5 DEF UnderWay, Held
    <3> QED
      BY <2>2, <2>3, <3>1
  <2> QED
    BY <2>4, <2>5
<1>2. CASE ReadSecondLine
  <2>1. /\ pty # << >> /\ pty' = Tail(pty) /\ reader.pc = "sms"
        /\ reader' = [pc |-> "read", line |-> NoLine]
    BY <1>2 DEF ReadSecondLine, Readline
  <2>2. UnderWay = pty /\ UnderWay' = Tail(pty)
    BY <2>1 DEF UnderWay, Held
  <2>3. pty[1].text = "PDU" /\ 1 \in DOMAIN pty
    <3>1. 1 \in DOMAIN pty
      BY <1>0, <2>1
    <3>2. /\ Unread \in Seq(Lines) /\ Unread # << >> /\ Unread[1] = reader.line
          /\ Tail(Unread) = pty
      BY <2>1, UnreadCode
    <3>3. Paired(Unread, smsHalf) /\ reader.line.text = "SMS"
      BY <2>1 DEF SmsPaired
    <3> QED
      BY <2>1, <3>1, <3>2, <3>3, PairedTail
  <2> QED
    BY <1>0, <2>1, <2>2, <2>3
<1>3. CASE ReadEof \/ ReaderLock
  BY <1>3 DEF ReadEof, ReaderLock, UnderWay, Held
<1> QED
  BY <1>1, <1>2, <1>3

(* Reading a line loses none of those of a command. *)
LEMMA NumberedReader ==
  ASSUME TypeOK, ThreadsApart, LinesShaped, SmsPaired, UNCHANGED inst,
         ReadLine \/ ReadSecondLine \/ ReadEof \/ ReaderLock, NEW c \in Commands
  PROVE  /\ Current(c)' => Current(c) /\ (Numbers(c) => Numbers(c)')
         /\ Whole(c) => Whole(c)'
         /\ resp'[c].final = resp[c].final
<1>1. UNCHANGED << sender, resp, lines >>
  BY DEF ReadLine, ReadSecondLine, ReadEof, ReaderLock, modemVars, senderVars
<1>2. ASSUME Numbers(c), UnderWay # << >>, UnderWay' = Tail(UnderWay), UnderWay[1].from \notin Commands
      PROVE  Numbers(c)'
  <2>1. Len(resp[c].inter) \in Nat /\ lines[c] \in Nat /\ UnderWay \in Seq(Lines)
    <3>1. resp[c].inter \in Seq(Lines) /\ lines[c] \in 0 .. MaxLines /\ MaxLines \in Nat
      BY ChannelAssumption DEF TypeOK
    <3> QED
      BY <3>1, UnderWayLines
  <2>2. ~NumberedLine(UnderWay[1], c)
    BY <1>2 DEF NumberedLine
  <2> QED
    BY <1>1, <1>2, <2>1, <2>2, NumberedTail DEF Numbers
<1>3. UnderWay' = UnderWay /\ Numbers(c) => Numbers(c)'
  BY <1>1 DEF Numbers
<1> QED
  BY <1>1, <1>2, <1>3, ReaderUnderWay DEF Current, Whole, NoLine

(* A line of the current command is kept when it is sorted; its final response is the
   last of its lines. *)
LEMMA NumberedProcess ==
  ASSUME TypeOK, ThreadsApart, CommandTracked, LinesOk, InOrder, Recent, LinesShaped,
         AnswerTracked, UNCHANGED inst, ProcessLine, TimedOut = {},
         NEW c \in Commands, Clean(inst.urcs, c), Current(c) => Numbers(c),
         resp[c].final # NoLine => Whole(c)
  PROVE  /\ Current(c)' => Numbers(c)'
         /\ resp'[c].final # NoLine => Whole(c)'
<1> DEFINE l == reader.line
           m == Len(resp[c].inter)
           n == lines[c]
<1>1. /\ UNCHANGED << pty, lines, sender, m_response >>
      /\ Held /\ UnderWay = Cons(l, pty) /\ UnderWay' = pty
  BY ProcessFacts DEF ProcessLine, modemVars, UnderWay
<1>2. /\ l \in Lines /\ pty \in Seq(Lines) /\ LineOk(inst.urcs, rank, l)
      /\ Shaped(inst.numericSet, l) /\ inst \in Instances
  BY <1>1 DEF TypeOK, LinesOk, LineOk, LinesShaped
<1> HIDE DEF l
<1>3. l.from \in Commands => Unanswered /\ l.from = sender.cmd
  <2>1. 1 \in DOMAIN UnderWay /\ UnderWay[1] = l
    <3>1. l \in Lines /\ pty \in Seq(Lines)
      BY <1>2
    <3>2. DOMAIN Cons(l, pty) = 1 .. Len(pty) + 1 /\ Cons(l, pty)[1] = l
      BY <3>1, ConsFacts
    <3>3. Len(pty) \in Nat
      BY <3>1
    <3>4. 1 \in 1 .. Len(pty) + 1
      BY <3>3
    <3> QED
      BY <1>1, <3>2, <3>4
  <2> QED
    BY <2>1, UnderWayOfCurrent
<1>4. resp[c].inter \in Seq(Lines) /\ m \in Nat /\ n \in Nat /\ MostLines(c) \in Nat /\ n <= MostLines(c)
  <2>1. resp[c].inter \in Seq(Lines) /\ lines[c] \in 0 .. MaxLines /\ MaxLines \in Nat
    BY ChannelAssumption DEF TypeOK
  <2> QED
    BY <2>1 DEF MostLines, LinesShaped
<1>5. resp'[c].final = resp[c].final \/ (EndsAnswer(l) /\ resp'[c].final = l /\ l # NoLine)
  BY ProcessFacts, EndIsLine DEF l
<1> HIDE DEF m, n
<1>6. ASSUME ~Current(c)
      PROVE  ~Current(c)' /\ (resp'[c].final # NoLine => Whole(c)')
  <2>1. ~Current(c)'
    BY <1>1, <1>5, <1>6 DEF Current, NoLine
  <2>2. ASSUME resp'[c].final # NoLine PROVE Whole(c)'
    <3>1. resp[c].final # NoLine
      <4>1. c # sender.cmd \/ sender.pc \notin {"wait", "timedout"} => resp'[c] = resp[c]
        BY ProcessFacts
      <4> QED
        BY <1>6, <2>2, <4>1 DEF Current
    <3>2. resp'[c].inter = resp[c].inter
      <4>1. ASSUME c = sender.cmd, IsIntermediate(c, l) PROVE FALSE
        <5>1. l.from \notin Commands
          BY <1>3, <3>1, <4>1 DEF Unanswered
        <5> QED
          BY <1>2, <4>1, <5>1, IntermediateOf DEF Clean, LineOk
      <4> QED
        BY <4>1, ProcessFacts DEF l
    <3> QED
      BY <1>1, <3>1, <3>2 DEF Whole
  <2> QED
    BY <2>1, <2>2
<1>7. ASSUME Current(c)
      PROVE  Numbers(c)' /\ (resp'[c].final # NoLine => Whole(c)')
  <2>1. /\ Numbered(c, m, n, Cons(l, pty)) /\ InNumber(resp[c].inter) /\ c = sender.cmd
        /\ resp[c].final = NoLine
    BY <1>1, <1>7 DEF Numbers, Current, m, n
  <2>2. SortLine(c, l)
    <3>1. reader.pc = "process" /\ sender.pc \in {"wait", "timedout"}
      BY <1>7 DEF ProcessLine, ThreadsApart, Current
    <3>2. m_response = c /\ c # None
      BY <2>1, <3>1, ChannelAssumption DEF AnswerTracked
    <3> QED
      BY <3>2 DEF ProcessLine, l
  <2>3. /\ Cons(l, pty) \in Seq(Lines) /\ Cons(l, pty) # << >> /\ Cons(l, pty)[1] = l
        /\ Tail(Cons(l, pty)) = pty
    BY <1>2, ConsFacts
  <2>4. l.from \in Commands => l.from = c
    BY <1>3, <2>1
  <2>t. /\ ~NumberedLine(l, c) => Numbered(c, m, n, pty)
        /\ NumberedLine(l, c) => l.no = m + 1 /\ m + 1 <= n /\ Numbered(c, m + 1, n, pty)
    <3>1. ASSUME NEW q \in Seq(Lines), q # << >>, Numbered(c, m, n, q), q[1] = l, Tail(q) = pty
          PROVE  /\ ~NumberedLine(l, c) => Numbered(c, m, n, pty)
                 /\ NumberedLine(l, c) => l.no = m + 1 /\ m + 1 <= n /\ Numbered(c, m + 1, n, pty)
      BY <1>4, <3>1, NumberedTail
    <3> QED
      BY <2>1, <2>3, <3>1
  <2>5. ASSUME NumberedLine(l, c) PROVE Numbers(c)' /\ resp'[c].final = NoLine
    <3>1. l.no = m + 1 /\ m + 1 <= n /\ Numbered(c, m + 1, n, pty)
      BY <2>t, <2>5
    <3>2. /\ Type[c] # "NO_RESULT"
          /\ Type[c] \in {"NUMERIC", "SINGLELINE"} => resp[c].inter = << >>
      <4>1. m + 1 <= MostLines(c)
        BY <1>4, <3>1
      <4>2. MostLines(c) = 1 => resp[c].inter = << >>
        BY <1>4, <4>1 DEF m
      <4>3. MostLines(c) # 0
        BY <1>4, <4>1
      <4> QED
        BY <4>2, <4>3 DEF MostLines
    <3>3. l.text # "ACK" /\ IsIntermediate(c, l)
      BY <1>2, <2>4, <2>5, <3>2, KeptLine
    <3>4. resp'[c].inter = Append(resp[c].inter, l) /\ resp'[c].final = resp[c].final
      BY <1>2, <2>2, <3>3, SortLineKeeps
    <3>5. Len(resp'[c].inter) = m + 1 /\ InNumber(resp'[c].inter)
      <4>1. /\ DOMAIN resp'[c].inter = 1 .. m + 1 /\ resp'[c].inter[m + 1] = l
            /\ DOMAIN resp[c].inter = 1 .. m
            /\ \A i \in 1 .. m : resp'[c].inter[i] = resp[c].inter[i]
            /\ Len(resp'[c].inter) = m + 1
        BY <1>2, <1>4, <3>4 DEF m
      <4>2. \A i \in 1 .. m + 1 : i = m + 1 \/ i \in 1 .. m
        BY <1>4
      <4> QED
        BY <2>1, <3>1, <4>1, <4>2 DEF InNumber
    <3> QED
      BY <1>1, <2>1, <3>1, <3>4, <3>5 DEF Numbers, n
  <2>6. ASSUME ~NumberedLine(l, c) PROVE Numbers(c)' /\ (resp'[c].final # NoLine => Whole(c)')
    <3>1. Numbered(c, m, n, pty)
      BY <2>t, <2>6
    <3>2. l.text = "ACK" \/ ~IsIntermediate(c, l)
      BY <1>2, <2>4, <2>6, KeptLine
    <3>3. resp'[c].inter = resp[c].inter
      BY <1>2, <2>2, <3>2, SortLineKeeps
    <3>4. ASSUME resp'[c].final # NoLine PROVE m = n
      <4>1. EndsAnswer(l)
        BY <1>5, <2>1, <3>4
      <4>2. l.from = c
        BY <2>4, <4>1 DEF EndsAnswer
      <4>3. ASSUME NEW i \in DOMAIN pty, NumberedLine(pty[i], c) PROVE FALSE
        <5>1. pty[i].from = c
          BY <4>3 DEF NumberedLine
        <5>2. Ahead(rank, l, c)
          BY <1>1, <5>1 DEF InOrder, AheadOf, l
        <5>3. rank[c] \in Nat
          BY DEF TypeOK
        <5> QED
          BY <4>1, <4>2, <5>2, <5>3 DEF Ahead
      <4> QED
        BY <1>2, <1>4, <3>1, <4>3, NumberedNone
    <3> QED
      BY <1>1, <2>1, <3>1, <3>3, <3>4 DEF Numbers, Whole, m, n
  <2> QED
    BY <2>5, <2>6
<1> QED
  BY <1>6, <1>7

(* The modem adds the next line of the current command, or a line of no answer. *)
LEMMA NumberedModem ==
  ASSUME TypeOK, ThreadsApart, CommandTracked, LinesOk, Recent, AnswerTracked, UNCHANGED inst,
         Modem, TimedOut = {}, NEW c \in Commands
  PROVE  /\ Current(c)' => Current(c) /\ (Numbers(c) => Numbers(c)')
         /\ resp[c].final # NoLine /\ Whole(c) => Whole(c)'
         /\ resp'[c].final = resp[c].final
<1>1. UNCHANGED << sender, resp, reader >>
  BY ModemStep
<1>2. CASE UNCHANGED << pty, lines, smsHalf, urcSent >>
  BY <1>1, <1>2 DEF Current, Numbers, Whole, UnderWay, Held, NoLine
<1>3. ASSUME NEW l \in Lines, pty' = Append(pty, l), FromCommand(l) \/ FromUrc(l) \/ SecondHalf(l)
      PROVE  /\ Numbers(c) => Numbers(c)'
             /\ resp[c].final # NoLine /\ Whole(c) => Whole(c)'
  <2>1. UnderWay' = Append(UnderWay, l) /\ UnderWay \in Seq(Lines)
    <3>1. CASE Held
      <4>1. pty \in Seq(Lines) /\ reader.line \in Lines
        BY <3>1 DEF TypeOK, ThreadsApart, Held
      <4>2. Append(Cons(reader.line, pty), l) = Cons(reader.line, Append(pty, l))
        BY <4>1, ConsFacts
      <4> QED
        BY <1>1, <1>3, <3>1, <4>2, UnderWayLines DEF UnderWay, Held
    <3>2. CASE ~Held
      BY <1>1, <1>3, <3>2, UnderWayLines DEF UnderWay, Held
    <3> QED
      BY <3>1, <3>2
  <2>2. Len(resp[c].inter) \in Nat /\ lines[c] \in Nat
    <3>1. resp[c].inter \in Seq(Lines) /\ lines[c] \in 0 .. MaxLines /\ MaxLines \in Nat
      BY ChannelAssumption DEF TypeOK
    <3> QED
      BY <3>1
  <2>3. CASE ~NumberedLine(l, c) /\ lines'[c] = lines[c]
    <3>1. Numbered(c, Len(resp[c].inter), lines[c], UnderWay)
            => Numbered(c, Len(resp[c].inter), lines[c], UnderWay')
      BY <2>1, <2>2, <2>3, NumberedAppend
    <3> QED
      BY <1>1, <2>3, <3>1 DEF Numbers, Whole
  <2>4. CASE /\ FromCommand(l) /\ l.from = c /\ l.no = lines[c] + 1
             /\ lines' = [lines EXCEPT ![l.from] = l.no]
    <3>1. NumberedLine(l, c) /\ lines'[c] = lines[c] + 1
      BY <2>2, <2>4 DEF NumberedLine, TypeOK
    <3>2. Numbered(c, Len(resp[c].inter), lines[c], UnderWay)
            => Numbered(c, Len(resp[c].inter), lines[c] + 1, UnderWay')
      BY <2>1, <2>2, <2>4, <3>1, NumberedAppend
    <3>3. resp[c].final = NoLine
      <4>0. toModem \in Seq(Commands)
        BY DEF TypeOK
      <4>1. 1 \in DOMAIN toModem /\ toModem[1] = c
        BY <2>4, <4>0 DEF FromCommand
      <4>2. Outstanding(written, rank, Slack, c)
        BY <4>1 DEF Recent
      <4> QED
        BY <4>2, OnlyCurrent DEF Unanswered
    <3> QED
      BY <1>1, <3>1, <3>2, <3>3 DEF Numbers
  <2>5. \/ ~NumberedLine(l, c) /\ lines'[c] = lines[c]
        \/ /\ FromCommand(l) /\ l.from = c /\ l.no = lines[c] + 1
           /\ lines' = [lines EXCEPT ![l.from] = l.no]
    <3>1. CASE l.no = 0 /\ UNCHANGED lines
      BY <3>1 DEF NumberedLine
    <3>2. CASE /\ FromCommand(l) /\ l.no = lines[l.from] + 1
               /\ lines' = [lines EXCEPT ![l.from] = l.no]
      BY <3>2 DEF NumberedLine, TypeOK
    <3> QED
      BY <1>3, <3>1, <3>2 DEF FromCommand, FromUrc, SecondHalf
  <2> QED
    BY <2>3, <2>4, <2>5
<1> QED
  BY <1>1, <1>2, <1>3, ModemStep DEF Current, NoLine

(* Every step keeps the count of the lines. *)
LEMMA NumberedStep ==
  ASSUME IInv, TypeOK', LinesShaped, SmsPaired, AnswerTracked, AnswerNumbered, UNCHANGED inst,
         Steps \/ UNCHANGED vars
  PROVE  AnswerNumbered'
<1> USE DEF IInv
<1>0. inst.commands \subseteq Commands
  BY ChannelAssumption DEF LinesOk
<1>1. ASSUME TimedOut' = {} PROVE TimedOut = {}
  <2>1. CASE SenderSteps
    <3>1. Cardinality(TimedOut) <= Cardinality(TimedOut') /\ Cardinality(TimedOut) \in Nat
      BY <2>1, SenderSlack, SlackType
    <3>2. Cardinality(TimedOut') = 0
      BY <1>1, FS_EmptySet
    <3>3. Cardinality(TimedOut) = 0
      BY <3>1, <3>2
    <3> QED
      BY <3>3, FS_EmptySet
  <2>2. CASE Reader \/ Modem \/ UNCHANGED vars
    <3>1. UNCHANGED outcome
      BY <2>2, ModemStep DEF Reader, ReadLine, ReadSecondLine, ReadEof, ReaderLock, ProcessLine,
                             vars, senderVars
    <3> QED
      BY <1>1, <3>1 DEF TimedOut
  <2> QED
    BY <1>0, <2>1, <2>2 DEF Steps, SenderSteps
<1>2. ASSUME TimedOut = {}, NEW c \in Commands, Clean(inst.urcs, c),
             Current(c) => Numbers(c), resp[c].final # NoLine => Whole(c)
      PROVE  (Current(c)' => Numbers(c)') /\ (resp'[c].final # NoLine => Whole(c)')
  <2>1. CASE SenderSteps
    BY <1>2, <2>1, NumberedSender
  <2>2. CASE ReadLine \/ ReadSecondLine \/ ReadEof \/ ReaderLock
    BY <1>2, <2>2, NumberedReader
  <2>3. CASE ProcessLine
    BY <1>2, <2>3, NumberedProcess
  <2>4. CASE Modem
    BY <1>2, <2>4, NumberedModem
  <2>5. CASE UNCHANGED vars
    <3>1. UNCHANGED << pty, lines, sender, resp, reader >>
      BY <2>5 DEF vars, modemVars, senderVars
    <3> QED
      BY <1>2, <3>1 DEF Current, Numbers, Whole, UnderWay, Held, NoLine
  <2> QED
    BY <1>0, <2>1, <2>2, <2>3, <2>4, <2>5 DEF Steps, Reader, SenderSteps
<1>3. \A c \in Commands : Clean(inst.urcs, c)' <=> Clean(inst.urcs, c)
  BY DEF Clean, LooksLikeAnswer
<1> QED
  BY <1>1, <1>2, <1>3 DEF AnswerNumbered, NoLine

(* The channel starts with nothing under way. *)
LEMMA InitComplete == Init => CInv
<1> SUFFICES ASSUME Init PROVE CInv
  OBVIOUS
<1>1. /\ pty = << >> /\ reader = [pc |-> "read", line |-> NoLine] /\ smsHalf = None
      /\ sender = [pc |-> "idle", cmd |-> None] /\ lines = [c \in Commands |-> 0]
      /\ rank = [c \in Commands |-> 0] /\ outcome = [c \in Commands |-> "none"]
      /\ resp = [c \in Commands |-> [inter |-> << >>, ack |-> FALSE, final |-> NoLine]]
  BY DEF Init
<1>2. LinesShaped
  <2>1. \A c \in Commands : 0 <= MostLines(c)
    BY ChannelAssumption DEF MostLines
  <2> QED
    BY <1>1, <2>1 DEF LinesShaped, Held
<1>3. SmsPaired
  BY <1>1 DEF SmsPaired, Paired, Unread, Held
<1>4. AnswerTracked
  BY <1>1 DEF AnswerTracked
<1>5. AnswerNumbered
  BY <1>1 DEF AnswerNumbered, Current
<1> QED
  BY <1>2, <1>3, <1>4, <1>5 DEF CInv

(* Every step keeps the invariant of complete answers. *)
LEMMA StepComplete == IInv /\ IInv' /\ CInv /\ [Next]_vars => CInv'
<1> SUFFICES ASSUME IInv, IInv', CInv, [Next]_vars PROVE CInv'
  OBVIOUS
<1>1. UNCHANGED inst /\ (Steps \/ UNCHANGED vars)
  BY DEF Next, vars
<1>2. LinesShaped' /\ SmsPaired' /\ AnswerTracked'
  BY <1>1, ShapedStep, PairedStep, TrackedStep DEF IInv, CInv
<1>3. AnswerNumbered'
  <2>1. TypeOK'
    BY DEF IInv
  <2> QED
    BY <1>1, <2>1, NumberedStep DEF CInv
<1> QED
  BY <1>2, <1>3 DEF CInv

(* What was sent for the current command is kept or under way, in its order. *)
THEOREM CompletenessInvariant == Spec => []CInv
<1> QED
  BY InitComplete, StepComplete, ChannelInvariant, PTL DEF Spec

(* atSendCommandFull returns all the intermediate lines of its command, in the order in
   which the modem sent them, if nothing timed out and no URC looks like one of them:
   none slips through between the write and the publication of the response. *)
THEOREM AnswerCompleteCorrect == Spec => []AnswerComplete
<1>1. ASSUME IInv, CInv PROVE AnswerComplete
  <2> SUFFICES ASSUME NEW c \in Commands, outcome[c] = "OK", TimedOut = {},
                      \A u \in inst.urcs : ~LooksLikeAnswer(c, u)
               PROVE  [i \in DOMAIN resp[c].inter |-> resp[c].inter[i].no] = [i \in 1 .. lines[c] |-> i]
    BY DEF AnswerComplete
  <2>1. Whole(c)
    BY <1>1 DEF CInv, AnswerTracked, AnswerNumbered, Clean
  <2>2. DOMAIN resp[c].inter = 1 .. lines[c]
    <3>1. resp[c].inter \in Seq(Lines)
      BY <1>1 DEF IInv, TypeOK
    <3> QED
      BY <2>1, <3>1 DEF Whole
  <2> QED
    BY <2>1, <2>2 DEF Whole, InNumber
<1> QED
  BY <1>1, ChannelInvariant, CompletenessInvariant, PTL
-----------------------------------------------------------------------------
(* Where an unsolicited line is *)

\* A line of u, and not the PDU behind its code
FirstLine(l, u) == l.from = u /\ l.text # "PDU"
Has(q, u) == \E i \in DOMAIN q : FirstLine(q[i], u)
Once(q, u) == \A i, j \in DOMAIN q : FirstLine(q[i], u) /\ FirstLine(q[j], u) => i = j

\* The line of u is at most once at one place; it is there from the time it is sent, as
\* long as there is a reader
UrcPlaced(u) ==
  /\ Once(pty, u) /\ Once(urcs, u) /\ \A c \in Commands : Once(resp[c].inter, u)
  /\ Has(pty, u) => ~Has(urcs, u) /\ reader.line.from # u
  /\ Has(urcs, u) => reader.line.from # u
  /\ \A c \in Commands : Has(resp[c].inter, u) =>
       /\ ~Has(pty, u) /\ ~Has(urcs, u) /\ reader.line.from # u
       /\ \A d \in Commands : Has(resp[d].inter, u) => d = c
  /\ IF u \in urcSent
     THEN \/ Has(pty, u) \/ Has(urcs, u) \/ reader.line.from = u
          \/ \E c \in Commands : Has(resp[c].inter, u)
          \/ reader.pc \in {"stopped", "aborted"}
     ELSE /\ ~Has(pty, u) /\ ~Has(urcs, u) /\ reader.line.from # u
          /\ \A c \in Commands : ~Has(resp[c].inter, u)

\* No PDU is sorted, and the reader forgets a line it has passed on
Settled ==
  /\ \A i \in DOMAIN urcs : urcs[i].text # "PDU"
  /\ \A c \in Commands : \A i \in DOMAIN resp[c].inter : resp[c].inter[i].text # "PDU"
  /\ reader.pc \notin {"sms", "lock", "process"} => reader.line = NoLine

UrcInv == Settled /\ \A u \in Urcs : UrcPlaced(u)

(* A line that is added to a list is there once if it was not. *)
LEMMA OnceAppend ==
  ASSUME NEW u, NEW q \in Seq(Lines), NEW l \in Lines
  PROVE  /\ Has(Append(q, l), u) <=> Has(q, u) \/ FirstLine(l, u)
         /\ Once(q, u) /\ ~(Has(q, u) /\ FirstLine(l, u)) => Once(Append(q, l), u)
<1> DEFINE r == Append(q, l)
<1>1. /\ Len(q) \in Nat /\ DOMAIN q = 1 .. Len(q) /\ DOMAIN r = 1 .. Len(q) + 1
      /\ r[Len(q) + 1] = l /\ \A i \in 1 .. Len(q) : r[i] = q[i]
  OBVIOUS
<1> HIDE DEF r
<1>2. \A i \in DOMAIN r : (i \in DOMAIN q /\ r[i] = q[i]) \/ (i = Len(q) + 1 /\ r[i] = l)
  BY <1>1
<1>3. Len(q) + 1 \in DOMAIN r /\ \A i \in DOMAIN q : i \in DOMAIN r /\ r[i] = q[i]
  BY <1>1
<1>4. Has(r, u) <=> Has(q, u) \/ FirstLine(l, u)
  <2>1. ASSUME Has(r, u) PROVE Has(q, u) \/ FirstLine(l, u)
    <3>1. PICK i \in DOMAIN r : FirstLine(r[i], u)
      BY <2>1 DEF Has
    <3> QED
      BY <1>2, <3>1 DEF Has
  <2>2. ASSUME FirstLine(l, u) PROVE Has(r, u)
    BY <1>1, <1>3, <2>2 DEF Has
  <2>3. ASSUME Has(q, u) PROVE Has(r, u)
    BY <1>3, <2>3 DEF Has
  <2> QED
    BY <2>1, <2>2, <2>3
<1>5. ASSUME Once(q, u), ~(Has(q, u) /\ FirstLine(l, u)) PROVE Once(r, u)
  BY <1>2, <1>5 DEF Once, Has
<1> QED
  BY <1>4, <1>5 DEF r

(* Without its first line a list has all other lines. *)
LEMMA OnceTail ==
  ASSUME NEW u, NEW q \in Seq(Lines), q # << >>, Once(q, u)
  PROVE  /\ Once(Tail(q), u)
         /\ Has(Tail(q), u) <=> Has(q, u) /\ ~FirstLine(q[1], u)
<1> DEFINE r == Tail(q)
<1>1. /\ Len(q) \in Nat \ {0} /\ DOMAIN q = 1 .. Len(q) /\ DOMAIN r = 1 .. Len(q) - 1
      /\ \A i \in 1 .. Len(q) - 1 : r[i] = q[i + 1]
  OBVIOUS
<1> HIDE DEF r
<1>2. /\ 1 \in DOMAIN q
      /\ \A i \in DOMAIN r : i + 1 \in DOMAIN q /\ r[i] = q[i + 1] /\ i + 1 # 1
      /\ \A i, j \in DOMAIN r : i + 1 = j + 1 => i = j
  BY <1>1
<1>3. \A i \in DOMAIN q : i = 1 \/ \E j \in DOMAIN r : r[j] = q[i]
  <2> SUFFICES ASSUME NEW i \in DOMAIN q, i # 1 PROVE i - 1 \in DOMAIN r /\ r[i - 1] = q[i]
    OBVIOUS
  <2> QED
    BY <1>1
<1>4. Once(r, u)
  BY <1>2 DEF Once
<1>5. ASSUME Has(r, u) PROVE Has(q, u) /\ ~FirstLine(q[1], u)
  <2>1. PICK i \in DOMAIN r : FirstLine(r[i], u)
    BY <1>5 DEF Has
  <2>2. i + 1 \in DOMAIN q /\ FirstLine(q[i + 1], u) /\ i + 1 # 1
    BY <1>2, <2>1
  <2> QED
    BY <1>2, <2>2 DEF Has, Once
<1>6. ASSUME Has(q, u), ~FirstLine(q[1], u) PROVE Has(r, u)
  <2>1. PICK i \in DOMAIN q : FirstLine(q[i], u)
    BY <1>6 DEF Has
  <2>2. i # 1
    BY <1>6, <2>1
  <2> QED
    BY <1>3, <2>1, <2>2 DEF Has
<1> QED
  BY <1>4, <1>5, <1>6 DEF r

(* A line that is taken from the pty comes into the reader's hands. *)
LEMMA UrcRead ==
  ASSUME TypeOK, ThreadsApart, LinesOk, SmsPaired, Settled, UNCHANGED inst,
         ReadLine \/ ReadSecondLine \/ ReadEof \/ ReaderLock, NEW u \in Urcs, UrcPlaced(u)
  PROVE  UrcPlaced(u)'
<1>0. /\ pty \in Seq(Lines) /\ urcs \in Seq(Lines) /\ u # None /\ NoLine.from = None
      /\ reader.pc \in {"sms", "lock", "process"} => reader.line \in Lines
  BY ChannelAssumption DEF TypeOK, ThreadsApart, NoLine, Line
<1>a. UNCHANGED << resp, urcSent >>
  BY DEF ReadLine, ReadSecondLine, ReadEof, ReaderLock, modemVars
<1>1. CASE ReadLine
  <2>1. /\ pty # << >> /\ pty' = Tail(pty) /\ reader.pc = "read" /\ UNCHANGED urcs
        /\ reader'.line = Head(pty) /\ reader'.pc \in {"sms", "lock"}
    BY <1>1 DEF ReadLine, Readline
  <2>2. Head(pty) = pty[1]
    BY <2>1, PtyTail
  <2>3. pty[1].text # "PDU"
    <3>1. Paired(pty, smsHalf)
      BY <2>1 DEF SmsPaired, Unread
    <3> QED
      BY <1>0, <2>1, <3>1, PairedTail
  <2>4. reader.line.from # u
    BY <1>0, <2>1 DEF Settled
  <2>5. FirstLine(pty[1], u) <=> reader'.line.from = u
    BY <2>1, <2>2, <2>3 DEF FirstLine
  <2>6. /\ Once(pty', u) /\ (Has(pty', u) <=> Has(pty, u) /\ reader'.line.from # u)
        /\ (reader'.line.from = u => Has(pty, u))
    <3>1. Once(pty, u)
      BY DEF UrcPlaced
    <3>2. 1 \in DOMAIN pty
      BY <1>0, <2>1
    <3> QED
      BY <1>0, <2>1, <2>5, <3>1, <3>2, OnceTail DEF Has
  <2> QED
    BY <1>a, <2>1, <2>4, <2>6 DEF UrcPlaced
<1>2. CASE ReadSecondLine
  <2>1. /\ pty # << >> /\ pty' = Tail(pty) /\ reader.pc = "sms"
        /\ reader' = [pc |-> "read", line |-> NoLine] /\ urcs' = Append(urcs, reader.line)
    BY <1>2 DEF ReadSecondLine, Readline, HandleUnsolicited
  <2>2. reader.line \in Lines /\ reader.line.text = "SMS"
    BY <1>0, <2>1 DEF SmsPaired
  <2>3. pty[1].text = "PDU"
    <3>1. /\ Unread \in Seq(Lines) /\ Unread # << >> /\ Unread[1] = reader.line
          /\ Tail(Unread) = pty
      BY <2>1, UnreadCode
    <3>2. Paired(Unread, smsHalf)
      BY <2>1 DEF SmsPaired
    <3> QED
      BY <2>1, <2>2, <3>1, <3>2, PairedTail
  <2>4. Once(pty', u) /\ (Has(pty', u) <=> Has(pty, u))
    <3>1. Once(pty, u) /\ ~FirstLine(pty[1], u)
      BY <2>3 DEF UrcPlaced, FirstLine
    <3> QED
      BY <1>0, <2>1, <3>1, OnceTail
  <2>5. /\ Has(urcs', u) <=> Has(urcs, u) \/ reader.line.from = u
        /\ Once(urcs', u)
    <3>1. FirstLine(reader.line, u) <=> reader.line.from = u
      BY <2>2 DEF FirstLine
    <3>2. Once(urcs, u) /\ ~(Has(urcs, u) /\ reader.line.from = u)
      BY DEF UrcPlaced
    <3> QED
      BY <1>0, <2>1, <2>2, <3>1, <3>2, OnceAppend
  <2>6. reader'.line.from # u /\ reader'.pc = "read"
    BY <1>0, <2>1
  <2> QED
    BY <1>a, <2>1, <2>4, <2>5, <2>6 DEF UrcPlaced
<1>3. CASE ReadEof
  <2>1. UNCHANGED << pty, urcs >> /\ reader'.line.from # u /\ reader'.pc = "stopped"
    BY <1>0, <1>3 DEF ReadEof
  <2> QED
    BY <1>a, <2>1 DEF UrcPlaced
<1>4. CASE ReaderLock
  <2>1. /\ UNCHANGED << pty, urcs >> /\ reader'.line = reader.line
        /\ reader'.pc \notin {"stopped", "aborted"} /\ reader.pc \notin {"stopped", "aborted"}
    BY <1>4 DEF ReaderLock
  <2> QED
    BY <1>a, <2>1 DEF UrcPlaced
<1> QED
  BY <1>1, <1>2, <1>3, <1>4

(* What sorting does to a URC: it is passed on, or kept by the current command. *)
LEMMA UrcSortLine ==
  ASSUME TypeOK, ThreadsApart, CommandTracked, LinesOk, SmsPaired, UNCHANGED inst, ProcessLine,
         reader.line.from \in Urcs
  PROVE  \/ UNCHANGED resp /\ urcs' = Append(urcs, reader.line)
         \/ /\ UNCHANGED urcs
            /\ \E c \in Commands : /\ resp'[c].inter = Append(resp[c].inter, reader.line)
                                   /\ \A d \in Commands \ {c} : resp'[d] = resp[d]
<1> DEFINE l == reader.line
           c == m_response
<1>1. /\ l \in Lines /\ LineOk(inst.urcs, rank, l) /\ l.text # "PDU" /\ inst \in Instances
      /\ l.from \notin Commands /\ l.from \in inst.urcs /\ l.text = UrcText[l.from]
      /\ l.text # "ACK"
  <2>1. Held /\ l.from \notin Commands
    BY ChannelAssumption DEF ProcessLine, Held
  <2>2. LineOk(inst.urcs, rank, l) /\ l.text # "PDU"
    BY <2>1 DEF LinesOk, SmsPaired
  <2> QED
    BY <2>1, <2>2, ChannelAssumption DEF LineOk, LinesOk
<1>2. CASE m_response = None
  BY <1>2 DEF ProcessLine, HandleUnsolicited
<1>3. CASE m_response # None
  <2>1. c \in Commands /\ SortLine(c, l) /\ resp \in [Commands -> Responses]
    BY <1>3 DEF ProcessLine, TypeOK, Responses
  <2>2. ~IsFinal(c, l)
    BY <1>1, <2>1, FinalEnds DEF EndsAnswer
  <2>3. CASE IsIntermediate(c, l)
    <3>1. resp' = [resp EXCEPT ![c] = [resp[c] EXCEPT !.inter = Append(resp[c].inter, l)]]
          /\ UNCHANGED urcs
      BY <1>1, <2>1, <2>3 DEF SortLine
    <3>2. resp'[c].inter = Append(resp[c].inter, l) /\ \A d \in Commands \ {c} : resp'[d] = resp[d]
      BY <2>1, <3>1 DEF Responses
    <3> QED
      BY <2>1, <3>1, <3>2
  <2>4. CASE ~IsIntermediate(c, l)
    BY <1>1, <2>1, <2>2, <2>4 DEF SortLine, HandleUnsolicited
  <2> QED
    BY <2>3, <2>4
<1> QED
  BY <1>2, <1>3

(* Sorting another line touches neither the list of URCs nor the kept ones of u. *)
LEMMA OtherSortLine ==
  ASSUME TypeOK, ThreadsApart, CommandTracked, LinesOk, ProcessLine,
         NEW u, reader.line.from # u
  PROVE  /\ Has(urcs', u) <=> Has(urcs, u)
         /\ Once(urcs, u) => Once(urcs', u)
         /\ \A c \in Commands : /\ Has(resp'[c].inter, u) <=> Has(resp[c].inter, u)
                                /\ Once(resp[c].inter, u) => Once(resp'[c].inter, u)
<1>1. /\ reader.line \in Lines /\ urcs \in Seq(Lines) /\ ~FirstLine(reader.line, u)
      /\ \A c \in Commands : resp[c].inter \in Seq(Lines)
  BY DEF ProcessLine, ThreadsApart, TypeOK, FirstLine
<1>2. UNCHANGED urcs \/ urcs' = Append(urcs, reader.line)
  BY DEF ProcessLine, SortLine, HandleUnsolicited
<1>3. \A c \in Commands : \/ resp'[c].inter = resp[c].inter
                          \/ resp'[c].inter = Append(resp[c].inter, reader.line)
  <2> SUFFICES ASSUME NEW c \in Commands
               PROVE  \/ resp'[c].inter = resp[c].inter
                      \/ resp'[c].inter = Append(resp[c].inter, reader.line)
    OBVIOUS
  <2> QED
    BY ProcessFacts
<1>4. /\ Has(Append(urcs, reader.line), u) <=> Has(urcs, u)
      /\ Once(urcs, u) => Once(Append(urcs, reader.line), u)
  BY <1>1, OnceAppend
<1>5. ASSUME NEW c \in Commands
      PROVE  /\ Has(Append(resp[c].inter, reader.line), u) <=> Has(resp[c].inter, u)
             /\ Once(resp[c].inter, u) => Once(Append(resp[c].inter, reader.line), u)
  BY <1>1, OnceAppend
<1>6. ASSUME NEW c \in Commands
      PROVE  /\ Has(resp'[c].inter, u) <=> Has(resp[c].inter, u)
             /\ Once(resp[c].inter, u) => Once(resp'[c].inter, u)
  BY <1>3, <1>5
<1> QED
  BY <1>2, <1>4, <1>6

(* A sorted URC goes from the reader's hands to one place. *)
LEMMA UrcSorted ==
  ASSUME TypeOK, ThreadsApart, CommandTracked, LinesOk, SmsPaired, Settled, UNCHANGED inst,
         ProcessLine, NEW u \in Urcs, UrcPlaced(u)
  PROVE  UrcPlaced(u)'
<1>1. /\ UNCHANGED << pty, urcSent >> /\ reader'.line.from # u /\ reader'.pc = "read"
      /\ reader.pc = "process" /\ reader.line \in Lines /\ reader.line.text # "PDU"
      /\ urcs \in Seq(Lines) /\ \A c \in Commands : resp[c].inter \in Seq(Lines)
  BY ChannelAssumption DEF ProcessLine, modemVars, NoLine, Line, ThreadsApart, SmsPaired, Held, TypeOK
<1>2. CASE reader.line.from # u
  <2>1. /\ Has(urcs', u) <=> Has(urcs, u)
        /\ Once(urcs, u) => Once(urcs', u)
        /\ \A c \in Commands : /\ Has(resp'[c].inter, u) <=> Has(resp[c].inter, u)
                               /\ Once(resp[c].inter, u) => Once(resp'[c].inter, u)
    BY <1>2, OtherSortLine
  <2> QED
    BY <1>1, <1>2, <2>1 DEF UrcPlaced
<1>3. CASE reader.line.from = u
  <2>1. /\ FirstLine(reader.line, u) /\ u \in urcSent /\ ~Has(pty, u) /\ ~Has(urcs, u)
        /\ Once(pty, u) /\ Once(urcs, u)
        /\ \A c \in Commands : ~Has(resp[c].inter, u) /\ Once(resp[c].inter, u)
    BY <1>1, <1>3 DEF UrcPlaced, FirstLine
  <2>2. CASE UNCHANGED resp /\ urcs' = Append(urcs, reader.line)
    <3>1. Has(urcs', u) /\ Once(urcs', u)
      BY <1>1, <2>1, <2>2, OnceAppend
    <3> QED
      BY <1>1, <2>1, <2>2, <3>1 DEF UrcPlaced
  <2>3. ASSUME UNCHANGED urcs, NEW c \in Commands,
               resp'[c].inter = Append(resp[c].inter, reader.line),
               \A d \in Commands \ {c} : resp'[d] = resp[d]
        PROVE  UrcPlaced(u)'
    <3>1. Has(resp'[c].inter, u) /\ Once(resp'[c].inter, u)
      BY <1>1, <2>1, <2>3, OnceAppend
    <3>2. \A d \in Commands \ {c} : ~Has(resp'[d].inter, u) /\ Once(resp'[d].inter, u)
      BY <2>1, <2>3
    <3>3. \A d \in Commands : Once(resp'[d].inter, u) /\ (Has(resp'[d].inter, u) => d = c)
      BY <3>1, <3>2
    <3> QED
      BY <1>1, <2>1, <2>3, <3>1, <3>3 DEF UrcPlaced
  <2> QED
    BY <1>3, <2>2, <2>3, UrcSortLine
<1> QED
  BY <1>2, <1>3

(* The modem sends a URC once. *)
LEMMA UrcSends ==
  ASSUME TypeOK, LinesOk, UNCHANGED inst, Modem, NEW u \in Urcs, UrcPlaced(u)
  PROVE  UrcPlaced(u)'
<1>1. UNCHANGED << resp, reader, urcs >>
  BY ModemStep
<1>2. CASE UNCHANGED << pty, lines, smsHalf, urcSent >>
  BY <1>1, <1>2 DEF UrcPlaced
<1>3. ASSUME NEW l \in Lines, pty' = Append(pty, l), FromCommand(l) \/ FromUrc(l) \/ SecondHalf(l)
      PROVE  UrcPlaced(u)'
  <2>1. /\ pty \in Seq(Lines) /\ u \notin Commands /\ Once(pty, u)
        /\ \A v \in inst.urcs : UrcText[v] # "PDU"
    BY ChannelAssumption DEF TypeOK, UrcPlaced, LinesOk
  <2>2. CASE ~FirstLine(l, u) /\ (u \in urcSent' <=> u \in urcSent)
    <3>1. Once(pty', u) /\ (Has(pty', u) <=> Has(pty, u))
      BY <1>3, <2>1, <2>2, OnceAppend
    <3> QED
      BY <1>1, <2>2, <3>1 DEF UrcPlaced
  <2>3. CASE FirstLine(l, u) /\ u \notin urcSent /\ u \in urcSent'
    <3>1. ~Has(pty, u)
      BY <2>3 DEF UrcPlaced
    <3>2. Once(pty', u) /\ Has(pty', u)
      BY <1>3, <2>1, <2>3, <3>1, OnceAppend
    <3> QED
      BY <1>1, <2>3, <3>2 DEF UrcPlaced
  <2>4. \/ ~FirstLine(l, u) /\ (u \in urcSent' <=> u \in urcSent)
        \/ FirstLine(l, u) /\ u \notin urcSent /\ u \in urcSent'
    <3>1. CASE FromCommand(l) \/ SecondHalf(l)
      BY <2>1, <3>1 DEF FromCommand, SecondHalf, FirstLine
    <3>2. CASE FromUrc(l)
      BY <2>1, <3>2 DEF FromUrc, FirstLine
    <3> QED
      BY <1>3, <3>1, <3>2
  <2> QED
    BY <2>2, <2>3, <2>4
<1> QED
  BY <1>2, <1>3, ModemStep

(* No PDU comes among the sorted lines, and no line stays in the reader's hands. *)
LEMMA SettledStep ==
  ASSUME TypeOK, ThreadsApart, CommandTracked, LinesOk, SmsPaired, Settled, UNCHANGED inst,
         Steps \/ UNCHANGED vars
  PROVE  Settled'
<1>0. inst.commands \subseteq Commands
  BY ChannelAssumption DEF LinesOk
<1> DEFINE Idle == reader'.pc \notin {"sms", "lock", "process"} => reader'.line = NoLine
           NoPdus == /\ \A i \in DOMAIN urcs' : urcs'[i].text # "PDU"
                     /\ \A c \in Commands : \A i \in DOMAIN resp'[c].inter : resp'[c].inter[i].text # "PDU"
<1>1. ASSUME UNCHANGED urcs, \A c \in Commands : resp'[c].inter = resp[c].inter PROVE NoPdus
  BY <1>1 DEF Settled
<1>2. UNCHANGED reader \/ reader'.line = NoLine \/ reader'.pc \in {"sms", "lock", "process"} => Idle
  BY DEF Settled
<1>3. CASE SenderSteps
  <2>1. UNCHANGED urcs
    BY <1>3 DEF SenderSteps, Sender, AtSendCommand, WriteLine, Publish, Wake, TimeOut, ReturnTimeout
  <2>2. NoPdus
    BY <1>1, <1>3, <2>1, SenderFacts
  <2>3. Idle
    BY <1>2, <1>3, SenderFacts
  <2> QED
    BY <2>2, <2>3 DEF Settled, NoLine
<1>4. CASE ReadLine \/ ReadEof \/ ReaderLock
  <2>1. NoPdus
    BY <1>1, <1>4 DEF ReadLine, ReadEof, ReaderLock
  <2>2. Idle
    BY <1>2, <1>4 DEF ReadLine, ReadEof, ReaderLock
  <2> QED
    BY <2>1, <2>2 DEF Settled, NoLine
<1>5. CASE ReadSecondLine \/ ProcessLine
  <2>1. /\ reader.line \in Lines /\ reader.line.text # "PDU" /\ urcs \in Seq(Lines)
        /\ \A c \in Commands : resp[c].inter \in Seq(Lines)
    BY <1>5 DEF ReadSecondLine, ProcessLine, ThreadsApart, SmsPaired, Held, TypeOK
  <2>2. Idle
    BY <1>2, <1>5 DEF ReadSecondLine, ProcessLine
  <2>3. UNCHANGED urcs \/ urcs' = Append(urcs, reader.line)
    BY <1>5 DEF ReadSecondLine, ProcessLine, SortLine, HandleUnsolicited
  <2>4. ASSUME NEW c \in Commands
        PROVE  \/ resp'[c].inter = resp[c].inter
               \/ resp'[c].inter = Append(resp[c].inter, reader.line)
    <3>1. CASE ReadSecondLine
      BY <3>1 DEF ReadSecondLine
    <3>2. CASE ProcessLine
      BY <3>2, ProcessFacts
    <3> QED
      BY <1>5, <3>1, <3>2
  <2>5. ASSUME NEW q \in Seq(Lines), NEW i \in DOMAIN Append(q, reader.line),
               \A j \in DOMAIN q : q[j].text # "PDU"
        PROVE  Append(q, reader.line)[i].text # "PDU"
    <3>1. (i \in DOMAIN q /\ Append(q, reader.line)[i] = q[i]) \/ Append(q, reader.line)[i] = reader.line
      OBVIOUS
    <3> QED
      BY <2>1, <2>5, <3>1
  <2>6. \A i \in DOMAIN urcs' : urcs'[i].text # "PDU"
    BY <2>1, <2>3, <2>5 DEF Settled
  <2>7. \A c \in Commands : \A i \in DOMAIN resp'[c].inter : resp'[c].inter[i].text # "PDU"
    BY <2>1, <2>4, <2>5 DEF Settled
  <2> QED
    BY <2>2, <2>6, <2>7 DEF Settled, NoLine
<1>6. CASE Modem \/ UNCHANGED vars
  <2>1. UNCHANGED << urcs, resp, reader >>
    BY <1>6, ModemStep DEF vars
  <2> QED
    BY <2>1 DEF Settled, NoLine
<1> QED
  BY <1>0, <1>3, <1>4, <1>5, <1>6 DEF Steps, Reader, SenderSteps

(* The channel starts with no URC. *)
LEMMA InitUrcs == Init => UrcInv
<1> SUFFICES ASSUME Init PROVE UrcInv
  OBVIOUS
<1>1. /\ pty = << >> /\ urcs = << >> /\ urcSent = {} /\ reader = [pc |-> "read", line |-> NoLine]
      /\ \A c \in Commands : resp[c].inter = << >>
  BY DEF Init
<1>2. NoLine.from \notin Urcs
  BY ChannelAssumption DEF NoLine, Line
<1> QED
  BY <1>1, <1>2 DEF UrcInv, Settled, UrcPlaced, Has, Once

(* Every step keeps each URC at the one place it is at, or moves it on to the next. *)
LEMMA StepUrcs == IInv /\ CInv /\ UrcInv /\ [Next]_vars => UrcInv'
<1> SUFFICES ASSUME IInv, CInv, UrcInv, [Next]_vars PROVE UrcInv'
  OBVIOUS
<1> USE DEF IInv, CInv, UrcInv
<1>1. UNCHANGED inst /\ (Steps \/ UNCHANGED vars)
  BY DEF Next, vars
<1>2. Settled'
  BY <1>1, SettledStep
<1>3. ASSUME NEW u \in Urcs PROVE UrcPlaced(u)'
  <2>0. UrcPlaced(u) /\ inst.commands \subseteq Commands /\ NoLine.from # u
    BY ChannelAssumption DEF LinesOk, NoLine, Line
  <2>1. CASE SenderSteps
    <3>1. /\ UNCHANGED << pty, urcs, urcSent >>
          /\ UNCHANGED reader \/ reader' = [pc |-> "aborted", line |-> NoLine]
          /\ \A c \in Commands : resp'[c].inter = resp[c].inter
      <4>1. UNCHANGED << urcs, urcSent >>
        BY <2>1 DEF SenderSteps, Sender, AtSendCommand, WriteLine, Publish, Wake, TimeOut,
                    ReturnTimeout, modemVars
      <4> QED
        BY <2>1, <4>1, SenderFacts
    <3>2. CASE UNCHANGED reader
      BY <2>0, <3>1, <3>2 DEF UrcPlaced
    <3>3. CASE reader' = [pc |-> "aborted", line |-> NoLine]
      <4>1. reader'.pc = "aborted" /\ reader'.line.from # u
        BY <2>0, <3>3
      <4> QED
        BY <2>0, <3>1, <4>1 DEF UrcPlaced
    <3> QED
      BY <3>1, <3>2, <3>3
  <2>2. CASE ReadLine \/ ReadSecondLine \/ ReadEof \/ ReaderLock
    BY <1>1, <2>0, <2>2, UrcRead
  <2>3. CASE ProcessLine
    BY <1>1, <2>0, <2>3, UrcSorted
  <2>4. CASE Modem
    BY <1>1, <2>0, <2>4, UrcSends
  <2>5. CASE UNCHANGED vars
    <3>1. UNCHANGED << pty, urcs, urcSent, reader, resp >>
      BY <2>5 DEF vars, modemVars
    <3> QED
      BY <2>0, <3>1 DEF UrcPlaced
  <2> QED
    BY <1>1, <2>0, <2>1, <2>2, <2>3, <2>4, <2>5 DEF Steps, Reader, SenderSteps
<1> QED
  BY <1>2, <1>3

(* The places of the property are those of the invariant. *)
LEMMA HoldersOf ==
  ASSUME Settled, NEW u
  PROVE  \A h : h \in Holders(u) <=>
           \/ \E i \in DOMAIN pty : h = << "pty", i >> /\ FirstLine(pty[i], u)
           \/ \E i \in DOMAIN urcs : h = << "urcs", i >> /\ FirstLine(urcs[i], u)
           \/ \E c \in Commands : \E i \in DOMAIN resp[c].inter :
                h = << c, i >> /\ FirstLine(resp[c].inter[i], u)
<1>1. /\ \A i \in DOMAIN urcs : FirstLine(urcs[i], u) <=> urcs[i].from = u
      /\ \A c \in Commands : \A i \in DOMAIN resp[c].inter :
           FirstLine(resp[c].inter[i], u) <=> resp[c].inter[i].from = u
  BY DEF Settled, FirstLine
<1> DEFINE P == {<< "pty", i >> : i \in {j \in DOMAIN pty : pty[j].from = u /\ pty[j].text # "PDU"}}
           U == {<< "urcs", i >> : i \in {j \in DOMAIN urcs : urcs[j].from = u}}
           K(c) == {<< c, i >> : i \in {j \in DOMAIN resp[c].inter : resp[c].inter[j].from = u}}
<1>2. \A h : h \in Holders(u) <=> h \in P \/ h \in U \/ \E c \in Commands : h \in K(c)
  BY DEF Holders
<1>3. \A h : h \in P <=> \E i \in DOMAIN pty : h = << "pty", i >> /\ FirstLine(pty[i], u)
  BY DEF FirstLine
<1>4. \A h : h \in U <=> \E i \in DOMAIN urcs : h = << "urcs", i >> /\ FirstLine(urcs[i], u)
  BY <1>1
<1>5. \A h : \A c \in Commands : h \in K(c) <=>
        \E i \in DOMAIN resp[c].inter : h = << c, i >> /\ FirstLine(resp[c].inter[i], u)
  BY <1>1
<1> HIDE DEF P, U, K
<1> QED
  BY <1>2, <1>3, <1>4, <1>5

(* Each unsolicited line is still unread, or in the reader's hands, or was given to
   handleUnsolicited once, or was kept once by a command it looks like an answer to, until
   the reader stops. *)
THEOREM UrcsKeptCorrect == Spec => []UrcsKept
<1>1. ASSUME TypeOK, UrcInv PROVE UrcsKept
  <2> SUFFICES ASSUME NEW u \in urcSent
               PROVE  \/ \E h \in Holders(u) : Holders(u) = {h} /\ reader.line.from # u
                      \/ Holders(u) = {} /\ reader.line.from = u
                      \/ Holders(u) = {} /\ reader.pc \in {"stopped", "aborted"}
    BY DEF UrcsKept
  <2>1. UrcPlaced(u) /\ Settled
    BY <1>1 DEF UrcInv, TypeOK
  <2>h. \A h : h \in Holders(u) <=>
          \/ \E i \in DOMAIN pty : h = << "pty", i >> /\ FirstLine(pty[i], u)
          \/ \E i \in DOMAIN urcs : h = << "urcs", i >> /\ FirstLine(urcs[i], u)
          \/ \E c \in Commands : \E i \in DOMAIN resp[c].inter :
               h = << c, i >> /\ FirstLine(resp[c].inter[i], u)
    BY <2>1, HoldersOf
  <2>2. CASE Has(pty, u)
    <3>1. PICK i \in DOMAIN pty : FirstLine(pty[i], u)
      BY <2>2 DEF Has
    <3>2. /\ \A j \in DOMAIN pty : FirstLine(pty[j], u) => j = i
          /\ ~Has(urcs, u) /\ reader.line.from # u /\ \A c \in Commands : ~Has(resp[c].inter, u)
      BY <2>1, <2>2, <3>1 DEF UrcPlaced, Once
    <3>3. \A h : h \in Holders(u) <=> h = << "pty", i >>
      BY <2>h, <3>1, <3>2 DEF Has
    <3> QED
      BY <3>2, <3>3
  <2>3. CASE Has(urcs, u)
    <3>1. PICK i \in DOMAIN urcs : FirstLine(urcs[i], u)
      BY <2>3 DEF Has
    <3>2. /\ \A j \in DOMAIN urcs : FirstLine(urcs[j], u) => j = i
          /\ ~Has(pty, u) /\ reader.line.from # u /\ \A c \in Commands : ~Has(resp[c].inter, u)
      BY <2>1, <2>3, <3>1 DEF UrcPlaced, Once
    <3>3. \A h : h \in Holders(u) <=> h = << "urcs", i >>
      BY <2>h, <3>1, <3>2 DEF Has
    <3> QED
      BY <3>2, <3>3
  <2>4. ASSUME NEW c \in Commands, Has(resp[c].inter, u)
        PROVE  \E h \in Holders(u) : Holders(u) = {h} /\ reader.line.from # u
    <3>1. PICK i \in DOMAIN resp[c].inter : FirstLine(resp[c].inter[i], u)
      BY <2>4 DEF Has
    <3>2. /\ \A j \in DOMAIN resp[c].inter : FirstLine(resp[c].inter[j], u) => j = i
          /\ ~Has(pty, u) /\ ~Has(urcs, u) /\ reader.line.from # u
          /\ \A d \in Commands : Has(resp[d].inter, u) => d = c
      BY <2>1, <2>4, <3>1 DEF UrcPlaced, Once
    <3>3. \A h : h \in Holders(u) <=> h = << c, i >>
      <4>1. << c, i >> \in Holders(u)
        BY <2>h, <3>1
      <4>2. ASSUME NEW d \in Commands, NEW j \in DOMAIN resp[d].inter, FirstLine(resp[d].inter[j], u)
            PROVE  d = c /\ j = i
        BY <3>2, <4>2 DEF Has
      <4> QED
        BY <2>h, <3>2, <4>1, <4>2 DEF Has
    <3> QED
      BY <3>2, <3>3
  <2>5. CASE ~Has(pty, u) /\ ~Has(urcs, u) /\ \A c \in Commands : ~Has(resp[c].inter, u)
    <3>1. \A h : h \notin Holders(u)
      BY <2>h, <2>5 DEF Has
    <3> QED
      BY <2>1, <2>5, <3>1 DEF UrcPlaced
  <2> QED
    <3>1. \A h : h \in Holders(u) => Holders(u) # {}
      OBVIOUS
    <3> QED
      BY <2>1, <2>2, <2>3, <2>4, <2>5 DEF UrcPlaced
<1>2. Spec => []UrcInv
  BY InitUrcs, StepUrcs, ChannelInvariant, CompletenessInvariant, PTL DEF Spec
<1>3. IInv => TypeOK
  BY DEF IInv
<1> QED
  BY <1>1, <1>2, <1>3, ChannelInvariant, PTL
=============================================================================
