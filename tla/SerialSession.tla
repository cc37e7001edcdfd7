--------------------------- MODULE SerialSession ----------------------------
(***************************************************************************)
(* The command-line clients ssos_cmd, ssos_dump and ssos_host on one end   *)
(* of the USB console and the line reader of the firmware on the other.    *)
(* A client is a script of windows in which it listens and of lines it     *)
(* sends; one client runs after another on the same board.                 *)
(*                                                                         *)
(* Text is kept in pieces: a command is two of them and a newline.  What   *)
(* the board prints are packets with consecutive numbers.  A bulk IN       *)
(* transfer of 256 bytes ends after PerTransfer packets, with a short one, *)
(* or at its timeout; a bulk OUT transfer may time out after any part.     *)
(***************************************************************************)
EXTENDS Integers, Sequences, FiniteSets

CONSTANTS
    Commands,       \* one-shot commands, other than ID and DUMP
    LongCommands,   \* those that do not fit the client's line buffer
    Slices,         \* transfers in a window (10, 17, 50 or 200)
    PerTransfer,    \* full packets that end a transfer (256 / 64)
    MaxReply,       \* bound of the model: packets of a reply
    LineMax,        \* pieces that fit the firmware's line buffer: at least a
                    \* command, since 239 characters are more than the client's
    MaxSessions,    \* bound of the model: clients started
    MaySplit,       \* model parameter: OUT transfers may time out early
    Prompt          \* model parameter: the board never keeps a client waiting

SessionAssumption ==
    /\ LongCommands \subseteq Commands
    /\ {Slices, PerTransfer, MaxReply} \subseteq Nat \ {0}
    /\ LineMax \in Nat /\ LineMax >= 2
    /\ MaxSessions \in Nat
    /\ {MaySplit, Prompt} \subseteq BOOLEAN

VARIABLES
    tool,       \* the client that runs or ran last
    script,     \* what it has still to do
    slices,     \* transfers left in the current window
    xfer,       \* packets in the current IN transfer
    captured,   \* packets written to the client's output
    tx, rx,     \* packets printed and not fetched; pieces sent and not read
    line,       \* the firmware's lineBuf
    printed,    \* number of packets printed so far
    sessions,   \* clients started so far
    g           \* ghosts: typed and executed commands, packets dropped, the
                \* last packet of earlier sessions, and whether text was cut

vars == <<tool, script, slices, xfer, captured, tx, rx, line, printed, sessions, g>>
host == <<tool, script, slices, xfer, captured, sessions>>
board == <<tx, rx, line, printed>>

NL == <<"newline">>
Piece(c, i) == <<c, i>>
Whole(c) == <<Piece(c, 1), Piece(c, 2)>>

Listen == <<"listen">>
Drain == <<"drain">>        \* keeps what a transfer got before it timed out
Send(text) == <<"send", text>>

\* The clients.  ssos_cmd cuts a long command, its newline included; fgets
\* hands ssos_host a long typed line in two parts, each sent as a line.
CmdScript(c) ==
    <<Drain, Send(IF c \in LongCommands THEN <<Piece(c, 1)>> ELSE Append(Whole(c), NL)),
      Listen>>

DumpScript ==
    <<Listen, Send(Append(Whole("ID"), NL)), Listen,
      Send(Append(Whole("DUMP"), NL)), Listen>>

HostScript(c) ==
    <<Listen>> \o
    (IF c \in LongCommands
       THEN <<Send(<<Piece(c, 1), NL>>), Listen, Send(<<Piece(c, 2), NL>>), Listen>>
       ELSE <<Send(Append(Whole(c), NL)), Listen>>)

Packet == [no: Nat, short: BOOLEAN]

TypeOK ==
    /\ tool \in {"none", "cmd", "dump", "host"}
    /\ slices \in 0..Slices
    /\ Len(xfer) < PerTransfer
    /\ \A i \in 1..Len(xfer) : xfer[i] \in Packet /\ ~xfer[i].short
    /\ \A i \in 1..Len(tx) : tx[i] \in Packet
    /\ Len(line) <= LineMax
    /\ printed \in Nat
    /\ sessions \in 0..MaxSessions

Init ==
    /\ tool = "none"
    /\ script = <<>>
    /\ slices = 0
    /\ xfer = <<>>
    /\ captured = <<>>
    /\ tx = <<>> /\ rx = <<>> /\ line = <<>>
    /\ printed = 0
    /\ sessions = 0
    /\ g = [typed |-> <<>>, done |-> <<>>, dropped |-> {}, base |-> 0, cut |-> FALSE]

-----------------------------------------------------------------------------
\* The clients.

Start(t, s, cs) ==
    /\ script = <<>>
    /\ sessions < MaxSessions
    /\ sessions' = sessions + 1
    /\ tool' = t
    /\ script' = s
    /\ slices' = Slices
    /\ captured' = <<>>
    /\ g' = [g EXCEPT !.typed = @ \o cs, !.base = printed, !.dropped = {},
                      !.cut = @ \/ cs[Len(cs)] \in LongCommands]
    /\ UNCHANGED <<xfer, board>>

StartCmd(c) == Start("cmd", CmdScript(c), <<c>>)
StartDump == Start("dump", DumpScript, <<"ID", "DUMP">>)
StartHost(c) == Start("host", HostScript(c), <<c>>)

Listening == script # <<>> /\ Head(script) \in {Listen, Drain}

\* One transfer of the window has ended.
NextSlice ==
    /\ xfer' = <<>>
    /\ IF slices > 1 THEN slices' = slices - 1 /\ UNCHANGED script
                     ELSE slices' = Slices /\ script' = Tail(script)

Numbers(s) == [i \in 1..Len(s) |-> s[i].no]

\* Mutant: a transfer of exactly the buffer's size is not written.
ArriveShortOnly ==
    LET got == Append(xfer, Head(tx)) IN
    /\ Listening /\ tx # <<>>
    /\ tx' = Tail(tx)
    /\ IF Head(tx).short \/ Len(got) = PerTransfer
         THEN /\ NextSlice
              /\ captured' = IF Head(tx).short THEN captured \o Numbers(got) ELSE captured
         ELSE /\ xfer' = got
              /\ UNCHANGED <<captured, slices, script>>
    /\ UNCHANGED <<tool, sessions, rx, line, printed, g>>

\* A packet arrives; a short or the last one ends the transfer.
Arrive ==
    LET got == Append(xfer, Head(tx)) IN
    /\ Listening /\ tx # <<>>
    /\ tx' = Tail(tx)
    /\ IF Head(tx).short \/ Len(got) = PerTransfer
         THEN NextSlice /\ captured' = captured \o Numbers(got)
         ELSE xfer' = got /\ UNCHANGED <<captured, slices, script>>
    /\ UNCHANGED <<tool, sessions, rx, line, printed, g>>

\* The transfer times out.  What it got is discarded, since the result is
\* not 0; only the first loop of ssos_cmd looks at the count alone.
TimesOut ==
    /\ Listening
    /\ Prompt => tx = <<>> /\ rx = <<>>
    /\ NextSlice
    /\ IF Head(script) = Drain
         THEN captured' = captured \o Numbers(xfer) /\ UNCHANGED g
         ELSE /\ g' = [g EXCEPT !.dropped = @ \cup {xfer[i].no : i \in 1..Len(xfer)}]
              /\ UNCHANGED captured
    /\ UNCHANGED <<tool, sessions, board>>

\* One OUT transfer; no client looks at how much of it was taken.
SendText ==
    /\ script # <<>> /\ Head(script)[1] = "send"
    /\ LET text == Head(script)[2] IN
       \E n \in IF MaySplit THEN 0..Len(text) ELSE {Len(text)} :
          /\ rx' = rx \o SubSeq(text, 1, n)
          /\ g' = [g EXCEPT !.cut = @ \/ n < Len(text)]
    /\ script' = Tail(script)
    /\ UNCHANGED <<tool, slices, xfer, captured, sessions, tx, line, printed>>

-----------------------------------------------------------------------------
\* The firmware: loop() reads characters, handleLine answers.

\* The packets of one answer; the last need not be short, since 64 bytes
\* more or less are no end of text.
Answers ==
    UNION {{[i \in 1..n |-> [no |-> printed + i, short |-> f[i]]] : f \in [1..n -> BOOLEAN]} :
              n \in 1..MaxReply}

Executed == IF \E c \in Commands \cup {"ID", "DUMP"} : line = Whole(c)
              THEN line[1][1] ELSE "unknown"

\* Mutant: handleLine returns early and leaves the line in the buffer.
ReadLineKeeps ==
    /\ rx # <<>> /\ Head(rx) = NL
    /\ rx' = Tail(rx)
    /\ \E r \in Answers : tx' = tx \o r /\ printed' = printed + Len(r)
    /\ g' = [g EXCEPT !.done = Append(@, Executed)]
    /\ UNCHANGED <<line, host>>

ReadLine ==
    /\ rx # <<>> /\ Head(rx) = NL
    /\ rx' = Tail(rx)
    /\ line' = <<>>
    /\ \E r \in Answers : tx' = tx \o r /\ printed' = printed + Len(r)
    /\ g' = [g EXCEPT !.done = Append(@, Executed)]
    /\ UNCHANGED host

\* Mutant: the test forgets the closing zero.
ReadTextOverruns ==
    /\ rx # <<>> /\ Head(rx) # NL
    /\ rx' = Tail(rx)
    /\ line' = IF Len(line) <= LineMax THEN Append(line, Head(rx)) ELSE line
    /\ UNCHANGED <<tx, printed, host, g>>

\* A character beyond the buffer is dropped.
ReadText ==
    /\ rx # <<>> /\ Head(rx) # NL
    /\ rx' = Tail(rx)
    /\ line' = IF Len(line) < LineMax THEN Append(line, Head(rx)) ELSE line
    /\ UNCHANGED <<tx, printed, host, g>>

Next ==
    \/ \E c \in Commands : StartCmd(c) \/ StartHost(c)
    \/ StartDump
    \/ Arrive \/ TimesOut \/ SendText
    \/ ReadLine \/ ReadText

Spec == Init /\ [][Next]_vars

-----------------------------------------------------------------------------
\* Properties.

CapturedSet == {captured[i] : i \in 1..Len(captured)}
Waiting == {tx[i].no : i \in 1..Len(tx)} \cup {xfer[i].no : i \in 1..Len(xfer)}

(***************************************************************************)
(* What a client writes is what the board printed, in that order and       *)
(* nothing twice; and each packet of the session is written, still to      *)
(* come, or was in a transfer that timed out: windows, short packets and   *)
(* late answers lose nothing else.                                         *)
(***************************************************************************)
CaptureExact ==
    /\ \A i, j \in 1..Len(captured) : i < j => captured[i] < captured[j]
    /\ (g.base + 1)..printed \subseteq CapturedSet \cup Waiting \cup g.dropped

(***************************************************************************)
(* As long as every transfer was taken whole and every command fitted, the *)
(* board executes the commands of all clients, each by itself and in the   *)
(* order typed, although nobody waits for an answer.                       *)
(***************************************************************************)
CommandsWhole ==
    ~g.cut => /\ Len(g.done) <= Len(g.typed)
              /\ \A i \in 1..Len(g.done) : g.done[i] = g.typed[i]

(***************************************************************************)
(* host/README.md: "`ssos_dump.c` retrieves `ID` and the current `DUMP`    *)
(* output".  When the client has finished and the board, which never kept  *)
(* it waiting, has answered both, the answers are in its output.           *)
(***************************************************************************)
DumpRetrieved ==
    (tool = "dump" /\ script = <<>> /\ ~g.cut /\ g.done = g.typed) =>
        (g.base + 1)..printed \subseteq CapturedSet

(***************************************************************************)
(* ssos_cmd.c: "Send one line to SSOS over USB."  When the client is done  *)
(* and its text was taken whole, the board has its line.                   *)
(***************************************************************************)
OneLineSent ==
    (tool = "cmd" /\ script = <<>>) => (rx # <<>> \/ g.done = g.typed)
=============================================================================
