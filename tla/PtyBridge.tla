----------------------------- MODULE PtyBridge ------------------------------
(***************************************************************************)
(* host/cdc-pty.c: a bridge between the board's USB console and a          *)
(* pseudo-terminal.  Thread U carries what the board prints to the         *)
(* terminal, the main thread M carries what is typed to the board; they    *)
(* share the flag stop and nothing else.  U ends a transfer within its     *)
(* timeout, but its write() blocks while the pty is full; M's read()       *)
(* blocks until something is typed.  main holds the slave side open, so    *)
(* neither call ever fails because the terminal program has gone.          *)
(*                                                                         *)
(* Each direction is a stream of numbered units, one byte or more.  Until  *)
(* the terminal program sets raw mode, the pty echoes what U writes, and   *)
(* M takes the echo for typing: openpty is called with default settings.   *)
(***************************************************************************)
EXTENDS Integers, Sequences, FiniteSets, Functions

CONSTANTS
    MaxPrinted, MaxTyped,   \* bounds of the model: units per direction
    Chunk,                  \* units in the 512-byte buffers
    PtyCap                  \* units the pty holds towards the terminal

BridgeAssumption == {MaxPrinted, MaxTyped, Chunk, PtyCap} \subseteq Nat \ {0}

VARIABLES
    stop,
    u, m,       \* the threads: [pc, buf]
    tty,        \* towards the terminal: units written and not yet read
    seen,       \* what the terminal has read
    keys,       \* towards the board: units M has not read; 0 is an echo
    got,        \* what the board has taken
    printed, typed, \* units produced by the board and by the terminal
    lost,       \* ghost: units of a transfer that timed out
    raw         \* the terminal program has set raw mode

vars == <<stop, u, m, tty, seen, keys, got, printed, typed, lost, raw>>
outward == <<u, tty, seen, printed, lost>>
inward == <<m, got, typed>>

\* Units that transfers have taken, in order.
Taken == Cardinality(lost) + Len(seen) + Len(tty) + Len(u.buf)

TypeOK ==
    /\ {stop, raw} \subseteq BOOLEAN
    /\ u.pc \in {"transfer", "test", "write", "exit"} /\ Len(u.buf) <= Chunk
    /\ m.pc \in {"read", "send", "join", "exit"} /\ Len(m.buf) <= Chunk
    /\ Len(tty) <= PtyCap
    /\ printed \in 0..MaxPrinted /\ typed \in 0..MaxTyped
    /\ lost \subseteq 1..printed

\* main has opened device and pty and starts the thread.
Init ==
    /\ stop = FALSE
    /\ u = [pc |-> "transfer", buf |-> <<>>]
    /\ m = [pc |-> "read", buf |-> <<>>]
    /\ tty = <<>> /\ seen = <<>> /\ keys = <<>> /\ got = <<>>
    /\ printed = 0 /\ typed = 0
    /\ lost = {}
    /\ raw = FALSE

-----------------------------------------------------------------------------
\* Thread U: usb_to_pty.

\* Mutant: the loop goes on while there is something to carry.
UExitWhenEmpty ==
    /\ u.pc = "transfer" /\ stop /\ Taken = printed
    /\ u' = [u EXCEPT !.pc = "exit"]
    /\ UNCHANGED <<stop, tty, seen, printed, lost, keys, raw, inward>>

UExit ==
    /\ u.pc = "transfer" /\ stop
    /\ u' = [u EXCEPT !.pc = "exit"]
    /\ UNCHANGED <<stop, tty, seen, printed, lost, keys, raw, inward>>

\* What the next transfer may have when it ends.
InTransfers == {[i \in 1..n |-> Taken + i] : n \in {k \in 0..Chunk : Taken + k <= printed}}

TransferGot ==
    /\ u.pc = "transfer" /\ ~stop
    /\ \E s \in InTransfers \ {<<>>} : u' = [pc |-> "test", buf |-> s]
    /\ UNCHANGED <<stop, tty, seen, printed, lost, keys, raw, inward>>

\* A timeout: what arrived in time is discarded with it.
TransferTimesOut ==
    /\ u.pc = "transfer" /\ ~stop
    /\ \E s \in InTransfers : lost' = lost \cup Range(s)
    /\ UNCHANGED <<stop, u, tty, seen, printed, keys, raw, inward>>

\* Any other error, and a transfer that ends well and empty: the test for
\* n > 0 sends a zero-length packet into the error branch.
TransferStops ==
    /\ u.pc = "transfer" /\ ~stop
    /\ stop' = TRUE
    /\ UNCHANGED <<u, tty, seen, printed, lost, keys, raw, inward>>

\* The head of the loop over the chunk looks at stop; write() does not.
Test ==
    /\ u.pc = "test"
    /\ IF u.buf = <<>> \/ stop
         THEN lost' = lost \cup Range(u.buf) /\ u' = [pc |-> "transfer", buf |-> <<>>]
         ELSE u' = [u EXCEPT !.pc = "write"] /\ UNCHANGED lost
    /\ UNCHANGED <<stop, tty, seen, printed, keys, raw, inward>>

\* Mutant: what write() took is not skipped.
WriteRestarts ==
    /\ u.pc = "write"
    /\ \E n \in 1..Len(u.buf) :
          /\ Len(tty) + n <= PtyCap
          /\ tty' = tty \o SubSeq(u.buf, 1, n)
          /\ u' = [pc |-> "test", buf |-> IF n = Len(u.buf) THEN <<>> ELSE u.buf]
          /\ keys' = IF raw THEN keys ELSE keys \o [i \in 1..n |-> 0]
    /\ UNCHANGED <<stop, seen, printed, lost, raw, inward>>

\* write() takes part of the chunk, or blocks.
Write ==
    /\ u.pc = "write"
    /\ \E n \in 1..Len(u.buf) :
          /\ Len(tty) + n <= PtyCap
          /\ tty' = tty \o SubSeq(u.buf, 1, n)
          /\ u' = [pc |-> "test", buf |-> SubSeq(u.buf, n + 1, Len(u.buf))]
          /\ keys' = IF raw THEN keys ELSE keys \o [i \in 1..n |-> 0]
    /\ UNCHANGED <<stop, seen, printed, lost, raw, inward>>

-----------------------------------------------------------------------------
\* Thread M: the loop of main.

\* Mutant: read() is given more than the buffer.
ReadOverruns ==
    /\ m.pc = "read" /\ keys # <<>>
    /\ m' = [pc |-> "send", buf |-> keys]
    /\ keys' = <<>>
    /\ UNCHANGED <<stop, raw, got, typed, outward>>

Read ==
    /\ m.pc = "read" /\ keys # <<>>
    /\ \E n \in 1..Len(keys) :
          /\ n <= Chunk
          /\ m' = [pc |-> "send", buf |-> SubSeq(keys, 1, n)]
          /\ keys' = SubSeq(keys, n + 1, Len(keys))
    /\ UNCHANGED <<stop, raw, got, typed, outward>>

\* The board takes part of the chunk.
Send ==
    /\ m.pc = "send" /\ ~stop /\ m.buf # <<>>
    /\ \E n \in 1..Len(m.buf) :
          /\ got' = got \o SubSeq(m.buf, 1, n)
          /\ m' = [m EXCEPT !.buf = SubSeq(m.buf, n + 1, Len(m.buf))]
    /\ UNCHANGED <<stop, keys, raw, typed, outward>>

\* Mutant: a timeout is retried from the start of the chunk.
SendFailsRetries ==
    /\ m.pc = "send" /\ ~stop /\ m.buf # <<>>
    /\ \E n \in 0..Len(m.buf) : got' = got \o SubSeq(m.buf, 1, n)
    /\ UNCHANGED <<m, stop, keys, raw, typed, outward>>

\* An error, a timeout included, ends the bridge; the board may have taken
\* part of the chunk.
SendFails ==
    /\ m.pc = "send" /\ ~stop /\ m.buf # <<>>
    /\ \E n \in 0..Len(m.buf) : got' = got \o SubSeq(m.buf, 1, n)
    /\ m' = [m EXCEPT !.buf = <<>>]
    /\ stop' = TRUE
    /\ UNCHANGED <<keys, raw, typed, outward>>

\* The inner loop has ended, and then the outer one looks at stop.
SendEnds ==
    /\ m.pc = "send" /\ (stop \/ m.buf = <<>>)
    /\ m' = [pc |-> IF stop THEN "join" ELSE "read", buf |-> <<>>]
    /\ UNCHANGED <<stop, keys, raw, got, typed, outward>>

\* Mutant: main leaves without waiting for the thread that uses the device.
JoinAtOnce ==
    /\ m.pc = "join"
    /\ m' = [m EXCEPT !.pc = "exit"]
    /\ UNCHANGED <<stop, keys, raw, got, typed, outward>>

\* pthread_join, then everything is closed.
Join ==
    /\ m.pc = "join" /\ u.pc = "exit"
    /\ m' = [m EXCEPT !.pc = "exit"]
    /\ UNCHANGED <<stop, keys, raw, got, typed, outward>>

-----------------------------------------------------------------------------
\* The board and the terminal program.

BoardPrints ==
    /\ printed < MaxPrinted
    /\ printed' = printed + 1
    /\ UNCHANGED <<stop, u, tty, seen, lost, keys, raw, inward>>

TerminalTypes ==
    /\ typed < MaxTyped
    /\ typed' = typed + 1
    /\ keys' = Append(keys, typed')
    /\ UNCHANGED <<stop, raw, m, got, outward>>

TerminalReads ==
    /\ tty # <<>>
    /\ seen' = Append(seen, Head(tty))
    /\ tty' = Tail(tty)
    /\ UNCHANGED <<stop, u, printed, lost, keys, raw, inward>>

SetRaw ==
    /\ ~raw
    /\ raw' = TRUE
    /\ UNCHANGED <<stop, keys, inward, outward>>

UStep == UExit \/ TransferGot \/ TransferTimesOut \/ TransferStops \/ Test \/ Write
MStep == Read \/ Send \/ SendFails \/ SendEnds \/ Join

Next == UStep \/ MStep \/ BoardPrints \/ TerminalTypes \/ TerminalReads \/ SetRaw

Spec == Init /\ [][Next]_vars

\* The threads run.  Nothing is assumed of board and terminal.
FairSpec == Spec /\ WF_vars(UStep) /\ WF_vars(MStep)

-----------------------------------------------------------------------------
\* Properties.

(***************************************************************************)
(* What is typed reaches the board in order, nothing twice and nothing     *)
(* left out before the point where the bridge stopped; echoes come in      *)
(* between.                                                                *)
(***************************************************************************)
ToBoardExact ==
    \A i \in 1..Len(got) :
       got[i] # 0 => {got[j] : j \in 1..(i - 1)} \ {0} = 1..(got[i] - 1)

(***************************************************************************)
(* What the board prints reaches the terminal in order and nothing twice;  *)
(* a unit that is missing was in a transfer that timed out, or in U's      *)
(* hands when the bridge stopped.                                          *)
(***************************************************************************)
ToTerminalExact ==
    LET stream == seen \o tty \o u.buf IN
    /\ \A i, j \in 1..Len(stream) : i < j => stream[i] < stream[j]
    /\ \A i \in 1..Taken : (i \in Range(stream)) # (i \in lost)

(***************************************************************************)
(* The device is closed only when the other thread has left its loop.      *)
(***************************************************************************)
ClosedAfterUse == m.pc = "exit" => u.pc = "exit" /\ stop

\* The safety of the bridge: the types and the three invariants above.
BridgeExact == TypeOK /\ ToBoardExact /\ ToTerminalExact /\ ClosedAfterUse

\* The two calls that stop cannot interrupt.
BlockedInRead == m.pc = "read" /\ keys = <<>>
BlockedInWrite == u.pc = "write" /\ Len(tty) = PtyCap

(***************************************************************************)
(* A bridge that was told to stop comes to an end, unless main waits for   *)
(* typing or U for a terminal that does not read: whichever thread sees    *)
(* the error, these are the only places where it can stay.                 *)
(***************************************************************************)
StopsOrBlocks ==
    stop ~> [](m.pc = "exit" \/ BlockedInRead \/ BlockedInWrite)
=============================================================================
