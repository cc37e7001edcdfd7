---------------------------- MODULE ParetoLoader ----------------------------
(***************************************************************************)
(* Loading the vocabulary of a ParetoQ stage into its PSRAM: the commands  *)
(* LOADBEGIN, LOADCHUNK, LOADB64, LOADEND and STARTBUS of paretoq_node.ino *)
(* and preload() of run_physical_benchmark.py, which sends one command at  *)
(* a time and takes the first line with the right prefix for its answer.   *)
(*                                                                         *)
(* The runner may be killed at any point, in the middle of a line too, and *)
(* started again on a board that has gone on; answers it has not read may  *)
(* then come late.  The link itself loses nothing.  Offsets count blocks.  *)
(***************************************************************************)
EXTENDS Integers, Sequences

CONSTANTS
    Size,       \* blocks of the vocabulary
    MaxRuns,    \* bound of the model: starts of the runner
    MaxResets,  \* bound of the model: resets of the board
    MaxQueue    \* bound of the model: answers not yet read

ASSUME LoaderAssumption ==
    /\ Size \in Nat \ {0}
    /\ {MaxRuns, MaxResets, MaxQueue} \subseteq Nat

VARIABLES
    ready,      \* g_ready
    load,       \* [expected, received, active]
    psram,      \* blocks of g_vocab_psram: "none", "vocab" or "junk"
    cut,        \* ghost: the bytes of a LOADCHUNK of this load did not all come
    bus,        \* g_bus_started by STARTBUS
    rx,         \* commands and parts of commands the board has not read
    answers,    \* lines the host has not read
    runner,     \* what the runner waits for, and its offset
    runs, resets

vars == <<ready, load, psram, cut, bus, rx, answers, runner, runs, resets>>
board == <<ready, load, psram, cut, bus>>

NoLoad == [expected |-> 0, received |-> 0, active |-> FALSE]
NoBlocks == [i \in 1..Size |-> "none"]

\* A count of bytes that is no multiple of a block.
Torn == -1

\* A command with its offset.
Cmd(c, n) == [cmd |-> c, n |-> n]
Answer(a, n) == [line |-> a, n |-> n]

TypeOK ==
    /\ ready \in BOOLEAN
    /\ load \in [expected: {0, Size}, received: 0..Size \cup {Torn}, active: BOOLEAN]
    /\ load.expected = 0 => load.received = 0
    /\ psram \in [1..Size -> {"none", "vocab", "junk"}]
    /\ {cut, bus} \subseteq BOOLEAN
    /\ Len(rx) <= MaxRuns + 2
    /\ Len(answers) <= MaxQueue
    /\ runner.wait \in {"closed", "INFO", "LOADBEGIN", "LOADB64", "LOADEND", "STARTBUS", "started"}
    /\ runner.offset \in 0..Size
    /\ runs \in 0..MaxRuns
    /\ resets \in 0..MaxResets

Init ==
    /\ ready = FALSE
    /\ load = NoLoad
    /\ psram = NoBlocks
    /\ cut = FALSE /\ bus = FALSE
    /\ rx = <<>>
    /\ answers = <<>>
    /\ runner = [wait |-> "closed", offset |-> 0]
    /\ runs = 0
    /\ resets = 0

-----------------------------------------------------------------------------
\* The board: handle_command on the next line of its input.

\* The next whole line.
Line == Head(rx)

Reads(c) == rx # <<>> /\ Line.cmd = c /\ rx' = Tail(rx)

Says(a, n) ==
    /\ Len(answers) < MaxQueue
    /\ answers' = Append(answers, Answer(a, n))

Info == Reads("INFO") /\ Says("INFO", 0) /\ UNCHANGED <<board, runner, runs, resets>>

\* Mutant: a stage that is loaded again stays ready.
LoadBeginKeepsReady ==
    /\ Reads("LOADBEGIN")
    /\ load' = [expected |-> Size, received |-> 0, active |-> TRUE]
    /\ Says("OK LOADBEGIN", 0)
    /\ UNCHANGED <<ready, psram, cut, bus, runner, runs, resets>>

LoadBegin ==
    /\ Reads("LOADBEGIN")
    /\ ready' = FALSE
    /\ load' = [expected |-> Size, received |-> 0, active |-> TRUE]
    /\ cut' = FALSE
    /\ Says("OK LOADBEGIN", 0)
    /\ UNCHANGED <<psram, bus, runner, runs, resets>>

\* Mutants: a block may come at any offset; it may come behind the last.
InPlaceAnywhere(n) == load.expected # 0 /\ n < load.expected
InPlaceBehind(n) == load.expected # 0 /\ n = load.received

\* The offset of a block is where the last one ended.
InPlace(n) == load.expected # 0 /\ n = load.received /\ n < load.expected

Store(n, what) ==
    /\ psram' = [psram EXCEPT ![n + 1] = what]
    /\ load' = [load EXCEPT !.received = @ + 1]

LoadB64 ==
    /\ Reads("LOADB64")
    /\ IF InPlace(Line.n)
         THEN Store(Line.n, "vocab") /\ Says("OK LOADB64", Line.n + 1)
         ELSE Says("ERR", 0) /\ UNCHANGED <<psram, load>>
    /\ UNCHANGED <<ready, cut, bus, runner, runs, resets>>

\* What is left of a LOADB64 line, taken alone after a second of silence or with
\* the line sent behind it: refused, before or after its bytes were written;
\* decoded to less than a block; or, alone and lacking its newline only, whole.
PartOfLine ==
    /\ rx # <<>> /\ Line.cmd = "part"
    /\ \/ rx' = Tail(rx)
       \/ Len(rx) > 1 /\ rx' = SubSeq(rx, 3, Len(rx))
    /\ \/ Says("ERR", 0) /\ UNCHANGED <<psram, load>>
       \/ /\ InPlace(Line.n)
          /\ \/ Says("ERR", 0) /\ psram' = [psram EXCEPT ![Line.n + 1] = "junk"] /\ UNCHANGED load
             \/ /\ psram' = [psram EXCEPT ![Line.n + 1] = "junk"]
                /\ load' = [load EXCEPT !.received = Torn]
                /\ Says("OK LOADB64", Torn)
             \/ rx' = Tail(rx) /\ Store(Line.n, "vocab") /\ Says("OK LOADB64", Line.n + 1)
    /\ UNCHANGED <<ready, cut, bus, runner, runs, resets>>

\* LOADCHUNK and the bytes that follow it, which may not all come in 15 s.
LoadChunk ==
    /\ Reads("LOADCHUNK")
    /\ \/ ~InPlace(Line.n) /\ UNCHANGED <<psram, load, cut>>
       \/ InPlace(Line.n) /\ Store(Line.n, "vocab") /\ cut' = cut
       \/ /\ InPlace(Line.n)
          /\ load' = [load EXCEPT !.expected = 0, !.received = 0]
          /\ psram' \in {psram, [psram EXCEPT ![Line.n + 1] = "junk"]}
          /\ cut' = TRUE
    /\ UNCHANGED <<answers, ready, bus, runner, runs, resets>>

\* Mutant: the count is not compared.
CompleteIfActive == load.active

Complete == load.active /\ load.received = load.expected

LoadEnd ==
    /\ Reads("LOADEND")
    /\ IF Complete THEN ready' = TRUE /\ load' = NoLoad /\ Says("OK LOAD", 0)
       ELSE Says("ERR", 0) /\ UNCHANGED <<ready, load>>
    /\ UNCHANGED <<psram, cut, bus, runner, runs, resets>>

StartBus ==
    /\ Reads("STARTBUS")
    /\ IF ready THEN bus' = TRUE /\ Says("OK STARTBUS", 0) ELSE Says("ERR", 0) /\ UNCHANGED bus
    /\ UNCHANGED <<ready, load, psram, cut, runner, runs, resets>>

Reset ==
    /\ resets < MaxResets
    /\ resets' = resets + 1
    /\ ready' = FALSE /\ load' = NoLoad /\ psram' = NoBlocks
    /\ cut' = FALSE /\ bus' = FALSE
    /\ rx' = <<>> /\ answers' = <<>>
    /\ UNCHANGED <<runner, runs>>

-----------------------------------------------------------------------------
\* The runner.

Sends(c, n) == rx' = Append(rx, Cmd(c, n)) /\ runner' = [wait |-> c, offset |-> n]

\* preload opens the port and drops the lines that have come.
Start ==
    /\ runner.wait = "closed" /\ runs < MaxRuns
    /\ runs' = runs + 1
    /\ answers' = <<>>
    /\ Sends("INFO", 0)
    /\ UNCHANGED <<board, resets>>

Closed == [wait |-> "closed", offset |-> 0]

\* An exception, a timeout of wait_line, or a signal ends the runner.
Killed ==
    /\ runner.wait # "closed"
    /\ runner' = Closed
    /\ UNCHANGED <<board, rx, answers, runs, resets>>

\* wait_line takes the first line with the prefix; "OK LOAD" is a prefix of
\* the answers to LOADBEGIN and LOADB64 as well.
Matches(a) ==
    CASE runner.wait = "INFO" -> a.line = "INFO"
      [] runner.wait = "LOADBEGIN" -> a.line = "OK LOADBEGIN"
      [] runner.wait = "LOADB64" -> a.line = "OK LOADB64"
      [] runner.wait = "LOADEND" -> a.line \in {"OK LOAD", "OK LOADB64", "OK LOADBEGIN"}
      [] runner.wait = "STARTBUS" -> a.line = "OK STARTBUS"

Waiting == runner.wait \notin {"closed", "started"}

\* A line with another prefix is skipped, an ERR line ends the runner.
Skips ==
    /\ Waiting /\ answers # <<>>
    /\ ~Matches(Head(answers))
    /\ answers' = Tail(answers)
    /\ runner' = IF Head(answers).line = "ERR" THEN Closed ELSE runner
    /\ UNCHANGED <<board, rx, runs, resets>>

Receipt(a) == a.n = runner.offset

\* In runner.offset, blocks sent; the next block, or LOADEND after the last.  A
\* signal inside write() leaves a part of the block's line.
NextBlock ==
    \/ /\ runner.offset < Size
       /\ \/ rx' = Append(rx, Cmd("LOADB64", runner.offset))
             /\ runner' = [wait |-> "LOADB64", offset |-> runner.offset + 1]
          \/ rx' = Append(rx, Cmd("part", runner.offset)) /\ runner' = Closed
    \/ runner.offset = Size /\ Sends("LOADEND", Size)

Proceeds ==
    /\ Waiting /\ answers # <<>>
    /\ Matches(Head(answers))
    /\ answers' = Tail(answers)
    /\ \/ runner.wait = "INFO" /\ Sends("LOADBEGIN", 0)
       \/ runner.wait = "LOADBEGIN" /\ NextBlock
       \/ /\ runner.wait = "LOADB64"
          /\ IF Receipt(Head(answers)) THEN NextBlock
             ELSE runner' = Closed /\ UNCHANGED rx
       \/ runner.wait = "LOADEND" /\ Sends("STARTBUS", Size)
       \/ runner.wait = "STARTBUS" /\ runner' = [runner EXCEPT !.wait = "started"] /\ UNCHANGED rx
    /\ UNCHANGED <<board, runs, resets>>

\* A person or another script with the port to itself sends any command.
OtherClient ==
    /\ runner.wait = "closed" /\ rx = <<>>
    /\ \/ \E c \in {"LOADBEGIN", "LOADEND", "STARTBUS"} : rx' = <<Cmd(c, 0)>>
       \/ \E c \in {"LOADB64", "LOADCHUNK"}, n \in 0..Size : rx' = <<Cmd(c, n)>>
    /\ answers' = <<>>
    /\ UNCHANGED <<board, runner, runs, resets>>

BoardStep == Info \/ LoadBegin \/ LoadB64 \/ PartOfLine \/ LoadChunk \/ LoadEnd \/ StartBus

Next == BoardStep \/ Reset \/ Start \/ Killed \/ Skips \/ Proceeds \/ OtherClient

Spec == Init /\ [][Next]_vars

-----------------------------------------------------------------------------
\* Properties.

Loaded == \A i \in 1..Size : psram[i] = "vocab"

(***************************************************************************)
(* STARTBUS answers "ERR STARTBUS_NOT_LOADED" unless a load was finished:  *)
(* a stage is ready only while its whole vocabulary is in place, however   *)
(* often the runner was killed, in the middle of a line too, and started   *)
(* again, and whatever is left of its commands; unless the bytes of a      *)
(* LOADCHUNK did not all come, which the runner never sends.               *)
(***************************************************************************)
ReadyMeansLoaded == ready => Loaded \/ cut

(***************************************************************************)
(* The same after a LOADCHUNK whose bytes did not all come, which answers  *)
(* "ERR LOADCHUNK_DATA": LOADEND then answers "ERR LOADEND_COUNT".         *)
(***************************************************************************)
FailedChunkEndsLoad == ready => Loaded

(***************************************************************************)
(* The vocabulary of a stage that is ready is never written: not by what   *)
(* is left of a block's line, nor by a second load, which LOADBEGIN must   *)
(* first make the stage unready for (the workers read the array without a  *)
(* lock).                                                                  *)
(***************************************************************************)
NeverWrittenWhileReady == [][ready /\ ready' => psram' = psram]_vars
=============================================================================
